------------------------------ MODULE MCServices ------------------------------
(* Instance of Services: two or three rows of each kind, and for each area the  *)
(* calls that let two handlers overlap and a third one see what they have done. *)
EXTENDS Services

MCCalls ==
  [reviews |-> 3, billing |-> 4, attendance |-> 3, checkpoints |-> 6, project |-> 3, accounts |-> 4,
   workers |-> 4, issues |-> 2, bell |-> 2, advisor |-> 3, drafting |-> 1,
   watch |-> 1, catalogue |-> 3, board |-> 3,
   companies |-> 4, identity |-> 2, market |-> 4]

MCMaxListed == [role |-> 1, skill |-> 2, point |-> 3]

\* Numbers that end in X, 0, 1 and 9.
MCIdNumbers ==
  {<<4, 4, 0, 3, 0, 8, 1, 9, 8, 2, 0, 2, 0, 6, 6, 0, 8, 10>>,
   <<5, 3, 0, 3, 2, 3, 1, 9, 9, 2, 0, 2, 1, 5, 1, 6, 2, 0>>,
   <<4, 3, 0, 4, 1, 7, 1, 9, 5, 5, 1, 2, 1, 3, 7, 0, 1, 1>>,
   <<5, 5, 0, 3, 2, 8, 1, 9, 7, 2, 0, 2, 2, 9, 7, 5, 8, 9>>}
=============================================================================
