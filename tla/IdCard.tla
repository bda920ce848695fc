--------------------------------- MODULE IdCard ---------------------------------
(***************************************************************************)
(* How a worker proves an identity with the number of a card (validateIdCard   *)
(* and verifyIdentity of auth.service.ts): the page and the service accept a  *)
(* small and a capital X, the check digit is computed from two tables, and    *)
(* cards are told apart by a hash of what was typed.  What the calls of two   *)
(* devices do to each other is in Workers; here one call follows another.     *)
(***************************************************************************)
EXTENDS Integers, Sequences

CONSTANTS
  IdNumbers,      \* numbers that were issued
  MaxCalls    \* bound: numbers that are sent

VARIABLES
  card,    \* the number on the card
  typed,   \* what is in the field of the page, of one account after another
  held,    \* what the verified accounts were verified with
  calls

vars == <<card, typed, held, calls>>

\* The last character may be an X, which is 10; 11 is a small one.
X == 10
SmallX == 11
Numbers == [1..18 -> 0..SmallX]
Upper(d) == IF d = SmallX THEN X ELSE d

\* GB 11643: weighted with powers of two, the last digit with one, a number leaves 1.
Standard(c) ==
  131072*c[1] + 65536*c[2] + 32768*c[3] + 16384*c[4] + 8192*c[5] + 4096*c[6]
    + 2048*c[7] + 1024*c[8] + 512*c[9] + 256*c[10] + 128*c[11] + 64*c[12]
    + 32*c[13] + 16*c[14] + 8*c[15] + 4*c[16] + 2*c[17] + c[18]

Issued(c) == Standard(c) % 11 = 1 /\ \A i \in 1..17 : c[i] < X

Init == card \in IdNumbers /\ typed = << >> /\ held = << >> /\ calls = 0

-----------------------------------------------------------------------------
(* Typing *)

Same(c, d) == \A i \in 1..18 : Upper(c[i]) = Upper(d[i])

\* The number of the card, its X in either case.
Right == {c \in {card, [card EXCEPT ![18] = SmallX]} : Same(c, card)}

Type(c) == typed = << >> /\ calls < MaxCalls /\ typed' = c /\ UNCHANGED <<card, held, calls>>

\* One character is wrong, or two neighbours have changed places.
TypeRight == \E c \in Right : Type(c)
TypeWrong == \E c \in Right, i \in 1..18, d \in 0..SmallX : Type([c EXCEPT ![i] = d])
TypeSwapped == \E c \in Right, i \in 1..17 : Type([c EXCEPT ![i] = c[i + 1], ![i + 1] = c[i]])

-----------------------------------------------------------------------------
(* The check *)

Sum(c) ==
  7*c[1] + 9*c[2] + 10*c[3] + 5*c[4] + 8*c[5] + 4*c[6] + 2*c[7] + 1*c[8] + 6*c[9]
    + 3*c[10] + 7*c[11] + 9*c[12] + 10*c[13] + 5*c[14] + 8*c[15] + 4*c[16] + 2*c[17]

checkCodes == <<1, 0, X, 9, 8, 7, 6, 5, 4, 3, 2>>

validateIdCard(c) ==
  /\ \A i \in 1..17 : c[i] < X
  /\ Upper(c[18]) = checkCodes[(Sum(c) % 11) + 1]

-----------------------------------------------------------------------------
(* The call *)

\* An account that is not verified sends what is typed; the hash of it, as it was typed, is
\* looked for among those of the others.
verifyIdentity ==
  /\ typed # << >> /\ typed' = << >> /\ calls' = calls + 1
  /\ held' = IF validateIdCard(typed) /\ \A i \in DOMAIN held : held[i] # typed
             THEN Append(held, typed) ELSE held
  /\ UNCHANGED card

Next == TypeRight \/ TypeWrong \/ TypeSwapped \/ verifyIdentity

Spec == Init /\ [][Next]_vars

-----------------------------------------------------------------------------
(* Properties *)

TypeOK ==
  /\ card \in IdNumbers /\ typed \in Numbers \cup {<< >>} /\ held \in Seq(Numbers)
  /\ calls \in 0..MaxCalls

\* Nobody is verified with a number in which a character is wrong or two neighbours have
\* changed places.
MistakeIsRefused == \A i \in DOMAIN held : Same(held[i], card)

\* Whoever types the number as it was issued passes the check: the two tables are those of
\* the standard.
CardPasses == typed # << >> /\ Same(typed, card) => validateIdCard(typed)

\* A card verifies one account, unless it ends in X, which is hashed as it was typed.
OneAccountUnlessX == card[18] # X => Len(held) <= 1
=============================================================================
