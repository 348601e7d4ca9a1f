----------------------------- MODULE StockBooks -----------------------------
(***************************************************************************)
(* What a stock operation promises: it happens whole, in one step, or not  *)
(* at all.  StockLedger implements it but for the commit of an operation   *)
(* that has overwritten a change of another one.                           *)
(***************************************************************************)
EXTENDS Integers

CONSTANTS Branch, Quantity, None

VARIABLES stock,   \* [Branch -> the level]
          into,    \* [Branch -> what was ever brought there]
          outof    \* [Branch -> what was ever taken from there]

vars == <<stock, into, outof>>

Init == /\ stock \in [Branch -> Nat]
        /\ into = stock
        /\ outof = [b \in Branch |-> 0]

Part(b, c, q) == IF b = c THEN q ELSE 0

\* q pieces leave branch s, which has them, and come to branch t; one of the two
\* is None when they come from or go to the outside.
Move(s, t, q) ==
    /\ s # t
    /\ s \in Branch => q <= stock[s]
    /\ stock' = [b \in Branch |-> stock[b] + Part(b, t, q) - Part(b, s, q)]
    /\ into' = [b \in Branch |-> into[b] + Part(b, t, q)]
    /\ outof' = [b \in Branch |-> outof[b] + Part(b, s, q)]

Next == \E s, t \in Branch \cup {None}, q \in Quantity : Move(s, t, q)

Spec == Init /\ [][Next]_vars
=============================================================================
