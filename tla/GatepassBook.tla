---------------------------- MODULE GatepassBook ----------------------------
(***************************************************************************)
(* What the register of gatepasses promises, without transactions, counts  *)
(* or an index: a book with a page for every date.  A pass is entered at   *)
(* the end of a page in one step, and the number of a pass is its place    *)
(* there.  No line is ever crossed out, and no signature taken back.       *)
(* GatepassRegister implements it.                                         *)
(***************************************************************************)
EXTENDS Sequences

CONSTANTS Gatepass, Day

VARIABLES page,    \* [Day -> sequence of passes]
          signed   \* [Gatepass -> the signatures and the scan it carries]

vars == <<page, signed>>

Init == /\ page = [d \in Day |-> <<>>]
        /\ signed = [g \in Gatepass |-> {}]

\* Pass g has a line in the book.
Entered(g) == \E d \in Day : \E n \in DOMAIN page[d] : page[d][n] = g

Enter(g, d) == /\ ~Entered(g)
               /\ page' = [page EXCEPT ![d] = Append(page[d], g)]
               /\ UNCHANGED signed

\* The guard signs at the gate, or the signed paper is scanned; both stand for
\* the receiver's signature as well.
Sign(g, mark) == /\ Entered(g)
                 /\ signed' = [signed EXCEPT ![g] = @ \cup {"receiver", mark}]
                 /\ UNCHANGED page

Next == \E g \in Gatepass : \/ \E d \in Day : Enter(g, d)
                            \/ \E mark \in {"security", "scan"} : Sign(g, mark)

Spec == Init /\ [][Next]_vars
=============================================================================
