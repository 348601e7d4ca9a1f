------------------------- MODULE GatepassRegister --------------------------
(***************************************************************************)
(* The register of gatepasses (modules.go): createGatepass numbers a pass  *)
(* by counting the passes of its issue date, decideGatepass,               *)
(* completeGatepass and uploadReceiverSignedGatepass sign it off.          *)
(*                                                                         *)
(* createGatepass counts and inserts in one transaction, but at READ       *)
(* COMMITTED: two of them may count the same passes.  The unique index on  *)
(* gatepass_number then stops the second.  The sign-offs are one UPDATE    *)
(* each, in whatever order they are asked for.  Nothing deletes a pass.    *)
(***************************************************************************)
EXTENDS Naturals, FiniteSets

CONSTANTS Gatepass,  \* the ids gatepasses may use
          Day,       \* issue dates
          Clerk,     \* the createGatepass requests being served at the same time
          None

ASSUME NoneAssumption == None \notin Day

VARIABLES day,       \* gatepasses.issue_date, None for an id not in use
          number,    \* the sequence part of gatepass_number
          status,    \* gatepasses.status
          marks,     \* which of receiver_signed_at, security_signed_at and the
                     \*   receiver_signed_file columns are set
          counted,   \* the number a clerk's transaction has computed, 0 for none,
          writing    \*   and the date it is for

register == <<day, number, status, marks>>
vars     == <<register, counted, writing>>

TypeOK == /\ day \in [Gatepass -> Day \cup {None}]
          /\ number \in [Gatepass -> Nat]
          /\ status \in [Gatepass -> {"pending", "approved", "rejected", "completed", "closed"}]
          /\ marks \in [Gatepass -> SUBSET {"receiver", "security", "scan"}]
          /\ counted \in [Clerk -> Nat]
          /\ writing \in [Clerk -> Day \cup {None}]

Init == /\ day = [g \in Gatepass |-> None]
        /\ number = [g \in Gatepass |-> 0]
        /\ status = [g \in Gatepass |-> "pending"]
        /\ marks = [g \in Gatepass |-> {}]
        /\ counted = [k \in Clerk |-> 0]
        /\ writing = [k \in Clerk |-> None]

IssuedOn(d) == {g \in Gatepass : day[g] = d}
Issued(g)   == day[g] # None

Done(k) == /\ counted' = [counted EXCEPT ![k] = 0]
           /\ writing' = [writing EXCEPT ![k] = None]

-----------------------------------------------------------------------------
\* createGatepass: SELECT COUNT(*) + 1 of the date.
Count(k, d) ==
    /\ writing[k] = None
    /\ counted' = [counted EXCEPT ![k] = Cardinality(IssuedOn(d)) + 1]
    /\ writing' = [writing EXCEPT ![k] = d]
    /\ UNCHANGED register

\* Mutant of Insert: the schema without the unique index.
Insert_NoIndex(k) ==
    /\ writing[k] # None
    /\ \E g \in Gatepass :
         /\ ~Issued(g)
         /\ day' = [day EXCEPT ![g] = writing[k]]
         /\ number' = [number EXCEPT ![g] = counted[k]]
    /\ Done(k)
    /\ UNCHANGED <<status, marks>>

\* The INSERT and the commit; the number must not be taken on that date.
Insert(k) ==
    /\ writing[k] # None
    /\ \A g \in IssuedOn(writing[k]) : number[g] # counted[k]
    /\ \E g \in Gatepass :
         /\ ~Issued(g)
         /\ day' = [day EXCEPT ![g] = writing[k]]
         /\ number' = [number EXCEPT ![g] = counted[k]]
    /\ Done(k)
    /\ UNCHANGED <<status, marks>>

\* The number is taken, or the transaction fails otherwise.
Abort(k) ==
    /\ writing[k] # None
    /\ Done(k)
    /\ UNCHANGED register

-----------------------------------------------------------------------------
\* decideGatepass, from approveGatepass and rejectGatepass.
Decide(g, s) ==
    /\ Issued(g)
    /\ status' = [status EXCEPT ![g] = s]
    /\ UNCHANGED <<day, number, marks, counted, writing>>

\* Mutant of Complete: the receiver's signature is left to the upload.
Complete_SecurityOnly(g) ==
    /\ Issued(g)
    /\ status' = [status EXCEPT ![g] = "completed"]
    /\ marks' = [marks EXCEPT ![g] = @ \cup {"security"}]
    /\ UNCHANGED <<day, number, counted, writing>>

\* completeGatepass signs for the receiver too, unless that has been done.
Complete(g) ==
    /\ Issued(g)
    /\ status' = [status EXCEPT ![g] = "completed"]
    /\ marks' = [marks EXCEPT ![g] = @ \cup {"receiver", "security"}]
    /\ UNCHANGED <<day, number, counted, writing>>

\* Mutant of Upload: the status is the section the page shows it in.
Upload_Archived(g) ==
    /\ Issued(g)
    /\ status' = [status EXCEPT ![g] = "archived"]
    /\ marks' = [marks EXCEPT ![g] = @ \cup {"receiver", "scan"}]
    /\ UNCHANGED <<day, number, counted, writing>>

\* uploadReceiverSignedGatepass.
Upload(g) ==
    /\ Issued(g)
    /\ status' = [status EXCEPT ![g] = "closed"]
    /\ marks' = [marks EXCEPT ![g] = @ \cup {"receiver", "scan"}]
    /\ UNCHANGED <<day, number, counted, writing>>

Next == \/ \E k \in Clerk : Insert(k) \/ Abort(k) \/ \E d \in Day : Count(k, d)
        \/ \E g \in Gatepass : \/ Decide(g, "approved") \/ Decide(g, "rejected")
                               \/ Complete(g) \/ Upload(g)

Spec == Init /\ [][Next]_vars

-----------------------------------------------------------------------------
\* The passes of a date are numbered 1, 2, ... without a gap and without a
\* number given twice, however many clerks count at once and however many of
\* their transactions fail: a failed one leaves no hole, a stale count is
\* refused.
DenseNumbers ==
    \A d \in Day : {number[g] : g \in IssuedOn(d)} = 1 .. Cardinality(IssuedOn(d))

\* A pass that was signed off shows the signatures that its status tells of, in
\* whatever order it was approved, completed and uploaded.
SignedOff ==
    \A g \in Gatepass :
       /\ status[g] = "completed" => {"receiver", "security"} \subseteq marks[g]
       /\ status[g] = "closed" => {"receiver", "scan"} \subseteq marks[g]

-----------------------------------------------------------------------------
(* The promise. *)

\* The passes of a date in the order of their numbers.
Page(d) == [n \in 1 .. Cardinality(IssuedOn(d)) |->
              IF \E g \in IssuedOn(d) : number[g] = n
                THEN CHOOSE g \in IssuedOn(d) : number[g] = n
                ELSE None]

Book == INSTANCE GatepassBook WITH page   <- [d \in Day |-> Page(d)],
                                   signed <- marks

\* The two statements of createGatepass, with whatever other clerks commit between
\* them and whoever fails, act like one step that enters a pass at the end of
\* its date's page; and no sign-off takes back what another has put there.
ImplementsBook == Book!Spec
=============================================================================
