---------------------------- MODULE Enrollment -----------------------------
(***************************************************************************)
(* The enrollment reviews of one device: what ingestInventorySnapshot      *)
(* (router.go) makes of the requests of type 'device_enrollment' each time *)
(* the device's agent pushes its inventory, while reviewers move the       *)
(* requests between statuses and staff assign the device.                  *)
(*                                                                         *)
(* ensureInventoryEnrollmentRequest and completeInventoryEnrollmentRequest *)
(* run outside any transaction: each statement commits by itself.  Both    *)
(* look at the request touched last, of those with the device's key; every *)
(* UPDATE of a request touches it.                                         *)
(*                                                                         *)
(* Reviewers, staff and failures act at most Budget times.  A push that    *)
(* says nothing about its user is not one of these: the code leaves        *)
(* reviews alone then.                                                     *)
(***************************************************************************)
EXTENDS Naturals, FiniteSets

CONSTANTS Request,  \* the ids requests of this device may use
          Ingest,   \* the pushes of the agent being served at the same time
          Budget,   \* what reviewers, staff and failures do, at most
          None      \* no request

ASSUME BudgetAssumption == Budget \in Nat
ASSUME NoneAssumption == None \notin Request

VARIABLES status,    \* requests.status, "absent" for an id not in use
          newest,    \* the request with the latest updated_at
          assigned,  \* assets.assigned_to is a user
          spent,     \* what reviewers, staff and failures did
          pc,        \* where the handler of each push is,
          held,      \*   the request it found,
          was,       \*   the status it found it in,
          owned      \*   and whether it found the device assigned

reviews == <<status, newest>>
ops     == <<pc, held, was, owned>>
vars    == <<reviews, assigned, spent, ops>>

-----------------------------------------------------------------------------
Active == {"pending", "in_progress"}

\* updateRequestStatus takes any text: "other" is one the ingest does not know.
Chosen == Active \cup {"resolved", "rejected", "other"}
Status == Chosen \cup {"absent"}

TypeOK == /\ status \in [Request -> Status]
          /\ newest \in Request \cup {None}
          /\ assigned \in BOOLEAN
          /\ spent \in 0 .. Budget
          /\ pc \in [Ingest -> {"idle", "find", "write", "note", "complete", "check", "resolve"}]
          /\ held \in [Ingest -> Request \cup {None}]
          /\ was \in [Ingest -> Status]
          /\ owned \in [Ingest -> BOOLEAN]

Init == /\ status = [q \in Request |-> "absent"]
        /\ newest = None
        /\ assigned \in BOOLEAN
        /\ spent = 0
        /\ pc = [i \in Ingest |-> "idle"]
        /\ held = [i \in Ingest |-> None]
        /\ was = [i \in Ingest |-> "absent"]
        /\ owned = [i \in Ingest |-> FALSE]

Goto(i, where) == pc' = [pc EXCEPT ![i] = where]

\* The partial unique index on the key lets request q become active.
MayBeActive(q) == \A p \in Request \ {q} : status[p] \notin Active

Touch(q, s) == /\ status' = [status EXCEPT ![q] = s]
               /\ newest' = q

\* lookupInventoryEnrollmentRequest.
Lookup(i) == /\ held' = [held EXCEPT ![i] = newest]
             /\ was' = [was EXCEPT ![i] = IF newest = None THEN "absent" ELSE status[newest]]

-----------------------------------------------------------------------------
(* ensureInventoryEnrollmentRequest. *)

\* A push arrives; lookupInventoryAssignedUser.
Begin(i) == /\ pc[i] = "idle"
            /\ owned' = [owned EXCEPT ![i] = assigned]
            /\ Goto(i, "find")
            /\ UNCHANGED <<reviews, assigned, spent, held, was>>

Find(i) == /\ pc[i] = "find"
           /\ Lookup(i)
           /\ Goto(i, "write")
           /\ UNCHANGED <<reviews, assigned, spent, owned>>

\* The review found is under way: UPDATE its description.
Refresh(i) == /\ pc[i] = "write" /\ was[i] \in Active
              /\ newest' = held[i]
              /\ Goto(i, "complete")
              /\ UNCHANGED <<status, assigned, spent, held, was, owned>>

\* Mutant of Reopen: a status of its own.
Reopen_OwnStatus(i) ==
    /\ pc[i] = "write" /\ was[i] \in {"resolved", "rejected"} /\ ~owned[i]
    /\ MayBeActive(held[i])
    /\ Touch(held[i], "reopened")
    /\ Goto(i, "note")
    /\ UNCHANGED <<assigned, spent, held, was, owned>>

\* It is decided, and the device is nobody's: UPDATE it to a pending one.
Reopen(i) == /\ pc[i] = "write" /\ was[i] \in {"resolved", "rejected"} /\ ~owned[i]
             /\ MayBeActive(held[i])
             /\ Touch(held[i], "pending")
             /\ Goto(i, "note")
             /\ UNCHANGED <<assigned, spent, held, was, owned>>

\* "Enrollment review reopened after a fresh inventory sync".
Note(i) == /\ pc[i] = "note"
           /\ Goto(i, "complete")
           /\ UNCHANGED <<reviews, assigned, spent, held, was, owned>>

\* There is none, or one in another status, and the device is nobody's: INSERT.
Insert(i) == /\ pc[i] = "write" /\ was[i] \in {"absent", "other"} /\ ~owned[i]
             /\ \E q \in Request : /\ status[q] = "absent"
                                   /\ MayBeActive(q)
                                   /\ Touch(q, "pending")
             /\ Goto(i, "complete")
             /\ UNCHANGED <<assigned, spent, held, was, owned>>

\* Mutant of Skip: a rejection is final.
Skip_Rejected(i) ==
    /\ pc[i] = "write" /\ was[i] \notin Active /\ (owned[i] \/ was[i] = "rejected")
    /\ Goto(i, "complete")
    /\ UNCHANGED <<reviews, assigned, spent, held, was, owned>>

\* The device has a user, and the review is not under way: nothing to do.
Skip(i) == /\ pc[i] = "write" /\ was[i] \notin Active /\ owned[i]
           /\ Goto(i, "complete")
           /\ UNCHANGED <<reviews, assigned, spent, held, was, owned>>

\* The unique index refuses the write: the error is logged, the push goes on.
Collide(i) == /\ pc[i] = "write" /\ was[i] \notin Active /\ ~owned[i]
              /\ \E p \in Request : /\ status[p] \in Active
                                    /\ was[i] \in {"resolved", "rejected"} => p # held[i]
              /\ Goto(i, "complete")
              /\ UNCHANGED <<reviews, assigned, spent, held, was, owned>>

-----------------------------------------------------------------------------
(* completeInventoryEnrollmentRequest. *)

FindAgain(i) == /\ pc[i] = "complete"
                /\ Lookup(i)
                /\ Goto(i, IF newest = None THEN "idle" ELSE "check")
                /\ UNCHANGED <<reviews, assigned, spent, owned>>

Check(i) == /\ pc[i] = "check"
            /\ Goto(i, IF assigned THEN "resolve" ELSE "idle")
            /\ UNCHANGED <<reviews, assigned, spent, held, was, owned>>

\* Mutant of Resolve: only reviews nobody has started.
Resolve_PendingOnly(i) ==
    /\ pc[i] = "resolve"
    /\ IF status[held[i]] = "pending" THEN Touch(held[i], "resolved") ELSE UNCHANGED reviews
    /\ Goto(i, "idle")
    /\ UNCHANGED <<assigned, spent, held, was, owned>>

\* UPDATE to resolved, whatever the status; the comment changes nothing here.
Resolve(i) == /\ pc[i] = "resolve"
              /\ Touch(held[i], "resolved")
              /\ Goto(i, "idle")
              /\ UNCHANGED <<assigned, spent, held, was, owned>>

-----------------------------------------------------------------------------
(* Failures, reviewers and staff. *)

\* An SQL error in ensure... leaves complete... to run; in complete..., or when
\* the server restarts, the push ends.
Fail(i) == /\ pc[i] # "idle"
           /\ spent < Budget /\ spent' = spent + 1
           /\ Goto(i, "idle") \/ (pc[i] \in {"find", "write", "note"} /\ Goto(i, "complete"))
           /\ UNCHANGED <<reviews, assigned, held, was, owned>>

\* updateRequestStatus.
SetStatus(q, s) == /\ status[q] # "absent"
                   /\ spent < Budget /\ spent' = spent + 1
                   /\ s \in Active => MayBeActive(q)
                   /\ Touch(q, s)
                   /\ UNCHANGED <<assigned, ops>>

\* assignRequest touches the request.
AssignRequest(q) == /\ status[q] # "absent"
                    /\ spent < Budget /\ spent' = spent + 1
                    /\ newest' = q
                    /\ UNCHANGED <<status, assigned, ops>>

\* The device gets a user (an employee's address in the push, or staff) or
\* loses it (unassignAsset).
AssignDevice == /\ spent < Budget /\ spent' = spent + 1
                /\ assigned' = ~assigned
                /\ UNCHANGED <<reviews, ops>>

Step(i) == \/ Begin(i) \/ Find(i) \/ Refresh(i) \/ Reopen(i) \/ Note(i) \/ Insert(i)
           \/ Skip(i) \/ Collide(i) \/ FindAgain(i) \/ Check(i) \/ Resolve(i)

Next == \/ \E i \in Ingest : Step(i) \/ Fail(i)
        \/ \E q \in Request : AssignRequest(q) \/ \E s \in Chosen : SetStatus(q, s)
        \/ AssignDevice

Spec == Init /\ [][Next]_vars

\* The agent's timer keeps pushing, and a handler that runs goes on.
FairSpec == Spec /\ \A i \in Ingest : WF_vars(Step(i))

-----------------------------------------------------------------------------
\* Once staff are quiet, a device nobody uses always has a review under way:
\* no overlap of pushes, and no push that fails half-way, loses it for good.
StaysUnderReview == <>[]~assigned => <>[](\E q \in Request : status[q] \in Active)

\* Once staff are quiet, the newest review of a device that has a user is
\* resolved and stays so, if there ever was a review.
NewestGetsResolved ==
    <>[]assigned => <>[](newest # None => status[newest] = "resolved")

\* "Enrollment review reopened": a push reopens reviews that are decided.  It
\* does not look again before it writes, so it also sends a review back to
\* pending, its reviewer removed, that somebody has just started.
ReopensOnlyDecided ==
    [][\A i \in Ingest : pc[i] = "write" /\ pc'[i] = "note" =>
                            status[held[i]] \in {"resolved", "rejected"}]_vars
=============================================================================
