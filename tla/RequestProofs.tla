--------------------------- MODULE RequestProofs ---------------------------
(***************************************************************************)
(* Proofs about the two modules whose handlers write the table requests    *)
(* under its unique index: ChatTickets, for every set of chats, tickets,   *)
(* people and handlers, and Enrollment, for every set of requests and of   *)
(* pushes.  They share no row: the former write requests of type           *)
(* 'support_chat', the latter of type 'device_enrollment'.                 *)
(***************************************************************************)
EXTENDS ChatTickets, TLAPS

\* A link, on an open chat too, leads to a ticket of that chat which notes a
\* closing; a chat that is not there has none.
LinkIsOwn ==
    \A c \in Channel :
       /\ state[c] \in {"absent", "deleted"} => link[c] = None
       /\ link[c] # None => origin[link[c]] = c /\ "closed" \in notes[link[c]]

\* A handler at work serves a chat that has been created, and holds no ticket
\* before it has read one.
ServesChat ==
    \A a \in Actor :
       /\ pc[a] # "idle" => chan[a] \in Channel /\ state[chan[a]] # "absent"
       /\ pc[a] \in {"idle", "close"} => held[a] = None

\* LinkIsOwn and ServesChat are what the four safety invariants of ChatTickets
\* lack to be inductive: a closing copies the link of an open chat into a
\* handler, and a ticket is issued for the chat a handler serves.
Inv == /\ TypeOK
       /\ LinkIsOwn
       /\ ServesChat
       /\ ClosedHasTicket
       /\ HeldTicketIsOwn
       /\ OneActiveTicket
       /\ NoOrphanTicket

USE NoneAssumption

\* Init establishes the inductive invariant.
LEMMA InitInv == Init => Inv
  BY DEF Init, Inv, TypeOK, LinkIsOwn, ServesChat, ClosedHasTicket, HeldTicketIsOwn,
         OneActiveTicket, NoOrphanTicket, Status, Active, Issued, Exists, ActiveOf

\* Handlers that only read or end leave the rows alone.
LEMMA ReadStep ==
    ASSUME Inv, UNCHANGED <<chatVars, ticketVars>>,
           NEW a \in Actor, NEW c \in Channel,
           \/ CloseBegin(a, c) \/ CloseRead(a) \/ Answer(a)
           \/ ReopenBegin(a, c) \/ ReopenRead(a) \/ Abort(a)
    PROVE  Inv'
<1> USE DEF chatVars, ticketVars
<1>1. TypeOK'
  BY DEF Inv, TypeOK, CloseBegin, CloseRead, Answer, ReopenBegin, ReopenRead, Abort, Finish, Exists,
         ServesChat
<1>2. LinkIsOwn' /\ ClosedHasTicket' /\ OneActiveTicket' /\ NoOrphanTicket'
  BY DEF Inv, LinkIsOwn, ClosedHasTicket, OneActiveTicket, NoOrphanTicket, ActiveOf, Exists, Issued
<1>3. ServesChat'
  BY DEF Inv, TypeOK, ServesChat, CloseBegin, CloseRead, Answer, ReopenBegin, ReopenRead, Abort, Finish
<1>4. HeldTicketIsOwn'
  BY DEF Inv, TypeOK, HeldTicketIsOwn, ServesChat, LinkIsOwn, ClosedHasTicket, CloseBegin, CloseRead,
         Answer, ReopenBegin, ReopenRead, Abort, Finish, Exists
<1>5. QED
  BY <1>1, <1>2, <1>3, <1>4 DEF Inv

\* Creating a chat, changing its owner, deleting it.
LEMMA ChatRowStep ==
    ASSUME Inv, NEW c \in Channel, Create(c) \/ SetOwner(c) \/ Delete(c)
    PROVE  Inv'
<1> USE DEF chatVars, ticketVars, opVars
<1>1. TypeOK'
  BY DEF Inv, TypeOK, Create, SetOwner, Delete
<1>2. LinkIsOwn' /\ ClosedHasTicket' /\ ServesChat'
  BY DEF Inv, TypeOK, LinkIsOwn, ClosedHasTicket, ServesChat, Create, SetOwner, Delete, Exists
<1>3. HeldTicketIsOwn' /\ OneActiveTicket'
  BY DEF Inv, HeldTicketIsOwn, OneActiveTicket, ActiveOf, Create, SetOwner, Delete
<1>4. NoOrphanTicket'
  BY DEF Inv, TypeOK, NoOrphanTicket, Create, SetOwner, Delete, Exists, Issued
<1>5. QED
  BY <1>1, <1>2, <1>3, <1>4 DEF Inv

\* A closing that issues the ticket.
LEMMA ConvertNewStep == ASSUME Inv, NEW a \in Actor, ConvertNew(a) PROVE Inv'
<1>1. PICK t \in Ticket :
        /\ ~Issued(t)
        /\ origin' = [origin EXCEPT ![t] = chan[a]]
        /\ status' = [status EXCEPT ![t] = StatusFor(person[a])]
        /\ assignee' = [assignee EXCEPT ![t] = person[a]]
        /\ notes' = [notes EXCEPT ![t] = {"closed"}]
        /\ link' = [link EXCEPT ![chan[a]] = t]
        /\ held' = [held EXCEPT ![a] = t]
  BY DEF ConvertNew
<1>2. /\ pc[a] = "convert" /\ chan[a] \in Channel /\ Exists(chan[a])
      /\ ActiveOf(chan[a]) = {}
      /\ state' = [state EXCEPT ![chan[a]] = "closed"]
      /\ pc' = [pc EXCEPT ![a] = "told"]
      /\ UNCHANGED <<owner, chan, person>>
  BY DEF Inv, ServesChat, ConvertNew, SetState
<1>3. TypeOK'
  BY <1>1, <1>2 DEF Inv, TypeOK, StatusFor, Status, Active
<1>4. LinkIsOwn' /\ ClosedHasTicket'
  BY <1>1, <1>2 DEF Inv, TypeOK, LinkIsOwn, ClosedHasTicket, Exists, Issued
<1>5. ServesChat' /\ HeldTicketIsOwn'
  BY <1>1, <1>2 DEF Inv, TypeOK, ServesChat, HeldTicketIsOwn, Issued
<1>6. OneActiveTicket'
  <2>1. \A c \in Channel : ActiveOf(c)' \subseteq
           IF c = chan[a] THEN {t} ELSE ActiveOf(c)
    BY <1>1, <1>2 DEF Inv, TypeOK, ActiveOf
  <2>2. QED
    BY <2>1 DEF Inv, OneActiveTicket
<1>7. NoOrphanTicket'
  BY <1>1, <1>2 DEF Inv, TypeOK, NoOrphanTicket, Issued, Exists
<1>8. QED
  BY <1>3, <1>4, <1>5, <1>6, <1>7 DEF Inv

\* A closing that finds a ticket linked.
LEMMA ConvertLinkedStep == ASSUME Inv, NEW a \in Actor, ConvertLinked(a) PROVE Inv'
<1>1. held[a] \in Ticket
  BY DEF Inv, TypeOK, ConvertLinked
<1>2. TypeOK'
  <2>1. notes' \in [Ticket -> SUBSET {"closed", "reopened"}]
    BY <1>1 DEF Inv, TypeOK, ConvertLinked
  <2>2. QED
    BY <2>1 DEF Inv, TypeOK, ConvertLinked, SetState
<1>3. \A t \in Ticket : notes[t] \subseteq notes'[t]
  BY <1>1 DEF Inv, TypeOK, ConvertLinked
<1>4. LinkIsOwn' /\ ServesChat'
  BY <1>3 DEF Inv, TypeOK, LinkIsOwn, ServesChat, ConvertLinked, SetState, Exists
<1>5. HeldTicketIsOwn' /\ OneActiveTicket'
  BY <1>3 DEF Inv, TypeOK, HeldTicketIsOwn, OneActiveTicket, ActiveOf, ConvertLinked
<1>6. NoOrphanTicket'
  BY DEF Inv, TypeOK, NoOrphanTicket, ConvertLinked, SetState, Exists, Issued
<1>7. ClosedHasTicket'
  <2>1. Exists(chan[a]) => link[chan[a]] # None
    BY <1>1 DEF Inv, TypeOK, HeldTicketIsOwn, NoOrphanTicket, ServesChat, ConvertLinked, Issued
  <2>2. QED
    BY <1>3, <2>1 DEF Inv, TypeOK, ClosedHasTicket, LinkIsOwn, ConvertLinked, SetState
<1>8. QED
  BY <1>2, <1>4, <1>5, <1>6, <1>7 DEF Inv

\* A reopening.
LEMMA ReopenStep == ASSUME Inv, NEW a \in Actor, ReopenCommit(a) PROVE Inv'
<1>1. held[a] \in Ticket /\ origin[held[a]] = chan[a]
  BY DEF Inv, TypeOK, HeldTicketIsOwn, ReopenCommit
<1>2. TypeOK'
  <2>1. notes' \in [Ticket -> SUBSET {"closed", "reopened"}]
    BY <1>1 DEF Inv, TypeOK, ReopenCommit
  <2>2. QED
    BY <1>1, <2>1 DEF Inv, TypeOK, ReopenCommit, SetState, Finish, StatusFor, Status, Active
<1>3. \A t \in Ticket : notes[t] \subseteq notes'[t]
  BY <1>1 DEF Inv, TypeOK, ReopenCommit
<1>4. LinkIsOwn' /\ ServesChat' /\ ClosedHasTicket'
  BY <1>3 DEF Inv, TypeOK, LinkIsOwn, ServesChat, ClosedHasTicket, ReopenCommit, SetState, Finish,
              Exists
<1>5. HeldTicketIsOwn'
  BY <1>3 DEF Inv, TypeOK, HeldTicketIsOwn, ReopenCommit, Finish
<1>6. OneActiveTicket'
  BY <1>1 DEF Inv, TypeOK, OneActiveTicket, ActiveOf, ReopenCommit
<1>7. NoOrphanTicket'
  BY DEF Inv, TypeOK, NoOrphanTicket, ReopenCommit, SetState, Exists, Issued
<1>8. QED
  BY <1>2, <1>4, <1>5, <1>6, <1>7 DEF Inv

\* updateRequestStatus and assignRequest.
LEMMA TicketRowStep ==
    ASSUME Inv, NEW t \in Ticket,
           (\E s \in Status : SetStatus(t, s)) \/ (\E p \in Staff : Assign(t, p))
    PROVE  Inv'
<1> USE DEF chatVars, opVars
<1>1. TypeOK'
  BY DEF Inv, TypeOK, SetStatus, Assign
<1>2. LinkIsOwn' /\ ServesChat' /\ ClosedHasTicket' /\ HeldTicketIsOwn' /\ NoOrphanTicket'
  BY DEF Inv, LinkIsOwn, ServesChat, ClosedHasTicket, HeldTicketIsOwn, NoOrphanTicket, Exists,
         Issued, SetStatus, Assign
<1>3. OneActiveTicket'
  BY DEF Inv, TypeOK, OneActiveTicket, ActiveOf, SetStatus, Assign
<1>4. QED
  BY <1>1, <1>2, <1>3 DEF Inv

LEMMA NextInv == Inv /\ [Next]_vars => Inv'
<1> SUFFICES ASSUME Inv, [Next]_vars PROVE Inv'
  OBVIOUS
<1>1. CASE UNCHANGED vars
  BY <1>1 DEF vars, chatVars, ticketVars, opVars, Inv, TypeOK, LinkIsOwn, ServesChat, ClosedHasTicket,
              HeldTicketIsOwn, OneActiveTicket, NoOrphanTicket, ActiveOf, Exists, Issued
<1>2. ASSUME NEW c \in Channel, Create(c) \/ SetOwner(c) \/ Delete(c) PROVE Inv'
  BY <1>2, ChatRowStep
<1>3. ASSUME NEW a \in Actor, NEW c \in Channel, CloseBegin(a, c) \/ ReopenBegin(a, c) PROVE Inv'
  <2>1. UNCHANGED <<chatVars, ticketVars>>
    BY <1>3 DEF CloseBegin, ReopenBegin
  <2>2. QED
    BY <1>3, <2>1, ReadStep
<1>4. ASSUME NEW a \in Actor, CloseRead(a) \/ Answer(a) \/ ReopenRead(a) \/ Abort(a) PROVE Inv'
  <2>1. UNCHANGED <<chatVars, ticketVars>>
    BY <1>4 DEF CloseRead, Answer, ReopenRead, Abort
  <2>2. Channel # {}
    BY <1>4 DEF Inv, ServesChat, CloseRead, Answer, ReopenRead, Abort
  <2>3. QED
    BY <1>4, <2>1, <2>2, ReadStep
<1>5. ASSUME NEW a \in Actor, ConvertNew(a) \/ ConvertLinked(a) \/ ReopenCommit(a) PROVE Inv'
  BY <1>5, ConvertNewStep, ConvertLinkedStep, ReopenStep
<1>6. ASSUME NEW t \in Ticket, NEW p \in Staff, Assign(t, p) PROVE Inv'
  BY <1>6, TicketRowStep
<1>7. ASSUME NEW t \in Ticket, NEW s \in Status, SetStatus(t, s) PROVE Inv'
  BY <1>7, TicketRowStep
<1>8. QED
  BY <1>1, <1>2, <1>3, <1>4, <1>5, <1>6, <1>7 DEF Next

-----------------------------------------------------------------------------
\* The rows and the handlers agree, and have their types, in every reachable
\* state: what the chat page and the handlers read is never half a conversion.
THEOREM Invariance == Spec => []Inv
<1>1. Inv /\ [Next]_vars => Inv'
  BY NextInv
<1>2. QED
  BY InitInv, <1>1, PTL DEF Spec

\* Type correctness.
THEOREM TypeCorrect == Spec => []TypeOK
<1>1. Inv => TypeOK
  BY DEF Inv
<1>2. QED
  BY Invariance, <1>1, PTL

\* A closed chat carries a ticket of its own that notes the closing.
THEOREM ClosedChatsHaveTickets == Spec => []ClosedHasTicket
<1>1. Inv => ClosedHasTicket
  BY DEF Inv
<1>2. QED
  BY Invariance, <1>1, PTL

\* The ticket a handler holds belongs to the chat it serves, also after other
\* handlers have closed, reopened or deleted chats meanwhile.
THEOREM HeldTicketsAreOwn == Spec => []HeldTicketIsOwn
<1>1. Inv => HeldTicketIsOwn
  BY DEF Inv
<1>2. QED
  BY Invariance, <1>1, PTL

\* A chat has at most one ticket that is worked on.
THEOREM AtMostOneActive == Spec => []OneActiveTicket
<1>1. Inv => OneActiveTicket
  BY DEF Inv
<1>2. QED
  BY Invariance, <1>1, PTL

\* No issued ticket is left without its chat linking to one.
THEOREM NoOrphans == Spec => []NoOrphanTicket
<1>1. Inv => NoOrphanTicket
  BY DEF Inv
<1>2. QED
  BY Invariance, <1>1, PTL

\* A link only moves to a new ticket, and away from a ticket that is settled:
\* ConvertNew alone moves it, and its index check covers the former ticket
\* because LinkIsOwn says that ticket came from the same chat.
THEOREM LinksMoveWhenSettled == Spec => RelinkOnlySettled
<1> DEFINE Moves(c) == link[c] # None /\ state'[c] # "deleted" /\ link'[c] # link[c]
           Fine(c)  == /\ link'[c] # None
                       /\ ~Issued(link'[c])
                       /\ status[link[c]] \notin Active
<1>1. ASSUME Inv, [Next]_vars, NEW c \in Channel, Moves(c) PROVE Fine(c)
  <2>1. PICK a \in Actor : ConvertNew(a) /\ chan[a] = c
    BY <1>1 DEF Inv, TypeOK, Next, vars, chatVars, ticketVars, opVars, Create, SetOwner, Delete,
                CloseBegin, CloseRead, ConvertNew, ConvertLinked, Answer, ReopenBegin, ReopenRead,
                ReopenCommit, Abort, SetStatus, Assign
  <2>2. QED
    BY <1>1, <2>1 DEF Inv, TypeOK, LinkIsOwn, ConvertNew, ActiveOf
<1>2. Inv /\ [Next]_vars => [\A c \in Channel : Moves(c) => Fine(c)]_vars
  BY <1>1
<1>3. QED
  BY Invariance, <1>2, PTL DEF Spec, RelinkOnlySettled

\* A chat goes back to open together with an active ticket of its own.
THEOREM ReopenedChatsHaveActiveTickets == Spec => ReopenRevivesTicket
<1> DEFINE Back(c) == state[c] = "closed" /\ state'[c] = "open"
           Fine(c) == \E t \in Ticket : /\ origin'[t] = c
                                        /\ status'[t] \in Active
                                        /\ "reopened" \in notes'[t]
<1>1. ASSUME Inv, [Next]_vars, NEW c \in Channel, Back(c) PROVE Fine(c)
  <2>1. PICK a \in Actor : ReopenCommit(a) /\ chan[a] = c
    BY <1>1 DEF Inv, TypeOK, Next, vars, chatVars, ticketVars, opVars, Create, SetOwner, Delete,
                CloseBegin, CloseRead, ConvertNew, ConvertLinked, Answer, ReopenBegin, ReopenRead,
                ReopenCommit, Abort, SetStatus, Assign, SetState
  <2>2. held[a] \in Ticket /\ origin[held[a]] = c
    BY <1>1, <2>1 DEF Inv, TypeOK, HeldTicketIsOwn, ReopenCommit
  <2>3. /\ origin'[held[a]] = c
        /\ status'[held[a]] \in Active
        /\ "reopened" \in notes'[held[a]]
    BY <1>1, <2>1, <2>2 DEF Inv, TypeOK, ReopenCommit, StatusFor, Active
  <2>4. QED
    BY <2>2, <2>3
<1>2. Inv /\ [Next]_vars => [\A c \in Channel : Back(c) => Fine(c)]_vars
  BY <1>1
<1>3. QED
  BY Invariance, <1>2, PTL DEF Spec, ReopenRevivesTicket

-----------------------------------------------------------------------------
(* ChatTickets implements ChatCustody. *)

Keepers == [c \in Channel |-> Keeper(c)]
Live    == {t \in Ticket : status[t] \in Active}

\* The keepers after a step that changes the row of one chat only.
LEMMA KeepersAfter ==
    ASSUME NEW c \in Channel, \A d \in Channel \ {c} : Keeper(d)' = Keeper(d)
    PROVE  Keepers' = [Keepers EXCEPT ![c] = Keeper(c)']
  BY DEF Keepers

\* A step that leaves the states, links, origins and statuses alone is a stutter.
LEMMA Unseen == ASSUME UNCHANGED <<state, link, origin, status>>
                PROVE  UNCHANGED <<Keepers, origin, Live>>
  BY DEF Keepers, Keeper, Live

\* If no active ticket of c but t exists, t is free for c.
LEMMA Free == ASSUME NEW c, NEW t, ActiveOf(c) \subseteq {t}
              PROVE  Custody!FreeFor(c, t)
  BY DEF ActiveOf, Custody!FreeFor

LEMMA CustodyInit == Init => Custody!Init
  BY DEF Init, Custody!Init, Keeper, Active

LEMMA CustodyNew == ASSUME Inv, Inv', NEW a \in Actor, ConvertNew(a) PROVE Custody!Next
<1>1. PICK t \in Ticket :
        /\ ~Issued(t)
        /\ origin' = [origin EXCEPT ![t] = chan[a]]
        /\ status' = [status EXCEPT ![t] = StatusFor(person[a])]
        /\ link' = [link EXCEPT ![chan[a]] = t]
  BY DEF ConvertNew
<1>2. PICK c \in Channel : c = chan[a] /\ Exists(c) /\ state' = [state EXCEPT ![c] = "closed"]
  BY DEF Inv, ServesChat, ConvertNew, SetState
<1>3. Keepers' = [Keepers EXCEPT ![c] = t]
  <2>1. Keeper(c)' = t
    BY <1>1, <1>2 DEF Inv, TypeOK, Keeper
  <2>2. \A d \in Channel \ {c} : Keeper(d)' = Keeper(d)
    BY <1>1, <1>2 DEF Inv, TypeOK, Keeper
  <2>3. QED
    BY <1>2, <2>1, <2>2, KeepersAfter
<1>4. Live' = Live \cup {t}
  BY <1>1 DEF Inv, TypeOK, Live, StatusFor, Active
<1>5. Keepers[c] \notin {"nobody", "gone"}
  BY <1>2, TicketAssumption DEF Inv, TypeOK, Keepers, Keeper, Exists, ClosedHasTicket
<1>6. Custody!FreeFor(c, t)
  BY <1>2, Free DEF ConvertNew
<1>7. Custody!Issue(c, t)
  BY <1>1, <1>2, <1>3, <1>4, <1>5, <1>6 DEF Custody!Issue, Keepers, Live, Issued
<1>8. QED
  BY <1>2, <1>7 DEF Custody!Next

LEMMA CustodyLinked ==
    ASSUME Inv, Inv', NEW a \in Actor, ConvertLinked(a)
    PROVE  Custody!Next \/ UNCHANGED <<Keepers, origin, Live>>
<1>1. PICK c \in Channel : c = chan[a]
  BY DEF Inv, ServesChat, ConvertLinked
<1>2. CASE state[c] = "open"
  <2>1. state' = [state EXCEPT ![c] = "closed"] /\ UNCHANGED <<link, origin, status>>
    BY <1>1, <1>2 DEF ConvertLinked, SetState, Exists
  <2>2. PICK t \in Ticket : t = link[c] /\ origin[t] = c
    <3>1. state'[c] = "closed"
      BY <1>1, <2>1 DEF Inv, TypeOK
    <3>2. QED
      BY <1>1, <2>1, <3>1 DEF Inv, TypeOK, ClosedHasTicket
  <2>3. Keepers' = [Keepers EXCEPT ![c] = t]
    <3>1. Keeper(c)' = t
      BY <1>1, <2>1, <2>2 DEF Inv, TypeOK, Keeper
    <3>2. \A d \in Channel \ {c} : Keeper(d)' = Keeper(d)
      BY <2>1 DEF Inv, TypeOK, Keeper
    <3>3. QED
      BY <1>1, <3>1, <3>2, KeepersAfter
  <2>4. Live' = Live /\ Keepers[c] = "chat"
    BY <1>1, <1>2, <2>1 DEF Live, Keepers, Keeper
  <2>5. Custody!HandBack(c, t)
    BY <2>1, <2>2, <2>3, <2>4 DEF Custody!HandBack, Keepers, Live
  <2>6. QED
    BY <1>1, <2>2, <2>5 DEF Custody!Next
<1>3. CASE state[c] # "open"
  <2>1. UNCHANGED <<state, link, origin, status>>
    BY <1>1, <1>3 DEF Inv, TypeOK, ConvertLinked, SetState, Exists
  <2>2. QED
    BY <2>1, Unseen
<1>4. QED
  BY <1>2, <1>3

LEMMA CustodyReopen == ASSUME Inv, NEW a \in Actor, ReopenCommit(a) PROVE Custody!Next
<1>1. PICK c \in Channel, t \in Ticket : c = chan[a] /\ t = held[a] /\ origin[t] = c
  BY DEF Inv, TypeOK, ServesChat, HeldTicketIsOwn, ReopenCommit
<1>2. Live' = Live \cup {t}
  BY <1>1 DEF Inv, TypeOK, ReopenCommit, Live, StatusFor, Active
<1>3. Custody!FreeFor(c, t)
  BY <1>1, Free DEF ReopenCommit
<1>4. CASE Exists(c)
  <2>1. state' = [state EXCEPT ![c] = "open"] /\ UNCHANGED <<link, origin>>
    BY <1>1, <1>4 DEF ReopenCommit, SetState
  <2>2. Keepers' = [Keepers EXCEPT ![c] = "chat"]
    <3>1. Keeper(c)' = "chat"
      BY <1>1, <2>1 DEF Inv, TypeOK, Keeper
    <3>2. \A d \in Channel \ {c} : Keeper(d)' = Keeper(d)
      BY <2>1 DEF Inv, TypeOK, Keeper
    <3>3. QED
      BY <1>1, <3>1, <3>2, KeepersAfter
  <2>3. Keepers[c] \notin {"nobody", "gone"}
    BY <1>1, <1>4, TicketAssumption DEF Inv, TypeOK, Keepers, Keeper, Exists, ClosedHasTicket
  <2>4. Custody!TakeBack(c, t)
    BY <1>1, <1>2, <1>3, <2>1, <2>2, <2>3 DEF Custody!TakeBack, Keepers, Live
  <2>5. QED
    BY <1>1, <2>4 DEF Custody!Next
<1>5. CASE ~Exists(c)
  <2>1. UNCHANGED <<state, link, origin>>
    BY <1>1, <1>5 DEF ReopenCommit, SetState
  <2>2. Keepers' = Keepers
    BY <2>1 DEF Keepers, Keeper
  <2>3. Custody!Revive(t)
    BY <1>1, <1>2, <1>3, <2>1, <2>2 DEF Custody!Revive, Keepers, Live
  <2>4. QED
    BY <1>1, <2>3 DEF Custody!Next
<1>6. QED
  BY <1>4, <1>5

LEMMA CustodyRow ==
    ASSUME Inv, NEW c \in Channel, Create(c) \/ Delete(c)
    PROVE  Custody!Next
<1>1. UNCHANGED <<origin, Live>>
  BY DEF Create, Delete, ticketVars, Live
<1>2. \A d \in Channel \ {c} : Keeper(d)' = Keeper(d)
  BY DEF Inv, TypeOK, Create, Delete, Keeper
<1>3. Keepers' = [Keepers EXCEPT ![c] = Keeper(c)']
  BY <1>2, KeepersAfter
<1>4. CASE Create(c)
  <2>1. Keepers[c] = "nobody" /\ Keeper(c)' = "chat"
    BY <1>4 DEF Inv, TypeOK, Create, Keepers, Keeper
  <2>2. Custody!Start(c)
    BY <1>1, <1>3, <2>1 DEF Custody!Start, Keepers, Live
  <2>3. QED
    BY <2>2 DEF Custody!Next
<1>5. CASE Delete(c)
  <2>1. Keepers[c] \notin {"nobody", "gone"} /\ Keeper(c)' = "gone"
    BY <1>5, TicketAssumption DEF Inv, TypeOK, Delete, Exists, Keepers, Keeper, ClosedHasTicket
  <2>2. Custody!Drop(c)
    BY <1>1, <1>3, <2>1 DEF Custody!Drop, Keepers, Live
  <2>3. QED
    BY <2>2 DEF Custody!Next
<1>6. QED
  BY <1>4, <1>5

LEMMA CustodyStatus ==
    ASSUME Inv, NEW t \in Ticket, NEW s \in Status, SetStatus(t, s)
    PROVE  Custody!Next
<1>1. UNCHANGED <<Keepers, origin>>
  BY DEF SetStatus, chatVars, Keepers, Keeper
<1>2. CASE s \in Active
  <2>1. Live' = Live \cup {t}
    BY <1>2 DEF Inv, TypeOK, SetStatus, Live
  <2>2. Custody!FreeFor(origin[t], t)
    BY <1>2, Free DEF SetStatus
  <2>3. Custody!Revive(t)
    BY <1>1, <2>1, <2>2 DEF Custody!Revive, Keepers, Live, SetStatus, Issued
  <2>4. QED
    BY <2>3 DEF Custody!Next
<1>3. CASE s \notin Active
  <2>1. Live' = Live \ {t}
    BY <1>3 DEF Inv, TypeOK, SetStatus, Live
  <2>2. Custody!Settle(t)
    BY <1>1, <2>1 DEF Custody!Settle, Keepers, Live
  <2>3. QED
    BY <2>2 DEF Custody!Next
<1>4. QED
  BY <1>2, <1>3

\* Each commit of a handler is one step of ChatCustody, each read a stutter.
LEMMA CustodyStep == Inv /\ Inv' /\ [Next]_vars => [Custody!Next]_(Custody!vars)
<1> SUFFICES ASSUME Inv, Inv', [Next]_vars
             PROVE  Custody!Next \/ UNCHANGED <<Keepers, origin, Live>>
  BY DEF Custody!vars, Keepers, Live
<1>1. CASE UNCHANGED vars
  BY <1>1, Unseen DEF vars, chatVars, ticketVars
<1>2. ASSUME NEW c \in Channel, Create(c) \/ SetOwner(c) \/ Delete(c)
      PROVE  Custody!Next \/ UNCHANGED <<Keepers, origin, Live>>
  BY <1>2, CustodyRow, Unseen DEF SetOwner, ticketVars
<1>3. ASSUME NEW a \in Actor, NEW c \in Channel, CloseBegin(a, c) \/ ReopenBegin(a, c)
      PROVE  UNCHANGED <<Keepers, origin, Live>>
  BY <1>3, Unseen DEF CloseBegin, ReopenBegin, chatVars, ticketVars
<1>4. ASSUME NEW a \in Actor, CloseRead(a) \/ Answer(a) \/ ReopenRead(a) \/ Abort(a)
      PROVE  UNCHANGED <<Keepers, origin, Live>>
  BY <1>4, Unseen DEF CloseRead, Answer, ReopenRead, Abort, chatVars, ticketVars
<1>5. ASSUME NEW a \in Actor, ConvertNew(a) \/ ConvertLinked(a) \/ ReopenCommit(a)
      PROVE  Custody!Next \/ UNCHANGED <<Keepers, origin, Live>>
  BY <1>5, CustodyNew, CustodyLinked, CustodyReopen
<1>6. ASSUME NEW t \in Ticket, NEW p \in Staff, Assign(t, p)
      PROVE  UNCHANGED <<Keepers, origin, Live>>
  BY <1>6, Unseen DEF Assign, chatVars
<1>7. ASSUME NEW t \in Ticket, NEW s \in Status, SetStatus(t, s) PROVE Custody!Next
  BY <1>7, CustodyStatus
<1>8. QED
  BY <1>1, <1>2, <1>3, <1>4, <1>5, <1>6, <1>7 DEF Next

\* The handlers, with all their races, implement the promise of ChatCustody.
THEOREM Implementation == Spec => ImplementsCustody
<1>1. Inv /\ Inv' /\ [Next]_vars => [Custody!Next]_(Custody!vars)
  BY CustodyStep
<1>2. QED
  BY CustodyInit, Invariance, <1>1, PTL DEF Spec, ImplementsCustody, Custody!Spec

-----------------------------------------------------------------------------
(* Enrollment: the columns keep their types, every UPDATE of a push finds   *)
(* the row it was meant for, and a device has at most one review under way. *)

CONSTANTS Request, Ingest, Budget
VARIABLES reviewStatus, newest, assigned, spent, at, found, was, owned

Review == INSTANCE Enrollment WITH status <- reviewStatus, pc <- at, held <- found

\* The assumptions of Enrollment.
ReviewConstants == Budget \in Nat /\ None \notin Request

\* A push that goes on to write holds a request that is there.  lookup... may
\* have found it long ago, but nothing deletes a request.
RowsFound ==
    /\ newest # None => reviewStatus[newest] # "absent"
    /\ \A i \in Ingest :
          /\ found[i] # None => reviewStatus[found[i]] # "absent"
          /\ was[i] # "absent" => found[i] # None
          /\ at[i] \in {"note", "check", "resolve"} => found[i] # None

\* At most one request of the device is worked on, whatever pushes and reviewers
\* do at once.
OneUnderReview ==
    \A p, q \in Request :
       reviewStatus[p] \in Review!Active /\ reviewStatus[q] \in Review!Active => p = q

ReviewInv == Review!TypeOK /\ RowsFound /\ OneUnderReview

-----------------------------------------------------------------------------
\* There is no request at the start.
LEMMA InitReview == ASSUME ReviewConstants PROVE Review!Init => ReviewInv
BY DEF ReviewConstants, Review!Init, ReviewInv, Review!TypeOK, RowsFound, OneUnderReview,
       Review!Status, Review!Chosen, Review!Active

\* A write that touches request q leaves it there, and active only if no other
\* one is.
LEMMA TouchReview ==
  ASSUME ReviewConstants, ReviewInv, NEW q \in Request, NEW s \in Review!Chosen,
         Review!Touch(q, s), s \in Review!Active => Review!MayBeActive(q)
  PROVE  /\ reviewStatus' \in [Request -> Review!Status] /\ newest' \in Request
         /\ reviewStatus'[newest'] # "absent"
         /\ \A p \in Request : reviewStatus[p] # "absent" => reviewStatus'[p] # "absent"
         /\ OneUnderReview'
<1>1. \A p \in Request : reviewStatus'[p] = IF p = q THEN s ELSE reviewStatus[p]
  BY DEF ReviewInv, Review!TypeOK, Review!Touch
<1>2. reviewStatus' \in [Request -> Review!Status] /\ newest' = q
  BY DEF ReviewInv, Review!TypeOK, Review!Touch, Review!Status
<1>3. s # "absent"
  BY DEF Review!Chosen, Review!Active
<1>4. OneUnderReview'
  BY <1>1 DEF ReviewInv, OneUnderReview, Review!MayBeActive
<1>5. QED
  BY <1>1, <1>2, <1>3, <1>4

\* The statements of a push that only read.
LEMMA ReadReview ==
  ASSUME ReviewConstants, ReviewInv, NEW i \in Ingest,
         \/ Review!Begin(i) \/ Review!Find(i) \/ Review!Note(i) \/ Review!Skip(i)
         \/ Review!Collide(i) \/ Review!FindAgain(i) \/ Review!Check(i)
  PROVE  ReviewInv'
<1> USE DEF Review!reviews, Review!Goto, Review!Lookup
<1>1. Review!TypeOK'
  BY DEF ReviewInv, Review!TypeOK, Review!Status, Review!Begin, Review!Find, Review!Note,
         Review!Skip, Review!Collide, Review!FindAgain, Review!Check
<1>2. RowsFound'
  BY DEF ReviewInv, Review!TypeOK, RowsFound, Review!Begin, Review!Find, Review!Note,
         Review!Skip, Review!Collide, Review!FindAgain, Review!Check
<1>3. OneUnderReview'
  BY DEF ReviewInv, OneUnderReview, Review!Begin, Review!Find, Review!Note,
         Review!Skip, Review!Collide, Review!FindAgain, Review!Check
<1>4. QED
  BY <1>1, <1>2, <1>3 DEF ReviewInv

\* The statements of a push that write.
LEMMA WriteReview ==
  ASSUME ReviewConstants, ReviewInv, NEW i \in Ingest,
         Review!Refresh(i) \/ Review!Reopen(i) \/ Review!Insert(i) \/ Review!Resolve(i)
  PROVE  ReviewInv'
<1> USE DEF Review!Goto
<1>1. /\ at' \in [Ingest -> {"idle", "find", "write", "note", "complete", "check", "resolve"}]
      /\ \A x \in Ingest \ {i} : at'[x] = at[x]
      /\ at'[i] \in {"note", "complete", "idle"}
      /\ found' = found /\ was' = was /\ owned' = owned /\ assigned' = assigned /\ spent' = spent
  BY DEF ReviewInv, Review!TypeOK, Review!Refresh, Review!Reopen, Review!Insert, Review!Resolve
<1>2. CASE Review!Refresh(i)
  <2>1. found[i] \in Request /\ newest' = found[i] /\ reviewStatus' = reviewStatus
    BY <1>2 DEF ReviewInv, Review!TypeOK, RowsFound, Review!Refresh, Review!Active
  <2>2. at'[i] = "complete"
    BY <1>2 DEF ReviewInv, Review!TypeOK, Review!Refresh
  <2>3. QED
    BY <1>1, <2>1, <2>2 DEF ReviewInv, Review!TypeOK, RowsFound, OneUnderReview
<1>3. ASSUME NEW q \in Request, NEW s \in Review!Chosen, Review!Touch(q, s),
             s \in Review!Active => Review!MayBeActive(q), at'[i] = "note" => found[i] # None
      PROVE  ReviewInv'
  <2>1. /\ reviewStatus' \in [Request -> Review!Status] /\ newest' \in Request
        /\ reviewStatus'[newest'] # "absent"
        /\ \A p \in Request : reviewStatus[p] # "absent" => reviewStatus'[p] # "absent"
        /\ OneUnderReview'
    BY <1>3, TouchReview
  <2>2. Review!TypeOK'
    BY <1>1, <2>1 DEF ReviewInv, Review!TypeOK
  <2>3. RowsFound'
    BY <1>1, <1>3, <2>1 DEF ReviewInv, Review!TypeOK, RowsFound
  <2>4. QED
    BY <2>1, <2>2, <2>3 DEF ReviewInv
<1>4. CASE Review!Reopen(i)
  <2>1. found[i] \in Request
    BY <1>4 DEF ReviewInv, Review!TypeOK, RowsFound, Review!Reopen
  <2>2. Review!Touch(found[i], "pending") /\ Review!MayBeActive(found[i]) /\ found[i] # None
    BY <1>4, <2>1 DEF ReviewConstants, Review!Reopen
  <2>3. QED
    BY <1>3, <2>1, <2>2 DEF Review!Chosen, Review!Active
<1>5. CASE Review!Insert(i)
  <2>1. PICK q \in Request : Review!Touch(q, "pending") /\ Review!MayBeActive(q)
    BY <1>5 DEF Review!Insert
  <2>2. at'[i] = "complete"
    BY <1>5 DEF ReviewInv, Review!TypeOK, Review!Insert
  <2>3. QED
    BY <1>3, <2>1, <2>2 DEF Review!Chosen, Review!Active
<1>6. CASE Review!Resolve(i)
  <2>1. found[i] \in Request /\ Review!Touch(found[i], "resolved")
    BY <1>6 DEF ReviewInv, Review!TypeOK, RowsFound, Review!Resolve
  <2>2. at'[i] = "idle"
    BY <1>6 DEF ReviewInv, Review!TypeOK, Review!Resolve
  <2>3. QED
    BY <1>3, <2>1, <2>2 DEF Review!Chosen, Review!Active
<1>7. QED
  BY <1>2, <1>4, <1>5, <1>6

\* Failures, reviewers and staff.
LEMMA OtherReview ==
  ASSUME ReviewConstants, ReviewInv,
         \/ \E i \in Ingest : Review!Fail(i)
         \/ \E q \in Request : Review!AssignRequest(q) \/ \E s \in Review!Chosen : Review!SetStatus(q, s)
         \/ Review!AssignDevice
  PROVE  ReviewInv'
<1> USE DEF Review!reviews, Review!ops, Review!Goto
<1>1. spent' \in 0 .. Budget
  BY DEF ReviewConstants, ReviewInv, Review!TypeOK, Review!Fail, Review!AssignRequest, Review!SetStatus,
         Review!AssignDevice
<1>2. ASSUME NEW i \in Ingest, Review!Fail(i) PROVE ReviewInv'
  BY <1>1, <1>2 DEF ReviewInv, Review!TypeOK, RowsFound, OneUnderReview, Review!Fail
<1>3. ASSUME NEW q \in Request, Review!AssignRequest(q) PROVE ReviewInv'
  BY <1>1, <1>3 DEF ReviewInv, Review!TypeOK, RowsFound, OneUnderReview, Review!AssignRequest
<1>4. ASSUME NEW q \in Request, NEW s \in Review!Chosen, Review!SetStatus(q, s) PROVE ReviewInv'
  <2>1. /\ reviewStatus' \in [Request -> Review!Status] /\ newest' \in Request
        /\ reviewStatus'[newest'] # "absent"
        /\ \A p \in Request : reviewStatus[p] # "absent" => reviewStatus'[p] # "absent"
        /\ OneUnderReview'
    BY <1>4, TouchReview DEF Review!SetStatus
  <2>2. QED
    BY <1>1, <1>4, <2>1 DEF ReviewInv, Review!TypeOK, RowsFound, Review!SetStatus
<1>5. CASE Review!AssignDevice
  BY <1>1, <1>5 DEF ReviewInv, Review!TypeOK, RowsFound, OneUnderReview, Review!AssignDevice
<1>6. QED
  BY <1>2, <1>3, <1>4, <1>5

\* ReviewInv holds in every state of every behavior of the specification.
LEMMA ReviewInvariance == ASSUME ReviewConstants PROVE Review!Spec => []ReviewInv
<1>1. ReviewInv /\ [Review!Next]_(Review!vars) => ReviewInv'
  <2> SUFFICES ASSUME ReviewInv, [Review!Next]_(Review!vars) PROVE ReviewInv'
    OBVIOUS
  <2>1. CASE UNCHANGED Review!vars
    BY <2>1 DEF Review!vars, Review!reviews, Review!ops, ReviewInv, Review!TypeOK, RowsFound, OneUnderReview
  <2>2. CASE Review!Next
    BY <2>2, ReadReview, WriteReview, OtherReview DEF Review!Next, Review!Step
  <2>3. QED
    BY <2>1, <2>2
<1>2. QED
  BY InitReview, <1>1, PTL DEF Review!Spec

-----------------------------------------------------------------------------
\* The columns and the handlers' variables keep their types.
THEOREM ReviewTypeCorrect == ASSUME ReviewConstants PROVE Review!Spec => []Review!TypeOK
<1>1. ReviewInv => Review!TypeOK
  BY DEF ReviewInv
<1>2. QED
  BY ReviewInvariance, <1>1, PTL

\* Whatever a push found, and however long ago, the request it then updates is
\* there, and the request touched last is one that exists.
THEOREM UpdatesFindTheirRow == ASSUME ReviewConstants PROVE Review!Spec => []RowsFound
<1>1. ReviewInv => RowsFound
  BY DEF ReviewInv
<1>2. QED
  BY ReviewInvariance, <1>1, PTL

\* However many pushes and reviewers overlap, a device has at most one review
\* under way.
THEOREM OneReview == ASSUME ReviewConstants PROVE Review!Spec => []OneUnderReview
<1>1. ReviewInv => OneUnderReview
  BY DEF ReviewInv
<1>2. QED
  BY ReviewInvariance, <1>1, PTL
=============================================================================
