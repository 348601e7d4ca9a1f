---------------------------- MODULE ChatTickets ----------------------------
(***************************************************************************)
(* The lifecycle of a support chat and of the tickets it is converted to:  *)
(* closeChatChannel, reopenChatChannel and deleteChatChannel of modules.go *)
(* run against updateRequestStatus and assignRequest.                      *)
(*                                                                         *)
(* A handler is one HTTP request, run by an Actor.  PostgreSQL runs at     *)
(* READ COMMITTED, so every SELECT of a handler sees the rows committed at *)
(* that moment and is a step of its own.  The writes of a transaction hold *)
(* their row and index locks until the commit: they are one step, taken at *)
(* the commit, whose guards are the foreign key and the unique index of    *)
(* the schema.  Only reopenChatChannel reads between a write and its       *)
(* commit, so only there a lock is seen: Locked.  A transaction may also   *)
(* end in an error, a deadlock victim's rollback or a restart: Abort.      *)
(*                                                                         *)
(* Who may call a handler (role, membership of the chat) is not modelled   *)
(* here: any Actor may.                                                    *)
(***************************************************************************)
EXTENDS Naturals, FiniteSets

CONSTANTS Channel,   \* the ids chat_channels may use
          Ticket,    \* the ids requests of type 'support_chat' may use
          Staff,     \* the people a chat or a ticket may be assigned to
          Actor,     \* the requests being served at the same time
          None       \* SQL NULL, or the empty string it is read as

ASSUME NoneAssumption == None \notin Channel \cup Ticket \cup Staff

\* A ticket is not one of the marks ChatCustody gives to a chat without one.
ASSUME TicketAssumption == Ticket \cap {"nobody", "chat", "gone"} = {}

VARIABLES state,     \* chat_channels.status, and whether the row is there
          link,      \* chat_channels.linked_request_id
          owner,     \* chat_channels.primary_owner_id
          origin,    \* requests: the chat it came from, None while not issued
          status,    \* requests.status
          assignee,  \* requests.assignee_id
          notes,     \* request_comments written by the chat handlers
          pc,        \* where the handler of each Actor is,
          chan,      \*   the chat it serves,
          held,      \*   the ticket id it has read or made,
          person     \*   and the owner or assignee it has read

chatVars   == <<state, link, owner>>
ticketVars == <<origin, status, assignee, notes>>
opVars     == <<pc, chan, held, person>>
vars       == <<chatVars, ticketVars, opVars>>

-----------------------------------------------------------------------------
Active == {"pending", "in_progress"}

\* updateRequestStatus takes any text: "resolved" stands for every status
\* outside the unique index.
Status == Active \cup {"resolved"}

TypeOK == /\ state \in [Channel -> {"absent", "open", "closed", "deleted"}]
          /\ link \in [Channel -> Ticket \cup {None}]
          /\ owner \in [Channel -> Staff \cup {None}]
          /\ origin \in [Ticket -> Channel \cup {None}]
          /\ status \in [Ticket -> Status]
          /\ assignee \in [Ticket -> Staff \cup {None}]
          /\ notes \in [Ticket -> SUBSET {"closed", "reopened"}]
          /\ pc \in [Actor -> {"idle", "close", "convert", "told", "reopen", "revive"}]
          /\ chan \in [Actor -> Channel \cup {None}]
          /\ held \in [Actor -> Ticket \cup {None}]
          /\ person \in [Actor -> Staff \cup {None}]

Init == /\ state = [c \in Channel |-> "absent"]
        /\ link = [c \in Channel |-> None]
        /\ owner = [c \in Channel |-> None]
        /\ origin = [t \in Ticket |-> None]
        /\ status = [t \in Ticket |-> "resolved"]
        /\ assignee = [t \in Ticket |-> None]
        /\ notes = [t \in Ticket |-> {}]
        /\ pc = [a \in Actor |-> "idle"]
        /\ chan = [a \in Actor |-> None]
        /\ held = [a \in Actor |-> None]
        /\ person = [a \in Actor |-> None]

Exists(c) == state[c] \in {"open", "closed"}
Issued(t) == origin[t] # None

\* The requests whose reference_key is 'chat:<c>' and which the partial
\* unique index idx_requests_active_reference_key_unique covers.
ActiveOf(c) == {t \in Ticket : origin[t] = c /\ status[t] \in Active}

\* Mutant of StatusFor: the status a chat has, not one a ticket has.
StatusFor_Chat(p) == IF p = None THEN "open" ELSE "in_progress"

StatusFor(p) == IF p = None THEN "pending" ELSE "in_progress"

\* The handler of Actor a forgets its local variables.
Finish(a) == /\ pc' = [pc EXCEPT ![a] = "idle"]
             /\ chan' = [chan EXCEPT ![a] = None]
             /\ held' = [held EXCEPT ![a] = None]
             /\ person' = [person EXCEPT ![a] = None]

\* A reopening transaction has updated the row of chat c and not committed: the
\* writes of all others to that row wait.
Locked(c) == Exists(c) /\ \E a \in Actor : pc[a] = "revive" /\ chan[a] = c

\* Mutant of SetState: an upsert, which brings a deleted chat back.
SetState_Upsert(c, s) == state' = [state EXCEPT ![c] = s]

\* An UPDATE of the chat's status, which touches no row if the chat is gone.
SetState(c, s) == state' = IF Exists(c) THEN [state EXCEPT ![c] = s] ELSE state

-----------------------------------------------------------------------------
(* The chat rows. *)

\* createChatChannel, createOperationsChannel, createSupportChannelForEmployee:
\* one transaction, whose row nobody sees before the commit.
Create(c) ==
    /\ state[c] = "absent"
    /\ state' = [state EXCEPT ![c] = "open"]
    /\ \E p \in Staff \cup {None} : owner' = [owner EXCEPT ![c] = p]
    /\ UNCHANGED <<link, ticketVars, opVars>>

\* What updateChatChannelOwner and removeChatChannelMember do to the primary
\* owner.  Their own checks are long past when the UPDATE runs, so the chat
\* may be closed by then.
SetOwner(c) ==
    /\ Exists(c) /\ ~Locked(c)
    /\ \E p \in Staff \cup {None} : owner' = [owner EXCEPT ![c] = p]
    /\ UNCHANGED <<state, link, ticketVars, opVars>>

\* deleteChatChannel.  requests.source_chat_id becomes NULL; the request and
\* its reference_key stay.
Delete(c) ==
    /\ Exists(c) /\ ~Locked(c)
    /\ state' = [state EXCEPT ![c] = "deleted"]
    /\ link' = [link EXCEPT ![c] = None]
    /\ owner' = [owner EXCEPT ![c] = None]
    /\ UNCHANGED <<ticketVars, opVars>>

-----------------------------------------------------------------------------
(* closeChatChannel. *)

\* SELECT status, and the "chat is already closed" refusal.
CloseBegin(a, c) ==
    /\ pc[a] = "idle"
    /\ state[c] = "open"
    /\ pc' = [pc EXCEPT ![a] = "close"]
    /\ chan' = [chan EXCEPT ![a] = c]
    /\ UNCHANGED <<chatVars, ticketVars, held, person>>

\* The first SELECT of ensureClosedChatTicket; a row gone by now is an error.
CloseRead(a) ==
    /\ pc[a] = "close"
    /\ Exists(chan[a])
    /\ pc' = [pc EXCEPT ![a] = "convert"]
    /\ held' = [held EXCEPT ![a] = link[chan[a]]]
    /\ person' = [person EXCEPT ![a] = owner[chan[a]]]
    /\ UNCHANGED <<chatVars, ticketVars, chan>>

\* Mutant of ConvertNew: the schema without the unique index on active keys.
ConvertNew_NoIndex(a) ==
    /\ pc[a] = "convert" /\ held[a] = None
    /\ Exists(chan[a]) /\ ~Locked(chan[a])
    /\ \E t \in Ticket :
         /\ ~Issued(t)
         /\ origin' = [origin EXCEPT ![t] = chan[a]]
         /\ status' = [status EXCEPT ![t] = StatusFor(person[a])]
         /\ assignee' = [assignee EXCEPT ![t] = person[a]]
         /\ notes' = [notes EXCEPT ![t] = {"closed"}]
         /\ link' = [link EXCEPT ![chan[a]] = t]
         /\ held' = [held EXCEPT ![a] = t]
    /\ SetState(chan[a], "closed")
    /\ pc' = [pc EXCEPT ![a] = "told"]
    /\ UNCHANGED <<owner, chan, person>>

\* ensureClosedChatTicket found no link: INSERT the request, link it, close the
\* chat, note the closing.  The foreign key needs the chat, the index needs
\* every earlier ticket of the chat to be out of the active statuses.
ConvertNew(a) ==
    /\ pc[a] = "convert" /\ held[a] = None
    /\ Exists(chan[a]) /\ ~Locked(chan[a])
    /\ ActiveOf(chan[a]) = {}
    /\ \E t \in Ticket :
         /\ ~Issued(t)
         /\ origin' = [origin EXCEPT ![t] = chan[a]]
         /\ status' = [status EXCEPT ![t] = StatusFor(person[a])]
         /\ assignee' = [assignee EXCEPT ![t] = person[a]]
         /\ notes' = [notes EXCEPT ![t] = {"closed"}]
         /\ link' = [link EXCEPT ![chan[a]] = t]
         /\ held' = [held EXCEPT ![a] = t]
    /\ SetState(chan[a], "closed")
    /\ pc' = [pc EXCEPT ![a] = "told"]
    /\ UNCHANGED <<owner, chan, person>>

\* ensureClosedChatTicket found a link: close the chat, note the closing on
\* that ticket.  That the chat was deleted meanwhile is not noticed.
ConvertLinked(a) ==
    /\ pc[a] = "convert" /\ held[a] # None
    /\ ~Locked(chan[a])
    /\ SetState(chan[a], "closed")
    /\ notes' = [notes EXCEPT ![held[a]] = @ \cup {"closed"}]
    /\ pc' = [pc EXCEPT ![a] = "told"]
    /\ UNCHANGED <<link, owner, origin, status, assignee, chan, held, person>>

\* publish, the audit row and the answer, which name the ticket.
Answer(a) ==
    /\ pc[a] = "told"
    /\ Finish(a)
    /\ UNCHANGED <<chatVars, ticketVars>>

-----------------------------------------------------------------------------
(* reopenChatChannel. *)

\* Mutant of ReopenBegin: without the "chat is already open" refusal.
ReopenBegin_AnyChat(a, c) ==
    /\ pc[a] = "idle"
    /\ Exists(c)
    /\ pc' = [pc EXCEPT ![a] = "reopen"]
    /\ chan' = [chan EXCEPT ![a] = c]
    /\ held' = [held EXCEPT ![a] = link[c]]
    /\ UNCHANGED <<chatVars, ticketVars, person>>

\* SELECT status, linked_request_id, before the transaction begins, and the
\* "chat is already open" refusal.
ReopenBegin(a, c) ==
    /\ pc[a] = "idle"
    /\ state[c] = "closed"
    /\ pc' = [pc EXCEPT ![a] = "reopen"]
    /\ chan' = [chan EXCEPT ![a] = c]
    /\ held' = [held EXCEPT ![a] = link[c]]
    /\ UNCHANGED <<chatVars, ticketVars, person>>

\* The transaction begins: UPDATE the chat, which takes its row, and SELECT
\* assignee_id of the ticket read before.  The code's branch for a closed chat
\* without a ticket is dead: HeldTicketIsOwn.
ReopenRead(a) ==
    /\ pc[a] = "reopen" /\ held[a] # None
    /\ ~Locked(chan[a])
    /\ pc' = [pc EXCEPT ![a] = "revive"]
    /\ person' = [person EXCEPT ![a] = assignee[held[a]]]
    /\ UNCHANGED <<chatVars, ticketVars, chan, held>>

\* Mutant of ReopenCommit: the chat lets go of its ticket.
ReopenCommit_Unlink(a) ==
    /\ pc[a] = "revive"
    /\ ActiveOf(chan[a]) \subseteq {held[a]}
    /\ SetState(chan[a], "open")
    /\ link' = [link EXCEPT ![chan[a]] = None]
    /\ status' = [status EXCEPT ![held[a]] = StatusFor(person[a])]
    /\ notes' = [notes EXCEPT ![held[a]] = @ \cup {"reopened"}]
    /\ Finish(a)
    /\ UNCHANGED <<owner, origin, assignee>>

\* Mutant of ReopenCommit: the ticket stays as it is.
ReopenCommit_TicketAsIs(a) ==
    /\ pc[a] = "revive"
    /\ SetState(chan[a], "open")
    /\ notes' = [notes EXCEPT ![held[a]] = @ \cup {"reopened"}]
    /\ Finish(a)
    /\ UNCHANGED <<link, owner, origin, status, assignee>>

\* The commit, after the ticket was put back into an active status and the
\* reopening noted on it: the chat is open.
ReopenCommit(a) ==
    /\ pc[a] = "revive"
    /\ ActiveOf(chan[a]) \subseteq {held[a]}
    /\ SetState(chan[a], "open")
    /\ status' = [status EXCEPT ![held[a]] = StatusFor(person[a])]
    /\ notes' = [notes EXCEPT ![held[a]] = @ \cup {"reopened"}]
    /\ Finish(a)
    /\ UNCHANGED <<link, owner, origin, assignee>>

-----------------------------------------------------------------------------
(* The request rows, and failures. *)

\* Mutant of SetStatus: the schema without the unique index on active keys.
SetStatus_NoIndex(t, s) ==
    /\ Issued(t)
    /\ status' = [status EXCEPT ![t] = s]
    /\ UNCHANGED <<chatVars, origin, assignee, notes, opVars>>

\* updateRequestStatus: any status, from any status; the index alone refuses.
SetStatus(t, s) ==
    /\ Issued(t)
    /\ s \in Active => ActiveOf(origin[t]) \subseteq {t}
    /\ status' = [status EXCEPT ![t] = s]
    /\ UNCHANGED <<chatVars, origin, assignee, notes, opVars>>

\* assignRequest.
Assign(t, p) ==
    /\ Issued(t)
    /\ assignee' = [assignee EXCEPT ![t] = p]
    /\ UNCHANGED <<chatVars, origin, status, notes, opVars>>

\* A handler ends without writing: an SQL error, a rollback, a lost request
\* or a restart of the server.
Abort(a) ==
    /\ pc[a] # "idle"
    /\ Finish(a)
    /\ UNCHANGED <<chatVars, ticketVars>>

Next == \/ \E c \in Channel : Create(c) \/ SetOwner(c) \/ Delete(c)
        \/ \E a \in Actor, c \in Channel : CloseBegin(a, c) \/ ReopenBegin(a, c)
        \/ \E a \in Actor : \/ CloseRead(a) \/ ConvertNew(a) \/ ConvertLinked(a)
                            \/ Answer(a) \/ ReopenRead(a) \/ ReopenCommit(a)
                            \/ Abort(a)
        \/ \E t \in Ticket, p \in Staff : Assign(t, p)
        \/ \E t \in Ticket, s \in Status : SetStatus(t, s)

Spec == Init /\ [][Next]_vars

-----------------------------------------------------------------------------
(* Safety. *)

\* A closed chat always carries a ticket, that ticket came from this very chat
\* and shows the note of a closing.  The chat page and ReopenBegin follow
\* linked_request_id relying on it, whatever handlers overlap.
ClosedHasTicket ==
    \A c \in Channel : state[c] = "closed" =>
       link[c] # None /\ origin[link[c]] = c /\ "closed" \in notes[link[c]]

\* The ticket a handler holds in a local variable is, as long as it holds it, a
\* ticket of the very chat it serves, with the note of a closing on it, even
\* when the link was replaced or the chat deleted since it was read; and a
\* handler that reopens a chat, or answers a closing, does hold one.
HeldTicketIsOwn ==
    \A a \in Actor :
       /\ held[a] # None => origin[held[a]] = chan[a] /\ "closed" \in notes[held[a]]
       /\ pc[a] \in {"told", "reopen", "revive"} => held[a] # None

\* A chat never has two tickets being worked on at once, although closing
\* handlers race, staff move tickets between statuses freely and reopening
\* uses a ticket id read outside its transaction.
OneActiveTicket ==
    \A c \in Channel : \A t, u \in ActiveOf(c) : t = u

\* Every ticket that was ever issued came from a chat that was created, and as
\* long as the chat exists it links to some ticket: a closing, reopening or
\* deletion that overlaps with others takes the link from no chat that has one.
NoOrphanTicket ==
    \A t \in Ticket : Issued(t) =>
       /\ state[origin[t]] # "absent"
       /\ Exists(origin[t]) => link[origin[t]] # None

\* While a chat exists its link is only ever replaced by a ticket issued in the
\* same step, and only after the former ticket has left the active statuses:
\* two overlapping closings cannot push aside a ticket somebody works on.
RelinkOnlySettled ==
    [][\A c \in Channel :
         (link[c] # None /\ state'[c] # "deleted" /\ link'[c] # link[c]) =>
            /\ link'[c] # None
            /\ ~Issued(link'[c])
            /\ status[link[c]] \notin Active]_vars

\* A chat only goes back from closed to open together with a ticket of its own
\* becoming, or staying, active and noting the reopening.
ReopenRevivesTicket ==
    [][\A c \in Channel :
         (state[c] = "closed" /\ state'[c] = "open") =>
            \E t \in Ticket : /\ origin'[t] = c
                              /\ status'[t] \in Active
                              /\ "reopened" \in notes'[t]]_vars

-----------------------------------------------------------------------------
(* The promise. *)

Keeper(c) == CASE state[c] = "absent"  -> "nobody"
               [] state[c] = "open"    -> "chat"
               [] state[c] = "closed"  -> link[c]
               [] state[c] = "deleted" -> "gone"

Custody == INSTANCE ChatCustody
             WITH keeper <- [c \in Channel |-> Keeper(c)],
                  live   <- {t \in Ticket : status[t] \in Active}

\* Every step of the handlers is a step of ChatCustody or leaves its state alone:
\* the races on the way never show in who keeps a conversation.
ImplementsCustody == Custody!Spec

-----------------------------------------------------------------------------
(* What a text of the code says, and the code does not do. *)

Closes(a) == pc[a] = "convert" /\ pc'[a] = "told"

\* "Follow-up continues under ticket N": the ticket a closing names is one the
\* team is working on.  A ticket resolved while its chat was open stays so.
FollowUpIsActive ==
    [][\A a \in Actor : Closes(a) => status'[held'[a]] \in Active]_vars
=============================================================================
