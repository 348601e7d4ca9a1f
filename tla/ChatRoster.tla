---------------------------- MODULE ChatRoster -----------------------------
(***************************************************************************)
(* The people of one chat: addChatChannelMembers, removeChatChannelMember  *)
(* and updateChatChannelOwner of modules.go, and ensureChatChannelsForUser, *)
(* which makes staff members of the operations chat.  None of them opens a *)
(* transaction: every SELECT and every write is a step of its own, seen by *)
(* the other handlers at once, and a handler may end between any two.      *)
(*                                                                         *)
(* A super_admin passes every caller check, so the caller is left out.     *)
(* The role of a user is fixed while the chat lasts.                       *)
(***************************************************************************)
EXTENDS Naturals, FiniteSets

CONSTANTS IT,        \* users with role it_team or super_admin
          Auditor,   \* users with any other role but employee
          Customer,  \* users with role employee
          Actor,     \* the requests being served at the same time
          None,      \* SQL NULL
          Keep       \* the field is absent from the request's body

Staff == IT \cup Auditor
User  == Staff \cup Customer

ASSUME RolesAssumption == /\ IT \cap Auditor = {} /\ Staff \cap Customer = {}
                          /\ {None, Keep} \cap User = {}
ASSUME KeepAssumption == None # Keep

VARIABLES operations,  \* chat_channels.kind = 'operations'
          closed,      \* chat_channels.status = 'closed'
          members,     \* chat_members
          primary,     \* chat_channels.primary_owner_id
          backup,      \* chat_channels.backup_owner_id
          pc,          \* where the handler of each Actor is,
          todo,        \*   the teammates it has yet to insert, or the one it removes,
          newPrimary, newBackup,   \* and the owners it has checked and will set
          adrift,      \* history: who was removed while being made an owner, and a founder outside
          raced        \* history: two different people were being removed at the same time

chatVars == <<operations, closed, members, primary, backup>>
history  == <<adrift, raced>>
vars     == <<chatVars, pc, todo, newPrimary, newBackup, history>>

TypeOK == /\ operations \in BOOLEAN /\ closed \in BOOLEAN
          /\ members \in SUBSET User
          /\ primary \in Staff \cup {None}
          /\ backup \in IT \cup {None}
          /\ pc \in [Actor -> {"idle", "insert", "count", "unsetPrimary", "unsetBackup",
                               "erase", "owner", "backup", "assign"}]
          /\ todo \in [Actor -> SUBSET User]
          /\ newPrimary \in [Actor -> User \cup {Keep}]
          /\ newBackup \in [Actor -> User \cup {None, Keep}]
          /\ adrift \in SUBSET User /\ raced \in BOOLEAN

-----------------------------------------------------------------------------
(* How a chat comes to be. *)

\* createChatChannel: the caller, the teammates named, who must be IT and whom
\* an employee cannot name, and the teammate the subject is routed to, who is
\* the owner, or else a caller who is IT.
createChatChannel ==
    \E c \in User, S \in SUBSET IT, routed \in IT \cup {None} :
       /\ c \in Customer => S = {}
       /\ operations \in BOOLEAN
       /\ members = {c} \cup S \cup ({routed} \ {None})
       /\ primary = IF routed = None /\ c \in IT THEN c ELSE routed

\* createSupportChannelForEmployee: the employee and the configured teammates,
\* the first of them as owner.
createSupportChannelForEmployee ==
    \E c \in Customer, S \in SUBSET IT :
       /\ operations = FALSE
       /\ members = {c} \cup S
       /\ IF S = {} THEN primary = None ELSE primary \in S

\* createOperationsChannel, for the first of the staff who lists chats: the
\* configured teammates are members, the caller is the owner and need not be
\* one of them.
createOperationsChannel ==
    \E c \in Staff, S \in SUBSET IT :
       /\ operations = TRUE
       /\ members = S
       /\ primary = c

Init == /\ createChatChannel \/ createSupportChannelForEmployee \/ createOperationsChannel
        /\ closed = FALSE
        /\ backup = None
        /\ pc = [a \in Actor |-> "idle"]
        /\ todo = [a \in Actor |-> {}]
        /\ newPrimary = [a \in Actor |-> Keep]
        /\ newBackup = [a \in Actor |-> Keep]
        /\ adrift = {primary} \ (members \cup {None})
        /\ raced = FALSE

Goto(a, where) == pc' = [pc EXCEPT ![a] = where]

\* The handler answers, or fails: an SQL error, a refusal, a restart.
Finish(a) == /\ Goto(a, "idle")
             /\ todo' = [todo EXCEPT ![a] = {}]
             /\ newPrimary' = [newPrimary EXCEPT ![a] = Keep]
             /\ newBackup' = [newBackup EXCEPT ![a] = Keep]

\* closeChatChannel and reopenChatChannel, of which ChatTickets has the rest.
Toggle == /\ closed' = ~closed
          /\ UNCHANGED <<operations, members, primary, backup, pc, todo, newPrimary, newBackup, history>>

\* ensureChatChannelsForUser, of any staff who lists chats or opens a socket.
Join(u) == /\ operations /\ u \in Staff
           /\ members' = members \cup {u}
           /\ UNCHANGED <<operations, closed, primary, backup, pc, todo, newPrimary, newBackup, history>>

-----------------------------------------------------------------------------
(* addChatChannelMembers. *)

\* SELECT status; every teammate asked for must be IT.
AddBegin(a, S) ==
    /\ pc[a] = "idle" /\ ~closed
    /\ S \subseteq IT
    /\ Goto(a, "insert")
    /\ todo' = [todo EXCEPT ![a] = S]
    /\ UNCHANGED <<chatVars, newPrimary, newBackup, history>>

\* One INSERT ... ON CONFLICT DO NOTHING.
AddOne(a, u) ==
    /\ pc[a] = "insert" /\ u \in todo[a]
    /\ members' = members \cup {u}
    /\ todo' = [todo EXCEPT ![a] = @ \ {u}]
    /\ UNCHANGED <<operations, closed, primary, backup, pc, newPrimary, newBackup, history>>

-----------------------------------------------------------------------------
(* removeChatChannelMember. *)

\* A removal of u has taken the ownership away, and will delete the membership.
Removing(a, u) == pc[a] \in {"unsetBackup", "erase"} /\ u \in todo[a]

\* A change of owners has found that u is a member, and will make u an owner.
Vetted(a, u) == \/ pc[a] \in {"backup", "assign"} /\ newPrimary[a] = u
                \/ pc[a] = "assign" /\ newBackup[a] = u

\* SELECT the target's role: a member, and IT.
RemoveBegin(a, u) ==
    /\ pc[a] = "idle"
    /\ u \in members \cap IT
    /\ Goto(a, "count")
    /\ todo' = [todo EXCEPT ![a] = {u}]
    /\ UNCHANGED <<chatVars, newPrimary, newBackup, history>>

\* A removal has counted and will delete.
PastCount(a) == pc[a] \in {"unsetPrimary", "unsetBackup", "erase"}

\* Mutant of RemoveCount: the last one may go.
RemoveCount_Last(a) ==
    /\ pc[a] = "count"
    /\ Cardinality(members \cap IT) >= 1
    /\ Goto(a, "unsetPrimary")
    /\ raced' = (raced \/ \E b \in Actor : PastCount(b) /\ todo[b] # todo[a])
    /\ UNCHANGED <<chatVars, todo, newPrimary, newBackup, adrift>>

\* SELECT COUNT(*) of the IT members: one of them has to stay.
RemoveCount(a) ==
    /\ pc[a] = "count"
    /\ Cardinality(members \cap IT) > 1
    /\ Goto(a, "unsetPrimary")
    /\ raced' = (raced \/ \E b \in Actor : PastCount(b) /\ todo[b] # todo[a])
    /\ UNCHANGED <<chatVars, todo, newPrimary, newBackup, adrift>>

\* Mutant of UnsetPrimary: the owner stays.
UnsetPrimary_Skip(a) ==
    /\ pc[a] = "unsetPrimary"
    /\ Goto(a, "unsetBackup")
    /\ adrift' = adrift \cup {u \in todo[a] : \E b \in Actor : Vetted(b, u)}
    /\ UNCHANGED <<chatVars, todo, newPrimary, newBackup, raced>>

UnsetPrimary(a) ==
    /\ pc[a] = "unsetPrimary"
    /\ primary' = IF primary \in todo[a] THEN None ELSE primary
    /\ Goto(a, "unsetBackup")
    /\ adrift' = adrift \cup {u \in todo[a] : \E b \in Actor : Vetted(b, u)}
    /\ UNCHANGED <<operations, closed, members, backup, todo, newPrimary, newBackup, raced>>

UnsetBackup(a) ==
    /\ pc[a] = "unsetBackup"
    /\ backup' = IF backup \in todo[a] THEN None ELSE backup
    /\ Goto(a, "erase")
    /\ UNCHANGED <<operations, closed, members, primary, todo, newPrimary, newBackup, history>>

EraseMember(a) ==
    /\ pc[a] = "erase"
    /\ members' = members \ todo[a]
    /\ Finish(a)
    /\ UNCHANGED <<operations, closed, primary, backup, history>>

-----------------------------------------------------------------------------
(* updateChatChannelOwner. *)

\* SELECT status.
OwnerBegin(a) ==
    /\ pc[a] = "idle" /\ ~closed
    /\ Goto(a, "owner")
    /\ UNCHANGED <<chatVars, todo, newPrimary, newBackup, history>>

\* Mutant of CheckPrimary: any member may own the chat.
CheckPrimary_AnyMember(a, p) ==
    /\ pc[a] = "owner"
    /\ p # Keep => p \in members
    /\ newPrimary' = [newPrimary EXCEPT ![a] = p]
    /\ Goto(a, "backup")
    /\ adrift' = adrift \cup {u \in {p} \cap User : \E b \in Actor : Removing(b, u)}
    /\ UNCHANGED <<chatVars, todo, newBackup, raced>>

\* validateOwnerMember of the primary owner, if the request gives one; it cannot
\* clear the owner.  A candidate who is refused ends the handler (End).
CheckPrimary(a, p) ==
    /\ pc[a] = "owner"
    /\ p # Keep => p \in members \cap IT
    /\ newPrimary' = [newPrimary EXCEPT ![a] = p]
    /\ Goto(a, "backup")
    /\ adrift' = adrift \cup {u \in {p} \cap User : \E b \in Actor : Removing(b, u)}
    /\ UNCHANGED <<chatVars, todo, newBackup, raced>>

\* validateOwnerMember of the backup owner, who can be cleared, and the
\* comparison of the two that the request gives, of which one has to be there.
CheckBackup(a, o) ==
    /\ pc[a] = "backup"
    /\ o \notin {Keep, None} => o \in members \cap IT
    /\ newPrimary[a] # o
    /\ newBackup' = [newBackup EXCEPT ![a] = o]
    /\ Goto(a, "assign")
    /\ adrift' = adrift \cup {u \in {o} \cap User : \E b \in Actor : Removing(b, u)}
    /\ UNCHANGED <<chatVars, todo, newPrimary, raced>>

\* One UPDATE of the fields given.
AssignOwners(a) ==
    /\ pc[a] = "assign"
    /\ primary' = IF newPrimary[a] = Keep THEN primary ELSE newPrimary[a]
    /\ backup' = IF newBackup[a] = Keep THEN backup ELSE newBackup[a]
    /\ Finish(a)
    /\ UNCHANGED <<operations, closed, members, history>>

-----------------------------------------------------------------------------
End(a) == /\ pc[a] # "idle"
          /\ Finish(a)
          /\ UNCHANGED <<chatVars, history>>

Next == \/ Toggle
        \/ \E u \in User : Join(u)
        \/ \E a \in Actor :
             \/ \E S \in SUBSET User \ {{}} : AddBegin(a, S)
             \/ \E u \in User : AddOne(a, u) \/ RemoveBegin(a, u)
             \/ \E p \in User \cup {Keep} : CheckPrimary(a, p)
             \/ \E o \in User \cup {None, Keep} : CheckBackup(a, o)
             \/ RemoveCount(a) \/ UnsetPrimary(a) \/ UnsetBackup(a) \/ EraseMember(a)
             \/ OwnerBegin(a) \/ AssignOwners(a) \/ End(a)

Spec == Init /\ [][Next]_vars

-----------------------------------------------------------------------------
\* "primary owner must already be a chat member": a removal takes the ownership
\* away before it takes the member away, and a change of owners looks for the
\* member first.  Wherever these handlers end half-way and however they overlap
\* with each other, an owner outside the chat is one of two: the founder of an
\* operations chat, or somebody whom a removal was deleting, the ownership taken
\* away already, while a change of owners had found the same person a member.
OwnersAccounted == {primary, backup} \subseteq members \cup adrift \cup {None}

\* "add another IT owner before removing the last one": members are counted in
\* one statement and deleted in a later one, and meanwhile others come and go.
\* All the same a chat that has IT members loses the last one only after two
\* removals of different people had both counted before either deleted; one that
\* ends half-way, or two of the same person, cannot do it.
LastNeedsRace == [][members \cap IT # {} /\ members' \cap IT = {} => raced]_vars

\* What the code says and does not keep.

\* "primary owner must already be a chat member": owners are members.
OwnersAreMembers == {primary, backup} \subseteq members \cup {None}

\* "add another IT owner before removing the last one": a chat with an IT member
\* never loses the last one.  Two removals that overlap count each other's.
KeepsIT == [][members \cap IT # {} => members' \cap IT # {}]_vars

\* "backup owner must be different from the primary owner".  The code compares
\* the two owners of one request only, not the owner the chat already has.
OwnersDiffer == primary = backup => primary = None
=============================================================================
