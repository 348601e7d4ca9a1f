-------------------------- MODULE ChatRosterProofs --------------------------
(***************************************************************************)
(* For any team, any customers and any number of handlers that overlap:    *)
(* what the columns of a chat may hold, who may own a chat without being a *)
(* member of it, and how a chat can lose its last IT member.               *)
(*                                                                         *)
(* OwnersAccounted is not inductive: an owner is written after it was      *)
(* found to be a member, and is deleted after the ownership was taken      *)
(* away.  Candidates and Deprived say what holds in between.               *)
(***************************************************************************)
EXTENDS ChatRoster, FiniteSetTheorems, TLAPS

\* What a handler knows of roles, which are fixed: it removes one IT user, and
\* makes IT users owners.
Roles ==
    \A a \in Actor :
       /\ pc[a] = "count" \/ PastCount(a) => \E u \in IT : todo[a] = {u}
       /\ pc[a] \in {"backup", "assign"} => newPrimary[a] \in IT \cup {Keep}
       /\ pc[a] = "assign" => newBackup[a] \in IT \cup {None, Keep}

\* Whoever is being removed and made an owner at the same time is noted.
Crossed == \A a, b \in Actor, u \in User : Removing(a, u) /\ Vetted(b, u) => u \in adrift

\* Who was found to be a member is one still, or was removed meanwhile.
Candidates == \A b \in Actor, u \in User : Vetted(b, u) => u \in members \cup adrift

\* From whom a removal took the ownership has it no more, or got it back meanwhile.
Deprived ==
    \A a \in Actor, u \in User :
       Removing(a, u) => /\ primary = u => u \in adrift
                         /\ pc[a] = "erase" /\ backup = u => u \in adrift

\* All removals that will delete are of the same person, and somebody is left.
SomebodyStays ==
    ~raced => \A a \in Actor : PastCount(a) =>
                 /\ \E v \in members \cap IT : v \notin todo[a]
                 /\ \A b \in Actor : PastCount(b) => todo[b] = todo[a]

Inv == TypeOK /\ Roles /\ Crossed /\ Candidates /\ Deprived /\ OwnersAccounted /\ SomebodyStays

-----------------------------------------------------------------------------
\* However a chat came to be, it has an owner from the staff or none, and an
\* owner outside it is noted as such.
LEMMA InitColumns ==
  ASSUME Init
  PROVE  /\ operations \in BOOLEAN
         /\ members \in SUBSET User
         /\ primary \in Staff \cup {None}
         /\ adrift = {primary} \ (members \cup {None})
<1>1. CASE createChatChannel
  <2>1. PICK c \in User, S \in SUBSET IT, routed \in IT \cup {None} :
              /\ operations \in BOOLEAN
              /\ members = {c} \cup S \cup ({routed} \ {None})
              /\ primary = IF routed = None /\ c \in IT THEN c ELSE routed
    BY <1>1, Zenon DEF createChatChannel
  <2>2. operations \in BOOLEAN
    BY <2>1, Zenon
  <2>3. members \in SUBSET User /\ primary \in Staff \cup {None}
    BY <2>1 DEF User, Staff
  <2>4. QED
    BY <2>2, <2>3 DEF Init
<1>2. CASE createSupportChannelForEmployee
  <2>1. PICK c \in Customer, S \in SUBSET IT :
              /\ operations = FALSE
              /\ members = {c} \cup S
              /\ IF S = {} THEN primary = None ELSE primary \in S
    BY <1>2, Zenon DEF createSupportChannelForEmployee
  <2>2. QED
    BY <2>1 DEF Init, User, Staff
<1>3. CASE createOperationsChannel
  <2>1. PICK c \in Staff, S \in SUBSET IT : operations = TRUE /\ members = S /\ primary = c
    BY <1>3, Zenon DEF createOperationsChannel
  <2>2. QED
    BY <2>1 DEF Init, User, Staff
<1>4. QED
  BY <1>1, <1>2, <1>3 DEF Init

\* At the start no handler runs.
LEMMA InitInv == Init => Inv
<1> SUFFICES ASSUME Init PROVE Inv
  OBVIOUS
<1>1. /\ pc = [a \in Actor |-> "idle"]
      /\ todo = [a \in Actor |-> {}]
      /\ newPrimary = [a \in Actor |-> Keep]
      /\ newBackup = [a \in Actor |-> Keep]
      /\ closed = FALSE /\ backup = None /\ raced = FALSE
  BY Zenon DEF Init
<1>2. adrift \in SUBSET User
  BY InitColumns DEF User
<1>3. TypeOK
  BY <1>1, <1>2, InitColumns DEF TypeOK
<1>4. \A a \in Actor : pc[a] = "idle"
  BY <1>1
<1>5. Roles /\ Crossed /\ Candidates /\ Deprived /\ SomebodyStays
  BY <1>4 DEF Roles, Crossed, Candidates, Deprived, SomebodyStays, Removing, Vetted, PastCount
<1>6. OwnersAccounted
  BY <1>1, InitColumns DEF OwnersAccounted
<1>7. QED
  BY <1>3, <1>5, <1>6 DEF Inv

\* Of more than one IT member, another one is left when one goes.
LEMMA AnotherStays ==
  ASSUME NEW S, NEW u, Cardinality(S) > 1
  PROVE  \E v \in S : v # u
<1>1. S # {} /\ S # {u}
  BY FS_EmptySet, FS_Singleton
<1>2. QED
  BY <1>1

-----------------------------------------------------------------------------
(* One lemma for each group of actions. *)

\* People who come make nothing wrong.
LEMMA ComeStep ==
  ASSUME Inv,
         \/ Toggle
         \/ \E u \in User : Join(u)
         \/ \E a \in Actor : \/ \E S \in SUBSET User : AddBegin(a, S)
                             \/ \E u \in User : AddOne(a, u)
  PROVE  Inv'
<1> USE DEF chatVars, history, Goto
<1>1. CASE Toggle
  BY <1>1 DEF Inv, TypeOK, Roles, Crossed, Candidates, Deprived, OwnersAccounted, SomebodyStays,
              Removing, Vetted, PastCount, Toggle
<1>2. ASSUME NEW u \in User, Join(u) PROVE Inv'
  BY <1>2 DEF Inv, TypeOK, Roles, Crossed, Candidates, Deprived, OwnersAccounted, SomebodyStays,
              Removing, Vetted, PastCount, Join
<1>3. ASSUME NEW a \in Actor, NEW S \in SUBSET User, AddBegin(a, S) PROVE Inv'
  BY <1>3 DEF Inv, TypeOK, Roles, Crossed, Candidates, Deprived, OwnersAccounted, SomebodyStays,
              Removing, Vetted, PastCount, AddBegin
<1>4. ASSUME NEW a \in Actor, NEW u \in User, AddOne(a, u) PROVE Inv'
  BY <1>4 DEF Inv, TypeOK, Roles, Crossed, Candidates, Deprived, OwnersAccounted, SomebodyStays,
              Removing, Vetted, PastCount, AddOne
<1>5. QED
  BY <1>1, <1>2, <1>3, <1>4

\* A removal counts, or notes that another one is on its way; it takes the
\* ownership away, or notes that somebody gives it back.
LEMMA RemoveStep ==
  ASSUME Inv, NEW a \in Actor,
         \/ \E u \in User : RemoveBegin(a, u)
         \/ RemoveCount(a) \/ UnsetPrimary(a) \/ UnsetBackup(a)
  PROVE  Inv'
<1> USE DEF chatVars, history, Goto
<1>1. ASSUME NEW u \in User, RemoveBegin(a, u) PROVE Inv'
  BY <1>1 DEF Inv, TypeOK, Roles, Crossed, Candidates, Deprived, OwnersAccounted, SomebodyStays,
              Removing, Vetted, PastCount, RemoveBegin
<1>2. CASE RemoveCount(a)
  <2>1. PICK u \in IT : todo[a] = {u}
    BY <1>2 DEF Inv, Roles, RemoveCount
  <2>2. PICK v \in members \cap IT : v # u
    BY <1>2, AnotherStays DEF RemoveCount
  <2>3. /\ \A x \in Actor : pc'[x] = IF x = a THEN "unsetPrimary" ELSE pc[x]
        /\ pc[a] = "count"
        /\ UNCHANGED <<chatVars, todo, newPrimary, newBackup, adrift>>
    BY <1>2 DEF Inv, TypeOK, RemoveCount
  <2>4. TypeOK' /\ Roles' /\ Crossed' /\ Candidates' /\ Deprived' /\ OwnersAccounted'
    <3>1. raced' \in BOOLEAN
      BY <1>2, Zenon DEF Inv, TypeOK, RemoveCount
    <3>2. TypeOK'
      BY <1>2, <3>1 DEF Inv, TypeOK, RemoveCount
    <3>3. Roles' /\ Crossed' /\ Candidates' /\ Deprived' /\ OwnersAccounted'
      BY <2>1, <2>3 DEF Inv, Roles, Crossed, Candidates, Deprived, OwnersAccounted,
                        Removing, Vetted, PastCount
    <3>4. QED
      BY <3>2, <3>3
  <2>5. SomebodyStays'
    <3>1. SUFFICES ASSUME ~raced' PROVE SomebodyStays'
      BY DEF SomebodyStays
    <3>2. ~raced /\ \A b \in Actor : PastCount(b) => todo[b] = todo[a]
      BY <1>2, <3>1 DEF RemoveCount
    <3>3. \A b \in Actor : PastCount(b)' => b = a \/ PastCount(b)
      BY <2>3 DEF PastCount
    <3>4. QED
      BY <2>1, <2>2, <2>3, <3>2, <3>3 DEF SomebodyStays
  <2>6. QED
    BY <2>4, <2>5 DEF Inv
<1>3. CASE UnsetPrimary(a)
  <2>1. /\ \A x \in Actor : pc'[x] = IF x = a THEN "unsetBackup" ELSE pc[x]
        /\ pc[a] = "unsetPrimary"
        /\ UNCHANGED <<operations, closed, members, backup, todo, newPrimary, newBackup, raced>>
        /\ primary' = IF primary \in todo[a] THEN None ELSE primary
        /\ adrift' = adrift \cup {u \in todo[a] : \E b \in Actor : Vetted(b, u)}
    BY <1>3 DEF Inv, TypeOK, UnsetPrimary
  <2>2. TypeOK'
    BY <1>3, <2>1 DEF Inv, TypeOK, UnsetPrimary
  <2>3. Roles' /\ SomebodyStays'
    BY <2>1 DEF Inv, Roles, SomebodyStays, PastCount
  <2>4. \A x \in Actor, u \in User : /\ Vetted(x, u)' <=> Vetted(x, u)
                                     /\ Removing(x, u)' <=> IF x = a THEN u \in todo[a] ELSE Removing(x, u)
    BY <2>1 DEF Vetted, Removing
  <2>5. Crossed' /\ Candidates'
    BY <2>1, <2>4 DEF Inv, Crossed, Candidates
  <2>6. Deprived'
    <3>1. None \notin User
      BY RolesAssumption
    <3>2. QED
      BY <2>1, <2>4, <3>1 DEF Inv, Deprived
  <2>7. OwnersAccounted'
    BY <2>1 DEF Inv, OwnersAccounted
  <2>8. QED
    BY <2>2, <2>3, <2>5, <2>6, <2>7 DEF Inv
<1>4. CASE UnsetBackup(a)
  <2>1. /\ \A x \in Actor : pc'[x] = IF x = a THEN "erase" ELSE pc[x]
        /\ pc[a] = "unsetBackup"
        /\ UNCHANGED <<operations, closed, members, primary, todo, newPrimary, newBackup, adrift, raced>>
        /\ backup' = IF backup \in todo[a] THEN None ELSE backup
    BY <1>4 DEF Inv, TypeOK, UnsetBackup
  <2>2. TypeOK'
    BY <1>4, <2>1 DEF Inv, TypeOK, UnsetBackup
  <2>3. Roles' /\ SomebodyStays'
    BY <2>1 DEF Inv, Roles, SomebodyStays, PastCount
  <2>4. Crossed' /\ Candidates'
    BY <2>1 DEF Inv, Crossed, Candidates, Vetted, Removing
  <2>5. Deprived'
    <3>1. None \notin User
      BY RolesAssumption
    <3>2. QED
      BY <2>1, <3>1 DEF Inv, Deprived, Removing
  <2>6. OwnersAccounted'
    BY <2>1 DEF Inv, OwnersAccounted
  <2>7. QED
    BY <2>2, <2>3, <2>4, <2>5, <2>6 DEF Inv
<1>5. QED
  BY <1>1, <1>2, <1>3, <1>4

\* Who is deleted owns nothing, or is noted, and whoever thinks this person a
\* member has been noted as well; in all other removals somebody else stays.
LEMMA EraseStep ==
  ASSUME Inv, NEW a \in Actor, EraseMember(a)
  PROVE  Inv'
<1> USE DEF history, Goto, Finish
<1>1. /\ \A x \in Actor : /\ pc'[x] = IF x = a THEN "idle" ELSE pc[x]
                          /\ x # a => /\ todo'[x] = todo[x] /\ newPrimary'[x] = newPrimary[x]
                                      /\ newBackup'[x] = newBackup[x]
      /\ pc[a] = "erase" /\ members' = members \ todo[a]
      /\ UNCHANGED <<operations, closed, primary, backup, adrift, raced>>
  BY DEF Inv, TypeOK, EraseMember
<1>2. PICK u \in IT : todo[a] = {u}
  BY <1>1 DEF Inv, Roles, PastCount
<1>3. u \in User /\ Removing(a, u)
  BY <1>1, <1>2 DEF Removing, User, Staff
<1>4. TypeOK'
  BY DEF Inv, TypeOK, EraseMember
<1>5. \A x \in Actor : x # a => /\ PastCount(x)' <=> PastCount(x)
                                /\ \A w \in User : /\ Vetted(x, w)' <=> Vetted(x, w)
                                                   /\ Removing(x, w)' <=> Removing(x, w)
  BY <1>1 DEF PastCount, Vetted, Removing
<1>6. ~PastCount(a)' /\ \A w \in User : ~Vetted(a, w)' /\ ~Removing(a, w)'
  BY <1>1 DEF PastCount, Vetted, Removing
<1>7. Roles'
  BY <1>1 DEF Inv, Roles, PastCount
<1>8. Crossed' /\ Deprived'
  BY <1>1, <1>5, <1>6 DEF Inv, Crossed, Deprived
<1>9. Candidates'
  BY <1>1, <1>2, <1>3, <1>5, <1>6 DEF Inv, Crossed, Candidates
<1>10. OwnersAccounted'
  BY <1>1, <1>2, <1>3 DEF Inv, Deprived, OwnersAccounted
<1>11. SomebodyStays'
  <2>1. PastCount(a)
    BY <1>1 DEF PastCount
  <2>2. QED
    BY <1>1, <1>2, <1>5, <1>6, <2>1 DEF Inv, SomebodyStays
<1>12. QED
  BY <1>4, <1>7, <1>8, <1>9, <1>10, <1>11 DEF Inv

\* A change of owners finds members, and notes whom a removal is deleting.
LEMMA CheckStep ==
  ASSUME Inv, NEW a \in Actor,
         \/ OwnerBegin(a)
         \/ \E p \in User \cup {Keep} : CheckPrimary(a, p)
         \/ \E o \in User \cup {None, Keep} : CheckBackup(a, o)
  PROVE  Inv'
<1> USE DEF chatVars, history, Goto
<1>1. CASE OwnerBegin(a)
  BY <1>1 DEF Inv, TypeOK, Roles, Crossed, Candidates, Deprived, OwnersAccounted, SomebodyStays,
              Removing, Vetted, PastCount, OwnerBegin
<1>2. ASSUME NEW p \in User \cup {Keep}, CheckPrimary(a, p) PROVE Inv'
  <2>1. /\ \A x \in Actor : /\ pc'[x] = IF x = a THEN "backup" ELSE pc[x]
                            /\ newPrimary'[x] = IF x = a THEN p ELSE newPrimary[x]
        /\ pc[a] = "owner" /\ (p # Keep => p \in members \cap IT)
        /\ UNCHANGED <<chatVars, todo, newBackup, raced>>
        /\ adrift' = adrift \cup {u \in {p} \cap User : \E b \in Actor : Removing(b, u)}
    BY <1>2 DEF Inv, TypeOK, CheckPrimary
  <2>2. TypeOK'
    BY <1>2, <2>1 DEF Inv, TypeOK, CheckPrimary
  <2>3. Roles' /\ SomebodyStays'
    BY <2>1 DEF Inv, Roles, SomebodyStays, PastCount
  <2>4. \A x \in Actor, u \in User : /\ Removing(x, u)' <=> Removing(x, u)
                                     /\ Vetted(x, u)' <=> IF x = a THEN u = p ELSE Vetted(x, u)
    BY <2>1 DEF Vetted, Removing
  <2>5. Keep \notin User
    BY RolesAssumption
  <2>6. Crossed' /\ Candidates'
    BY <2>1, <2>4, <2>5 DEF Inv, Crossed, Candidates
  <2>7. Deprived' /\ OwnersAccounted'
    BY <2>1, <2>4 DEF Inv, Deprived, OwnersAccounted
  <2>8. QED
    BY <2>2, <2>3, <2>6, <2>7 DEF Inv
<1>3. ASSUME NEW o \in User \cup {None, Keep}, CheckBackup(a, o) PROVE Inv'
  <2>1. /\ \A x \in Actor : /\ pc'[x] = IF x = a THEN "assign" ELSE pc[x]
                            /\ newBackup'[x] = IF x = a THEN o ELSE newBackup[x]
        /\ pc[a] = "backup" /\ (o \notin {Keep, None} => o \in members \cap IT)
        /\ UNCHANGED <<chatVars, todo, newPrimary, raced>>
        /\ adrift' = adrift \cup {u \in {o} \cap User : \E b \in Actor : Removing(b, u)}
    BY <1>3 DEF Inv, TypeOK, CheckBackup
  <2>2. TypeOK'
    BY <1>3, <2>1 DEF Inv, TypeOK, CheckBackup
  <2>3. Roles' /\ SomebodyStays'
    BY <2>1 DEF Inv, Roles, SomebodyStays, PastCount
  <2>4. \A x \in Actor, u \in User :
           /\ Removing(x, u)' <=> Removing(x, u)
           /\ Vetted(x, u)' => Vetted(x, u) \/ (x = a /\ u = o)
    BY <2>1 DEF Vetted, Removing
  <2>5. Keep \notin User /\ None \notin User
    BY RolesAssumption
  <2>6. Crossed' /\ Candidates'
    BY <2>1, <2>4, <2>5 DEF Inv, Crossed, Candidates
  <2>7. Deprived' /\ OwnersAccounted'
    BY <2>1, <2>4 DEF Inv, Deprived, OwnersAccounted
  <2>8. QED
    BY <2>2, <2>3, <2>6, <2>7 DEF Inv
<1>4. QED
  BY <1>1, <1>2, <1>3

\* The owners written are those found, and noted if a removal is deleting them.
LEMMA AssignStep ==
  ASSUME Inv, NEW a \in Actor, AssignOwners(a) \/ End(a)
  PROVE  Inv'
<1> USE DEF chatVars, history, Goto, Finish
<1>1. /\ \A x \in Actor : /\ pc'[x] = IF x = a THEN "idle" ELSE pc[x]
                          /\ x # a => /\ todo'[x] = todo[x] /\ newPrimary'[x] = newPrimary[x]
                                      /\ newBackup'[x] = newBackup[x]
      /\ UNCHANGED <<operations, closed, members, adrift, raced>>
  BY DEF Inv, TypeOK, AssignOwners, End
<1>2. \A x \in Actor, u \in User : /\ Vetted(x, u)' => Vetted(x, u)
                                   /\ Removing(x, u)' => Removing(x, u) /\ pc'[x] = pc[x]
  BY <1>1 DEF Vetted, Removing
<1>3. Crossed' /\ Candidates'
  BY <1>1, <1>2 DEF Inv, Crossed, Candidates
<1>4. Roles' /\ SomebodyStays'
  BY <1>1 DEF Inv, Roles, SomebodyStays, PastCount
<1>5. CASE End(a)
  <2>1. TypeOK'
    BY <1>5 DEF Inv, TypeOK, End
  <2>2. Deprived' /\ OwnersAccounted'
    BY <1>1, <1>2, <1>5 DEF Inv, Deprived, OwnersAccounted, End
  <2>3. QED
    BY <1>3, <1>4, <2>1, <2>2 DEF Inv
<1>6. CASE AssignOwners(a)
  <2>1. /\ primary' = primary \/ (primary' = newPrimary[a] /\ newPrimary[a] \in IT)
        /\ backup' = backup \/ backup' = None \/ (backup' = newBackup[a] /\ newBackup[a] \in IT)
        /\ pc[a] = "assign"
    BY <1>6 DEF Inv, Roles, AssignOwners
  <2>2. TypeOK'
    BY <1>6, <2>1 DEF Inv, TypeOK, AssignOwners, User, Staff
  <2>3. \A u \in User : /\ primary' = u => primary = u \/ Vetted(a, u)
                        /\ backup' = u => backup = u \/ Vetted(a, u)
    BY <2>1, RolesAssumption DEF Vetted
  <2>4. Deprived'
    BY <1>1, <1>2, <2>3 DEF Inv, Crossed, Deprived
  <2>5. OwnersAccounted'
    <3>1. primary' \in User \cup {None} /\ backup' \in User \cup {None}
      BY <2>2 DEF TypeOK, User, Staff
    <3>2. QED
      BY <1>1, <2>3, <3>1 DEF Inv, Candidates, OwnersAccounted
  <2>6. QED
    BY <1>3, <1>4, <2>2, <2>4, <2>5 DEF Inv
<1>7. QED
  BY <1>5, <1>6

\* The inductive invariant holds, however handlers overlap and wherever they end.
LEMMA Invariance == Spec => []Inv
<1>1. Inv /\ [Next]_vars => Inv'
  <2> SUFFICES ASSUME Inv, [Next]_vars PROVE Inv'
    OBVIOUS
  <2>1. CASE UNCHANGED vars
    BY <2>1 DEF vars, chatVars, history, Inv, TypeOK, Roles, Crossed, Candidates, Deprived,
                OwnersAccounted, SomebodyStays, Removing, Vetted, PastCount
  <2>2. CASE Next
    BY <2>2, ComeStep, RemoveStep, EraseStep, CheckStep, AssignStep DEF Next
  <2>3. QED
    BY <2>1, <2>2
<1>2. QED
  BY InitInv, <1>1, PTL DEF Spec

-----------------------------------------------------------------------------
\* The owner of a chat is from the staff and the backup owner from IT, and all
\* variables keep their types, for every way in which a chat comes to be and
\* every overlap of handlers.
THEOREM TypeCorrect == Spec => []TypeOK
<1>1. Inv => TypeOK
  BY DEF Inv
<1>2. QED
  BY Invariance, <1>1, PTL

\* For any number of overlapping handlers, which may all end half-way: an owner
\* outside the chat founded an operations chat, or was being removed and made an
\* owner at the same time.
THEOREM StrayOwners == Spec => []OwnersAccounted
<1>1. Inv => OwnersAccounted
  BY DEF Inv
<1>2. QED
  BY Invariance, <1>1, PTL

\* For any number of overlapping handlers: a chat loses its last IT member only
\* after two removals of different people had both counted before either deleted.
THEOREM LastMember == Spec => LastNeedsRace
<1>1. Inv /\ [Next]_vars => [members \cap IT # {} /\ members' \cap IT = {} => raced]_vars
  <2> SUFFICES ASSUME Inv, Next, members \cap IT # {}, ~raced PROVE members' \cap IT # {}
    OBVIOUS
  <2>1. ASSUME NEW a \in Actor, EraseMember(a) PROVE members' \cap IT # {}
    <3>1. PICK v \in members \cap IT : v \notin todo[a]
      BY <2>1 DEF Inv, SomebodyStays, PastCount, EraseMember
    <3>2. QED
      BY <2>1, <3>1 DEF EraseMember
  <2>2. members \subseteq members' \/ \E a \in Actor : EraseMember(a)
    BY DEF Next, Toggle, Join, AddBegin, AddOne, RemoveBegin, OwnerBegin, RemoveCount, UnsetPrimary,
           UnsetBackup, CheckPrimary, CheckBackup, AssignOwners, End, chatVars
  <2>3. QED
    BY <2>1, <2>2
<1>2. QED
  BY Invariance, <1>1, PTL DEF Spec, LastNeedsRace
=============================================================================
