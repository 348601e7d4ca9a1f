---------------------------- MODULE StockLedger ----------------------------
(***************************************************************************)
(* inventoryModuleStockOperation (inventory_management.go): "add",         *)
(* "reduce" and "transfer" of one sub item between branches, each a        *)
(* transaction of one or two calls of adjustInventoryStockLevel and of a   *)
(* row in inventory_stock_movements.                                       *)
(*                                                                         *)
(* adjustInventoryStockLevel reads the quantity without a lock and later   *)
(* writes an absolute one.  At READ COMMITTED the SELECT sees the last     *)
(* committed quantity and waits for nobody; the write waits until no other *)
(* transaction holds the row, keeps the row to the end of its own, and     *)
(* overwrites whatever was committed meanwhile.                            *)
(***************************************************************************)
EXTENDS Integers, FiniteSets

CONSTANTS Branch, Request, MaxQuantity, Width, None

ASSUME QuantityAssumption == MaxQuantity \in Nat \ {0}
ASSUME WidthAssumption == Width \in Nat \ {0}   \* requests served at the same time, at most
ASSUME NoneAssumption == None \notin Request \cup Branch

VARIABLES stock,   \* inventory_stock: committed quantity, 0 for no row
          into,    \* what the start and the committed movements brought to a branch,
          outof,   \*   and what they took from it
          lock,    \* the request whose transaction holds a branch's row
          pc,      \* where each request is,
          source, target, quantity,   \* what it asks for,
          branch,  \*   the branch whose level it adjusts now,
          seen,    \*   the level it read there,
          draft,   \*   and the levels it has written and not committed
          missed,  \* history: by how much others had changed a row between a request's
          lost     \*   SELECT and its write, and the sum of that over the commits

shared  == <<stock, into, outof>>
asked   == <<source, target, quantity>>
history == <<missed, lost>>
vars    == <<shared, lock, pc, asked, branch, seen, draft, history>>

Quantity  == 1 .. MaxQuantity
Unwritten == -1

TypeOK == /\ stock \in [Branch -> Nat]
          /\ into \in [Branch -> Nat] /\ outof \in [Branch -> Nat]
          /\ lock \in [Branch -> Request \cup {None}]
          /\ pc \in [Request -> {"new", "read", "write", "move", "done"}]
          /\ source \in [Request -> Branch \cup {None}]
          /\ target \in [Request -> Branch \cup {None}]
          /\ quantity \in [Request -> Quantity \cup {0}]
          /\ branch \in [Request -> Branch \cup {None}]
          /\ seen \in [Request -> Nat]
          /\ draft \in [Request -> [Branch -> Nat \cup {Unwritten}]]
          /\ missed \in [Request -> [Branch -> Int]]
          /\ lost \in [Branch -> Int]

\* The levels a sub item is created with, by setInventoryStockLevels, count as
\* brought there.
Init == /\ stock \in [Branch -> Quantity \cup {0}]
        /\ into = stock
        /\ outof = [b \in Branch |-> 0]
        /\ lock = [b \in Branch |-> None]
        /\ pc = [r \in Request |-> "new"]
        /\ source = [r \in Request |-> None] /\ target = [r \in Request |-> None]
        /\ quantity = [r \in Request |-> 0]
        /\ branch = [r \in Request |-> None]
        /\ seen = [r \in Request |-> 0]
        /\ draft = [r \in Request |-> [b \in Branch |-> Unwritten]]
        /\ missed = [r \in Request |-> [b \in Branch |-> 0]]
        /\ lost = [b \in Branch |-> 0]

Running == {r \in Request : pc[r] \notin {"new", "done"}}

Goto(r, where) == pc' = [pc EXCEPT ![r] = where]

\* The transaction ends, its locks go.
Release(r) == lock' = [b \in Branch |-> IF lock[b] = r THEN None ELSE lock[b]]

\* What a request brings to, and takes from, a branch.
Gain(r, b) == IF b = target[r] THEN quantity[r] ELSE 0
Loss(r, b) == IF b = source[r] THEN quantity[r] ELSE 0

\* "next" of the code: the level the request makes of the level it read.
NextLevel(r, level) == level + Gain(r, branch[r]) - Loss(r, branch[r])

\* The write takes no notice of what came after the SELECT.
Miss(r) == missed' = [missed EXCEPT ![r] =
                        [b \in Branch |-> IF b = branch[r] THEN stock[b] - seen[r] ELSE missed[r][b]]]

-----------------------------------------------------------------------------
\* "add" has no source, "reduce" no target, "transfer" has both; the level of
\* the source is adjusted first.
Begin(r, s, t, q) ==
    /\ pc[r] = "new"
    /\ Cardinality(Running) < Width
    /\ s # t
    /\ source' = [source EXCEPT ![r] = s]
    /\ target' = [target EXCEPT ![r] = t]
    /\ quantity' = [quantity EXCEPT ![r] = q]
    /\ branch' = [branch EXCEPT ![r] = IF s # None THEN s ELSE t]
    /\ Goto(r, "read")
    /\ UNCHANGED <<shared, lock, seen, draft, history>>

\* SELECT quantity, and the test that it is sufficient.
Read(r) ==
    /\ pc[r] = "read"
    /\ NextLevel(r, stock[branch[r]]) >= 0
    /\ seen' = [seen EXCEPT ![r] = stock[branch[r]]]
    /\ Goto(r, "write")
    /\ UNCHANGED <<shared, lock, asked, branch, draft, history>>

\* "insufficient stock in selected branch": the whole transaction is rolled back.
Refuse(r) ==
    /\ pc[r] = "read"
    /\ NextLevel(r, stock[branch[r]]) < 0
    /\ Goto(r, "done")
    /\ Release(r)
    /\ UNCHANGED <<shared, asked, branch, seen, draft, history>>

\* Mutant of Proceed: a transfer forgets its second branch.
Proceed_SourceOnly(r) == branch' = branch /\ Goto(r, "move")

\* The call of adjustInventoryStockLevel returns: on to the other branch of a
\* transfer, or to the movement row.
Proceed(r) ==
    IF branch[r] = source[r] /\ target[r] # None
      THEN branch' = [branch EXCEPT ![r] = target[r]] /\ Goto(r, "read")
      ELSE branch' = branch /\ Goto(r, "move")

\* Nothing is to be left, and the row is gone already.
NothingToErase(r) == NextLevel(r, seen[r]) = 0 /\ stock[branch[r]] = 0

\* Mutant of Write: on the connection pool instead of the transaction.
Write_Autocommit(r) ==
    /\ pc[r] = "write"
    /\ ~NothingToErase(r)
    /\ lock[branch[r]] = None
    /\ stock' = [stock EXCEPT ![branch[r]] = NextLevel(r, seen[r])]
    /\ Miss(r)
    /\ Proceed(r)
    /\ UNCHANGED <<into, outof, lock, asked, seen, draft, lost>>

\* The upsert of a positive level, or the DELETE when nothing is left, which
\* holds the row until the transaction ends.
Write(r) ==
    /\ pc[r] = "write"
    /\ ~NothingToErase(r)
    /\ lock[branch[r]] = None
    /\ lock' = [lock EXCEPT ![branch[r]] = r]
    /\ draft' = [draft EXCEPT ![r] =
                   [b \in Branch |-> IF b = branch[r] THEN NextLevel(r, seen[r]) ELSE draft[r][b]]]
    /\ Miss(r)
    /\ Proceed(r)
    /\ UNCHANGED <<shared, asked, seen, lost>>

\* A DELETE that finds no row waits for nobody and holds nothing.
EraseNothing(r) ==
    /\ pc[r] = "write"
    /\ NothingToErase(r)
    /\ Miss(r)
    /\ Proceed(r)
    /\ UNCHANGED <<shared, lock, asked, seen, draft, lost>>

\* Mutant of Commit: every branch of the sub item is written, as the branches
\* of an item form are.
Commit_EveryBranch(r) ==
    /\ pc[r] = "move"
    /\ stock' = draft[r]
    /\ into' = [b \in Branch |-> into[b] + Gain(r, b)]
    /\ outof' = [b \in Branch |-> outof[b] + Loss(r, b)]
    /\ lost' = [b \in Branch |-> lost[b] + missed[r][b]]
    /\ Goto(r, "done")
    /\ Release(r)
    /\ UNCHANGED <<asked, branch, seen, draft, missed>>

\* INSERT INTO inventory_stock_movements, and the commit.
Commit(r) ==
    /\ pc[r] = "move"
    /\ stock' = [b \in Branch |-> IF draft[r][b] = Unwritten THEN stock[b] ELSE draft[r][b]]
    /\ into' = [b \in Branch |-> into[b] + Gain(r, b)]
    /\ outof' = [b \in Branch |-> outof[b] + Loss(r, b)]
    /\ lost' = [b \in Branch |-> lost[b] + missed[r][b]]
    /\ Goto(r, "done")
    /\ Release(r)
    /\ UNCHANGED <<asked, branch, seen, draft, missed>>

\* Mutant of Fail: an error path without the rollback.
Fail_KeepsRows(r) ==
    /\ r \in Running
    /\ Goto(r, "done")
    /\ UNCHANGED <<shared, lock, asked, branch, seen, draft, history>>

\* Mutant of Fail: an error path that commits.
Fail_Commits(r) ==
    /\ r \in Running
    /\ stock' = [b \in Branch |-> IF draft[r][b] = Unwritten THEN stock[b] ELSE draft[r][b]]
    /\ Goto(r, "done")
    /\ Release(r)
    /\ UNCHANGED <<into, outof, asked, branch, seen, draft, history>>

\* An SQL error or a restart of the server: a rollback.
Fail(r) ==
    /\ r \in Running
    /\ Goto(r, "done")
    /\ Release(r)
    /\ UNCHANGED <<shared, asked, branch, seen, draft, history>>

\* PostgreSQL's deadlock detector: of requests that wait for each other's rows
\* in a ring, one is rolled back.
Waits(r)  == pc[r] = "write" /\ ~NothingToErase(r) /\ lock[branch[r]] # None
InRing(r) == \E ring \in SUBSET Request :
               /\ r \in ring
               /\ \A x \in ring : Waits(x)
               /\ {lock[branch[x]] : x \in ring} = ring
Victim(r) == InRing(r) /\ Fail(r)

Step(r) == Read(r) \/ Refuse(r) \/ Write(r) \/ EraseNothing(r) \/ Commit(r) \/ Victim(r)

Next == \E r \in Request :
           \/ \E s \in Branch \cup {None}, t \in Branch \cup {None}, q \in Quantity : Begin(r, s, t, q)
           \/ Step(r)
           \/ Fail(r)

Spec == Init /\ [][Next]_vars

\* The server goes on with a transaction it has begun, and the detector finds
\* every ring; nobody has to send a request, and nothing has to fail.
FairSpec == Spec /\ \A r \in Request : WF_vars(Step(r))

-----------------------------------------------------------------------------
\* What a branch holds is what the movement rows brought there less what they
\* took, short of exactly the changes that committed writes have overwritten: a
\* row changed by another transaction between the SELECT and the write of
\* adjustInventoryStockLevel is the only way the books go wrong.  A transaction
\* that stops after the first branch of a transfer, or before its movement row,
\* leaves no trace, and nobody gets at a row between its write and the commit.
BooksAccounted == \A b \in Branch : stock[b] = into[b] - outof[b] - lost[b]

\* However transactions overlap, and although updates get lost, a branch never
\* shows more than was ever brought there.
NothingFromNothing == \A b \in Branch : stock[b] <= into[b]

\* Every operation that was begun ends: two transfers in opposite directions
\* take the two rows in opposite order and wait for each other, until the
\* database rolls one back.
BegunEnds == \A r \in Request : r \in Running ~> pc[r] = "done"

\* "insufficient stock in selected branch": nobody takes more from a branch than
\* was brought there.  Two reductions that both read the level before either
\* writes it both succeed.
NoOverdraw == \A b \in Branch : outof[b] <= into[b]

-----------------------------------------------------------------------------
(* The promise. *)

Books == INSTANCE StockBooks

\* A write of the transaction has overwritten a change of another one.
Overwrites(r) == \E b \in Branch : missed[r][b] # 0

\* SELECTs, tests and writes at one branch and then the other, movement row, commit
\* and rollback act like one step that moves the pieces, from a branch that has
\* them, or like none: no state shows half a transfer, nor a level changed without
\* its row in the books.  The commit of an operation that has overwritten a
\* change of another is the only step that does not.
BooksButForLosses ==
    Books!Init /\ [][Books!Next \/ \E r \in Request : Commit(r) /\ Overwrites(r)]_shared
=============================================================================
