------------------------- MODULE StockLedgerProofs -------------------------
(***************************************************************************)
(* For any number of branches, requests and overlapping transactions: the  *)
(* levels stay natural numbers, no branch ever shows more than was brought *)
(* there, the books are short of exactly what the writes have overwritten, *)
(* and somebody can always go on.                                          *)
(*                                                                         *)
(* NothingFromNothing is not inductive: a commit writes a level computed   *)
(* earlier.  Bounded follows that level from the SELECT to the commit; it  *)
(* survives the commits of others because "into" only grows.               *)
(* BooksAccounted needs where every running transaction stands (Halfway):  *)
(* a row it has written is its own until it ends.                          *)
(***************************************************************************)
EXTENDS StockLedger, FiniteSetTheorems, WellFoundedInduction, TLAPS

\* An adjustment goes on at a branch, to a level that is not negative, and a
\* request that has not begun has written nothing.
Placed == \A r \in Request :
             /\ pc[r] \in {"read", "write"} => branch[r] \in Branch
             /\ pc[r] = "write" => NextLevel(r, seen[r]) >= 0
             /\ pc[r] = "new" => \A b \in Branch : draft[r][b] = Unwritten

\* What a request has read, or written and not committed, is at most what was
\* brought to the branch, its own gain included.
Bounded == \A r \in Request :
              /\ pc[r] = "write" => seen[r] <= into[branch[r]]
              /\ \A b \in Branch : draft[r][b] # Unwritten =>
                                      draft[r][b] <= into[b] + Gain(r, b)

Inv == TypeOK /\ Placed /\ Bounded /\ NothingFromNothing

-----------------------------------------------------------------------------
\* The amounts of a request are natural numbers.
LEMMA Amounts ==
  ASSUME Inv, NEW r \in Request, NEW b \in Branch
  PROVE  Gain(r, b) \in Nat /\ Loss(r, b) \in Nat
BY QuantityAssumption DEF Inv, TypeOK, Gain, Loss, Quantity

\* At the start every level counts as brought, and no request has begun.
LEMMA InitInv == Init => Inv
<1> SUFFICES ASSUME Init PROVE Inv
  OBVIOUS
<1>1. TypeOK
  BY QuantityAssumption DEF Init, TypeOK, Quantity
<1>2. Placed /\ Bounded
  BY DEF Init, Placed, Bounded
<1>3. NothingFromNothing
  <2>1. \A b \in Branch : stock[b] \in Int
    BY <1>1 DEF TypeOK
  <2>2. QED
    BY <2>1 DEF Init, NothingFromNothing
<1>4. QED
  BY <1>1, <1>2, <1>3 DEF Inv

\* A request that begins has read and written nothing yet.
LEMMA BeginStep ==
  ASSUME Inv, NEW r \in Request, NEW s \in Branch \cup {None}, NEW t \in Branch \cup {None},
         NEW q \in Quantity, Begin(r, s, t, q)
  PROVE  Inv'
<1> USE DEF shared, history
<1>1. TypeOK'
  BY DEF Inv, TypeOK, Begin, Goto
<1>2. Placed'
  BY NoneAssumption DEF Inv, TypeOK, Placed, Begin, Goto, NextLevel, Gain, Loss
<1>3. Bounded'
  BY DEF Inv, TypeOK, Placed, Bounded, Begin, Goto, Gain
<1>4. NothingFromNothing'
  BY DEF Inv, NothingFromNothing, Begin
<1>5. QED
  BY <1>1, <1>2, <1>3, <1>4 DEF Inv

\* A SELECT sees a committed level.
LEMMA ReadStep ==
  ASSUME Inv, NEW r \in Request, Read(r)
  PROVE  Inv'
<1> USE DEF shared, asked, history
<1>1. branch[r] \in Branch
  BY DEF Inv, Placed, Read
<1>2. TypeOK'
  BY <1>1 DEF Inv, TypeOK, Read, Goto
<1>3. Placed'
  BY <1>1 DEF Inv, TypeOK, Placed, Read, Goto, NextLevel, Gain, Loss
<1>4. Bounded'
  BY <1>1 DEF Inv, TypeOK, Bounded, NothingFromNothing, Read, Goto, Gain
<1>5. NothingFromNothing'
  BY DEF Inv, NothingFromNothing, Read
<1>6. QED
  BY <1>2, <1>3, <1>4, <1>5 DEF Inv

\* What a write misses is a number, the row being a branch's.
LEMMA MissType ==
  ASSUME Inv, NEW r \in Request, branch[r] \in Branch, Miss(r)
  PROVE  missed' \in [Request -> [Branch -> Int]]
<1>1. stock[branch[r]] \in Int /\ seen[r] \in Int /\ \A b \in Branch : missed[r][b] \in Int
  BY DEF Inv, TypeOK
<1>2. [b \in Branch |-> IF b = branch[r] THEN stock[b] - seen[r] ELSE missed[r][b]] \in [Branch -> Int]
  BY <1>1
<1>3. QED
  BY <1>2 DEF Inv, TypeOK, Miss

\* A write drafts the level read plus the request's own gain.
LEMMA WriteStep ==
  ASSUME Inv, NEW r \in Request, Write(r)
  PROVE  Inv'
<1> USE DEF shared, asked, history
<1>1. pc[r] = "write" /\ branch[r] \in Branch
  BY DEF Inv, Placed, Write
<1>2. PICK n : n = NextLevel(r, seen[r])
  OBVIOUS
<1>3. n \in Nat /\ n <= into[branch[r]] + Gain(r, branch[r])
  <2>1. n \in Int /\ n >= 0
    BY <1>1, <1>2, Amounts DEF Inv, TypeOK, Placed, NextLevel
  <2>2. seen[r] <= into[branch[r]]
    BY <1>1 DEF Inv, Bounded
  <2>3. QED
    BY <1>1, <1>2, <2>1, <2>2, Amounts DEF Inv, TypeOK, NextLevel
<1>4. \A x \in Request, b \in Branch :
        draft'[x][b] = IF x = r /\ b = branch[r] THEN n ELSE draft[x][b]
  BY <1>2 DEF Inv, TypeOK, Write
<1>5. draft' \in [Request -> [Branch -> Nat \cup {Unwritten}]]
  BY <1>2, <1>3 DEF Inv, TypeOK, Write
<1>6. /\ pc' \in [Request -> {"new", "read", "write", "move", "done"}]
      /\ branch' \in [Request -> Branch \cup {None}]
      /\ \A x \in Request \ {r} : pc'[x] = pc[x] /\ branch'[x] = branch[x]
      /\ pc'[r] \in {"read", "move"}
      /\ pc'[r] = "read" => branch'[r] \in Branch
  BY DEF Inv, TypeOK, Write, Proceed, Goto
<1>7. TypeOK'
  <2>1. missed' \in [Request -> [Branch -> Int]]
    BY <1>1, MissType DEF Write
  <2>2. lock' \in [Branch -> Request \cup {None}]
    BY <1>1 DEF Inv, TypeOK, Write
  <2>3. QED
    BY <1>5, <1>6, <2>1, <2>2 DEF Inv, TypeOK, Write
<1>8. Placed'
  BY <1>1, <1>4, <1>6 DEF Inv, TypeOK, Placed, Write, NextLevel, Gain, Loss
<1>9. Bounded'
  BY <1>3, <1>4, <1>6 DEF Inv, Bounded, Write, Gain
<1>10. NothingFromNothing'
  BY DEF Inv, NothingFromNothing, Write
<1>11. QED
  BY <1>7, <1>8, <1>9, <1>10 DEF Inv

\* The DELETE that finds no row drafts nothing.
LEMMA EraseNothingStep ==
  ASSUME Inv, NEW r \in Request, EraseNothing(r)
  PROVE  Inv'
<1> USE DEF shared, asked, history
<1>1. /\ pc' \in [Request -> {"new", "read", "write", "move", "done"}]
      /\ branch' \in [Request -> Branch \cup {None}]
      /\ \A x \in Request \ {r} : pc'[x] = pc[x] /\ branch'[x] = branch[x]
      /\ pc'[r] \in {"read", "move"}
      /\ pc'[r] = "read" => branch'[r] \in Branch
  BY DEF Inv, TypeOK, Placed, EraseNothing, Proceed, Goto
<1>2. TypeOK'
  <2>1. missed' \in [Request -> [Branch -> Int]]
    BY MissType DEF Inv, Placed, EraseNothing
  <2>2. QED
    BY <1>1, <2>1 DEF Inv, TypeOK, EraseNothing
<1>3. Placed'
  BY <1>1 DEF Inv, Placed, EraseNothing, NextLevel, Gain, Loss
<1>4. Bounded' /\ NothingFromNothing'
  BY <1>1 DEF Inv, Bounded, NothingFromNothing, EraseNothing, Gain
<1>5. QED
  BY <1>2, <1>3, <1>4 DEF Inv

\* A commit publishes drafts that are bounded by what is brought with them.
LEMMA CommitStep ==
  ASSUME Inv, NEW r \in Request, Commit(r)
  PROVE  Inv'
<1> USE DEF shared, asked, history
<1>1. \A b \in Branch : /\ into'[b] = into[b] + Gain(r, b)
                        /\ into[b] \in Nat /\ into'[b] \in Nat /\ into[b] <= into'[b]
                        /\ outof[b] \in Nat /\ outof'[b] \in Nat
  BY Amounts DEF Inv, TypeOK, Commit
<1>2. \A b \in Branch : /\ stock'[b] \in Nat
                        /\ stock'[b] <= into'[b]
  <2> SUFFICES ASSUME NEW b \in Branch PROVE stock'[b] \in Nat /\ stock'[b] <= into'[b]
    OBVIOUS
  <2>1. stock'[b] = IF draft[r][b] = Unwritten THEN stock[b] ELSE draft[r][b]
    BY DEF Commit
  <2>2. stock[b] \in Nat /\ stock[b] <= into[b] /\ draft[r][b] \in Nat \cup {Unwritten}
    BY DEF Inv, TypeOK, NothingFromNothing
  <2>3. draft[r][b] # Unwritten => draft[r][b] <= into[b] + Gain(r, b)
    BY DEF Inv, Bounded
  <2>4. QED
    BY <1>1, <2>1, <2>2, <2>3
<1>3. /\ pc' \in [Request -> {"new", "read", "write", "move", "done"}]
      /\ \A x \in Request : pc'[x] = IF x = r THEN "done" ELSE pc[x]
  BY DEF Inv, TypeOK, Commit, Goto
<1>4. TypeOK'
  BY <1>1, <1>2, <1>3 DEF Inv, TypeOK, Commit, Release
<1>5. Placed'
  BY <1>3 DEF Inv, Placed, Commit, NextLevel, Gain, Loss
<1>6. Bounded'
  <2> SUFFICES ASSUME NEW x \in Request
               PROVE  /\ pc'[x] = "write" => seen[x] <= into'[branch[x]]
                      /\ \A b \in Branch : draft[x][b] # Unwritten =>
                                              draft[x][b] <= into'[b] + Gain(x, b)
    BY DEF Bounded, Commit, Gain
  <2>1. ASSUME pc'[x] = "write" PROVE seen[x] <= into'[branch[x]]
    <3>1. branch[x] \in Branch /\ seen[x] \in Nat /\ seen[x] <= into[branch[x]]
      BY <1>3, <2>1 DEF Inv, TypeOK, Placed, Bounded
    <3>2. QED
      BY <1>1, <3>1
  <2>2. ASSUME NEW b \in Branch, draft[x][b] # Unwritten
        PROVE  draft[x][b] <= into'[b] + Gain(x, b)
    <3>1. draft[x][b] \in Nat /\ draft[x][b] <= into[b] + Gain(x, b)
      BY <2>2 DEF Inv, TypeOK, Bounded
    <3>2. QED
      BY <1>1, <3>1, Amounts
  <2>3. QED
    BY <2>1, <2>2
<1>7. NothingFromNothing'
  BY <1>2 DEF NothingFromNothing
<1>8. QED
  BY <1>4, <1>5, <1>6, <1>7 DEF Inv

\* A rollback publishes nothing.
LEMMA RollbackStep ==
  ASSUME Inv, NEW r \in Request, Refuse(r) \/ Fail(r)
  PROVE  Inv'
<1> USE DEF shared, asked, history
<1>1. TypeOK'
  BY DEF Inv, TypeOK, Refuse, Fail, Goto, Release
<1>2. Placed'
  BY DEF Inv, TypeOK, Placed, Refuse, Fail, Goto, NextLevel, Gain, Loss
<1>3. Bounded' /\ NothingFromNothing'
  BY DEF Inv, TypeOK, Bounded, NothingFromNothing, Refuse, Fail, Goto, Gain
<1>4. QED
  BY <1>1, <1>2, <1>3 DEF Inv

\* Inv holds in every state of every behavior of the specification.
THEOREM Invariance == Spec => []Inv
<1>1. Inv /\ [Next]_vars => Inv'
  <2> SUFFICES ASSUME Inv, [Next]_vars PROVE Inv'
    OBVIOUS
  <2>1. CASE UNCHANGED vars
    BY <2>1 DEF vars, shared, asked, history, Inv, TypeOK, Placed, Bounded, NothingFromNothing,
                NextLevel, Gain, Loss
  <2>2. ASSUME NEW r \in Request, Step(r) \/ Fail(r) PROVE Inv'
    BY <2>2, ReadStep, WriteStep, EraseNothingStep, CommitStep, RollbackStep DEF Step, Victim
  <2>3. ASSUME NEW r \in Request, NEW s \in Branch \cup {None}, NEW t \in Branch \cup {None},
               NEW q \in Quantity, Begin(r, s, t, q)
        PROVE  Inv'
    BY <2>3, BeginStep
  <2>4. QED
    BY <2>1, <2>2, <2>3 DEF Next
<1>2. QED
  BY InitInv, <1>1, PTL DEF Spec

-----------------------------------------------------------------------------
\* The levels, the books and the drafts keep their types: in particular no
\* overlap of transactions makes a level negative, so the CHECK of the schema
\* never stops a transaction that the code has let through.
THEOREM TypeCorrect == Spec => []TypeOK
<1>1. Inv => TypeOK
  BY DEF Inv
<1>2. QED
  BY Invariance, <1>1, PTL

\* However many transactions overlap, a branch never shows more than was ever
\* brought there.
THEOREM NoStockFromNothing == Spec => []NothingFromNothing
<1>1. Inv => NothingFromNothing
  BY DEF Inv
<1>2. QED
  BY Invariance, <1>1, PTL
-----------------------------------------------------------------------------
(* The books. *)

\* What a transaction would leave at a branch if it committed now.
Pending(r, b) == IF draft[r][b] = Unwritten THEN stock[b] ELSE draft[r][b]

\* It has done at branch b what it was asked to do there, and what it overwrote
\* there is noted.
Settled(r, b) == Pending(r, b) = stock[b] + Gain(r, b) - Loss(r, b) - missed[r][b]

\* The branches whose turn has not come, or is now.
Waiting(r) == IF pc[r] \in {"read", "write"}
                THEN {branch[r]} \cup (IF branch[r] = source[r] THEN {target[r]} ELSE {})
                ELSE {}

\* Where a transaction stands: it asks for a quantity at two different branches and
\* works on one of them, the rows it has written are its own, and every branch is
\* settled but for those still waiting.
Halfway(r) ==
    /\ source[r] # target[r] /\ quantity[r] \in Quantity
    /\ pc[r] \in {"read", "write"} => branch[r] \in {source[r], target[r]}
    /\ \A b \in Branch : /\ draft[r][b] # Unwritten => lock[b] = r
                         /\ IF b \in Waiting(r) THEN draft[r][b] = Unwritten
                                                ELSE Settled(r, b)

BooksInv == /\ Inv /\ BooksAccounted
            /\ \A r \in Running : Halfway(r)
            /\ \A r \in Request, b \in Branch : pc[r] = "new" => missed[r][b] = 0

\* Nothing has begun at the start, and the levels count as brought.
LEMMA BooksInit == Init => BooksInv
<1> SUFFICES ASSUME Init PROVE BooksInv
  OBVIOUS
<1>1. Inv /\ Running = {}
  BY InitInv DEF Init, Running
<1>2. \A b \in Branch : stock[b] \in Nat
  BY <1>1 DEF Inv, TypeOK
<1>3. BooksAccounted
  BY <1>2 DEF Init, BooksAccounted
<1>4. QED
  BY <1>1, <1>3 DEF BooksInv, Init

\* A request that begins has settled every branch it has nothing to do with.
LEMMA BooksBegin ==
  ASSUME BooksInv, Inv', NEW r \in Request, NEW s \in Branch \cup {None},
         NEW t \in Branch \cup {None}, NEW q \in Quantity, Begin(r, s, t, q)
  PROVE  BooksInv'
<1> USE DEF shared, history, BooksInv, Inv
<1>1. Running' = Running \cup {r} /\ pc[r] = "new" /\ pc'[r] = "read"
  BY DEF TypeOK, Begin, Goto, Running
<1>2. /\ source'[r] = s /\ target'[r] = t /\ s # t /\ quantity'[r] = q
      /\ branch'[r] = IF s # None THEN s ELSE t
  BY DEF TypeOK, Begin
<1>3. \A x \in Request \ {r} : /\ pc'[x] = pc[x] /\ source'[x] = source[x] /\ target'[x] = target[x]
                               /\ quantity'[x] = quantity[x] /\ branch'[x] = branch[x]
  BY DEF TypeOK, Begin, Goto
<1>4. /\ draft' = draft /\ stock' = stock /\ missed' = missed /\ lock' = lock
      /\ \A b \in Branch : draft[r][b] = Unwritten /\ missed[r][b] = 0 /\ stock[b] \in Nat
  BY <1>1 DEF TypeOK, Placed, Begin
<1>5. ASSUME NEW b \in Branch, b \notin Waiting(r)' PROVE Settled(r, b)'
  <2>1. b # s /\ b # t
    BY <1>1, <1>2, <1>5, NoneAssumption DEF Waiting
  <2>2. QED
    BY <1>2, <1>4, <2>1 DEF Settled, Pending, Gain, Loss
<1>6. Halfway(r)'
  BY <1>1, <1>2, <1>4, <1>5 DEF Halfway
<1>7. ASSUME NEW x \in Running, x # r PROVE Halfway(x)'
  BY <1>3, <1>4, <1>7 DEF Halfway, Waiting, Settled, Pending, Gain, Loss, Running
<1>8. BooksAccounted'
  BY DEF BooksAccounted, Begin
<1>9. QED
  BY <1>1, <1>3, <1>4, <1>6, <1>7, <1>8

\* A SELECT changes nothing of this.
LEMMA BooksRead ==
  ASSUME BooksInv, Inv', NEW r \in Request, Read(r)
  PROVE  BooksInv'
<1> USE DEF shared, asked, history, BooksInv, Inv
<1>1. /\ Running' = Running /\ pc[r] = "read" /\ pc'[r] = "write"
      /\ \A x \in Request : x # r => pc'[x] = pc[x]
  BY DEF TypeOK, Read, Goto, Running
<1>2. ASSUME NEW x \in Running PROVE Halfway(x)'
  BY <1>1 DEF Halfway, Waiting, Settled, Pending, Gain, Loss, Read, Running
<1>3. BooksAccounted'
  BY DEF BooksAccounted, Read
<1>4. QED
  BY <1>1, <1>2, <1>3 DEF Read

\* The write, or the DELETE of nothing, settles the branch; then the target of a
\* transfer is next, or the movement row.  The others have not written the row.
LEMMA BooksWrite ==
  ASSUME BooksInv, Inv', NEW r \in Request, Write(r) \/ EraseNothing(r)
  PROVE  BooksInv'
<1> USE DEF shared, asked, history, BooksInv
<1>1. pc[r] = "write" /\ r \in Running /\ branch[r] \in Branch
  BY DEF Inv, Placed, Write, EraseNothing, Running
<1>2. PICK c \in Branch : c = branch[r]
  BY <1>1
<1>3. /\ pc'[r] \in {"read", "move"} /\ Running' = Running
      /\ \A x \in Request : x # r => pc'[x] = pc[x] /\ branch'[x] = branch[x]
  BY <1>1 DEF Inv, TypeOK, Write, EraseNothing, Proceed, Goto, Running
<1>4. /\ stock' = stock /\ source' = source /\ target' = target /\ quantity' = quantity
      /\ into' = into /\ outof' = outof /\ seen' = seen /\ lost' = lost
  BY DEF Write, EraseNothing
<1>5. /\ source[r] # target[r] /\ quantity[r] \in Quantity
      /\ c \in {source[r], target[r]} /\ c \in Waiting(r)
      /\ stock[c] \in Nat /\ seen[r] \in Nat /\ draft[r][c] = Unwritten
  BY <1>1, <1>2 DEF Inv, TypeOK, Halfway, Waiting
<1>6. /\ missed'[r][c] = stock[c] - seen[r]
      /\ \A x \in Request, b \in Branch : x # r \/ b # c => missed'[x][b] = missed[x][b]
  BY <1>2 DEF Inv, TypeOK, Write, EraseNothing, Miss
<1>7. \A x \in Request, b \in Branch : x # r \/ b # c => draft'[x][b] = draft[x][b]
  BY <1>2 DEF Inv, TypeOK, Write, EraseNothing
<1>8. /\ \A b \in Branch : lock'[b] = lock[b] \/ (b = c /\ lock[c] = None /\ lock'[c] = r)
      /\ draft'[r][c] # Unwritten => lock'[c] = r
  <2>1. CASE Write(r)
    BY <1>2, <2>1 DEF Inv, TypeOK, Write
  <2>2. CASE EraseNothing(r)
    BY <1>5, <2>2 DEF EraseNothing
  <2>3. QED
    BY <2>1, <2>2
<1>9. Settled(r, c)'
  <2>1. Settled(r, c)' <=> (IF draft'[r][c] = Unwritten THEN stock[c] ELSE draft'[r][c])
                             = stock[c] + Gain(r, c) - Loss(r, c) - (stock[c] - seen[r])
    BY <1>4, <1>6 DEF Settled, Pending, Gain, Loss
  <2>2. NextLevel(r, seen[r]) = seen[r] + Gain(r, c) - Loss(r, c)
    BY <1>2 DEF NextLevel
  <2>3. Gain(r, c) \in Nat /\ Loss(r, c) \in Nat
    BY Amounts
  <2>4. CASE Write(r)
    <3>1. draft'[r][c] = NextLevel(r, seen[r])
      BY <1>2, <2>4 DEF Inv, TypeOK, Write
    <3>2. NextLevel(r, seen[r]) >= 0
      BY <1>1 DEF Inv, Placed
    <3>3. draft'[r][c] # Unwritten
      BY <1>5, <2>2, <2>3, <3>1, <3>2 DEF Unwritten
    <3>4. QED
      BY <1>5, <2>1, <2>2, <2>3, <3>1, <3>3
  <2>5. CASE EraseNothing(r)
    <3>1. NextLevel(r, seen[r]) = 0 /\ stock[c] = 0 /\ draft' = draft
      BY <1>2, <2>5 DEF EraseNothing, NothingToErase
    <3>2. QED
      BY <1>5, <2>1, <2>2, <2>3, <3>1
  <2>6. QED
    BY <2>4, <2>5
<1>10. \A x \in Request, b \in Branch : x # r \/ b # c => (Settled(x, b) <=> Settled(x, b)')
  BY <1>4, <1>6, <1>7 DEF Settled, Pending, Gain, Loss
<1>11. \A b \in Branch : b \in Waiting(r)' <=> b \in Waiting(r) /\ b # c
  <2>1. CASE c = source[r] /\ target[r] # None
    <3>1. pc'[r] = "read" /\ branch'[r] = target[r]
      BY <1>1, <1>2, <2>1 DEF Inv, TypeOK, Write, EraseNothing, Proceed, Goto
    <3>2. QED
      BY <1>1, <1>2, <1>4, <1>5, <2>1, <3>1 DEF Waiting
  <2>2. CASE c = source[r] /\ target[r] = None
    <3>1. pc'[r] = "move"
      BY <1>1, <1>2, <2>2 DEF Inv, TypeOK, Write, EraseNothing, Proceed, Goto
    <3>2. QED
      BY <1>1, <1>2, <2>2, <3>1, NoneAssumption DEF Waiting
  <2>3. CASE c # source[r]
    <3>1. pc'[r] = "move"
      BY <1>1, <1>2, <2>3 DEF Inv, TypeOK, Write, EraseNothing, Proceed, Goto
    <3>2. QED
      BY <1>1, <1>2, <2>3, <3>1 DEF Waiting
  <2>4. QED
    BY <2>1, <2>2, <2>3
<1>12. Halfway(r)'
  <2>1. pc'[r] = "read" => branch'[r] \in {source[r], target[r]}
    BY <1>1, <1>2, <1>5 DEF Inv, TypeOK, Write, EraseNothing, Proceed, Goto
  <2>2. ASSUME NEW b \in Branch
        PROVE  /\ draft'[r][b] # Unwritten => lock'[b] = r
               /\ IF b \in Waiting(r)' THEN draft'[r][b] = Unwritten ELSE Settled(r, b)'
    <3>1. CASE b = c
      BY <1>8, <1>9, <1>11, <3>1
    <3>2. CASE b # c
      BY <1>1, <1>7, <1>8, <1>10, <1>11, <3>2 DEF Halfway
    <3>3. QED
      BY <3>1, <3>2
  <2>3. QED
    BY <1>3, <1>4, <1>5, <2>1, <2>2 DEF Halfway
<1>13. ASSUME NEW x \in Running, x # r PROVE Halfway(x)'
  <2>1. x \in Request /\ Halfway(x) /\ Waiting(x)' = Waiting(x) /\ x # None
    BY <1>3, <1>4, <1>13, NoneAssumption DEF Waiting, Running
  <2>2. \A b \in Branch : draft'[x][b] = draft[x][b] /\ (Settled(x, b) <=> Settled(x, b)')
    BY <1>7, <1>10, <1>13, <2>1
  <2>3. \A b \in Branch : lock[b] = x => lock'[b] = x
    BY <1>8, <2>1
  <2>4. QED
    BY <1>3, <1>4, <1>13, <2>1, <2>2, <2>3 DEF Halfway
<1>14. \A x \in Request, b \in Branch : pc'[x] = "new" => missed'[x][b] = 0
  BY <1>3, <1>6
<1>15. BooksAccounted'
  BY <1>4 DEF BooksAccounted
<1>16. QED
  BY <1>3, <1>12, <1>13, <1>14, <1>15

\* What a commit makes of a branch.
LEMMA CommitSettles ==
  ASSUME BooksInv, NEW r \in Request, Commit(r), NEW b \in Branch
  PROVE  stock'[b] = stock[b] + Gain(r, b) - Loss(r, b) - missed[r][b]
<1>1. Halfway(r) /\ Waiting(r) = {}
  BY DEF BooksInv, Commit, Running, Waiting
<1>2. Settled(r, b)
  BY <1>1 DEF Halfway
<1>3. QED
  BY <1>2 DEF Settled, Pending, Commit

\* It changes levels, books and losses by what adds up, and no row that another
\* transaction has written.
LEMMA BooksCommit ==
  ASSUME BooksInv, Inv', NEW r \in Request, Commit(r)
  PROVE  BooksInv'
<1> USE DEF shared, asked, history, BooksInv
<1>1. /\ r \in Running /\ Running' = Running \ {r}
      /\ \A x \in Request : pc'[x] = IF x = r THEN "done" ELSE pc[x]
  BY DEF Inv, TypeOK, Commit, Goto, Running
<1>2. \A b \in Branch : /\ into[b] \in Nat /\ outof[b] \in Nat /\ stock[b] \in Nat
                        /\ lost[b] \in Int /\ missed[r][b] \in Int
                        /\ into'[b] = into[b] + Gain(r, b)
                        /\ outof'[b] = outof[b] + Loss(r, b)
                        /\ lost'[b] = lost[b] + missed[r][b]
                        /\ Gain(r, b) \in Nat /\ Loss(r, b) \in Nat
                        /\ stock[b] = into[b] - outof[b] - lost[b]
  BY Amounts DEF Inv, TypeOK, Commit, BooksAccounted
<1>3. BooksAccounted'
  BY <1>2, CommitSettles DEF BooksAccounted
<1>4. ASSUME NEW x \in Running, x # r PROVE Halfway(x)'
  <2>1. x \in Request /\ Halfway(x) /\ x # None /\ Waiting(x)' = Waiting(x)
    BY <1>1, <1>4, NoneAssumption DEF Waiting, Commit, Running
  <2>2. \A b \in Branch : lock[b] = x => lock'[b] = x
    BY <1>4 DEF Commit, Release
  <2>3. ASSUME NEW b \in Branch, Settled(x, b) PROVE Settled(x, b)'
    <3>1. CASE draft[x][b] = Unwritten
      <4>1. stock[b] = stock[b] + Gain(x, b) - Loss(x, b) - missed[x][b]
        BY <2>3, <3>1 DEF Settled, Pending
      <4>2. /\ stock[b] \in Nat /\ stock'[b] \in Nat /\ missed[x][b] \in Int
            /\ Gain(x, b) \in Nat /\ Loss(x, b) \in Nat
        BY <2>1, Amounts DEF Inv, TypeOK
      <4>3. stock'[b] = stock'[b] + Gain(x, b) - Loss(x, b) - missed[x][b]
        BY <4>1, <4>2
      <4>4. QED
        BY <3>1, <4>3 DEF Settled, Pending, Gain, Loss, Commit
    <3>2. CASE draft[x][b] # Unwritten
      <4>1. draft[r][b] = Unwritten
        BY <1>1, <1>4, <2>1, <3>2 DEF Halfway
      <4>2. stock'[b] = stock[b]
        BY <4>1 DEF Commit
      <4>3. QED
        BY <2>3, <4>2 DEF Settled, Pending, Gain, Loss, Commit
    <3>3. QED
      BY <3>1, <3>2
  <2>4. QED
    BY <1>1, <1>4, <2>1, <2>2, <2>3 DEF Halfway, Commit
<1>5. \A x \in Request, b \in Branch : pc'[x] = "new" => missed'[x][b] = 0
  BY <1>1 DEF Commit
<1>6. QED
  BY <1>1, <1>3, <1>4, <1>5

\* A rollback changes nothing, and takes only its own rows.
LEMMA BooksRollback ==
  ASSUME BooksInv, Inv', NEW r \in Request, Refuse(r) \/ Fail(r)
  PROVE  BooksInv'
<1> USE DEF shared, asked, history, BooksInv
<1>1. /\ Running' = Running \ {r}
      /\ \A x \in Request : pc'[x] = IF x = r THEN "done" ELSE pc[x]
  BY DEF Inv, TypeOK, Refuse, Fail, Goto, Running
<1>2. /\ UNCHANGED <<shared, asked, history, branch, seen, draft>>
      /\ Release(r)
  BY DEF Refuse, Fail
<1>3. ASSUME NEW x \in Running, x # r PROVE Halfway(x)'
  <2>1. x \in Request /\ Halfway(x) /\ Waiting(x)' = Waiting(x)
    BY <1>1, <1>2, <1>3 DEF Waiting, Running
  <2>2. \A b \in Branch : lock[b] = x => lock'[b] = x
    BY <1>2, <1>3 DEF Release
  <2>3. \A b \in Branch : Settled(x, b) => Settled(x, b)'
    BY <1>2 DEF Settled, Pending, Gain, Loss
  <2>4. QED
    BY <1>1, <1>2, <1>3, <2>1, <2>2, <2>3 DEF Halfway
<1>4. BooksAccounted'
  BY <1>2 DEF BooksAccounted
<1>5. QED
  BY <1>1, <1>2, <1>3, <1>4

LEMMA BooksInvariance == Spec => []BooksInv
<1>1. BooksInv /\ Inv' /\ [Next]_vars => BooksInv'
  <2> SUFFICES ASSUME BooksInv, Inv', [Next]_vars PROVE BooksInv'
    OBVIOUS
  <2>1. CASE UNCHANGED vars
    BY <2>1 DEF vars, shared, asked, history, BooksInv, BooksAccounted, Halfway, Running,
                Settled, Pending, Waiting, Gain, Loss
  <2>2. ASSUME NEW r \in Request, Step(r) \/ Fail(r) PROVE BooksInv'
    BY <2>2, BooksRead, BooksWrite, BooksCommit, BooksRollback DEF Step, Victim
  <2>3. ASSUME NEW r \in Request, NEW s \in Branch \cup {None}, NEW t \in Branch \cup {None},
               NEW q \in Quantity, Begin(r, s, t, q)
        PROVE  BooksInv'
    BY <2>3, BooksBegin
  <2>4. QED
    BY <2>1, <2>2, <2>3 DEF Next
<1>2. QED
  BY BooksInit, Invariance, <1>1, PTL DEF Spec

\* However many transactions overlap, the levels are the sum of the movement rows
\* short of exactly what the writes have overwritten: whatever is refused, fails
\* or is rolled back, the lost update is the only way the books go wrong.
THEOREM LossesAccount == Spec => []BooksAccounted
<1>1. BooksInv => BooksAccounted
  BY DEF BooksInv
<1>2. QED
  BY BooksInvariance, <1>1, PTL

-----------------------------------------------------------------------------
(* StockLedger moves the pieces as StockBooks does, but for lost updates. *)

\* The commit of a transaction that overwrites nothing is the whole operation: it
\* changes levels and books by what the request asks for, and the source had as much.
LEMMA CommitMoves ==
  ASSUME BooksInv, Inv', NEW r \in Request, Commit(r), ~Overwrites(r)
  PROVE  Books!Next
<1>1. Halfway(r)
  BY DEF BooksInv, Commit, Running
<1>2. /\ stock \in [Branch -> Nat] /\ stock' \in [Branch -> Nat]
      /\ quantity[r] \in Quantity /\ quantity[r] \in Nat /\ source[r] # target[r]
      /\ source[r] \in Branch \cup {None} /\ target[r] \in Branch \cup {None}
  BY <1>1, QuantityAssumption DEF BooksInv, Inv, TypeOK, Quantity, Halfway
<1>3. \A b \in Branch : /\ stock'[b] = stock[b] + Gain(r, b) - Loss(r, b)
                        /\ Gain(r, b) \in Nat /\ Loss(r, b) \in Nat
  <2> SUFFICES ASSUME NEW b \in Branch
               PROVE  /\ stock'[b] = stock[b] + Gain(r, b) - Loss(r, b)
                      /\ Gain(r, b) \in Nat /\ Loss(r, b) \in Nat
    OBVIOUS
  <2>1. missed[r][b] = 0
    BY DEF Overwrites
  <2>2. Inv /\ stock'[b] = stock[b] + Gain(r, b) - Loss(r, b) - missed[r][b]
    BY CommitSettles DEF BooksInv
  <2>3. QED
    BY <1>2, <2>1, <2>2, Amounts
<1>4. \A b \in Branch : /\ Gain(r, b) = Books!Part(b, target[r], quantity[r])
                        /\ Loss(r, b) = Books!Part(b, source[r], quantity[r])
  BY DEF Gain, Loss, Books!Part
<1>5. source[r] \in Branch => quantity[r] <= stock[source[r]]
  <2> SUFFICES ASSUME source[r] \in Branch PROVE quantity[r] <= stock[source[r]]
    OBVIOUS
  <2>1. Gain(r, source[r]) = 0 /\ Loss(r, source[r]) = quantity[r]
    BY <1>2 DEF Gain, Loss
  <2>2. stock'[source[r]] = stock[source[r]] + 0 - quantity[r]
    BY <1>3, <2>1
  <2>3. QED
    BY <1>2, <2>2
<1>6. stock' = [b \in Branch |-> stock[b] + Books!Part(b, target[r], quantity[r])
                                          - Books!Part(b, source[r], quantity[r])]
  BY <1>2, <1>3, <1>4
<1>7. /\ into' = [b \in Branch |-> into[b] + Books!Part(b, target[r], quantity[r])]
      /\ outof' = [b \in Branch |-> outof[b] + Books!Part(b, source[r], quantity[r])]
  BY <1>4 DEF Commit
<1>8. Books!Move(source[r], target[r], quantity[r])
  BY <1>2, <1>5, <1>6, <1>7 DEF Books!Move
<1>9. QED
  BY <1>2, <1>8 DEF Books!Next

\* The levels a sub item is created with count as brought.
LEMMA StartsAsBooks == Init => Books!Init
  BY QuantityAssumption DEF Init, Books!Init, Quantity

\* At any Width, and wherever operations are refused, fail or are rolled back: an
\* operation that overwrites no change of another is done whole or not at all, and
\* takes no more than is there.
THEOREM WholeMoves == Spec => BooksButForLosses
<1>1. BooksInv /\ Inv' /\ [Next]_vars
        => [Books!Next \/ \E r \in Request : Commit(r) /\ Overwrites(r)]_shared
  <2> SUFFICES ASSUME BooksInv, Inv', [Next]_vars
               PROVE  \/ Books!Next \/ UNCHANGED shared
                      \/ \E r \in Request : Commit(r) /\ Overwrites(r)
    OBVIOUS
  <2>1. ASSUME NEW r \in Request, Commit(r)
        PROVE  Books!Next \/ \E x \in Request : Commit(x) /\ Overwrites(x)
    BY <2>1, CommitMoves
  <2>2. QED
    BY <2>1 DEF Next, Begin, Step, Read, Refuse, Write, EraseNothing, Victim, Fail, vars
<1>2. QED
  BY BooksInvariance, Invariance, StartsAsBooks, <1>1, PTL DEF Spec, BooksButForLosses

-----------------------------------------------------------------------------
(* Waiting for rows, at any Width. *)

\* Never do all transactions wait for each other without the detector noticing:
\* while any runs, one of them can go on, or one is in a ring.  No row is held by
\* a request that has ended, whatever it ended with.
NobodyStuck == Running # {} => \E r \in Running : ~Waits(r) \/ InRing(r)

\* A row that is held is held by a transaction that has not ended.
HeldByRunning == \A b \in Branch : lock[b] # None => lock[b] \in Running

WaitInv == Inv /\ HeldByRunning /\ IsFiniteSet(Running)

\* A map of a finite set into itself permutes some part of it: whoever follows
\* it long enough goes round in a ring.
LEMMA Ring ==
  ASSUME NEW S, IsFiniteSet(S), S # {}, NEW f \in [S -> S]
  PROVE  \E T \in SUBSET S : T # {} /\ {f[x] : x \in T} = T
<1> DEFINE Closed == {T \in SUBSET S : T # {} /\ \A x \in T : f[x] \in T}
           R == StrictSubsetOrdering(S)
<1>1. IsWellFoundedOn(R, FiniteSubsetsOf(S))
  BY FS_StrictSubsetOrderingWellFounded
<1>2. Closed \subseteq FiniteSubsetsOf(S)
  BY FS_FiniteSubsetsOfFinite
<1>3. S \in Closed
  OBVIOUS
<1> HIDE DEF R
<1>4. PICK T \in Closed : \A U \in Closed : ~(<<U, T>> \in R)
  BY <1>1, <1>2, <1>3, WFMin
<1>5. {f[x] : x \in T} \in Closed /\ {f[x] : x \in T} \subseteq T
  OBVIOUS
<1>6. <<{f[x] : x \in T}, T>> \notin R
  BY <1>4, <1>5
<1>7. {f[x] : x \in T} = T
  BY <1>5, <1>6 DEF R, StrictSubsetOrdering
<1>8. QED
  BY <1>7

\* A request that begins makes one more, as long as there is room; every other
\* step keeps the ones that run or ends one, which gives up its rows.
LEMMA WaitStep ==
  ASSUME WaitInv, Inv', [Next]_vars
  PROVE  HeldByRunning' /\ IsFiniteSet(Running')
<1> USE DEF shared, asked, history, WaitInv, Inv
<1>1. CASE UNCHANGED vars
  BY <1>1 DEF vars, HeldByRunning, Running
<1>2. ASSUME NEW r \in Request, Step(r) \/ Fail(r)
      PROVE  HeldByRunning' /\ IsFiniteSet(Running')
  <2>1. r \in Running
    BY <1>2 DEF Step, Victim, Read, Refuse, Write, EraseNothing, Commit, Fail, Running
  <2>2. CASE Read(r) \/ Write(r) \/ EraseNothing(r)
    <3>1. Running' = Running
      BY <2>1, <2>2 DEF TypeOK, Read, Write, EraseNothing, Proceed, Goto, Running
    <3>2. \A b \in Branch : lock'[b] = lock[b] \/ lock'[b] = r
      BY <2>2 DEF TypeOK, Read, Write, EraseNothing
    <3>3. QED
      BY <2>1, <3>1, <3>2 DEF HeldByRunning
  <2>3. CASE Refuse(r) \/ Commit(r) \/ Fail(r)
    <3>1. Running' = Running \ {r}
      BY <2>3 DEF TypeOK, Refuse, Commit, Fail, Goto, Running
    <3>2. \A b \in Branch : lock'[b] # None => lock'[b] = lock[b] /\ lock[b] # r
      BY <2>3 DEF Refuse, Commit, Fail, Release
    <3>3. QED
      BY <3>1, <3>2, FS_RemoveElement DEF HeldByRunning
  <2>4. QED
    BY <1>2, <2>2, <2>3 DEF Step, Victim
<1>3. ASSUME NEW r \in Request, NEW s \in Branch \cup {None}, NEW t \in Branch \cup {None},
             NEW q \in Quantity, Begin(r, s, t, q)
      PROVE  HeldByRunning' /\ IsFiniteSet(Running')
  <2>1. Running' = Running \cup {r} /\ lock' = lock
    BY <1>3 DEF TypeOK, Begin, Goto, Running
  <2>2. QED
    BY <2>1, FS_AddElement DEF HeldByRunning
<1>4. QED
  BY <1>1, <1>2, <1>3 DEF Next

\* While any transaction runs, one of them can go on, or is in a ring that the
\* detector finds and breaks.  If all wait, each waits for one that runs: going
\* from each to the holder of its row leads round in a ring.
THEOREM SomebodyGoesOn == Spec => []NobodyStuck
<1>1. Init => WaitInv
  <2>1. Init => Running = {} /\ HeldByRunning
    BY DEF Init, HeldByRunning, Running
  <2>2. QED
    BY <2>1, InitInv, FS_EmptySet DEF WaitInv
<1>2. WaitInv => NobodyStuck
  <2> SUFFICES ASSUME WaitInv, Running # {}, \A r \in Running : Waits(r)
               PROVE  \E r \in Running : InRing(r)
    BY DEF NobodyStuck
  <2> DEFINE holder == [r \in Running |-> lock[branch[r]]]
  <2>1. \A r \in Running : r \in Request /\ lock[branch[r]] \in Running
    BY DEF WaitInv, Inv, Placed, HeldByRunning, Waits, Running
  <2>2. holder \in [Running -> Running]
    BY <2>1
  <2> HIDE DEF holder
  <2>3. PICK T \in SUBSET Running : T # {} /\ {holder[x] : x \in T} = T
    <3>1. IsFiniteSet(Running) /\ Running # {}
      BY DEF WaitInv
    <3>2. QED
      BY <2>2, <3>1, Ring
  <2>4. {lock[branch[x]] : x \in T} = T
    BY <2>3 DEF holder
  <2>5. \A r \in T : InRing(r)
    BY <2>1, <2>4 DEF InRing
  <2>6. QED
    BY <2>3, <2>5
<1>3. WaitInv /\ Inv' /\ [Next]_vars => WaitInv'
  BY WaitStep DEF WaitInv
<1>4. QED
  BY Invariance, <1>1, <1>2, <1>3, PTL DEF Spec
=============================================================================
