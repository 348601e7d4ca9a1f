----------------------- MODULE ChatConversationProofs -----------------------
(***************************************************************************)
(* Proofs about ChatConversation, for every set of channels, every number  *)
(* of messages in them, every size of a page and every number of moves.    *)
(***************************************************************************)
EXTENDS ChatConversation, FiniteSetTheorems, SequenceTheorems, WellFoundedInduction, TLAPS

-----------------------------------------------------------------------------
(* mergeMessages.                                                          *)

\* A set of numbers has a least one.
LEMMA Least ==
    ASSUME NEW T, T \subseteq Nat, T # {}
    PROVE  \E m \in T : \A k \in T : m <= k
<1> DEFINE R == {ss \in Nat \X Nat : ss[1] < ss[2]}
<1>1. IsWellFoundedOn(R, Nat)
  <2>1. OpToRel(<, Nat) = R
    BY Zenon DEF OpToRel
  <2>2. QED
    BY NatLessThanWellFounded, <2>1, Zenon
<1> HIDE DEF R
<1>2. PICK m \in T : \A k \in T : ~(<<k, m>> \in R)
  BY <1>1, WFMin
<1>3. \A k \in T : ~(k < m)
  BY <1>2 DEF R
<1>4. QED
  BY <1>3

\* Counting the members of a finite set of numbers up to each of them numbers
\* them 1, 2, ...: Nth finds every one, and each under one number.
LEMMA NthProperties ==
    ASSUME NEW S, S \subseteq Nat, IsFiniteSet(S)
    PROVE  /\ \A k \in 1 .. Cardinality(S) :
                 Nth(S, k) \in S /\ Cardinality({j \in S : j <= Nth(S, k)}) = k
           /\ \A i \in S : LET k == Cardinality({j \in S : j <= i})
                           IN  k \in 1 .. Cardinality(S) /\ Nth(S, k) = i
<1> DEFINE Upto(i) == {j \in S : j <= i}
           rank == [i \in S |-> Cardinality(Upto(i))]
<1>1. \A i \in S : IsFiniteSet(Upto(i)) /\ Cardinality(Upto(i)) \in 1 .. Cardinality(S)
  <2>1. TAKE i \in S
  <2>2. IsFiniteSet(Upto(i)) /\ Cardinality(Upto(i)) <= Cardinality(S)
    BY FS_Subset, Upto(i) \in SUBSET S
  <2>3. Upto(i) # {}
    <3>1. i \in Upto(i)
      OBVIOUS
    <3>2. QED
      BY <3>1
  <2>4. Cardinality(Upto(i)) \in Nat /\ Cardinality(Upto(i)) # 0 /\ Cardinality(S) \in Nat
    BY <2>2, <2>3, FS_EmptySet, FS_CardinalityType
  <2>5. QED
    BY <2>2, <2>4
<1>2. \A i, k \in S : i < k => Cardinality(Upto(i)) < Cardinality(Upto(k))
  <2>1. SUFFICES ASSUME NEW i \in S, NEW k \in S, i < k
                 PROVE  Cardinality(Upto(i)) < Cardinality(Upto(k))
    OBVIOUS
  <2>2. Upto(i) \in SUBSET Upto(k) /\ k \in Upto(k) /\ k \notin Upto(i)
    <3>1. i \in Nat /\ k \in Nat /\ \A j \in S : j \in Nat
      OBVIOUS
    <3>2. \A j \in S : j <= i => j <= k
      BY <2>1, <3>1
    <3>3. k <= k /\ ~(k <= i)
      BY <2>1, <3>1
    <3>4. QED
      BY <3>2, <3>3
  <2>3. Cardinality(Upto(i)) <= Cardinality(Upto(k)) /\ Cardinality(Upto(i)) # Cardinality(Upto(k))
    <3> HIDE DEF Upto
    <3>1. QED
      BY <1>1, <2>2, FS_Subset
  <2>4. QED
    BY <1>1, <2>3
<1>3. rank \in Injection(S, 1 .. Cardinality(S))
  <2>1. rank \in [S -> 1 .. Cardinality(S)]
    BY <1>1
  <2>2. \A i, k \in S : rank[i] = rank[k] => i = k
    <3>1. SUFFICES ASSUME NEW i \in S, NEW k \in S, rank[i] = rank[k], i # k PROVE FALSE
      OBVIOUS
    <3>2. i < k \/ k < i
      BY <3>1
    <3>3. rank[i] = Cardinality(Upto(i)) /\ rank[k] = Cardinality(Upto(k))
      OBVIOUS
    <3>4. QED
      BY <1>1, <1>2, <3>1, <3>2, <3>3
  <2>3. QED
    BY <2>1, <2>2 DEF Injection, IsInjective
<1>4. rank \in Surjection(S, 1 .. Cardinality(S))
  <2>1. Cardinality(S) \in Nat
    BY FS_CardinalityType
  <2>2. IsFiniteSet(1 .. Cardinality(S)) /\ Cardinality(1 .. Cardinality(S)) = Cardinality(S)
    BY <2>1, FS_Interval
  <2>3. QED
    BY <1>3, <2>2, FS_Injection
<1>5. \A k \in 1 .. Cardinality(S) : Nth(S, k) \in S /\ Cardinality(Upto(Nth(S, k))) = k
  <2>1. TAKE k \in 1 .. Cardinality(S)
  <2>2. \E i \in S : Cardinality(Upto(i)) = k
    BY <1>4 DEF Surjection
  <2>3. QED
    BY <2>2 DEF Nth
<1>6. \A i \in S : Nth(S, Cardinality(Upto(i))) = i
  <2>1. TAKE i \in S
  <2>2. Nth(S, Cardinality(Upto(i))) \in S /\ rank[Nth(S, Cardinality(Upto(i)))] = rank[i]
    BY <1>1, <1>5
  <2>3. QED
    BY <1>3, <2>2 DEF Injection, IsInjective
<1>7. QED
  BY <1>1, <1>5, <1>6

\* mergeMessages keeps each of the messages once, and the first one in front.
LEMMA MergeProperties ==
    ASSUME NEW S, NEW s \in Seq(S)
    PROVE  /\ mergeMessages(s) \in Seq(S)
           /\ ToSet(mergeMessages(s)) = ToSet(s)
           /\ \A i, j \in DOMAIN mergeMessages(s) :
                 mergeMessages(s)[i] = mergeMessages(s)[j] => i = j
           /\ s # <<>> => mergeMessages(s) # <<>> /\ mergeMessages(s)[1] = s[1]
<1> DEFINE F == Firsts(s)
           n == Cardinality(F)
           m == mergeMessages(s)
<1>1. DOMAIN s = 1 .. Len(s) /\ Len(s) \in Nat /\ \A i \in DOMAIN s : s[i] \in S
  BY LenProperties
<1>2. F \subseteq DOMAIN s /\ F \subseteq Nat /\ IsFiniteSet(F) /\ n \in Nat
  <2>1. F \in SUBSET (1 .. Len(s))
    BY <1>1 DEF Firsts
  <2>2. IsFiniteSet(1 .. Len(s))
    BY <1>1, FS_Interval
  <2>3. QED
    BY <1>1, <2>1, <2>2, FS_Subset, FS_CardinalityType
<1>3. /\ \A k \in 1 .. n : Nth(F, k) \in F /\ Cardinality({j \in F : j <= Nth(F, k)}) = k
      /\ \A i \in F : LET k == Cardinality({j \in F : j <= i})
                      IN  k \in 1 .. n /\ Nth(F, k) = i
  BY <1>2, NthProperties
<1>4. m = [k \in 1 .. n |-> s[Nth(F, k)]]
  BY DEF mergeMessages
<1> HIDE DEF m, n
<1>5. m \in Seq(S) /\ DOMAIN m = 1 .. n
  <2>1. \A k \in 1 .. n : s[Nth(F, k)] \in S
    BY <1>1, <1>2, <1>3
  <2>2. m \in [1 .. n -> S]
    BY <1>4, <2>1
  <2>3. QED
    BY <1>2, <2>2, <1>4, SeqDef
<1>6. \A i \in DOMAIN s : \E k \in F : s[k] = s[i]
  <2>1. TAKE i \in DOMAIN s
  <2>2. PICK k \in {j \in DOMAIN s : s[j] = s[i]} : \A j \in {j \in DOMAIN s : s[j] = s[i]} : k <= j
    <3>1. {j \in DOMAIN s : s[j] = s[i]} \subseteq Nat /\ i \in {j \in DOMAIN s : s[j] = s[i]}
      BY <1>1
    <3>2. QED
      BY <3>1, Least
  <2>3. k \in F
    BY <2>2 DEF Firsts
  <2>4. QED
    BY <2>2, <2>3
<1>7. ToSet(m) = ToSet(s)
  <2>1. \A k \in DOMAIN m : \E i \in DOMAIN s : m[k] = s[i]
    BY <1>2, <1>3, <1>4, <1>5
  <2>2. \A i \in DOMAIN s : \E k \in DOMAIN m : m[k] = s[i]
    BY <1>3, <1>4, <1>5, <1>6
  <2>3. QED
    BY <2>1, <2>2 DEF ToSet
<1>8. \A i, j \in DOMAIN m : m[i] = m[j] => i = j
  <2>1. \A i, j \in F : s[i] = s[j] => i = j
    BY <1>1, <1>2 DEF Firsts
  <2>2. SUFFICES ASSUME NEW i \in 1 .. n, NEW j \in 1 .. n, s[Nth(F, i)] = s[Nth(F, j)]
                 PROVE  i = j
    BY <1>4, <1>5
  <2>3. Nth(F, i) = Nth(F, j)
    BY <1>3, <2>1, <2>2
  <2>4. QED
    BY <1>3, <2>3
<1>9. ASSUME s # <<>> PROVE m # <<>> /\ m[1] = s[1]
  <2>1. 1 \in DOMAIN s
    BY <1>1, <1>9, EmptySeq
  <2>2. 1 \in F
    BY <1>1, <2>1 DEF Firsts
  <2>3. {j \in F : j <= 1} = {1}
    BY <1>1, <1>2, <2>2
  <2>4. Cardinality({1}) = 1
    BY FS_Singleton
  <2>5. 1 \in 1 .. n /\ Nth(F, 1) = 1
    BY <1>3, <2>2, <2>3, <2>4
  <2>6. QED
    BY <1>4, <1>5, <2>5
<1>10. QED
  BY <1>5, <1>7, <1>8, <1>9 DEF m

-----------------------------------------------------------------------------
(* PageOf.                                                                 *)

\* The newest message of page p of the first k messages, and the oldest.
LastOf(p, k) == k - (p - 1) * PageSize
FirstOf(p, k) == IF LastOf(p, k) > PageSize THEN LastOf(p, k) - PageSize + 1 ELSE 1

\* A page holds the messages from its oldest to its newest.
LEMMA PageProperties ==
    ASSUME NEW c \in Channel, NEW p \in Nat \ {0}, NEW k \in Nat
    PROVE  /\ PageOf(c, p, k) \in Seq(Messages)
           /\ \A x \in ToSet(PageOf(c, p, k)) : x.of = c
           /\ \A n \in FirstOf(p, k) .. LastOf(p, k) : Message(c, n) \in ToSet(PageOf(c, p, k))
           /\ LastOf(p, k) < 1 => PageOf(c, p, k) = <<>>
           /\ ~(LastOf(p, k) < 1) => PageOf(c, p, k) # <<>>
           /\ ~(LastOf(p, k) < 1) => PageOf(c, p, k)[1].nr = FirstOf(p, k)
<1> DEFINE last == LastOf(p, k)
           first == FirstOf(p, k)
           items == PageOf(c, p, k)
<1>1. last \in Int /\ first \in Nat \ {0}
  BY BoundAssumption DEF LastOf, FirstOf
<1>2. items = IF last < 1 THEN <<>> ELSE [i \in 1 .. last - first + 1 |-> Message(c, first + i - 1)]
  BY DEF PageOf, LastOf, FirstOf
<1>3. last >= 1 => first <= last
  BY BoundAssumption, <1>1 DEF FirstOf
<1> HIDE DEF last, first, items
<1>4. CASE last < 1
  <2>1. items = <<>> /\ first .. last = {}
    BY <1>1, <1>2, <1>4
  <2>2. <<>> \in Seq(Messages) /\ ToSet(<<>>) = {}
    BY EmptySeq DEF ToSet
  <2>3. QED
    BY <1>4, <2>1, <2>2 DEF last, first, items
<1>5. CASE ~(last < 1)
  <2> DEFINE h == last - first + 1
  <2>1. h \in Nat \ {0}
    BY <1>1, <1>3, <1>5
  <2>2. items = [i \in 1 .. h |-> Message(c, first + i - 1)]
    BY <1>2, <1>5
  <2> HIDE DEF h
  <2>3. \A i \in 1 .. h : Message(c, first + i - 1) \in Messages
    BY <1>1, <2>1 DEF Message, Messages
  <2>4. items \in [1 .. h -> Messages]
    BY <2>2, <2>3
  <2>5. items \in Seq(Messages) /\ DOMAIN items = 1 .. h
    BY <2>1, <2>4, SeqDef
  <2>6. \A x \in ToSet(items) : x.of = c
    BY <2>2, <2>5 DEF ToSet, Message
  <2>7. ASSUME NEW n \in first .. last PROVE Message(c, n) \in ToSet(items)
    <3>1. n - first + 1 \in 1 .. h /\ first + (n - first + 1) - 1 = n
      BY <1>1 DEF h
    <3>2. items[n - first + 1] = Message(c, n)
      BY <2>2, <3>1
    <3>3. QED
      BY <2>5, <3>1, <3>2 DEF ToSet
  <2>8. items # <<>> /\ items[1].nr = first
    <3>1. 1 \in 1 .. h /\ first + 1 - 1 = first
      BY <1>1, <2>1
    <3>2. items[1] = Message(c, first)
      BY <2>2, <3>1
    <3>3. items # <<>>
      <4>1. Len(items) \in Nat /\ 1 \in 1 .. Len(items)
        BY <2>5, <3>1, LenProperties
      <4>2. QED
        BY <4>1, EmptySeq
    <3>4. QED
      BY <3>2, <3>3 DEF Message
  <2>9. QED
    BY <1>5, <2>5, <2>6, <2>7, <2>8 DEF last, first, items
<1>6. QED
  BY <1>4, <1>5

-----------------------------------------------------------------------------
(* The inductive invariant.                                                *)

\* What a subscribed socket is sent.
Frames == [kind : {"message"}, message : Messages, mine : BOOLEAN]
            \cup [kind : {"typing"}, on : BOOLEAN]

\* A socket belongs to the open channel, and so does what is on its way to it.
Socket ==
    /\ sock # "none" => active # None
    /\ inbox \in Seq(Frames)
    /\ \A i \in DOMAIN inbox : inbox[i].kind = "message" => inbox[i].message.of = active

\* The server read no more messages than there are.
ReadBound == \A r \in loads : r.read <= stored[r.of]

-----------------------------------------------------------------------------
(* Types.                                                                  *)

\* What a page is made of, and what of it, when its answer comes.
LEMMA AnswerTypes ==
    ASSUME TypeOK, NEW r \in loads, Answer(r)
    PROVE  /\ PageOf(r.of, r.page, r.read) \in Seq(Messages)
           /\ shown' \in Seq(Messages)
           /\ NoDuplicates'
<1>1. r.of \in Channel /\ r.page \in Nat \ {0} /\ r.read \in Nat /\ shown \in Seq(Messages)
  BY DEF TypeOK, Answer, Unread
<1>2. PageOf(r.of, r.page, r.read) \in Seq(Messages)
  BY <1>1, PageProperties
<1>3. PageOf(r.of, r.page, r.read) \o shown \in Seq(Messages)
  BY <1>1, <1>2, ConcatProperties
<1>4. CASE r.mode = "prepend"
  <2>1. shown' = mergeMessages(PageOf(r.of, r.page, r.read) \o shown)
    BY <1>4 DEF Answer
  <2>2. QED
    BY <1>2, <1>3, <2>1, MergeProperties DEF NoDuplicates
<1>5. CASE r.mode # "prepend"
  <2>1. shown' = mergeMessages(PageOf(r.of, r.page, r.read))
    BY <1>5 DEF Answer
  <2>2. QED
    BY <1>2, <2>1, MergeProperties DEF NoDuplicates
<1>6. QED
  BY <1>4, <1>5

\* Messages that are lost with a socket.
LEMMA LostTypes == Socket => {m.message : m \in Lost} \subseteq Messages
  BY LenProperties DEF Socket, Frames, Lost, ToSet

\* What holds of the variables whatever is open and however loads end.
Base == TypeOK /\ Socket /\ ReadBound /\ NoDuplicates

LEMMA InitBase == Init => Base
<1> SUFFICES ASSUME Init PROVE Base
  OBVIOUS
<1>1. TypeOK
  <2>1. /\ active \in Channel \cup {None} /\ {ready, label, timer} \subseteq Channel \cup {None}
    BY DEF Init
  <2>2. /\ shown \in Seq(Messages) /\ inbox = <<>>
        /\ stored \in [Channel -> Nat] /\ closing \in [Channel -> Nat] /\ moves \in 0 .. MaxMoves
    BY StoredAssumption, BoundAssumption, EmptySeq DEF Init
  <2>3. /\ sock \in {"none", "connecting", "accepted", "open"}
        /\ loads = {} /\ posting = {} /\ missed = {} /\ page \in Nat \ {0} /\ total \in Nat
    BY DEF Init
  <2>4. older \in BOOLEAN /\ astray \in BOOLEAN /\ ~retry
    BY Zenon DEF Init
  <2>5. QED
    BY <2>1, <2>2, <2>3, <2>4 DEF TypeOK
<1>2. Socket /\ ReadBound /\ NoDuplicates
  BY EmptySeq DEF Init, Socket, ReadBound, NoDuplicates
<1>3. QED
  BY <1>1, <1>2 DEF Base

\* Sockets come and go.
LEMMA SocketBase ==
    ASSUME Base,
           \/ \E c \in Channel \cup {None} : Open(c)
           \/ \E c \in Channel : OldCloses(c)
           \/ Refilter \/ Accept \/ OnOpen \/ Drop \/ Reconnect
    PROVE  Base'
<1> USE DEF list, socket, typing, server, history, Move
<1>1. ASSUME NEW c \in Channel \cup {None}, Open(c) PROVE Base'
  <2>1. TypeOK'
    <3>1. closing' \in [Channel -> Nat]
      BY <1>1 DEF Base, TypeOK, Socket, Open, HangUp
    <3>2. \A r \in loads' \ loads : r = Request(c, 1, "replace") /\ c \in Channel
      BY <1>1 DEF Open
    <3>3. loads' \subseteq [of : Channel, page : Nat \ {0}, mode : {"replace", "prepend"},
                            read : Nat \cup {Unread}]
      BY <3>2 DEF Base, TypeOK, Request
    <3>4. shown' \in Seq(Messages) /\ moves' \in 0 .. MaxMoves
      BY <1>1, BoundAssumption, EmptySeq DEF Base, TypeOK, Open
    <3>5. /\ inbox' = <<>> /\ sock' \in {"none", "connecting"} /\ retry' = FALSE
          /\ active' \in Channel \cup {None} /\ timer' = None /\ page' = 1 /\ total' = 0
          /\ missed' = {} /\ astray' \in BOOLEAN
          /\ UNCHANGED <<older, ready, label, stored, posting>>
      BY <1>1 DEF Open, HangUp
    <3>6. 1 \in Nat \ {0} /\ 0 \in Nat
      OBVIOUS
    <3> HIDE DEF list, socket, typing, server, history, Move
    <3>7. QED
      BY <3>1, <3>3, <3>4, <3>5, <3>6 DEF Base, TypeOK
  <2>2. Socket'
    BY <1>1, EmptySeq DEF Base, Socket, Open, HangUp
  <2>3. ReadBound'
    BY <1>1 DEF Base, TypeOK, ReadBound, Open, Request, Unread
  <2>4. NoDuplicates'
    BY <1>1, EmptySeq DEF Base, NoDuplicates, Open
  <2>5. QED
    BY <2>1, <2>2, <2>3, <2>4 DEF Base
<1>2. ASSUME NEW c \in Channel, OldCloses(c) PROVE Base'
  BY <1>2 DEF Base, TypeOK, Socket, ReadBound, NoDuplicates, OldCloses, Closed
<1>3. CASE Refilter
  <2>1. TypeOK'
    <3>1. inbox' = <<>> /\ retry' = FALSE /\ sock' = "connecting" /\ moves' \in 0 .. MaxMoves
      BY <1>3, BoundAssumption DEF Base, TypeOK, Refilter, HangUp
    <3>2. closing' \in [Channel -> Nat]
      BY <1>3 DEF Base, TypeOK, Refilter, HangUp
    <3>3. missed' \subseteq Messages
      BY <1>3, LostTypes DEF Base, TypeOK, Refilter
    <3>4. QED
      BY <1>3, <3>1, <3>2, <3>3 DEF Base, TypeOK, Refilter
  <2>2. Socket' /\ ReadBound' /\ NoDuplicates'
    BY <1>3, EmptySeq DEF Base, Socket, ReadBound, NoDuplicates, Refilter, HangUp
  <2>3. QED
    BY <2>1, <2>2 DEF Base
<1>4. CASE Accept \/ OnOpen \/ Reconnect
  <2>1. TypeOK'
    <3>1. CASE Accept
      BY <3>1 DEF Base, TypeOK, Accept
    <3>2. CASE OnOpen
      BY <3>2 DEF Base, TypeOK, OnOpen
    <3>3. CASE Reconnect
      BY <3>3 DEF Base, TypeOK, Reconnect
    <3>4. QED
      BY <1>4, <3>1, <3>2, <3>3
  <2>2. Socket' /\ ReadBound' /\ NoDuplicates'
    BY <1>4 DEF Base, TypeOK, Socket, ReadBound, NoDuplicates, Accept, OnOpen, Reconnect
  <2>3. QED
    BY <2>1, <2>2 DEF Base
<1>5. CASE Drop
  <2>1. TypeOK'
    BY <1>5, BoundAssumption, LostTypes, EmptySeq DEF Base, TypeOK, Socket, Drop, Closed
  <2>2. Socket' /\ ReadBound' /\ NoDuplicates'
    BY <1>5, EmptySeq DEF Base, Socket, ReadBound, NoDuplicates, Drop
  <2>3. QED
    BY <2>1, <2>2 DEF Base
<1>6. QED
  BY <1>1, <1>2, <1>3, <1>4, <1>5

\* Sequences grow at their end.
LEMMA AppendFacts ==
    ASSUME NEW S, NEW s \in Seq(S), NEW e \in S
    PROVE  /\ Append(s, e) \in Seq(S) /\ Append(s, e) # <<>>
           /\ DOMAIN Append(s, e) = 1 .. Len(s) + 1 /\ DOMAIN s = 1 .. Len(s) /\ Len(s) \in Nat
           /\ Len(Append(s, e)) = Len(s) + 1
           /\ \A i \in 1 .. Len(s) : Append(s, e)[i] = s[i]
           /\ Append(s, e)[Len(s) + 1] = e
           /\ ToSet(Append(s, e)) = ToSet(s) \cup {e}
<1>1. /\ Append(s, e) \in Seq(S) /\ Len(Append(s, e)) = Len(s) + 1 /\ Len(s) \in Nat
      /\ \A i \in 1 .. Len(s) : Append(s, e)[i] = s[i]
      /\ Append(s, e)[Len(s) + 1] = e
  BY LenProperties
<1>2. DOMAIN Append(s, e) = 1 .. Len(s) + 1 /\ DOMAIN s = 1 .. Len(s)
  BY <1>1, LenProperties
<1>3. Append(s, e) # <<>>
  BY <1>1, EmptySeq
<1>4. ToSet(Append(s, e)) = ToSet(s) \cup {e}
  <2>1. \A i \in 1 .. Len(s) + 1 : i \in 1 .. Len(s) \/ i = Len(s) + 1
    BY <1>1
  <2>2. 1 .. Len(s) \subseteq 1 .. Len(s) + 1 /\ Len(s) + 1 \in 1 .. Len(s) + 1
    BY <1>1
  <2>3. QED
    BY <1>1, <1>2, <2>1, <2>2 DEF ToSet
<1>5. QED
  BY <1>1, <1>2, <1>3, <1>4

\* What is taken from the head of the inbox.
LEMMA TailFacts ==
    ASSUME NEW S, NEW s \in Seq(S), s # <<>>
    PROVE  /\ Tail(s) \in Seq(S) /\ Head(s) = s[1] /\ 1 \in DOMAIN s
           /\ \A i \in DOMAIN Tail(s) : i + 1 \in DOMAIN s /\ Tail(s)[i] = s[i + 1]
           /\ \A i \in DOMAIN s : i # 1 => \E j \in DOMAIN Tail(s) : Tail(s)[j] = s[i]
<1>1. /\ Len(s) \in Nat \ {0} /\ DOMAIN s = 1 .. Len(s)
      /\ Tail(s) \in Seq(S) /\ Len(Tail(s)) = Len(s) - 1
  BY EmptySeq, LenProperties, HeadTailProperties
<1>2. DOMAIN Tail(s) = 1 .. Len(s) - 1
  BY <1>1, LenProperties
<1>3. \A i \in 1 .. Len(s) - 1 : Tail(s)[i] = s[i + 1]
  BY <1>1
<1>4. Head(s) = s[1]
  BY <1>1
<1>5. \A i \in 1 .. Len(s) : i # 1 => i - 1 \in 1 .. Len(s) - 1 /\ (i - 1) + 1 = i
  BY <1>1
<1>6. \A i \in DOMAIN s : i # 1 => \E j \in DOMAIN Tail(s) : Tail(s)[j] = s[i]
  BY <1>1, <1>2, <1>3, <1>5
<1>7. QED
  BY <1>1, <1>2, <1>3, <1>4, <1>6

\* What has arrived, and what a typist does.
LEMMA FrameBase ==
    ASSUME Base, \/ OnFrame \/ TypingTimeout \/ \E on \in BOOLEAN : OtherTypes(on)
    PROVE  Base'
<1> USE DEF list, socket, typing, server, history, Move
<1>1. CASE OnFrame
  <2> DEFINE f == Head(inbox)
  <2>1. f \in Frames /\ inbox' \in Seq(Frames) /\ sock # "none"
        /\ (f.kind = "message" => f.message.of = active)
    BY <1>1, TailFacts, LenProperties DEF Base, Socket, OnFrame
  <2>2. Socket'
    BY <1>1, <2>1, TailFacts DEF Base, Socket, OnFrame
  <2>3. ReadBound'
    BY <1>1 DEF Base, ReadBound, OnFrame
  <2>4. /\ shown' \in Seq(Messages) /\ total' \in Nat
        /\ label' \in Channel \cup {None} /\ timer' \in Channel \cup {None}
        /\ NoDuplicates'
    <3>1. CASE f.kind # "message"
      BY <1>1, <3>1 DEF Base, TypeOK, NoDuplicates, OnFrame, OnTyping
    <3>2. CASE f.kind = "message" /\ f.message \in ToSet(shown)
      BY <1>1, <3>2 DEF Base, TypeOK, NoDuplicates, OnFrame, OnMessage
    <3>3. CASE f.kind = "message" /\ f.message \notin ToSet(shown)
      <4>1. f.message \in Messages
        BY <2>1, <3>3 DEF Frames
      <4>2. shown' = Append(shown, f.message) /\ total' = total + 1
            /\ timer' = timer /\ (label' = label \/ label' = None)
        BY <1>1, <3>3 DEF OnFrame, OnMessage
      <4>3. shown \in Seq(Messages)
        BY DEF Base, TypeOK
      <4>4. /\ shown' \in Seq(Messages) /\ DOMAIN shown' = 1 .. Len(shown) + 1
            /\ DOMAIN shown = 1 .. Len(shown) /\ Len(shown) \in Nat
            /\ \A i \in 1 .. Len(shown) : shown'[i] = shown[i]
            /\ shown'[Len(shown) + 1] = f.message
        BY <4>1, <4>2, <4>3, AppendFacts
      <4>5. \A i \in 1 .. Len(shown) : shown[i] # f.message
        BY <3>3, <4>4 DEF ToSet
      <4>6. NoDuplicates'
        <5>1. \A i \in 1 .. Len(shown) + 1 : i \in 1 .. Len(shown) \/ i = Len(shown) + 1
          BY <4>4
        <5>2. QED
          BY <4>4, <4>5, <5>1 DEF Base, NoDuplicates
      <4>7. QED
        BY <4>2, <4>4, <4>6 DEF Base, TypeOK
    <3>4. QED
      BY <3>1, <3>2, <3>3
  <2>5. TypeOK'
    <3>1. {ready, label, timer}' \subseteq Channel \cup {None}
      BY <1>1, <2>4 DEF Base, TypeOK, OnFrame
    <3>2. QED
      BY <1>1, <2>1, <2>4, <3>1 DEF Base, TypeOK, OnFrame
  <2>6. QED
    BY <2>2, <2>3, <2>4, <2>5 DEF Base
<1>2. CASE TypingTimeout
  <2>1. TypeOK'
    BY <1>2 DEF Base, TypeOK, TypingTimeout
  <2>2. QED
    BY <1>2, <2>1 DEF Base, Socket, ReadBound, NoDuplicates, TypingTimeout
<1>3. ASSUME NEW on \in BOOLEAN, OtherTypes(on) PROVE Base'
  <2> DEFINE f == [kind |-> "typing", on |-> on]
  <2>1. inbox' = Append(inbox, f) /\ f \in Frames /\ inbox \in Seq(Frames) /\ sock # "none"
    BY <1>3 DEF Base, Socket, OtherTypes, Frames, Hears
  <2>2. /\ inbox' \in Seq(Frames) /\ DOMAIN inbox' = 1 .. Len(inbox) + 1
        /\ DOMAIN inbox = 1 .. Len(inbox) /\ Len(inbox) \in Nat
        /\ \A i \in 1 .. Len(inbox) : inbox'[i] = inbox[i]
        /\ inbox'[Len(inbox) + 1].kind = "typing"
    BY <2>1, AppendFacts
  <2>3. \A i \in 1 .. Len(inbox) + 1 : i \in 1 .. Len(inbox) \/ i = Len(inbox) + 1
    BY <2>2
  <2>4. Socket'
    BY <1>3, <2>2, <2>3 DEF Base, Socket, OtherTypes
  <2>5. moves' \in 0 .. MaxMoves
    BY <1>3, BoundAssumption DEF Base, TypeOK, OtherTypes
  <2>6. TypeOK'
    BY <1>3, <2>1, <2>5 DEF Base, TypeOK, OtherTypes
  <2>7. QED
    BY <1>3, <2>4, <2>6 DEF Base, ReadBound, NoDuplicates, OtherTypes
<1>4. QED
  BY <1>1, <1>2, <1>3

\* Loads.
LEMMA LoadBase ==
    ASSUME Base,
           \/ handleLoadOlderMessages
           \/ \E c \in Channel : Created(c)
           \/ \E r \in loads : listChatMessages(r) \/ Answer(r) \/ LoadFails(r)
    PROVE  Base'
<1> USE DEF list, socket, typing, server, history, Move
<1>1. CASE handleLoadOlderMessages
  <2>1. /\ loads' = loads \cup {Request(active, page + 1, "prepend")}
        /\ active \in Channel /\ page + 1 \in Nat \ {0}
    BY <1>1 DEF Base, TypeOK, handleLoadOlderMessages
  <2>2. moves' \in 0 .. MaxMoves
    BY <1>1, BoundAssumption DEF Base, TypeOK, handleLoadOlderMessages
  <2>3. TypeOK'
    <3>1. Request(active, page + 1, "prepend") \in [of : Channel, page : Nat \ {0},
                                                    mode : {"replace", "prepend"},
                                                    read : Nat \cup {Unread}]
      BY <2>1 DEF Request
    <3>2. loads' \subseteq [of : Channel, page : Nat \ {0}, mode : {"replace", "prepend"},
                            read : Nat \cup {Unread}]
      BY <2>1, <3>1 DEF Base, TypeOK
    <3>3. QED
      BY <1>1, <2>2, <3>2 DEF Base, TypeOK, handleLoadOlderMessages
  <2>4. ReadBound'
    BY <1>1, <2>1 DEF Base, TypeOK, ReadBound, handleLoadOlderMessages, Request, Unread
  <2>5. QED
    BY <1>1, <2>3, <2>4 DEF Base, Socket, NoDuplicates, handleLoadOlderMessages
<1>2. ASSUME NEW c \in Channel, Created(c) PROVE Base'
  <2>1. moves' \in 0 .. MaxMoves
    BY <1>2, BoundAssumption DEF Base, TypeOK, Created
  <2>2. TypeOK'
    <3>1. loads' \subseteq [of : Channel, page : Nat \ {0}, mode : {"replace", "prepend"},
                            read : Nat \cup {Unread}]
      <4>1. loads' = loads \cup {Request(c, 1, "replace")}
        BY <1>2 DEF Created
      <4>2. QED
        BY <4>1 DEF Base, TypeOK, Request
    <3>2. astray' \in BOOLEAN
      BY <1>2, Zenon DEF Base, TypeOK, Created
    <3>3. QED
      BY <1>2, <2>1, <3>1, <3>2 DEF Base, TypeOK, Created
  <2>3. ReadBound'
    BY <1>2 DEF Base, TypeOK, ReadBound, Created, Request, Unread
  <2>4. QED
    BY <1>2, <2>2, <2>3 DEF Base, Socket, NoDuplicates, Created
<1>3. ASSUME NEW r \in loads, listChatMessages(r) PROVE Base'
  <2>1. loads' = (loads \ {r}) \cup {[r EXCEPT !.read = stored[r.of]]} /\ stored[r.of] \in Nat
    BY <1>3 DEF Base, TypeOK, listChatMessages
  <2>2. TypeOK'
    BY <1>3, <2>1 DEF Base, TypeOK, listChatMessages
  <2>3. ReadBound'
    <3>1. [r EXCEPT !.read = stored[r.of]].of = r.of /\ [r EXCEPT !.read = stored[r.of]].read = stored[r.of]
      BY DEF Base, TypeOK
    <3>2. stored' = stored /\ stored[r.of] <= stored[r.of]
      BY <1>3, <2>1 DEF listChatMessages
    <3>3. QED
      BY <2>1, <3>1, <3>2 DEF Base, ReadBound
  <2>4. QED
    BY <1>3, <2>2, <2>3 DEF Base, Socket, NoDuplicates, listChatMessages
<1>4. ASSUME NEW r \in loads, Answer(r) PROVE Base'
  <2>1. shown' \in Seq(Messages) /\ NoDuplicates'
    BY <1>4, AnswerTypes DEF Base
  <2>2. r.page \in Nat \ {0} /\ r.read \in Nat
    BY <1>4 DEF Base, TypeOK, Answer, Unread
  <2>3. missed' \subseteq Messages
    <3>1. ToSet(shown) \subseteq Messages
      BY LenProperties DEF Base, TypeOK, ToSet
    <3>2. QED
      BY <1>4, <3>1 DEF Base, TypeOK, Answer
  <2>4. page' \in Nat \ {0} /\ total' \in Nat /\ loads' \subseteq loads
    BY <1>4, <2>2 DEF Answer
  <2>5. older' \in BOOLEAN
    BY <1>4, Zenon DEF Base, TypeOK, Answer
  <2>6. TypeOK'
    BY <1>4, <2>1, <2>3, <2>4, <2>5 DEF Base, TypeOK, Answer
  <2>7. ReadBound'
    BY <1>4, <2>4 DEF Base, TypeOK, ReadBound, Answer
  <2>8. QED
    BY <1>4, <2>1, <2>6, <2>7 DEF Base, Socket, Answer
<1>5. ASSUME NEW r \in loads, LoadFails(r) PROVE Base'
  <2>1. moves' \in 0 .. MaxMoves
    BY <1>5, BoundAssumption DEF Base, TypeOK, LoadFails
  <2>2. TypeOK'
    BY <1>5, <2>1 DEF Base, TypeOK, LoadFails
  <2>3. QED
    BY <1>5, <2>2 DEF Base, Socket, ReadBound, NoDuplicates, LoadFails
<1>6. QED
  BY <1>1, <1>2, <1>3, <1>4, <1>5

\* The server's loops and the hub.
LEMMA ServerBase ==
    ASSUME Base,
           \/ handleSend
           \/ \E c \in Channel : OtherSends(c)
           \/ \E p \in posting : Refuse(p) \/ Insert(p) \/ publish(p)
    PROVE  Base'
<1> USE DEF list, socket, typing, server, history, Move
<1>1. CASE handleSend
  <2>1. moves' \in 0 .. MaxMoves /\ active \in Channel
    BY <1>1, BoundAssumption DEF Base, TypeOK, Socket, handleSend
  <2>2. posting' \subseteq [of : Channel, mine : BOOLEAN, nr : Nat]
    <3>1. [of |-> active, mine |-> TRUE, nr |-> 0] \in [of : Channel, mine : BOOLEAN, nr : Nat]
      BY <2>1
    <3>2. posting' = posting \cup {[of |-> active, mine |-> TRUE, nr |-> 0]}
      BY <1>1 DEF handleSend
    <3>3. QED
      BY <3>1, <3>2 DEF Base, TypeOK
  <2>3. TypeOK'
    BY <1>1, <2>1, <2>2 DEF Base, TypeOK, handleSend
  <2>4. QED
    BY <1>1, <2>3 DEF Base, Socket, ReadBound, NoDuplicates, handleSend
<1>2. ASSUME NEW c \in Channel, OtherSends(c) PROVE Base'
  <2>1. moves' \in 0 .. MaxMoves
    BY <1>2, BoundAssumption DEF Base, TypeOK, OtherSends
  <2>2. posting' \subseteq [of : Channel, mine : BOOLEAN, nr : Nat]
    <3>1. [of |-> c, mine |-> FALSE, nr |-> 0] \in [of : Channel, mine : BOOLEAN, nr : Nat]
      BY <2>1
    <3>2. posting' = posting \cup {[of |-> c, mine |-> FALSE, nr |-> 0]}
      BY <1>2 DEF OtherSends
    <3>3. QED
      BY <3>1, <3>2 DEF Base, TypeOK
  <2>3. TypeOK'
    BY <1>2, <2>1, <2>2 DEF Base, TypeOK, OtherSends
  <2>4. QED
    BY <1>2, <2>3 DEF Base, Socket, ReadBound, NoDuplicates, OtherSends
<1>3. ASSUME NEW p \in posting, Refuse(p) PROVE Base'
  <2>1. TypeOK'
    BY <1>3 DEF Base, TypeOK, Refuse
  <2>2. QED
    BY <1>3, <2>1 DEF Base, Socket, ReadBound, NoDuplicates, Refuse
<1>4. ASSUME NEW p \in posting, Insert(p) PROVE Base'
  <2>1. p \in [of : Channel, mine : BOOLEAN, nr : Nat] /\ stored \in [Channel -> Nat]
    BY DEF Base, TypeOK
  <2>2. stored' \in [Channel -> Nat] /\ \A c \in Channel : stored[c] <= stored'[c]
    BY <1>4, <2>1 DEF Insert
  <2>3. posting' \subseteq [of : Channel, mine : BOOLEAN, nr : Nat]
    <3>1. stored[p.of] + 1 \in Nat
      BY <2>1
    <3>2. [p EXCEPT !.nr = stored[p.of] + 1] \in [of : Channel, mine : BOOLEAN, nr : Nat]
      BY <2>1, <3>1
    <3>3. QED
      BY <1>4, <3>2 DEF Base, TypeOK, Insert
  <2>4. TypeOK'
    BY <1>4, <2>2, <2>3 DEF Base, TypeOK, Insert
  <2>5. ReadBound'
    <3>1. SUFFICES ASSUME NEW r \in loads PROVE r.read <= stored'[r.of]
      BY <1>4 DEF ReadBound, Insert
    <3>2. r.of \in Channel /\ r.read \in Int /\ r.read <= stored[r.of]
      BY DEF Base, TypeOK, ReadBound, Unread
    <3>3. stored[r.of] \in Nat /\ stored'[r.of] \in Nat /\ stored[r.of] <= stored'[r.of]
      BY <2>1, <2>2, <3>2
    <3>4. QED
      BY <3>2, <3>3
  <2>6. QED
    BY <1>4, <2>4, <2>5 DEF Base, Socket, NoDuplicates, Insert
<1>5. ASSUME NEW p \in posting, publish(p) PROVE Base'
  <2> DEFINE f == [kind |-> "message", message |-> Message(p.of, p.nr), mine |-> p.mine]
  <2>1. f \in Frames /\ Message(p.of, p.nr) \in Messages /\ f.message.of = p.of
    BY <1>5 DEF Base, TypeOK, publish, Frames, Message, Messages
  <2>2. CASE Hears(p.of)
    <3>1. inbox' = Append(inbox, f) /\ p.of = active /\ sock # "none" /\ missed' = missed
      BY <1>5, <2>2 DEF publish, Hears
    <3>2. /\ inbox' \in Seq(Frames) /\ DOMAIN inbox' = 1 .. Len(inbox) + 1
          /\ DOMAIN inbox = 1 .. Len(inbox) /\ Len(inbox) \in Nat
          /\ \A i \in 1 .. Len(inbox) : inbox'[i] = inbox[i]
          /\ inbox'[Len(inbox) + 1] = f
      BY <2>1, <3>1, AppendFacts DEF Base, Socket
    <3>3. \A i \in 1 .. Len(inbox) + 1 : i \in 1 .. Len(inbox) \/ i = Len(inbox) + 1
      BY <3>2
    <3>4. Socket'
      BY <1>5, <2>1, <3>1, <3>2, <3>3 DEF Base, Socket, publish
    <3>5. TypeOK'
      BY <1>5, <3>1 DEF Base, TypeOK, publish
    <3>6. QED
      BY <1>5, <3>4, <3>5 DEF Base, ReadBound, NoDuplicates, publish
  <2>3. CASE ~Hears(p.of)
    <3>1. inbox' = inbox /\ missed' \subseteq Messages
      BY <1>5, <2>1, <2>3 DEF Base, TypeOK, publish
    <3>2. TypeOK'
      BY <1>5, <3>1 DEF Base, TypeOK, publish
    <3>3. QED
      BY <1>5, <3>1, <3>2 DEF Base, Socket, ReadBound, NoDuplicates, publish
  <2>4. QED
    BY <2>2, <2>3
<1>6. QED
  BY <1>1, <1>2, <1>3, <1>4, <1>5

\* Every step keeps Base.
LEMMA BaseStep == Base /\ [Next]_vars => Base'
<1> SUFFICES ASSUME Base, [Next]_vars PROVE Base'
  OBVIOUS
<1>1. CASE UNCHANGED vars
  <2>1. TypeOK'
    BY <1>1 DEF Base, TypeOK, vars, list, socket, typing, server, history
  <2>2. QED
    BY <1>1, <2>1 DEF Base, Socket, ReadBound, NoDuplicates, vars, list, socket, typing, server, history
<1>2. CASE Next
  BY <1>2, SocketBase, FrameBase, LoadBase, ServerBase DEF Next
<1>3. QED
  BY <1>1, <1>2

-----------------------------------------------------------------------------
(* The list that is shown.                                                 *)

\* A chat is open, and no load of it failed or had others beside it.
Alone == active # None /\ ~astray

\* The newest page of the open chat is on its way.
Reading == \E r \in loads : r.mode = "replace"

\* Message n of the open chat is shown, is going to be, or is one that was lost.
Covered(n) ==
    \/ Message(active, n) \in ToSet(shown) \cup missed
    \/ \E i \in DOMAIN inbox : inbox[i].kind = "message" /\ inbox[i].message = Message(active, n)
    \/ \E p \in posting : p.of = active /\ p.nr = n

\* The next page of the first k messages leaves no gap below the list.
Reach(k) == shown[1].nr = 1 \/ shown[1].nr + page * PageSize <= k + 1

\* While a chat is loaded alone one request is on its way, of a kind that suits
\* what is shown.
OneLoad ==
    /\ \A r \in loads : r.of = active /\ loads = {r}
    /\ \A r \in loads : r.mode = "replace" => r.page = 1 /\ total <= Len(shown)
    /\ \A r \in loads : r.mode = "prepend" =>
          /\ r.page = page + 1 /\ older /\ shown # <<>>
          /\ Reach(IF r.read = Unread THEN stored[active] ELSE r.read)

\* As long as there is more to load than is shown, an older page fits below it.
FitsBelow == total > Len(shown) => stored[active] > 1 /\ Reach(stored[active])

\* Once it is loaded the list holds messages of the open chat only.
OwnList ==
    ~Reading => /\ \A i \in DOMAIN shown : shown[i].of = active
                /\ shown = <<>> => total = 0

Top == IF shown = <<>> THEN 1 ELSE shown[1].nr

\* From the top of the list on, and beyond the page that is on its way, every
\* message is accounted for.
Complete ==
    /\ ~Reading => \A n \in Top .. stored[active] : Covered(n)
    /\ \A r \in loads : r.mode = "replace" /\ r.read # Unread
          => \A n \in r.read + 1 .. stored[active] : Covered(n)

Conversation == Alone => OneLoad /\ FitsBelow /\ OwnList /\ Complete

\* NoHoles and OwnMessages speak of the list at rest.  Conversation says what
\* keeps them true on the way there: that loads of one chat do not overlap, where
\* the next page starts, and what is still to come.
Inv == Base /\ Conversation

\* What the arithmetic below needs of the variables.
LEMMA Numbers ==
    ASSUME Base, active # None
    PROVE  /\ active \in Channel /\ stored[active] \in Nat
           /\ total \in Nat /\ page \in Nat \ {0} /\ page * PageSize \in Nat
           /\ Len(shown) \in Nat /\ DOMAIN shown = 1 .. Len(shown)
           /\ \A i \in DOMAIN shown : shown[i] \in Messages /\ shown[i].nr \in Nat \ {0}
           /\ shown # <<>> => Len(shown) > 0 /\ 1 \in DOMAIN shown /\ shown[1].nr \in Nat \ {0}
           /\ Top \in Nat \ {0}
<1>1. /\ active \in Channel /\ stored[active] \in Nat /\ total \in Nat /\ page \in Nat \ {0}
      /\ shown \in Seq(Messages)
  BY DEF Base, TypeOK
<1>2. page * PageSize \in Nat
  BY <1>1, BoundAssumption
<1>3. Len(shown) \in Nat /\ DOMAIN shown = 1 .. Len(shown) /\ \A i \in DOMAIN shown : shown[i] \in Messages
  BY <1>1, LenProperties
<1>4. \A x \in Messages : x.nr \in Nat \ {0}
  BY DEF Messages
<1>5. shown # <<>> => Len(shown) > 0 /\ 1 \in DOMAIN shown
  BY <1>1, <1>3, EmptySeq
<1>6. QED
  BY <1>1, <1>2, <1>3, <1>4, <1>5 DEF Top

\* The kinds of requests, and what they were told.
LEMMA Requests ==
    ASSUME Base, NEW r \in loads
    PROVE  /\ r.of \in Channel /\ r.page \in Nat \ {0} /\ r.mode \in {"replace", "prepend"}
           /\ r.read \in Int /\ (r.read # Unread => r.read \in Nat) /\ r.read <= stored[r.of]
  BY DEF Base, TypeOK, ReadBound, Unread

\* A page that fits below the list still does when messages have come in.
LEMMA ReachGrows ==
    ASSUME Base, active # None, shown # <<>>, shown'[1] = shown[1], page' = page,
           NEW k \in Int, NEW l \in Int, k <= l, Reach(k)
    PROVE  Reach(l)'
<1>1. shown[1].nr + page * PageSize \in Int
  BY Numbers
<1>2. shown'[1].nr = 1 \/ shown'[1].nr + page' * PageSize <= l + 1
  BY <1>1 DEF Reach
<1>3. QED
  BY <1>2 DEF Reach

\* A step that leaves the list and the loads alone and lets no message slip.
LEMMA Carry ==
    ASSUME Inv, Base', Alone', UNCHANGED <<active, list, astray>>,
           stored[active] <= stored'[active],
           \A n \in Nat \ {0} : Covered(n) => Covered(n)',
           \A n \in stored[active] + 1 .. stored'[active] : Covered(n)'
    PROVE  Conversation'
<1>1. Alone /\ OneLoad /\ FitsBelow /\ OwnList /\ Complete
  BY DEF Inv, Conversation, Alone, list
<1>2. /\ active' = active /\ shown' = shown /\ total' = total /\ page' = page /\ older' = older
      /\ loads' = loads
  BY DEF list
<1>3. /\ stored[active] \in Nat /\ stored'[active] \in Nat /\ Top \in Nat \ {0}
      /\ total \in Nat /\ Len(shown) \in Nat /\ active # None
  <2>1. active # None /\ active' # None
    BY <1>1 DEF Alone
  <2>2. stored'[active'] \in Nat
    BY <2>1 DEF Base, TypeOK
  <2>3. QED
    BY <1>2, <2>1, <2>2, Numbers DEF Inv
<1>4. OneLoad'
  <2>1. SUFFICES ASSUME NEW r \in loads, r.mode = "prepend"
                 PROVE  Reach(IF r.read = Unread THEN stored[active] ELSE r.read)'
    BY <1>1, <1>2 DEF OneLoad
  <2>2. shown # <<>> /\ Reach(IF r.read = Unread THEN stored[active] ELSE r.read)
    BY <1>1, <2>1 DEF OneLoad
  <2>3. r.read \in Int
    BY Requests DEF Inv
  <2>4. CASE r.read = Unread
    BY <1>2, <1>3, <2>2, <2>4, ReachGrows DEF Inv
  <2>5. CASE r.read # Unread
    BY <1>2, <1>3, <2>2, <2>3, <2>5, ReachGrows DEF Inv
  <2>6. QED
    BY <2>4, <2>5
<1>5. FitsBelow'
  <2>1. SUFFICES ASSUME total > Len(shown) PROVE (stored[active] > 1 /\ Reach(stored[active]))'
    BY <1>2 DEF FitsBelow
  <2>2. stored[active] > 1 /\ Reach(stored[active])
    BY <1>1, <2>1 DEF FitsBelow
  <2>3. Reach(stored[active])'
    <3>1. shown # <<>>
      BY <1>1, <1>3, <2>1, EmptySeq DEF OneLoad, OwnList, Reading
    <3>2. QED
      BY <1>2, <1>3, <2>2, <3>1, ReachGrows DEF Inv
  <2>4. QED
    BY <1>2, <1>3, <2>2, <2>3
<1>6. OwnList'
  BY <1>1, <1>2 DEF OwnList, Reading
<1>7. Complete'
  <2>1. ASSUME NEW m \in Nat \ {0}, \A n \in m .. stored[active] : Covered(n)
        PROVE  \A n \in m .. stored'[active] : Covered(n)'
    <3>1. TAKE n \in m .. stored'[active]
    <3>2. n \in Nat \ {0} /\ (n \in m .. stored[active] \/ n \in stored[active] + 1 .. stored'[active])
      BY <1>3
    <3>3. QED
      BY <2>1, <3>2
  <2>2. ~Reading' => \A n \in Top' .. stored'[active'] : Covered(n)'
    BY <1>1, <1>2, <1>3, <2>1 DEF Complete, Reading, Top
  <2>3. ASSUME NEW r \in loads', r.mode = "replace" /\ r.read # Unread
        PROVE  \A n \in r.read + 1 .. stored'[active'] : Covered(n)'
    <3>1. r.read + 1 \in Nat \ {0}
      <4>1. r \in loads /\ r.read \in Nat
        BY <1>2, <2>3, Requests DEF Inv
      <4>2. QED
        BY <4>1
    <3>2. \A n \in r.read + 1 .. stored[active] : Covered(n)
      BY <1>1, <1>2, <2>3 DEF Complete
    <3>3. QED
      BY <1>2, <2>1, <3>1, <3>2
  <2>4. QED
    BY <2>2, <2>3 DEF Complete
<1>8. QED
  BY <1>4, <1>5, <1>6, <1>7 DEF Conversation

\* Nothing the list depends on changes.
LEMMA QuietConversation ==
    ASSUME Inv, Base', \/ Accept \/ OnOpen \/ Reconnect \/ TypingTimeout
                       \/ \E c \in Channel : OldCloses(c)
    PROVE  Conversation'
<1> USE DEF list, socket, typing, server, history
<1>1. UNCHANGED <<active, list, inbox, stored, posting, missed, astray>>
  BY DEF Accept, OnOpen, Reconnect, TypingTimeout, OldCloses
<1>2. SUFFICES ASSUME Alone' PROVE Conversation'
  BY DEF Conversation
<1>3. active # None
  BY <1>1, <1>2 DEF Alone
<1>4. \A n \in Nat \ {0} : Covered(n) => Covered(n)'
  BY <1>1 DEF Covered
<1>5. stored[active] <= stored'[active] /\ stored[active] + 1 .. stored'[active] = {}
  BY <1>1, <1>3, Numbers DEF Inv
<1>6. QED
  BY <1>1, <1>2, <1>4, <1>5, Carry

\* A socket that is given up, or breaks, loses what was on its way to it.
LEMMA LossConversation == ASSUME Inv, Base', Refilter \/ Drop PROVE Conversation'
<1> USE DEF list, socket, typing, server, history
<1>1. /\ UNCHANGED <<active, list, stored, posting, astray>>
      /\ missed' = missed \cup {m.message : m \in Lost}
  BY DEF Refilter, Drop
<1>2. SUFFICES ASSUME Alone' PROVE Conversation'
  BY DEF Conversation
<1>3. active # None
  BY <1>1, <1>2 DEF Alone
<1>4. ASSUME NEW n \in Nat \ {0}, Covered(n) PROVE Covered(n)'
  <2>1. CASE \E i \in DOMAIN inbox : inbox[i].kind = "message" /\ inbox[i].message = Message(active, n)
    <3>1. Message(active, n) \in {m.message : m \in Lost}
      BY <2>1 DEF Lost, ToSet
    <3>2. QED
      BY <1>1, <3>1 DEF Covered
  <2>2. CASE Message(active, n) \in ToSet(shown) \cup missed \/ \E p \in posting : p.of = active /\ p.nr = n
    BY <1>1, <2>2 DEF Covered
  <2>3. QED
    BY <1>4, <2>1, <2>2 DEF Covered
<1>5. stored[active] <= stored'[active] /\ stored[active] + 1 .. stored'[active] = {}
  BY <1>1, <1>3, Numbers DEF Inv
<1>6. QED
  BY <1>1, <1>2, <1>4, <1>5, Carry

\* What is sent and refused, and what a typist does, is no message yet.
LEMMA PostConversation ==
    ASSUME Inv, Base', \/ handleSend
                       \/ \E c \in Channel : OtherSends(c)
                       \/ \E p \in posting : Refuse(p)
                       \/ \E on \in BOOLEAN : OtherTypes(on)
    PROVE  Conversation'
<1> USE DEF list, socket, typing, server, history
<1>1. UNCHANGED <<active, list, stored, missed, astray>>
  BY DEF handleSend, OtherSends, Refuse, OtherTypes
<1>2. SUFFICES ASSUME Alone' PROVE Conversation'
  BY DEF Conversation
<1>3. active # None
  BY <1>1, <1>2 DEF Alone
<1>4. \A p \in posting : p.nr # 0 => p \in posting'
  BY DEF handleSend, OtherSends, Refuse, OtherTypes
<1>5. \A i \in DOMAIN inbox : i \in DOMAIN inbox' /\ inbox'[i] = inbox[i]
  <2>1. CASE UNCHANGED inbox
    BY <2>1
  <2>2. ASSUME NEW on \in BOOLEAN, OtherTypes(on)
        PROVE  \A i \in DOMAIN inbox : i \in DOMAIN inbox' /\ inbox'[i] = inbox[i]
    <3>1. inbox \in Seq(Frames) /\ [kind |-> "typing", on |-> on] \in Frames
      BY DEF Inv, Base, Socket, Frames
    <3>2. inbox' = Append(inbox, [kind |-> "typing", on |-> on])
      BY <2>2 DEF OtherTypes
    <3>3. /\ DOMAIN inbox = 1 .. Len(inbox) /\ DOMAIN inbox' = 1 .. Len(inbox) + 1 /\ Len(inbox) \in Nat
          /\ \A i \in 1 .. Len(inbox) : inbox'[i] = inbox[i]
      BY <3>1, <3>2, AppendFacts
    <3>4. QED
      BY <3>3
  <2>3. QED
    BY <2>1, <2>2 DEF handleSend, OtherSends, Refuse
<1>6. ASSUME NEW n \in Nat \ {0}, Covered(n) PROVE Covered(n)'
  BY <1>1, <1>4, <1>5, <1>6 DEF Covered
<1>7. stored[active] <= stored'[active] /\ stored[active] + 1 .. stored'[active] = {}
  BY <1>1, <1>3, Numbers DEF Inv
<1>8. QED
  BY <1>1, <1>2, <1>6, <1>7, Carry

\* A message that is inserted is on its way through the loop of its sender.
LEMMA InsertConversation ==
    ASSUME Inv, Base', NEW p \in posting, Insert(p)
    PROVE  Conversation'
<1> USE DEF list, socket, typing, server, history
<1>1. UNCHANGED <<active, list, inbox, missed, astray>>
  BY DEF Insert
<1>2. SUFFICES ASSUME Alone' PROVE Conversation'
  BY DEF Conversation
<1>3. active # None /\ active \in Channel /\ stored[active] \in Nat
  BY <1>1, <1>2, Numbers DEF Inv, Alone
<1>4. p \in [of : Channel, mine : BOOLEAN, nr : Nat] /\ stored \in [Channel -> Nat] /\ p.nr = 0
  BY DEF Inv, Base, TypeOK, Insert
<1>5. /\ stored' = [stored EXCEPT ![p.of] = @ + 1]
      /\ posting' = (posting \ {p}) \cup {[p EXCEPT !.nr = stored[p.of] + 1]}
  BY DEF Insert
<1>6. stored'[active] = IF p.of = active THEN stored[active] + 1 ELSE stored[active]
  BY <1>3, <1>4, <1>5
<1>7. ASSUME NEW n \in Nat \ {0}, Covered(n) PROVE Covered(n)'
  <2>1. \A q \in posting : q.nr = n => q \in posting'
    BY <1>4, <1>5
  <2>2. QED
    BY <1>1, <1>7, <2>1 DEF Covered
<1>8. ASSUME NEW n \in stored[active] + 1 .. stored'[active] PROVE Covered(n)'
  <2>1. p.of = active /\ n = stored[active] + 1
    BY <1>3, <1>6
  <2>2. [p EXCEPT !.nr = stored[p.of] + 1].of = active /\ [p EXCEPT !.nr = stored[p.of] + 1].nr = n
    BY <1>4, <2>1
  <2>3. QED
    BY <1>1, <1>5, <2>2 DEF Covered
<1>9. stored[active] <= stored'[active]
  BY <1>3, <1>6
<1>10. QED
  BY <1>1, <1>2, <1>7, <1>8, <1>9, Carry

\* A message that is published goes to the socket, or is lost if there is none.
LEMMA PublishConversation ==
    ASSUME Inv, Base', NEW p \in posting, publish(p)
    PROVE  Conversation'
<1> USE DEF list, socket, typing, server, history
<1>1. UNCHANGED <<active, list, stored, astray>> /\ posting' = posting \ {p}
  BY DEF publish
<1>2. SUFFICES ASSUME Alone' PROVE Conversation'
  BY DEF Conversation
<1>3. active # None
  BY <1>1, <1>2 DEF Alone
<1> DEFINE f == [kind |-> "message", message |-> Message(p.of, p.nr), mine |-> p.mine]
<1>4. inbox \in Seq(Frames) /\ f \in Frames
  BY DEF Inv, Base, TypeOK, Socket, publish, Frames, Message, Messages
<1>5. /\ DOMAIN inbox \subseteq DOMAIN inbox' /\ \A i \in DOMAIN inbox : inbox'[i] = inbox[i]
      /\ missed \subseteq missed'
      /\ p.of = active => Message(active, p.nr) \in missed' \/ \E i \in DOMAIN inbox' : inbox'[i] = f
  <2>1. CASE Hears(p.of)
    <3>1. inbox' = Append(inbox, f) /\ missed' = missed
      BY <2>1 DEF publish
    <3>2. /\ DOMAIN inbox = 1 .. Len(inbox) /\ DOMAIN inbox' = 1 .. Len(inbox) + 1 /\ Len(inbox) \in Nat
          /\ \A i \in 1 .. Len(inbox) : inbox'[i] = inbox[i]
          /\ inbox'[Len(inbox) + 1] = f
      BY <1>4, <3>1, AppendFacts
    <3>3. 1 .. Len(inbox) \subseteq 1 .. Len(inbox) + 1 /\ Len(inbox) + 1 \in 1 .. Len(inbox) + 1
      BY <3>2
    <3>4. QED
      BY <3>1, <3>2, <3>3
  <2>2. CASE ~Hears(p.of)
    BY <2>2 DEF publish
  <2>3. QED
    BY <2>1, <2>2
<1>6. ASSUME NEW n \in Nat \ {0}, Covered(n) PROVE Covered(n)'
  <2>1. CASE p.of = active /\ p.nr = n
    BY <1>1, <1>5, <2>1 DEF Covered
  <2>2. CASE ~(p.of = active /\ p.nr = n)
    BY <1>1, <1>5, <1>6, <2>2 DEF Covered
  <2>3. QED
    BY <2>1, <2>2
<1>7. stored[active] <= stored'[active] /\ stored[active] + 1 .. stored'[active] = {}
  BY <1>1, <1>3, Numbers DEF Inv
<1>8. QED
  BY <1>1, <1>2, <1>6, <1>7, Carry

\* A chat that is opened while no load is on its way is loaded alone.
LEMMA OpenConversation ==
    ASSUME Inv, Base', NEW c \in Channel \cup {None}, Open(c)
    PROVE  Conversation'
<1>1. SUFFICES ASSUME Alone' PROVE Conversation'
  BY DEF Conversation
<1>2. c # None /\ loads = {} /\ active' = c
  BY <1>1 DEF Open, Alone
<1>3. loads' = {Request(c, 1, "replace")} /\ total' = 0 /\ shown' = shown
  BY <1>2 DEF Open
<1>4. Len(shown) \in Nat
  BY LenProperties DEF Inv, Base, TypeOK
<1>5. OneLoad'
  BY <1>2, <1>3, <1>4 DEF OneLoad, Request
<1>6. Reading'
  BY <1>3 DEF Reading, Request
<1>7. FitsBelow'
  BY <1>3, <1>4 DEF FitsBelow
<1>8. QED
  BY <1>3, <1>5, <1>6, <1>7 DEF Conversation, OwnList, Complete, Request

\* What is asked for leaves the list as it is.
LEMMA LoadConversation ==
    ASSUME Inv, Base', handleLoadOlderMessages
    PROVE  Conversation'
<1> USE DEF list, socket, typing, server, history
<1>1. SUFFICES ASSUME Alone' PROVE Conversation'
  BY DEF Conversation
<1>2. /\ UNCHANGED <<active, shown, total, page, inbox, stored, posting, missed, astray>>
      /\ older' = TRUE /\ ~older /\ Len(shown) < total
      /\ loads' = loads \cup {Request(active, page + 1, "prepend")}
  BY DEF handleLoadOlderMessages
<1>3. Alone /\ OneLoad /\ FitsBelow /\ OwnList /\ Complete
  BY <1>1, <1>2 DEF Inv, Conversation, Alone
<1>4. Len(shown) \in Nat /\ total \in Nat
  BY <1>3, Numbers DEF Inv, Alone
<1>5. loads = {}
  <2>1. SUFFICES ASSUME NEW r \in loads PROVE FALSE
    OBVIOUS
  <2>2. r.mode = "replace" \/ r.mode = "prepend"
    BY Requests DEF Inv
  <2>3. QED
    BY <1>2, <1>3, <1>4, <2>2 DEF OneLoad
<1>6. ~Reading /\ ~Reading'
  BY <1>2, <1>5 DEF Reading, Request
<1>7. shown # <<>> /\ Reach(stored[active])
  BY <1>2, <1>3, <1>4, <1>6 DEF OwnList, FitsBelow
<1>8. Reach(stored[active])' /\ FitsBelow'
  BY <1>2, <1>3 DEF Reach, FitsBelow
<1>9. OneLoad'
  BY <1>2, <1>5, <1>7, <1>8 DEF OneLoad, Request
<1>10. OwnList' /\ Complete'
  BY <1>2, <1>3, <1>5, <1>6 DEF OwnList, Complete, Covered, Top, Request
<1>11. QED
  BY <1>8, <1>9, <1>10 DEF Conversation

\* A chat that is created and loaded while it is open has a message at most,
\* and that is shown already or was about to be.
LEMMA CreatedConversation ==
    ASSUME Inv, Base', NEW c \in Channel, Created(c)
    PROVE  Conversation'
<1> USE DEF list, socket, typing, server, history
<1>1. SUFFICES ASSUME Alone' PROVE Conversation'
  BY DEF Conversation
<1>2. c = active /\ loads = {} /\ ~astray /\ stored[c] <= 1
  BY <1>1 DEF Created, Alone
<1>3. /\ UNCHANGED <<active, shown, total, page, stored>>
      /\ loads' = {Request(active, 1, "replace")}
  BY <1>2 DEF Created
<1>4. Alone /\ FitsBelow
  BY <1>2, <1>3, <1>1 DEF Inv, Conversation, Alone
<1>5. Len(shown) \in Nat /\ total \in Nat /\ stored[active] \in Nat
  BY <1>4, Numbers DEF Inv, Alone
<1>6. total <= Len(shown)
  BY <1>2, <1>4, <1>5 DEF FitsBelow
<1>7. OneLoad' /\ FitsBelow'
  BY <1>3, <1>5, <1>6 DEF OneLoad, FitsBelow, Request
<1>8. Reading'
  BY <1>3 DEF Reading, Request
<1>9. QED
  BY <1>3, <1>7, <1>8 DEF Conversation, OwnList, Complete, Request

\* The server reads what there is.
LEMMA ReadConversation ==
    ASSUME Inv, Base', NEW r \in loads, listChatMessages(r)
    PROVE  Conversation'
<1> USE DEF list, socket, typing, server, history
<1>1. SUFFICES ASSUME Alone' PROVE Conversation'
  BY DEF Conversation
<1> DEFINE q == [r EXCEPT !.read = stored[r.of]]
<1>2. /\ UNCHANGED <<active, shown, total, page, older, inbox, stored, posting, missed, astray>>
      /\ r.read = Unread /\ loads' = (loads \ {r}) \cup {q}
  BY DEF listChatMessages
<1>3. Alone /\ OneLoad /\ FitsBelow /\ OwnList /\ Complete
  BY <1>1, <1>2 DEF Inv, Conversation, Alone
<1>4. q.of = r.of /\ q.page = r.page /\ q.mode = r.mode /\ q.read = stored[r.of] /\ r.of = active
  BY <1>3 DEF Inv, Base, TypeOK, OneLoad
<1>5. loads = {r} /\ loads' = {q} /\ stored[active] \in Nat /\ q.read # Unread
  BY <1>2, <1>3, <1>4, Numbers DEF Inv, OneLoad, Alone, Unread
<1> HIDE DEF q
<1>6. OneLoad'
  <2>1. ASSUME r.mode = "prepend" PROVE shown # <<>> /\ older /\ r.page = page + 1 /\ Reach(stored[active])'
    BY <1>2, <1>3, <2>1 DEF OneLoad, Reach
  <2>2. QED
    BY <1>2, <1>3, <1>4, <1>5, <2>1 DEF OneLoad
<1>7. FitsBelow' /\ OwnList'
  BY <1>2, <1>3, <1>4, <1>5 DEF FitsBelow, Reach, OwnList, Reading
<1>8. Complete'
  BY <1>2, <1>3, <1>4, <1>5 DEF Complete, Covered, Top, Reading
<1>9. QED
  BY <1>6, <1>7, <1>8 DEF Conversation

\* What arrives is shown, once.
LEMMA FrameConversation == ASSUME Inv, Base', OnFrame PROVE Conversation'
<1> USE DEF list, socket, typing, server, history
<1>1. SUFFICES ASSUME Alone' PROVE Conversation'
  BY DEF Conversation
<1> DEFINE f == Head(inbox)
<1>2. UNCHANGED <<active, page, older, loads, stored, posting, missed, astray>> /\ inbox' = Tail(inbox)
  BY DEF OnFrame
<1>3. Alone /\ OneLoad /\ FitsBelow /\ OwnList /\ Complete
  BY <1>1, <1>2 DEF Inv, Conversation, Alone
<1>4. /\ f = inbox[1] /\ f \in Frames /\ (f.kind = "message" => f.message.of = active)
      /\ \A i \in DOMAIN inbox : i # 1 => \E j \in DOMAIN inbox' : inbox'[j] = inbox[i]
  BY TailFacts, LenProperties DEF Inv, Base, Socket, OnFrame
<1>5. CASE UNCHANGED <<shown, total>> /\ (f.kind = "message" => f.message \in ToSet(shown))
  <2>1. ASSUME NEW n \in Nat \ {0}, Covered(n) PROVE Covered(n)'
    <3>1. CASE \E i \in DOMAIN inbox : inbox[i].kind = "message" /\ inbox[i].message = Message(active, n)
      <4>1. PICK i \in DOMAIN inbox : inbox[i].kind = "message" /\ inbox[i].message = Message(active, n)
        BY <3>1
      <4>2. CASE i = 1
        BY <1>2, <1>4, <1>5, <4>1, <4>2 DEF Covered
      <4>3. CASE i # 1
        <5>1. PICK j \in DOMAIN inbox' : inbox'[j] = inbox[i]
          BY <1>4, <4>3
        <5>2. QED
          BY <1>2, <4>1, <5>1 DEF Covered
      <4>4. QED
        BY <4>2, <4>3
    <3>2. CASE Message(active, n) \in ToSet(shown) \cup missed \/ \E p \in posting : p.of = active /\ p.nr = n
      BY <1>2, <1>5, <3>2 DEF Covered
    <3>3. QED
      BY <2>1, <3>1, <3>2 DEF Covered
  <2>2. stored[active] <= stored'[active] /\ stored[active] + 1 .. stored'[active] = {}
    BY <1>2, <1>3, Numbers DEF Inv, Alone
  <2>3. QED
    BY <1>1, <1>2, <1>5, <2>1, <2>2, Carry
<1>6. CASE f.kind = "message" /\ f.message \notin ToSet(shown)
  <2>1. shown' = Append(shown, f.message) /\ total' = total + 1
    BY <1>6 DEF OnFrame, OnMessage
  <2>2. f.message \in Messages /\ f.message.of = active /\ shown \in Seq(Messages)
        /\ f.message = Message(active, f.message.nr) /\ f.message.nr \in Nat \ {0}
    BY <1>4, <1>6 DEF Inv, Base, TypeOK, Frames, Messages, Message
  <2>3. /\ Len(shown') = Len(shown) + 1 /\ Len(shown) \in Nat /\ shown' # <<>>
        /\ DOMAIN shown = 1 .. Len(shown) /\ DOMAIN shown' = 1 .. Len(shown) + 1
        /\ \A i \in 1 .. Len(shown) : shown'[i] = shown[i]
        /\ shown'[Len(shown) + 1] = f.message
        /\ ToSet(shown') = ToSet(shown) \cup {f.message}
    BY <2>1, <2>2, AppendFacts
  <2>4. /\ shown # <<>> => shown'[1] = shown[1]
        /\ shown = <<>> => shown'[1] = f.message
    BY <2>2, <2>3, EmptySeq
  <2>5. /\ stored[active] \in Nat /\ total \in Nat /\ Top \in Nat \ {0} /\ Top' \in Nat \ {0}
        /\ Top <= Top'
    <3>1. stored[active] \in Nat /\ total \in Nat /\ Top \in Nat \ {0}
      BY <1>3, Numbers DEF Inv, Alone
    <3>2. Top' = shown'[1].nr
      BY <2>3 DEF Top
    <3>3. QED
      BY <2>2, <2>4, <3>1, <3>2 DEF Top
  <2>6. ASSUME NEW n \in Nat \ {0}, Covered(n) PROVE Covered(n)'
    <3>1. CASE \E i \in DOMAIN inbox : inbox[i].kind = "message" /\ inbox[i].message = Message(active, n)
      <4>1. PICK i \in DOMAIN inbox : inbox[i].kind = "message" /\ inbox[i].message = Message(active, n)
        BY <3>1
      <4>2. CASE i = 1
        BY <1>2, <1>4, <2>3, <4>1, <4>2 DEF Covered
      <4>3. CASE i # 1
        <5>1. PICK j \in DOMAIN inbox' : inbox'[j] = inbox[i]
          BY <1>4, <4>3
        <5>2. QED
          BY <1>2, <4>1, <5>1 DEF Covered
      <4>4. QED
        BY <4>2, <4>3
    <3>2. CASE Message(active, n) \in ToSet(shown) \cup missed \/ \E p \in posting : p.of = active /\ p.nr = n
      BY <1>2, <2>3, <3>2 DEF Covered
    <3>3. QED
      BY <2>6, <3>1, <3>2 DEF Covered
  <2>7. OneLoad'
    <3>1. ASSUME NEW r \in loads, r.mode = "prepend"
          PROVE  Reach(IF r.read = Unread THEN stored[active] ELSE r.read)'
      <4>1. shown # <<>> /\ Reach(IF r.read = Unread THEN stored[active] ELSE r.read)
        BY <1>3, <3>1 DEF OneLoad
      <4>2. r.read \in Int
        BY Requests DEF Inv
      <4>3. QED
        BY <1>2, <2>4, <4>1 DEF Reach
    <3>2. QED
      BY <1>2, <1>3, <2>1, <2>3, <2>5, <3>1 DEF OneLoad
  <2>8. FitsBelow'
    <3>1. SUFFICES ASSUME total > Len(shown) PROVE (stored[active] > 1 /\ Reach(stored[active]))'
      BY <2>1, <2>3, <2>5 DEF FitsBelow
    <3>2. stored[active] > 1 /\ Reach(stored[active])
      BY <1>3, <3>1 DEF FitsBelow
    <3>3. shown # <<>>
      BY <1>3, <2>5, <3>1, EmptySeq DEF OneLoad, OwnList, Reading
    <3>4. QED
      BY <1>2, <2>4, <3>2, <3>3 DEF Reach
  <2>9. OwnList'
    <3>1. SUFFICES ASSUME ~Reading PROVE \A i \in DOMAIN shown' : shown'[i].of = active
      BY <1>2, <2>3 DEF OwnList, Reading
    <3>2. \A i \in DOMAIN shown : shown[i].of = active
      BY <1>3, <3>1 DEF OwnList
    <3>3. \A i \in 1 .. Len(shown) + 1 : i \in 1 .. Len(shown) \/ i = Len(shown) + 1
      BY <2>3
    <3>4. QED
      BY <2>2, <2>3, <3>2, <3>3
  <2>10. Complete'
    <3>1. ASSUME ~Reading' PROVE \A n \in Top' .. stored'[active'] : Covered(n)'
      <4>1. TAKE n \in Top' .. stored'[active']
      <4>2. n \in Nat \ {0} /\ n \in Top .. stored[active]
        BY <1>2, <2>5
      <4>3. QED
        BY <1>2, <1>3, <2>6, <3>1, <4>2 DEF Complete, Reading
    <3>2. ASSUME NEW r \in loads', r.mode = "replace" /\ r.read # Unread
          PROVE  \A n \in r.read + 1 .. stored'[active'] : Covered(n)'
      <4>1. TAKE n \in r.read + 1 .. stored'[active']
      <4>2. r \in loads /\ r.read \in Nat
        BY <1>2, <3>2, Requests DEF Inv
      <4>3. n \in Nat \ {0} /\ n \in r.read + 1 .. stored[active]
        BY <1>2, <2>5, <4>2
      <4>4. QED
        BY <1>3, <2>6, <3>2, <4>2, <4>3 DEF Complete
    <3>3. QED
      BY <3>1, <3>2 DEF Complete
  <2>11. QED
    BY <2>7, <2>8, <2>9, <2>10 DEF Conversation
<1>7. QED
  BY <1>5, <1>6 DEF OnFrame, OnMessage, OnTyping

\* The newest page takes the place of what was shown.  What came in since the
\* server read it is shown again later, or counts as lost.
LEMMA ReplaceConversation ==
    ASSUME Inv, Base', NEW r \in loads, Answer(r), r.mode = "replace"
    PROVE  Conversation'
<1> USE DEF list, socket, typing, server, history
<1>1. SUFFICES ASSUME Alone' PROVE Conversation'
  BY DEF Conversation
<1> DEFINE items == PageOf(active, 1, r.read)
<1>2. /\ UNCHANGED <<active, inbox, stored, posting, astray>>
      /\ r.read # Unread /\ page' = r.page /\ total' = r.read
  BY DEF Answer
<1>3. Alone /\ OneLoad /\ Complete
  BY <1>1, <1>2 DEF Inv, Conversation, Alone
<1>4. /\ active \in Channel /\ stored[active] \in Nat /\ r.read \in Nat /\ r.read <= stored[active]
      /\ shown \in Seq(Messages)
  BY <1>2, <1>3, Numbers, Requests DEF Inv, Base, TypeOK, Alone, OneLoad
<1>5. /\ r.of = active /\ r.page = 1 /\ loads' = {} /\ shown' = mergeMessages(items)
      /\ missed' = missed \cup {x \in ToSet(shown) : x.of = active /\ x.nr > r.read}
  BY <1>3 DEF Answer, OneLoad
<1>6. LastOf(1, r.read) = r.read
  BY <1>4, BoundAssumption DEF LastOf
<1>7. /\ items \in Seq(Messages) /\ \A x \in ToSet(items) : x.of = active
      /\ \A n \in FirstOf(1, r.read) .. r.read : Message(active, n) \in ToSet(items)
      /\ r.read < 1 => items = <<>>
      /\ ~(r.read < 1) => items # <<>>
      /\ ~(r.read < 1) => items[1].nr = FirstOf(1, r.read)
  <2>1. 1 \in Nat \ {0}
    OBVIOUS
  <2>2. /\ items \in Seq(Messages) /\ \A x \in ToSet(items) : x.of = active
        /\ \A n \in FirstOf(1, r.read) .. LastOf(1, r.read) : Message(active, n) \in ToSet(items)
        /\ LastOf(1, r.read) < 1 => items = <<>>
        /\ ~(LastOf(1, r.read) < 1) => items # <<>>
        /\ ~(LastOf(1, r.read) < 1) => items[1].nr = FirstOf(1, r.read)
    <3> HIDE DEF items
    <3>1. items = PageOf(active, 1, r.read)
      BY DEF items
    <3>2. QED
      BY <1>4, <2>1, <3>1, PageProperties
  <2>3. QED
    BY <1>6, <2>2
<1>8. ToSet(shown') = ToSet(items) /\ (items # <<>> => shown' # <<>> /\ shown'[1] = items[1])
  BY <1>5, <1>7, MergeProperties
<1> HIDE DEF items
<1>9. shown' \in Seq(Messages) /\ Len(shown') \in Nat /\ DOMAIN shown' = 1 .. Len(shown')
      /\ (shown' # <<>> => Len(shown') > 0)
  BY LenProperties, EmptySeq DEF Base, TypeOK
<1>10. FirstOf(1, r.read) \in Nat \ {0} /\ (r.read < 1 => FirstOf(1, r.read) = 1)
       /\ (FirstOf(1, r.read) = 1 \/ FirstOf(1, r.read) + PageSize = r.read + 1)
  BY <1>4, <1>6, BoundAssumption DEF FirstOf
<1>11. OneLoad' /\ ~Reading'
  BY <1>5 DEF OneLoad, Reading
<1>12. FitsBelow'
  <2>1. SUFFICES ASSUME r.read > Len(shown') PROVE (stored[active] > 1 /\ Reach(stored[active]))'
    BY <1>2 DEF FitsBelow
  <2>2. r.read > 1 /\ shown'[1].nr = FirstOf(1, r.read)
    BY <1>4, <1>7, <1>8, <1>9, <2>1
  <2>3. page' * PageSize = PageSize
    BY <1>2, <1>5, BoundAssumption
  <2>4. FirstOf(1, r.read) = 1 \/ FirstOf(1, r.read) + PageSize <= stored[active] + 1
    BY <1>4, <1>10, BoundAssumption
  <2>5. QED
    BY <1>2, <1>4, <2>2, <2>3, <2>4 DEF Reach
<1>13. OwnList'
  <2>1. \A i \in DOMAIN shown' : shown'[i].of = active
    BY <1>7, <1>8 DEF ToSet
  <2>2. shown' = <<>> => total' = 0
    BY <1>2, <1>4, <1>7, <1>8
  <2>3. QED
    BY <1>2, <2>1, <2>2 DEF OwnList
<1>14. Complete'
  <2>1. Top' = FirstOf(1, r.read)
    <3>1. CASE r.read < 1
      <4>1. ToSet(shown') = {}
        BY <1>7, <1>8, <3>1 DEF ToSet
      <4>2. shown' = <<>>
        <5>1. \A i \in DOMAIN shown' : shown'[i] \in ToSet(shown')
          BY DEF ToSet
        <5>2. shown' # <<>> => 1 \in DOMAIN shown'
          BY <1>9
        <5>3. QED
          BY <4>1, <5>1, <5>2
      <4>3. QED
        BY <1>10, <3>1, <4>2 DEF Top
    <3>2. CASE ~(r.read < 1)
      BY <1>7, <1>8, <3>2 DEF Top
    <3>3. QED
      BY <3>1, <3>2
  <2>2. ASSUME NEW n \in FirstOf(1, r.read) .. stored[active] PROVE Covered(n)'
    <3>1. CASE n <= r.read
      BY <1>2, <1>4, <1>7, <1>8, <1>10, <3>1 DEF Covered
    <3>2. CASE ~(n <= r.read)
      <4>1. n \in r.read + 1 .. stored[active]
        BY <1>4, <1>10, <3>2
      <4>2. Covered(n)
        BY <1>2, <1>3, <4>1 DEF Complete
      <4>3. Message(active, n) \in ToSet(shown) => Message(active, n) \in missed'
        BY <1>4, <1>5, <4>1 DEF Message
      <4>4. QED
        BY <1>2, <1>5, <4>2, <4>3 DEF Covered
    <3>3. QED
      BY <3>1, <3>2
  <2>3. QED
    BY <1>2, <1>5, <2>1, <2>2 DEF Complete
<1>15. QED
  BY <1>11, <1>12, <1>13, <1>14 DEF Conversation

\* An older page is put in front and leaves no gap.
LEMMA PrependConversation ==
    ASSUME Inv, Base', NEW r \in loads, Answer(r), r.mode = "prepend"
    PROVE  Conversation'
<1> USE DEF list, socket, typing, server, history
<1>1. SUFFICES ASSUME Alone' PROVE Conversation'
  BY DEF Conversation
<1> DEFINE items == PageOf(active, page + 1, r.read)
           first == FirstOf(page + 1, r.read)
           last == LastOf(page + 1, r.read)
           shift == page * PageSize
<1>2. /\ UNCHANGED <<active, inbox, stored, posting, missed, astray>>
      /\ r.read # Unread /\ page' = r.page /\ total' = r.read
  BY DEF Answer
<1>3. Alone /\ OneLoad /\ OwnList /\ Complete
  BY <1>1, <1>2 DEF Inv, Conversation, Alone
<1>4. /\ r.of = active /\ r.page = page + 1 /\ loads = {r} /\ loads' = {} /\ shown # <<>>
      /\ Reach(r.read) /\ shown' = mergeMessages(items \o shown)
  BY <1>2, <1>3 DEF Answer, OneLoad
<1>5. /\ active \in Channel /\ stored[active] \in Nat /\ r.read \in Nat /\ r.read <= stored[active]
      /\ shown \in Seq(Messages) /\ page \in Nat \ {0} /\ shift \in Nat /\ shown[1].nr \in Nat \ {0}
      /\ Len(shown) \in Nat \ {0} /\ 1 \in DOMAIN shown
  <2>1. Base /\ active # None /\ shown # <<>>
    BY <1>2, <1>3, <1>4 DEF Inv, Alone
  <2>2. /\ active \in Channel /\ stored[active] \in Nat /\ page \in Nat \ {0} /\ shift \in Nat
        /\ shown[1].nr \in Nat \ {0} /\ Len(shown) \in Nat \ {0} /\ 1 \in DOMAIN shown
    BY <2>1, Numbers
  <2>3. r.read \in Nat /\ r.read <= stored[active]
    BY <1>2, <1>4, <2>1, Requests
  <2>4. QED
    BY <2>1, <2>2, <2>3 DEF Base, TypeOK
<1>6. ~Reading
  BY <1>4 DEF Reading
<1>7. last = r.read - shift /\ (page + 1) * PageSize = shift + PageSize
  BY <1>5, BoundAssumption DEF LastOf
<1>8. shown[1].nr = 1 \/ shown[1].nr + shift <= r.read + 1
  BY <1>4 DEF Reach
<1> HIDE DEF shift
<1>9. /\ items \in Seq(Messages) /\ \A x \in ToSet(items) : x.of = active
      /\ \A n \in first .. last : Message(active, n) \in ToSet(items)
      /\ last < 1 => items = <<>>
      /\ ~(last < 1) => items # <<>>
      /\ ~(last < 1) => items[1].nr = first
  <2>1. page + 1 \in Nat \ {0}
    BY <1>5
  <2>2. QED
    BY <1>5, <2>1, PageProperties
<1>10. /\ first \in Nat \ {0} /\ last \in Int
       /\ first = 1 \/ first + shift + PageSize = r.read + 1
  <2>1. last \in Int /\ last = r.read - shift
    BY <1>5, <1>7
  <2>2. first = IF last > PageSize THEN last - PageSize + 1 ELSE 1
    BY DEF FirstOf
  <2>3. shift \in Nat /\ r.read \in Nat /\ PageSize \in Nat \ {0}
    BY <1>5, BoundAssumption
  <2> HIDE DEF first, last
  <2>4. CASE last > PageSize
    BY <2>1, <2>2, <2>3, <2>4
  <2>5. CASE ~(last > PageSize)
    BY <2>1, <2>2, <2>5
  <2>6. QED
    BY <2>4, <2>5
<1> HIDE DEF items, first, last
<1>11. /\ items \o shown \in Seq(Messages) /\ items \o shown # <<>>
       /\ ToSet(items \o shown) = ToSet(items) \cup ToSet(shown)
       /\ (items \o shown)[1] = IF items = <<>> THEN shown[1] ELSE items[1]
  <2> DEFINE k == Len(items)
             m == Len(shown)
  <2>1. /\ items \o shown \in Seq(Messages) /\ Len(items \o shown) = k + m
        /\ \A i \in 1 .. k + m : (items \o shown)[i] = IF i <= k THEN items[i] ELSE shown[i - k]
        /\ k \in Nat /\ DOMAIN items = 1 .. k /\ DOMAIN shown = 1 .. m /\ m \in Nat \ {0}
    BY <1>5, <1>9, ConcatProperties, LenProperties
  <2>2. DOMAIN (items \o shown) = 1 .. k + m
    BY <2>1, LenProperties
  <2>3. (items = <<>> => k = 0) /\ (items # <<>> => k > 0)
    BY <1>9, <2>1, EmptySeq
  <2> HIDE DEF k, m
  <2>4. \A i \in 1 .. k + m : (i <= k /\ i \in 1 .. k) \/ (~(i <= k) /\ i - k \in 1 .. m)
    BY <2>1
  <2>5. /\ \A i \in 1 .. k : i \in 1 .. k + m /\ i <= k
        /\ \A i \in 1 .. m : i + k \in 1 .. k + m /\ ~(i + k <= k) /\ (i + k) - k = i
    BY <2>1
  <2>6. ToSet(items \o shown) \subseteq ToSet(items) \cup ToSet(shown)
    BY <2>1, <2>2, <2>4 DEF ToSet
  <2>7. ToSet(items) \subseteq ToSet(items \o shown)
    BY <2>1, <2>2, <2>5 DEF ToSet
  <2>8. ToSet(shown) \subseteq ToSet(items \o shown)
    <3>1. \A i \in 1 .. m : (items \o shown)[i + k] = shown[i]
      BY <2>1, <2>5
    <3>2. \A i \in 1 .. m : \E j \in 1 .. k + m : (items \o shown)[j] = shown[i]
      BY <2>5, <3>1
    <3>3. QED
      BY <2>1, <2>2, <3>2 DEF ToSet
  <2>9. 1 \in 1 .. k + m /\ (items \o shown)[1] = IF items = <<>> THEN shown[1] ELSE items[1]
    BY <2>1, <2>3
  <2>10. items \o shown # <<>>
    BY <1>4, <1>5, <1>9, ConcatEqualIffEmpty
  <2>11. QED
    BY <2>1, <2>6, <2>7, <2>8, <2>9, <2>10
<1>12. /\ ToSet(shown') = ToSet(items) \cup ToSet(shown) /\ shown' # <<>>
       /\ shown'[1] = IF items = <<>> THEN shown[1] ELSE items[1]
  BY <1>4, <1>11, MergeProperties
<1>13. shown' \in Seq(Messages) /\ Len(shown') \in Nat \ {0} /\ DOMAIN shown' = 1 .. Len(shown')
  BY <1>12, LenProperties, EmptySeq DEF Base, TypeOK
\* Where the list begins now, and that it goes on from there.
<1>14. /\ shown'[1].nr \in Nat \ {0}
       /\ shown'[1].nr = 1 \/ shown'[1].nr + shift + PageSize <= r.read + 1
       /\ \A n \in shown'[1].nr .. stored[active] : n \in first .. last \/ n \in shown[1].nr .. stored[active]
  <2>1. CASE last < 1
    BY <1>5, <1>7, <1>8, <1>9, <1>12, <2>1
  <2>2. CASE ~(last < 1)
    <3>1. shown'[1].nr = first
      BY <1>9, <1>12, <2>2
    <3>2. shown[1].nr = 1 \/ last >= shown[1].nr - 1
      BY <1>5, <1>7, <1>8
    <3>3. QED
      BY <1>5, <1>10, <3>1, <3>2, BoundAssumption
  <2>3. QED
    BY <2>1, <2>2
<1>15. OneLoad' /\ ~Reading'
  BY <1>4 DEF OneLoad, Reading
<1>16. FitsBelow'
  <2>1. SUFFICES ASSUME r.read > Len(shown') PROVE (stored[active] > 1 /\ Reach(stored[active]))'
    BY <1>2 DEF FitsBelow
  <2>2. stored[active] > 1
    BY <1>5, <1>13, <2>1
  <2>3. page' * PageSize = shift + PageSize
    BY <1>2, <1>4, <1>7
  <2>4. shown'[1].nr = 1 \/ shown'[1].nr + (shift + PageSize) <= stored[active] + 1
    BY <1>5, <1>14, BoundAssumption
  <2>5. QED
    BY <1>2, <2>2, <2>3, <2>4 DEF Reach
<1>17. OwnList'
  <2>1. \A x \in ToSet(shown) : x.of = active
    BY <1>3, <1>6 DEF OwnList, ToSet
  <2>2. \A i \in DOMAIN shown' : shown'[i] \in ToSet(items) \cup ToSet(shown)
    BY <1>12 DEF ToSet
  <2>3. QED
    BY <1>2, <1>9, <1>12, <2>1, <2>2 DEF OwnList
<1>18. Complete'
  <2>1. Top' = shown'[1].nr /\ Top = shown[1].nr
    BY <1>4, <1>12 DEF Top
  <2>2. ASSUME NEW n \in shown'[1].nr .. stored[active] PROVE Covered(n)'
    <3>1. CASE n \in first .. last
      BY <1>2, <1>9, <1>12, <3>1 DEF Covered
    <3>2. CASE n \in shown[1].nr .. stored[active]
      <4>1. Covered(n)
        BY <1>3, <1>6, <2>1, <3>2 DEF Complete
      <4>2. QED
        BY <1>2, <1>12, <4>1 DEF Covered
    <3>3. QED
      BY <1>14, <3>1, <3>2
  <2>3. QED
    BY <1>2, <1>4, <2>1, <2>2 DEF Complete
<1>19. QED
  BY <1>15, <1>16, <1>17, <1>18 DEF Conversation

\* Every step keeps Conversation.
LEMMA ConversationStep == Inv /\ Base' /\ [Next]_vars => Conversation'
<1> SUFFICES ASSUME Inv, Base', [Next]_vars PROVE Conversation'
  OBVIOUS
<1>1. CASE UNCHANGED vars
  BY <1>1 DEF vars, list, socket, typing, server, history, Inv, Conversation, Alone, OneLoad, Reach,
              FitsBelow, OwnList, Reading, Complete, Top, Covered
<1>2. ASSUME NEW r \in loads, LoadFails(r) PROVE Conversation'
  BY <1>2 DEF LoadFails, Conversation, Alone
<1>3. ASSUME NEW r \in loads, Answer(r) PROVE Conversation'
  BY <1>3, Requests, ReplaceConversation, PrependConversation DEF Inv
<1>4. CASE Next
  BY <1>2, <1>3, <1>4, QuietConversation, LossConversation, PostConversation, InsertConversation,
     PublishConversation, OpenConversation, LoadConversation, CreatedConversation, ReadConversation,
     FrameConversation DEF Next
<1>5. QED
  BY <1>1, <1>4

\* Nothing is open at the start, so there is nothing to account for.
LEMMA InitInv == Init => Inv
<1>1. Init => Conversation
  BY DEF Init, Conversation, Alone
<1>2. QED
  BY <1>1, InitBase DEF Inv

\* Inv holds in every state of every behavior of the specification.
LEMMA Invariance == Spec => []Inv
<1>1. Inv /\ [Next]_vars => Inv'
  BY BaseStep, ConversationStep DEF Inv
<1>2. QED
  BY InitInv, <1>1, PTL DEF Spec

-----------------------------------------------------------------------------
\* The state of the page, the messages and the frames keep their types.
THEOREM TypeCorrect == Spec => []TypeOK
<1>1. Inv => TypeOK
  BY DEF Inv, Base
<1>2. QED
  BY Invariance, <1>1, PTL

\* However pages shift and pushes overtake them, no message is shown twice.
THEOREM ShownOnce == Spec => []NoDuplicates
<1>1. Inv => NoDuplicates
  BY DEF Inv, Base
<1>2. QED
  BY Invariance, <1>1, PTL

\* Whatever is open, and whichever answers come late or never: a message of another
\* chat gets into the list only with the answer of a load of that chat, and the
\* answer of the open chat's own load leaves only its messages.
THEOREM OnlyOwnMessages == Spec => OwnMessages
<1> DEFINE Enters == \A x \in ToSet(shown') \ ToSet(shown) :
                        x.of = active \/ \E r \in loads : Answer(r) /\ x.of = r.of
           Replaces == \A r \in loads : Answer(r) /\ r.mode = "replace" /\ r.of = active
                         => \A x \in ToSet(shown') : x.of = active
<1>1. ASSUME TypeOK, NEW r \in loads, Answer(r)
      PROVE  /\ \A x \in ToSet(shown') : x.of = r.of \/ (r.mode = "prepend" /\ x \in ToSet(shown))
  <2> DEFINE items == PageOf(r.of, r.page, r.read)
  <2>1. r.of \in Channel /\ r.page \in Nat \ {0} /\ r.read \in Nat /\ shown \in Seq(Messages)
    BY <1>1 DEF TypeOK, Answer, Unread
  <2>2. items \in Seq(Messages) /\ \A x \in ToSet(items) : x.of = r.of
    BY <2>1, PageProperties
  <2>3. shown' = mergeMessages(IF r.mode = "prepend" THEN items \o shown ELSE items)
    BY <1>1 DEF Answer
  <2> HIDE DEF items
  <2>4. CASE r.mode = "prepend"
    <3>1. items \o shown \in Seq(Messages)
      BY <2>1, <2>2, ConcatProperties
    <3>2. \A i \in DOMAIN (items \o shown) : (items \o shown)[i] \in ToSet(items) \cup ToSet(shown)
      <4>1. /\ Len(items \o shown) = Len(items) + Len(shown)
            /\ \A i \in 1 .. Len(items) + Len(shown) :
                  (items \o shown)[i] = IF i <= Len(items) THEN items[i] ELSE shown[i - Len(items)]
            /\ Len(items) \in Nat /\ DOMAIN items = 1 .. Len(items)
            /\ Len(shown) \in Nat /\ DOMAIN shown = 1 .. Len(shown)
            /\ DOMAIN (items \o shown) = 1 .. Len(items \o shown)
        BY <2>1, <2>2, <3>1, ConcatProperties, LenProperties
      <4>2. QED
        BY <4>1 DEF ToSet
    <3>3. ToSet(shown') = ToSet(items \o shown)
      BY <2>3, <2>4, <3>1, MergeProperties
    <3>4. ToSet(items \o shown) \subseteq ToSet(items) \cup ToSet(shown)
      BY <3>2 DEF ToSet
    <3>5. QED
      BY <2>2, <2>4, <3>3, <3>4
  <2>5. CASE r.mode # "prepend"
    <3>1. ToSet(shown') = ToSet(items)
      BY <2>2, <2>3, <2>5, MergeProperties
    <3>2. QED
      BY <2>2, <3>1
  <2>6. QED
    BY <2>4, <2>5
<1>2. Base /\ [Next]_vars => Replaces
  BY <1>1 DEF Base
<1>3. Base /\ [Next]_vars => Enters
  <2>1. SUFFICES ASSUME Base, [Next]_vars PROVE Enters
    OBVIOUS
  <2>2. CASE shown' = shown \/ shown' = <<>>
    BY <2>2, EmptySeq DEF ToSet
  <2>3. ASSUME NEW r \in loads, Answer(r) PROVE Enters
    BY <1>1, <2>1, <2>3 DEF Base
  <2>4. CASE OnFrame
    <3>1. inbox # <<>> /\ 1 \in DOMAIN inbox /\ Head(inbox) = inbox[1]
      BY <2>1, <2>4, LenProperties, EmptySeq DEF Base, Socket, OnFrame
    <3>2. CASE Head(inbox).kind = "message"
      <4>1. Head(inbox).message.of = active
        BY <2>1, <3>1, <3>2 DEF Base, Socket
      <4>2. shown' = shown \/ shown' = Append(shown, Head(inbox).message)
        BY <2>4, <3>2 DEF OnFrame, OnMessage
      <4>3. shown \in Seq(Messages) /\ Head(inbox).message \in Messages
        BY <2>1, <3>1, <3>2 DEF Base, TypeOK, Socket, Frames
      <4>4. ToSet(Append(shown, Head(inbox).message)) = ToSet(shown) \cup {Head(inbox).message}
        BY <4>3, AppendFacts
      <4>5. shown' = shown \/ ToSet(shown') = ToSet(shown) \cup {Head(inbox).message}
        BY <4>2, <4>4
      <4>6. QED
        BY <4>1, <4>5
    <3>3. CASE Head(inbox).kind # "message"
      BY <2>2, <2>4, <3>3 DEF OnFrame, OnTyping
    <3>4. QED
      BY <3>2, <3>3
  <2>5. QED
    BY <2>1, <2>2, <2>3, <2>4
       DEF Next, Open, OldCloses, Created, OtherSends, Refilter, Accept, OnOpen, Drop, Reconnect,
           TypingTimeout, handleLoadOlderMessages, handleSend, listChatMessages, LoadFails, Refuse,
           Insert, publish, OtherTypes, vars, list
<1>4. Inv /\ [Next]_vars => [Enters /\ Replaces]_vars
  BY <1>2, <1>3 DEF Inv
<1>5. QED
  BY Invariance, <1>4, PTL DEF Spec, OwnMessages

\* From the message on top of the list to the newest there is, each is shown, or
\* was pushed while no socket was there for it: no page is ever skipped, however
\* many messages come in between two pages.
THEOREM NoPageSkipped == Spec => []NoHoles
<1>1. Inv => NoHoles
  <2>1. SUFFICES ASSUME Inv, Alone, shown # <<>>, loads = {}, inbox = <<>>, \A p \in posting : p.nr = 0,
                        NEW n \in shown[1].nr .. stored[active]
                 PROVE  Message(active, n) \in ToSet(shown) \cup missed
    BY DEF NoHoles, Alone
  <2>2. ~Reading /\ Top = shown[1].nr
    BY <2>1 DEF Reading, Top
  <2>3. Covered(n)
    BY <2>1, <2>2 DEF Inv, Conversation, Complete
  <2>4. n \in Nat \ {0} /\ DOMAIN inbox = {}
    BY <2>1, Numbers, LenProperties, EmptySeq DEF Inv, Alone, Base, Socket
  <2>5. QED
    BY <2>1, <2>3, <2>4 DEF Covered
<1>2. QED
  BY Invariance, <1>1, PTL
=============================================================================
