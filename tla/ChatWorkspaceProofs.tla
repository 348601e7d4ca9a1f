------------------------ MODULE ChatWorkspaceProofs ------------------------
(***************************************************************************)
(* Theorems about ChatWorkspace, for any chats, filters, page size and     *)
(* number of moves.                                                        *)
(***************************************************************************)
EXTENDS ChatWorkspace, SequenceTheorems, TLAPS

-----------------------------------------------------------------------------
(* Types.                                                                  *)

Refs   == [requested : Channel \cup {None}, pending : Query, applying : BOOLEAN, hydrated : BOOLEAN]
Flight == [query : Query, latest : BOOLEAN, then : Channel \cup {None}]

LEMMA DefaultIsQuery == DefaultQuery \in Query
BY BoundAssumption, NoneAssumption DEF DefaultQuery, Query, Page

\* What the server answers is a page of chats.
LEMMA FoundType ==
    ASSUME chats \subseteq Channel, NEW q \in Query PROVE Found[chats][q.filter] \in Seq(Channel)
BY FoundAssumption DEF Query

LEMMA ListingType ==
    ASSUME chats \subseteq Channel, NEW q \in Query PROVE Listing(q) \in Seq(Channel)
<1>. DEFINE found == Found[chats][q.filter]
            first == (q.page - 1) * PageSize + 1
            end   == q.page * PageSize
            last  == IF Len(found) < end THEN Len(found) ELSE end
<1>1. found \in Seq(Channel) /\ Len(found) \in Nat
  BY FoundType, LenProperties
<1>2. q.page - 1 \in Nat /\ q.page \in Nat /\ PageSize \in Nat
  BY BoundAssumption DEF Query, Page
<1>3. (q.page - 1) * PageSize \in Nat /\ end \in Nat
  BY <1>2
<1>4. first \in Int /\ first >= 1 /\ last \in Int /\ last <= Len(found)
  BY <1>1, <1>3
<1>5. \A i \in first .. last : found[i] \in Channel
  <2>. HIDE DEF first, last, found
  <2>. QED BY <1>1, <1>4, ElementOfSeq
<1>6. SubSeq(found, first, last) \in Seq(Channel)
  <2>. HIDE DEF first, last, found
  <2>. QED BY <1>4, <1>5, SubSeqProperties
<1>. QED BY <1>6 DEF Listing

\* Neither choice of a chat leaves the list and what was open.
LEMMA PreferredType ==
    ASSUME NEW rows \in Seq(Channel), NEW current \in Channel \cup {None}, NEW requested
    PROVE /\ Preferred(rows, current, requested) \in Channel \cup {None}
          /\ rows # <<>> => Preferred(rows, current, requested) \in ToSet(rows)
          /\ ToSet(rows) \subseteq Channel
<1>1. ToSet(rows) = {rows[i] : i \in 1 .. Len(rows)} /\ ToSet(rows) \subseteq Channel
  BY LenProperties, ElementOfSeq DEF ToSet
<1>2. rows # <<>> => 1 \in 1 .. Len(rows)
  BY EmptySeq, LenProperties
<1>. QED BY <1>1, <1>2 DEF Preferred, NextActive

\* The effects keep the types of the refs.
LEMMA RefsType ==
    ASSUME TypeOK, NEW s \in State, NEW u \in Url
    PROVE /\ RefsFromUrl(s, u, RememberRequested(s, u)) \in Refs
          /\ \A r \in Refs : RefsSettled(s, RefsHydrated(s, r)) \in Refs
          /\ \A r \in Refs : Synced(s, u, r) \in Url
<1>1. refs \in Refs /\ u.channel \in Channel \cup {None} /\ u.query \in Query
      /\ s.active \in Channel \cup {None} /\ s.query \in Query
  BY DEF TypeOK, Refs, Url, State
<1>2. RememberRequested(s, u) \in Refs
  BY <1>1 DEF RememberRequested, Refs
<1>3. \A r \in Refs : RefsFromUrl(s, u, r) \in Refs
  BY <1>1, DefaultIsQuery DEF RefsFromUrl, Refs
<1>4. \A r \in Refs : RefsHydrated(s, r) \in Refs
  BY DEF RefsHydrated, Refs
<1>5. \A r \in Refs : RefsSettled(s, r) \in Refs
  BY DefaultIsQuery DEF RefsSettled, Refs
<1>6. \A r \in Refs : Synced(s, u, r) \in Url
  BY <1>1 DEF Synced, Url, Refs
<1>. QED BY <1>2, <1>3, <1>4, <1>5, <1>6

LEMMA StateAfterType ==
    ASSUME NEW s \in State, NEW u \in Url, NEW r \in Refs, NEW loads \in BOOLEAN
    PROVE StateAfter(s, u, r, loads) \in State
<1>1. s.active \in Channel \cup {None} /\ s.query \in Query /\ s.rows \in Seq(Channel)
      /\ u.channel \in Channel \cup {None} /\ u.query \in Query /\ s.loading \in BOOLEAN
  BY DEF State, Url
<1>2. ActiveAfter(s, u, r) \in Channel \cup {None}
  BY <1>1, PreferredType DEF ActiveAfter
<1>3. \A q \in Query : [q EXCEPT !.page = 1] \in Query
  BY BoundAssumption DEF Query, Page
<1>. QED BY <1>1, <1>2, <1>3, BoundAssumption DEF StateAfter, State, Query, Page

LEMMA OpenedType ==
    ASSUME NEW r \in Flight, NEW s \in State PROVE Opened(r, s) \in State
BY DEF Opened, Flight, State

LEMMA LoadType ==
    ASSUME TypeOK, NEW q \in Query, NEW then \in Channel \cup {None}, Load(q, then)
    PROVE flight' \subseteq Flight /\ due' \in Query
<1>1. flight \subseteq Flight
  BY DEF TypeOK, Flight
<1>2. \A r \in Flight : [r EXCEPT !.latest = FALSE] \in Flight
  BY DEF Flight
<1>3. Overtaken \subseteq Flight
  BY <1>1, <1>2 DEF Overtaken
<1>4. [query |-> q, latest |-> TRUE, then |-> then] \in Flight
  BY DEF Flight
<1>. QED BY <1>3, <1>4 DEF Load

LEMMA InitTypeOK == Init => TypeOK
<1>. SUFFICES ASSUME Init PROVE TypeOK
  OBVIOUS
<1>1. StateAt(router) \in State
  BY EmptySeq DEF Init, StateAt, State, Url
<1>2. chats \subseteq Channel
  BY DEF Init
<1>3. refs \in Refs
  BY DefaultIsQuery DEF Init, Url, Refs
<1>4. asked \in [by : {"link", "filters", "pick", "none"}, url : Url]
  BY DEF Init, Asked
<1>5. moves \in 0 .. MaxMoves
  BY BoundAssumption DEF Init
<1>6. router \in Url /\ state = StateAt(router) /\ shown = None /\ fresh = FALSE
      /\ flight = {} /\ awaiting = {} /\ due = None /\ listed = None
  BY DEF Init
<1>. QED BY <1>1, <1>2, <1>3, <1>4, <1>5, <1>6 DEF TypeOK, Refs

LEMMA RenderType == ASSUME TypeOK, NEW u \in Url, RenderAt(u) PROVE TypeOK'
<1>. DEFINE r == RefsFromUrl(state, u, RememberRequested(state, u))
            loads == First \/ shown.state.query # state.query
<1>0. state \in State /\ state.query \in Query /\ router \in Url
  BY DEF TypeOK, State
<1>1. r \in Refs /\ RefsSettled(state, RefsHydrated(state, r)) \in Refs /\ Synced(state, u, r) \in Url
  BY <1>0, RefsType
<1>. HIDE DEF r
<1>2. /\ state' = StateAfter(state, u, r, loads)
      /\ shown' = [state |-> state, url |-> u] /\ fresh' = FALSE
      /\ refs' = RefsSettled(state, RefsHydrated(state, r))
      /\ IF loads THEN Load(state.query, None) ELSE UNCHANGED <<flight, due>>
      /\ router' \in {Synced(state, u, r), router}
      /\ UNCHANGED <<awaiting, chats, moves, asked, listed>>
  BY DEF RenderAt, r
<1>3. loads \in BOOLEAN
  OBVIOUS
<1>. HIDE DEF loads
<1>4. state' \in State
  BY <1>0, <1>1, <1>2, <1>3, StateAfterType
<1>5. flight' \subseteq Flight /\ due' \in Query \cup {None}
  BY <1>0, <1>2, <1>3, LoadType DEF TypeOK, Flight
<1>. QED BY <1>0, <1>1, <1>2, <1>4, <1>5 DEF TypeOK, View, Refs, Flight

LEMMA AnswerType == ASSUME TypeOK, NEW r \in flight, Answer(r) \/ Fail(r) PROVE TypeOK'
<1>1. r \in Flight /\ r.query \in Query /\ state \in State /\ state.rows \in Seq(Channel)
      /\ router \in Url /\ asked.url \in Url /\ chats \subseteq Channel
  BY DEF TypeOK, Flight, State
<1>2. [state EXCEPT !.loading = FALSE] \in State
  BY <1>1 DEF State
<1>3. /\ AskedAfter(r) \in [by : {"link", "filters", "pick", "none"}, url : Url]
      /\ Asked("filters", asked.url) \in [by : {"link", "filters", "pick", "none"}, url : Url]
  BY <1>1 DEF AskedAfter, Asked, TypeOK
<1>4. CASE Answer(r)
  <2>. DEFINE rows == Listing(r.query)
              s == [state EXCEPT !.rows = rows, !.total = Len(Found[chats][r.query.filter]),
                                 !.active = Preferred(rows, @, refs.requested), !.loading = FALSE]
  <2>1. rows \in Seq(Channel) /\ Len(Found[chats][r.query.filter]) \in Nat
    BY <1>1, ListingType, FoundType, LenProperties
  <2>2. Preferred(rows, state.active, refs.requested) \in Channel \cup {None}
    <3>. HIDE DEF rows
    <3>. QED BY <1>1, <2>1, PreferredType DEF State
  <2>3. s \in State
    <3>. HIDE DEF rows
    <3>. QED BY <1>1, <2>1, <2>2 DEF State
  <2>4. state' \in {Opened(r, s), Opened(r, state)}
    BY <1>4 DEF Answer
  <2>. HIDE DEF s
  <2>5. state' \in State
    BY <1>1, <2>3, <2>4, OpenedType
  <2>. QED BY <1>1, <1>3, <1>4, <2>5 DEF Answer, TypeOK
<1>5. CASE Fail(r)
  <2>1. state' \in State
    BY <1>1, <1>2, <1>5, OpenedType DEF Fail
  <2>2. due' \in Query \cup {None} /\ moves' \in 0 .. MaxMoves
    BY <1>5, BoundAssumption DEF Fail, TypeOK
  <2>3. UNCHANGED <<fresh, shown, router, refs, awaiting, chats, listed>> /\ flight' \subseteq flight
        /\ asked' = AskedAfter(r)
    BY <1>5 DEF Fail
  <2>. QED BY <1>3, <2>1, <2>2, <2>3 DEF TypeOK
<1>. QED BY <1>4, <1>5

LEMMA StepTypeOK == TypeOK /\ [Next]_vars => TypeOK'
<1>. SUFFICES ASSUME TypeOK, [Next]_vars PROVE TypeOK'
  OBVIOUS
<1>0. /\ state \in State /\ state.query \in Query /\ state.rows \in Seq(Channel) /\ router \in Url
      /\ router.query \in Query /\ router.channel \in Channel \cup {None}
      /\ moves \in Nat /\ MaxMoves \in Nat
  BY BoundAssumption DEF TypeOK, State, Url
<1>00. [state EXCEPT !.loading = TRUE] \in State
  BY <1>0 DEF State
<1>1. CASE Render
  BY <1>0, <1>1, RenderType DEF Render
<1>2. CASE RenderFirst
  <2>1. shown.url \in Url
    BY <1>2 DEF RenderFirst, First, TypeOK, View
  <2>. QED BY <1>2, <2>1, RenderType DEF RenderFirst
<1>3. ASSUME NEW r \in flight, Answer(r) \/ Fail(r) PROVE TypeOK'
  BY <1>3, AnswerType
<1>4. ASSUME NEW c \in Channel, SelectChannel(c) PROVE TypeOK'
  <2>1. [router EXCEPT !.channel = c] \in Url /\ [state EXCEPT !.active = c] \in State
    BY <1>0 DEF Url, State
  <2>. QED BY <1>0, <1>4, <2>1 DEF SelectChannel, Move, Asked, TypeOK
<1>5. ASSUME NEW c \in Channel, CreateChat(c) PROVE TypeOK'
  BY <1>0, <1>5 DEF CreateChat, Move, Asked, TypeOK
<1>6. CASE StartFreshChat
  <2>1. [state EXCEPT !.active = None] \in State
    BY <1>0 DEF State
  <2>. QED BY <1>0, <1>6, <2>1 DEF StartFreshChat, Move, Asked, TypeOK
<1>7. CASE SocketEvent
  <2>1. shown.state.query \in Query
    BY <1>0, <1>7 DEF SocketEvent, Rendered
  <2>2. flight' \subseteq Flight /\ due' \in Query
    BY <1>7, <2>1, LoadType DEF SocketEvent
  <2>. QED BY <1>0, <1>00, <1>7, <2>2 DEF SocketEvent, TypeOK, Flight
<1>8. CASE CallApi
  BY <1>0, <1>8 DEF CallApi, Move, TypeOK
<1>9. ASSUME NEW f \in Filter, ChangeFilter(f) PROVE TypeOK'
  <2>1. [state EXCEPT !.query.filter = f] \in State
    BY <1>0 DEF State, Query
  <2>. QED BY <1>0, <1>9, <2>1 DEF ChangeFilter, Move, Asked, TypeOK
<1>10. ASSUME NEW p \in Page, ChangePage(p) PROVE TypeOK'
  <2>1. [state EXCEPT !.query.page = p] \in State
    BY <1>0 DEF State, Query
  <2>. QED BY <1>0, <1>10, <2>1 DEF ChangePage, Move, Asked, TypeOK
<1>11. ASSUME NEW u \in Url, Navigate(u) PROVE TypeOK'
  BY <1>0, <1>11 DEF Navigate, Move, Asked, TypeOK
<1>12. ASSUME NEW a \in awaiting, ApiAnswers(a) PROVE TypeOK'
  <2>1. a.query \in Query /\ a.new \in Channel \cup {None}
    BY DEF TypeOK
  <2>2. flight' \subseteq Flight /\ due' \in Query
    BY <1>12, <2>1, LoadType DEF ApiAnswers
  <2>. QED BY <1>0, <1>00, <1>12, <2>2 DEF ApiAnswers, TypeOK, Flight
<1>13. CASE UNCHANGED vars
  BY <1>13 DEF vars, page, history, TypeOK
<1>. QED BY <1>1, <1>2, <1>3, <1>4, <1>5, <1>6, <1>7, <1>8, <1>9, <1>10, <1>11, <1>12, <1>13 DEF Next

\* The chat page (Chat.tsx) keeps the shape of its state, its refs and its
\* requests, whatever the effects, answers and links do; a page number is a
\* page.
THEOREM TypeCorrect == Spec => []TypeOK
BY InitTypeOK, StepTypeOK, PTL DEF Spec

-----------------------------------------------------------------------------
(* The list that is shown.                                                 *)

\* The parts of the state that decide which answer is shown.
Shape == /\ {"query", "loading"} \subseteq DOMAIN state /\ state.loading \in BOOLEAN
         /\ \A r \in flight : {"query", "latest"} \subseteq DOMAIN r /\ r.latest \in BOOLEAN

\* Of the requests under way at most one counts, and it is for what is due.
OneCounts == /\ \A r, q \in flight : r.latest /\ q.latest => r = q
             /\ \A r \in flight : r.latest => r.query = due

LInv == Shape /\ OneCounts /\ LatestLoadWins

-----------------------------------------------------------------------------
LEMMA InitLInv == Init => LInv
BY DEF Init, StateAt, LInv, Shape, OneCounts, LatestLoadWins

\* A request that is sent overtakes all others.
LEMMA LoadKeeps ==
    ASSUME LInv, NEW q, NEW then, Load(q, then),
           {"query", "loading"} \subseteq DOMAIN state', state'.loading = TRUE
    PROVE LInv'
<1>1. \A r \in Overtaken : {"query", "latest"} \subseteq DOMAIN r /\ r.latest = FALSE
  BY DEF Overtaken, LInv, Shape
<1>2. PICK new : /\ flight' = Overtaken \cup {new} /\ due' = q
                 /\ {"query", "latest"} \subseteq DOMAIN new /\ new.latest = TRUE /\ new.query = q
  <2>. DEFINE new == [query |-> q, latest |-> TRUE, then |-> then]
  <2>1. flight' = Overtaken \cup {new} /\ due' = q
    BY DEF Load
  <2>2. {"query", "latest"} \subseteq DOMAIN new /\ new.latest = TRUE /\ new.query = q
    OBVIOUS
  <2>. HIDE DEF new
  <2>. QED BY <2>1, <2>2
<1>3. Shape'
  BY <1>1, <1>2 DEF Shape
<1>4. OneCounts'
  BY <1>1, <1>2 DEF OneCounts
<1>. QED BY <1>3, <1>4 DEF LInv, LatestLoadWins

\* What neither loads nor is an answer.
LEMMA OthersKeep ==
    ASSUME LInv, UNCHANGED <<flight, due, listed>>,
           {"query", "loading"} \subseteq DOMAIN state', state'.loading = state.loading
    PROVE LInv'
BY DEF LInv, Shape, OneCounts, LatestLoadWins

\* An answer, and a failure, of the request that counts or of another.
LEMMA OpenedKeeps ==
    ASSUME NEW r, NEW s, {"query", "loading"} \subseteq DOMAIN s
    PROVE {"query", "loading"} \subseteq DOMAIN Opened(r, s) /\ Opened(r, s).loading = s.loading
BY DEF Opened

LEMMA AnswerKeeps == ASSUME LInv, NEW r \in flight, Answer(r) PROVE LInv'
<1>1. flight' = flight \ {r} /\ due' = due
  BY DEF Answer
<1>2. CASE r.latest
  <2>1. listed' = due
    BY <1>2 DEF Answer, Counts, LInv, OneCounts
  <2>2. {"query", "loading"} \subseteq DOMAIN state' /\ state'.loading = FALSE
    BY <1>2, OpenedKeeps DEF Answer, Counts, LInv, Shape
  <2>. QED BY <1>1, <2>1, <2>2 DEF LInv, Shape, OneCounts, LatestLoadWins
<1>3. CASE ~r.latest
  <2>1. listed' = listed
    BY <1>3 DEF Answer, Counts
  <2>2. {"query", "loading"} \subseteq DOMAIN state' /\ state'.loading = state.loading
    BY <1>3, OpenedKeeps DEF Answer, Counts, LInv, Shape
  <2>. QED BY <1>1, <2>1, <2>2 DEF LInv, Shape, OneCounts, LatestLoadWins
<1>. QED BY <1>2, <1>3 DEF LInv, Shape

LEMMA FailKeeps == ASSUME LInv, NEW r \in flight, Fail(r) PROVE LInv'
<1>1. flight' = flight \ {r} /\ listed' = listed
  BY DEF Fail
<1>2. CASE r.latest
  <2>1. due' = listed
    BY <1>2 DEF Fail, Counts
  <2>2. \A q \in flight' : ~q.latest
    BY <1>1, <1>2 DEF LInv, OneCounts
  <2>3. {"query", "loading"} \subseteq DOMAIN state' /\ state'.loading = FALSE
    BY <1>2, OpenedKeeps DEF Fail, Counts, LInv, Shape
  <2>. QED BY <1>1, <2>1, <2>2, <2>3 DEF LInv, Shape, OneCounts, LatestLoadWins
<1>3. CASE ~r.latest
  <2>1. due' = due
    BY <1>3 DEF Fail, Counts
  <2>2. {"query", "loading"} \subseteq DOMAIN state' /\ state'.loading = state.loading
    BY <1>3, OpenedKeeps DEF Fail, Counts, LInv, Shape
  <2>. QED BY <1>1, <2>1, <2>2 DEF LInv, Shape, OneCounts, LatestLoadWins
<1>. QED BY <1>2, <1>3 DEF LInv, Shape

LEMMA RenderKeeps == ASSUME LInv, NEW u, RenderAt(u) PROVE LInv'
<1>. DEFINE r == RefsFromUrl(state, u, RememberRequested(state, u))
            loads == First \/ shown.state.query # state.query
<1>1. /\ state' = StateAfter(state, u, r, loads) /\ listed' = listed
      /\ IF loads THEN Load(state.query, None) ELSE UNCHANGED <<flight, due>>
  BY DEF RenderAt
<1>2. {"query", "loading"} \subseteq DOMAIN state' /\ state'.loading = (state.loading \/ loads)
  <2>. HIDE DEF r, loads
  <2>. QED BY <1>1 DEF StateAfter, LInv, Shape
<1>3. CASE loads
  BY <1>1, <1>2, <1>3, LoadKeeps DEF LInv, Shape
<1>4. CASE ~loads
  BY <1>1, <1>2, <1>4, OthersKeep DEF LInv, Shape
<1>. QED BY <1>3, <1>4

LEMMA StepLInv == LInv /\ [Next]_vars => LInv'
<1>. SUFFICES ASSUME LInv, [Next]_vars PROVE LInv'
  OBVIOUS
<1>1. CASE Render \/ RenderFirst
  BY <1>1, RenderKeeps DEF Render, RenderFirst
<1>2. ASSUME NEW r \in flight, Answer(r) \/ Fail(r) PROVE LInv'
  BY <1>2, AnswerKeeps, FailKeeps
<1>3. ASSUME NEW c \in Channel, SelectChannel(c) \/ CreateChat(c) PROVE LInv'
  BY <1>3, OthersKeep DEF SelectChannel, CreateChat, Move, LInv, Shape
<1>4. CASE StartFreshChat \/ CallApi
  BY <1>4, OthersKeep DEF StartFreshChat, CallApi, Move, LInv, Shape
<1>5. CASE SocketEvent
  <2>1. state' = [state EXCEPT !.loading = TRUE] /\ Load(shown.state.query, None)
    BY <1>5 DEF SocketEvent
  <2>. QED BY <2>1, LoadKeeps DEF LInv, Shape
<1>6. ASSUME NEW f \in Filter, ChangeFilter(f) PROVE LInv'
  BY <1>6, OthersKeep DEF ChangeFilter, Move, LInv, Shape
<1>7. ASSUME NEW p \in Page, ChangePage(p) PROVE LInv'
  BY <1>7, OthersKeep DEF ChangePage, Move, LInv, Shape
<1>8. ASSUME NEW u \in Url, Navigate(u) PROVE LInv'
  BY <1>8, OthersKeep DEF Navigate, Move, LInv, Shape
<1>9. ASSUME NEW a \in awaiting, ApiAnswers(a) PROVE LInv'
  <2>1. state' = [state EXCEPT !.loading = TRUE] /\ Load(a.query, a.new)
    BY <1>9 DEF ApiAnswers
  <2>. QED BY <2>1, LoadKeeps DEF LInv, Shape
<1>10. CASE UNCHANGED vars
  BY <1>10, OthersKeep DEF vars, page, history, LInv, Shape
<1>. QED BY <1>1, <1>2, <1>3, <1>4, <1>5, <1>6, <1>7, <1>8, <1>9, <1>10 DEF Next

\* loadChannels (Chat.tsx) compares request ids: whatever the effects, the
\* socket and the handlers send, and in whatever order the answers come, the
\* list that is shown as loaded is the answer to the last request that did not
\* fail.
THEOREM LatestLoad == Spec => []LatestLoadWins
BY InitLInv, StepLInv, PTL DEF Spec, LInv

-----------------------------------------------------------------------------
(* State and URL.                                                          *)

\* A page that has rendered everything has the filters of its URL.
SameQuery == Rendered => state.query = router.query

\* What is shown as loading waits for an answer that counts.
LoadOnItsWay == ~First /\ state.loading => \E r \in flight : r.latest

\* The last render left everything as it found it: no effect had anything to
\* do.  (The filters may have changed since the render before.)
AtRest == /\ ~First /\ ~fresh /\ router = shown.url /\ state.query = router.query
          /\ state.active = shown.state.active /\ state.loading = shown.state.loading

Agreed == \/ state.rows = <<>>
          \/ state.active = router.channel
          \/ router.channel # None /\ state.loading

\* Then the URL names no other chat, unless the list is empty or loading, and
\* if the filters are as they were, state and URL name the same one.
Undisturbed == AtRest => /\ ChannelWanted(state, router) => state.rows = <<>> \/ state.loading
                         /\ state.query = shown.state.query => Agreed

AgreeInv == SameQuery /\ LoadOnItsWay /\ Undisturbed

LEMMA AgreeImpliesRest == TypeOK /\ AgreeInv => RestAgrees
<1>. SUFFICES ASSUME TypeOK, AgreeInv, Quiet
              PROVE state.query = router.query /\ (state.rows = <<>> \/ state.active = router.channel)
  BY DEF RestAgrees
<1>1. Rendered /\ flight = {}
  BY DEF Quiet
<1>2. ~First
  BY <1>1, NoneAssumption DEF Rendered, First, TypeOK, View
<1>3. state.query = router.query /\ ~state.loading
  BY <1>1, <1>2 DEF AgreeInv, SameQuery, LoadOnItsWay
<1>4. AtRest /\ state.query = shown.state.query
  BY <1>1, <1>2, <1>3 DEF AtRest, Rendered
<1>. QED BY <1>3, <1>4 DEF AgreeInv, Undisturbed, Agreed

LEMMA InitAgree == Init => AgreeInv
<1>. SUFFICES ASSUME Init PROVE AgreeInv
  OBVIOUS
<1>1. First /\ state.query = router.query
  BY DEF Init, First, StateAt
<1>. QED BY <1>1 DEF AgreeInv, SameQuery, LoadOnItsWay, Undisturbed, AtRest

\* What the effects of a render at URL u do to the open chat and the filters,
\* and when they write the URL; r is what they leave in the refs before that.
Effects(u, r) ==
    /\ Differs(state, u) => r.applying /\ r.pending = u.query
    /\ ~Differs(state, u) => ~r.applying /\ r.pending = DefaultQuery
    /\ shown' = [state |-> state, url |-> u] /\ ~First' /\ fresh' = FALSE
    /\ state'.active = ActiveAfter(state, u, r) /\ state'.rows = state.rows
    /\ Differs(state, u) => state'.query = u.query
    /\ RefsHydrated(state, r).pending = r.pending
    /\ router' = IF Navigates(state, u, RefsHydrated(state, r)) THEN Synced(state, u, r) ELSE router
    /\ Synced(state, u, RefsHydrated(state, r)) = Synced(state, u, r)
    /\ Synced(state, u, r).query = state.query
    /\ state.active # None => Synced(state, u, r).channel = state.active
    /\ UNCHANGED <<chats, asked>>

LEMMA RenderEffects ==
    ASSUME TypeOK, NEW u \in Url, RenderAt(u) PROVE \E r \in Refs : Effects(u, r)
<1>. DEFINE r == RefsFromUrl(state, u, RememberRequested(state, u))
<1>1. state \in State /\ u.channel \in Channel \cup {None} /\ u.query \in Query
  BY DEF TypeOK, Url
<1>2. r \in Refs
  BY <1>1, RefsType
<1>3. RememberRequested(state, u) \in Refs
  BY <1>1 DEF RememberRequested, TypeOK, Refs
<1>4. /\ Differs(state, u) => r.applying /\ r.pending = u.query
      /\ ~Differs(state, u) => ~r.applying /\ r.pending = DefaultQuery
  <2>. DEFINE q == RememberRequested(state, u)
  <2>. HIDE DEF q
  <2>1. q \in Refs
    BY <1>3 DEF q
  <2>2. r = RefsFromUrl(state, u, q)
    BY DEF q
  <2>. QED BY <2>1, <2>2 DEF RefsFromUrl, Refs
<1>. HIDE DEF r
<1>5. /\ shown' = [state |-> state, url |-> u] /\ fresh' = FALSE
      /\ state' = StateAfter(state, u, r, First \/ shown.state.query # state.query)
      /\ router' = IF Navigates(state, u, RefsHydrated(state, r)) THEN Synced(state, u, r) ELSE router
      /\ UNCHANGED <<chats, asked>>
  BY DEF RenderAt, r
<1>6. ~First'
  BY <1>1, <1>5, NoneAssumption DEF First, View
<1>7. /\ state'.active = ActiveAfter(state, u, r) /\ state'.rows = state.rows
      /\ Differs(state, u) => state'.query = u.query
  <2>1. state'.active = ActiveAfter(state, u, r) /\ state'.rows = state.rows
    BY <1>1, <1>5 DEF StateAfter, State
  <2>2. ASSUME Differs(state, u) PROVE state'.query = u.query
    <3>1. ~ResetsPage(state, r)
      BY <1>4, <2>2 DEF ResetsPage
    <3>. QED BY <1>1, <1>5, <2>2, <3>1 DEF StateAfter, State
  <2>. QED BY <2>1, <2>2
<1>8. /\ RefsHydrated(state, r).pending = r.pending
      /\ RefsHydrated(state, r).requested = r.requested
  BY <1>2 DEF RefsHydrated, Refs
<1>9. /\ Synced(state, u, RefsHydrated(state, r)) = Synced(state, u, r)
      /\ Synced(state, u, r).query = state.query
      /\ state.active # None => Synced(state, u, r).channel = state.active
  BY <1>8 DEF Synced
<1>. QED BY <1>2, <1>4, <1>5, <1>6, <1>7, <1>8, <1>9 DEF Effects

\* A render that changes neither the filters, nor the open chat, nor the URL
\* leaves the page as Undisturbed says.
LEMMA RenderAgrees ==
    ASSUME TypeOK, AgreeInv, NEW u \in Url, RenderAt(u) PROVE SameQuery' /\ Undisturbed'
<1>. PICK r \in Refs : Effects(u, r)
  BY RenderEffects
<1>. DEFINE hr == RefsHydrated(state, r)
            Ran == OpenChanged(state, u) \/ ListChanged \/ LoadingChanged(state) \/ UrlChanged(u)
<1>. USE DEF Effects
<1>0. /\ state.active \in Channel \cup {None} /\ state.rows \in Seq(Channel)
      /\ u.channel \in Channel \cup {None} /\ ToSet(state.rows) \subseteq Channel
  BY PreferredType DEF TypeOK, State, Url
<1>1. SameQuery'
  BY DEF SameQuery, Rendered, Differs
<1>2. ASSUME AtRest'
      PROVE /\ ChannelWanted(state', router') => state'.rows = <<>> \/ state'.loading
            /\ state'.query = shown'.state.query => Agreed'
  <2>1. /\ router' = u /\ ~Navigates(state, u, hr) /\ u = router /\ state'.query = u.query
        /\ ActiveAfter(state, u, r) = state.active /\ state'.active = state.active
        /\ state'.loading = state.loading
    BY <1>2 DEF AtRest, Navigates
  <2>. SUFFICES /\ ChannelWanted(state, u) /\ state.rows # <<>> => state.loading
                /\ state.query = u.query /\ state.rows # <<>> /\ state.active # u.channel
                     => u.channel # None /\ state.loading
    BY <2>1 DEF Agreed, ChannelWanted
  <2>2. CASE Differs(state, u)
    BY <2>1, <2>2 DEF ActiveAfter, LeavesOpen, OpenListed, ChannelWanted, Differs
  <2>3. CASE ~Differs(state, u) /\ Ran
    <3>1. ChannelWanted(state, u) /\ state.rows # <<>> => state.loading
      <4>. SUFFICES ASSUME ChannelWanted(state, u), state.rows # <<>>, ~state.loading PROVE FALSE
        OBVIOUS
      <4>1. ~OpenListed(state, u)
        BY <2>1 DEF ActiveAfter, ChannelWanted
      <4>2. CASE state.active \notin ToSet(state.rows)
        <5>1. LeavesOpen(state, u, r)
          BY <2>3, <4>2 DEF LeavesOpen, ChannelWanted
        <5>2. Preferred(state.rows, state.active, r.requested) # state.active
          BY <1>0, <4>2, PreferredType
        <5>. QED BY <2>1, <4>1, <5>1, <5>2 DEF ActiveAfter
      <4>3. CASE state.active \in ToSet(state.rows)
        <5>1. ~OpenRequested(state, u)
          BY <2>1, <4>1, <4>3 DEF ActiveAfter, LeavesOpen, ChannelWanted
        <5>2. u.channel \notin ToSet(state.rows)
          BY <2>3, <5>1 DEF OpenRequested
        <5>3. Synced(state, u, r) # u
          BY <1>0, <4>3, NoneAssumption DEF ChannelWanted
        <5>. QED BY <2>1, <2>3, <5>2, <5>3 DEF Navigates
      <4>. QED BY <4>2, <4>3
    <3>2. state.active # u.channel /\ u.channel = None => FALSE
      BY <2>1, <2>3 DEF Navigates, ChannelWanted
    <3>. QED BY <3>1, <3>2 DEF ChannelWanted
  <2>4. CASE ~Differs(state, u) /\ ~Ran
    <3>1. AtRest
      BY <2>1, <2>4 DEF AtRest, Differs, OpenChanged, ListChanged, LoadingChanged, UrlChanged
    <3>2. ChannelWanted(state, u) => state.rows = <<>> \/ state.loading
      BY <2>1, <3>1 DEF AgreeInv, Undisturbed
    <3>3. CASE state.query = shown.state.query
      BY <2>1, <3>1, <3>2, <3>3 DEF AgreeInv, Undisturbed, Agreed, ChannelWanted
    <3>4. CASE state.query # shown.state.query
      <4>1. state.active # u.channel /\ u.channel = None => FALSE
        BY <2>1, <2>4, <3>4 DEF Navigates, ChannelWanted
      <4>. QED BY <3>2, <4>1 DEF ChannelWanted
    <3>. QED BY <3>3, <3>4
  <2>. QED BY <2>2, <2>3, <2>4
<1>. QED BY <1>1, <1>2 DEF Undisturbed

\* Everything else comes to a page that is rendered.
LEMMA OthersAgree ==
    ASSUME TypeOK, AgreeInv, Rendered, shown' = shown, fresh' \in BOOLEAN, fresh' \/ state'.rows = state.rows
    PROVE SameQuery' /\ Undisturbed'
<1>1. shown = [state |-> state, url |-> router] /\ ~fresh /\ state.query = router.query
  BY DEF Rendered, AgreeInv, SameQuery
<1>2. ~First
  BY <1>1, NoneAssumption DEF First, TypeOK, View
<1>3. SameQuery'
  BY <1>1 DEF SameQuery, Rendered
<1>4. ASSUME AtRest'
      PROVE /\ AtRest /\ state.query = shown.state.query /\ router' = router /\ state'.rows = state.rows
            /\ state'.active = state.active /\ state'.loading = state.loading
            /\ state'.query = state.query
  BY <1>1, <1>2, <1>4 DEF AtRest
<1>. QED BY <1>3, <1>4 DEF AgreeInv, Undisturbed, Agreed, ChannelWanted

LEMMA LoadWaits ==
    ASSUME NEW q, NEW then, Load(q, then) PROVE \E r \in flight' : r.latest
<1>. DEFINE r == [query |-> q, latest |-> TRUE, then |-> then]
<1>1. r \in flight' /\ r.latest
  BY DEF Load
<1>. QED BY <1>1

\* What an answer and a failure do to the state.
LEMMA AnswerEffect ==
    ASSUME TypeOK, NEW r \in flight, Answer(r)
    PROVE /\ r \in Flight /\ state'.query = state.query
          /\ state'.loading = (state.loading /\ ~r.latest)
          /\ r.latest => state'.rows = Listing(r.query) /\ fresh' = TRUE
          /\ ~r.latest => state'.rows = state.rows /\ fresh' = fresh
          /\ ~r.latest /\ r.then = None => state' = state
<1>. DEFINE s == [state EXCEPT !.rows = Listing(r.query), !.total = Len(Found[chats][r.query.filter]),
                               !.active = Preferred(Listing(r.query), @, refs.requested), !.loading = FALSE]
<1>0. state \in State /\ r \in Flight /\ fresh \in BOOLEAN
  BY DEF TypeOK, Flight
<1>1. /\ s.query = state.query /\ s.loading = FALSE /\ s.rows = Listing(r.query)
      /\ {"active", "query", "loading", "rows"} \subseteq DOMAIN s
  BY <1>0 DEF State
<1>2. state' = Opened(r, IF Counts(r) THEN s ELSE state) /\ fresh' = (fresh \/ Counts(r))
  BY DEF Answer
<1>. HIDE DEF s
<1>3. \A t : {"active", "query", "loading", "rows"} \subseteq DOMAIN t =>
          /\ Opened(r, t).query = t.query /\ Opened(r, t).loading = t.loading /\ Opened(r, t).rows = t.rows
  BY DEF Opened
<1>4. /\ {"active", "query", "loading", "rows"} \subseteq DOMAIN state
      /\ r.latest \in BOOLEAN /\ state.loading \in BOOLEAN
  BY <1>0 DEF State, Flight
<1>5. CASE r.latest
  BY <1>0, <1>1, <1>2, <1>3, <1>4, <1>5 DEF Counts
<1>6. CASE ~r.latest
  BY <1>0, <1>2, <1>3, <1>4, <1>6 DEF Counts, Opened
<1>. QED BY <1>4, <1>5, <1>6

LEMMA FailEffect ==
    ASSUME TypeOK, NEW r \in flight, Fail(r)
    PROVE /\ r \in Flight /\ state'.query = state.query /\ state'.rows = state.rows /\ fresh' = fresh
          /\ state'.loading = (state.loading /\ ~r.latest)
          /\ r.then = None => state'.active = state.active
<1>1. state \in State /\ r \in Flight
  BY DEF TypeOK, Flight
<1>2. CASE r.latest
  BY <1>1, <1>2 DEF Fail, Opened, Counts, State, Flight
<1>3. CASE ~r.latest
  BY <1>1, <1>3 DEF Fail, Opened, Counts, State, Flight
<1>. QED BY <1>2, <1>3

LEMMA StepAgree == TypeOK /\ AgreeInv /\ [Next]_vars => AgreeInv'
<1>. SUFFICES ASSUME TypeOK, AgreeInv, [Next]_vars PROVE AgreeInv'
  OBVIOUS
<1>0. state \in State /\ router \in Url
  BY DEF TypeOK
<1>1. ASSUME NEW u \in Url, RenderAt(u) PROVE AgreeInv'
  <2>1. SameQuery' /\ Undisturbed'
    BY <1>1, RenderAgrees
  <2>2. CASE First \/ shown.state.query # state.query
    BY <1>1, <2>1, <2>2, LoadWaits DEF RenderAt, AgreeInv, LoadOnItsWay
  <2>3. CASE ~(First \/ shown.state.query # state.query)
    <3>1. flight' = flight
      BY <1>1, <2>3 DEF RenderAt
    <3>2. state'.loading = state.loading
      BY <1>0, <1>1, <2>3 DEF RenderAt, StateAfter, State
    <3>. QED BY <2>1, <2>3, <3>1, <3>2 DEF AgreeInv, LoadOnItsWay
  <2>. QED BY <2>2, <2>3
<1>2. CASE Render
  BY <1>0, <1>1, <1>2 DEF Render
<1>3. CASE RenderFirst
  <2>1. shown.url \in Url
    BY <1>3 DEF RenderFirst, First, TypeOK, View
  <2>. QED BY <1>1, <1>3, <2>1 DEF RenderFirst
<1>4. ASSUME NEW r \in flight, Answer(r) \/ Fail(r) PROVE AgreeInv'
  <2>1. Rendered /\ shown' = shown /\ flight' = flight \ {r} /\ r.latest \in BOOLEAN /\ fresh \in BOOLEAN
    BY <1>4 DEF Answer, Fail, TypeOK
  <2>2. /\ state'.loading = (state.loading /\ ~r.latest)
        /\ fresh' = TRUE \/ (fresh' = fresh /\ state'.rows = state.rows)
    <3>1. CASE Answer(r)
      BY <2>1, <3>1, AnswerEffect
    <3>2. CASE Fail(r)
      BY <2>1, <3>2, FailEffect
    <3>. QED BY <1>4, <3>1, <3>2
  <2>3. SameQuery' /\ Undisturbed'
    BY <2>1, <2>2, OthersAgree
  <2>4. LoadOnItsWay'
    BY <2>1, <2>2 DEF AgreeInv, LoadOnItsWay, First
  <2>. QED BY <2>3, <2>4 DEF AgreeInv
<1>5. ASSUME Rendered, UNCHANGED <<shown, fresh>>, state'.rows = state.rows,
             \/ state'.loading = state.loading /\ flight' = flight
             \/ \E q, then : Load(q, then)
      PROVE AgreeInv'
  <2>1. SameQuery' /\ Undisturbed'
    BY <1>5, OthersAgree DEF TypeOK
  <2>2. LoadOnItsWay'
    BY <1>5, LoadWaits DEF AgreeInv, LoadOnItsWay, First
  <2>. QED BY <2>1, <2>2 DEF AgreeInv
<1>6. ASSUME NEW c \in Channel, SelectChannel(c) \/ CreateChat(c) PROVE AgreeInv'
  BY <1>0, <1>5, <1>6 DEF SelectChannel, CreateChat, Move, State
<1>7. CASE StartFreshChat \/ CallApi
  BY <1>0, <1>5, <1>7 DEF StartFreshChat, CallApi, Move, State
<1>8. CASE SocketEvent
  BY <1>0, <1>5, <1>8 DEF SocketEvent, State
<1>9. ASSUME NEW f \in Filter, ChangeFilter(f) PROVE AgreeInv'
  BY <1>0, <1>5, <1>9 DEF ChangeFilter, Move, State
<1>10. ASSUME NEW p \in Page, ChangePage(p) PROVE AgreeInv'
  BY <1>0, <1>5, <1>10 DEF ChangePage, Move, State
<1>11. ASSUME NEW u \in Url, Navigate(u) PROVE AgreeInv'
  BY <1>0, <1>5, <1>11 DEF Navigate, Move, State
<1>12. ASSUME NEW a \in awaiting, ApiAnswers(a) PROVE AgreeInv'
  BY <1>0, <1>5, <1>12 DEF ApiAnswers, State
<1>13. CASE UNCHANGED vars
  <2>1. UNCHANGED <<state, fresh, shown, router, flight>>
    BY <1>13 DEF vars, page
  <2>. QED
    BY <2>1 DEF AgreeInv, SameQuery, Rendered, LoadOnItsWay, First, Undisturbed, AtRest, ChannelWanted,
                Agreed
<1>. QED BY <1>2, <1>3, <1>4, <1>6, <1>7, <1>8, <1>9, <1>10, <1>11, <1>12, <1>13 DEF Next

\* The nine effects of Chat.tsx end in agreement: whenever a page is at rest,
\* whatever led there, its filters are those of its URL, and the chat it shows
\* is the one the URL names, unless the list is empty.
THEOREM RestInAgreement == Spec => []RestAgrees
<1>1. TypeOK /\ AgreeInv /\ [Next]_vars => (TypeOK /\ AgreeInv)'
  BY StepTypeOK, StepAgree
<1>. QED BY InitTypeOK, InitAgree, AgreeImpliesRest, <1>1, PTL DEF Spec

-----------------------------------------------------------------------------
(* Links.                                                                  *)

\* The last thing the user did is to follow a link that has filters.
Linked == asked.by \in {"link", "filters"} /\ asked.url.query # DefaultQuery

\* It was followed just now: nothing has been rendered since.
JustFollowed == ~First /\ shown.state = state /\ ~fresh /\ shown.url # router

\* The URL keeps the filters of the link, and so does what is rendered.
FiltersKept == Linked => /\ router.query = asked.url.query
                         /\ First \/ shown.url.query = asked.url.query \/ JustFollowed

\* Its chat is neither in the list nor in what the list will be; or it is in
\* the URL and open, or about to be opened by the next render.
ChatKept ==
    Linked /\ asked.by = "link" /\ asked.url.channel # None
    => \/ /\ asked.url.channel \notin ToSet(state.rows)
          /\ asked.url.channel \notin ToSet(Listing(asked.url.query))
       \/ /\ router.channel = asked.url.channel
          /\ \/ state.active = asked.url.channel /\ (First \/ shown.url = router)
             \/ asked.url.channel \in ToSet(state.rows) /\ fresh /\ ~First /\ shown.url = router
             \/ /\ JustFollowed
                /\ asked.url.query = state.query /\ ~state.loading => state.rows = Listing(asked.url.query)

LinkInv == FiltersKept /\ ChatKept

LEMMA LinkInvWins == TypeOK /\ SameQuery /\ LinkInv => LinkWins
<1>. SUFFICES ASSUME TypeOK, SameQuery, LinkInv, Quiet, Linked
              PROVE /\ state.query = asked.url.query
                    /\ asked.by = "link" /\ asked.url.channel \in ToSet(state.rows)
                         => state.active = asked.url.channel
  BY DEF LinkWins, Linked
<1>1. Rendered /\ ~fresh /\ shown.url = router /\ state.query = router.query
  BY DEF Quiet, Rendered, SameQuery
<1>2. state.query = asked.url.query
  BY <1>1 DEF LinkInv, FiltersKept
<1>3. ToSet(state.rows) \subseteq Channel
  BY PreferredType DEF TypeOK, State
<1>4. asked.by = "link" /\ asked.url.channel \in ToSet(state.rows) => state.active = asked.url.channel
  BY <1>1, <1>3, NoneAssumption DEF LinkInv, ChatKept, JustFollowed
<1>. QED BY <1>2, <1>4

LEMMA InitLink == Init => LinkInv
<1>. SUFFICES ASSUME Init PROVE LinkInv
  OBVIOUS
<1>1. First /\ asked.url = router /\ state.active = router.channel
  BY DEF Init, First, Asked, StateAt
<1>. QED BY <1>1 DEF LinkInv, FiltersKept, ChatKept

\* The effects of a render.
LEMMA RenderLink ==
    ASSUME TypeOK, LinkInv, NEW u \in Url, u = router \/ (~First /\ u = shown.url), RenderAt(u)
    PROVE LinkInv'
<1>. PICK r \in Refs : Effects(u, r)
  BY RenderEffects
<1>. USE DEF Effects
<1>. SUFFICES ASSUME Linked PROVE LinkInv'
  BY DEF LinkInv, FiltersKept, ChatKept, Linked
<1>1. JustFollowed => u = router
  <2>1. First \/ fresh \/ shown # [state |-> state, url |-> u]
    BY DEF RenderAt
  <2>2. ~First => shown = [state |-> shown.state, url |-> shown.url]
    BY DEF TypeOK, View, First
  <2>. QED BY <2>1, <2>2 DEF JustFollowed
<1>2. u.query = asked.url.query /\ router.query = asked.url.query
  BY <1>1 DEF LinkInv, FiltersKept
<1>3. Navigates(state, u, RefsHydrated(state, r)) => ~Differs(state, u)
  BY <1>2 DEF Navigates, Linked
<1>4. FiltersKept'
  <2>1. router'.query = asked.url.query
    BY <1>2, <1>3 DEF Differs
  <2>. QED BY <1>2, <2>1 DEF FiltersKept
<1>5. Listing(asked.url.query)' = Listing(asked.url.query)
  BY DEF Listing
<1>6. ASSUME asked.by = "link", asked.url.channel # None,
             asked.url.channel \in ToSet(state.rows) \cup ToSet(Listing(asked.url.query))
      PROVE state'.active = asked.url.channel /\ router' = u
  <2>1. /\ router.channel = asked.url.channel
        /\ \/ state.active = asked.url.channel /\ (First \/ shown.url = router)
           \/ asked.url.channel \in ToSet(state.rows) /\ fresh /\ ~First /\ shown.url = router
           \/ /\ JustFollowed
              /\ asked.url.query = state.query /\ ~state.loading => state.rows = Listing(asked.url.query)
    BY <1>6 DEF LinkInv, ChatKept, Linked
  <2>2. u = router
    BY <1>1, <2>1
  <2>3. CASE state.active = u.channel
    <3>1. ~OpenListed(state, u) /\ ~OpenRequested(state, u) /\ ~LeavesOpen(state, u, r)
      BY <1>6, <2>1, <2>2, <2>3 DEF OpenListed, OpenRequested, LeavesOpen, ChannelWanted
    <3>2. state'.active = u.channel
      BY <2>3, <3>1 DEF ActiveAfter
    <3>3. Navigates(state, u, RefsHydrated(state, r)) => Synced(state, u, r) = u
      BY <1>3, <1>6, <2>1, <2>2, <2>3 DEF Differs, Synced, Url
    <3>. QED BY <2>1, <2>2, <3>2, <3>3 DEF Navigates
  <2>4. CASE state.active # u.channel
    <3>1. ChannelWanted(state, u) /\ (ListChanged \/ UrlChanged(u))
      BY <1>6, <2>1, <2>2, <2>4 DEF ChannelWanted, ListChanged, UrlChanged, JustFollowed
    <3>2. CASE u.channel \in ToSet(state.rows)
      <4>1. OpenListed(state, u)
        BY <3>1, <3>2 DEF OpenListed
      <4>. QED BY <2>1, <2>2, <3>1, <3>2, <4>1 DEF ActiveAfter, Navigates
    <3>3. CASE u.channel \notin ToSet(state.rows)
      <4>1. Differs(state, u) \/ state.loading
        BY <1>2, <1>6, <2>1, <2>2, <2>4, <3>3 DEF Differs
      <4>2. ~LeavesOpen(state, u, r) /\ ~OpenListed(state, u)
        BY <3>1, <3>3, <4>1 DEF LeavesOpen, OpenListed
      <4>3. OpenRequested(state, u) \/ Differs(state, u)
        BY <3>1, <4>1 DEF OpenRequested
      <4>4. state'.active = u.channel
        BY <3>1, <4>2, <4>3 DEF ActiveAfter, ChannelWanted
      <4>5. ~Navigates(state, u, RefsHydrated(state, r))
        BY <1>3, <3>1, <4>1 DEF Navigates
      <4>. QED BY <2>1, <2>2, <4>4, <4>5
    <3>. QED BY <3>2, <3>3
  <2>. QED BY <2>3, <2>4
<1>7. ChatKept'
  <2>. SUFFICES ASSUME asked.by = "link", asked.url.channel # None,
                       asked.url.channel \in ToSet(state.rows) \cup ToSet(Listing(asked.url.query))
                PROVE /\ router'.channel = asked.url.channel
                      /\ state'.active = asked.url.channel /\ shown'.url = router'
    BY <1>5 DEF ChatKept, Linked
  <2>1. state'.active = asked.url.channel /\ router' = u
    BY <1>6
  <2>2. router.channel = asked.url.channel /\ u = router
    BY <1>1 DEF LinkInv, ChatKept
  <2>. QED BY <2>1, <2>2
<1>. QED BY <1>4, <1>7 DEF LinkInv

\* A page that is rendered, and what comes to it: the link is as good as
\* before if neither the URL, nor the list, nor the open chat changes.
LEMMA RestLink ==
    ASSUME TypeOK, LinkInv, Rendered
    PROVE /\ ~First /\ shown.url = router
          /\ Linked => router.query = asked.url.query /\ shown.url.query = asked.url.query
          /\ Linked /\ asked.by = "link" /\ asked.url.channel # None
                /\ asked.url.channel \in ToSet(state.rows) \cup ToSet(Listing(asked.url.query))
             => router.channel = asked.url.channel /\ state.active = asked.url.channel
<1>1. ~First /\ shown.url = router /\ ~fresh
  BY NoneAssumption DEF Rendered, First, TypeOK, View
<1>. QED BY <1>1 DEF LinkInv, FiltersKept, ChatKept, JustFollowed

LEMMA OthersLink ==
    ASSUME TypeOK, LinkInv, Rendered, UNCHANGED <<shown, router, chats>>,
           Linked' => asked' = asked /\ state'.rows = state.rows /\ state'.active = state.active
    PROVE LinkInv'
<1>1. ~First' /\ shown'.url = router'
  BY RestLink DEF First
<1>2. FiltersKept'
  BY <1>1, RestLink DEF FiltersKept, Linked
<1>3. Listing(asked.url.query)' = Listing(asked'.url.query)
  BY DEF Listing
<1>4. ChatKept'
  <2>. SUFFICES ASSUME Linked', asked'.by = "link", asked'.url.channel # None,
                       asked'.url.channel \in ToSet(state'.rows) \cup ToSet(Listing(asked.url.query)')
                PROVE router'.channel = asked'.url.channel /\ state'.active = asked'.url.channel
    BY <1>1 DEF ChatKept
  <2>1. Linked /\ asked' = asked
    BY DEF Linked
  <2>. QED BY <1>3, <2>1, RestLink
<1>. QED BY <1>2, <1>4 DEF LinkInv

LEMMA AnswerLink == ASSUME TypeOK, LinkInv, NEW r \in flight, Answer(r) PROVE LinkInv'
<1>1. /\ Rendered /\ UNCHANGED <<shown, router, chats>>
      /\ asked' = IF r.latest /\ r.then = None /\ asked.by = "link" /\ r.query # asked.url.query
                  THEN Asked("filters", asked.url) ELSE AskedAfter(r)
  BY DEF Answer, Counts
<1>2. CASE r.then # None
  BY <1>1, <1>2, OthersLink DEF AskedAfter, Asked, Linked
<1>3. CASE r.then = None /\ ~r.latest
  BY <1>1, <1>3, OthersLink, AnswerEffect DEF AskedAfter
<1>4. CASE r.then = None /\ r.latest
  <2>. SUFFICES ASSUME Linked' PROVE LinkInv'
    BY DEF LinkInv, FiltersKept, ChatKept
  <2>1. Linked /\ asked'.url = asked.url /\ (asked'.by = "link" => asked' = asked /\ r.query = asked.url.query)
    BY <1>1, <1>4 DEF Linked, Asked, AskedAfter
  <2>2. ~First' /\ shown'.url = router'
    BY <1>1, RestLink DEF First
  <2>3. FiltersKept'
    BY <1>1, <2>1, <2>2, RestLink DEF FiltersKept
  <2>4. Listing(asked.url.query)' = Listing(asked'.url.query)
    BY <1>1 DEF Listing
  <2>5. state'.rows = Listing(r.query) /\ fresh' = TRUE
    BY <1>4, AnswerEffect
  <2>6. ChatKept'
    <3>. SUFFICES ASSUME asked'.by = "link", asked'.url.channel # None,
                         asked'.url.channel \in ToSet(state'.rows) \cup ToSet(Listing(asked.url.query)')
                  PROVE /\ router'.channel = asked'.url.channel
                        /\ asked'.url.channel \in ToSet(state'.rows)
      BY <2>2, <2>5 DEF ChatKept
    <3>1. asked'.url.channel \in ToSet(Listing(asked.url.query))
      BY <2>1, <2>4, <2>5
    <3>. QED BY <1>1, <2>1, <2>5, <3>1, RestLink
  <2>. QED BY <2>3, <2>6 DEF LinkInv
<1>. QED BY <1>2, <1>3, <1>4, AnswerEffect DEF Flight

LEMMA FailLink == ASSUME TypeOK, LinkInv, NEW r \in flight, Fail(r) PROVE LinkInv'
<1>1. Rendered /\ UNCHANGED <<shown, router, chats>> /\ asked' = AskedAfter(r)
  BY DEF Fail
<1>2. CASE r.then # None
  BY <1>1, <1>2, OthersLink DEF AskedAfter, Asked, Linked
<1>3. CASE r.then = None
  BY <1>1, <1>3, OthersLink, FailEffect DEF AskedAfter
<1>. QED BY <1>2, <1>3

LEMMA NavigateLink == ASSUME TypeOK, LinkInv, NEW u \in Url, Navigate(u) PROVE LinkInv'
<1>1. /\ Rendered /\ router' = u /\ u # router /\ UNCHANGED <<state, fresh, shown, chats>>
      /\ asked' = Asked(IF u.query = state.query /\ ~state.loading /\ state.rows # Listing(u.query)
                        THEN "filters" ELSE "link", u)
  BY DEF Navigate, Move
<1>2. asked'.url = u
      /\ (asked'.by = "link" => (u.query = state.query /\ ~state.loading => state.rows = Listing(u.query)))
  BY <1>1 DEF Asked
<1>3. JustFollowed'
  BY <1>1, NoneAssumption DEF Rendered, JustFollowed, First, TypeOK, View
<1>4. Listing(asked.url.query)' = Listing(u.query)
  BY <1>1, <1>2 DEF Listing
<1>5. FiltersKept'
  BY <1>1, <1>2, <1>3 DEF FiltersKept
<1>6. ChatKept'
  BY <1>1, <1>2, <1>3, <1>4 DEF ChatKept
<1>. QED BY <1>5, <1>6 DEF LinkInv

LEMMA StepLink == TypeOK /\ LinkInv /\ [Next]_vars => LinkInv'
<1>. SUFFICES ASSUME TypeOK, LinkInv, [Next]_vars PROVE LinkInv'
  OBVIOUS
<1>0. state \in State
  BY DEF TypeOK
<1>1. CASE Render
  BY <1>1, RenderLink DEF Render, TypeOK
<1>2. CASE RenderFirst
  <2>1. shown.url \in Url
    BY <1>2 DEF RenderFirst, First, TypeOK, View
  <2>. QED BY <1>2, <2>1, RenderLink DEF RenderFirst
<1>3. ASSUME NEW r \in flight, Answer(r) \/ Fail(r) PROVE LinkInv'
  BY <1>3, AnswerLink, FailLink
<1>4. ASSUME NEW c \in Channel, SelectChannel(c) PROVE LinkInv'
  BY <1>4, OthersLink DEF SelectChannel, Move, Asked, Linked
<1>5. ASSUME NEW c \in Channel, CreateChat(c) PROVE LinkInv'
  <2>1. ~Linked' /\ LinkInv
    BY <1>5 DEF CreateChat, Move, Asked, Linked
  <2>. QED BY <2>1 DEF LinkInv, FiltersKept, ChatKept
<1>6. CASE StartFreshChat
  BY <1>6, OthersLink DEF StartFreshChat, Move, Asked, Linked
<1>7. CASE SocketEvent
  BY <1>0, <1>7, OthersLink DEF SocketEvent, State
<1>8. CASE CallApi
  BY <1>8, OthersLink DEF CallApi, Move
<1>9. ASSUME NEW f \in Filter, ChangeFilter(f) PROVE LinkInv'
  BY <1>9, OthersLink DEF ChangeFilter, Move, Asked, Linked
<1>10. ASSUME NEW p \in Page, ChangePage(p) PROVE LinkInv'
  BY <1>10, OthersLink DEF ChangePage, Move, Asked, Linked
<1>11. ASSUME NEW u \in Url, Navigate(u) PROVE LinkInv'
  BY <1>11, NavigateLink
<1>12. ASSUME NEW a \in awaiting, ApiAnswers(a) PROVE LinkInv'
  BY <1>0, <1>12, OthersLink DEF ApiAnswers, State
<1>13. CASE UNCHANGED vars
  <2>1. UNCHANGED <<state, fresh, shown, router, chats, asked>>
    BY <1>13 DEF vars, page, history
  <2>2. Listing(asked.url.query)' = Listing(asked.url.query)
    BY <2>1 DEF Listing
  <2>. QED BY <2>1, <2>2 DEF LinkInv, FiltersKept, ChatKept, Linked, JustFollowed, First
<1>. QED BY <1>1, <1>2, <1>3, <1>4, <1>5, <1>6, <1>7, <1>8, <1>9, <1>10, <1>11, <1>12, <1>13 DEF Next

\* The effects of Chat.tsx take a link for the newer wish: whatever answers,
\* events and handlers come in between, a page at rest has the filters of the
\* last link that had any, and its chat if that is in the list.
THEOREM LinkIsShown == Spec => []LinkWins
<1>1. TypeOK /\ AgreeInv /\ LinkInv /\ [Next]_vars => (TypeOK /\ AgreeInv /\ LinkInv)'
  BY StepTypeOK, StepAgree, StepLink
<1>2. TypeOK /\ AgreeInv /\ LinkInv => LinkWins
  BY LinkInvWins DEF AgreeInv
<1>. QED BY InitTypeOK, InitAgree, InitLink, <1>1, <1>2, PTL DEF Spec
-----------------------------------------------------------------------------
(* Cascades end.                                                           *)

\* The parts of Distance as functions of the filters (set, in the URL shown, in
\* the router and rendered last), and of the open chat, those of the two URLs,
\* the chats of the list and whether it is loading.
FiltersOf(set, url, goal, seen) ==
    (IF set = url THEN IF seen.filter # set.filter /\ set.page # 1 THEN 2 ELSE 0
                  ELSE IF set.filter = url.filter THEN 1 ELSE 3)
    + (IF set = url /\ url = goal THEN 0
       ELSE IF goal = DefaultQuery THEN 4 ELSE IF url # goal THEN 3 ELSE 0)

ChatOf(open, url, goal, list, loading) ==
    IF open = goal /\ open \in list /\ url \notin list THEN 2
    ELSE IF open = goal /\ url = goal /\ goal # None THEN 0
    ELSE IF open = url /\ url # None /\ goal # None /\ loading THEN 1
    ELSE IF open = url THEN 5
    ELSE IF goal # None /\ open \in list /\ url \notin list THEN 3
    ELSE IF \/ open = goal /\ goal # None /\ url \notin list
            \/ url = goal /\ goal \notin list
         THEN 4
    ELSE IF open \notin list THEN 7 ELSE 6

LEMMA PartsOfDistance ==
    /\ FiltersLeft = FiltersOf(state.query, shown.url.query, router.query, shown.state.query)
    /\ ChatLeft = ChatOf(state.active, shown.url.channel, router.channel, ToSet(state.rows), state.loading)
BY DEF FiltersLeft, ChatLeft, FiltersOf, ChatOf

LEMMA FiltersRange == ASSUME NEW q, NEW url, NEW goal, NEW seen
                      PROVE FiltersOf(q, url, goal, seen) \in 0 .. 7
BY DEF FiltersOf

LEMMA ChatRange == ASSUME NEW a, NEW url, NEW goal, NEW X, NEW l
                   PROVE ChatOf(a, url, goal, X, l) \in 0 .. 7
BY DEF ChatOf

\* A render of filters `set` at URL u, which leaves `next` and maybe writes the
\* URL, brings the filters nearer to each other or finds and leaves all that
\* matter equal.
FiltersStep(set, url, goal, seen, u, next, goal2) ==
    /\ u \in {url, goal} /\ goal2 \in {goal, set}
    /\ u # set => next = u /\ (u # DefaultQuery => goal2 = goal)
    /\ u = set => \/ next = set
                  \/ seen.filter # set.filter /\ next = [set EXCEPT !.page = 1]

LEMMA FiltersMeet ==
    ASSUME NEW set \in Query, NEW url \in Query, NEW goal \in Query, NEW seen \in Query,
           NEW u, NEW next \in Query, NEW goal2,
           FiltersStep(set, url, goal, seen, u, next, goal2)
    PROVE \/ FiltersOf(next, u, goal2, set) < FiltersOf(set, url, goal, seen)
          \/ /\ FiltersOf(next, u, goal2, set) = FiltersOf(set, url, goal, seen)
             /\ u = set /\ next = set /\ url = set
<1>. USE DEF FiltersStep
<1>1. DefaultQuery.page = 1 /\ DefaultQuery \in Query
  BY DefaultIsQuery DEF DefaultQuery
<1>2. CASE u # set
  <2>1. next = u /\ next.filter = u.filter /\ next.page = u.page
    BY <1>2
  <2>2. CASE u = DefaultQuery
    BY <1>1, <1>2, <2>1, <2>2 DEF FiltersOf
  <2>3. CASE u # DefaultQuery
    BY <1>1, <1>2, <2>1, <2>3 DEF FiltersOf
  <2>. QED BY <2>2, <2>3
<1>3. CASE u = set /\ next = set
  BY <1>1, <1>3 DEF FiltersOf
<1>4. CASE u = set /\ next # set
  <2>1. seen.filter # set.filter /\ next.filter = set.filter /\ next.page = 1 /\ set.page # 1
    <3>1. seen.filter # set.filter /\ next = [set EXCEPT !.page = 1]
      BY <1>4
    <3>2. set.page = 1 => next = set
      BY <3>1 DEF Query
    <3>. QED BY <1>4, <3>1, <3>2 DEF Query
  <2>2. set # DefaultQuery
    BY <1>1, <2>1
  <2>. QED BY <1>1, <1>4, <2>1, <2>2 DEF FiltersOf
<1>. QED BY <1>2, <1>3, <1>4

\* A list that is not fresh has been rendered.
RowsShown == ~First /\ ~fresh => state.rows = shown.state.rows /\ state.total = shown.state.total

LEMMA OthersRows ==
    ASSUME TypeOK, Rendered, shown' = shown,
           fresh' = TRUE \/ (state'.rows = state.rows /\ state'.total = state.total)
    PROVE RowsShown'
BY DEF RowsShown, Rendered

LEMMA StepRows == TypeOK /\ RowsShown /\ [Next]_vars => RowsShown'
<1>. SUFFICES ASSUME TypeOK, RowsShown, [Next]_vars PROVE RowsShown'
  OBVIOUS
<1>0. state \in State
  BY DEF TypeOK
<1>1. ASSUME NEW u, RenderAt(u) PROVE RowsShown'
  <2>1. shown'.state = state
    BY <1>1 DEF RenderAt
  <2>2. state'.rows = state.rows /\ state'.total = state.total
    BY <1>0, <1>1 DEF RenderAt, StateAfter, State
  <2>. QED BY <2>1, <2>2 DEF RowsShown
<1>2. ASSUME NEW r \in flight, Answer(r) PROVE RowsShown'
  <2>1. Rendered /\ shown' = shown /\ fresh' = (fresh \/ Counts(r))
    BY <1>2 DEF Answer
  <2>2. ~Counts(r) => state' = Opened(r, state)
    BY <1>2 DEF Answer
  <2>3. ~Counts(r) => state'.rows = state.rows /\ state'.total = state.total
    BY <1>0, <2>2 DEF Opened, State
  <2>. QED BY <2>1, <2>3, OthersRows
<1>3. ASSUME NEW r \in flight, Fail(r) PROVE RowsShown'
  <2>1. Rendered /\ shown' = shown
    BY <1>3 DEF Fail
  <2>2. state'.rows = state.rows /\ state'.total = state.total
    BY <1>0, <1>3 DEF Fail, Opened, State
  <2>. QED BY <2>1, <2>2, OthersRows
<1>4. ASSUME NEW c \in Channel, SelectChannel(c) \/ CreateChat(c) PROVE RowsShown'
  BY <1>0, <1>4, OthersRows DEF SelectChannel, CreateChat, Move, State
<1>5. CASE StartFreshChat \/ CallApi
  BY <1>0, <1>5, OthersRows DEF StartFreshChat, CallApi, Move, State
<1>6. CASE SocketEvent
  BY <1>0, <1>6, OthersRows DEF SocketEvent, State
<1>7. ASSUME NEW f \in Filter, ChangeFilter(f) PROVE RowsShown'
  BY <1>0, <1>7, OthersRows DEF ChangeFilter, Move, State
<1>8. ASSUME NEW p \in Page, ChangePage(p) PROVE RowsShown'
  BY <1>0, <1>8, OthersRows DEF ChangePage, Move, State
<1>9. ASSUME NEW u \in Url, Navigate(u) PROVE RowsShown'
  BY <1>9, OthersRows DEF Navigate, Move
<1>10. ASSUME NEW a \in awaiting, ApiAnswers(a) PROVE RowsShown'
  BY <1>0, <1>10, OthersRows DEF ApiAnswers, State
<1>11. CASE UNCHANGED vars
  BY <1>11 DEF vars, page, RowsShown, First
<1>. QED BY <1>1, <1>2, <1>3, <1>4, <1>5, <1>6, <1>7, <1>8, <1>9, <1>10, <1>11
         DEF Next, Render, RenderFirst

\* What else the effects of a render do, beside Effects.
LEMMA RenderSets ==
    ASSUME TypeOK, ~First, NEW u \in Url, RenderAt(u)
    PROVE /\ state'.loading = (state.loading \/ shown.state.query # state.query)
          /\ ~Differs(state, u) =>
                \/ state'.query = state.query
                \/ /\ shown.state.query.filter # state.query.filter
                   /\ state'.query = [state.query EXCEPT !.page = 1]
<1>. DEFINE r == RefsFromUrl(state, u, RememberRequested(state, u))
            loads == First \/ shown.state.query # state.query
<1>1. state \in State /\ state' = StateAfter(state, u, r, loads)
  BY DEF RenderAt, TypeOK
<1>. HIDE DEF r
<1>2. state'.loading = (state.loading \/ loads)
  BY <1>1 DEF StateAfter, State
<1>3. state'.query = IF ResetsPage(state, r)
                     THEN [IF Differs(state, u) THEN u.query ELSE state.query EXCEPT !.page = 1]
                     ELSE IF Differs(state, u) THEN u.query ELSE state.query
  BY <1>1 DEF StateAfter, State
<1>4. ResetsPage(state, r) => shown.state.query.filter # state.query.filter
  BY DEF ResetsPage, FilterChanged
<1>. QED BY <1>2, <1>3, <1>4

\* The filters of a render and its effects.
LEMMA RenderMeetsFilters ==
    ASSUME TypeOK, ~First, NEW u \in {shown.url, router}, RenderAt(u)
    PROVE \/ FiltersLeft' < FiltersLeft
          \/ /\ FiltersLeft' = FiltersLeft
             /\ u.query = state.query /\ state'.query = state.query /\ shown.url.query = state.query
<1>1. /\ state \in State /\ shown.state \in State /\ shown.url \in Url /\ router \in Url /\ u \in Url
      /\ state.query \in Query /\ shown.url.query \in Query /\ router.query \in Query
      /\ shown.state.query \in Query /\ u.query \in {shown.url.query, router.query}
  BY DEF TypeOK, First, View, State, Url
<1>2. PICK r \in Refs : Effects(u, r)
  BY <1>1, RenderEffects
<1>3. /\ shown'.url.query = u.query /\ shown'.state.query = state.query
      /\ u.query # state.query => state'.query = u.query
  BY <1>2 DEF Effects, Differs
<1>4. router'.query \in {router.query, state.query}
  BY <1>2 DEF Effects
<1>5. u.query # state.query /\ u.query # DefaultQuery => router'.query = router.query
  BY <1>2 DEF Effects, Differs, Navigates
<1>6. u.query = state.query => \/ state'.query = state.query
                               \/ /\ shown.state.query.filter # state.query.filter
                                  /\ state'.query = [state.query EXCEPT !.page = 1]
  BY <1>1, RenderSets DEF Differs
<1>7. state'.query \in Query
  BY <1>1, RenderType DEF TypeOK, State
<1>8. /\ FiltersLeft = FiltersOf(state.query, shown.url.query, router.query, shown.state.query)
      /\ FiltersLeft' = FiltersOf(state'.query, u.query, router'.query, state.query)
  BY <1>3 DEF FiltersLeft, FiltersOf
<1>9. FiltersStep(state.query, shown.url.query, router.query, shown.state.query,
                  u.query, state'.query, router'.query)
  BY <1>1, <1>3, <1>4, <1>5, <1>6 DEF FiltersStep
<1>. QED BY <1>1, <1>7, <1>8, <1>9, FiltersMeet

\* The chat of a render that finds all filters equal.
LEMMA RenderMeetsChats ==
    ASSUME TypeOK, RowsShown, ~First, NEW u \in {shown.url, router}, RenderAt(u),
           u.query = state.query, state'.query = state.query, shown.url.query = state.query
    PROVE ChatLeft' < ChatLeft \/ (ChatLeft' = ChatLeft /\ Unseen' < Unseen)
<1>. DEFINE list    == ToSet(state.rows)
            wanted  == ChannelWanted(state, u)
            opened  == shown.state.active # state.active
            loaded  == shown.state.loading # state.loading
            asks    == shown.state.query # state.query
            ran     == opened \/ fresh \/ loaded \/ u.channel # shown.url.channel
<1>1. /\ state \in State /\ shown.state \in State /\ shown.url \in Url /\ router \in Url /\ u \in Url
      /\ state.active \in Channel \cup {None} /\ shown.url.channel \in Channel \cup {None}
      /\ router.channel \in Channel \cup {None} /\ u.channel \in {shown.url.channel, router.channel}
      /\ state.rows \in Seq(Channel) /\ state.loading \in BOOLEAN /\ fresh \in BOOLEAN
  BY DEF TypeOK, First, View, State, Url
<1>2. PICK r \in Refs : Effects(u, r)
  BY <1>1, RenderEffects
<1>. DEFINE choice == Preferred(state.rows, state.active, r.requested)
            sync   == Synced(state, u, r).channel
<1>3. /\ list \in SUBSET Channel /\ (list # {} => choice \in list) /\ (state.rows # <<>> <=> list # {})
  <2>1. state.rows # <<>> => choice \in list
    BY <1>1, PreferredType
  <2>2. list \subseteq Channel
    BY <1>1, PreferredType
  <2>3. state.rows = <<>> => list = {}
    BY DEF ToSet
  <2>. QED BY <2>1, <2>2, <2>3
<1>4. UrlChanged(u) <=> u.channel # shown.url.channel
  BY <1>1 DEF UrlChanged, Url
<1>5. /\ (OpenChanged(state, u) <=> opened) /\ (ListChanged <=> fresh)
      /\ (LoadingChanged(state) <=> loaded) /\ ~Differs(state, u)
  BY DEF OpenChanged, ListChanged, LoadingChanged, Differs
<1>6. state'.active =
         IF (opened \/ fresh \/ u.channel # shown.url.channel) /\ wanted /\ u.channel \in list THEN u.channel
         ELSE IF /\ ran /\ list # {} /\ ~(u.channel # None /\ u.channel = state.active /\ u.channel \notin list)
                 /\ ~(wanted /\ state.loading) /\ state.active \notin list
              THEN choice
         ELSE IF ran /\ wanted /\ (state.loading \/ u.channel \in list) THEN u.channel ELSE state.active
  <2>1. state'.active = ActiveAfter(state, u, r) /\ ~r.applying
    BY <1>2, <1>5 DEF Effects
  <2>2. OpenListed(state, u) <=>
          (opened \/ fresh \/ u.channel # shown.url.channel) /\ wanted /\ u.channel \in list
    BY <1>4, <1>5 DEF OpenListed
  <2>3. LeavesOpen(state, u, r) <=>
          /\ ran /\ list # {} /\ ~(u.channel # None /\ u.channel = state.active /\ u.channel \notin list)
          /\ ~(wanted /\ state.loading) /\ state.active \notin list
    BY <1>3, <1>4, <1>5, <2>1 DEF LeavesOpen
  <2>4. OpenRequested(state, u) <=> ran /\ wanted /\ (state.loading \/ u.channel \in list)
    BY <1>4, <1>5 DEF OpenRequested
  <2>. QED BY <1>5, <2>1, <2>2, <2>3, <2>4 DEF ActiveAfter
<1>7. router'.channel = IF /\ ran \/ asks
                           /\ ~(wanted /\ (state.loading \/ u.channel \in list)) /\ sync # u.channel
                        THEN sync ELSE router.channel
  <2>. DEFINE hr == RefsHydrated(state, r)
  <2>1. Navigates(state, u, hr) <=>
          (ran \/ asks) /\ ~(wanted /\ (state.loading \/ u.channel \in list)) /\ Synced(state, u, hr) # u
    BY <1>2, <1>4, <1>5 DEF Effects, Navigates
  <2>2. Synced(state, u, hr) # u <=> sync # u.channel
    BY <1>1, <1>2 DEF Effects, Synced, Url
  <2>. QED BY <1>2, <2>1, <2>2 DEF Effects
<1>8. (state.active # None => sync = state.active)
      /\ (state.active = None /\ u.channel # None => sync = u.channel)
  BY DEF Synced
<1>9. state'.loading = (state.loading \/ asks)
  BY <1>1, RenderSets
<1>10. ran \/ asks
  <2>. SUFFICES ASSUME ~ran, ~asks PROVE FALSE
    OBVIOUS
  <2>1. shown.state = state
    BY <1>1 DEF RowsShown, State
  <2>2. shown.url = u
    BY <1>1 DEF Url
  <2>3. shown = [state |-> state, url |-> u]
    BY <2>1, <2>2 DEF TypeOK, First, View
  <2>. QED BY <2>3 DEF RenderAt
<1>11. /\ ChatLeft = ChatOf(state.active, shown.url.channel, router.channel, list, state.loading)
       /\ ChatLeft' = ChatOf(state'.active, u.channel, router'.channel, list, state'.loading)
  BY <1>2 DEF Effects, ChatLeft, ChatOf
<1>12. /\ Unseen = (IF asks THEN 2 ELSE IF fresh \/ opened \/ loaded THEN 1 ELSE 0)
       /\ Unseen' = (IF state'.active # state.active \/ state'.loading # state.loading THEN 1 ELSE 0)
  <2>1. shown'.state = state /\ fresh' = FALSE
    BY <1>2 DEF Effects
  <2>. QED BY <2>1 DEF Unseen
<1>13. /\ wanted \in BOOLEAN /\ opened \in BOOLEAN /\ loaded \in BOOLEAN /\ asks \in BOOLEAN
       /\ ran \in BOOLEAN /\ (wanted <=> u.channel # None /\ u.channel # state.active)
  BY DEF ChannelWanted
<1>14. state'.loading \in BOOLEAN /\ (ran <=> opened \/ fresh \/ loaded \/ u.channel # shown.url.channel)
  BY <1>9
<1>. HIDE DEF list, wanted, opened, loaded, asks, ran, choice, sync
<1>. QED BY <1>1, <1>3, <1>6, <1>7, <1>8, <1>9, <1>10, <1>11, <1>12, <1>13, <1>14, NoneAssumption, SMTT(120)
         DEF ChatOf

LEMMA DistanceRange == ~First => Distance \in 0 .. 191 /\ Unseen \in 0 .. 2
                                 /\ FiltersLeft \in 0 .. 7 /\ ChatLeft \in 0 .. 7
<1>1. FiltersLeft \in 0 .. 7 /\ ChatLeft \in 0 .. 7
  BY PartsOfDistance, FiltersRange, ChatRange
<1>2. Unseen \in 0 .. 2
  BY DEF Unseen
<1>. QED BY <1>1, <1>2 DEF Distance

LEMMA Weighed ==
    ASSUME NEW f \in 0 .. 7, NEW f2 \in 0 .. 7, NEW c \in 0 .. 7, NEW c2 \in 0 .. 7,
           NEW s \in 0 .. 2, NEW s2 \in 0 .. 2,
           f2 < f \/ (f2 = f /\ c2 < c) \/ (f2 = f /\ c2 = c /\ s2 < s)
    PROVE 24 * f2 + 3 * c2 + s2 < 24 * f + 3 * c + s
OBVIOUS

LEMMA RenderNears ==
    ASSUME TypeOK, RowsShown, NEW u, (u \in {shown.url, router} /\ ~First) \/ u = router, RenderAt(u)
    PROVE Distance' < Distance
<1>1. ~First'
  BY NoneAssumption DEF RenderAt, First, View, TypeOK
<1>2. Distance' \in 0 .. 191 /\ Unseen' \in 0 .. 2 /\ FiltersLeft' \in 0 .. 7 /\ ChatLeft' \in 0 .. 7
  <2>1. (~First => Distance \in 0 .. 191 /\ Unseen \in 0 .. 2
                   /\ FiltersLeft \in 0 .. 7 /\ ChatLeft \in 0 .. 7)'
    BY DistanceRange, PTL
  <2>. QED BY <1>1, <2>1
<1>3. CASE First
  <2>1. Distance = 192
    BY <1>3 DEF Distance
  <2>. QED BY <1>2, <2>1
<1>4. CASE ~First
  <2>1. /\ Distance = 24 * FiltersLeft + 3 * ChatLeft + Unseen
        /\ Distance' = 24 * FiltersLeft' + 3 * ChatLeft' + Unseen'
    BY <1>1, <1>4 DEF Distance
  <2>2. Unseen \in 0 .. 2 /\ FiltersLeft \in 0 .. 7 /\ ChatLeft \in 0 .. 7
    BY <1>4, DistanceRange
  <2>3. \/ FiltersLeft' < FiltersLeft
        \/ FiltersLeft' = FiltersLeft /\ ChatLeft' < ChatLeft
        \/ FiltersLeft' = FiltersLeft /\ ChatLeft' = ChatLeft /\ Unseen' < Unseen
    BY <1>4, RenderMeetsFilters, RenderMeetsChats
  <2>. QED BY <1>2, <2>1, <2>2, <2>3, Weighed
<1>. QED BY <1>3, <1>4

\* The nine effects of Chat.tsx never chase each other: every render brings the
\* page nearer to rest, so a cascade has at most 192 renders, for any number of
\* chats and filters, and whatever was set, pressed or answered before.
THEOREM CascadesEnd == Spec => CascadeEnds /\ [](Distance \in 0 .. 192)
<1>1. TypeOK /\ RowsShown /\ [Next]_vars => [Render \/ RenderFirst => Distance' < Distance]_vars
  BY RenderNears DEF Render, RenderFirst
<1>2. Init => RowsShown
  BY DEF Init, RowsShown, First
<1>3. Distance \in 0 .. 192
  BY DistanceRange DEF Distance
<1>. QED BY InitTypeOK, StepTypeOK, StepRows, <1>1, <1>2, <1>3, PTL DEF Spec, CascadeEnds
=============================================================================
