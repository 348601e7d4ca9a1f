--------------------------- MODULE ChatWorkspace ---------------------------
(***************************************************************************)
(* The chat page of the web frontend (pages/Chat.tsx): which channel is    *)
(* open, which filters are set and which list of channels is shown.  All   *)
(* three are kept twice, in React state and in the URL, and nine effects   *)
(* copy them back and forth after every render.  Meanwhile the list is     *)
(* loaded again and again, by requests whose answers overtake each other.  *)
(*                                                                         *)
(* A step is a render together with all its effects (React runs them to    *)
(* the end before it handles anything else), an answer, or something the   *)
(* user does.  Setting state shows at the next render; a navigation is     *)
(* rendered as a transition, so it may come later than the state that was  *)
(* set with it.  A cascade of renders takes milliseconds: answers and      *)
(* users come to a page that has rendered everything.  The messages of the *)
(* open channel are ChatConversation.                                      *)
(***************************************************************************)
EXTENDS Naturals, Sequences, SequencesExt

CONSTANTS Channel,       \* chats of this user
          Filter,        \* values of search, kind and status together
          DefaultFilter, \* the one the URL leaves out
          Found,         \* Found[S][f]: what the server finds of the chats S,
                         \*   the latest activity first
          PageSize,      \* CHAT_CHANNEL_PAGE_SIZE
          LastPage,      \* bound on the page numbers
          MaxMoves,      \* bound on what the user and others do
          None

VARIABLES state,    \* React state as it was last set
          fresh,    \* setChannels was called since the last render
          shown,    \* state and URL of the last render, None before the first
          router,   \* the location of the router
          refs,     \* the refs of the component
          flight,   \* requests of loadChannels that are not answered yet
          awaiting, \* handlers that wait for the API and then call loadChannels
          chats,    \* the channels that exist for this user on the server
          moves,    \* what was done so far from outside
          asked,    \* history: the URL the user asked for last, and how
          due,      \* history: the query of the last load, unless it failed,
          listed    \*   and the query whose answer is in state.rows

page    == <<state, fresh, shown, router, refs>>
history == <<asked, due, listed>>
vars    == <<page, flight, awaiting, chats, moves, history>>

-----------------------------------------------------------------------------
Page  == 1 .. LastPage
Query == [filter : Filter, page : Page]
Url   == [channel : Channel \cup {None}, query : Query]

\* What useState keeps, and what a render shows.
State == [active : Channel \cup {None}, query : Query, rows : Seq(Channel),
          total : Nat, loading : BOOLEAN]
View  == [state : State, url : Url]

ASSUME FoundAssumption == Found \in [SUBSET Channel -> [Filter -> Seq(Channel)]]
ASSUME BoundAssumption == PageSize \in Nat \ {0} /\ LastPage \in Nat \ {0} /\ MaxMoves \in Nat
ASSUME NoneAssumption  == None \notin Channel /\ None \notin View /\ DefaultFilter \in Filter

\* What buildFilterSearch makes the empty string.
DefaultQuery == [filter |-> DefaultFilter, page |-> 1]

\* What listChatChannels answers to a query.
Listing(q) ==
    LET found == Found[chats][q.filter]
    IN SubSeq(found, (q.page - 1) * PageSize + 1,
              IF Len(found) < q.page * PageSize THEN Len(found) ELSE q.page * PageSize)

\* selectNextActiveChatChannelId, selectPreferredActiveChatChannelId.
NextActive(rows, current) ==
    IF current \in ToSet(rows) THEN current
    ELSE IF rows = <<>> THEN None ELSE rows[1]
Preferred(rows, current, requested) ==
    IF requested \in ToSet(rows) THEN requested ELSE NextActive(rows, current)

\* The component's useState calls.
StateAt(u) == [active |-> u.channel, query |-> u.query, rows |-> <<>>, total |-> 0,
               loading |-> TRUE]
Asked(by, u) == [by |-> by, url |-> u]

Init == /\ router \in Url
        /\ chats \in {Channel} \cup {Channel \ {c} : c \in Channel}
        /\ state = StateAt(router)
        /\ fresh = FALSE
        /\ shown = None
        /\ refs = [requested |-> router.channel, pending |-> DefaultQuery,
                   applying |-> FALSE, hydrated |-> FALSE]
        /\ flight = {}
        /\ awaiting = {}
        /\ moves = 0
        /\ asked = Asked("link", router)
        /\ due = None
        /\ listed = None

-----------------------------------------------------------------------------
(* Loads of the channel list.  Requests that were overtaken are kept       *)
(* because their answers still come.                                       *)

\* Everything that was set has been rendered.
Rendered == shown = [state |-> state, url |-> router] /\ ~fresh

Overtaken == {[r EXCEPT !.latest = FALSE] : r \in flight}

\* loadChannels up to its request; `then` is the channel its caller opens
\* when it returns, None if it opens none.
Load(q, then) == /\ flight' = Overtaken \cup {[query |-> q, latest |-> TRUE, then |-> then]}
                 /\ due' = q

\* Its caller goes on after an overtaken request all the same.
Opened(r, s) == IF r.then = None THEN s ELSE [s EXCEPT !.active = r.then]
AskedAfter(r) == IF r.then = None THEN asked ELSE Asked("none", router)

\* Mutant of Counts: no comparison of request ids.
Counts_Any(r) == TRUE
Counts(r) == r.latest

\* The answer to the last request is shown; a handler goes on either way.
Answer(r) ==
    /\ Rendered
    /\ LET rows == Listing(r.query) IN
       state' = Opened(r, IF Counts(r)
                          THEN [state EXCEPT !.rows = rows, !.total = Len(Found[chats][r.query.filter]),
                                             !.active = Preferred(rows, @, refs.requested),
                                             !.loading = FALSE]
                          ELSE state)
    /\ fresh' = (fresh \/ Counts(r))
    /\ listed' = IF Counts(r) THEN r.query ELSE listed
    /\ flight' = flight \ {r}
    /\ asked' = IF Counts(r) /\ r.then = None /\ asked.by = "link" /\ r.query # asked.url.query
                THEN Asked("filters", asked.url) ELSE AskedAfter(r)
    /\ UNCHANGED <<shown, router, refs, awaiting, chats, moves, due>>

Fail(r) ==
    /\ Rendered
    /\ moves < MaxMoves
    /\ moves' = moves + 1
    /\ state' = Opened(r, IF Counts(r) THEN [state EXCEPT !.loading = FALSE] ELSE state)
    /\ due' = IF Counts(r) THEN listed ELSE due
    /\ flight' = flight \ {r}
    /\ asked' = AskedAfter(r)
    /\ UNCHANGED <<fresh, shown, router, refs, awaiting, chats, listed>>

-----------------------------------------------------------------------------
(* The effects, in the order in which they run after a render of state s   *)
(* at URL u.  Each takes the refs as the ones before it left them.  An     *)
(* effect runs when one of its dependencies changed, the one that compares *)
(* the filters after every render.                                         *)

First == shown = None
OpenChanged(s, u) == First \/ shown.state.active # s.active
UrlChanged(u)     == First \/ shown.url # u
ListChanged       == First \/ fresh
LoadingChanged(s) == First \/ shown.state.loading # s.loading
ChannelWanted(s, u) == u.channel # None /\ u.channel # s.active

\* Remember the channel the URL asks for.
RememberRequested(s, u) ==
    IF ~(OpenChanged(s, u) \/ UrlChanged(u)) THEN refs
    ELSE IF u.channel = None THEN [refs EXCEPT !.requested = None]
    ELSE IF ChannelWanted(s, u) THEN [refs EXCEPT !.requested = u.channel] ELSE refs

\* Open it, unless the list is there and does not have it.
OpenRequested(s, u) ==
    /\ OpenChanged(s, u) \/ ListChanged \/ LoadingChanged(s) \/ UrlChanged(u)
    /\ ChannelWanted(s, u)
    /\ s.loading \/ u.channel \in ToSet(s.rows)

\* Take over the filters of the URL if they differ.
Differs(s, u) == u.query # s.query
RefsFromUrl(s, u, r) ==
    IF Differs(s, u)
    THEN [r EXCEPT !.pending = u.query, !.applying = TRUE,
                   !.requested = IF u.channel # None THEN u.channel ELSE @]
    ELSE [r EXCEPT !.pending = DefaultQuery, !.applying = FALSE]

\* Back to the first page when a filter changed, except by the URL or at mount.
FilterChanged(s) == First \/ shown.state.query.filter # s.query.filter
ResetsPage(s, r) == FilterChanged(s) /\ ~r.applying /\ r.hydrated
RefsHydrated(s, r) ==
    IF FilterChanged(s) /\ ~r.applying THEN [r EXCEPT !.hydrated = TRUE] ELSE r

\* Leave a channel that is not in the list.
LeavesOpen(s, u, r) ==
    /\ OpenChanged(s, u) \/ ListChanged \/ LoadingChanged(s) \/ UrlChanged(u)
    /\ s.rows # <<>>
    /\ ~(u.channel # None /\ u.channel = s.active /\ u.channel \notin ToSet(s.rows))
    /\ ~(ChannelWanted(s, u) /\ (r.applying \/ s.loading))
    /\ s.active \notin ToSet(s.rows)

\* Open the channel of the URL as soon as the list has it.
OpenListed(s, u) == /\ OpenChanged(s, u) \/ ListChanged \/ UrlChanged(u)
                    /\ ChannelWanted(s, u)
                    /\ u.channel \in ToSet(s.rows)

\* Mutants of Navigates: the filters of the URL are not waited for; its channel
\* is not; it is waited for although it will not come.
Navigates_NotPending(s, u, r) ==
    /\ ~(ChannelWanted(s, u) /\ (s.loading \/ u.channel \in ToSet(s.rows)))
    /\ u # [channel |-> s.active, query |-> s.query]
Navigates_Channel(s, u, r) ==
    /\ r.pending = DefaultQuery
    /\ u # [channel |-> s.active, query |-> s.query]
Navigates_ForEver(s, u, r) ==
    /\ r.pending = DefaultQuery
    /\ ~ChannelWanted(s, u)
    /\ u # [channel |-> s.active, query |-> s.query]

\* Write state into the URL, unless the filters of the URL are being taken
\* over or its channel will be.
Synced(s, u, r) ==
    [channel |-> IF s.active # None THEN s.active
                 ELSE IF u.channel # None THEN u.channel ELSE r.requested,
     query |-> s.query]
RefsSettled(s, r) ==
    IF r.pending = DefaultQuery THEN r
    ELSE IF r.pending = s.query THEN [r EXCEPT !.pending = DefaultQuery, !.applying = FALSE] ELSE r
Navigates(s, u, r) ==
    /\ OpenChanged(s, u) \/ ListChanged \/ LoadingChanged(s) \/ UrlChanged(u)
        \/ shown.state.query # s.query
    /\ r.pending = DefaultQuery
    /\ ~(ChannelWanted(s, u) /\ (s.loading \/ u.channel \in ToSet(s.rows)))
    /\ Synced(s, u, r) # u

-----------------------------------------------------------------------------
\* Mutant of StateAfter: pages counted from zero.
StateAfter_PageZero(s, u, r, loads) == [s EXCEPT !.query.page = IF ResetsPage(s, r) THEN 0 ELSE @]

\* The state the effects leave behind; of several setActiveChannelId the
\* last one counts.
ActiveAfter(s, u, r) ==
    IF OpenListed(s, u) THEN u.channel
    ELSE IF LeavesOpen(s, u, r) THEN Preferred(s.rows, s.active, r.requested)
    ELSE IF OpenRequested(s, u) \/ (Differs(s, u) /\ u.channel # None) THEN u.channel
    ELSE s.active

StateAfter(s, u, r, loads) ==
    LET query == IF Differs(s, u) THEN u.query ELSE s.query
    IN [s EXCEPT !.active = ActiveAfter(s, u, r),
                 !.query = IF ResetsPage(s, r) THEN [query EXCEPT !.page = 1] ELSE query,
                 !.loading = @ \/ loads]

\* A render with URL u, and its effects.  A new query means a new
\* loadChannels, which its effect calls.
RenderAt(u) ==
    LET s     == state
        r     == RefsFromUrl(s, u, RememberRequested(s, u))
        loads == First \/ shown.state.query # s.query
    IN /\ First \/ fresh \/ shown # [state |-> s, url |-> u]
       /\ shown' = [state |-> s, url |-> u]
       /\ fresh' = FALSE
       /\ state' = StateAfter(s, u, r, loads)
       /\ refs' = RefsSettled(s, RefsHydrated(s, r))
       /\ IF loads THEN Load(s.query, None) ELSE UNCHANGED <<flight, due>>
       /\ router' = IF Navigates(s, u, RefsHydrated(s, r)) THEN Synced(s, u, r) ELSE router
       /\ UNCHANGED <<awaiting, chats, moves, asked, listed>>

\* Everything that was set, or only what was not set as a transition.
Render      == RenderAt(router)
RenderFirst == ~First /\ shown.url # router /\ RenderAt(shown.url)

-----------------------------------------------------------------------------
\* What the user does, who acts on a page that is rendered.
Move(asks) == /\ Rendered
              /\ moves < MaxMoves
              /\ moves' = moves + 1
              /\ asked' = asks
              /\ UNCHANGED <<fresh, shown, refs, listed>>

\* A chat of the list is clicked.
SelectChannel(c) ==
    /\ Move(Asked("pick", [router EXCEPT !.channel = c]))
    /\ c \in ToSet(state.rows) /\ c # state.active
    /\ state' = [state EXCEPT !.active = c]
    /\ UNCHANGED <<router, flight, awaiting, chats, due>>

\* handleStartFreshChat.
StartFreshChat ==
    /\ Move(Asked("none", router))
    /\ state.active # None
    /\ state' = [state EXCEPT !.active = None]
    /\ UNCHANGED <<router, flight, awaiting, chats, due>>

\* A filter or a page is chosen in the sidebar.
ChangeFilter(f) ==
    /\ Move(Asked("none", router))
    /\ f # state.query.filter
    /\ state' = [state EXCEPT !.query.filter = f]
    /\ UNCHANGED <<router, flight, awaiting, chats, due>>

ChangePage(p) ==
    /\ Move(Asked("none", router))
    /\ p # state.query.page /\ (p - 1) * PageSize < state.total
    /\ state' = [state EXCEPT !.query.page = p]
    /\ UNCHANGED <<router, flight, awaiting, chats, due>>

\* A link to a chat is followed, or back or forward is pressed.  The page owes
\* it the chat, too, if the list that will decide about it is up to date.
Navigate(u) ==
    /\ Move(Asked(IF u.query = state.query /\ ~state.loading /\ state.rows # Listing(u.query)
                  THEN "filters" ELSE "link", u))
    /\ u # router
    /\ router' = u
    /\ UNCHANGED <<state, flight, awaiting, chats, due>>

\* A message or an event of the open channel arrives.
SocketEvent ==
    /\ Rendered /\ moves < MaxMoves
    /\ moves' = moves + 1
    /\ shown.state.active # None
    /\ Load(shown.state.query, None)
    /\ state' = [state EXCEPT !.loading = TRUE]
    /\ UNCHANGED <<fresh, shown, router, refs, awaiting, chats, asked, listed>>

\* The handlers that change the open channel (owners, members, close, reopen).
\* They keep the loadChannels, and with it the query, of the render they
\* were called from.
CallApi ==
    /\ Move(asked)
    /\ state.active # None
    /\ awaiting' = awaiting \cup {[query |-> state.query, new |-> None]}
    /\ UNCHANGED <<state, router, flight, chats, due>>

\* handleCreateSupportChat, which then opens the new chat.
CreateChat(c) ==
    /\ Move(Asked("none", router))
    /\ c \notin chats
    /\ chats' = chats \cup {c}
    /\ awaiting' = awaiting \cup {[query |-> state.query, new |-> c]}
    /\ UNCHANGED <<state, router, flight, due>>

\* The API answers a handler, which calls loadChannels.
ApiAnswers(a) ==
    /\ Rendered
    /\ awaiting' = awaiting \ {a}
    /\ Load(a.query, a.new)
    /\ state' = [state EXCEPT !.loading = TRUE]
    /\ UNCHANGED <<fresh, shown, router, refs, chats, moves, asked, listed>>

-----------------------------------------------------------------------------
Next == \/ Render \/ RenderFirst
        \/ \E r \in flight : Answer(r) \/ Fail(r)
        \/ \E c \in Channel : SelectChannel(c) \/ CreateChat(c)
        \/ StartFreshChat \/ SocketEvent \/ CallApi
        \/ \E f \in Filter : ChangeFilter(f)
        \/ \E p \in Page : ChangePage(p)
        \/ \E u \in Url : Navigate(u)
        \/ \E a \in awaiting : ApiAnswers(a)

Spec == Init /\ [][Next]_vars

\* React renders what was set, and requests are answered.
Fairness == /\ WF_vars(Render)
            /\ WF_vars(\E r \in flight : Answer(r))
            /\ WF_vars(\E a \in awaiting : ApiAnswers(a))

FairSpec == Spec /\ Fairness

-----------------------------------------------------------------------------
TypeOK ==
    /\ state \in State
    /\ shown \in View \cup {None}
    /\ fresh \in BOOLEAN
    /\ router \in Url
    /\ refs \in [requested : Channel \cup {None}, pending : Query,
                 applying : BOOLEAN, hydrated : BOOLEAN]
    /\ flight \subseteq [query : Query, latest : BOOLEAN, then : Channel \cup {None}]
    /\ awaiting \subseteq [query : Query, new : Channel \cup {None}]
    /\ chats \subseteq Channel
    /\ moves \in 0 .. MaxMoves
    /\ asked \in [by : {"link", "filters", "pick", "none"}, url : Url]
    /\ due \in Query \cup {None} /\ listed \in Query \cup {None}

\* The page is at rest: nothing to render and nothing to wait for.
Quiet == Rendered /\ flight = {} /\ awaiting = {}

\* The list shown is the answer to the last request that did not fail, in
\* whatever order answers come (loadChannels compares request ids).
LatestLoadWins == ~state.loading => listed = due

\* A page at rest has the same filters in its state and in its URL, and the
\* chat it shows is the one a copy of its URL would open.
RestAgrees == Quiet => /\ state.query = router.query
                       /\ state.rows = <<>> \/ state.active = router.channel

\* A page at rest shows what a link asked for, whatever was being loaded when
\* the link was followed: its filters, and its chat if the list has that.  A
\* link without filters is another matter, see LinkReachesPage; so is a list
\* that was out of date or was replaced meanwhile, see LinkKeepsChat.
LinkWins ==
    (Quiet /\ asked.by \in {"link", "filters"} /\ asked.url.query # DefaultQuery)
        => /\ state.query = asked.url.query
           /\ asked.by = "link" /\ asked.url.channel \in ToSet(state.rows)
                => state.active = asked.url.channel

\* Not true of the code: a link without filters looks like one to the default
\* ones, which the page may leave again for those it had.
LinkReachesPage ==
    (Quiet /\ asked.by \in {"link", "filters"}) => state.query = asked.url.query

\* Not true of the code: a link to a chat that the list at hand lacks, because
\* its load failed, is dropped at once, and a later list with the chat in it does
\* not bring the link back.
LinkKeepsChat ==
    (Quiet /\ asked.by \in {"link", "filters"} /\ asked.url.query # DefaultQuery)
        => (listed = state.query /\ asked.url.channel \in ToSet(state.rows)
                => state.active = asked.url.channel)

\* The effects do not chase each other: once nobody does anything any more,
\* the page comes to rest.
ComesToRest == <>[]Quiet

\* How far a cascade of renders is from its end.  First its filters: those that
\* are set, those of the URL that is shown and those of the router still have
\* to meet, and setting one may set the page back to the first.
FiltersLeft ==
    LET set == state.query
        url == shown.url.query
    IN (IF set = url THEN IF shown.state.query.filter # set.filter /\ set.page # 1 THEN 2 ELSE 0
                     ELSE IF set.filter = url.filter THEN 1 ELSE 3)
       + (IF set = url /\ url = router.query THEN 0
          ELSE IF router.query = DefaultQuery THEN 4
          ELSE IF url # router.query THEN 3 ELSE 0)

\* Then its chat: the fewer of the open chat, that of the URL and that of the
\* router agree, and the fewer of them the list has, the longer it takes.
ChatLeft ==
    LET chat == state.active
        url  == shown.url.channel
        goal == router.channel
        In(c) == c \in ToSet(state.rows)
    IN IF chat = goal /\ In(chat) /\ ~In(url) THEN 2
       ELSE IF chat = goal /\ url = goal /\ goal # None THEN 0
       ELSE IF chat = url /\ url # None /\ goal # None /\ state.loading THEN 1
       ELSE IF chat = url THEN 5
       ELSE IF goal # None /\ In(chat) /\ ~In(url) THEN 3
       ELSE IF \/ chat = goal /\ goal # None /\ ~In(url)
               \/ url = goal /\ ~In(goal)
            THEN 4
       ELSE IF ~In(chat) THEN 7 ELSE 6

\* Then what was set and no render has shown.
Unseen == IF shown.state.query # state.query THEN 2
          ELSE IF fresh \/ shown.state.active # state.active \/ shown.state.loading # state.loading
          THEN 1 ELSE 0

Distance == IF First THEN 192 ELSE 24 * FiltersLeft + 3 * ChatLeft + Unseen

\* No effect undoes for ever what another did: every render of a cascade, also
\* one that leaves out a transition, brings it nearer to its end, whatever was
\* set before it.  No cascade has more renders than Distance counts.
CascadeEnds == [][Render \/ RenderFirst => Distance' < Distance]_vars

\* A chat picked from the list reaches the URL, unless something else is done.
PickReachesUrl ==
    \A u \in Url : (asked = Asked("pick", u)) ~> (router.channel = u.channel \/ asked # Asked("pick", u))
=============================================================================
