-------------------------- MODULE ChatConversation --------------------------
(***************************************************************************)
(* The open conversation of the chat page: the hook useChatMessaging, which *)
(* keeps one websocket for the open channel, and loadMessages of Chat.tsx, *)
(* against the server's message store, its websocket loops and its hub.    *)
(*                                                                         *)
(* The list that is shown is a copy fed from three sides: the newest page, *)
(* older pages that are put in front of it, and messages that are pushed.  *)
(* Loads are not tied to the channel they were made for, pushes are lost   *)
(* while no socket is subscribed, and a socket that is given up reports    *)
(* its end later, when the next one may be open already.                   *)
(*                                                                         *)
(* A channel becomes open by what ChatWorkspace does.  Texts, drafts and   *)
(* what this user types to others are left out, and of the remote typists  *)
(* there is one.  A render and its effects are one step with their cause.  *)
(***************************************************************************)
EXTENDS Integers, Sequences, FiniteSets, SequencesExt

CONSTANTS Channel, None,
          Stored,   \* [Channel -> Nat]: messages there are at the beginning
          PageSize, \* messages of a page
          MaxMoves  \* bound on what users and the network do

ASSUME StoredAssumption == Stored \in [Channel -> Nat]
ASSUME BoundAssumption  == PageSize \in Nat \ {0} /\ MaxMoves \in Nat
ASSUME NoneAssumption   == None \notin Channel

VARIABLES active,   \* activeChannelId
          shown,    \* messages
          total,    \* totalMessages
          page,     \* messagePage
          older,    \* loadingOlderMessages
          loads,    \* requests of loadMessages on their way
          sock,     \* the socket of the running effect
          inbox,    \*   and what is on its way to it
          retry,    \* the reconnect timer runs
          closing,  \* sockets that were closed and have not reported it yet
          ready,    \* readyChannelId
          label,    \* the channel in which somebody is shown as typing
          timer,    \* the channel of the timer that ends this
          stored,   \* server: number of messages of a channel
          posting,  \* server: messages on their way through a websocket loop
          moves,
          missed,   \* history: pushes of the open channel that were lost
          astray    \* history: a load of the open channel failed or was not alone

list    == <<shown, total, page, older, loads>>
socket  == <<sock, inbox, retry, closing, ready>>
typing  == <<label, timer>>
server  == <<stored, posting>>
history == <<missed, astray>>
vars    == <<active, list, socket, typing, server, moves, history>>

-----------------------------------------------------------------------------
\* Message nr of channel of.
Message(c, n) == [of |-> c, nr |-> n]

\* Mutant of PageOf: pages counted from zero.
PageOf_FromZero(c, p, k) ==
    LET last  == k - p * PageSize
        first == IF last > PageSize THEN last - PageSize + 1 ELSE 1
    IN IF last < 1 THEN <<>> ELSE [i \in 1 .. last - first + 1 |-> Message(c, first + i - 1)]
\* What listChatMessages answers: page p, counted from the newest, of the
\* first k messages, oldest first.
PageOf(c, p, k) ==
    LET last  == k - (p - 1) * PageSize
        first == IF last > PageSize THEN last - PageSize + 1 ELSE 1
    IN IF last < 1 THEN <<>> ELSE [i \in 1 .. last - first + 1 |-> Message(c, first + i - 1)]

\* Mutant of mergeMessages: pages are only put together.
mergeMessages_Plain(s) == s
\* Of equal messages the first one stays.
Firsts(s) == {i \in DOMAIN s : \A j \in DOMAIN s : s[j] = s[i] => i <= j}
Nth(S, k) == CHOOSE i \in S : Cardinality({j \in S : j <= i}) = k
mergeMessages(s) == [k \in 1 .. Cardinality(Firsts(s)) |-> s[Nth(Firsts(s), k)]]

Unread == -1
Request(c, p, mode) == [of |-> c, page |-> p, mode |-> mode, read |-> Unread]

Init == /\ active = None
        /\ shown = <<>> /\ total = 0 /\ page = 1 /\ older = FALSE /\ loads = {}
        /\ sock = "none" /\ inbox = <<>> /\ retry = FALSE
        /\ closing = [c \in Channel |-> 0] /\ ready = None
        /\ label = None /\ timer = None
        /\ stored = Stored /\ posting = {}
        /\ moves = 0
        /\ missed = {} /\ astray = FALSE

Move == moves < MaxMoves /\ moves' = moves + 1

-----------------------------------------------------------------------------
(* The socket.  Events of a socket that was closed are not delivered, but   *)
(* for its end.                                                            *)

Lost == {m \in ToSet(inbox) : m.kind = "message"}

\* Mutant of HangUp: the frames that are on their way go to the next socket.
HangUp_KeepsInbox == /\ closing' = IF sock = "none" THEN closing ELSE [closing EXCEPT ![active] = @ + 1]
                     /\ UNCHANGED inbox
                     /\ retry' = FALSE
\* The cleanup of the socket effect.
HangUp == /\ closing' = IF sock = "none" THEN closing ELSE [closing EXCEPT ![active] = @ + 1]
          /\ inbox' = <<>>
          /\ retry' = FALSE

\* Another channel is opened, or none: both effects run.
Open(c) ==
    /\ Move
    /\ c # active
    /\ active' = c
    /\ HangUp
    /\ sock' = IF c = None THEN "none" ELSE "connecting"
    /\ shown' = IF c = None THEN <<>> ELSE shown
    /\ page' = 1 /\ total' = 0
    /\ loads' = IF c = None THEN loads ELSE loads \cup {Request(c, 1, "replace")}
    /\ timer' = None
    /\ missed' = {} /\ astray' = (loads # {})
    /\ UNCHANGED <<older, ready, label, server>>

\* loadChannels is another function after a change of the filters, which
\* starts the socket effect again.
Refilter ==
    /\ Move
    /\ active # None
    /\ HangUp
    /\ sock' = "connecting"
    /\ missed' = missed \cup {m.message : m \in Lost}
    /\ UNCHANGED <<active, list, ready, typing, server, astray>>

\* The server upgrades the connection and subscribes it.
Accept == /\ sock = "connecting"
          /\ sock' = "accepted"
          /\ UNCHANGED <<active, list, inbox, retry, closing, ready, typing, server, moves, history>>

OnOpen == /\ sock = "accepted"
          /\ sock' = "open"
          /\ ready' = active
          /\ UNCHANGED <<active, list, inbox, retry, closing, typing, server, moves, history>>

\* Mutant of Closed: the label stays.
Closed_KeepsLabel(c) == /\ ready' = IF ready = c THEN None ELSE ready
                        /\ UNCHANGED label
\* onclose, whoever closed the socket.
Closed(c) == /\ ready' = IF ready = c THEN None ELSE ready
             /\ label' = IF label = c THEN None ELSE label

\* Mutant of Drop: only a socket that was open is opened again.
Drop_OpenOnly ==
    /\ Move
    /\ sock # "none"
    /\ sock' = "none" /\ inbox' = <<>> /\ retry' = (sock = "open")
    /\ Closed(active)
    /\ missed' = missed \cup {m.message : m \in Lost}
    /\ UNCHANGED <<active, list, closing, timer, server, astray>>
\* The connection fails or breaks.
Drop ==
    /\ Move
    /\ sock # "none"
    /\ sock' = "none" /\ inbox' = <<>> /\ retry' = TRUE
    /\ Closed(active)
    /\ missed' = missed \cup {m.message : m \in Lost}
    /\ UNCHANGED <<active, list, closing, timer, server, astray>>

Reconnect == /\ retry
             /\ retry' = FALSE
             /\ sock' = "connecting"
             /\ UNCHANGED <<active, list, inbox, closing, ready, typing, server, moves, history>>

\* A socket that was given up reports its end.
OldCloses(c) == /\ closing[c] > 0
                /\ closing' = [closing EXCEPT ![c] = @ - 1]
                /\ Closed(c)
                /\ UNCHANGED <<active, list, sock, inbox, retry, timer, server, moves, history>>

-----------------------------------------------------------------------------
(* What arrives on the open socket.                                        *)

\* Mutant of OnMessage: what is there already is appended again.
OnMessage_Again(f) ==
    /\ shown' = Append(shown, f.message)
    /\ total' = total + 1
    /\ label' = IF f.mine /\ label = active THEN label ELSE None
    /\ UNCHANGED timer
OnMessage(f) ==
    /\ IF f.message \in ToSet(shown) THEN UNCHANGED <<shown, total>>
       ELSE shown' = Append(shown, f.message) /\ total' = total + 1
    /\ label' = IF f.mine /\ label = active THEN label ELSE None
    /\ UNCHANGED timer

OnTyping(f) == /\ label' = IF f.on THEN active ELSE None
               /\ timer' = IF f.on THEN active ELSE None
               /\ UNCHANGED <<shown, total>>

OnFrame == /\ sock = "open" /\ inbox # <<>>
           /\ inbox' = Tail(inbox)
           /\ IF Head(inbox).kind = "message" THEN OnMessage(Head(inbox)) ELSE OnTyping(Head(inbox))
           /\ UNCHANGED <<active, page, older, loads, sock, retry, closing, ready, server, moves, history>>

\* 1600 ms after a typist was heard last.
TypingTimeout == /\ timer # None
                 /\ timer' = None /\ label' = None
                 /\ UNCHANGED <<active, list, socket, server, moves, history>>

-----------------------------------------------------------------------------
(* Loads.                                                                  *)

handleLoadOlderMessages ==
    /\ Move
    /\ active # None /\ ~older /\ Len(shown) < total
    /\ older' = TRUE
    /\ loads' = loads \cup {Request(active, page + 1, "prepend")}
    /\ UNCHANGED <<active, shown, total, page, socket, typing, server, history>>

\* handleCreateSupportChat loads its chat, which is new, whatever is open.
Created(c) ==
    /\ Move
    /\ active # None /\ stored[c] <= 1
    /\ loads' = loads \cup {Request(c, 1, "replace")}
    /\ astray' = (astray \/ c # active \/ loads # {})
    /\ UNCHANGED <<active, shown, total, page, older, socket, typing, server, missed>>

\* The server reads the page.
listChatMessages(r) ==
    /\ r.read = Unread
    /\ loads' = (loads \ {r}) \cup {[r EXCEPT !.read = stored[r.of]]}
    /\ UNCHANGED <<active, shown, total, page, older, socket, typing, server, moves, history>>

\* Its answer is shown, whatever is open by now.
Answer(r) ==
    LET items == PageOf(r.of, r.page, r.read) IN
    /\ r.read # Unread
    /\ loads' = loads \ {r}
    /\ page' = r.page /\ total' = r.read
    /\ shown' = mergeMessages(IF r.mode = "prepend" THEN items \o shown ELSE items)
    /\ older' = (older /\ r.mode # "prepend")
    /\ missed' = IF r.mode = "prepend" THEN missed
                 ELSE missed \cup {x \in ToSet(shown) : x.of = r.of /\ x.nr > r.read}
    /\ UNCHANGED <<active, socket, typing, server, moves, astray>>

LoadFails(r) ==
    /\ Move
    /\ loads' = loads \ {r}
    /\ older' = (older /\ r.mode # "prepend")
    /\ astray' = TRUE
    /\ UNCHANGED <<active, shown, total, page, socket, typing, server, missed>>

-----------------------------------------------------------------------------
(* The server: each member's websocket loop, one message at a time, and the *)
(* hub.                                                                    *)

handleSend ==
    /\ Move
    /\ sock = "open"
    /\ \A p \in posting : ~p.mine
    /\ posting' = posting \cup {[of |-> active, mine |-> TRUE, nr |-> 0]}
    /\ UNCHANGED <<active, list, socket, typing, stored, history>>

OtherSends(c) ==
    /\ Move
    /\ \A p \in posting : p.mine
    /\ posting' = posting \cup {[of |-> c, mine |-> FALSE, nr |-> 0]}
    /\ UNCHANGED <<active, list, socket, typing, stored, history>>

\* The chat is closed, the text too long or the statement fails.
Refuse(p) == /\ p.nr = 0
             /\ posting' = posting \ {p}
             /\ UNCHANGED <<active, list, socket, typing, stored, moves, history>>

Insert(p) == /\ p.nr = 0
             /\ stored' = [stored EXCEPT ![p.of] = @ + 1]
             /\ posting' = (posting \ {p}) \cup {[p EXCEPT !.nr = stored[p.of] + 1]}
             /\ UNCHANGED <<active, list, socket, typing, moves, history>>

\* Mutant of Hears: every connection is a subscriber of every channel.
Hears_All(c) == sock \in {"accepted", "open"}
Hears(c) == sock \in {"accepted", "open"} /\ active = c

publish(p) ==
    /\ p.nr # 0
    /\ posting' = posting \ {p}
    /\ inbox' = IF Hears(p.of)
                THEN Append(inbox, [kind |-> "message", message |-> Message(p.of, p.nr), mine |-> p.mine])
                ELSE inbox
    /\ missed' = IF ~Hears(p.of) /\ p.of = active THEN missed \cup {Message(p.of, p.nr)} ELSE missed
    /\ UNCHANGED <<active, list, sock, retry, closing, ready, typing, stored, moves, astray>>

OtherTypes(on) ==
    /\ Move
    /\ Hears(active)
    /\ inbox' = Append(inbox, [kind |-> "typing", on |-> on])
    /\ UNCHANGED <<active, list, sock, retry, closing, ready, typing, server, history>>

-----------------------------------------------------------------------------
Next == \/ \E c \in Channel \cup {None} : Open(c)
        \/ \E c \in Channel : OldCloses(c) \/ Created(c) \/ OtherSends(c)
        \/ Refilter \/ Accept \/ OnOpen \/ Drop \/ Reconnect \/ OnFrame \/ TypingTimeout
        \/ handleLoadOlderMessages \/ handleSend
        \/ \E r \in loads : listChatMessages(r) \/ Answer(r) \/ LoadFails(r)
        \/ \E p \in posting : Refuse(p) \/ Insert(p) \/ publish(p)
        \/ \E on \in BOOLEAN : OtherTypes(on)

Spec == Init /\ [][Next]_vars

\* Timers fire, the server and the network go on, and every socket that is
\* closed reports it.
Fairness == /\ WF_vars(Accept) /\ WF_vars(OnOpen) /\ WF_vars(OnFrame)
            /\ WF_vars(Reconnect) /\ WF_vars(TypingTimeout)
            /\ \A c \in Channel : WF_vars(OldCloses(c))

FairSpec == Spec /\ Fairness

-----------------------------------------------------------------------------
Messages == [of : Channel, nr : Nat \ {0}]

TypeOK ==
    /\ active \in Channel \cup {None}
    /\ shown \in Seq(Messages) /\ total \in Nat /\ page \in Nat \ {0}
    /\ older \in BOOLEAN
    /\ loads \subseteq [of : Channel, page : Nat \ {0}, mode : {"replace", "prepend"},
                        read : Nat \cup {Unread}]
    /\ sock \in {"none", "connecting", "accepted", "open"}
    /\ sock = "none" => inbox = <<>>
    /\ retry => sock = "none" /\ active # None
    /\ closing \in [Channel -> Nat]
    /\ {ready, label, timer} \subseteq Channel \cup {None}
    /\ stored \in [Channel -> Nat]
    /\ posting \subseteq [of : Channel, mine : BOOLEAN, nr : Nat]
    /\ moves \in 0 .. MaxMoves
    /\ missed \subseteq Messages /\ astray \in BOOLEAN

\* No message is shown twice, though pages that are counted from the newest
\* message shift while messages come in, and though a message comes both in a
\* page and as a push.
NoDuplicates == \A i, j \in DOMAIN shown : shown[i] = shown[j] => i = j

\* A message of another chat gets into the list by nothing but the answer of a
\* load of that chat, late or made by handleCreateSupportChat: never as a push,
\* though the chat is changed while the message is on its way, connections break
\* and are set up again, and sockets that were given up end later.  And whatever
\* is shown, the newest page of the open chat leaves only messages of this chat.
OwnMessages ==
    [][/\ \A x \in ToSet(shown') \ ToSet(shown) :
             x.of = active \/ \E r \in loads : Answer(r) /\ x.of = r.of
       /\ \A r \in loads : Answer(r) /\ r.mode = "replace" /\ r.of = active
             => \A x \in ToSet(shown') : x.of = active]_vars

\* Untrue: with no load on its way, only messages of the open chat are shown.  The
\* answer of a load of the chat that was open before comes last, and stays.
OwnAtRest == active # None /\ loads = {} => \A x \in ToSet(shown) : x.of = active

\* Between the message at the top of the list and the newest there is, nothing
\* is missing but pushes that came while no socket was there or just before
\* the list was replaced: no page is ever skipped.
NoHoles ==
    active # None /\ ~astray /\ shown # <<>>
    /\ loads = {} /\ inbox = <<>> /\ (\A p \in posting : p.nr = 0)
        => \A n \in shown[1].nr .. stored[active] :
               Message(active, n) \in ToSet(shown) \cup missed

\* Nobody is shown as typing for ever, though the timers are cleared when
\* another channel is opened and the label is not.
TypingEnds == <>[](active # None => label # active)

\* The open channel always gets an open socket again.
Reconnects == <>[](active # None => sock = "open")

\* The input is enabled whenever the socket is open and nothing is on its way.
ReadyWhenOpen == sock = "open" /\ closing = [c \in Channel |-> 0] => ready = active
=============================================================================
