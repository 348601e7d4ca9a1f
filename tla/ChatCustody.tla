---------------------------- MODULE ChatCustody ----------------------------
(***************************************************************************)
(* What the chat handlers promise, without handlers, reads or races: at    *)
(* every moment exactly one keeper looks after a conversation, the live    *)
(* chat or one ticket; every ticket came from one conversation, and at     *)
(* most one ticket of a conversation is live.  ChatTickets implements it.  *)
(***************************************************************************)
CONSTANTS Channel, Ticket, None

VARIABLES keeper,   \* [Channel -> "nobody", "chat", "gone" or a ticket]
          origin,   \* [Ticket -> the conversation it was issued for, or None]
          live      \* the tickets being worked on

vars == <<keeper, origin, live>>


Init == /\ keeper = [c \in Channel |-> "nobody"]
        /\ origin = [t \in Ticket |-> None]
        /\ live = {}

\* No ticket but t is live for conversation c.
FreeFor(c, t) == \A u \in live : origin[u] = c => u = t

Start(c) == /\ keeper[c] = "nobody"
            /\ keeper' = [keeper EXCEPT ![c] = "chat"]
            /\ UNCHANGED <<origin, live>>

\* The conversation goes to a ticket issued for it earlier.
HandBack(c, t) == /\ keeper[c] = "chat"
                  /\ origin[t] = c
                  /\ keeper' = [keeper EXCEPT ![c] = t]
                  /\ UNCHANGED <<origin, live>>

\* The conversation goes to a new ticket, from the chat or from a ticket that
\* nobody works on any more.
Issue(c, t) == /\ keeper[c] \notin {"nobody", "gone"}
               /\ origin[t] = None
               /\ FreeFor(c, t)
               /\ keeper' = [keeper EXCEPT ![c] = t]
               /\ origin' = [origin EXCEPT ![t] = c]
               /\ live' = live \cup {t}

\* The conversation goes back to the chat, and one of its tickets is live.
TakeBack(c, t) == /\ keeper[c] \notin {"nobody", "gone"}
                  /\ origin[t] = c
                  /\ FreeFor(c, t)
                  /\ keeper' = [keeper EXCEPT ![c] = "chat"]
                  /\ live' = live \cup {t}
                  /\ UNCHANGED origin

Settle(t) == /\ live' = live \ {t}
             /\ UNCHANGED <<keeper, origin>>

Revive(t) == /\ origin[t] # None
             /\ FreeFor(origin[t], t)
             /\ live' = live \cup {t}
             /\ UNCHANGED <<keeper, origin>>

Drop(c) == /\ keeper[c] \notin {"nobody", "gone"}
           /\ keeper' = [keeper EXCEPT ![c] = "gone"]
           /\ UNCHANGED <<origin, live>>

Next == \/ \E c \in Channel : Start(c) \/ Drop(c)
        \/ \E c \in Channel, t \in Ticket : HandBack(c, t) \/ Issue(c, t) \/ TakeBack(c, t)
        \/ \E t \in Ticket : Settle(t) \/ Revive(t)

Spec == Init /\ [][Next]_vars
=============================================================================
