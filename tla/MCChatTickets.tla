--------------------------- MODULE MCChatTickets ---------------------------
(* ChatTickets on small sets of model values. *)
EXTENDS ChatTickets, TLC

\* Chats, tickets and handlers are told apart by nothing but their identity.
Symmetry == Permutations(Channel) \cup Permutations(Ticket) \cup Permutations(Actor)
=============================================================================
