------------------------- MODULE MCChatConversation -------------------------
EXTENDS ChatConversation
CONSTANTS a, b
MCStored == [c \in Channel |-> IF c = a THEN 3 ELSE 1]
=============================================================================
