-------------------------- MODULE MCChatWorkspace --------------------------
EXTENDS ChatWorkspace
CONSTANTS a, b, c, open, closed
MCFound == [S \in SUBSET Channel |->
               [f \in Filter |-> SelectSeq(<<a, b, c>>, LAMBDA x : x \in S /\ (f = open \/ x = b))]]
=============================================================================
