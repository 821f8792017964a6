---------------------------- MODULE MCAgentLoop ----------------------------
\* Names for TLC: two messages, the second a reply to the first one.
EXTENDS AgentLoop

CONSTANTS t1, t2

MCReplyTo == [t \in Turn |-> IF t = t2 THEN t1 ELSE None]

=============================================================================
