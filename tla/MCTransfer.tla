----------------------------- MODULE MCTransfer -----------------------------
(* Instances of Transfer for TLC.                                           *)
EXTENDS Transfer

CONSTANTS src, relay, a, b

\* The relay downloads from the source, and a and b from the relay.
ByRelay == [n \in Dests |-> IF n = relay THEN src ELSE relay]
\* Everybody downloads from the source.
BySource == [n \in Dests |-> src]
NodeIp == <<7, 8, 9>>
=============================================================================
