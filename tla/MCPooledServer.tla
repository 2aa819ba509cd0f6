--------------------------- MODULE MCPooledServer ---------------------------
(* An instance of PooledServer for TLC.                                     *)
EXTENDS PooledServer

CONSTANTS c1, c2, c3, c4, i1, i2

\* c1, c2 and c3 come over one interface, c4 over another.
MCIfaceOf == [c \in Clients |-> IF c = c4 THEN i2 ELSE i1]
=============================================================================
