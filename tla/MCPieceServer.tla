--------------------------- MODULE MCPieceServer ---------------------------
(* Instances of PieceServer for TLC.                                        *)
EXTENDS PieceServer

CONSTANTS c1, c2, c3, i1, i2

\* c1 and c2 contend for one interface, c3 has one of its own.
MCIfaceOf == [c \in Clients |-> IF c = c3 THEN i2 ELSE i1]
\* The request of FloodClone::start: the range of all pieces.
MCRequests == [c \in Clients |-> [i \in 1 .. NumPieces |-> i - 1]]
=============================================================================
