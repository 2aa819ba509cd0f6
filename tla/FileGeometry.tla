---------------------------- MODULE FileGeometry ----------------------------
(***************************************************************************)
(* How a file is cut into pieces of one size, the last one padded with     *)
(* zeros. A file is the sequence of its bytes; pieces count from 0.        *)
(***************************************************************************)
EXTENDS Integers, Sequences

CONSTANTS piece_size

ASSUME PieceSizeAssumption == piece_size \in Nat \ {0}

Zeros(n) == [i \in 1 .. n |-> 0]

num_pieces(fileSize) == (fileSize + piece_size - 1) \div piece_size
offset(i) == i * piece_size

\* send: the last piece might be smaller than the others.
NeedsPadding(i, fileSize) ==
  /\ i = num_pieces(fileSize) - 1
  /\ fileSize - offset(i) < piece_size
=============================================================================
