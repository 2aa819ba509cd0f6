-------------------------------- MODULE Wire --------------------------------
(***************************************************************************)
(* The messages nodes exchange, as they are written to a stream and read   *)
(* back from it. A stream is a sequence of cells: a number is one cell and *)
(* a character is one cell (how many bytes each takes is left out), so     *)
(* that reading has to find its way as it does in the code. A reader gives *)
(* the value it has read and the rest of the stream.                       *)
(***************************************************************************)
EXTENDS Integers, SequencesExt

CONSTANTS
  IP4_LENGTH,  \* cells of an address field
  SizeMod      \* size_t counts modulo this number

ASSUME WireAssumption == IP4_LENGTH \in Nat \ {0} /\ SizeMod \in Nat \ {0}

NUL == 0       \* the character '\0'

Number(stream) == [value |-> Head(stream), rest |-> Tail(stream)]
\* The next n cells.
Cells(n, stream) ==
  [value |-> SubSeq(stream, 1, n), rest |-> SubSeq(stream, n + 1, Len(stream))]
\* n values, each read by Read.
Many(n, stream, Read(_)) ==
  LET read[i \in 0 .. n] ==
        IF i = 0 THEN [value |-> << >>, rest |-> stream]
        ELSE LET r == Read(read[i - 1].rest)
             IN  [value |-> Append(read[i - 1].value, r.value), rest |-> r.rest]
  IN  read[n]
\* A string is written with its length before it, and so is a vector.
Sized(s) == <<Len(s)>> \o s
SizedCells(stream) == Cells(Head(stream), Tail(stream))
SizedMany(stream, Read(_)) == Many(Head(stream), Tail(stream), Read)

-----------------------------------------------------------------------------
(* PieceMetaData and FileMetaData. An address is the sequence of its       *)
(* characters, in a field of fixed length that strncpy fills up to the     *)
(* last cell but one.                                                      *)

AddressField(ip) ==
  [i \in 1 .. IP4_LENGTH |-> IF i <= Len(ip) /\ i < IP4_LENGTH THEN ip[i] ELSE NUL]
\* Mutant: an address is read without the last cell of its field.
ShortAddress(stream) == Cells(IP4_LENGTH - 1, stream)
Address(stream) == Cells(IP4_LENGTH, stream)

SerializePiece(piece) ==
  <<Len(piece.srcs)>> \o FlattenSeq(piece.srcs) \o Sized(piece.checksum)

DeserializePiece(stream) ==
  LET srcs == SizedMany(stream, Address)
  IN  [srcs |-> srcs.value, checksum |-> SizedCells(srcs.rest).value]

SerializeFile(meta) ==
  Sized(meta.fileId) \o Sized(meta.filename) \o <<meta.fileSize, meta.numPieces>>
  \o FlattenSeq([i \in DOMAIN meta.pieces |-> Sized(SerializePiece(meta.pieces[i]))])

DeserializeFile(stream) ==
  LET fileId == SizedCells(stream)
      filename == SizedCells(fileId.rest)
      fileSize == Number(filename.rest)
      numPieces == Number(fileSize.rest)
      pieces == Many(numPieces.value, numPieces.rest, SizedCells).value
  IN  [fileId |-> fileId.value, filename |-> filename.value,
       fileSize |-> fileSize.value, numPieces |-> numPieces.value,
       pieces |-> [i \in DOMAIN pieces |-> DeserializePiece(pieces[i])]]

-----------------------------------------------------------------------------
(* PieceRequest: a single piece, ranges of pieces and a list of pieces. A  *)
(* request is a record of three sequences, the first with one element at   *)
(* most; its flags, the field types, name those that are not empty.        *)

types(req) == {field \in DOMAIN req : req[field] # << >>}

SerializeRequest(req) ==
  LET Section(field, cells) == IF field \in types(req) THEN cells ELSE << >>
  IN  <<types(req)>>
      \o Section("single", req.single)
      \o Section("ranges", <<Len(req.ranges)>> \o FlattenSeq(req.ranges))
      \o Section("pieces", Sized(req.pieces))

DeserializeRequest(stream) ==
  LET flags == Head(stream)
      Pair(s) == Cells(2, s)
      Section(field, s, Read(_)) ==
        IF field \in flags THEN Read(s) ELSE [value |-> << >>, rest |-> s]
      single == Section("single", Tail(stream), LAMBDA s : Cells(1, s))
      ranges == Section("ranges", single.rest, LAMBDA s : SizedMany(s, Pair))
      pieces == Section("pieces", ranges.rest, SizedCells)
  IN  [single |-> single.value, ranges |-> ranges.value, pieces |-> pieces.value]

\* The pieces the server goes through, in its order. A range whose end is the
\* largest size_t would never end; nobody asks for it. Mutant: the range goes on for one more.
OneMore(range) == [i \in 1 .. range[2] - range[1] + 2 |-> range[1] + i - 1]
Interval(range) == [i \in 1 .. range[2] - range[1] + 1 |-> range[1] + i - 1]
Walk(req) ==
  req.single \o FlattenSeq([i \in DOMAIN req.ranges |-> Interval(req.ranges[i])])
  \o req.pieces

\* Mutant: the end of a range is not counted.
HalfOpen(range) == (range[2] - range[1]) % SizeMod
\* The answers the client waits for; size_t wraps around.
RangeSize(range) == (range[2] - range[1] + 1) % SizeMod
total_pieces(req) ==
  LET count[i \in 0 .. Len(req.ranges)] ==
        IF i = 0 THEN Len(req.single)
        ELSE (count[i - 1] + RangeSize(req.ranges[i])) % SizeMod
  IN  count[Len(req.ranges)] + Len(req.pieces)
=============================================================================
