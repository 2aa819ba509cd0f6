--------------------------- MODULE TransferProofs ----------------------------
(***************************************************************************)
(* The invariants of Transfer, for every tree of nodes, size of pieces and *)
(* size of the file.                                                       *)
(*                                                                         *)
(* Inv relates what each node, worker and connection has; all that Transfer *)
(* promises but the content follows from it. RightInv is about the bytes: it *)
(* says what the shared string of a node holds while only one worker at a  *)
(* time makes it longer, and that what is in a file or on its way is the   *)
(* source's but below a node where two did.                                *)
(***************************************************************************)
EXTENDS Transfer, WireProofs, FiniteSetTheorems

\* A larger factor makes no smaller product.
LEMMA Product ==
  ASSUME NEW a \in Int, NEW b \in Int, NEW p \in Nat, a <= b
  PROVE  a * p <= b * p
OBVIOUS

\* How a product grows.
LEMMA Products ==
  ASSUME NEW a \in Int, NEW b \in Int, NEW p \in Nat
  PROVE  a * p \in Int /\ (a + 1) * p = a * p + p /\ a * p = p * a
OBVIOUS

\* What a quotient is.
LEMMA Quotient ==
  ASSUME NEW a \in Nat, NEW p \in Nat \ {0}
  PROVE  /\ a \div p \in Nat
         /\ p * (a \div p) <= a /\ a < p * (a \div p) + p
OBVIOUS

\* The pieces of a file of n bytes
LEMMA Cut ==
  ASSUME NEW n \in Nat \ {0}
  PROVE  /\ num_pieces(n) \in Nat \ {0}
         /\ num_pieces(n) <= n
         /\ n <= offset(num_pieces(n))
         /\ offset(num_pieces(n) - 1) < n
<1> DEFINE p == piece_size
           q == num_pieces(n)
           t == p * q
<1>1. p \in Nat \ {0}
  BY PieceSizeAssumption
<1>2. q \in Nat /\ t <= n + p - 1 /\ n + p - 1 < t + p
  <2>1. n + p - 1 \in Nat
    BY <1>1
  <2>2. QED
    BY <1>1, <2>1, Quotient DEF num_pieces
<1> HIDE DEF q
<1>3. /\ q * p = t /\ t \in Int
      /\ (q - 1) * p = t - p
      /\ q <= t
      /\ q = 0 => t = 0
  BY <1>1, <1>2
<1> HIDE DEF t, p
<1>4. q # 0
  BY <1>1, <1>2, <1>3
<1>5. n <= t /\ t - p < n
  BY <1>1, <1>2, <1>3
<1>6. q <= n
  <2>1. (q - 1) <= (q - 1) * p
    BY <1>1, <1>2, <1>4
  <2>2. QED
    BY <1>1, <1>2, <1>3, <1>5, <2>1
<1>7. QED
  BY <1>2, <1>3, <1>4, <1>5, <1>6 DEF q, p, offset

\* The bytes of piece i, and the file's.
InSlice(i, k) == offset(i) < k /\ k <= offset(i) + piece_size

\* A piece of the file begins within the file, and only the last one goes
\* beyond its end.
LEMMA Slices ==
  ASSUME NEW n \in Nat \ {0}, NEW i \in 0 .. num_pieces(n) - 1
  PROVE  /\ offset(i) \in Nat /\ offset(i) < n
         /\ offset(i) + piece_size <= offset(num_pieces(n))
         /\ ~NeedsPadding(i, n) => offset(i) + piece_size <= n
<1> DEFINE q == num_pieces(n)
<1>1. q \in Nat \ {0} /\ offset(q - 1) < n
  BY Cut
<1>2. piece_size \in Nat \ {0}
  BY PieceSizeAssumption
<1>3. i \in Nat /\ i <= q - 1
  BY <1>1
<1> HIDE DEF q
<1>4. offset(i) \in Nat /\ offset(i) <= offset(q - 1)
  BY <1>1, <1>2, <1>3, Product DEF offset
<1>5. offset(i) + piece_size <= offset(q)
  <2>1. (i + 1) * piece_size <= q * piece_size
    BY <1>1, <1>2, <1>3, Product
  <2>2. QED
    BY <1>2, <1>3, <2>1, Products DEF offset
<1>6. offset(q - 1) \in Int /\ offset(q) \in Int
  BY <1>1, <1>2 DEF offset
<1>7. ASSUME i < q - 1
      PROVE  offset(i) + piece_size <= n
  <2>1. (i + 1) * piece_size <= (q - 1) * piece_size
    BY <1>1, <1>2, <1>3, <1>7, Product
  <2>2. offset(i) + piece_size <= offset(q - 1)
    BY <1>2, <1>3, <2>1, Products DEF offset
  <2>3. QED
    BY <1>1, <1>2, <1>4, <1>6, <2>2
<1>8. ~NeedsPadding(i, n) => offset(i) + piece_size <= n
  BY <1>1, <1>2, <1>3, <1>4, <1>7 DEF NeedsPadding, q
<1>9. QED
  BY <1>1, <1>4, <1>5, <1>6, <1>8 DEF q

\* A byte is in one piece only,
LEMMA OneSlice ==
  ASSUME NEW i \in Nat, NEW j \in Nat, NEW k \in Nat, InSlice(i, k), InSlice(j, k)
  PROVE  i = j
<1>1. piece_size \in Nat \ {0}
  BY PieceSizeAssumption
<1>2. ASSUME NEW a \in Nat, NEW b \in Nat, InSlice(a, k), InSlice(b, k), a < b
      PROVE  FALSE
  <2>1. (a + 1) * piece_size <= b * piece_size
    BY <1>1, <1>2, Product
  <2>2. offset(a) + piece_size <= offset(b) /\ offset(a) \in Int /\ offset(b) \in Int
    BY <1>1, <2>1, Products DEF offset
  <2>3. QED
    BY <1>1, <1>2, <2>2 DEF InSlice
<1>3. QED
  BY <1>2

\* and every byte of the file is in the piece that its place says.
LEMMA ItsSlice ==
  ASSUME NEW n \in Nat \ {0}, NEW k \in 1 .. n
  PROVE  /\ (k - 1) \div piece_size \in 0 .. num_pieces(n) - 1
         /\ InSlice((k - 1) \div piece_size, k)
<1> DEFINE p == piece_size
           i == (k - 1) \div piece_size
           q == num_pieces(n)
<1>1. p \in Nat \ {0} /\ k - 1 \in Nat
  BY PieceSizeAssumption
<1>2. i \in Nat /\ p * i <= k - 1 /\ k - 1 < p * i + p
  BY <1>1, Quotient
<1>3. q \in Nat /\ n <= offset(q)
  BY Cut
<1> HIDE DEF i, q
<1>4. offset(i) = p * i /\ offset(i) \in Int
  BY <1>1, <1>2, Products DEF offset
<1>5. InSlice(i, k)
  BY <1>1, <1>2, <1>4 DEF InSlice
<1>6. i < q
  <2> SUFFICES ASSUME q <= i PROVE FALSE
    BY <1>2, <1>3
  <2>1. offset(q) <= offset(i)
    BY <1>1, <1>2, <1>3, Product DEF offset
  <2>2. offset(q) \in Int
    BY <1>1, <1>3 DEF offset
  <2>3. QED
    BY <1>1, <1>2, <1>3, <1>4, <2>1, <2>2
<1>7. QED
  BY <1>2, <1>3, <1>5, <1>6 DEF i, q

\* Every byte of a file is in exactly one of its pieces, and all pieces together
\* are less than one piece longer than the file.
THEOREM PiecesTile ==
  ASSUME NEW n \in Nat \ {0}
  PROVE  /\ \A k \in 1 .. n : \E i \in 0 .. num_pieces(n) - 1 :
              /\ InSlice(i, k)
              /\ \A j \in 0 .. num_pieces(n) - 1 : InSlice(j, k) => j = i
         /\ offset(num_pieces(n)) - n \in 0 .. piece_size - 1
<1> DEFINE q == num_pieces(n)
<1>1. q \in Nat \ {0} /\ n <= offset(q) /\ offset(q - 1) < n
  BY Cut
<1>2. piece_size \in Nat \ {0}
  BY PieceSizeAssumption
<1>3. ASSUME NEW k \in 1 .. n
      PROVE  \E i \in 0 .. q - 1 :
               InSlice(i, k) /\ \A j \in 0 .. q - 1 : InSlice(j, k) => j = i
  <2> DEFINE i == (k - 1) \div piece_size
  <2>1. i \in 0 .. q - 1 /\ InSlice(i, k)
    BY ItsSlice
  <2> HIDE DEF i, q
  <2>2. \A j \in 0 .. q - 1 : InSlice(j, k) => j = i
    BY <2>1, OneSlice
  <2>3. QED
    BY <2>1, <2>2
<1> HIDE DEF q
<1>4. offset(q) - n \in 0 .. piece_size - 1
  <2>1. offset(q) \in Int /\ offset(q - 1) \in Int /\ offset(q) = offset(q - 1) + piece_size
    <3>1. q - 1 \in Int
      BY <1>1
    <3>2. ((q - 1) + 1) * piece_size = (q - 1) * piece_size + piece_size
          /\ (q - 1) * piece_size \in Int
      BY <1>2, <3>1, Products
    <3>3. QED
      BY <1>1, <1>2, <3>2 DEF offset
  <2>2. QED
    BY <1>1, <1>2, <2>1
<1>5. QED
  BY <1>3, <1>4 DEF q
-----------------------------------------------------------------------------
(* The inductive invariant.                                                *)

\* The pieces of the file, and what the variables hold.
Pieces == 0 .. num_pieces(original) - 1
\* A byte of the file, or of memory not yet written.
Byte == Nat \cup {Junk}
\* The bytes of a piece.
Buffer == [1 .. piece_size -> Byte]
\* A piece and its bytes, as they are on the wire.
Answers == Pieces \X Buffer
\* How far a node can have come.
Phases == {"start", "serve", "failed", "ask", "receive", "received", "complete", "unmapped"}
\* Where a worker can be.
Steps == Resizing \cup {"idle", "walk", "resize", "copy", "write"}
\* What the padded string can be.
Strings == [data : Dests \cup {Local}, fits : BOOLEAN, length : {0, piece_size}]

\* What every variable holds.
Kinds ==
  /\ original \in Sizes
  /\ phase \in [Nodes -> Phases]
  /\ meta \in [Nodes -> {NoMeta, SourceMeta}]
  /\ file \in [Nodes -> Seq(Byte)]
  /\ status \in [Nodes -> SUBSET Pieces]
  /\ expected \in [Dests -> 0 .. SizeMod - 1]
  /\ wire \in [Dests -> Seq(Answers)]
  /\ step \in [Dests -> Steps]
  /\ todo \in [Dests -> Seq(Pieces)]
  /\ late \in [Dests -> SUBSET Pieces]
  /\ piece \in [Dests -> Nat]
  /\ view \in [Dests -> Dests \cup {Local}]
  /\ padded \in [Nodes -> Strings]
  /\ heap \in [Dests -> Buffer \cup {Freed}]
  /\ raced \in SUBSET Nodes

\* The source serves before anybody else has the metadata.
Known ==
  /\ phase[Source] \in {"start", "serve", "failed"}
  /\ phase[Source] = "serve" => original > 0
  /\ \A d \in Dests :
       /\ phase[d] # "serve"
       /\ phase[d] # "start" => phase[Source] = "serve"
  /\ \A n \in Nodes : IF phase[n] = "start" THEN status[n] = {} ELSE meta[n] = SourceMeta

\* The length of the file.
Lengths ==
  /\ file[Source] = Content
  /\ \A d \in Dests :
       /\ phase[d] \in {"ask", "receive", "received", "failed"}
            => Len(file[d]) = offset(num_pieces(original))
       /\ Complete(d) => Len(file[d]) = original

\* A piece is answered once
Once ==
  \A c \in Dests : \A k \in 1 .. Len(todo[c]) :
    /\ todo[c][k] \notin late[c]
    /\ \A l \in 1 .. Len(todo[c]) : todo[c][k] = todo[c][l] => k = l

\* The worker has a piece in hand.
Sending(c) == step[c] \notin {"idle", "walk"}

\* Outside of request_pieces there is nothing to send.
Quiet ==
  /\ \A c \in Dests : phase[c] # "receive" =>
       todo[c] = << >> /\ late[c] = {} /\ wire[c] = << >> /\ ~Sending(c)
  /\ \A c \in Dests : Sending(c) => piece[c] \in status[Upstream[c]]

\* A node unmaps its file when no other is receiving any more.
Barrier ==
  \A n \in Nodes : phase[n] = "unmapped" => \A d \in Dests : Complete(d)

\* The padded string is its own buffer only before it was first made longer.
Padding ==
  /\ \A s \in Nodes :
       /\ padded[s].data \in Clients(s) \cup {Local}
       /\ padded[s].fits => padded[s].data # Local
       /\ padded[s].length = piece_size => padded[s].fits
  /\ \A c \in Dests :
       /\ step[c] \in {"fill", "copy"} => padded[Upstream[c]].fits
       /\ step[c] \in Resizing \cup {"resize", "copy"} => NeedsPadding(piece[c], original)
       /\ step[c] = "write" => (view[c] = Local <=> ~NeedsPadding(piece[c], original))

\* What every step of every node and worker keeps.
Inv == Kinds /\ Known /\ Lengths /\ Once /\ Quiet /\ Barrier /\ Padding /\ AnswersCounted

\* The last piece is wrong only below a node whose string two workers have sized.
Excused(n, i) == NeedsPadding(i, original) /\ Above[n] \cap raced # {}
\* Piece i of the file of node n is that of the source.
FileRight(n, i) ==
  Excused(n, i) \/ \A k \in 1 .. original : InSlice(i, k) => file[n][k] = k
\* The bytes of piece i are those of the source.
BytesRight(i, bytes) ==
  \A k \in 1 .. original : InSlice(i, k) => bytes[k - offset(i)] = k

\* The worker is about to send from the padded string.
Padded(c) == step[c] = "write" /\ view[c] # Local

\* Unless two workers have sized the string at once, only one of them makes it
\* longer, and then it is never moved again.
SizesAt(s) ==
  /\ \A c, d \in Clients(s) : step[c] \in Resizing /\ step[d] \in Resizing => c = d
  /\ IF padded[s].length = piece_size
     THEN \A c \in Clients(s) : step[c] \notin Resizing
     ELSE \A c \in Clients(s) : step[c] # "copy" /\ ~Padded(c)
  /\ \A c \in Clients(s) : Padded(c) =>
       /\ view[c] = padded[s].data /\ heap[view[c]] # Freed
       /\ Excused(s, piece[c]) \/ BytesRight(piece[c], heap[view[c]])
\* On every node on which no two workers have.
OneSizes == \A s \in Nodes \ raced : SizesAt(s)

\* What a node has of the file is right,
FilesRight == \A n \in Nodes : \A i \in status[n] : FileRight(n, i)
\* and so is what is on the way,
AnswersRight ==
  \A c \in Dests : \A m \in 1 .. Len(wire[c]) :
    Excused(c, wire[c][m][1]) \/ BytesRight(wire[c][m][1], wire[c][m][2])
\* and a node that has finished has all of it.
AllThere == \A d \in Dests : phase[d] = "received" \/ Complete(d) => status[d] = Pieces

\* Together with Inv, what keeps the content right.
RightInv == OneSizes /\ FilesRight /\ AnswersRight /\ AllThere
-----------------------------------------------------------------------------
(* The first state, and the constants.                                     *)

\* Who downloads from whom.
LEMMA Tree ==
  /\ Source \in Nodes /\ Source \notin Dests /\ Dests \subseteq Nodes
  /\ \A n \in Nodes : n = Source \/ n \in Dests
  /\ \A c \in Dests : Upstream[c] \in Nodes /\ c \in Clients(Upstream[c])
  /\ \A s \in Nodes : \A c \in Clients(s) : c \in Dests /\ Upstream[c] = s
  /\ Local \notin Dests /\ Local \notin Nodes
BY UpstreamAssumption, InFlightAssumption DEF Dests, Clients

\* The source's file.
LEMMA ContentIsBytes ==
  ASSUME original \in Nat
  PROVE  Content \in Seq(Byte) /\ Len(Content) = original
<1>1. Content \in [1 .. original -> Byte]
  BY DEF Content, Byte
<1> HIDE DEF Content
<1>2. QED
  BY <1>1, AsSequence

\* The invariant holds at first.
LEMMA InitInv == Init => Inv
<1> SUFFICES ASSUME Init PROVE Inv
  OBVIOUS
<1>1. original \in Sizes /\ original \in Nat
  BY SizesAssumption DEF Init
<1>2. piece_size \in Nat \ {0} /\ SizeMod \in Nat \ {0}
  BY PieceSizeAssumption, WireAssumption
<1>3. Kinds
  <2>1. file \in [Nodes -> Seq(Byte)]
    <3>1. << >> \in Seq(Byte)
      OBVIOUS
    <3>2. QED
      BY <1>1, <3>1, ContentIsBytes DEF Init
  <2>2. /\ phase \in [Nodes -> Phases] /\ meta \in [Nodes -> {NoMeta, SourceMeta}]
        /\ status \in [Nodes -> SUBSET Pieces] /\ raced \in SUBSET Nodes
    BY DEF Init, Phases
  <2>3. /\ expected \in [Dests -> 0 .. SizeMod - 1] /\ wire \in [Dests -> Seq(Answers)]
        /\ todo \in [Dests -> Seq(Pieces)]
    <3>1. << >> \in Seq(Answers) /\ << >> \in Seq(Pieces) /\ 0 \in 0 .. SizeMod - 1
      BY <1>2
    <3>2. QED
      BY <3>1 DEF Init
  <2>4. /\ step \in [Dests -> Steps] /\ late \in [Dests -> SUBSET Pieces]
        /\ piece \in [Dests -> Nat] /\ view \in [Dests -> Dests \cup {Local}]
        /\ heap \in [Dests -> Buffer \cup {Freed}]
    BY DEF Init, Steps
  <2>5. padded \in [Nodes -> Strings]
    <3>1. [data |-> Local, fits |-> FALSE, length |-> 0] \in Strings
      BY DEF Strings
    <3>2. QED
      BY <3>1 DEF Init
  <2>6. QED
    BY <1>1, <2>1, <2>2, <2>3, <2>4, <2>5 DEF Kinds
<1>4. Known
  BY Tree DEF Init, Known
<1>5. Lengths
  BY Tree DEF Init, Lengths, Complete
<1>6. Once
  BY DEF Init, Once
<1>7. Quiet
  BY DEF Init, Quiet, Sending
<1>8. Barrier
  BY DEF Init, Barrier
<1>9. Padding
  BY <1>2, Tree DEF Init, Padding, Resizing
<1>10. AnswersCounted
  BY Tree DEF Init, AnswersCounted
<1>11. QED
  BY <1>3, <1>4, <1>5, <1>6, <1>7, <1>8, <1>9, <1>10 DEF Inv

-----------------------------------------------------------------------------
(* The FileManager and the main thread.                                    *)

\* The source has the metadata of its file.
LEMMA SourceHasPieces ==
  ASSUME Inv
  PROVE  /\ original \in Nat
         /\ phase[Source] = "serve" => original \in Nat \ {0}
         /\ SourceMeta.numPieces = num_pieces(original)
         /\ SourceMeta.fileSize = original
<1>1. original \in Nat
  BY SizesAssumption DEF Inv, Kinds
<1>2. QED
  BY <1>1 DEF Inv, Known, SourceMeta

\* initialize_source keeps the invariant.
LEMMA InitializeSourceInv == Inv /\ InitializeSource => Inv'
<1> SUFFICES ASSUME Inv, InitializeSource PROVE Inv'
  OBVIOUS
<1>1. /\ phase[Source] = "start"
      /\ phase' = [phase EXCEPT ![Source] = IF original > 0 THEN "serve" ELSE "failed"]
      /\ meta' = [meta EXCEPT ![Source] = SourceMeta]
      /\ status' = [status EXCEPT ![Source] = Pieces]
      /\ UNCHANGED <<original, file, expected, wire, step, todo, late, piece, view, padded, heap, raced>>
  BY DEF InitializeSource, Go, MmapSucceeds, workerVars, stringVars, Pieces
<1>2. SourceMeta' = SourceMeta /\ Pieces' = Pieces
  BY <1>1 DEF SourceMeta, Pieces
<1>3. Kinds'
  BY <1>1, <1>2, Tree DEF Inv, Kinds, Phases, Answers
<1>4. Known'
  BY <1>1, <1>2, Tree DEF Inv, Kinds, Known
<1>5. Lengths'
  BY <1>1, Tree DEF Inv, Kinds, Lengths, Complete, Content
<1>6. Once' /\ Barrier' /\ Padding'
  BY <1>1, Tree DEF Inv, Kinds, Once, Barrier, Padding, Complete
<1>7. Quiet'
  <2>1. \A c \in Dests : Sending(c)' = Sending(c) /\ phase'[c] = phase[c]
    BY <1>1, Tree DEF Sending, Inv, Kinds
  <2>2. \A n \in Nodes : status[n] \subseteq status'[n]
    BY <1>1 DEF Inv, Kinds
  <2>3. QED
    BY <1>1, <2>1, <2>2, Tree DEF Inv, Quiet
<1>8. AnswersCounted'
  BY <1>1, Tree DEF Inv, Kinds, AnswersCounted
<1>9. QED
  BY <1>3, <1>4, <1>5, <1>6, <1>7, <1>8 DEF Inv

\* The source's metadata comes out of a stream as it went in.
LEMMA MetadataSurvives ==
  ASSUME original \in Nat
  PROVE  DeserializeFile(SerializeFile(SourceMeta)) = SourceMeta
<1> DEFINE n == num_pieces(original)
           field == AddressField(node_ip)
           one == [srcs |-> <<field>>, checksum |-> << >>]
           ps == [i \in 1 .. n |-> one]
<1>1. n \in Nat
  <2>1. piece_size \in Nat \ {0} /\ original + piece_size - 1 \in Nat
    BY PieceSizeAssumption
  <2>2. QED
    BY <2>1, Quotient DEF num_pieces
<1>2. field \in Seq(Nat) /\ Len(field) = IP4_LENGTH
  <2>1. \A i \in 1 .. IP4_LENGTH :
          (IF i <= Len(node_ip) /\ i < IP4_LENGTH THEN node_ip[i] ELSE NUL) \in Nat
    BY AddressAssumption DEF NUL
  <2>2. IP4_LENGTH \in Nat /\ field \in [1 .. IP4_LENGTH -> Nat]
    BY <2>1, WireAssumption DEF AddressField
  <2> HIDE DEF field
  <2>3. QED
    BY <2>2, AsSequence
<1> HIDE DEF field
<1>3. one \in PieceMetas
  <2>1. <<field>> \in Seq({ip \in Seq(Nat) : Len(ip) = IP4_LENGTH})
    BY <1>2
  <2>2. << >> \in Seq(Nat)
    OBVIOUS
  <2>3. QED
    BY <2>1, <2>2 DEF PieceMetas
<1>4. ps \in Seq(PieceMetas) /\ Len(ps) = n
  <2> HIDE DEF one
  <2>1. ps \in [1 .. n -> PieceMetas]
    BY <1>3
  <2> HIDE DEF ps
  <2>2. QED
    BY <1>1, <2>1, AsSequence
<1>5. SourceMeta = [fileId |-> <<1>>, filename |-> <<2, 3>>, fileSize |-> original,
                    numPieces |-> n, pieces |-> ps]
  BY DEF SourceMeta, field
<1> HIDE DEF ps, n
<1>6. <<1>> \in Seq(Nat) /\ <<2, 3>> \in Seq(Nat)
  OBVIOUS
<1>7. SourceMeta \in FileMetas
  BY <1>1, <1>4, <1>5, <1>6 DEF FileMetas
<1>8. QED
  BY <1>7, FileCodec

\* A node that serves knows the file, and the source serves too.
LEMMA Serving ==
  ASSUME Inv, NEW n \in Nodes, Serves(n)
  PROVE  /\ phase[Source] = "serve" /\ meta[n] = SourceMeta
         /\ original \in Nat \ {0} /\ NumPieces(n) = num_pieces(original)
<1>1. phase[Source] = "serve" /\ meta[n] = SourceMeta
  BY Tree DEF Inv, Known, Serves
<1>2. QED
  BY <1>1, SourceHasPieces DEF NumPieces

\* A new file.
LEMMA ZerosAreBytes ==
  ASSUME NEW n \in Nat
  PROVE  Zeros(n) \in Seq(Byte) /\ Len(Zeros(n)) = n /\ Zeros(n) \in [1 .. n -> Byte]
<1>1. Zeros(n) \in [1 .. n -> Byte]
  BY DEF Zeros, Byte
<1>2. QED
  BY <1>1, AsSequence

\* request_metadata and initialize_receiver keep the invariant: what is read is
\* what was written, however often.
LEMMA GetMetadataInv == ASSUME Inv, NEW n \in Dests, GetMetadata(n) PROVE Inv'
<1> DEFINE size == offset(num_pieces(original))
<1>1. Serves(Upstream[n]) /\ phase[n] = "start"
  BY DEF GetMetadata, Go
<1>2. /\ phase[Source] = "serve" /\ meta[Upstream[n]] = SourceMeta
      /\ original \in Nat \ {0}
  BY <1>1, Serving, Tree
<1>3. DeserializeFile(SerializeFile(meta[Upstream[n]])) = SourceMeta
  BY <1>2, MetadataSurvives
<1>4. SourceMeta.numPieces * piece_size = size
  BY DEF SourceMeta, offset
<1>5. /\ phase' = [phase EXCEPT ![n] = "ask"]
      /\ meta' = [meta EXCEPT ![n] = SourceMeta]
      /\ file' = [file EXCEPT ![n] = Zeros(size)]
      /\ UNCHANGED <<original, status, expected, wire, step, todo, late, piece, view, padded, heap, raced>>
  BY <1>3, <1>4 DEF GetMetadata, Go, workerVars, stringVars
<1>6. size \in Nat
  BY <1>2, Cut, PieceSizeAssumption DEF offset
<1>7. Zeros(size) \in Seq(Byte) /\ Len(Zeros(size)) = size
  BY <1>6, ZerosAreBytes
<1>8. SourceMeta' = SourceMeta /\ Pieces' = Pieces /\ size' = size
  BY <1>5 DEF SourceMeta, Pieces, offset, num_pieces
<1> HIDE DEF size
<1>9. Kinds'
  BY <1>5, <1>7, <1>8, Tree DEF Inv, Kinds, Phases, Answers
<1>10. Known'
  BY <1>2, <1>5, <1>8, Tree DEF Inv, Kinds, Known
<1>11. Lengths'
  BY <1>5, <1>7, <1>8, Tree DEF Inv, Kinds, Lengths, Complete, Content, size
<1>12. Once' /\ Padding'
  BY <1>5, Tree DEF Inv, Once, Padding
<1>13. Barrier'
  BY <1>1, <1>5, Tree DEF Inv, Kinds, Barrier, Complete
<1>14. Quiet'
  BY <1>1, <1>5, Tree DEF Inv, Kinds, Quiet, Sending
<1>15. AnswersCounted'
  BY <1>5, Tree DEF Inv, Kinds, AnswersCounted
<1>16. QED
  BY <1>9, <1>10, <1>11, <1>12, <1>13, <1>14, <1>15 DEF Inv

\* What the server goes through for either request, and what the client counts.
LEMMA Requested ==
  ASSUME Inv, NEW n \in Nodes, phase[n] # "start", phase[Source] = "serve",
         NEW request \in {WholeRange(n), Mixture(n)}
  PROVE  LET m == num_pieces(original)
         IN  /\ m \in Nat \ {0} /\ m < SizeMod
             /\ Walk(DeserializeRequest(SerializeRequest(request))) = InOrder(m)
             /\ total_pieces(request) = m
<1> DEFINE m == num_pieces(original)
<1>1. original \in Nat \ {0} /\ NumPieces(n) = m
  BY SourceHasPieces DEF Inv, Known, NumPieces
<1>2. m \in Nat \ {0} /\ m < SizeMod
  <2>1. m \in Nat \ {0} /\ m <= original
    BY <1>1, Cut
  <2>2. original < SizeMod /\ SizeMod \in Nat
    BY SizesAssumption, WireAssumption DEF Inv, Kinds
  <2> HIDE DEF m
  <2>3. QED
    BY <1>1, <2>1, <2>2
<1>3. request \in {Whole(m), Mixed(m)}
  BY <1>1 DEF WholeRange, Mixture, Whole, Mixed
<1> HIDE DEF m
<1>4. request \in Requests
  BY <1>2, <1>3, WholeAndMixedAreRequests
<1>5. DeserializeRequest(SerializeRequest(request)) = request
  BY <1>4, RequestCodec
<1>6. Walk(request) = InOrder(m) /\ total_pieces(request) = m
  BY <1>2, <1>3, WholeWalk, MixedWalk, WholeAndMixedCount
<1>7. QED
  BY <1>2, <1>5, <1>6 DEF m

\* Pieces in their order are each there once.
LEMMA InOrderOnce ==
  ASSUME NEW m \in Nat \ {0}
  PROVE  /\ InOrder(m) \in Seq(0 .. m - 1) /\ Len(InOrder(m)) = m
         /\ \A k, l \in 1 .. m : InOrder(m)[k] = InOrder(m)[l] => k = l
<1>1. InOrder(m) \in [1 .. m -> 0 .. m - 1]
  BY DEF InOrder
<1>2. \A k, l \in 1 .. m : InOrder(m)[k] = InOrder(m)[l] => k = l
  BY DEF InOrder
<1>3. QED
  BY <1>1, <1>2, AsSequence

\* request_pieces keeps the invariant.
LEMMA RequestPiecesInv ==
  ASSUME Inv, NEW n \in Dests, NEW request \in {WholeRange(n), Mixture(n)},
         RequestPieces(n, request)
  PROVE  Inv'
<1> DEFINE m == num_pieces(original)
           walk == InOrder(m)
<1>1. Serves(Upstream[n]) /\ phase[n] = "ask"
  BY DEF RequestPieces, Go
<1>2. phase[Source] = "serve" /\ original \in Nat \ {0}
  BY <1>1, Serving, Tree
<1>3. /\ m \in Nat \ {0} /\ m < SizeMod
      /\ Walk(DeserializeRequest(SerializeRequest(request))) = walk
      /\ total_pieces(request) = m
  BY <1>1, <1>2, Requested, Tree
<1>4. /\ phase' = [phase EXCEPT ![n] = "receive"]
      /\ expected' = [expected EXCEPT ![n] = m]
      /\ todo' = [todo EXCEPT ![n] = walk]
      /\ step' = [step EXCEPT ![n] = "walk"]
      /\ UNCHANGED <<original, meta, file, status, wire, late, piece, view, padded, heap, raced>>
  BY <1>3 DEF RequestPieces, Go, stringVars
<1>5. /\ walk \in Seq(Pieces) /\ Len(walk) = m
      /\ \A k, l \in 1 .. m : walk[k] = walk[l] => k = l
  BY <1>3, InOrderOnce DEF Pieces
<1>6. SourceMeta' = SourceMeta /\ Pieces' = Pieces /\ m' = m
  BY <1>4 DEF SourceMeta, Pieces, num_pieces
<1>7. wire[n] = << >> /\ late[n] = {} /\ ~Sending(n)
  BY <1>1 DEF Inv, Quiet
<1> HIDE DEF m, walk
<1>8. m \in 0 .. SizeMod - 1
  BY <1>3, WireAssumption
<1>9. Kinds'
  BY <1>4, <1>5, <1>6, <1>8, Tree DEF Inv, Kinds, Phases, Answers, Steps
<1>10. Known'
  BY <1>1, <1>4, <1>6, Tree DEF Inv, Kinds, Known
<1>11. Lengths'
  BY <1>1, <1>4, <1>6, Tree DEF Inv, Kinds, Lengths, Complete, Content, m
<1>12. Once'
  BY <1>4, <1>5, <1>7, Tree DEF Inv, Kinds, Once
<1>13. Padding'
  BY <1>4, Tree DEF Inv, Kinds, Padding, Resizing
<1>14. Barrier'
  BY <1>1, <1>4, Tree DEF Inv, Kinds, Barrier, Complete
<1>15. Quiet'
  BY <1>1, <1>4, Tree DEF Inv, Kinds, Quiet, Sending
<1>16. AnswersCounted'
  <2> SUFFICES ASSUME NEW c \in Dests, phase'[c] = "receive"
               PROVE  expected'[c] = Len(wire'[c]) + Len(todo'[c]) + Cardinality(late'[c])
                                     + (IF step'[c] \in {"idle", "walk"} THEN 0 ELSE 1)
    BY DEF AnswersCounted
  <2>1. CASE c = n
    <3>1. Len(wire'[n]) = 0 /\ Cardinality(late'[n]) = 0
      BY <1>4, <1>7, FS_EmptySet
    <3>2. expected'[n] = m /\ Len(todo'[n]) = m /\ step'[n] = "walk"
      BY <1>4, <1>5 DEF Inv, Kinds
    <3>3. QED
      BY <1>3, <2>1, <3>1, <3>2
  <2>2. CASE c # n
    BY <1>4, <2>2 DEF Inv, Kinds, AnswersCounted
  <2>3. QED
    BY <2>1, <2>2
<1>17. QED
  BY <1>9, <1>10, <1>11, <1>12, <1>13, <1>14, <1>15, <1>16 DEF Inv

\* There are finitely many pieces.
LEMMA PiecesCount ==
  ASSUME Inv
  PROVE  num_pieces(original) \in Nat /\ Pieces \subseteq Nat /\ IsFiniteSet(Pieces)
<1>1. original \in Nat
  BY SourceHasPieces
<1>2. num_pieces(original) \in Nat
  <2>1. piece_size \in Nat \ {0} /\ original + piece_size - 1 \in Nat
    BY <1>1, PieceSizeAssumption
  <2>2. QED
    BY <2>1, Quotient DEF num_pieces
<1>3. Pieces \subseteq Nat
  BY <1>2 DEF Pieces
<1>4. IsFiniteSet(Pieces)
  BY <1>2, FS_Interval DEF Pieces
<1>5. QED
  BY <1>2, <1>3, <1>4

\* Pieces a worker waits for can be counted.
LEMMA LateFinite ==
  ASSUME Inv, NEW c \in Dests
  PROVE  IsFiniteSet(late[c]) /\ Cardinality(late[c]) \in Nat
<1>1. late[c] \subseteq Pieces
  BY DEF Inv, Kinds
<1>2. QED
  BY <1>1, PiecesCount, FS_Subset, FS_CardinalityType

\* The count of answers, and its parts.
Unsent(c) == IF step[c] \in {"idle", "walk"} THEN 0 ELSE 1

\* The parts of what AnswersCounted counts.
LEMMA CountParts ==
  ASSUME Inv, NEW c \in Dests
  PROVE  /\ Len(wire[c]) \in Nat /\ Len(todo[c]) \in Nat /\ Cardinality(late[c]) \in Nat
         /\ Unsent(c) \in Nat /\ expected[c] \in Nat
         /\ phase[c] = "receive" =>
              expected[c] = Len(wire[c]) + Len(todo[c]) + Cardinality(late[c]) + Unsent(c)
<1>1. Len(wire[c]) \in Nat /\ Len(todo[c]) \in Nat /\ Unsent(c) \in Nat /\ expected[c] \in Nat
  BY WireAssumption DEF Inv, Kinds, Unsent
<1>2. QED
  BY <1>1, LateFinite DEF Inv, AnswersCounted, Unsent

\* A sum of numbers is zero only if all of them are.
LEMMA Sums ==
  ASSUME NEW a \in Nat, NEW b \in Nat, NEW c \in Nat, NEW d \in Nat, 0 = a + b + c + d
  PROVE  a = 0 /\ b = 0 /\ c = 0 /\ d = 0
OBVIOUS

\* One fewer in all is one fewer in the first.
LEMMA OneFewer ==
  ASSUME NEW a \in Nat, NEW b \in Nat, NEW c \in Nat, NEW d \in Nat
  PROVE  (a + b + c + d) - 1 = (a - 1) + b + c + d
OBVIOUS

\* Writing an answer changes the bytes of its piece.
LEMMA Written ==
  ASSUME NEW bytes \in Seq(Byte), NEW i \in Nat, NEW data \in Buffer
  PROVE  /\ WriteAt(bytes, i, data) \in Seq(Byte)
         /\ Len(WriteAt(bytes, i, data)) = Len(bytes)
         /\ \A k \in 1 .. Len(bytes) : WriteAt(bytes, i, data)[k]
              = IF InSlice(i, k) THEN data[k - offset(i)] ELSE bytes[k]
<1> DEFINE new == WriteAt(bytes, i, data)
<1>1. piece_size \in Nat /\ offset(i) \in Nat
  BY PieceSizeAssumption DEF offset
<1>2. Len(data) = piece_size /\ \A j \in 1 .. piece_size : data[j] \in Byte
  BY <1>1, AsSequence DEF Buffer
<1>3. DOMAIN bytes = 1 .. Len(bytes) /\ Len(bytes) \in Nat /\ \A k \in 1 .. Len(bytes) : bytes[k] \in Byte
  OBVIOUS
<1>4. \A k \in 1 .. Len(bytes) : new[k] = IF InSlice(i, k) THEN data[k - offset(i)] ELSE bytes[k]
  BY <1>1, <1>2, <1>3 DEF WriteAt, InSlice
<1>5. DOMAIN new = 1 .. Len(bytes) /\ new = [k \in DOMAIN new |-> new[k]]
  BY <1>3 DEF WriteAt
<1> HIDE DEF new
<1>6. \A k \in 1 .. Len(bytes) : new[k] \in Byte
  <2> SUFFICES ASSUME NEW k \in 1 .. Len(bytes), InSlice(i, k) PROVE data[k - offset(i)] \in Byte
    BY <1>3, <1>4
  <2>1. k - offset(i) \in 1 .. piece_size
    BY <1>1, <1>3 DEF InSlice
  <2>2. QED
    BY <1>2, <2>1
<1>7. new \in [1 .. Len(bytes) -> Byte]
  BY <1>5, <1>6
<1>8. new \in Seq(Byte) /\ Len(new) = Len(bytes)
  BY <1>3, <1>7, AsSequence
<1>9. QED
  BY <1>4, <1>8 DEF new

\* The first answer.
LEMMA Answered ==
  ASSUME NEW T, NEW w \in Seq(T), w # << >>
  PROVE  /\ Head(w) \in T /\ Tail(w) \in Seq(T) /\ Len(Tail(w)) = Len(w) - 1 /\ Len(w) \in Nat \ {0}
         /\ Head(w) = w[1] /\ \A k \in 1 .. Len(Tail(w)) : Tail(w)[k] = w[k + 1]
OBVIOUS

\* Receiving an answer keeps the invariant.
LEMMA ReceiveInv == ASSUME Inv, NEW n \in Dests, Receive(n) PROVE Inv'
<1> DEFINE w == wire[n]
           answer == Head(w)
           i == answer[1]
           new == WriteAt(file[n], i, answer[2])
<1>1. phase[n] = "receive" /\ expected[n] > 0 /\ w # << >> /\ w \in Seq(Answers)
  BY DEF Receive, Go, Inv, Kinds
<1>2. answer \in Answers /\ Tail(w) \in Seq(Answers) /\ Len(Tail(w)) = Len(w) - 1 /\ Len(w) \in Nat \ {0}
  BY <1>1, Answered
<1>3. i \in Pieces /\ answer[2] \in Buffer
  BY <1>2 DEF Answers
<1>4. /\ phase' = phase
      /\ wire' = [wire EXCEPT ![n] = Tail(w)]
      /\ expected' = [expected EXCEPT ![n] = @ - 1]
      /\ file' = IF i \in status[n] THEN file ELSE [file EXCEPT ![n] = new]
      /\ status' = [status EXCEPT ![n] = @ \cup {i}]
      /\ UNCHANGED <<original, meta, step, todo, late, piece, view, padded, heap, raced>>
  <2>1. phase' = [phase EXCEPT ![n] = phase[n]]
    BY <1>1 DEF Receive, Go
  <2>2. phase' = phase
    BY <2>1 DEF Inv, Kinds
  <2>3. QED
    BY <2>2 DEF Receive, Go, workerVars, stringVars
<1>5. new \in Seq(Byte) /\ Len(new) = Len(file[n])
  <2>1. file[n] \in Seq(Byte) /\ i \in Nat
    BY <1>3, PiecesCount, Tree DEF Inv, Kinds
  <2>2. QED
    BY <1>3, <2>1, Written
<1>6. SourceMeta' = SourceMeta /\ Pieces' = Pieces
  BY <1>4 DEF SourceMeta, Pieces
<1> HIDE DEF i, new, w
<1>7. Kinds'
  <2>1. file' \in [Nodes -> Seq(Byte)]
    BY <1>4, <1>5 DEF Inv, Kinds
  <2>2. status' \in [Nodes -> SUBSET Pieces]
    BY <1>3, <1>4 DEF Inv, Kinds
  <2>3. expected' \in [Dests -> 0 .. SizeMod - 1]
    <3>1. expected[n] - 1 \in 0 .. SizeMod - 1
      BY <1>1, WireAssumption DEF Inv, Kinds
    <3>2. QED
      BY <1>4, <3>1 DEF Inv, Kinds
  <2>4. wire' \in [Dests -> Seq(Answers)]
    BY <1>2, <1>4 DEF Inv, Kinds
  <2>5. Answers' = Answers
    BY <1>6 DEF Answers
  <2>6. QED
    BY <1>4, <1>6, <2>1, <2>2, <2>3, <2>4, <2>5 DEF Inv, Kinds
<1>8. Known'
  BY <1>1, <1>4, <1>6, Tree DEF Inv, Kinds, Known
<1>9. Lengths'
  BY <1>1, <1>4, <1>5, Tree DEF Inv, Kinds, Lengths, Complete, Content
<1>10. Once' /\ Padding' /\ Barrier'
  BY <1>4, Tree DEF Inv, Once, Padding, Barrier, Complete
<1>11. Quiet'
  <2>1. \A m \in Nodes : status[m] \subseteq status'[m]
    BY <1>4 DEF Inv, Kinds
  <2>2. \A c \in Dests : c # n => wire'[c] = wire[c]
    BY <1>4 DEF Inv, Kinds
  <2>3. QED
    BY <1>1, <1>4, <2>1, <2>2, Tree DEF Inv, Quiet, Sending
<1>12. AnswersCounted'
  <2> SUFFICES ASSUME NEW c \in Dests, phase'[c] = "receive"
               PROVE  expected'[c] = Len(wire'[c]) + Len(todo[c]) + Cardinality(late[c]) + Unsent(c)
    BY <1>4 DEF AnswersCounted, Unsent
  <2>1. /\ Len(todo[c]) \in Nat /\ Cardinality(late[c]) \in Nat /\ Unsent(c) \in Nat
        /\ expected[c] = Len(wire[c]) + Len(todo[c]) + Cardinality(late[c]) + Unsent(c)
    BY <1>4, CountParts
  <2>2. CASE c = n
    <3>1. expected'[c] = expected[c] - 1 /\ Len(wire'[c]) = Len(wire[c]) - 1 /\ Len(wire[c]) \in Nat
      BY <1>2, <1>4, <2>2 DEF Inv, Kinds, w
    <3>2. (Len(wire[c]) + Len(todo[c]) + Cardinality(late[c]) + Unsent(c)) - 1
            = (Len(wire[c]) - 1) + Len(todo[c]) + Cardinality(late[c]) + Unsent(c)
      BY <2>1, <3>1, OneFewer
    <3>3. QED
      BY <2>1, <3>1, <3>2, Zenon
  <2>3. CASE c # n
    BY <1>4, <2>1, <2>3 DEF Inv, Kinds
  <2>4. QED
    BY <2>2, <2>3
<1>13. QED
  BY <1>7, <1>8, <1>9, <1>10, <1>11, <1>12 DEF Inv

\* The end of request_pieces keeps the invariant: nothing is under way.
LEMMA AllReceivedInv == ASSUME Inv, NEW n \in Dests, AllReceived(n) PROVE Inv'
<1> DEFINE next == IF status[n] = AllPieces(n) THEN "received" ELSE "failed"
<1>1. /\ phase[n] = "receive" /\ expected[n] = 0
      /\ phase' = [phase EXCEPT ![n] = next]
      /\ UNCHANGED <<original, meta, file, status, expected, wire, step, todo, late, piece, view,
                     padded, heap, raced>>
  BY DEF AllReceived, Go, workerVars, stringVars
<1>2. next \in {"received", "failed"}
  OBVIOUS
<1> HIDE DEF next
<1>3. SourceMeta' = SourceMeta /\ Pieces' = Pieces
  BY <1>1 DEF SourceMeta, Pieces
<1>4. Kinds'
  BY <1>1, <1>2, <1>3 DEF Inv, Kinds, Phases, Answers
<1>5. Known'
  BY <1>1, <1>2, <1>3, Tree DEF Inv, Kinds, Known
<1>6. Lengths'
  BY <1>1, <1>2, Tree DEF Inv, Kinds, Lengths, Complete, Content
<1>7. Once' /\ Padding'
  BY <1>1, Tree DEF Inv, Once, Padding
<1>8. Barrier'
  BY <1>1, <1>2, Tree DEF Inv, Kinds, Barrier, Complete
<1>9. todo[n] = << >> /\ late[n] = {} /\ wire[n] = << >> /\ ~Sending(n)
  <2>1. 0 = Len(wire[n]) + Len(todo[n]) + Cardinality(late[n]) + Unsent(n)
    BY <1>1, CountParts
  <2>2. IsFiniteSet(late[n])
    BY LateFinite
  <2>4. Len(wire[n]) = 0 /\ Len(todo[n]) = 0 /\ Cardinality(late[n]) = 0 /\ Unsent(n) = 0
    BY <2>1, CountParts, Sums
  <2>5. late[n] = {}
    BY <2>2, <2>4, FS_EmptySet
  <2>6. wire[n] \in Seq(Answers) /\ todo[n] \in Seq(Pieces)
    BY DEF Inv, Kinds
  <2>7. wire[n] = << >> /\ todo[n] = << >>
    BY <2>4, <2>6, EmptySeq
  <2>8. QED
    BY <2>4, <2>5, <2>7 DEF Sending, Unsent
<1>10. Quiet'
  BY <1>1, <1>9, Tree DEF Inv, Kinds, Quiet, Sending
<1>11. AnswersCounted'
  BY <1>1, <1>2, Tree DEF Inv, Kinds, AnswersCounted
<1>12. QED
  BY <1>4, <1>5, <1>6, <1>7, <1>8, <1>10, <1>11 DEF Inv

\* The file is cut
LEMMA CutFile ==
  ASSUME Inv, NEW n \in Nodes, phase[n] \notin {"start"}, phase[Source] = "serve"
  PROVE  /\ original \in Nat \ {0} /\ Len(file[n]) \in Nat /\ original <= Len(file[n])
<1>1. original \in Nat \ {0}
  BY SourceHasPieces
<1>2. offset(num_pieces(original)) \in Nat /\ original <= offset(num_pieces(original))
  BY <1>1, Cut, PieceSizeAssumption DEF offset
<1>3. CASE n = Source
  BY <1>1, <1>3, ContentIsBytes DEF Inv, Lengths
<1>4. CASE n \in Dests
  BY <1>1, <1>2, <1>4 DEF Inv, Kinds, Phases, Known, Lengths, Complete
<1>5. QED
  BY <1>3, <1>4, Tree

\* reconstruct keeps the invariant.
LEMMA ReconstructInv == ASSUME Inv, NEW n \in Dests, Reconstruct(n) PROVE Inv'
<1> DEFINE new == SubSeq(file[n], 1, original)
<1>1. phase[n] = "received" /\ phase[Source] = "serve" /\ meta[n] = SourceMeta
  BY Tree DEF Reconstruct, Go, Inv, Known
<1>2. meta[n].fileSize = original
  BY <1>1, SourceHasPieces
<1>3. /\ phase' = [phase EXCEPT ![n] = "complete"]
      /\ file' = [file EXCEPT ![n] = new]
      /\ UNCHANGED <<original, meta, status, expected, wire, step, todo, late, piece, view,
                     padded, heap, raced>>
  BY <1>2 DEF Reconstruct, Go, FinalSize, workerVars, stringVars
<1>4. new \in Seq(Byte) /\ Len(new) = original
  <2>1. original \in Nat \ {0} /\ Len(file[n]) \in Nat /\ original <= Len(file[n])
    BY <1>1, CutFile, Tree
  <2>2. file[n] \in Seq(Byte)
    BY Tree DEF Inv, Kinds
  <2>3. QED
    BY <2>1, <2>2
<1> HIDE DEF new
<1>5. SourceMeta' = SourceMeta /\ Pieces' = Pieces
  BY <1>3 DEF SourceMeta, Pieces
<1>6. Kinds'
  BY <1>3, <1>4, <1>5 DEF Inv, Kinds, Phases, Answers
<1>7. Known'
  BY <1>1, <1>3, <1>5, Tree DEF Inv, Kinds, Known
<1>8. Lengths'
  BY <1>1, <1>3, <1>4, Tree DEF Inv, Kinds, Lengths, Complete, Content
<1>9. Once' /\ Padding'
  BY <1>3, Tree DEF Inv, Once, Padding
<1>10. Barrier'
  BY <1>1, <1>3, Tree DEF Inv, Kinds, Barrier, Complete
<1>11. Quiet'
  BY <1>1, <1>3, Tree DEF Inv, Kinds, Quiet, Sending
<1>12. AnswersCounted'
  BY <1>3, Tree DEF Inv, Kinds, AnswersCounted
<1>13. QED
  BY <1>6, <1>7, <1>8, <1>9, <1>10, <1>11, <1>12 DEF Inv

\* clean_up keeps the invariant.
LEMMA CleanUpInv == ASSUME Inv, NEW n \in Dests, CleanUp(n) PROVE Inv'
<1>1. /\ phase[n] = "complete" /\ \A d \in Dests : Complete(d)
      /\ phase' = [phase EXCEPT ![n] = "unmapped"]
      /\ UNCHANGED <<original, meta, file, status, expected, wire, step, todo, late, piece, view,
                     padded, heap, raced>>
  BY DEF CleanUp, Go, Complete, workerVars, stringVars
<1>2. SourceMeta' = SourceMeta /\ Pieces' = Pieces
  BY <1>1 DEF SourceMeta, Pieces
<1>3. Kinds'
  BY <1>1, <1>2 DEF Inv, Kinds, Phases, Answers
<1>4. Known'
  BY <1>1, <1>2, Tree DEF Inv, Kinds, Known
<1>5. Lengths'
  BY <1>1, Tree DEF Inv, Kinds, Lengths, Complete, Content
<1>6. Once' /\ Padding'
  BY <1>1, Tree DEF Inv, Once, Padding
<1>7. Barrier'
  BY <1>1, Tree DEF Inv, Kinds, Barrier, Complete
<1>8. Quiet'
  BY <1>1, Tree DEF Inv, Kinds, Quiet, Sending
<1>9. AnswersCounted'
  BY <1>1, Tree DEF Inv, Kinds, AnswersCounted
<1>10. QED
  BY <1>3, <1>4, <1>5, <1>6, <1>7, <1>8, <1>9 DEF Inv

-----------------------------------------------------------------------------
(* The workers.                                                            *)

\* What no worker touches.
LEMMA NodesStand ==
  ASSUME Inv, UNCHANGED <<original, nodeVars>>
  PROVE  Known' /\ Lengths' /\ Barrier' /\ SourceMeta' = SourceMeta /\ Pieces' = Pieces
<1>1. UNCHANGED <<original, phase, meta, file, status, expected>>
  BY DEF nodeVars
<1>2. SourceMeta' = SourceMeta /\ Pieces' = Pieces
  BY <1>1 DEF SourceMeta, Pieces
<1>3. Known'
  BY <1>1, <1>2 DEF Inv, Known
<1>4. Lengths'
  BY <1>1 DEF Inv, Lengths, Complete, Content
<1>5. Barrier'
  BY <1>1 DEF Inv, Barrier, Complete
<1>6. QED
  BY <1>2, <1>3, <1>4, <1>5

\* A step between the choice of a piece and its answer.
LEMMA Between ==
  ASSUME Inv, NEW c \in Dests, NEW to \in Steps \ {"idle", "walk"}, Sending(c),
         step' = [step EXCEPT ![c] = to],
         UNCHANGED <<original, nodeVars, wire, todo, late, piece>>
  PROVE  Once' /\ Quiet' /\ AnswersCounted' /\ step' \in [Dests -> Steps]
<1>1. UNCHANGED <<original, phase, meta, file, status, expected>>
  BY DEF nodeVars
<1>2. step' \in [Dests -> Steps]
  BY DEF Inv, Kinds
<1>3. \A d \in Dests : Sending(d)' = Sending(d)
  BY DEF Inv, Kinds, Sending
<1>4. Once'
  BY DEF Inv, Once
<1>5. Quiet'
  BY <1>1, <1>3 DEF Inv, Quiet
<1>6. AnswersCounted'
  BY <1>1, <1>3 DEF Inv, AnswersCounted, Sending
<1>7. QED
  BY <1>2, <1>4, <1>5, <1>6

\* The choice of a piece that is there.
LEMMA SendPieceInv ==
  ASSUME Inv, NEW c \in Dests, NEW i \in Pieces, SendPiece(c, i),
         phase[c] = "receive",
         todo' \in [Dests -> Seq(Pieces)], late' \in [Dests -> SUBSET Pieces],
         Once',
         \A d \in Dests \ {c} : todo'[d] = todo[d] /\ late'[d] = late[d],
         Len(todo[c]) + Cardinality(late[c]) = Len(todo'[c]) + Cardinality(late'[c]) + 1,
         Len(todo'[c]) \in Nat, Cardinality(late'[c]) \in Nat
  PROVE  Inv'
<1> DEFINE s == Upstream[c]
           to == IF NeedsPadding(i, original) THEN "resize" ELSE "write"
<1>1. i \in status[s] /\ step[c] = "walk"
  BY DEF SendPiece, WorkerStep
<1>2. meta[s].fileSize = original
  BY <1>1, Tree, SourceHasPieces DEF Inv, Known
<1>3. /\ step' = [step EXCEPT ![c] = to]
      /\ piece' = [piece EXCEPT ![c] = i] /\ view' = [view EXCEPT ![c] = Local]
      /\ UNCHANGED <<original, nodeVars, wire, padded, heap, raced>>
  BY <1>2 DEF SendPiece, WorkerStep, stringVars
<1>4. UNCHANGED <<phase, meta, file, status, expected>>
  BY <1>3 DEF nodeVars
<1>5. Known' /\ Lengths' /\ Barrier' /\ SourceMeta' = SourceMeta /\ Pieces' = Pieces
  BY <1>3, NodesStand
<1>6. to \in {"resize", "write"} /\ (to = "resize" <=> NeedsPadding(i, original))
  OBVIOUS
<1> HIDE DEF to
<1>7. i \in Nat
  BY PiecesCount
<1>8. Kinds'
  BY <1>3, <1>4, <1>5, <1>6, <1>7 DEF Inv, Kinds, Steps, Answers
<1>9. Quiet'
  BY <1>1, <1>3, <1>4, <1>6 DEF Inv, Kinds, Quiet, Sending
<1>10. Padding'
  BY <1>3, <1>6 DEF Inv, Kinds, Padding, Resizing
<1>11. AnswersCounted'
  <2> SUFFICES ASSUME NEW d \in Dests, phase'[d] = "receive"
               PROVE  expected'[d] = Len(wire'[d]) + Len(todo'[d]) + Cardinality(late'[d])
                                     + (IF step'[d] \in {"idle", "walk"} THEN 0 ELSE 1)
    BY DEF AnswersCounted
  <2>1. CASE d = c
    <3>1. expected[c] = Len(wire[c]) + Len(todo[c]) + Cardinality(late[c]) + 0
      BY <1>1, CountParts DEF Unsent
    <3>2. expected'[c] = expected[c] /\ wire'[c] = wire[c] /\ step'[c] \notin {"idle", "walk"}
      BY <1>3, <1>4, <1>6 DEF Inv, Kinds
    <3>3. expected[c] = Len(wire[c]) + Len(todo'[c]) + Cardinality(late'[c]) + 1
      <4> DEFINE w == Len(wire[c])
                 t == Len(todo[c])
                 l == Cardinality(late[c])
                 t2 == Len(todo'[c])
                 l2 == Cardinality(late'[c])
      <4>1. w \in Nat /\ t \in Nat /\ l \in Nat /\ t2 \in Nat /\ l2 \in Nat /\ t + l = t2 + l2 + 1
            /\ expected[c] = w + t + l + 0
        BY <3>1, CountParts
      <4> HIDE DEF w, t, l, t2, l2
      <4>2. w + t + l + 0 = w + t2 + l2 + 1
        BY <4>1
      <4>3. expected[c] = w + t2 + l2 + 1
        BY <4>1, <4>2
      <4>4. QED
        BY <4>3 DEF w, t2, l2
    <3>4. QED
      BY <2>1, <3>2, <3>3
  <2>2. CASE d # c
    BY <1>3, <1>4, <2>2 DEF Inv, Kinds, AnswersCounted
  <2>3. QED
    BY <2>1, <2>2
<1>12. QED
  BY <1>5, <1>8, <1>9, <1>10, <1>11 DEF Inv

\* The request of a worker that has something to go through is not over.
LEMMA StillReceiving ==
  ASSUME Inv, NEW c \in Dests, todo[c] # << >> \/ late[c] # {} \/ Sending(c)
  PROVE  phase[c] = "receive"
BY DEF Inv, Quiet

\* Going on to the rest of the sequence.
LEMMA FirstOfTodo ==
  ASSUME Inv, NEW c \in Dests, todo[c] # << >>
  PROVE  /\ Head(todo[c]) \in Pieces /\ Tail(todo[c]) \in Seq(Pieces)
         /\ Len(Tail(todo[c])) \in Nat /\ Len(todo[c]) = Len(Tail(todo[c])) + 1
         /\ Head(todo[c]) \notin late[c]
         /\ \A k \in 1 .. Len(Tail(todo[c])) :
              /\ Tail(todo[c])[k] \notin late[c] /\ Tail(todo[c])[k] # Head(todo[c])
              /\ \A l \in 1 .. Len(Tail(todo[c])) : Tail(todo[c])[k] = Tail(todo[c])[l] => k = l
<1> DEFINE w == todo[c]
           t == Tail(w)
<1>1. w \in Seq(Pieces)
  BY DEF Inv, Kinds
<1>2. /\ Head(w) \in Pieces /\ t \in Seq(Pieces) /\ Len(t) = Len(w) - 1 /\ Len(w) \in Nat \ {0}
      /\ Head(w) = w[1] /\ \A k \in 1 .. Len(t) : t[k] = w[k + 1]
  BY <1>1, Answered
<1>3. \A k \in 1 .. Len(w) : w[k] \notin late[c] /\ \A l \in 1 .. Len(w) : w[k] = w[l] => k = l
  BY DEF Inv, Once
<1> HIDE DEF w, t
<1>4. 1 \in 1 .. Len(w) /\ \A k \in 1 .. Len(t) : k + 1 \in 1 .. Len(w) /\ k + 1 # 1
  BY <1>2
<1>5. /\ Head(w) \notin late[c]
      /\ \A k \in 1 .. Len(t) : /\ t[k] \notin late[c] /\ t[k] # Head(w)
                                /\ \A l \in 1 .. Len(t) : t[k] = t[l] => k = l
  <2>1. Head(w) \notin late[c]
    BY <1>2, <1>3, <1>4
  <2>2. ASSUME NEW k \in 1 .. Len(t)
        PROVE  t[k] \notin late[c] /\ t[k] # Head(w)
    BY <1>2, <1>3, <1>4
  <2>3. ASSUME NEW k \in 1 .. Len(t), NEW l \in 1 .. Len(t), t[k] = t[l]
        PROVE  k = l
    <3>1. k + 1 = l + 1
      BY <1>2, <1>3, <1>4, <2>3
    <3>2. QED
      BY <3>1
  <2>4. QED
    BY <2>1, <2>2, <2>3
<1>6. Len(t) \in Nat /\ Len(w) = Len(t) + 1
  BY <1>2
<1>7. QED
  BY <1>2, <1>5, <1>6 DEF w, t

\* send_piece of the next piece, found.
LEMMA SendNextInv == ASSUME Inv, NEW c \in Dests, SendNext(c) PROVE Inv'
<1> DEFINE i == Head(todo[c])
           t == Tail(todo[c])
<1>1. todo[c] # << >> /\ SendPiece(c, i) /\ todo' = [todo EXCEPT ![c] = t] /\ late' = late
  BY DEF SendNext
<1>2. /\ i \in Pieces /\ t \in Seq(Pieces) /\ Len(t) \in Nat /\ Len(todo[c]) = Len(t) + 1
      /\ \A k \in 1 .. Len(t) : /\ t[k] \notin late[c]
                                /\ \A l \in 1 .. Len(t) : t[k] = t[l] => k = l
  BY <1>1, FirstOfTodo
<1>3. phase[c] = "receive"
  BY <1>1, StillReceiving
<1> HIDE DEF i, t
<1>4. todo' \in [Dests -> Seq(Pieces)] /\ late' \in [Dests -> SUBSET Pieces] /\ todo'[c] = t
  BY <1>1, <1>2 DEF Inv, Kinds
<1>5. Once'
  BY <1>1, <1>2 DEF Inv, Kinds, Once
<1>6. \A d \in Dests \ {c} : todo'[d] = todo[d] /\ late'[d] = late[d]
  BY <1>1
<1>7. /\ Len(todo[c]) + Cardinality(late[c]) = Len(todo'[c]) + Cardinality(late'[c]) + 1
      /\ Len(todo'[c]) \in Nat /\ Cardinality(late'[c]) \in Nat
  <2>1. Cardinality(late[c]) \in Nat
    BY LateFinite
  <2> DEFINE l == Cardinality(late[c])
  <2> HIDE DEF l
  <2>2. l \in Nat /\ (Len(t) + 1) + l = Len(t) + l + 1
    BY <1>2, <2>1 DEF l
  <2>3. QED
    BY <1>1, <1>2, <1>4, <2>1, <2>2 DEF l
<1>8. QED
  BY <1>1, <1>2, <1>3, <1>4, <1>5, <1>6, <1>7, SendPieceInv

\* wait_for_queue, when a piece has come.
LEMMA SendLateInv == ASSUME Inv, NEW c \in Dests, NEW i \in late[c], SendLate(c, i) PROVE Inv'
<1>1. todo[c] = << >> /\ SendPiece(c, i) /\ late' = [late EXCEPT ![c] = @ \ {i}] /\ todo' = todo
  BY DEF SendLate
<1>2. i \in Pieces
  BY DEF Inv, Kinds
<1>3. phase[c] = "receive"
  BY StillReceiving
<1>4. /\ todo' \in [Dests -> Seq(Pieces)] /\ late' \in [Dests -> SUBSET Pieces]
      /\ late'[c] = late[c] \ {i}
  BY <1>1 DEF Inv, Kinds
<1>5. Once'
  BY <1>1 DEF Inv, Kinds, Once
<1>6. \A d \in Dests \ {c} : todo'[d] = todo[d] /\ late'[d] = late[d]
  BY <1>1
<1>7. /\ Len(todo[c]) + Cardinality(late[c]) = Len(todo'[c]) + Cardinality(late'[c]) + 1
      /\ Len(todo'[c]) \in Nat /\ Cardinality(late'[c]) \in Nat
  <2>1. /\ Cardinality(late[c] \ {i}) = Cardinality(late[c]) - 1
        /\ Cardinality(late[c]) \in Nat /\ IsFiniteSet(late[c] \ {i})
    BY LateFinite, FS_RemoveElement
  <2>2. Cardinality(late[c] \ {i}) \in Nat
    BY <2>1, FS_CardinalityType
  <2>3. Len(todo[c]) = 0
    BY <1>1
  <2>4. QED
    BY <1>1, <1>4, <2>1, <2>2, <2>3
<1>8. QED
  BY <1>1, <1>2, <1>3, <1>4, <1>5, <1>6, <1>7, SendPieceInv

\* send_piece of the next piece, not found.
LEMMA QueueNextInv == ASSUME Inv, NEW c \in Dests, QueueNext(c) PROVE Inv'
<1> DEFINE i == Head(todo[c])
           t == Tail(todo[c])
<1>1. /\ todo[c] # << >> /\ step[c] = "walk"
      /\ step' = [step EXCEPT ![c] = "walk"]
      /\ todo' = [todo EXCEPT ![c] = t] /\ late' = [late EXCEPT ![c] = @ \cup {i}]
      /\ UNCHANGED <<original, nodeVars, wire, piece, view, padded, heap, raced>>
  BY DEF QueueNext, WorkerStep, stringVars
<1>2. UNCHANGED <<phase, meta, file, status, expected>>
  BY <1>1 DEF nodeVars
<1>3. /\ i \in Pieces /\ t \in Seq(Pieces) /\ Len(t) \in Nat /\ Len(todo[c]) = Len(t) + 1
      /\ i \notin late[c]
      /\ \A k \in 1 .. Len(t) : /\ t[k] \notin late[c] /\ t[k] # i
                                /\ \A l \in 1 .. Len(t) : t[k] = t[l] => k = l
  BY <1>1, FirstOfTodo
<1> HIDE DEF i, t
<1>4. step' = step
  BY <1>1 DEF Inv, Kinds
<1>5. Known' /\ Lengths' /\ Barrier' /\ SourceMeta' = SourceMeta /\ Pieces' = Pieces
  BY <1>1, NodesStand
<1>6. Kinds'
  BY <1>1, <1>2, <1>3, <1>4, <1>5 DEF Inv, Kinds, Answers
<1>7. Once'
  BY <1>1, <1>3 DEF Inv, Kinds, Once
<1>8. Quiet'
  <2>1. phase[c] = "receive"
    BY <1>1, StillReceiving
  <2>2. QED
    BY <1>1, <1>2, <1>4, <2>1 DEF Inv, Kinds, Quiet, Sending
<1>9. Padding'
  BY <1>1, <1>4 DEF Inv, Padding
<1>10. AnswersCounted'
  <2> SUFFICES ASSUME NEW d \in Dests, phase'[d] = "receive"
               PROVE  expected'[d] = Len(wire'[d]) + Len(todo'[d]) + Cardinality(late'[d]) + Unsent(d)
    BY <1>4 DEF AnswersCounted, Unsent
  <2>0. expected[d] = Len(wire[d]) + Len(todo[d]) + Cardinality(late[d]) + Unsent(d)
    BY <1>2, CountParts
  <2>1. CASE d = c
    <3>1. Cardinality(late[c] \cup {i}) = Cardinality(late[c]) + 1
      BY <1>3, LateFinite, FS_AddElement
    <3>2. late'[c] = late[c] \cup {i} /\ todo'[c] = t
      BY <1>1 DEF Inv, Kinds
    <3> DEFINE w == Len(wire[c])
               l == Cardinality(late[c])
               u == Unsent(c)
               m == Len(t)
    <3>3. w \in Nat /\ l \in Nat /\ u \in Nat /\ m \in Nat
      BY <1>3, CountParts
    <3>4. Len(todo[c]) = m + 1 /\ Len(todo'[c]) = m /\ Cardinality(late'[c]) = l + 1
      BY <1>3, <3>1, <3>2
    <3>5. expected[c] = w + (m + 1) + l + u
      BY <2>0, <2>1, <3>4
    <3> HIDE DEF w, l, u, m
    <3>6. w + (m + 1) + l + u = w + m + (l + 1) + u
      BY <3>3
    <3>7. expected[c] = w + m + (l + 1) + u
      BY <3>5, <3>6
    <3>8. QED
      BY <1>1, <1>2, <2>1, <3>4, <3>7 DEF w, u
  <2>2. CASE d # c
    BY <1>1, <1>2, <2>0, <2>2
  <2>3. QED
    BY <2>1, <2>2
<1>11. QED
  BY <1>5, <1>6, <1>7, <1>8, <1>9, <1>10 DEF Inv

\* The end of a request.
LEMMA RequestDoneInv == ASSUME Inv, NEW c \in Dests, RequestDone(c) PROVE Inv'
<1>1. /\ todo[c] = << >> /\ late[c] = {} /\ step[c] = "walk"
      /\ step' = [step EXCEPT ![c] = "idle"]
      /\ UNCHANGED <<original, nodeVars, wire, todo, late, piece, view, padded, heap, raced>>
  BY DEF RequestDone, WorkerStep, stringVars
<1>2. UNCHANGED <<phase, meta, file, status, expected>>
  BY <1>1 DEF nodeVars
<1>3. Known' /\ Lengths' /\ Barrier' /\ SourceMeta' = SourceMeta /\ Pieces' = Pieces
  BY <1>1, NodesStand
<1>4. Kinds'
  BY <1>1, <1>2, <1>3 DEF Inv, Kinds, Steps, Answers
<1>5. Once'
  BY <1>1 DEF Inv, Once
<1>6. Quiet'
  BY <1>1, <1>2 DEF Inv, Kinds, Quiet, Sending
<1>7. Padding'
  BY <1>1 DEF Inv, Kinds, Padding, Resizing
<1>8. AnswersCounted'
  BY <1>1, <1>2 DEF Inv, Kinds, AnswersCounted
<1>9. QED
  BY <1>3, <1>4, <1>5, <1>6, <1>7, <1>8 DEF Inv

\* A worker reads from a file that is mapped and has all its bytes.
LEMMA Readable ==
  ASSUME Inv, NEW c \in Dests, Sending(c)
  PROVE  LET s == Upstream[c]
         IN  /\ s \in Nodes /\ phase[s] # "start" /\ phase[s] # "unmapped"
             /\ meta[s].fileSize = original /\ original \in Nat \ {0}
             /\ piece[c] \in Pieces /\ piece[c] \in status[s] /\ piece[c] \in Nat
             /\ \A k \in 1 .. original : ByteAt(s, k) = file[s][k] /\ ByteAt(s, k) \in Byte
<1> DEFINE s == Upstream[c]
<1>1. s \in Nodes /\ piece[c] \in status[s] /\ phase[c] = "receive"
  BY StillReceiving, Tree DEF Inv, Quiet
<1>2. phase[s] # "start" /\ phase[s] # "unmapped"
  BY <1>1 DEF Inv, Known, Barrier, Complete
<1>3. phase[Source] = "serve" /\ meta[s] = SourceMeta
  BY <1>1, <1>2 DEF Inv, Known
<1>4. meta[s].fileSize = original
  BY <1>3, SourceHasPieces
<1>5. original \in Nat \ {0} /\ Len(file[s]) \in Nat /\ original <= Len(file[s])
  BY <1>1, <1>2, <1>3, CutFile
<1>6. piece[c] \in Pieces /\ piece[c] \in Nat
  BY <1>1, PiecesCount DEF Inv, Kinds
<1>7. file[s] \in Seq(Byte)
  BY <1>1 DEF Inv, Kinds
<1> HIDE DEF s
<1>8. ASSUME NEW k \in 1 .. original
      PROVE  ByteAt(s, k) = file[s][k] /\ ByteAt(s, k) \in Byte
  <2>1. k \in DOMAIN file[s] /\ file[s][k] \in Byte
    <3>1. k \in 1 .. Len(file[s])
      BY <1>5
    <3>2. QED
      BY <1>7, <3>1
  <2>2. QED
    BY <1>2, <2>1 DEF ByteAt
<1>9. QED
  BY <1>1, <1>2, <1>4, <1>5, <1>6, <1>8 DEF s

\* The steps of the string's first resize keep the invariant: its size is tested,
LEMMA TestSizeInv == ASSUME Inv, NEW c \in Dests, TestSize(c) PROVE Inv'
<1> DEFINE s == Upstream[c]
           to == IF padded[s].length = piece_size THEN "copy" ELSE "grow"
<1>1. /\ step[c] = "resize" /\ step' = [step EXCEPT ![c] = to]
      /\ UNCHANGED <<original, nodeVars, wire, todo, late, piece, view, padded, heap>>
  BY DEF TestSize, WorkerStep
<1>2. raced' \in SUBSET Nodes
  BY Tree DEF TestSize, Inv, Kinds
<1>3. to \in {"copy", "grow"} /\ (to = "copy" => padded[s].fits)
  BY Tree DEF Inv, Padding
<1> HIDE DEF to
<1>4. Known' /\ Lengths' /\ Barrier' /\ SourceMeta' = SourceMeta /\ Pieces' = Pieces
  BY <1>1, NodesStand
<1>5. Once' /\ Quiet' /\ AnswersCounted' /\ step' \in [Dests -> Steps]
  <2>1. to \in Steps \ {"idle", "walk"} /\ Sending(c)
    BY <1>1, <1>3 DEF Steps, Resizing, Sending
  <2>2. QED
    BY <1>1, <2>1, Between
<1>6. Kinds'
  BY <1>1, <1>2, <1>4, <1>5 DEF Inv, Kinds, nodeVars, Answers
<1>7. Padding'
  BY <1>1, <1>3, Tree DEF Inv, Kinds, Padding, Resizing
<1>8. QED
  BY <1>4, <1>5, <1>6, <1>7 DEF Inv

\* then its capacity,
LEMMA TestCapacityInv == ASSUME Inv, NEW c \in Dests, TestCapacity(c) PROVE Inv'
<1> DEFINE s == Upstream[c]
           to == IF padded[s].fits THEN "fill" ELSE "allocate"
<1>1. /\ step[c] = "grow" /\ step' = [step EXCEPT ![c] = to]
      /\ UNCHANGED <<original, nodeVars, wire, todo, late, piece, view, padded, heap, raced>>
  BY DEF TestCapacity, WorkerStep, stringVars
<1>2. to \in {"fill", "allocate"} /\ (to = "fill" => padded[s].fits)
  OBVIOUS
<1> HIDE DEF to
<1>3. Known' /\ Lengths' /\ Barrier' /\ SourceMeta' = SourceMeta /\ Pieces' = Pieces
  BY <1>1, NodesStand
<1>4. Once' /\ Quiet' /\ AnswersCounted' /\ step' \in [Dests -> Steps]
  <2>1. to \in Steps \ {"idle", "walk"} /\ Sending(c)
    BY <1>1, <1>2 DEF Steps, Resizing, Sending
  <2>2. QED
    BY <1>1, <2>1, Between
<1>5. Kinds'
  BY <1>1, <1>3, <1>4 DEF Inv, Kinds, nodeVars, Answers
<1>6. Padding'
  BY <1>1, <1>2, Tree DEF Inv, Kinds, Padding, Resizing
<1>7. QED
  BY <1>3, <1>4, <1>5, <1>6 DEF Inv

\* Buffers of a piece's size.
LEMMA Buffers ==
  /\ Zeros(piece_size) \in Buffer /\ [k \in 1 .. piece_size |-> Junk] \in Buffer
BY PieceSizeAssumption DEF Buffer, Byte, Zeros

\* then it gets a buffer,
LEMMA AllocateInv == ASSUME Inv, NEW c \in Dests, Allocate(c) PROVE Inv'
<1> DEFINE s == Upstream[c]
           new == [k \in 1 .. piece_size |-> Junk]
<1>1. /\ step[c] = "allocate" /\ step' = [step EXCEPT ![c] = "fill"]
      /\ heap' = [d \in Dests |-> IF d = c THEN new
                                  ELSE IF d = padded[s].data THEN Freed ELSE heap[d]]
      /\ padded' = [padded EXCEPT ![s] = [@ EXCEPT !.data = c, !.fits = TRUE]]
      /\ UNCHANGED <<original, nodeVars, wire, todo, late, piece, view, raced>>
  BY DEF Allocate, WorkerStep
<1>2. new \in Buffer
  BY Buffers
<1> HIDE DEF new
<1>3. Known' /\ Lengths' /\ Barrier' /\ SourceMeta' = SourceMeta /\ Pieces' = Pieces
  BY <1>1, NodesStand
<1>4. Once' /\ Quiet' /\ AnswersCounted' /\ step' \in [Dests -> Steps]
  <2>1. "fill" \in Steps \ {"idle", "walk"} /\ Sending(c)
    BY <1>1 DEF Steps, Resizing, Sending
  <2>2. QED
    BY <1>1, <2>1, Between
<1>5. padded' \in [Nodes -> Strings] /\ padded'[s].data = c /\ padded'[s].fits = TRUE
      /\ padded'[s].length = padded[s].length
  <2>1. padded[s] \in Strings /\ s \in Nodes
    BY Tree DEF Inv, Kinds
  <2> DEFINE str == [padded[s] EXCEPT !.data = c, !.fits = TRUE]
  <2>2. str \in Strings /\ str.data = c /\ str.fits = TRUE /\ str.length = padded[s].length
    BY <2>1 DEF Strings
  <2> HIDE DEF str
  <2>3. padded' = [padded EXCEPT ![s] = str]
    BY <1>1 DEF str
  <2>4. QED
    BY <2>1, <2>2, <2>3 DEF Inv, Kinds
<1>6. heap' \in [Dests -> Buffer \cup {Freed}]
  BY <1>1, <1>2 DEF Inv, Kinds
<1>7. Kinds'
  BY <1>1, <1>3, <1>4, <1>5, <1>6 DEF Inv, Kinds, nodeVars, Answers, Strings
<1>8. Padding'
  <2>1. \A n \in Nodes \ {s} : padded'[n] = padded[n]
    BY <1>1 DEF Inv, Kinds
  <2>2. c \in Clients(s) /\ c # Local /\ s \in Nodes
    BY Tree
  <2>3. \A n \in Nodes :
          /\ padded'[n].data \in Clients(n) \cup {Local}
          /\ padded'[n].fits => padded'[n].data # Local
          /\ padded'[n].length = piece_size => padded'[n].fits
    BY <1>5, <2>1, <2>2 DEF Inv, Padding
  <2>4. \A d \in Dests : padded[Upstream[d]].fits => padded'[Upstream[d]].fits
    BY <1>5, <2>1, Tree
  <2>5. \A d \in Dests :
          /\ step'[d] \in {"fill", "copy"} => padded'[Upstream[d]].fits
          /\ step'[d] \in Resizing \cup {"resize", "copy"} => NeedsPadding(piece'[d], original')
          /\ step'[d] = "write" => (view'[d] = Local <=> ~NeedsPadding(piece'[d], original'))
    BY <1>1, <1>5, <2>4 DEF Inv, Kinds, Padding, Resizing
  <2>6. QED
    BY <2>3, <2>5 DEF Padding
<1>9. QED
  BY <1>3, <1>4, <1>7, <1>8 DEF Inv

\* which is filled, and the length is set.
LEMMA FillZeroInv == ASSUME Inv, NEW c \in Dests, FillZero(c) PROVE Inv'
<1> DEFINE s == Upstream[c]
<1>1. /\ step[c] = "fill" /\ step' = [step EXCEPT ![c] = "copy"]
      /\ heap' = [heap EXCEPT ![padded[s].data] = Zeros(piece_size)]
      /\ padded' = [padded EXCEPT ![s].length = piece_size]
      /\ UNCHANGED <<original, nodeVars, wire, todo, late, piece, view, raced>>
  BY DEF FillZero, Fill, WorkerStep
<1>2. Zeros(piece_size) \in Buffer
  BY Buffers
<1>3. Known' /\ Lengths' /\ Barrier' /\ SourceMeta' = SourceMeta /\ Pieces' = Pieces
  BY <1>1, NodesStand
<1>4. Once' /\ Quiet' /\ AnswersCounted' /\ step' \in [Dests -> Steps]
  <2>1. "copy" \in Steps \ {"idle", "walk"} /\ Sending(c)
    BY <1>1 DEF Steps, Resizing, Sending
  <2>2. QED
    BY <1>1, <2>1, Between
<1>5. padded' \in [Nodes -> Strings] /\ padded'[s].data = padded[s].data
      /\ padded'[s].fits = padded[s].fits /\ padded[s].fits
  <2>1. padded[s] \in Strings /\ s \in Nodes /\ padded[s].fits
    BY <1>1, Tree DEF Inv, Kinds, Padding
  <2> DEFINE str == [padded[s] EXCEPT !.length = piece_size]
  <2>2. str \in Strings /\ str.data = padded[s].data /\ str.fits = padded[s].fits
    BY <2>1 DEF Strings
  <2> HIDE DEF str
  <2>3. padded' = [padded EXCEPT ![s] = str]
    BY <1>1 DEF str
  <2>4. QED
    BY <2>1, <2>2, <2>3 DEF Inv, Kinds
<1>6. heap' \in [Dests -> Buffer \cup {Freed}]
  BY <1>1, <1>2 DEF Inv, Kinds
<1>7. Kinds'
  BY <1>1, <1>3, <1>4, <1>5, <1>6 DEF Inv, Kinds, nodeVars, Answers, Strings
<1>8. Padding'
  <2>1. \A n \in Nodes \ {s} : padded'[n] = padded[n]
    BY <1>1 DEF Inv, Kinds
  <2>2. \A n \in Nodes :
          /\ padded'[n].data \in Clients(n) \cup {Local}
          /\ padded'[n].fits => padded'[n].data # Local
          /\ padded'[n].length = piece_size => padded'[n].fits
    BY <1>5, <2>1 DEF Inv, Padding
  <2>3. \A d \in Dests : padded[Upstream[d]].fits => padded'[Upstream[d]].fits
    BY <1>5, <2>1, Tree
  <2>4. \A d \in Dests :
          /\ step'[d] \in {"fill", "copy"} => padded'[Upstream[d]].fits
          /\ step'[d] \in Resizing \cup {"resize", "copy"} => NeedsPadding(piece'[d], original')
          /\ step'[d] = "write" => (view'[d] = Local <=> ~NeedsPadding(piece'[d], original'))
    BY <1>1, <1>5, <2>3 DEF Inv, Kinds, Padding, Resizing
  <2>5. QED
    BY <2>2, <2>4 DEF Padding
<1>9. QED
  BY <1>3, <1>4, <1>7, <1>8 DEF Inv

\* What a worker copies into the padded string, and how long it is.
LEMMA PaddedBytes ==
  ASSUME Inv, NEW c \in Dests, step[c] = "copy"
  PROVE  LET s == Upstream[c]
             bytes == FileBytes(s, piece[c])
             all == bytes \o Zeros(piece_size - Len(bytes))
         IN  /\ all \in Buffer
             /\ \A k \in 1 .. original :
                  InSlice(piece[c], k) => all[k - offset(piece[c])] = file[s][k]
<1> DEFINE s == Upstream[c]
           i == piece[c]
           m == original - offset(i)
           bytes == FileBytes(s, i)
           zeros == Zeros(piece_size - m)
           all == bytes \o zeros
<1>1. /\ i \in Pieces /\ i \in Nat /\ original \in Nat \ {0} /\ meta[s].fileSize = original
      /\ \A k \in 1 .. original : ByteAt(s, k) = file[s][k] /\ ByteAt(s, k) \in Byte
  <2>1. Sending(c)
    BY DEF Sending
  <2>2. QED
    BY <2>1, Readable
<1>2. NeedsPadding(i, original)
  BY DEF Inv, Padding
<1>3. piece_size \in Nat \ {0} /\ offset(i) \in Nat /\ offset(i) < original
  BY <1>1, Slices, PieceSizeAssumption DEF Pieces
<1>4. m \in Nat \ {0} /\ m < piece_size
  BY <1>1, <1>2, <1>3 DEF NeedsPadding
<1>5. LastByte(s, i) = original
  BY <1>1, <1>3, <1>4 DEF LastByte
<1>6. bytes = [k \in 1 .. m |-> ByteAt(s, offset(i) + k)]
  BY <1>5 DEF FileBytes
<1> HIDE DEF bytes, i, s
<1>7. \A k \in 1 .. m : bytes[k] = file[s][offset(i) + k] /\ bytes[k] \in Byte
  <2> SUFFICES ASSUME NEW k \in 1 .. m
               PROVE  bytes[k] = file[s][offset(i) + k] /\ bytes[k] \in Byte
    OBVIOUS
  <2>1. offset(i) + k \in 1 .. original
    BY <1>1, <1>3
  <2>2. bytes[k] = ByteAt(s, offset(i) + k)
    BY <1>6
  <2>3. QED
    BY <1>1, <2>1, <2>2
<1>8. bytes \in [1 .. m -> Byte]
  <2>1. bytes = [k \in 1 .. m |-> bytes[k]]
    BY <1>6
  <2>2. QED
    BY <1>7, <2>1
<1> DEFINE off == offset(i)
<1>9. m = original - off /\ off \in Nat
  BY <1>3
<1> HIDE DEF m, off
<1>10. bytes \in Seq(Byte) /\ Len(bytes) = m
  BY <1>4, <1>8, AsSequence
<1>11. zeros \in Seq(Byte) /\ Len(zeros) = piece_size - m
  <2>1. piece_size - m \in Nat
    BY <1>3, <1>4
  <2>2. QED
    BY <2>1, ZerosAreBytes
<1> HIDE DEF zeros
<1>12. all \in Seq(Byte) /\ Len(all) = piece_size /\ \A k \in 1 .. m : all[k] = bytes[k]
  BY <1>3, <1>4, <1>10, <1>11
<1>13. Len(bytes) = m /\ all = bytes \o Zeros(piece_size - Len(bytes))
  BY <1>10 DEF zeros
<1> HIDE DEF all
<1>14. all \in Buffer
  BY <1>12 DEF Buffer
<1>15. ASSUME NEW k \in 1 .. original, InSlice(i, k)
       PROVE  all[k - offset(i)] = file[s][k]
  <2>1. k - off \in 1 .. m /\ offset(i) = off /\ off + (k - off) = k
    BY <1>1, <1>4, <1>9, <1>15 DEF InSlice, off
  <2>2. QED
    BY <1>7, <1>12, <2>1
<1>16. QED
  BY <1>13, <1>14, <1>15 DEF bytes, i, s

\* The copy of the last piece keeps the invariant: it reads what is in the file.
LEMMA PadInv == ASSUME Inv, NEW c \in Dests, Pad(c) PROVE Inv'
<1> DEFINE s == Upstream[c]
           bytes == FileBytes(s, piece[c])
           all == bytes \o Zeros(piece_size - Len(bytes))
<1>1. /\ step[c] = "copy" /\ step' = [step EXCEPT ![c] = "write"]
      /\ heap' = [heap EXCEPT ![padded[s].data] = all]
      /\ view' = [view EXCEPT ![c] = padded[s].data]
      /\ UNCHANGED <<original, nodeVars, wire, todo, late, piece, padded, raced>>
  BY DEF Pad, Fill, WorkerStep
<1>2. all \in Buffer
  BY <1>1, PaddedBytes
<1> HIDE DEF all
<1>3. /\ padded[s].data \in Dests /\ padded[s].data # Local /\ NeedsPadding(piece[c], original)
  BY <1>1, Tree DEF Inv, Padding
<1>4. Known' /\ Lengths' /\ Barrier' /\ SourceMeta' = SourceMeta /\ Pieces' = Pieces
  BY <1>1, NodesStand
<1>5. Once' /\ Quiet' /\ AnswersCounted' /\ step' \in [Dests -> Steps]
  <2>1. "write" \in Steps \ {"idle", "walk"} /\ Sending(c)
    BY <1>1 DEF Steps, Resizing, Sending
  <2>2. QED
    BY <1>1, <2>1, Between
<1>6. Kinds'
  BY <1>1, <1>2, <1>3, <1>4, <1>5 DEF Inv, Kinds, nodeVars, Answers
<1>7. Padding'
  BY <1>1, <1>3, Tree DEF Inv, Kinds, Padding, Resizing
<1>8. QED
  BY <1>4, <1>5, <1>6, <1>7 DEF Inv

\* What a worker sends is a piece's length of bytes, and for a piece that fills
\* its slice these are the file's.
LEMMA SentBytes ==
  ASSUME Inv, NEW c \in Dests, step[c] = "write"
  PROVE  /\ Viewed(c) \in Buffer
         /\ view[c] = Local => \A k \in 1 .. original :
              InSlice(piece[c], k) => Viewed(c)[k - offset(piece[c])] = file[Upstream[c]][k]
<1> DEFINE s == Upstream[c]
           i == piece[c]
<1>1. CASE view[c] = Local
  <2>1. /\ i \in Pieces /\ i \in Nat /\ original \in Nat \ {0}
        /\ \A k \in 1 .. original : ByteAt(s, k) = file[s][k] /\ ByteAt(s, k) \in Byte
    <3>1. Sending(c)
      BY DEF Sending
    <3>2. QED
      BY <3>1, Readable
  <2>2. ~NeedsPadding(i, original)
    BY <1>1 DEF Inv, Padding
  <2>3. piece_size \in Nat \ {0} /\ offset(i) \in Nat /\ offset(i) + piece_size <= original
    BY <2>1, <2>2, Slices, PieceSizeAssumption DEF Pieces
  <2>4. Viewed(c) = [k \in 1 .. piece_size |-> ByteAt(s, offset(i) + k)]
    BY <1>1 DEF Viewed, Slice
  <2> HIDE DEF s, i
  <2> DEFINE v == Viewed(c)
             off == offset(i)
  <2>5. \A k \in 1 .. piece_size : v[k] = ByteAt(s, off + k) /\ off + k \in 1 .. original
    BY <2>1, <2>3, <2>4
  <2>6. v = [k \in 1 .. piece_size |-> v[k]]
    BY <2>4
  <2> HIDE DEF v
  <2>7. v \in Buffer
    BY <2>1, <2>5, <2>6 DEF Buffer
  <2>8. ASSUME NEW k \in 1 .. original, InSlice(i, k)
        PROVE  v[k - offset(i)] = file[s][k]
    <3>1. k - off \in 1 .. piece_size /\ off + (k - off) = k
      BY <2>1, <2>3, <2>8 DEF InSlice
    <3>2. QED
      BY <2>1, <2>5, <3>1
  <2>9. QED
    BY <2>7, <2>8 DEF v, s, i
<1>2. CASE view[c] # Local
  <2>1. view[c] \in Dests /\ heap[view[c]] \in Buffer \cup {Freed}
    BY <1>2 DEF Inv, Kinds
  <2>2. QED
    BY <1>2, <2>1, Buffers DEF Viewed
<1>3. QED
  BY <1>1, <1>2

\* One more answer.
LEMMA Appended ==
  ASSUME NEW T, NEW w \in Seq(T), NEW a \in T
  PROVE  /\ Append(w, a) \in Seq(T) /\ Len(Append(w, a)) = Len(w) + 1
         /\ Append(w, a)[Len(w) + 1] = a /\ \A k \in 1 .. Len(w) : Append(w, a)[k] = w[k]
OBVIOUS

\* An answer is sent.
LEMMA WriteAnswerInv == ASSUME Inv, NEW c \in Dests, WriteAnswer(c) PROVE Inv'
<1> DEFINE answer == <<piece[c], Viewed(c)>>
<1>1. /\ step[c] = "write" /\ step' = [step EXCEPT ![c] = "walk"]
      /\ wire' = [wire EXCEPT ![c] = Append(@, answer)]
      /\ UNCHANGED <<original, nodeVars, todo, late, piece, view, padded, heap, raced>>
  BY DEF WriteAnswer, WorkerStep, stringVars
<1>2. UNCHANGED <<phase, meta, file, status, expected>>
  BY <1>1 DEF nodeVars
<1>3. answer \in Answers
  <2>1. Sending(c)
    BY <1>1 DEF Sending
  <2>2. piece[c] \in Pieces /\ Viewed(c) \in Buffer
    BY <1>1, <2>1, Readable, SentBytes
  <2>3. QED
    BY <2>2 DEF Answers
<1> HIDE DEF answer
<1>4. Known' /\ Lengths' /\ Barrier' /\ SourceMeta' = SourceMeta /\ Pieces' = Pieces
  BY <1>1, NodesStand
<1>5. wire[c] \in Seq(Answers) /\ wire' \in [Dests -> Seq(Answers)]
      /\ Len(wire'[c]) = Len(wire[c]) + 1
  <2>1. wire[c] \in Seq(Answers)
    BY DEF Inv, Kinds
  <2>2. Append(wire[c], answer) \in Seq(Answers) /\ Len(Append(wire[c], answer)) = Len(wire[c]) + 1
    BY <1>3, <2>1, Appended
  <2>3. QED
    BY <1>1, <2>1, <2>2 DEF Inv, Kinds
<1>6. Kinds'
  BY <1>1, <1>2, <1>4, <1>5 DEF Inv, Kinds, Steps, Answers
<1>7. Once'
  BY <1>1 DEF Inv, Once
<1>8. Quiet'
  <2>1. phase[c] = "receive"
    BY <1>1, StillReceiving DEF Sending
  <2>2. QED
    BY <1>1, <1>2, <2>1 DEF Inv, Kinds, Quiet, Sending
<1>9. Padding'
  BY <1>1 DEF Inv, Kinds, Padding, Resizing
<1>10. AnswersCounted'
  <2> SUFFICES ASSUME NEW d \in Dests, phase'[d] = "receive"
               PROVE  expected'[d] = Len(wire'[d]) + Len(todo[d]) + Cardinality(late[d])
                                     + (IF step'[d] \in {"idle", "walk"} THEN 0 ELSE 1)
    BY <1>1 DEF AnswersCounted
  <2>1. expected[d] = Len(wire[d]) + Len(todo[d]) + Cardinality(late[d]) + Unsent(d)
    BY <1>2, CountParts
  <2>2. CASE d = c
    <3> DEFINE w == Len(wire[c])
               t == Len(todo[c])
               l == Cardinality(late[c])
    <3>1. w \in Nat /\ t \in Nat /\ l \in Nat
      BY CountParts
    <3>2. expected[c] = w + t + l + 1
      BY <1>1, <2>1, <2>2 DEF Unsent
    <3>3. Len(wire'[c]) = w + 1 /\ step'[c] = "walk"
      BY <1>1, <1>5 DEF Inv, Kinds
    <3> HIDE DEF w, t, l
    <3>4. w + t + l + 1 = (w + 1) + t + l + 0
      BY <3>1
    <3>5. expected[c] = (w + 1) + t + l + 0
      BY <3>2, <3>4
    <3>6. QED
      BY <1>2, <2>2, <3>3, <3>5 DEF t, l
  <2>3. CASE d # c
    BY <1>1, <1>2, <2>1, <2>3 DEF Inv, Kinds, Unsent
  <2>4. QED
    BY <2>2, <2>3
<1>11. QED
  BY <1>4, <1>6, <1>7, <1>8, <1>9, <1>10 DEF Inv

\* Nothing happens.
LEMMA StutterInv == ASSUME Inv, UNCHANGED vars PROVE Inv'
<1>1. UNCHANGED <<original, nodeVars, wire, step, todo, late, piece, view, padded, heap, raced>>
  BY DEF vars, workerVars, stringVars
<1>2. UNCHANGED <<phase, meta, file, status, expected>>
  BY <1>1 DEF nodeVars
<1>3. Known' /\ Lengths' /\ Barrier' /\ SourceMeta' = SourceMeta /\ Pieces' = Pieces
  BY <1>1, NodesStand
<1>4. Kinds'
  BY <1>1, <1>2, <1>3 DEF Inv, Kinds, Answers
<1>5. Once' /\ Quiet' /\ Padding' /\ AnswersCounted'
  BY <1>1, <1>2 DEF Inv, Once, Quiet, Sending, Padding, AnswersCounted
<1>6. QED
  BY <1>3, <1>4, <1>5 DEF Inv

\* Every step keeps the invariant.
LEMMA NextInv == Inv /\ [Next]_vars => Inv'
<1> SUFFICES ASSUME Inv, [Next]_vars PROVE Inv'
  OBVIOUS
<1>1. CASE InitializeSource
  BY <1>1, InitializeSourceInv
<1>2. ASSUME NEW n \in Dests, Main(n)
      PROVE  Inv'
  <2>1. CASE GetMetadata(n)
    BY <2>1, GetMetadataInv
  <2>2. CASE RequestPieces(n, WholeRange(n)) \/ RequestPieces(n, Mixture(n))
    BY <2>2, RequestPiecesInv
  <2>3. CASE Receive(n)
    BY <2>3, ReceiveInv
  <2>4. CASE AllReceived(n)
    BY <2>4, AllReceivedInv
  <2>5. CASE Reconstruct(n)
    BY <2>5, ReconstructInv
  <2>6. CASE CleanUp(n)
    BY <2>6, CleanUpInv
  <2>7. QED
    BY <1>2, <2>1, <2>2, <2>3, <2>4, <2>5, <2>6 DEF Main
<1>3. ASSUME NEW c \in Dests, Worker(c)
      PROVE  Inv'
  <2>1. CASE SendNext(c)
    BY <2>1, SendNextInv
  <2>2. CASE QueueNext(c)
    BY <2>2, QueueNextInv
  <2>3. CASE RequestDone(c)
    BY <2>3, RequestDoneInv
  <2>4. CASE \E i \in late[c] : SendLate(c, i)
    BY <2>4, SendLateInv
  <2>5. CASE TestSize(c)
    BY <2>5, TestSizeInv
  <2>6. CASE TestCapacity(c)
    BY <2>6, TestCapacityInv
  <2>7. CASE Allocate(c)
    BY <2>7, AllocateInv
  <2>8. CASE FillZero(c)
    BY <2>8, FillZeroInv
  <2>9. CASE Pad(c)
    BY <2>9, PadInv
  <2>10. CASE WriteAnswer(c)
    BY <2>10, WriteAnswerInv
  <2>11. QED
    BY <1>3, <2>1, <2>2, <2>3, <2>4, <2>5, <2>6, <2>7, <2>8, <2>9, <2>10 DEF Worker
<1>4. CASE Halted
  BY <1>4, StutterInv DEF Halted
<1>5. CASE UNCHANGED vars
  BY <1>5, StutterInv
<1>6. QED
  BY <1>1, <1>2, <1>3, <1>4, <1>5 DEF Next

\* The invariant holds in every state that the nodes and their workers reach.
THEOREM Inductive == Spec => []Inv
<1>1. Init => Inv
  BY InitInv
<1>2. Inv /\ [Next]_vars => Inv'
  BY NextInv
<1>3. QED
  BY <1>1, <1>2, PTL DEF Spec

\* The variables have their types, and no worker is asked for a piece the file
\* has not, for every tree, size of pieces and of the file.
THEOREM TypeCorrect == Spec => []TypeOK
<1>1. Inv => TypeOK
  <2> SUFFICES ASSUME Inv PROVE TypeOK
    OBVIOUS
  <2>1. \A n \in Nodes : status[n] \subseteq AllPieces(n)
    <3> SUFFICES ASSUME NEW n \in Nodes, phase[n] # "start" PROVE status[n] \subseteq AllPieces(n)
      BY DEF Inv, Known
    <3>1. AllPieces(n) = Pieces
      BY SourceHasPieces DEF Inv, Known, AllPieces, NumPieces, Pieces
    <3>2. QED
      BY <3>1 DEF Inv, Kinds
  <2>2. \A c \in Dests : ToSet(todo[c]) \cup late[c] \subseteq AllPieces(Source)
    <3> SUFFICES ASSUME NEW c \in Dests PROVE ToSet(todo[c]) \cup late[c] \subseteq AllPieces(Source)
      OBVIOUS
    <3>1. CASE todo[c] = << >> /\ late[c] = {}
      BY <3>1 DEF ToSet
    <3>2. CASE ~(todo[c] = << >> /\ late[c] = {})
      <4>1. phase[Source] = "serve"
        BY <3>2, StillReceiving DEF Inv, Known
      <4>2. AllPieces(Source) = Pieces
        BY <4>1, SourceHasPieces, Tree DEF Inv, Known, AllPieces, NumPieces, Pieces
      <4>3. ToSet(todo[c]) \subseteq Pieces /\ late[c] \subseteq Pieces
        BY DEF Inv, Kinds, ToSet
      <4>4. QED
        BY <4>2, <4>3
    <3>3. QED
      BY <3>1, <3>2
  <2>3. \A n \in Nodes : padded[n].data \in Clients(n) \cup {Local}
    BY DEF Inv, Padding
  <2>4. QED
    BY <2>1, <2>2, <2>3 DEF Inv, Kinds, TypeOK, Phases, Steps
<1>2. QED
  BY <1>1, Inductive, PTL

\* Every node works with the source's metadata, at any depth of the tree.
THEOREM MetadataReaches == Spec => []MetadataAgrees
<1>1. Inv => MetadataAgrees
  BY DEF Inv, Known, MetadataAgrees
<1>2. QED
  BY <1>1, Inductive, PTL

\* request_pieces waits for as many answers as its server has yet to send, sends
\* or has sent: it neither returns early nor waits for ever for one more.
THEOREM AnswersAddUp == Spec => []AnswersCounted
<1>1. Inv => AnswersCounted
  BY DEF Inv
<1>2. QED
  BY <1>1, Inductive, PTL

\* No worker sends a byte from behind the end of the file, or of a file that is
\* no longer mapped, while its node cuts the file and finishes.
THEOREM ReadsInside == Spec => []NothingReadOutside
<1>1. Inv => NothingReadOutside
  <2> SUFFICES ASSUME Inv, NEW c \in Dests, NEW i \in DOMAIN wire[c]
               PROVE  Outside \notin ToSet(wire[c][i][2])
    BY DEF NothingReadOutside
  <2>1. wire[c] \in Seq(Answers)
    BY DEF Inv, Kinds
  <2>2. wire[c][i] \in Answers
    BY <2>1
  <2> DEFINE bytes == wire[c][i][2]
  <2>3. bytes \in Buffer
    BY <2>2 DEF Answers
  <2> HIDE DEF bytes
  <2>4. Outside \notin Byte
    BY DEF Outside, Byte, Junk
  <2>5. Outside \notin ToSet(bytes)
    BY <2>3, <2>4 DEF ToSet, Buffer
  <2>6. QED
    BY <2>5 DEF bytes
<1>2. QED
  BY <1>1, Inductive, PTL

-----------------------------------------------------------------------------
(* The nodes above a node: those that every set closed under Upstream has. *)

\* A set that has the node above n, and with a node the one above it.
Closed(n, S) ==
  /\ n # Source => Upstream[n] \in S
  /\ \A x \in S : x \in Dests => Upstream[x] \in S
\* What every such set has.
Reach(n) == {m \in Nodes : \A S \in SUBSET Nodes : Closed(n, S) => m \in S}

\* Reach has the recursion of Above,
LEMMA ReachStep ==
  ASSUME NEW n \in Nodes
  PROVE  Reach(n) = IF n = Source THEN {} ELSE {Upstream[n]} \cup Reach(Upstream[n])
<1>1. CASE n = Source
  <2>1. {} \in SUBSET Nodes /\ Closed(n, {})
    BY <1>1 DEF Closed
  <2>2. QED
    BY <1>1, <2>1 DEF Reach
<1>2. CASE n # Source
  <2> DEFINE u == Upstream[n]
             R == {u} \cup Reach(u)
  <2>1. n \in Dests /\ u \in Nodes
    BY <1>2, Tree
  <2>2. \A x \in Reach(n) : x \in R
    <3>1. R \in SUBSET Nodes
      BY <2>1 DEF Reach
    <3>2. Closed(n, R)
      <4>1. ASSUME NEW x \in R, x \in Dests
            PROVE  Upstream[x] \in R
        <5>1. Upstream[x] \in Nodes
          BY <4>1, Tree
        <5>2. CASE x = u
          BY <4>1, <5>1, <5>2, Tree DEF Reach, Closed
        <5>3. CASE x \in Reach(u)
          BY <4>1, <5>1, <5>3 DEF Reach, Closed
        <5>4. QED
          BY <5>2, <5>3
      <4>2. QED
        BY <4>1 DEF Closed
    <3>3. QED
      BY <3>1, <3>2 DEF Reach
  <2>3. u \in Reach(n)
    BY <1>2, <2>1 DEF Reach, Closed
  <2>4. \A x \in Reach(u) : x \in Reach(n)
    <3> SUFFICES ASSUME NEW x \in Reach(u), NEW S \in SUBSET Nodes, Closed(n, S)
                 PROVE  x \in S
      BY DEF Reach
    <3>1. Closed(u, S)
      BY <1>2, <2>1, Tree DEF Closed
    <3>2. QED
      BY <3>1 DEF Reach
  <2>5. QED
    BY <1>2, <2>2, <2>3, <2>4
<1>3. QED
  BY <1>1, <1>2

\* and so Above is what its definition says, for whatever tree.
LEMMA AboveStep ==
  ASSUME NEW n \in Nodes
  PROVE  Above[n] = IF n = Source THEN {} ELSE {Upstream[n]} \cup Above[Upstream[n]]
<1> DEFINE R == [m \in Nodes |-> Reach(m)]
           A == CHOOSE A : A = [m \in Nodes |-> IF m = Source THEN {} ELSE {Upstream[m]} \cup A[Upstream[m]]]
<1>1. R = [m \in Nodes |-> IF m = Source THEN {} ELSE {Upstream[m]} \cup R[Upstream[m]]]
  <2>1. \A m \in Nodes : m # Source => Upstream[m] \in Nodes
    BY Tree
  <2>2. \A m \in Nodes : R[m] = IF m = Source THEN {} ELSE {Upstream[m]} \cup R[Upstream[m]]
    <3> SUFFICES ASSUME NEW m \in Nodes
                 PROVE  R[m] = IF m = Source THEN {} ELSE {Upstream[m]} \cup R[Upstream[m]]
      OBVIOUS
    <3>1. R[m] = Reach(m) /\ (m # Source => R[Upstream[m]] = Reach(Upstream[m]))
      BY <2>1
    <3>2. QED
      BY <3>1, ReachStep
  <2>3. R = [m \in Nodes |-> R[m]]
    OBVIOUS
  <2> HIDE DEF R
  <2>4. QED
    BY <2>2, <2>3
<1> HIDE DEF R
<1>2. A = [m \in Nodes |-> IF m = Source THEN {} ELSE {Upstream[m]} \cup A[Upstream[m]]]
  BY <1>1
<1>3. Above = A
  BY DEF Above
<1> HIDE DEF A
<1>4. QED
  BY <1>2, <1>3

\* What excuses a node excuses those below it.
LEMMA Excuses ==
  ASSUME NEW c \in Dests, NEW i
  PROVE  /\ Excused(Upstream[c], i) => Excused(c, i)
         /\ NeedsPadding(i, original) /\ Upstream[c] \in raced => Excused(c, i)
<1>1. Above[c] = {Upstream[c]} \cup Above[Upstream[c]]
  BY AboveStep, Tree
<1>2. QED
  BY <1>1 DEF Excused

-----------------------------------------------------------------------------
(* The bytes are right.                                                    *)

\* At first nothing has been copied.
LEMMA InitRight == Init => RightInv
<1> SUFFICES ASSUME Init PROVE RightInv
  OBVIOUS
<1>1. OneSizes
  <2>1. \A n \in Nodes : padded[n].length # piece_size
    BY PieceSizeAssumption DEF Init
  <2>2. QED
    BY <2>1, Tree DEF Init, OneSizes, SizesAt, Padded, Resizing
<1>2. FilesRight /\ AnswersRight /\ AllThere
  BY Tree DEF Init, FilesRight, AnswersRight, AllThere, Complete
<1>3. QED
  BY <1>1, <1>2 DEF RightInv

\* A step that does not touch the string of node s, nor sends its workers on.
LEMMA SizesKept ==
  ASSUME Inv, NEW s \in Nodes, SizesAt(s),
         original' = original, raced \subseteq raced', padded'[s] = padded[s],
         \A d \in Clients(s) :
           /\ step'[d] \in Resizing => step[d] \in Resizing
           /\ step'[d] = "copy" => step[d] = "copy"
           /\ Padded(d)' => Padded(d) /\ view'[d] = view[d] /\ piece'[d] = piece[d]
           /\ heap'[d] = heap[d]
  PROVE  SizesAt(s)'
<1>1. \A d \in Clients(s) : Padded(d)' => Padded(d) /\ heap'[view'[d]] = heap[view[d]]
  <2> SUFFICES ASSUME NEW d \in Clients(s), Padded(d)'
               PROVE  Padded(d) /\ heap'[view'[d]] = heap[view[d]]
    OBVIOUS
  <2>1. Padded(d) /\ view'[d] = view[d]
    OBVIOUS
  <2>2. view[d] \in Clients(s)
    <3>1. view[d] = padded[s].data /\ view[d] # Local
      BY <2>1 DEF SizesAt, Padded
    <3>2. QED
      BY <3>1 DEF Inv, Padding
  <2>3. QED
    BY <2>1, <2>2
<1>2. \A d \in Clients(s) : Padded(d)' =>
        /\ view'[d] = padded'[s].data /\ heap'[view'[d]] # Freed
        /\ Excused(s, piece[d])' \/ BytesRight(piece[d], heap[view[d]])'
  <2> SUFFICES ASSUME NEW d \in Clients(s), Padded(d)'
               PROVE  /\ view'[d] = padded'[s].data /\ heap'[view'[d]] # Freed
                      /\ Excused(s, piece[d])' \/ BytesRight(piece[d], heap[view[d]])'
    OBVIOUS
  <2>1. /\ Padded(d) /\ view'[d] = view[d] /\ piece'[d] = piece[d]
        /\ heap'[view'[d]] = heap[view[d]]
    BY <1>1
  <2>2. /\ view[d] = padded[s].data /\ heap[view[d]] # Freed
        /\ Excused(s, piece[d]) \/ BytesRight(piece[d], heap[view[d]])
    BY <2>1 DEF SizesAt
  <2>3. Excused(s, piece[d]) => Excused(s, piece[d])'
    BY <2>1 DEF Excused
  <2>4. BytesRight(piece[d], heap[view[d]]) => BytesRight(piece[d], heap[view[d]])'
    BY <2>1 DEF BytesRight
  <2>5. QED
    BY <2>1, <2>2, <2>3, <2>4
<1>3. \A c, d \in Clients(s) : step'[c] \in Resizing /\ step'[d] \in Resizing => c = d
  BY DEF SizesAt
<1>4. IF padded'[s].length = piece_size
      THEN \A c \in Clients(s) : step'[c] \notin Resizing
      ELSE \A c \in Clients(s) : step'[c] # "copy" /\ ~Padded(c)'
  BY DEF SizesAt
<1>5. QED
  BY <1>2, <1>3, <1>4 DEF SizesAt

\* A step that sizes no string.
LEMMA SizesStand ==
  ASSUME Inv, OneSizes, UNCHANGED <<original, padded, heap, raced>>,
         \A d \in Dests :
           /\ step'[d] \in Resizing => step[d] \in Resizing
           /\ step'[d] = "copy" => step[d] = "copy"
           /\ Padded(d)' => Padded(d) /\ view'[d] = view[d] /\ piece'[d] = piece[d]
  PROVE  OneSizes'
<1> SUFFICES ASSUME NEW s \in Nodes \ raced PROVE SizesAt(s)'
  BY DEF OneSizes
<1>1. SizesAt(s)
  BY DEF OneSizes
<1>2. \A d \in Clients(s) : d \in Dests
  BY Tree
<1>3. QED
  BY <1>1, <1>2, SizesKept

\* A byte that is right stays so where the file or the answers stay.
LEMMA FilesStand ==
  ASSUME FilesRight, UNCHANGED <<original, file, status>>, raced \subseteq raced'
  PROVE  FilesRight'
<1>1. \A n, i : Excused(n, i) => Excused(n, i)'
  BY DEF Excused
<1>2. \A n, i : FileRight(n, i) => FileRight(n, i)'
  BY <1>1 DEF FileRight
<1>3. QED
  BY <1>2 DEF FilesRight

\* So do the answers,
LEMMA AnswersStand ==
  ASSUME AnswersRight, UNCHANGED <<original, wire>>, raced \subseteq raced'
  PROVE  AnswersRight'
<1>1. \A n, i : Excused(n, i) => Excused(n, i)'
  BY DEF Excused
<1>2. \A i, bytes : BytesRight(i, bytes) => BytesRight(i, bytes)'
  BY DEF BytesRight
<1>3. QED
  BY <1>1, <1>2 DEF AnswersRight

\* and what a finished node has.
LEMMA AllStand ==
  ASSUME AllThere, UNCHANGED <<original, phase, status>>
  PROVE  AllThere'
BY DEF AllThere, Complete, Pieces

\* The size is tested: from now on the worker is alone in the resize, or the
\* node's string has been raced for.
LEMMA TestSizeSizes == ASSUME Inv, OneSizes, NEW c \in Dests, TestSize(c) PROVE OneSizes'
<1> DEFINE u == Upstream[c]
<1>1. /\ step[c] = "resize"
      /\ step' = [step EXCEPT ![c] = IF padded[u].length = piece_size THEN "copy" ELSE "grow"]
      /\ raced' = IF /\ padded[u].length # piece_size
                     /\ \E d \in Clients(u) \ {c} : step[d] \in Resizing
                  THEN raced \cup {u} ELSE raced
      /\ UNCHANGED <<original, piece, view, padded, heap>>
  BY DEF TestSize, WorkerStep
<1>2. \A d \in Dests \ {c} : step'[d] = step[d]
  BY <1>1 DEF Inv, Kinds
<1>3. step'[c] = IF padded[u].length = piece_size THEN "copy" ELSE "grow"
  BY <1>1 DEF Inv, Kinds
<1>4. raced \subseteq raced'
  BY <1>1
<1> SUFFICES ASSUME NEW s \in Nodes \ raced' PROVE SizesAt(s)'
  BY DEF OneSizes
<1>5. SizesAt(s)
  BY <1>4 DEF OneSizes
<1>6. \A d \in Dests : Padded(d)' => Padded(d) /\ view'[d] = view[d] /\ piece'[d] = piece[d]
  BY <1>1, <1>2, <1>3 DEF Padded
<1>7. CASE s # u
  <2>1. \A d \in Clients(s) : d \in Dests \ {c}
    BY <1>7, Tree
  <2>2. QED
    BY <1>1, <1>2, <1>4, <1>5, <1>6, <2>1, SizesKept
<1>8. CASE s = u
  <2>1. \A d \in Clients(s) : d \in Dests
    BY Tree
  <2>2. \A x, y \in Clients(s) : step'[x] \in Resizing /\ step'[y] \in Resizing => x = y
    <3>1. CASE padded[s].length = piece_size
      BY <1>2, <1>3, <1>5, <1>8, <2>1, <3>1 DEF SizesAt, Resizing
    <3>2. CASE padded[s].length # piece_size
      <4>1. \A d \in Clients(s) \ {c} : step[d] \notin Resizing
        BY <1>1, <1>8, <3>2
      <4>2. QED
        BY <1>2, <2>1, <4>1
    <3>3. QED
      BY <3>1, <3>2
  <2>3. IF padded'[s].length = piece_size
        THEN \A d \in Clients(s) : step'[d] \notin Resizing
        ELSE \A d \in Clients(s) : step'[d] # "copy" /\ ~Padded(d)'
    BY <1>1, <1>2, <1>3, <1>5, <1>6, <1>8, <2>1 DEF SizesAt, Resizing
  <2>4. ASSUME NEW d \in Clients(s), Padded(d)'
        PROVE  /\ view'[d] = padded'[s].data /\ heap'[view'[d]] # Freed
               /\ Excused(s, piece[d])' \/ BytesRight(piece[d], heap[view[d]])'
    <3>1. Padded(d) /\ view'[d] = view[d] /\ piece'[d] = piece[d]
      BY <1>6, <2>1, <2>4
    <3>2. /\ view[d] = padded[s].data /\ heap[view[d]] # Freed
          /\ Excused(s, piece[d]) \/ BytesRight(piece[d], heap[view[d]])
      BY <1>5, <3>1 DEF SizesAt
    <3>3. Excused(s, piece[d]) => Excused(s, piece[d])'
      BY <1>1, <1>4, <3>1 DEF Excused
    <3>4. BytesRight(piece[d], heap[view[d]]) => BytesRight(piece[d], heap[view[d]])'
      BY <1>1, <3>1 DEF BytesRight
    <3>5. QED
      BY <1>1, <3>1, <3>2, <3>3, <3>4
  <2>5. QED
    BY <2>2, <2>3, <2>4 DEF SizesAt
<1>9. QED
  BY <1>7, <1>8

\* A buffer is made only by the worker that is alone, while nobody sends from the
\* one that is freed.
LEMMA AllocateSizes == ASSUME Inv, OneSizes, NEW c \in Dests, Allocate(c) PROVE OneSizes'
<1> DEFINE u == Upstream[c]
           old == padded[u].data
<1>1. /\ step[c] = "allocate" /\ step' = [step EXCEPT ![c] = "fill"]
      /\ heap' = [d \in Dests |-> IF d = c THEN [k \in 1 .. piece_size |-> Junk]
                                  ELSE IF d = old THEN Freed ELSE heap[d]]
      /\ padded' = [padded EXCEPT ![u] = [@ EXCEPT !.data = c, !.fits = TRUE]]
      /\ UNCHANGED <<original, piece, view, raced>>
  BY DEF Allocate, WorkerStep
<1>2. step'[c] = "fill" /\ \A d \in Dests \ {c} : step'[d] = step[d]
  BY <1>1 DEF Inv, Kinds
<1>3. u \in Nodes /\ c \in Clients(u)
  BY Tree
<1>4. /\ \A s \in Nodes \ {u} : padded'[s] = padded[s]
      /\ padded'[u].length = padded[u].length
  BY <1>1, <1>3 DEF Inv, Kinds, Strings
<1>5. \A d \in Dests : Padded(d)' => Padded(d) /\ view'[d] = view[d] /\ piece'[d] = piece[d]
  BY <1>1, <1>2 DEF Padded
<1> SUFFICES ASSUME NEW s \in Nodes \ raced PROVE SizesAt(s)'
  BY <1>1 DEF OneSizes
<1>6. SizesAt(s)
  BY DEF OneSizes
<1>7. CASE s # u
  <2>1. \A d \in Clients(s) : d \in Dests \ {c} /\ Upstream[d] = s
    BY <1>7, Tree
  <2>2. old \in Clients(u) \cup {Local}
    BY <1>3 DEF Inv, Padding
  <2>3. \A d \in Clients(s) : d # old
    BY <1>7, <2>1, <2>2, <1>3, Tree
  <2>4. \A d \in Clients(s) : heap'[d] = heap[d]
    BY <1>1, <2>1, <2>3
  <2>5. QED
    BY <1>1, <1>2, <1>4, <1>5, <1>6, <1>7, <2>1, <2>4, SizesKept
<1>8. CASE s = u
  <2>1. \A d \in Clients(s) : d \in Dests
    BY Tree
  <2>2. padded[s].length # piece_size
    BY <1>1, <1>3, <1>6, <1>8 DEF SizesAt, Resizing
  <2>3. \A d \in Clients(s) : ~Padded(d)'
    BY <1>5, <1>6, <2>1, <2>2 DEF SizesAt
  <2>4. \A x \in Clients(s) : step'[x] \in Resizing => step[x] \in Resizing
    BY <1>1, <1>2, <2>1 DEF Resizing
  <2>5. \A x, y \in Clients(s) : step'[x] \in Resizing /\ step'[y] \in Resizing => x = y
    BY <1>6, <2>4 DEF SizesAt
  <2>6. \A d \in Clients(s) : step'[d] # "copy"
    BY <1>2, <1>6, <2>1, <2>2 DEF SizesAt
  <2>7. QED
    BY <1>4, <1>8, <2>2, <2>3, <2>5, <2>6 DEF SizesAt
<1>9. QED
  BY <1>7, <1>8

\* The length is set by that worker, with no other in the resize.
LEMMA FillZeroSizes == ASSUME Inv, OneSizes, NEW c \in Dests, FillZero(c) PROVE OneSizes'
<1> DEFINE u == Upstream[c]
           at == padded[u].data
<1>1. /\ step[c] = "fill" /\ step' = [step EXCEPT ![c] = "copy"]
      /\ heap' = [heap EXCEPT ![at] = Zeros(piece_size)]
      /\ padded' = [padded EXCEPT ![u].length = piece_size]
      /\ UNCHANGED <<original, piece, view, raced>>
  BY DEF FillZero, WorkerStep, Fill
<1>2. step'[c] = "copy" /\ \A d \in Dests \ {c} : step'[d] = step[d]
  BY <1>1 DEF Inv, Kinds
<1>3. u \in Nodes /\ c \in Clients(u)
  BY Tree
<1>4. /\ \A s \in Nodes \ {u} : padded'[s] = padded[s]
      /\ padded'[u].length = piece_size
  BY <1>1, <1>3 DEF Inv, Kinds, Strings
<1>5. \A d \in Dests : Padded(d)' => Padded(d) /\ view'[d] = view[d] /\ piece'[d] = piece[d]
  BY <1>1, <1>2 DEF Padded
<1> SUFFICES ASSUME NEW s \in Nodes \ raced PROVE SizesAt(s)'
  BY <1>1 DEF OneSizes
<1>6. SizesAt(s)
  BY DEF OneSizes
<1>7. CASE s # u
  <2>1. \A d \in Clients(s) : d \in Dests \ {c} /\ Upstream[d] = s
    BY <1>7, Tree
  <2>2. at \in Clients(u) \cup {Local}
    BY <1>3 DEF Inv, Padding
  <2>3. \A d \in Clients(s) : d # at
    BY <1>7, <2>1, <2>2, <1>3, Tree
  <2>4. \A d \in Clients(s) : heap'[d] = heap[d]
    BY <1>1, <2>1, <2>3 DEF Inv, Kinds
  <2>5. QED
    BY <1>1, <1>2, <1>4, <1>5, <1>6, <1>7, <2>1, <2>4, SizesKept
<1>8. CASE s = u
  <2>1. \A d \in Clients(s) : d \in Dests
    BY Tree
  <2>2. padded[s].length # piece_size /\ \A d \in Clients(s) \ {c} : step[d] \notin Resizing
    BY <1>1, <1>3, <1>6, <1>8 DEF SizesAt, Resizing
  <2>3. \A d \in Clients(s) : ~Padded(d)'
    BY <1>5, <1>6, <2>1, <2>2 DEF SizesAt
  <2>4. \A d \in Clients(s) : step'[d] \notin Resizing
    BY <1>2, <2>1, <2>2 DEF Resizing
  <2>5. QED
    BY <1>4, <1>8, <2>3, <2>4 DEF SizesAt
<1>9. QED
  BY <1>7, <1>8

\* Every worker copies the same bytes of the same piece to the same place.
LEMMA PadSizes ==
  ASSUME Inv, OneSizes, FilesRight, NEW c \in Dests, Pad(c)
  PROVE  OneSizes'
<1> DEFINE u == Upstream[c]
           at == padded[u].data
           bytes == FileBytes(u, piece[c])
           all == bytes \o Zeros(piece_size - Len(bytes))
<1>1. /\ step[c] = "copy" /\ step' = [step EXCEPT ![c] = "write"]
      /\ heap' = [heap EXCEPT ![at] = all]
      /\ view' = [view EXCEPT ![c] = at]
      /\ UNCHANGED <<original, piece, padded, raced>>
  BY DEF Pad, WorkerStep, Fill
<1>2. /\ all \in Buffer
      /\ \A k \in 1 .. original :
           InSlice(piece[c], k) => all[k - offset(piece[c])] = file[u][k]
  BY <1>1, PaddedBytes
<1> HIDE DEF all
<1>3. step'[c] = "write" /\ \A d \in Dests \ {c} : step'[d] = step[d]
  BY <1>1 DEF Inv, Kinds
<1>4. view'[c] = at /\ \A d \in Dests \ {c} : view'[d] = view[d]
  BY <1>1 DEF Inv, Kinds
<1>5. u \in Nodes /\ c \in Clients(u)
  BY Tree
<1>6. at \in Clients(u) /\ at \in Dests
  <2>1. padded[u].fits
    BY <1>1 DEF Inv, Padding
  <2>2. at \in Clients(u)
    BY <1>5, <2>1 DEF Inv, Padding
  <2>3. QED
    BY <1>5, <2>2, Tree
<1>7. heap'[at] = all /\ \A d \in Dests \ {at} : heap'[d] = heap[d]
  BY <1>1, <1>6 DEF Inv, Kinds
<1> SUFFICES ASSUME NEW s \in Nodes \ raced PROVE SizesAt(s)'
  BY <1>1 DEF OneSizes
<1>8. SizesAt(s)
  BY DEF OneSizes
<1>9. \A d \in Clients(s) : d \in Dests /\ Upstream[d] = s
  BY Tree
<1>10. CASE s # u
  <2>1. \A d \in Clients(s) : d \in Dests \ {c} /\ d # at
    BY <1>5, <1>6, <1>9, <1>10, Tree
  <2>2. \A d \in Clients(s) :
           /\ step'[d] = step[d] /\ view'[d] = view[d] /\ heap'[d] = heap[d]
           /\ piece'[d] = piece[d] /\ (Padded(d)' => Padded(d))
    BY <1>1, <1>3, <1>4, <1>7, <2>1 DEF Padded
  <2>3. QED
    BY <1>1, <1>8, <2>2, SizesKept
<1>11. CASE s = u
  <2>1. padded[s].length = piece_size /\ \A d \in Clients(s) : step[d] \notin Resizing
    BY <1>1, <1>5, <1>8, <1>11 DEF SizesAt
  <2>2. \A d \in Clients(s) : step'[d] \notin Resizing
    BY <1>3, <1>9, <2>1 DEF Resizing
  <2>3. Excused(s, piece[c]) \/ BytesRight(piece[c], all)
    <3>1. FileRight(s, piece[c])
      BY <1>1, <1>11 DEF Inv, Quiet, Sending, FilesRight
    <3>2. QED
      BY <1>2, <1>11, <3>1 DEF FileRight, BytesRight
  <2>4. ASSUME NEW d \in Clients(s), Padded(d)'
        PROVE  view'[d] = at /\ piece[d] = piece[c]
    <3>1. CASE d = c
      BY <1>4, <3>1
    <3>2. CASE d # c
      <4>1. Padded(d) /\ view'[d] = view[d]
        BY <1>3, <1>4, <1>9, <2>4, <3>2 DEF Padded
      <4>2. view[d] = at
        BY <1>8, <1>11, <4>1 DEF SizesAt
      <4>3. NeedsPadding(piece[d], original) /\ NeedsPadding(piece[c], original)
        BY <1>1, <1>9, <4>1 DEF Inv, Padding, Padded
      <4>4. QED
        BY <4>1, <4>2, <4>3 DEF NeedsPadding
    <3>3. QED
      BY <3>1, <3>2
  <2>5. all # Freed
    BY <1>2, PieceSizeAssumption DEF Buffer, Freed
  <2>6. ASSUME NEW d \in Clients(s), Padded(d)'
        PROVE  /\ view'[d] = padded'[s].data /\ heap'[view'[d]] # Freed
               /\ Excused(s, piece[d])' \/ BytesRight(piece[d], heap[view[d]])'
    <3>1. view'[d] = at /\ piece'[d] = piece[c] /\ heap'[view'[d]] = all
      BY <1>1, <1>7, <2>4, <2>6
    <3>2. Excused(s, piece[c]) => Excused(s, piece[d])'
      BY <1>1, <3>1 DEF Excused
    <3>3. BytesRight(piece[c], all) => BytesRight(piece[d], heap[view[d]])'
      BY <1>1, <3>1 DEF BytesRight
    <3>4. QED
      BY <1>1, <1>11, <2>3, <2>5, <3>1, <3>2, <3>3
  <2>7. \A x, y \in Clients(s) : step'[x] \in Resizing /\ step'[y] \in Resizing => x = y
    BY <2>2
  <2>8. padded'[s].length = piece_size
    BY <1>1, <2>1
  <2>9. QED
    BY <2>2, <2>6, <2>7, <2>8 DEF SizesAt
<1>12. QED
  BY <1>10, <1>11

\* A step of a main thread sends no worker into the string.
LEMMA MainSizes ==
  ASSUME Inv, OneSizes, UNCHANGED <<original, stringVars, view, piece>>,
         \A d \in Dests : step'[d] = step[d] \/ step'[d] = "walk"
  PROVE  OneSizes'
<1>1. UNCHANGED <<padded, heap, raced>>
  BY DEF stringVars
<1>2. \A d \in Dests :
        /\ step'[d] \in Resizing => step[d] \in Resizing
        /\ step'[d] = "copy" => step[d] = "copy"
        /\ Padded(d)' => Padded(d) /\ view'[d] = view[d] /\ piece'[d] = piece[d]
  BY DEF Resizing, Padded
<1>3. QED
  BY <1>1, <1>2, SizesStand

\* A node's file is right where it was, and the others' stay.
LEMMA OneFile ==
  ASSUME Inv, FilesRight, UNCHANGED <<original, raced>>, NEW n \in Nodes,
         \A m \in Nodes \ {n} : file'[m] = file[m] /\ status'[m] = status[m],
         \A i \in status'[n] : FileRight(n, i)'
  PROVE  FilesRight'
<1> SUFFICES ASSUME NEW m \in Nodes \ {n}, NEW i \in status'[m] PROVE FileRight(m, i)'
  BY DEF FilesRight
<1>1. FileRight(m, i)
  BY DEF FilesRight
<1>2. Excused(m, i) => Excused(m, i)'
  BY DEF Excused
<1>3. QED
  BY <1>1, <1>2 DEF FileRight

\* The source's own file is right.
LEMMA InitializeSourceRight == Inv /\ RightInv /\ InitializeSource => RightInv'
<1> SUFFICES ASSUME Inv, RightInv, InitializeSource PROVE RightInv'
  OBVIOUS
<1>1. /\ original \in Nat
      /\ phase' = [phase EXCEPT ![Source] = IF MmapSucceeds(original) THEN "serve" ELSE "failed"]
      /\ status' = [status EXCEPT ![Source] = Pieces]
      /\ UNCHANGED <<original, file, wire, view, piece, step, raced, stringVars>>
  BY SourceHasPieces DEF InitializeSource, Go, Pieces, workerVars, stringVars
<1>2. OneSizes'
  BY <1>1, MainSizes DEF RightInv
<1>3. FilesRight'
  <2>1. \A m \in Nodes \ {Source} : file'[m] = file[m] /\ status'[m] = status[m]
    BY <1>1 DEF Inv, Kinds
  <2>2. \A i : FileRight(Source, i)'
    BY <1>1 DEF Inv, Lengths, Content, FileRight
  <2>3. QED
    BY <1>1, <2>1, <2>2, Tree, OneFile DEF RightInv
<1>4. AnswersRight'
  BY <1>1, AnswersStand DEF RightInv
<1>5. AllThere'
  <2>1. \A d \in Dests : phase'[d] = phase[d] /\ status'[d] = status[d]
    BY <1>1, Tree DEF Inv, Kinds
  <2>2. Pieces' = Pieces
    BY <1>1 DEF Pieces
  <2>3. QED
    BY <2>1, <2>2 DEF RightInv, AllThere, Complete
<1>6. QED
  BY <1>2, <1>3, <1>4, <1>5 DEF RightInv

\* A new file has no piece yet.
LEMMA GetMetadataRight ==
  ASSUME Inv, RightInv, NEW n \in Dests, GetMetadata(n)
  PROVE  RightInv'
<1> DEFINE f == Zeros(DeserializeFile(SerializeFile(meta[Upstream[n]])).numPieces * piece_size)
<1>1. /\ phase[n] = "start" /\ phase' = [phase EXCEPT ![n] = "ask"]
      /\ file' = [file EXCEPT ![n] = f]
      /\ UNCHANGED <<original, status, wire, view, piece, step, raced, stringVars>>
  BY DEF GetMetadata, Go, workerVars, stringVars
<1> HIDE DEF f
<1>2. OneSizes'
  BY <1>1, MainSizes DEF RightInv
<1>3. FilesRight'
  <2>1. \A m \in Nodes \ {n} : file'[m] = file[m] /\ status'[m] = status[m]
    BY <1>1 DEF Inv, Kinds
  <2>2. status'[n] = {}
    BY <1>1, Tree DEF Inv, Known
  <2>3. QED
    BY <1>1, <2>1, <2>2, Tree, OneFile DEF RightInv
<1>4. AnswersRight'
  BY <1>1, AnswersStand DEF RightInv
<1>5. AllThere'
  <2>1. phase'[n] = "ask" /\ \A d \in Dests \ {n} : phase'[d] = phase[d]
    BY <1>1, Tree DEF Inv, Kinds
  <2>2. Pieces' = Pieces
    BY <1>1 DEF Pieces
  <2>3. QED
    BY <1>1, <2>1, <2>2 DEF RightInv, AllThere, Complete
<1>6. QED
  BY <1>2, <1>3, <1>4, <1>5 DEF RightInv

\* Nothing is copied by a request.
LEMMA RequestPiecesRight ==
  ASSUME Inv, RightInv, NEW n \in Dests, NEW request, RequestPieces(n, request)
  PROVE  RightInv'
<1>1. /\ phase' = [phase EXCEPT ![n] = "receive"]
      /\ step' = [step EXCEPT ![n] = "walk"]
      /\ UNCHANGED <<original, file, status, wire, view, piece, raced, stringVars>>
  BY DEF RequestPieces, Go, stringVars
<1>2. OneSizes'
  <2>1. \A d \in Dests : step'[d] = step[d] \/ step'[d] = "walk"
    BY <1>1 DEF Inv, Kinds
  <2>2. QED
    BY <1>1, <2>1, MainSizes DEF RightInv
<1>3. FilesRight' /\ AnswersRight'
  BY <1>1, FilesStand, AnswersStand DEF RightInv
<1>4. AllThere'
  <2>1. phase'[n] = "receive" /\ \A d \in Dests \ {n} : phase'[d] = phase[d]
    BY <1>1, Tree DEF Inv, Kinds
  <2>2. Pieces' = Pieces
    BY <1>1 DEF Pieces
  <2>3. QED
    BY <1>1, <2>1, <2>2 DEF RightInv, AllThere, Complete
<1>5. QED
  BY <1>2, <1>3, <1>4 DEF RightInv

\* The bytes of an answer are right, and they go to the slice of their piece and
\* to no other.
LEMMA ReceiveRight == ASSUME Inv, RightInv, NEW n \in Dests, Receive(n) PROVE RightInv'
<1> DEFINE i == Head(wire[n])[1]
           bytes == Head(wire[n])[2]
<1>1. /\ phase[n] = "receive" /\ wire[n] # << >>
      /\ phase' = [phase EXCEPT ![n] = "receive"]
      /\ wire' = [wire EXCEPT ![n] = Tail(@)]
      /\ file' = IF i \in status[n] THEN file ELSE [file EXCEPT ![n] = WriteAt(@, i, bytes)]
      /\ status' = [status EXCEPT ![n] = @ \cup {i}]
      /\ UNCHANGED <<original, view, piece, step, raced, stringVars>>
  BY DEF Receive, Go, workerVars, stringVars
<1>2. wire[n] \in Seq(Answers) /\ file[n] \in Seq(Byte) /\ status[n] \subseteq Pieces
  BY Tree DEF Inv, Kinds
<1>3. /\ Head(wire[n]) \in Answers /\ Head(wire[n]) = wire[n][1]
      /\ Len(wire[n]) \in Nat \ {0} /\ Len(Tail(wire[n])) = Len(wire[n]) - 1
      /\ \A k \in 1 .. Len(Tail(wire[n])) : Tail(wire[n])[k] = wire[n][k + 1]
  BY <1>1, <1>2, Answered
<1>4. i \in Pieces /\ bytes \in Buffer
  BY <1>3 DEF Answers
<1>5. Excused(n, i) \/ BytesRight(i, bytes)
  BY <1>3 DEF RightInv, AnswersRight
<1>6. wire'[n] = Tail(wire[n]) /\ \A d \in Dests \ {n} : wire'[d] = wire[d]
  BY <1>1 DEF Inv, Kinds
<1> HIDE DEF i, bytes
<1>7. OneSizes'
  BY <1>1, MainSizes DEF RightInv
<1>8. FilesRight'
  <2>1. \A m \in Nodes \ {n} : file'[m] = file[m] /\ status'[m] = status[m]
    BY <1>1 DEF Inv, Kinds
  <2>2. status'[n] = status[n] \cup {i}
    BY <1>1, Tree DEF Inv, Kinds
  <2>3. original \in Nat \ {0} /\ Len(file[n]) \in Nat /\ original <= Len(file[n])
    BY <1>1, Tree, CutFile DEF Inv, Known
  <2>4. ASSUME NEW j \in status'[n]
        PROVE  FileRight(n, j)'
    <3>1. j \in status[n] => FileRight(n, j)
      BY Tree DEF RightInv, FilesRight
    <3>2. Excused(n, j) => Excused(n, j)'
      BY <1>1 DEF Excused
    <3>3. CASE i \in status[n]
      BY <1>1, <2>2, <2>4, <3>1, <3>2, <3>3 DEF FileRight
    <3>4. CASE i \notin status[n]
      <4>1. \A k \in 1 .. original :
              file'[n][k] = IF InSlice(i, k) THEN bytes[k - offset(i)] ELSE file[n][k]
        <5>1. file'[n] = WriteAt(file[n], i, bytes)
          BY <1>1, <3>4, Tree DEF Inv, Kinds
        <5>2. i \in Nat
          BY <1>4, PiecesCount
        <5>3. \A k \in 1 .. Len(file[n]) : file'[n][k]
                = IF InSlice(i, k) THEN bytes[k - offset(i)] ELSE file[n][k]
          BY <1>2, <1>4, <5>1, <5>2, Written
        <5>4. QED
          BY <2>3, <5>3
      <4>2. CASE j = i
        BY <1>1, <1>5, <3>2, <4>1, <4>2 DEF FileRight, BytesRight
      <4>3. CASE j # i
        <5>1. j \in status[n] /\ j \in Nat /\ i \in Nat
          BY <1>2, <1>4, <2>2, <2>4, <4>3, PiecesCount
        <5>2. \A k \in 1 .. original : InSlice(j, k) => ~InSlice(i, k)
          BY <2>3, <4>3, <5>1, OneSlice
        <5>3. QED
          BY <1>1, <3>1, <3>2, <4>1, <5>1, <5>2 DEF FileRight
      <4>4. QED
        BY <4>2, <4>3
    <3>5. QED
      BY <3>3, <3>4
  <2>5. QED
    BY <1>1, <2>1, <2>4, Tree, OneFile DEF RightInv
<1>9. AnswersRight'
  <2> SUFFICES ASSUME NEW c \in Dests, NEW m \in 1 .. Len(wire'[c])
               PROVE  (Excused(c, wire[c][m][1]) \/ BytesRight(wire[c][m][1], wire[c][m][2]))'
    BY DEF AnswersRight
  <2>1. \E l \in 1 .. Len(wire[c]) : wire'[c][m] = wire[c][l]
    <3>1. CASE c = n
      <4> DEFINE w == Len(wire[n])
      <4>1. m \in 1 .. w - 1 /\ w \in Nat \ {0}
        BY <1>3, <1>6, <3>1
      <4>2. wire'[c][m] = wire[n][m + 1]
        BY <1>3, <1>6, <3>1
      <4> HIDE DEF w
      <4>3. m + 1 \in 1 .. w
        BY <4>1
      <4>4. QED
        BY <3>1, <4>2, <4>3 DEF w
    <3>2. CASE c # n
      BY <1>6, <3>2
    <3>3. QED
      BY <3>1, <3>2
  <2>2. PICK l \in 1 .. Len(wire[c]) : wire'[c][m] = wire[c][l]
    BY <2>1
  <2>3. Excused(c, wire[c][l][1]) \/ BytesRight(wire[c][l][1], wire[c][l][2])
    BY DEF RightInv, AnswersRight
  <2>4. QED
    BY <1>1, <2>2, <2>3 DEF Excused, BytesRight
<1>10. AllThere'
  <2>1. phase'[n] = "receive" /\ \A d \in Dests \ {n} : phase'[d] = phase[d]
    BY <1>1, Tree DEF Inv, Kinds
  <2>2. Pieces' = Pieces /\ \A d \in Dests \ {n} : status'[d] = status[d]
    BY <1>1, Tree DEF Pieces, Inv, Kinds
  <2>3. QED
    BY <2>1, <2>2 DEF RightInv, AllThere, Complete
<1>11. QED
  BY <1>7, <1>8, <1>9, <1>10 DEF RightInv

\* A node goes on only with all the pieces.
LEMMA AllReceivedRight ==
  ASSUME Inv, RightInv, NEW n \in Dests, AllReceived(n)
  PROVE  RightInv'
<1>1. /\ phase' = [phase EXCEPT ![n] = IF status[n] = AllPieces(n) THEN "received" ELSE "failed"]
      /\ phase[n] = "receive"
      /\ UNCHANGED <<original, file, status, wire, view, piece, step, raced, stringVars>>
  BY DEF AllReceived, Go, workerVars, stringVars
<1>2. OneSizes'
  BY <1>1, MainSizes DEF RightInv
<1>3. FilesRight' /\ AnswersRight'
  BY <1>1, FilesStand, AnswersStand DEF RightInv
<1>4. AllThere'
  <2>1. /\ phase'[n] = IF status[n] = AllPieces(n) THEN "received" ELSE "failed"
        /\ \A d \in Dests \ {n} : phase'[d] = phase[d]
    BY <1>1, Tree DEF Inv, Kinds
  <2>2. Pieces' = Pieces
    BY <1>1 DEF Pieces
  <2>3. AllPieces(n) = Pieces
    BY <1>1, SourceHasPieces, Tree DEF Inv, Known, AllPieces, NumPieces, Pieces
  <2>4. QED
    BY <1>1, <2>1, <2>2, <2>3 DEF RightInv, AllThere, Complete
<1>5. QED
  BY <1>2, <1>3, <1>4 DEF RightInv

\* reconstruct leaves the file's own bytes.
LEMMA ReconstructRight ==
  ASSUME Inv, RightInv, NEW n \in Dests, Reconstruct(n)
  PROVE  RightInv'
<1> DEFINE new == SubSeq(file[n], 1, original)
<1>1. phase[n] = "received" /\ phase[Source] = "serve" /\ meta[n] = SourceMeta
  BY Tree DEF Reconstruct, Go, Inv, Known
<1>2. meta[n].fileSize = original
  BY <1>1, SourceHasPieces
<1>3. /\ phase' = [phase EXCEPT ![n] = "complete"]
      /\ file' = [file EXCEPT ![n] = new]
      /\ UNCHANGED <<original, status, wire, view, piece, step, raced, stringVars>>
  BY <1>2 DEF Reconstruct, Go, FinalSize, workerVars, stringVars
<1>4. \A k \in 1 .. original : new[k] = file[n][k]
  <2>1. original \in Nat \ {0} /\ Len(file[n]) \in Nat /\ original <= Len(file[n])
    BY <1>1, CutFile, Tree
  <2>2. file[n] \in Seq(Byte)
    BY Tree DEF Inv, Kinds
  <2>3. QED
    BY <2>1, <2>2
<1> HIDE DEF new
<1>5. OneSizes'
  BY <1>3, MainSizes DEF RightInv
<1>6. FilesRight'
  <2>1. \A m \in Nodes \ {n} : file'[m] = file[m] /\ status'[m] = status[m]
    BY <1>3 DEF Inv, Kinds
  <2>2. file'[n] = new
    BY <1>3, Tree DEF Inv, Kinds
  <2>3. ASSUME NEW i \in status'[n]
        PROVE  FileRight(n, i)'
    <3>1. FileRight(n, i)
      BY <1>3, <2>3, Tree DEF RightInv, FilesRight
    <3>2. Excused(n, i) => Excused(n, i)'
      BY <1>3 DEF Excused
    <3>3. QED
      BY <1>3, <1>4, <2>2, <3>1, <3>2 DEF FileRight
  <2>4. QED
    BY <1>3, <2>1, <2>3, Tree, OneFile DEF RightInv
<1>7. AnswersRight'
  BY <1>3, AnswersStand DEF RightInv
<1>8. AllThere'
  <2>1. phase'[n] = "complete" /\ \A d \in Dests \ {n} : phase'[d] = phase[d]
    BY <1>3, Tree DEF Inv, Kinds
  <2>2. Pieces' = Pieces
    BY <1>3 DEF Pieces
  <2>3. QED
    BY <1>1, <1>3, <2>1, <2>2 DEF RightInv, AllThere, Complete
<1>9. QED
  BY <1>5, <1>6, <1>7, <1>8 DEF RightInv

\* clean_up changes no byte.
LEMMA CleanUpRight == ASSUME Inv, RightInv, NEW n \in Dests, CleanUp(n) PROVE RightInv'
<1>1. /\ phase[n] = "complete" /\ phase' = [phase EXCEPT ![n] = "unmapped"]
      /\ UNCHANGED <<original, file, status, wire, view, piece, step, raced, stringVars>>
  BY DEF CleanUp, Go, workerVars, stringVars
<1>2. OneSizes'
  BY <1>1, MainSizes DEF RightInv
<1>3. FilesRight' /\ AnswersRight'
  BY <1>1, FilesStand, AnswersStand DEF RightInv
<1>4. AllThere'
  <2>1. phase'[n] = "unmapped" /\ \A d \in Dests \ {n} : phase'[d] = phase[d]
    BY <1>1, Tree DEF Inv, Kinds
  <2>2. Pieces' = Pieces
    BY <1>1 DEF Pieces
  <2>3. QED
    BY <1>1, <2>1, <2>2 DEF RightInv, AllThere, Complete
<1>5. QED
  BY <1>2, <1>3, <1>4 DEF RightInv

\* A step of a worker that writes no answer.
LEMMA WorkerCopies ==
  ASSUME RightInv, UNCHANGED <<original, nodeVars, wire>>, raced \subseteq raced'
  PROVE  FilesRight' /\ AnswersRight' /\ AllThere'
BY FilesStand, AnswersStand, AllStand DEF RightInv, nodeVars

\* A worker that takes up a piece does not touch the string.
LEMMA SendPieceRight ==
  ASSUME Inv, RightInv, NEW c \in Dests, NEW i, SendPiece(c, i)
  PROVE  RightInv'
<1>1. /\ step' = [step EXCEPT ![c] =
                   IF NeedsPadding(i, meta[Upstream[c]].fileSize) THEN "resize" ELSE "write"]
      /\ piece' = [piece EXCEPT ![c] = i] /\ view' = [view EXCEPT ![c] = Local]
      /\ UNCHANGED <<original, nodeVars, wire, padded, heap, raced>>
  BY DEF SendPiece, WorkerStep, stringVars
<1>2. \A d \in Dests :
        /\ step'[d] \in Resizing => step[d] \in Resizing
        /\ step'[d] = "copy" => step[d] = "copy"
        /\ Padded(d)' => Padded(d) /\ view'[d] = view[d] /\ piece'[d] = piece[d]
  <2> SUFFICES ASSUME NEW d \in Dests
               PROVE  /\ step'[d] \in Resizing => step[d] \in Resizing
                      /\ step'[d] = "copy" => step[d] = "copy"
                      /\ Padded(d)' => Padded(d) /\ view'[d] = view[d] /\ piece'[d] = piece[d]
    OBVIOUS
  <2>1. CASE d = c
    BY <1>1, <2>1 DEF Inv, Kinds, Resizing, Padded
  <2>2. CASE d # c
    BY <1>1, <2>2 DEF Inv, Kinds, Padded
  <2>3. QED
    BY <2>1, <2>2
<1>3. OneSizes'
  BY <1>1, <1>2, SizesStand DEF RightInv
<1>4. QED
  BY <1>1, <1>3, WorkerCopies DEF RightInv

\* A step of a worker that is not in the string, and of the test of its capacity.
LEMMA WalkRight ==
  ASSUME Inv, RightInv, NEW c \in Dests, QueueNext(c) \/ RequestDone(c) \/ TestCapacity(c)
  PROVE  RightInv'
<1>1. /\ UNCHANGED <<original, nodeVars, wire, piece, view, padded, heap, raced>>
      /\ \/ step' = [step EXCEPT ![c] = "walk"] \/ step' = [step EXCEPT ![c] = "idle"]
         \/ /\ step[c] = "grow"
            /\ \/ step' = [step EXCEPT ![c] = "fill"] \/ step' = [step EXCEPT ![c] = "allocate"]
  BY DEF QueueNext, RequestDone, TestCapacity, WorkerStep, stringVars
<1>2. \A d \in Dests :
        /\ step'[d] \in Resizing => step[d] \in Resizing
        /\ step'[d] = "copy" => step[d] = "copy"
        /\ Padded(d)' => Padded(d) /\ view'[d] = view[d] /\ piece'[d] = piece[d]
  BY <1>1 DEF Inv, Kinds, Resizing, Padded
<1>3. OneSizes'
  BY <1>1, <1>2, SizesStand DEF RightInv
<1>4. QED
  BY <1>1, <1>3, WorkerCopies DEF RightInv

\* The steps of FileManager::send for the last piece.
LEMMA StringRight ==
  ASSUME Inv, RightInv, NEW c \in Dests,
         TestSize(c) \/ Allocate(c) \/ FillZero(c) \/ Pad(c)
  PROVE  RightInv'
<1>1. UNCHANGED <<original, nodeVars, wire>> /\ raced \subseteq raced'
  BY DEF TestSize, Allocate, FillZero, Pad, WorkerStep
<1>2. OneSizes'
  BY TestSizeSizes, AllocateSizes, FillZeroSizes, PadSizes DEF RightInv
<1>3. QED
  BY <1>1, <1>2, WorkerCopies DEF RightInv

\* What is sent is right, from the mapping as from the string, or the node's
\* string has been raced for.
LEMMA WriteAnswerRight ==
  ASSUME Inv, RightInv, NEW c \in Dests, WriteAnswer(c)
  PROVE  RightInv'
<1> DEFINE u == Upstream[c]
           i == piece[c]
           answer == <<i, Viewed(c)>>
<1>1. /\ step[c] = "write" /\ step' = [step EXCEPT ![c] = "walk"]
      /\ wire' = [wire EXCEPT ![c] = Append(@, answer)]
      /\ UNCHANGED <<original, nodeVars, piece, view, stringVars>>
  BY DEF WriteAnswer, WorkerStep
<1>2. UNCHANGED <<phase, file, status, raced>>
  BY <1>1 DEF nodeVars, stringVars
<1>3. /\ Viewed(c) \in Buffer
      /\ view[c] = Local => \A k \in 1 .. original :
           InSlice(i, k) => Viewed(c)[k - offset(i)] = file[u][k]
  BY <1>1, SentBytes
<1>4. u \in Nodes /\ i \in status[u] /\ i \in Pieces
  BY <1>1, Readable DEF Sending
<1>5. OneSizes'
  <2>1. \A d \in Dests : step'[d] = step[d] \/ step'[d] = "walk"
    BY <1>1 DEF Inv, Kinds
  <2>2. QED
    BY <1>1, <2>1, MainSizes DEF RightInv
<1>6. FilesRight' /\ AllThere'
  BY <1>1, <1>2, FilesStand, AllStand DEF RightInv
<1>7. Excused(c, i) \/ BytesRight(i, Viewed(c))
  <2>1. CASE view[c] = Local
    <3>1. FileRight(u, i)
      BY <1>4 DEF RightInv, FilesRight
    <3>2. CASE Excused(u, i)
      BY <3>2, Excuses
    <3>3. CASE ~Excused(u, i)
      BY <1>3, <2>1, <3>1, <3>3 DEF FileRight, BytesRight
    <3>4. QED
      BY <3>2, <3>3
  <2>2. CASE view[c] # Local
    <3>1. NeedsPadding(i, original)
      BY <1>1, <2>2 DEF Inv, Padding
    <3>2. CASE u \in raced
      BY <3>1, <3>2, Excuses
    <3>3. CASE u \notin raced
      <4>1. SizesAt(u) /\ c \in Clients(u) /\ Padded(c)
        BY <1>1, <1>4, <2>2, <3>3, Tree DEF RightInv, OneSizes, Padded
      <4>2. heap[view[c]] # Freed /\ (Excused(u, i) \/ BytesRight(i, heap[view[c]]))
        BY <4>1 DEF SizesAt
      <4>3. Viewed(c) = heap[view[c]]
        BY <2>2, <4>2 DEF Viewed
      <4>4. QED
        BY <4>2, <4>3, Excuses
    <3>4. QED
      BY <3>2, <3>3
  <2>3. QED
    BY <2>1, <2>2
<1>8. wire[c] \in Seq(Answers) /\ answer \in Answers
  BY <1>3, <1>4 DEF Inv, Kinds, Answers
<1>9. answer[1] = i /\ answer[2] = Viewed(c)
  OBVIOUS
<1> HIDE DEF answer
<1>10. /\ wire'[c] = Append(wire[c], answer)
       /\ \A d \in Dests \ {c} : wire'[d] = wire[d]
  BY <1>1 DEF Inv, Kinds
<1>11. /\ Len(wire[c]) \in Nat /\ Len(Append(wire[c], answer)) = Len(wire[c]) + 1
       /\ Append(wire[c], answer)[Len(wire[c]) + 1] = answer
       /\ \A k \in 1 .. Len(wire[c]) : Append(wire[c], answer)[k] = wire[c][k]
  BY <1>8, Appended
<1>12. AnswersRight'
  <2> SUFFICES ASSUME NEW d \in Dests, NEW m \in 1 .. Len(wire'[d])
               PROVE  (Excused(d, wire[d][m][1]) \/ BytesRight(wire[d][m][1], wire[d][m][2]))'
    BY DEF AnswersRight
  <2>1. \/ d = c /\ wire'[d][m] = answer
        \/ m \in 1 .. Len(wire[d]) /\ wire'[d][m] = wire[d][m]
    <3>1. CASE d = c
      BY <1>10, <1>11, <3>1
    <3>2. CASE d # c
      BY <1>10, <3>2
    <3>3. QED
      BY <3>1, <3>2
  <2>2. CASE d = c /\ wire'[d][m] = answer
    BY <1>1, <1>2, <1>7, <1>9, <2>2 DEF Excused, BytesRight
  <2>3. CASE m \in 1 .. Len(wire[d]) /\ wire'[d][m] = wire[d][m]
    BY <1>1, <1>2, <2>3 DEF Excused, BytesRight, RightInv, AnswersRight
  <2>4. QED
    BY <2>1, <2>2, <2>3
<1>13. QED
  BY <1>5, <1>6, <1>12 DEF RightInv

\* Nothing happens.
LEMMA StutterRight == ASSUME Inv, RightInv, UNCHANGED vars PROVE RightInv'
<1>1. UNCHANGED <<original, nodeVars, wire, step, view, piece, stringVars, raced>>
  BY DEF vars, workerVars, stringVars
<1>2. OneSizes'
  BY <1>1, MainSizes DEF RightInv
<1>3. QED
  BY <1>1, <1>2, WorkerCopies DEF RightInv

\* Every step keeps the content right.
LEMMA NextRight == Inv /\ RightInv /\ [Next]_vars => RightInv'
<1> SUFFICES ASSUME Inv, RightInv, [Next]_vars PROVE RightInv'
  OBVIOUS
<1>1. CASE InitializeSource
  BY <1>1, InitializeSourceRight
<1>2. ASSUME NEW n \in Dests, Main(n)
      PROVE  RightInv'
  BY <1>2, GetMetadataRight, RequestPiecesRight, ReceiveRight, AllReceivedRight,
     ReconstructRight, CleanUpRight DEF Main
<1>3. ASSUME NEW c \in Dests, Worker(c)
      PROVE  RightInv'
  <2>1. CASE SendNext(c)
    BY <2>1, SendPieceRight DEF SendNext
  <2>2. CASE \E i \in late[c] : SendLate(c, i)
    BY <2>2, SendPieceRight DEF SendLate
  <2>3. CASE QueueNext(c) \/ RequestDone(c) \/ TestCapacity(c)
    BY <2>3, WalkRight
  <2>4. CASE TestSize(c) \/ Allocate(c) \/ FillZero(c) \/ Pad(c)
    BY <2>4, StringRight
  <2>5. CASE WriteAnswer(c)
    BY <2>5, WriteAnswerRight
  <2>6. QED
    BY <1>3, <2>1, <2>2, <2>3, <2>4, <2>5 DEF Worker
<1>4. CASE Halted
  BY <1>4, StutterRight DEF Halted
<1>5. CASE UNCHANGED vars
  BY <1>5, StutterRight
<1>6. QED
  BY <1>1, <1>2, <1>3, <1>4, <1>5 DEF Next

\* A destination that has finished has the source's bytes, all of them and no
\* others, whatever the tree above it and however the workers' steps fall, except
\* that its last piece may be wrong where two workers of a node above it were in
\* the first resize of the shared string at once.
THEOREM ContentRight == Spec => []ContentUnlessRaced
<1>1. Init => RightInv
  BY InitRight
<1>2. Inv /\ RightInv /\ [Next]_vars => RightInv'
  BY NextRight
<1>3. Inv /\ RightInv => ContentUnlessRaced
  <2> SUFFICES ASSUME Inv, RightInv, NEW n \in Dests, Complete(n)
               PROVE  /\ Len(file[n]) = original
                      /\ \A k \in 1 .. original :
                           \/ file[n][k] = Content[k]
                           \/ /\ NeedsPadding((k - 1) \div piece_size, original)
                              /\ Above[n] \cap raced # {}
    BY DEF ContentUnlessRaced
  <2>1. Len(file[n]) = original
    BY DEF Inv, Lengths
  <2>2. original \in Nat \ {0} /\ n \in Nodes
    BY Tree, SourceHasPieces DEF Inv, Known, Complete
  <2>3. status[n] = Pieces
    BY DEF RightInv, AllThere
  <2>4. ASSUME NEW k \in 1 .. original
        PROVE  \/ file[n][k] = Content[k]
               \/ /\ NeedsPadding((k - 1) \div piece_size, original)
                  /\ Above[n] \cap raced # {}
    <3> DEFINE i == (k - 1) \div piece_size
    <3>1. i \in Pieces /\ InSlice(i, k)
      BY <2>2, ItsSlice DEF Pieces
    <3> HIDE DEF i
    <3>2. FileRight(n, i)
      BY <2>2, <2>3, <3>1 DEF RightInv, FilesRight
    <3>3. Excused(n, i) \/ file[n][k] = k
      BY <3>1, <3>2 DEF FileRight
    <3>4. Content[k] = k
      BY DEF Content
    <3>5. QED
      BY <3>3, <3>4 DEF Excused, i
  <2>5. QED
    BY <2>1, <2>4
<1>4. QED
  BY <1>1, <1>2, <1>3, Inductive, PTL DEF Spec
==============================================================================
