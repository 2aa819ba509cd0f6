------------------------------ MODULE Transfer ------------------------------
(***************************************************************************)
(* The bytes of the file on their way down a tree of nodes: the source     *)
(* maps its file; a destination gets the metadata, makes a file of as many *)
(* whole pieces as there are, asks its upstream for the pieces, writes     *)
(* what it is sent into its mapping, and cuts the padding off in the end,  *)
(* while the nodes below it still read from the same mapping.              *)
(*                                                                         *)
(* Here a piece is its bytes, where PieceServer has it as an atom; who     *)
(* waits for whom, the callbacks and the interfaces are in PieceServer and *)
(* Swarm. The workers of a node share one string in which FileManager::send*)
(* pads the last piece; its first resize is several steps.                 *)
(***************************************************************************)
EXTENDS FileGeometry, Wire, FiniteSets

CONSTANTS
  Nodes, Source,
  Upstream,     \* the node each destination downloads from
  Sizes,        \* sizes the file may have
  node_ip,      \* the source's address
  MaxInFlight,  \* answers a connection holds before send blocks
  Local         \* std::string's own buffer, too small for a piece

Dests == Nodes \ {Source}
Clients(s) == {c \in Dests : Upstream[c] = s}

ASSUME UpstreamAssumption == Source \in Nodes /\ Upstream \in [Dests -> Nodes]
ASSUME SizesAssumption == Sizes \subseteq Nat /\ \A n \in Sizes : n < SizeMod
ASSUME AddressAssumption == node_ip \in Seq(Nat \ {NUL})
ASSUME InFlightAssumption == MaxInFlight \in Nat \ {0} /\ Local \notin Nodes

VARIABLES
  original, \* size of the source's file; it does not change
  phase,    \* how far each node has come
  meta,     \* file_metadata
  file,     \* the mapped file
  status,   \* the pieces whose piece_status is true
  expected, \* answers request_pieces still waits for
  wire,     \* answers between a client and its upstream, as <<piece, bytes>>
  step,     \* control point of the worker that serves each client
  todo,     \* pieces the worker has yet to go through
  late,     \* pieces it waits for
  piece,    \* the piece it is sending
  view,     \* what it is going to send: its own mapping or a buffer
  padded,   \* FileManager::send's padded_piece on each node
  heap,     \* the buffer each worker has allocated for it
  raced     \* nodes on which two workers were inside the first resize at once

workerVars == <<step, todo, late, piece, view>>
stringVars == <<padded, heap, raced>>
nodeVars == <<phase, meta, file, status, expected>>
vars == <<original, nodeVars, wire, workerVars, stringVars>>

Junk == -1     \* a byte of memory that is not the string's, or not yet written
Outside == -2  \* a byte that is not in the file
Freed == << >>
Content == [k \in 1 .. original |-> k]   \* the source's file: all bytes differ

NoMeta ==
  [fileId |-> << >>, filename |-> << >>, fileSize |-> 0, numPieces |-> 0, pieces |-> << >>]

Init ==
  /\ original \in Sizes
  /\ phase = [n \in Nodes |-> "start"]
  /\ meta = [n \in Nodes |-> NoMeta]
  /\ file = [n \in Nodes |-> IF n = Source THEN Content ELSE << >>]
  /\ status = [n \in Nodes |-> {}]
  /\ expected = [c \in Dests |-> 0]
  /\ wire = [c \in Dests |-> << >>]
  /\ step = [c \in Dests |-> "idle"]
  /\ todo = [c \in Dests |-> << >>] /\ late = [c \in Dests |-> {}]
  /\ piece = [c \in Dests |-> 0] /\ view = [c \in Dests |-> Local]
  /\ padded = [n \in Nodes |-> [data |-> Local, fits |-> FALSE, length |-> 0]]
  /\ heap = [c \in Dests |-> Freed]
  /\ raced = {}

Go(n, from, to) ==
  /\ phase[n] = from /\ phase' = [phase EXCEPT ![n] = to]
  /\ UNCHANGED original

NumPieces(n) == meta[n].numPieces
AllPieces(n) == 0 .. NumPieces(n) - 1
\* start_listening has been called, and the file is still mapped.
Serves(n) == phase[n] \in {"ask", "receive", "received", "complete", "serve"}

-----------------------------------------------------------------------------
(* The FileManager and the main thread of a node.                          *)

\* mmap refuses a length of 0.
MmapSucceeds(fileSize) == fileSize > 0

\* initialize_source, from the size of the file it finds.
SourceMeta ==
  LET n == num_pieces(original)
  IN  [fileId |-> <<1>>, filename |-> <<2, 3>>, fileSize |-> original, numPieces |-> n,
       pieces |-> [i \in 1 .. n |-> [srcs |-> <<AddressField(node_ip)>>, checksum |-> << >>]]]

InitializeSource ==
  /\ Go(Source, "start", IF MmapSucceeds(original) THEN "serve" ELSE "failed")
  /\ meta' = [meta EXCEPT ![Source] = SourceMeta]
  /\ status' = [status EXCEPT ![Source] = 0 .. num_pieces(original) - 1]
  /\ UNCHANGED <<file, expected, wire, workerVars, stringVars>>

\* request_metadata, and initialize_receiver from the answer: a file of whole
\* pieces, which ftruncate fills with zeros.
GetMetadata(n) ==
  LET received == DeserializeFile(SerializeFile(meta[Upstream[n]]))
  IN
  /\ Serves(Upstream[n])
  /\ Go(n, "start", "ask")
  /\ meta' = [meta EXCEPT ![n] = received]
  /\ file' = [file EXCEPT ![n] = Zeros(received.numPieces * piece_size)]
  /\ UNCHANGED <<status, expected, wire, workerVars, stringVars>>

\* What request_pieces is asked for: the range of all pieces, as start() has
\* it, or a mixture of all that it takes.
WholeRange(n) ==
  [single |-> << >>, ranges |-> <<<<0, NumPieces(n) - 1>>>>, pieces |-> << >>]
Mixture(n) ==
  [single |-> <<0>>,
   ranges |-> IF NumPieces(n) > 2 THEN <<<<1, NumPieces(n) - 2>>>> ELSE << >>,
   pieces |-> IF NumPieces(n) > 1 THEN <<NumPieces(n) - 1>> ELSE << >>]

\* request_pieces sends the request, and a worker upstream takes it: a node
\* with no piece answers NOT_AVAIL_RES, and the client asks again.
RequestPieces(n, request) ==
  /\ Serves(Upstream[n]) /\ status[Upstream[n]] # {}
  /\ Go(n, "ask", "receive")
  /\ expected' = [expected EXCEPT ![n] = total_pieces(request)]
  /\ todo' = [todo EXCEPT ![n] = Walk(DeserializeRequest(SerializeRequest(request)))]
  /\ step' = [step EXCEPT ![n] = "walk"]
  /\ UNCHANGED <<meta, file, status, wire, late, piece, view, stringVars>>

\* The bytes of a file with those of piece i replaced, get_piece_buffer's place.
WriteAt(bytes, i, data) ==
  [k \in DOMAIN bytes |->
    IF k \in offset(i) + 1 .. offset(i) + Len(data) THEN data[k - offset(i)] ELSE bytes[k]]

\* One answer is received, and its piece is there. A piece that was there
\* before is read and thrown away.
Receive(n) ==
  LET answer == Head(wire[n])
  IN
  /\ Go(n, "receive", "receive")
  /\ expected[n] > 0 /\ wire[n] # << >>
  /\ wire' = [wire EXCEPT ![n] = Tail(@)]
  /\ expected' = [expected EXCEPT ![n] = @ - 1]
  /\ file' = IF answer[1] \in status[n] THEN file
             ELSE [file EXCEPT ![n] = WriteAt(@, answer[1], answer[2])]
  /\ status' = [status EXCEPT ![n] = @ \cup {answer[1]}]
  /\ UNCHANGED <<meta, workerVars, stringVars>>

\* request_pieces returns, thread_pool.wait() finds no worker busy, and start()
\* looks whether every piece is there. Requests may come again at once.
AllReceived(n) ==
  /\ expected[n] = 0
  /\ \A c \in Clients(n) : step[c] = "idle"
  /\ Go(n, "receive", IF status[n] = AllPieces(n) THEN "received" ELSE "failed")
  /\ UNCHANGED <<meta, file, status, expected, wire, workerVars, stringVars>>

\* Mutant: the file is cut after its last whole piece.
WholePiecesOnly(fileSize) == piece_size * (fileSize \div piece_size)
FinalSize(fileSize) == fileSize

\* reconstruct: ftruncate to the file's size, while clients may be served.
Reconstruct(n) ==
  /\ Go(n, "received", "complete")
  /\ file' = [file EXCEPT ![n] = SubSeq(@, 1, FinalSize(meta[n].fileSize))]
  /\ UNCHANGED <<meta, status, expected, wire, workerVars, stringVars>>

\* Past the completion barrier (Completion), clean_up unmaps the file.
CleanUp(n) ==
  /\ \A d \in Dests : phase[d] \in {"complete", "unmapped"}
  /\ Go(n, "complete", "unmapped")
  /\ UNCHANGED <<meta, file, status, expected, wire, workerVars, stringVars>>

-----------------------------------------------------------------------------
(* The worker that serves client c on node s.                              *)

WorkerStep(c, from, to) ==
  /\ step[c] = from /\ step' = [step EXCEPT ![c] = to]
  /\ UNCHANGED <<original, nodeVars>>

\* A byte of the mapping of node s.
ByteAt(s, k) ==
  IF k \in DOMAIN file[s] /\ phase[s] # "unmapped" THEN file[s][k] ELSE Outside
\* Mutant: the copy reads a whole piece, whatever the size of the file.
UpTo(s, i) == offset(i) + piece_size
LastByte(s, i) == IF offset(i) + piece_size < meta[s].fileSize
                  THEN offset(i) + piece_size ELSE meta[s].fileSize
\* The bytes of piece i that belong to the file, and all those of its slice.
FileBytes(s, i) == [k \in 1 .. LastByte(s, i) - offset(i) |-> ByteAt(s, offset(i) + k)]
Slice(s, i) == [k \in 1 .. piece_size |-> ByteAt(s, offset(i) + k)]

\* send_piece finds piece i, and FileManager::send decides what to send.
SendPiece(c, i) ==
  LET s == Upstream[c]
  IN
  /\ i \in status[s]
  /\ WorkerStep(c, "walk", IF NeedsPadding(i, meta[s].fileSize) THEN "resize" ELSE "write")
  /\ piece' = [piece EXCEPT ![c] = i]
  /\ view' = [view EXCEPT ![c] = Local]
  /\ UNCHANGED <<wire, stringVars>>

SendNext(c) ==
  /\ todo[c] # << >>
  /\ SendPiece(c, Head(todo[c]))
  /\ todo' = [todo EXCEPT ![c] = Tail(@)]
  /\ UNCHANGED late

\* send_piece does not find it.
QueueNext(c) ==
  /\ todo[c] # << >> /\ Head(todo[c]) \notin status[Upstream[c]]
  /\ WorkerStep(c, "walk", "walk")
  /\ todo' = [todo EXCEPT ![c] = Tail(@)]
  /\ late' = [late EXCEPT ![c] = @ \cup {Head(todo[c])}]
  /\ UNCHANGED <<wire, piece, view, stringVars>>

\* wait_for_queue, when a piece has come.
SendLate(c, i) ==
  /\ todo[c] = << >> /\ i \in late[c]
  /\ SendPiece(c, i)
  /\ late' = [late EXCEPT ![c] = @ \ {i}]
  /\ UNCHANGED todo

RequestDone(c) ==
  /\ todo[c] = << >> /\ late[c] = {}
  /\ WorkerStep(c, "walk", "idle")
  /\ UNCHANGED <<wire, todo, late, piece, view, stringVars>>

\* Inside padded_piece.resize: past the test of its size, before the new length.
Resizing == {"grow", "allocate", "fill"}

\* The string has the size already, or has to grow.
TestSize(c) ==
  LET s == Upstream[c]
  IN
  /\ WorkerStep(c, "resize", IF padded[s].length = piece_size THEN "copy" ELSE "grow")
  /\ raced' = IF /\ padded[s].length # piece_size
                 /\ \E d \in Clients(s) \ {c} : step[d] \in Resizing
              THEN raced \cup {s} ELSE raced
  /\ UNCHANGED <<wire, todo, late, piece, view, padded, heap>>

TestCapacity(c) ==
  /\ WorkerStep(c, "grow", IF padded[Upstream[c]].fits THEN "fill" ELSE "allocate")
  /\ UNCHANGED <<wire, todo, late, piece, view, stringVars>>

\* A new buffer takes the place of the old one, which is freed.
Allocate(c) ==
  LET old == padded[Upstream[c]].data
  IN
  /\ WorkerStep(c, "allocate", "fill")
  /\ heap' = [d \in Dests |-> IF d = c THEN [k \in 1 .. piece_size |-> Junk]
                              ELSE IF d = old THEN Freed ELSE heap[d]]
  /\ padded' = [padded EXCEPT ![Upstream[c]] = [@ EXCEPT !.data = c, !.fits = TRUE]]
  /\ UNCHANGED <<wire, todo, late, piece, view, raced>>

\* Bytes written where the string's data is now.
Fill(c, bytes) == heap' = [heap EXCEPT ![padded[Upstream[c]].data] = bytes]

\* The new characters are '\0', and the length is set.
FillZero(c) ==
  /\ WorkerStep(c, "fill", "copy")
  /\ Fill(c, Zeros(piece_size))
  /\ padded' = [padded EXCEPT ![Upstream[c]].length = piece_size]
  /\ UNCHANGED <<wire, todo, late, piece, view, raced>>

\* memcpy of the bytes there are, memset of the rest. The view is of the data.
Pad(c) ==
  LET bytes == FileBytes(Upstream[c], piece[c])
  IN
  /\ WorkerStep(c, "copy", "write")
  /\ Fill(c, bytes \o Zeros(piece_size - Len(bytes)))
  /\ view' = [view EXCEPT ![c] = padded[Upstream[c]].data]
  /\ UNCHANGED <<wire, todo, late, piece, padded, raced>>

\* What send_all finds where the view points to.
Viewed(c) ==
  IF view[c] = Local THEN Slice(Upstream[c], piece[c])
  ELSE IF heap[view[c]] = Freed THEN [k \in 1 .. piece_size |-> Junk]
  ELSE heap[view[c]]

\* send_all of the header and of the view, as the connection has room.
WriteAnswer(c) ==
  /\ Len(wire[c]) < MaxInFlight
  /\ WorkerStep(c, "write", "walk")
  /\ wire' = [wire EXCEPT ![c] = Append(@, <<piece[c], Viewed(c)>>)]
  /\ UNCHANGED <<todo, late, piece, view, stringVars>>

Worker(c) ==
  \/ SendNext(c) \/ QueueNext(c) \/ RequestDone(c)
  \/ \E i \in late[c] : SendLate(c, i)
  \/ TestSize(c) \/ TestCapacity(c) \/ Allocate(c) \/ FillZero(c)
  \/ Pad(c) \/ WriteAnswer(c)
Main(n) ==
  \/ GetMetadata(n)
  \/ RequestPieces(n, WholeRange(n)) \/ RequestPieces(n, Mixture(n))
  \/ Receive(n) \/ AllReceived(n) \/ Reconstruct(n) \/ CleanUp(n)

\* Nothing is left to do. Every other state without a step is a deadlock.
Halted ==
  /\ \/ phase[Source] = "failed"
     \/ \A n \in Dests : phase[n] = "unmapped" /\ step[n] = "idle"
  /\ UNCHANGED vars

Next == InitializeSource \/ (\E n \in Dests : Main(n) \/ Worker(n)) \/ Halted

Spec == Init /\ [][Next]_vars

-----------------------------------------------------------------------------
\* The types of the state; no server is asked for a piece the file has not.
TypeOK ==
  /\ original \in Sizes
  /\ phase \in [Nodes -> {"start", "serve", "failed", "ask", "receive",
                          "received", "complete", "unmapped"}]
  /\ \A n \in Nodes : status[n] \subseteq AllPieces(n)
  /\ expected \in [Dests -> 0 .. SizeMod - 1]
  /\ \A c \in Dests : ToSet(todo[c]) \cup late[c] \subseteq AllPieces(Source)
  /\ step \in [Dests -> Resizing \cup {"idle", "walk", "resize", "copy", "write"}]
  /\ view \in [Dests -> Dests \cup {Local}]
  /\ \A n \in Nodes : padded[n].data \in Clients(n) \cup {Local}
  /\ raced \subseteq Nodes

\* Every node works with the metadata of the source, however many nodes have
\* read it from a stream and written it to another.
MetadataAgrees == \A n \in Nodes : phase[n] # "start" => meta[n] = SourceMeta

\* The client waits for as many answers as its server has yet to give it: one
\* fewer and it takes the transfer for complete, one more and it waits for ever.
AnswersCounted ==
  \A c \in Dests : phase[c] = "receive" =>
    expected[c] = Len(wire[c]) + Len(todo[c]) + Cardinality(late[c])
                  + (IF step[c] \in {"idle", "walk"} THEN 0 ELSE 1)

\* No worker reads a byte behind the end of the file or of an unmapped file,
\* though reconstruct cuts the file under the workers that send from it.
NothingReadOutside ==
  \A c \in Dests : \A i \in DOMAIN wire[c] : Outside \notin ToSet(wire[c][i][2])

\* The nodes a destination's pieces have come through.
Above[n \in Nodes] == IF n = Source THEN {} ELSE {Upstream[n]} \cup Above[Upstream[n]]
Complete(n) == phase[n] \in {"complete", "unmapped"}

\* A finished destination has the bytes of the source's file and no others,
\* except that the last piece may be wrong if somewhere above two workers have
\* sized the padded string at the same time.
ContentUnlessRaced ==
  \A n \in Dests : Complete(n) =>
    /\ Len(file[n]) = original
    /\ \A k \in 1 .. original :
         \/ file[n][k] = Content[k]
         \/ NeedsPadding((k - 1) \div piece_size, original) /\ Above[n] \cap raced # {}

\* "Test passed: Reconstructed file matches original."
ReconstructedMatches == \A n \in Dests : Complete(n) => file[n] = Content
=============================================================================
