---------------------------- MODULE PieceServer ----------------------------
(***************************************************************************)
(* One FloodClone node while it relays a file: the download thread stores  *)
(* the pieces that arrive from upstream (FileManager), and one pool worker *)
(* per client connection serves that client's piece request               *)
(* (ConnectionManager::process_piece_request), queueing on the pieces that *)
(* have not arrived yet.                                                   *)
(*                                                                         *)
(* The threads share piece_status, available_pieces_, the callback table,  *)
(* each request's RequestContext and the state of the network interfaces.  *)
(* A step is one access to that shared state, or one critical section      *)
(* together with the thread-local work around it.                          *)
(***************************************************************************)
EXTENDS Integers, FiniteSets, Sequences

CONSTANTS
  Clients,    \* sockets of the clients that ask this node for pieces
  Ifaces,     \* local interfaces those sockets were accepted on
  IfaceOf,    \* socket_to_interface_: the interface of each socket
  NumPieces,  \* num_pieces
  Requests,   \* for each client, the pieces it asks for, in serving order
  NoSocket    \* the -1 of InterfaceState::busy_socket

Pieces == 0 .. NumPieces - 1

ASSUME NumPiecesAssumption == NumPieces \in Nat \ {0}
ASSUME IfaceAssumption == IfaceOf \in [Clients -> Ifaces]
ASSUME NoSocketAssumption == NoSocket \notin Clients
\* A request names at least one piece and none twice: start() asks for the
\* one range 0 .. numPieces - 1.
ASSUME RequestAssumption ==
  /\ Requests \in [Clients -> Seq(Pieces)]
  /\ \A c \in Clients : Requests[c] # << >>
  /\ \A c \in Clients : \A i, j \in 1 .. Len(Requests[c]) :
       Requests[c][i] = Requests[c][j] => i = j

VARIABLES
  have,       \* pieces whose piece_status is true
  filled,     \* pieces whose bytes are all in the mapped file
  avail,      \* available_pieces_
  callbacks,  \* piece_callbacks_, as pairs <<piece, client>>
  dl,         \* control point of the download thread
  cur,        \* the piece the download thread is handling
  todo,       \* callbacks update_piece_status moved out and still has to call
  isBusy,     \* InterfaceState::is_busy
  busySocket, \* InterfaceState::busy_socket
  pc,         \* control point of the worker that serves each client
  next,       \* index into the client's request
  remaining,  \* RequestContext::remainingPieces
  ready,      \* RequestContext::availablePieces
  batch,      \* the local "available" of wait_for_queue
  sent,       \* how often each piece was written to each client's socket
  served,     \* clients whose request was answered in full
  crashed     \* the process has aborted

storeVars == <<have, filled, avail, dl, cur, todo>>
arbiterVars == <<isBusy, busySocket>>
taskVars == <<next, remaining, batch, sent, served>>
vars == <<storeVars, callbacks, arbiterVars, pc, ready, taskVars, crashed>>

DlPoints == {"header", "payload", "status", "count", "take", "notify"}
\* Control points at which the worker's request has been admitted: it holds
\* the interface and is sending pieces or waiting for them.
Serving == {"send", "register", "wait", "blocked", "woken", "drain"}
\* Control points inside the InterfaceGuard's scope.
Guarded == Serving \cup {"avail", "unstamp"}
\* Control points between the compare-exchange and the clearing of is_busy.
Holding == Guarded \cup {"stamp", "free"}

\* The source starts with the whole file, a destination with no piece of it.
initialize_source == have = Pieces /\ avail = NumPieces
initialize_receiver == have = {} /\ avail = 0

Init ==
  /\ initialize_source \/ initialize_receiver
  /\ filled = have
  /\ callbacks = {}
  /\ dl = "header" /\ cur = 0 /\ todo = {}
  /\ isBusy = [i \in Ifaces |-> FALSE]
  /\ busySocket = [i \in Ifaces |-> NoSocket]
  /\ pc = [c \in Clients |-> "idle"]
  /\ next = [c \in Clients |-> 1]
  /\ remaining = [c \in Clients |-> {}]
  /\ ready = [c \in Clients |-> {}]
  /\ batch = [c \in Clients |-> {}]
  /\ sent = [c \in Clients |-> [p \in Pieces |-> 0]]
  /\ served = {}
  /\ crashed = FALSE

-----------------------------------------------------------------------------
(* The download thread: the receive loop of request_pieces, and the calls  *)
(* it makes to FileManager::update_piece_status.                           *)

DlStep(from, to) ==
  /\ ~crashed /\ dl = from /\ dl' = to
  /\ UNCHANGED <<arbiterVars, taskVars, crashed>>

\* Mutant: the piece is announced before its bytes are there.
RecvHeaderEarly(p) ==
  /\ p \notin have
  /\ DlStep("header", "payload")
  /\ cur' = p
  /\ have' = have \cup {p}
  /\ UNCHANGED <<filled, avail, callbacks, todo, pc, ready>>

\* A PIECE_RES header names a piece this node does not have yet. Upstream may
\* answer in any order: it sends late pieces as they reach it.
RecvHeader(p) ==
  /\ p \notin have
  /\ DlStep("header", "payload")
  /\ cur' = p
  /\ UNCHANGED <<have, filled, avail, callbacks, todo, pc, ready>>

\* receive_all copies the payload into the piece's slice of the mapped file.
RecvPayload ==
  /\ DlStep("payload", "status")
  /\ filled' = filled \cup {cur}
  /\ UNCHANGED <<have, avail, callbacks, cur, todo, pc, ready>>

StoreStatus ==
  /\ DlStep("status", "count")
  /\ have' = have \cup {cur}
  /\ UNCHANGED <<filled, avail, callbacks, cur, todo, pc, ready>>

CountPiece ==
  /\ DlStep("count", "take")
  /\ avail' = avail + 1
  /\ UNCHANGED <<have, filled, callbacks, cur, todo, pc, ready>>

\* Under callbacks_mutex_, the piece's callbacks are moved out of the table.
TakeCallbacks ==
  /\ DlStep("take", "notify")
  /\ todo' = {c \in Clients : <<cur, c>> \in callbacks}
  /\ callbacks' = callbacks \ ({cur} \X Clients)
  /\ UNCHANGED <<have, filled, avail, cur, pc, ready>>

\* cv.notify_one wakes the worker if it sleeps. Mutant: it is not called.
NotNotified(point) == point
Notified(point) == IF point = "blocked" THEN "woken" ELSE point

\* One callback: under the context's mutex it makes the piece available to the
\* waiting worker and notifies its condition variable.
RunCallback(c) ==
  /\ c \in todo
  /\ DlStep("notify", "notify")
  /\ todo' = todo \ {c}
  /\ ready' = [ready EXCEPT ![c] = @ \cup {cur}]
  /\ pc' = [pc EXCEPT ![c] = Notified(@)]
  /\ UNCHANGED <<have, filled, avail, callbacks, cur>>

CallbacksDone ==
  /\ todo = {}
  /\ DlStep("notify", "header")
  /\ UNCHANGED <<have, filled, avail, callbacks, cur, todo, pc, ready>>

Download ==
  \/ \E p \in Pieces : RecvHeader(p)
  \/ RecvPayload \/ StoreStatus \/ CountPiece \/ TakeCallbacks
  \/ \E c \in Clients : RunCallback(c)
  \/ CallbacksDone

-----------------------------------------------------------------------------
(* A worker's handling of one client's piece request.                      *)

Step(c, from, to) ==
  /\ ~crashed
  /\ pc[c] = from
  /\ pc' = [pc EXCEPT ![c] = to]
  /\ UNCHANGED <<storeVars, crashed>>

\* A step that only moves the worker's control point.
Go(c, from, to) ==
  /\ Step(c, from, to)
  /\ UNCHANGED <<callbacks, arbiterVars, ready, taskVars>>

Busy(c) == isBusy[IfaceOf[c]]
Wanted(c) == Requests[c][next[c]]
\* Mutant: the walk over the request runs one index too far.
AfterPieceLate(c) == IF next[c] > Len(Requests[c]) THEN "wait" ELSE "send"

\* Where send_piece returns to while the request is being walked.
AfterPiece(c) == IF next[c] = Len(Requests[c]) THEN "wait" ELSE "send"

\* The client sends its request and a worker reads it. A client whose request
\* was refused tries again; one that was served never asks again.
Request(c) == Go(c, "idle", "acquire")

ReplyBusy(c) == Busy(c) /\ Go(c, "acquire", "idle")

\* The compare-exchange on is_busy succeeds.
AcquireFlag(c) ==
  /\ ~Busy(c)
  /\ Step(c, "acquire", "stamp")
  /\ isBusy' = [isBusy EXCEPT ![IfaceOf[c]] = TRUE]
  /\ UNCHANGED <<callbacks, busySocket, ready, taskVars>>

AcquireStamp(c) ==
  /\ Step(c, "stamp", "avail")
  /\ busySocket' = [busySocket EXCEPT ![IfaceOf[c]] = c]
  /\ UNCHANGED <<callbacks, isBusy, ready, taskVars>>

ReplyNotAvail(c) == avail = 0 /\ Go(c, "avail", "unstamp")

Admit(c) == avail # 0 /\ Go(c, "avail", "send")

\* send_piece finds the piece and writes header and data to the socket.
SendPiece(c) ==
  /\ Step(c, "send", AfterPiece(c))
  /\ Wanted(c) \in have
  /\ sent' = [sent EXCEPT ![c][Wanted(c)] = @ + 1]
  /\ next' = [next EXCEPT ![c] = @ + 1]
  /\ UNCHANGED <<callbacks, arbiterVars, remaining, ready, batch, served>>

\* send_piece does not find the piece: it will have to wait for it.
QueuePiece(c) ==
  /\ Step(c, "send", "register")
  /\ Wanted(c) \notin have
  /\ remaining' = [remaining EXCEPT ![c] = @ \cup {Wanted(c)}]
  /\ UNCHANGED <<callbacks, arbiterVars, next, ready, batch, sent, served>>

\* The second look at piece_status. Mutant: there is none.
NoSecondLook(p) == TRUE
StillMissing(p) == p \notin have

\* register_piece_callback, under callbacks_mutex_: the piece is still missing.
Register(c) ==
  /\ Step(c, "register", AfterPiece(c))
  /\ StillMissing(Wanted(c))
  /\ callbacks' = callbacks \cup {<<Wanted(c), c>>}
  /\ next' = [next EXCEPT ![c] = @ + 1]
  /\ UNCHANGED <<arbiterVars, remaining, ready, batch, sent, served>>

\* register_piece_callback: the piece came in since send_piece looked. The
\* entry is popped and "callback" is called, but callback was moved from by
\* push_back: the std::function is empty, the call throws bad_function_call,
\* nothing in the worker thread catches it and std::terminate ends the process.
RegisterTooLate(c) ==
  /\ ~crashed /\ pc[c] = "register"
  /\ ~StillMissing(Wanted(c))
  /\ crashed' = TRUE
  /\ UNCHANGED <<storeVars, callbacks, arbiterVars, pc, ready, taskVars>>

\* Mutant: the queue is thought empty when nothing is available right now.
NothingReady(c) == ready[c] = {}
QueueEmpty(c) == remaining[c] = {}

\* wait_for_queue, under the context's mutex: nothing left to wait for.
FinishRequest(c) ==
  /\ QueueEmpty(c)
  /\ Step(c, "wait", "unstamp")
  /\ served' = served \cup {c}
  /\ UNCHANGED <<callbacks, arbiterVars, ready, next, remaining, batch, sent>>

\* Mutant: the worker sleeps without looking at availablePieces.
BlockUnchecked(c) == ~QueueEmpty(c) /\ Go(c, "wait", "blocked")

\* cv.wait releases the mutex and sleeps.
Block(c) == ~QueueEmpty(c) /\ ready[c] = {} /\ Go(c, "wait", "blocked")

\* std::condition_variable may wake a waiter nobody notified.
SpuriousWake(c) == Go(c, "blocked", "woken")

\* Mutant: availablePieces is copied, not moved from.
CopyReady(c, from) ==
  /\ Step(c, from, "drain")
  /\ batch' = [batch EXCEPT ![c] = ready[c]]
  /\ UNCHANGED <<callbacks, arbiterVars, ready, next, remaining, sent, served>>

TakeReady(c, from) ==
  /\ Step(c, from, "drain")
  /\ batch' = [batch EXCEPT ![c] = ready[c]]
  /\ ready' = [ready EXCEPT ![c] = {}]
  /\ UNCHANGED <<callbacks, arbiterVars, next, remaining, sent, served>>

\* No need to sleep: something is available already.
TakeAtOnce(c) == ~QueueEmpty(c) /\ ready[c] # {} /\ TakeReady(c, "wait")

TakeAfterWake(c) == TakeReady(c, "woken")

\* One round of the loop over the batch: send the piece, then erase it from
\* remainingPieces. std::set iterates in ascending order. The branch of
\* send_piece for a missing piece is left out: QueuedAreAvailable below.
DrainPiece(c, p) ==
  /\ p \in batch[c] /\ (\A q \in batch[c] : p <= q)
  /\ p \in have
  /\ Step(c, "drain", "drain")
  /\ sent' = [sent EXCEPT ![c][p] = @ + 1]
  /\ batch' = [batch EXCEPT ![c] = @ \ {p}]
  /\ remaining' = [remaining EXCEPT ![c] = @ \ {p}]
  /\ UNCHANGED <<callbacks, arbiterVars, ready, next, served>>

BatchDone(c) == batch[c] = {} /\ Go(c, "drain", "wait")

\* Mutant: release_inter clears is_busy before busy_socket.
ReleaseFlagFirst(c) ==
  /\ Step(c, "unstamp", "free")
  /\ isBusy' = [isBusy EXCEPT ![IfaceOf[c]] = FALSE]
  /\ UNCHANGED <<callbacks, busySocket, ready, taskVars>>

\* ~InterfaceGuard calls release_inter, which asserts that busy_socket is the
\* socket it releases (InterfaceExclusive below).
ReleaseStamp(c) ==
  /\ Step(c, "unstamp", "free")
  /\ busySocket' = [busySocket EXCEPT ![IfaceOf[c]] = NoSocket]
  /\ UNCHANGED <<callbacks, isBusy, ready, taskVars>>

ReleaseFlag(c) ==
  /\ Step(c, "free", IF c \in served THEN "done" ELSE "idle")
  /\ isBusy' = [isBusy EXCEPT ![IfaceOf[c]] = FALSE]
  /\ UNCHANGED <<callbacks, busySocket, ready, taskVars>>

Serve(c) ==
  \/ Request(c) \/ ReplyBusy(c) \/ AcquireFlag(c) \/ AcquireStamp(c)
  \/ ReplyNotAvail(c) \/ Admit(c)
  \/ SendPiece(c) \/ QueuePiece(c) \/ Register(c) \/ RegisterTooLate(c)
  \/ FinishRequest(c) \/ Block(c) \/ TakeAtOnce(c) \/ TakeAfterWake(c)
  \/ (\E p \in Pieces : DrainPiece(c, p)) \/ BatchDone(c)
  \/ ReleaseStamp(c) \/ ReleaseFlag(c)

-----------------------------------------------------------------------------
AllServed == served = Clients
\* Nothing is left to do. Any other state without a step is a deadlock.
Halted ==
  /\ \/ crashed
     \/ dl = "header" /\ have = Pieces /\ \A c \in Clients : pc[c] = "done"
  /\ UNCHANGED vars

Next ==
  \/ Download
  \/ \E c \in Clients : Serve(c) \/ SpuriousWake(c)
  \/ Halted

Spec == Init /\ [][Next]_vars

\* The scheduler runs every thread that can run, upstream goes on sending, and
\* clients that were refused retry. Nobody owes a worker a spurious wakeup.
FairSpec ==
  Spec /\ WF_vars(Download) /\ \A c \in Clients : WF_vars(Serve(c))

-----------------------------------------------------------------------------
\* The types of the state; a worker that walks over its request is inside it.
TypeOK ==
  /\ have \subseteq Pieces /\ filled \subseteq Pieces
  /\ avail \in Nat
  /\ callbacks \subseteq Pieces \X Clients
  /\ dl \in DlPoints /\ cur \in Pieces /\ todo \subseteq Clients
  /\ isBusy \in [Ifaces -> BOOLEAN]
  /\ busySocket \in [Ifaces -> Clients \cup {NoSocket}]
  /\ pc \in [Clients -> Holding \cup {"idle", "acquire", "done"}]
  /\ next \in [Clients -> Nat \ {0}]
  /\ remaining \in [Clients -> SUBSET Pieces]
  /\ ready \in [Clients -> SUBSET Pieces]
  /\ batch \in [Clients -> SUBSET Pieces]
  /\ sent \in [Clients -> [Pieces -> Nat]]
  /\ served \subseteq Clients
  /\ crashed \in BOOLEAN
  /\ \A c \in Clients :
       pc[c] \in {"send", "register"} => next[c] \in 1 .. Len(Requests[c])

\* At most one worker is between acquire_inter and release_inter on an
\* interface, and inside the guard busy_socket names that worker's client, so
\* the assertion of release_inter never fires.
InterfaceExclusive ==
  /\ \A c, d \in Clients :
       /\ IfaceOf[c] = IfaceOf[d]
       /\ pc[c] \in Holding /\ pc[d] \in Holding
       => c = d
  /\ \A c \in Clients : pc[c] \in Guarded => busySocket[IfaceOf[c]] = c

\* A piece is announced, and so sent to a client, only once all its bytes are
\* in the mapped file: send() hands out the mapping itself, without a copy.
NoTornPiece ==
  /\ have \subseteq filled
  /\ \A c \in Clients, p \in Pieces : sent[c][p] > 0 => p \in filled

\* A client is sent no piece twice, whether it was found at once or was queued,
\* and a request that is over has sent every piece it asked for: the client
\* counts total_pieces answers and would otherwise block or stop too early.
SentExactlyOnce ==
  \A c \in Clients :
    /\ \A p \in Pieces : sent[c][p] <= 1
    /\ c \in served =>
         \A i \in DOMAIN Requests[c] : sent[c][Requests[c][i]] = 1

\* Every piece a worker still waits for is on its way to it: in its hands
\* already, or its callback is registered or about to be, is about to be taken
\* by the download thread or about to be called. The check in
\* register_piece_callback, the order of the status store and the taking of
\* callbacks, and the two mutexes together have to give this.
OnItsWay(c, p) ==
  \/ p \in ready[c] \cup batch[c]
  \/ pc[c] = "register" /\ Wanted(c) = p
  \/ <<p, c>> \in callbacks /\ (p \in have => dl \in {"count", "take"} /\ cur = p)
  \/ dl = "notify" /\ cur = p /\ c \in todo
NoLostWakeup == \A c \in Clients : \A p \in remaining[c] : OnItsWay(c, p)

\* wait_for_queue takes what it is handed for available and does not look
\* again, so a callback must never run ahead of the piece's status; and a
\* worker never sleeps over a piece it was handed.
QueuedAreAvailable ==
  \A c \in Clients :
    /\ ready[c] \cup batch[c] \subseteq have
    /\ pc[c] = "blocked" => ready[c] = {}

\* The inductive invariant of the safety proofs: the properties above, and the
\* facts about single threads they rest on.
ArbiterInv == \A c \in Clients : pc[c] \in Holding => Busy(c)
DownloadInv ==
  /\ dl = "status" => cur \in filled
  /\ dl \in {"count", "take", "notify"} => cur \in have
  /\ \A c \in Clients, p \in Pieces : sent[c][p] > 0 => p \in have
WorkerInv ==
  \A c \in Clients :
    /\ pc[c] # "drain" => batch[c] = {}
    /\ \/ pc[c] \in {"idle", "acquire", "stamp", "avail", "send", "register"}
       \/ pc[c] \in {"unstamp", "free"} /\ c \notin served
       => next[c] \in 1 .. Len(Requests[c])
IndInv ==
  /\ TypeOK /\ ArbiterInv /\ InterfaceExclusive
  /\ DownloadInv /\ WorkerInv
  /\ NoTornPiece /\ QueuedAreAvailable /\ NoLostWakeup

\* The comment in register_piece_callback ("handle lost wakeup cases ...
\* Execute callback"): the case is handled, the process goes on.
LostWakeupHandled == ~crashed

\* Every client that keeps asking is served in full, unless the process aborts.
ServedUnlessAborted == <>(crashed \/ AllServed)

\* What the clients see of the threads.
Service == INSTANCE PieceService WITH
  Asked <- [c \in Clients |-> {Requests[c][i] : i \in DOMAIN Requests[c]}],
  arrived <- have,
  delivered <- [c \in Clients |-> {p \in Pieces : sent[c][p] > 0}],
  serving <- {c \in Clients : pc[c] \in Serving},
  finished <- served,
  up <- ~crashed

\* Every behaviour of the threads is one PieceService allows: no client is
\* admitted to an interface in use, none is sent a piece that has not arrived,
\* and none is let go before it has all it asked for.
ImplementsService == Service!Spec
=============================================================================
