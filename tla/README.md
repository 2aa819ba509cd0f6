# FloodClone in TLA+

FloodClone copies one file from a source to every other node of a network. A
destination asks a neighbour for the whole file, and serves the pieces it
already has to its own neighbours while the rest is still arriving. This
directory holds a model of that program in TLA+, the TLC runs that check it on
small instances, and proofs, checked by TLAPS, that do not depend on the size
of the instance.

`CM`, `FM`, `FC` and `TP` stand for `ConnectionManager.cpp`, `FileManager.cpp`,
`FloodClone.cpp` and `ThreadPool.cpp` in `src/floodclone/src`. `PROJECT.json`
maps every definition to the lines it models.

## 1. The system

| Component | State | Operations | Talks to |
|---|---|---|---|
| FloodClone (`FC`) | `ip_map`, `network_map`, `completed_nodes_`, `is_listening_`, the threads it started | `setup_net_info`, `find_immediate_neighbors`, `get_ip`; `start`: metadata, retry loop over the neighbours, completion barrier, shutdown | everything below; other nodes' completion ports |
| ConnectionManager, serving (`CM` 341-482) | one `RequestContext` per request: `availablePieces`, `remainingPieces`, a mutex and a condition variable | `process_piece_request`, `send_piece`, `wait_for_queue`, `process_meta_request` | FileManager's status and callbacks; the arbiter; a client's socket |
| ConnectionManager, arbiter (`CM` 575-649) | `is_busy`, `busy_socket` per interface; socket to interface map | `acquire_inter`, `release_inter`, `update_inter` | one caller per pool worker, and the listener |
| ConnectionManager, requesting (`CM` 184-235, 310-339, 485-572) | connection cache | `connect_to`, `request_metadata`, `request_pieces` | another node's listener; FileManager |
| ConnectionManager, listener (`CM` 31-182) | epoll set, `wake_fd_`, `isListening_` | `start_listening`, `stop_listening` | enqueues on the ThreadPool; stopped by `start` |
| FileManager (`FM`) | `piece_status`, `available_pieces_`, `piece_callbacks_`, the mapped file | `update_piece_status`, `register_piece_callback`, `has_piece`, `send`, `receive`, `reconstruct`, `clean_up` | called by the download thread and by the workers; calls the workers' callbacks |
| ThreadPool (`TP`) | queue, `active_tasks`, `stop` | `enqueue`, `wait`, `join`, the worker loop | listener enqueues, main waits, workers run |
| Wire formats (headers) | none | `serialize`, `deserialize` of `PieceRequest`, `FileMetaData`, `PieceMetaData` | written and read by ConnectionManager on either side |
| Python (`controller.py`, `agent.py`) | processes on Mininet hosts | start the nodes one by one, wait for the timestamp file | FloodClone's command line and timestamp file |

**How they interact.** A node runs a main thread, which is also the download
thread of a destination, a listener thread, a completion thread and six pool
workers. The listener turns a readable connection into a pool task, the task
serves a request, and arms the connection again. A worker that misses a piece
registers a callback and sleeps; the download thread stores the piece, marks it
and calls the callbacks. Between nodes there are TCP connections for requests
and, on a second port, connections whose only meaning is "I have the file".

**What is hard about it.**

* *Lost wakeups.* `send_piece` looks, then registers; `update_piece_status`
  marks, then takes the callbacks; `wait_for_queue` waits without a predicate.
* *Exclusion without a lock.* An interface is held by two atomics that are
  written one after the other.
* *Zero copy.* `send` hands out the mapping that the download thread fills and
  that `reconstruct` cuts.
* *A shared buffer.* The padded last piece is built in one static string, which
  every worker sizes, fills and sends without a lock.
* *A small pool.* A request that waits for pieces keeps its worker, and
  everything else waits behind it in the queue.
* *Failures.* A destination that gives up leaves the others with a count that
  is never reached.
* *Circles.* Every node is both client and server; two nodes that wait for each
  other's pieces would wait for ever.
* *Barriers.* `wait()`, `join()` and the completion count are all that keeps the
  mapping and the objects alive while others use them.
* *One-shot events.* Between an answer and the re-arming nobody watches the
  connection.
* *Ends.* Closing clients, stopping a listener that sleeps in `epoll_wait`,
  joining a thread that sleeps in `accept`, nodes that start late.

What makes each part correct:

| Part | Property |
|---|---|
| serving | every piece asked for is sent once, whole, and no request waits for a piece that is there |
| arbiter | one request at a time per interface, and `release_inter`'s assertion holds |
| piece store | a piece is announced only when its bytes are in place, callbacks come after the status and none is forgotten |
| start and retry loop | everybody gets the file, and downloads form a tree |
| file and wire | the copy has the source's bytes, nobody reads outside the file, a client counts the answers it will get, metadata is the same on every node |
| pool of a serving node | sleeping workers leave one for metadata, and `wait` returns |
| completion | nobody unmaps the file while another downloads, and everybody leaves in the end |
| listener | one worker per connection, no request forgotten, `stop_listening` ends it |
| ThreadPool | no task waits for a busy worker while another sleeps, `wait` is a barrier, `join` drains |

## 2. The modules

| Module | Models |
|---|---|
| `PieceServer` | one relaying node: download thread and one worker per client; `ImplementsService` is its refinement of `PieceService` |
| `PieceService` | the abstract promise of a relaying node |
| `MCPieceServer` | instance of `PieceServer` |
| `PieceServerProofs` | safety of `PieceServer`, and its refinement |
| `PooledServer` | the same node with more clients than pool workers, one step per operation; refines `PieceService` too |
| `MCPooledServer` | its instance |
| `PooledServerProofs` | safety of `PooledServer`, and its refinement |
| `FileGeometry` | pieces, offsets, the last piece, as operators |
| `Wire` | the messages and their codecs, the count of a request's answers |
| `WireProofs` | the codecs are inverse, and both ends count alike |
| `Transfer` | the bytes of a file on their way down a tree of nodes; extends both |
| `MCTransfer` | its two trees |
| `TransferProofs` | the geometry, and safety of `Transfer` |
| `Routing` | neighbours and addresses from the controller's maps, as operators |
| `Swarm` | all nodes of a run, from the first connection to the last piece; `NodesServe` is each node's refinement of `PieceService` |
| `MCSwarm` | a switch and a chain, their neighbours computed by `Routing` |
| `SwarmProofs` | pieces flow down, no circles, one upstream, every node serves |
| `Completion` | the completion barrier and the end of `start` |
| `CompletionProofs` | safety of `Completion` |
| `ThreadPool` | queue, workers, `wait`, `join` |
| `ThreadPoolProofs` | safety of `ThreadPool` |
| `Listener` | epoll loop, request tasks, stopping, clients that come and go |
| `ListenerProofs` | safety of `Listener` |

`PieceService` joins the levels: `PieceServer` implements it thread by thread,
`PooledServer` with a bounded pool, and in `Swarm`, where a node's inside is
gone, every node behaves as it allows. The instances that map their variables
to those of `PieceService` are named `Service` in the first two, and `At(s)`,
one per node, in `Swarm`.

### PieceServer

A step is one access to shared state, or one critical section with the local
work around it.

| State | Code |
|---|---|
| `have`, `avail`, `callbacks` | `piece_status`, `available_pieces_`, `piece_callbacks_` |
| `filled` | pieces whose `receive_all` into the mapping has returned |
| `dl`, `cur`, `todo` | the download thread inside `request_pieces` and `update_piece_status`; `todo` is the vector of callbacks it moved out |
| `isBusy`, `busySocket` | `InterfaceState` |
| `pc`, `next`, `remaining`, `ready`, `batch` | a worker's place, its position in the request, and its `RequestContext` |
| `sent`, `served`, `crashed` | history: what was written to each socket, finished requests, an abort |

`RecvHeader`, `RecvPayload`, `StoreStatus`, `CountPiece`, `TakeCallbacks`,
`RunCallback`, `CallbacksDone` are the download thread in order. `Request`,
`AcquireFlag`, `AcquireStamp`, `ReplyBusy`, `ReplyNotAvail`, `Admit`,
`SendPiece`, `QueuePiece`, `Register` (or `RegisterTooLate`), `Block`,
`TakeAtOnce`, `TakeAfterWake`, `DrainPiece`, `BatchDone`, `FinishRequest`,
`ReleaseStamp`, `ReleaseFlag` are a worker. `RegisterTooLate` is the branch that
calls the moved-from callback and ends the process. A condition variable may
wake spuriously.

Pieces are atoms; their bytes, offsets and padding are in `Transfer`. Each client
has a worker of its own; the pool's limit is in `PooledServer`. Connections do
not fail; `Listener` has that.

### PooledServer

The queue of `ThreadPool` holds the requests; `worker[c]` is what the worker that
has client c's request is doing, so that `active_tasks` is the number of clients
with a worker. A worker that has sent what there is and still owes pieces is
`blocked`, and stays a busy worker. `BUSY_RES` and `NOT_AVAIL_RES` end the task,
and the client asks again, as `start` does. `main` is the download and the
`thread_pool.wait()` after it. Looking for a piece and registering for it is one
step here, since `PieceServer` shows that no wakeup is lost between them.

### FileGeometry, Wire and Transfer

A file is the sequence of its bytes, all different at the source. `Wire` writes
numbers and characters as cells of a stream, so that a reader that takes a field
for longer or shorter than it is goes astray as it would in the code; how many
bytes a number takes, and their order, is left out. `PieceRequest`'s flags are
the set of fields that are there. `SizeMod` is the width of `size_t`.

In `Transfer`, `InitializeSource`, `GetMetadata`, `RequestPieces`, `Receive`,
`AllReceived`, `Reconstruct` and `CleanUp` are a node's main thread, each the
whole of the function of that name in `FM` or `CM`, or the piece of `start`
around it. The worker that serves a client goes through the request (`SendNext`,
`QueueNext`), then waits for what is late (`SendLate`); the client may ask for
the whole range, as `start` does, or for a mixture of single piece, range and
list. `FileManager::send` is `SendPiece` up to the decision to pad; then come
the steps of `padded_piece.resize` that share memory (`TestSize`,
`TestCapacity`, `Allocate`, `FillZero`), the two copies (`Pad`) and the sending
(`WriteAnswer`), which reads through the view: the node's own mapping, cut or
not, or the buffer, freed or not. `raced` remembers at which nodes two workers
have been inside the first `resize` together. The data race is undefined
behaviour; the model has the outcomes of a build that does these steps in this
order, with a freed buffer read as junk. A second allocation that frees twice,
and so ends the process, is not among them.

The source keeps its file mapped, as in `start`; a destination unmaps it when
every destination is complete, which is what `Completion` shows.

### Swarm

`phase` is how far `start` has come, `asking` the index in the retry loop,
`upstream` the neighbour that took the request, `slot` the holder of each
interface. The order of the neighbours is that of an `unordered_map`; the
instances use the order libstdc++ produces for those names, inserted as
`setup_net_info` does, obtained by compiling that loop, and computed from it by
`Routing`'s `find_immediate_neighbors`. Which interface a client's connection
comes in on follows from `get_ip` (the address on the server's own route back)
and from `getsockname` on the accepted socket (`AcceptedOn`); an assumption of
`MCSwarm` ties the table to it. A request takes one
step: the answer (BUSY, NOT_AVAIL or accepted) is given as in
`process_piece_request`. `GiveUp` is `connect_to` running out of attempts, on
which `request_metadata` asserts.

### Completion

Each node has a `main` thread from the end of its download to its exit, and an
`acceptor`, the completion thread. A notification is a connection: it lands in
`backlog` or, when nobody listens, is dropped, and `notify_completion` goes on.
A destination may fail in its download: `start`'s catch block stops the listener
and rethrows, and since `completion_thread_` is still joinable, the destructor
of `FloodClone` calls `std::terminate` before `main` can report the error. Both
ends leave the others waiting; the specification says so by what
`AllLeaveUnlessFailed` excepts.

### ThreadPool

A step is one critical section of `queue_mutex`, one notification, or the end of
a task. `notify_one` may wake any sleeper. The listener enqueues until it ends;
the main thread calls `wait()` at any time, `join()` after the listener has
ended, as `start` and the destructors do.

### Listener

The listener's control points are the tests and calls of `start_listening`;
`conn` says whether a connection is not yet accepted, armed, disarmed by
EPOLLONESHOT, reported together with a hang-up, or closed. `tasks[c][s]` counts
the tasks of a connection, so that more than one could show. Clients send one
request, wait for the answer, and may close, or reset, whenever they like. An
exception in a worker is `aborted`: the pool's loop has no handler. A
descriptor's number is not reused here, and a request takes one step to read and
one to answer.

## 3. The runs

| Run | Module | Shows | Bounds |
|---|---|---|---|
| `relay` | MCPieceServer | no piece torn, sent twice, or waited for in vain; interfaces exclusive; all clients served unless the process aborts; implements PieceService | 3 clients, 2 interfaces, 3 pieces |
| `relay_abort` | MCPieceServer | **violated**: the lost-wakeup branch aborts the process | 1 client, 2 pieces |
| `swarm` | MCSwarm | transfers form a tree; all get the file unless a process gives up; every node keeps to PieceService | 5 nodes, 2 pieces |
| `swarm_chain` | MCSwarm | **violated**: in a chain the file does not arrive | 4 nodes, 2 pieces |
| `thread_pool` | ThreadPool | no task left behind, `wait` a barrier, `join` drains, both return | 3 workers, 3 tasks |
| `completion` | Completion | nobody leaves early, whoever fails; only absent nodes miss a notification; otherwise all leave | 3 nodes |
| `completion_hang` | Completion | **violated**: a node hangs in the join of its completion thread | 2 nodes |
| `listener` | Listener | one worker per connection, no blind read, no request forgotten, stopping ends the loop | 2 clients, 2 events a batch, 2 requests each |
| `listener_peer_close` | Listener | **violated**: a client that closes ends the serving process | 1 client |
| `transfer` | MCTransfer | metadata, requests and bytes arrive as they were sent; nobody reads outside the file; copies are exact but for the race | relay and 2 leaves, files of 0, 1, 3, 4, 5 bytes, pieces of 2, 1 answer in flight |
| `padded_race` | MCTransfer | **violated**: a client gets a wrong last piece | 2 clients, 3 bytes |
| `pooled` | MCPooledServer | sleepers bounded by interfaces, metadata always answered, all served and `wait` returns; implements PieceService | 4 clients, 2 interfaces, 3 workers, 2 pieces |

**Why these bounds.** *relay*: two clients on one interface contend, the third
is served at the same time, so that two callbacks for one piece exist; with
three pieces a worker has one in its batch, one handed to it and one still
missing. *swarm*: three destinations at
one switch can try every circle among them, a fourth has only a relay to ask.
Two pieces are enough for a node to have some and not all. *thread_pool*: a
worker asleep, one running and one in between, and as many tasks as workers; any
number is covered by the proofs. *completion*: two destinations are the least
for one to finish before the other starts or fails. *transfer*: no piece, a
single padded one, a padded one after whole ones, no padding, and three pieces,
so that the mixture's range is not empty; two leaves below the relay are the
least that race, and what the relay has received wrong goes on to them. A field
of three cells cuts the last character off an address of three, as 15 does with
15; counts modulo 8 are enough for three pieces. *pooled*: more clients than
workers, fewer interfaces than workers, and with three clients on one interface
a refused one to compete with. *listener*: with two clients, the
wakeup and new connections, a batch of two cannot hold all that is ready; a
second request is what can be forgotten between answer and re-arming.

**Deadlock** is checked in the `relay` runs, in `swarm` and in `transfer`, whose
ends are explicit stuttering steps, and in `thread_pool` (`Terminated`). Every
step of `transfer` but that one uses something up (pieces to send, answers to
receive, phases), so that the absence of deadlock is all there is to its
termination; it states no fairness. In `pooled` the download may stop for good
and all clients may be served, which is the end. In `completion`
a node that waits in `accept` for ever is what the code does, and
`completion_hang` is about it; in `swarm_chain` everybody has given up; in
`listener` clients have no more requests to send. These say
`CHECK_DEADLOCK FALSE`.

**Fairness.** Weak fairness of each thread's steps: the operating system runs
every thread that can run, and a connection that is up delivers what was sent.
`relay` assumes that upstream goes on sending and that refused clients ask
again, which is the retry loop of `start`; `pooled` assumes the latter and
nothing of upstream: that its download ends is the premise of
`AllServedOnceDownloaded`, and `MetadataAnswered` does without. Nothing is assumed of spurious
wakeups, of `GiveUp` in `swarm`, of clients and of the call to `stop_listening`
in `listener`, of failures in `completion`, or of calls to `enqueue`, `wait` and `join`. Strong fairness is
not used: a refused client finds a free interface in the end because the
transfers before it end. In `swarm_chain`, `PatientSpec` makes attempts to
connect run out only when nobody has anything else to do: 100000 attempts, a
millisecond apart, are not used up by a node that is merely slow, and the file
does not arrive all the same.

**Mutants.** Every property of every passing run has a mutant of the code that
breaks it, named next to the definition it replaces: among them a status stored
before the bytes, a batch copied and not moved, a missing second look, flags
cleared in the wrong order, a connection that stays armed or is not re-armed, a
range that ends one too early or too late, a copy that takes a whole piece, an
interface nobody looks at, a count off by one.

## 4. The proofs

All hold for any values of the constants under the assumptions the modules
state: finite sets of nodes and of workers where they are counted, at least one
piece, requests without repetition, neighbours that are nodes, pieces of at
least one byte, files whose size fits `size_t`. Every safety property and every
refinement that a passing run checks is stated by a theorem.

| Module | Theorems |
|---|---|
| `PieceServerProofs` | `Inductive`, `TypeCorrect`, `ExclusiveInterfaces`, `NothingTorn`, `QueuedPiecesAvailable`, `WakeupsKept`, `Accounted`, `SentOnce`, `NodeImplementsService` |
| `PooledServerProofs` | `Inductive`, `TypeCorrect`, `FewSleepers`, `PoolImplementsService` |
| `SwarmProofs` | `Inductive`, `TypeCorrect`, `FlowsDown`, `NoCycle`, `OneUpstream`, `EveryNodeServes` |
| `CompletionProofs` | `Inductive`, `TypeCorrect`, `BarrierHolds`, `RefusedByAbsent` |
| `ThreadPoolProofs` | `Inductive`, `TypeCorrect`, `NoneLeftBehind`, `Drained`, `Barrier` |
| `ListenerProofs` | `Inductive`, `TypeCorrect`, `OneTask`, `NeverBlind` |
| `WireProofs` | `FileCodec`, `RequestCodec`, `WholeWalk`, `MixedWalk`, `CountIsWalk`, `WholeAndMixedCount` |
| `TransferProofs` | `PiecesTile`, `Inductive`, `TypeCorrect`, `MetadataReaches`, `AnswersAddUp`, `ReadsInside`, `ContentRight` |

The modules about a component have an invariant, `IndInv` or `Inv`, shown to
hold initially and to be kept by every step.

* **PieceServer.** `NoLostWakeup` is not inductive alone: whether a registered
  callback is called depends on where the download thread is
  (`DownloadInv`: from the status store until the callbacks are called, `cur`
  has its status), on what a worker has in its hands (`WorkerInv`), and on the
  index into the request being inside it, for which the type invariant needs
  `WorkerInv` in turn. Exclusion rests on `ArbiterInv`: whoever is between
  acquiring and releasing has `is_busy` set. `SentExactlyOnce` needs an account of
  where every piece of a request is (`AccountInv`): not yet walked over, waiting
  in the callback table, with the download thread, handed over, in the batch, or
  sent, and in one of these places only. The refinement follows from it: a piece
  that is sent was asked for and not sent before, and a request ends with all of
  it sent. `todo` and `cur` matter here, since between `TakeCallbacks` and
  `RunCallback` a piece is in neither the table nor a context.
* **PooledServer.** `QueueInv`: a request that waits is one task in the queue or
  has one worker, never both. `HolderInv`: an interface is held by the client
  whose worker is past its admission, so that sleeping workers map one to one
  into the interfaces. Every step is one of `PieceService`, with those being
  served as `serving`, or none.
* **Swarm.** `PhaseInv` says that a node nobody has accepted has no piece, and
  that an accepted node has an upstream with a piece. A circle would have to be
  closed by the step that accepts its last node; that node has no piece yet, so
  it is nobody's upstream. This is the argument that NOT_AVAIL suffices.
  `PiecesFlowDown` says besides that the upstream has all its client has, and
  keeps its interface for that client until the end. For `NodesServe`, `SlotInv`
  says that whoever holds a slot at a node has it as its upstream, so that a
  client never changes sides while it is served.
* **Completion.** A notification is an anonymous connection; the barrier is
  right because nobody can send two. `NotifiedInv` has a notification that was
  refused stay refused, and `TallyInv` bounds what a node has counted, has in
  hand and has in its backlog by the number of destinations that have called it.
  A full count is then a call from every other destination, each of which has
  written its timestamp (`PhaseInv`); `LeftInv` keeps the count for those who
  have left. Failures and late starts only make the count smaller.
* **ThreadPool.** `CountInv`: `active_tasks` is the number of workers that have
  a task or have yet to subtract theirs. With `OwedInv` (what was in the pool at
  the call of `wait()` is still there or has run) this gives the barrier. That
  no task is left behind is a count: each queued task is matched by a worker
  about to look at the queue or by the notification still to be given, as long
  as any worker sleeps.
* **Listener.** `ArmedInv`: a connection that can be reported has no task and no
  event pending. `EventInv`: an event is about something that can be read and
  that only a task of that connection takes away.

* **Wire.** Readers take one element after the other (`Many`), writers put
  elements together (`FlattenSeq`). The induction over the elements goes by a
  least counterexample: the numbers at which two functions agree are a set, and
  a set that has 0 and with every number the next has them all (`NatInd`, from
  `WFMin`). After i elements a reader has the first i values, and the rest of
  the stream is what the writer made of the others (`Sofar`, `RestSplit`). From
  this `FileCodec` and `RequestCodec`: deserialize is the inverse of serialize
  for every file and every request. The client's count is the number of pieces
  the server goes through (`CountIsWalk`), for every request whose ranges end
  no more than one before they start and whose number of pieces fits `size_t`:
  both are sums over the ranges, and no partial sum exceeds the whole
  (`Rising`). For the two requests that are used, the server's walk is every
  piece once and in order.
* **Transfer.** `Inv` has the lengths of the files (whole pieces until
  `reconstruct`, the file's size afterwards), a piece in one place of a request
  (`Once`), nothing on its way to a node that is not receiving (`Quiet`), no
  unmapping before everybody is complete (`Barrier`), and where the padded
  string's data can be (`Padding`). It needs the codecs for the metadata and the
  walk for `AnswersCounted`. `NothingReadOutside` follows since a worker that
  has a piece in hand has a client that is still receiving, so that its node is
  mapped, and reads at most up to the file's size, which `reconstruct` leaves.
  `RightInv` is for the content. `SizesAt(s)`: unless two workers of s were in
  the first `resize` together, one at most is making the string longer while
  nobody has a view of it; once it has its length it is never moved, and all
  workers write the same bytes of the same last piece into it. `FilesRight` and
  `AnswersRight` carry the bytes from file to wire to file: an answer is written
  to its own slice (`OneSlice`), and what excuses a node excuses those below it
  (`AboveStep`). The tree may have any shape.

TLC has checked the inductive invariants on the instances of the runs before
they were proved; `RightInv` and `Inv` on those of `transfer`.

**Only model-checked:** liveness (`ServedUnlessAborted`, `AllDownloaded`,
`EveryTaskRuns`, `CallsReturn`, `NoRequestStranded`, `StopReturns`,
`MetadataAnswered`, `AllServedOnceDownloaded`, `AllLeaveUnlessFailed`) and the
absence of deadlock, which are out of this prover's reach; and `Routing`, whose
results are checked by the assumption in `MCSwarm`.

## 5. Findings

* **The lost-wakeup branch aborts** (`FM` 340-346, run `relay_abort`): the
  callback has been moved into the table when it is called.
* **The file does not reach the end of a chain** (`FC` 210, `swarm_chain`): only
  the first neighbour is asked for the metadata, and a node listens only once it
  has it; two nodes can be each other's first.
* **Nodes hang at their end** (`FC` 313, `completion_hang`): the completion
  thread is joined before the socket it waits on is closed; it only returns if
  it had not yet tested the flag again after the last notification.
* **A client that closes ends its server** (`CM` 282, `listener_peer_close`):
  the end of the connection is an exception that nothing catches.

* **Clients can get a wrong last piece** (`FM` 277-281, `padded_race`): two
  workers that size the shared string together. `ContentUnlessRaced` in
  `transfer` shows that this is the only way the copy can differ: once the
  string has its size, workers write the same bytes over each other.

Three observations without a run of their own. A node that is started after
another has finished misses its notification, because a refused one is not
repeated (`FC` 420), and waits for ever: `DroppedOnlyByAbsent` and the exception
in `AllLeaveUnlessFailed` say so. The source's timestamp file, which `agent.py`
takes for the sign that it has finished, is written when it starts (`FC` 167).
And a request that names a piece twice would be counted twice by the client but,
if it has to wait for that piece, answered once (`CM` 362, 528); `start` makes no
such request.

## 6. Not modelled

* *Reuse of descriptor numbers* after the listener closes one, and the
  connection cache, in which `connect_to` keeps the first connection to each
  address and port: requests to one neighbour use one connection throughout.
* *A listener that is stopped before its loop has begun* (`CM` 33), which hangs.
* *The bytes of a number*, `RequestHeader`'s padding and the 32 bits of its
  `payloadSize`: both ends are the same build.
* *Errors of system calls* other than those named above.
* *Dead code*: `deconstruct`, `split`, `save_metadata`, `close_connection`, and
  `FileMetaData::deserialize` from a string have no caller in the program.
* *`main`, argument parsing, Python topology and utilities*: straight-line I/O.

## 7. Plan

Done: all modules above, and the proofs of every safety property and refinement
that a passing run checks.

What could come next:

1. `PooledServer` as a refinement of `ThreadPool`: `queue` maps to `tasks`, and
   the clients with a worker to `active_tasks`.
2. The arbiter of `Swarm` and that of `PieceServer`, by one abstract
   specification of an interface.
