---------------------------- MODULE PooledServer ----------------------------
(***************************************************************************)
(* A node that serves more clients than its ThreadPool has workers. The    *)
(* listener queues every request as a task; a worker that takes a piece    *)
(* request keeps it until the client has all pieces, and sleeps while none *)
(* of those it still owes has arrived. Requests for metadata, and those    *)
(* that are only told BUSY or NOT_AVAIL, wait in the same queue. The main  *)
(* thread, its download done, waits for the pool to be idle.               *)
(*                                                                         *)
(* The threads of one request are PieceServer, those of the pool are       *)
(* ThreadPool; here each of their operations is one step, and a worker is  *)
(* known by the client whose request it has.                               *)
(***************************************************************************)
EXTENDS Integers, FiniteSets, Sequences

CONSTANTS
  threads,    \* the number of workers
  Clients, Pieces,
  IfaceOf,    \* the interface each client is reached through
  NoClient    \* nobody

Ifaces == {IfaceOf[c] : c \in Clients}

ASSUME PoolAssumption == threads \in Nat \ {0} /\ IsFiniteSet(Clients)
ASSUME NoClientAssumption == NoClient \notin Clients

VARIABLES
  asks,    \* what each client asks for next; or it waits, or has all
  queue,   \* tasks: the requests queued, as <<client, type>>
  worker,  \* what the worker that has the client's request is doing
  holder,  \* the client that holds each interface
  have,    \* pieces that have arrived
  sent,    \* pieces sent to each client
  main     \* the main thread: still downloading, waiting, or past the wait

vars == <<asks, queue, worker, holder, have, sent, main>>

Init ==
  /\ asks = [c \in Clients |-> "META_REQ"]
  /\ queue = << >>
  /\ worker = [c \in Clients |-> "none"]
  /\ holder = [i \in Ifaces |-> NoClient]
  /\ have = {} /\ main = "download"
  /\ sent = [c \in Clients |-> {}]

active_tasks == Cardinality({c \in Clients : worker[c] # "none"})

-----------------------------------------------------------------------------
\* A piece arrives, in whatever order upstream sends them.
Arrive(p) ==
  /\ p \notin have
  /\ have' = have \cup {p}
  /\ UNCHANGED <<asks, queue, worker, holder, sent, main>>

\* A client sends a request, and the listener queues the task for it.
SendRequest(c) ==
  /\ asks[c] \in {"META_REQ", "PIECE_REQ"}
  /\ queue' = Append(queue, <<c, asks[c]>>)
  /\ asks' = [asks EXCEPT ![c] = "waits"]
  /\ UNCHANGED <<worker, holder, have, sent, main>>

\* Mutant: a worker more than there are.
OneMoreWorker == active_tasks <= threads
IdleWorker == active_tasks < threads

\* An idle worker takes the task at the front of the queue.
TakeTask ==
  /\ queue # << >> /\ IdleWorker
  /\ worker' = [worker EXCEPT ![Head(queue)[1]] = Head(queue)[2]]
  /\ queue' = Tail(queue)
  /\ UNCHANGED <<asks, holder, have, sent, main>>

-----------------------------------------------------------------------------
(* The worker that has client c's request.                                 *)

WorkerGoes(c, from, to) ==
  /\ worker[c] = from /\ worker' = [worker EXCEPT ![c] = to]
  /\ UNCHANGED <<queue, have, main>>

\* The task ends, and the client goes on to what it asks for next.
EndTask(c, from, next) ==
  /\ WorkerGoes(c, from, "none")
  /\ asks' = [asks EXCEPT ![c] = next]
  /\ UNCHANGED sent

AnswerMetadata(c) == EndTask(c, "META_REQ", "PIECE_REQ") /\ UNCHANGED holder

\* Mutant: the interface is not looked at.
AnyTime(c) == TRUE
InterfaceFree(c) == holder[IfaceOf[c]] = NoClient

\* acquire_inter fails, or there is no piece yet: BUSY_RES or NOT_AVAIL_RES,
\* and the client asks again.
Refuse(c) ==
  /\ ~InterfaceFree(c) \/ have = {}
  /\ EndTask(c, "PIECE_REQ", "PIECE_REQ")
  /\ UNCHANGED holder

Admit(c) ==
  /\ InterfaceFree(c) /\ have # {}
  /\ WorkerGoes(c, "PIECE_REQ", "send")
  /\ holder' = [holder EXCEPT ![IfaceOf[c]] = c]
  /\ UNCHANGED <<asks, sent>>

Sendable(c) == have \ sent[c]

SendPiece(c, p) ==
  /\ p \in Sendable(c)
  /\ WorkerGoes(c, "send", "send")
  /\ sent' = [sent EXCEPT ![c] = @ \cup {p}]
  /\ UNCHANGED <<asks, holder>>

\* Mutant: the request is over when there is nothing to send right now.
ServedSoFar(c) == Sendable(c) = {}
Served(c) == sent[c] = Pieces

\* wait_for_queue: none of the pieces still owed has arrived.
Block(c) ==
  /\ Sendable(c) = {} /\ ~Served(c)
  /\ WorkerGoes(c, "send", "blocked")
  /\ UNCHANGED <<asks, holder, sent>>

\* Mutant: a sleeper is never woken.
NotWoken(c) == FALSE
Woken(c) == Sendable(c) # {}

\* A callback has made a piece available.
Wake(c) ==
  /\ Woken(c)
  /\ WorkerGoes(c, "blocked", "send")
  /\ UNCHANGED <<asks, holder, sent>>

\* All pieces are sent: ~InterfaceGuard.
Finish(c) ==
  /\ Served(c)
  /\ EndTask(c, "send", "nothing")
  /\ holder' = [holder EXCEPT ![IfaceOf[c]] = NoClient]

Work(c) ==
  \/ AnswerMetadata(c) \/ Refuse(c) \/ Admit(c)
  \/ (\E p \in Pieces : SendPiece(c, p)) \/ Block(c) \/ Wake(c) \/ Finish(c)

-----------------------------------------------------------------------------
(* start(): the download is over, then thread_pool.wait() returns.         *)

Downloaded ==
  /\ main = "download" /\ have = Pieces /\ main' = "wait"
  /\ UNCHANGED <<asks, queue, worker, holder, have, sent>>

WaitReturns ==
  /\ main = "wait" /\ queue = << >> /\ active_tasks = 0
  /\ main' = "reconstruct"
  /\ UNCHANGED <<asks, queue, worker, holder, have, sent>>

Next ==
  \/ \E p \in Pieces : Arrive(p)
  \/ TakeTask
  \/ \E c \in Clients : SendRequest(c) \/ Work(c)
  \/ Downloaded \/ WaitReturns

Spec == Init /\ [][Next]_vars

\* Clients go on asking and every thread runs. Nothing is assumed of upstream:
\* the download may stop for good.
FairSpec ==
  /\ Spec
  /\ WF_vars(TakeTask) /\ WF_vars(Downloaded) /\ WF_vars(WaitReturns)
  /\ \A c \in Clients : WF_vars(SendRequest(c)) /\ WF_vars(Work(c))

-----------------------------------------------------------------------------
\* The types of the state; a client waits for a request that is in the queue,
\* once, or that a worker has.
TypeOK ==
  /\ asks \in [Clients -> {"META_REQ", "PIECE_REQ", "waits", "nothing"}]
  /\ worker \in [Clients -> {"none", "META_REQ", "PIECE_REQ", "send", "blocked"}]
  /\ holder \in [Ifaces -> Clients \cup {NoClient}]
  /\ have \subseteq Pieces /\ sent \in [Clients -> SUBSET Pieces]
  /\ main \in {"download", "wait", "reconstruct"}
  /\ active_tasks <= threads
  /\ \A c \in Clients :
       Cardinality({i \in DOMAIN queue : queue[i][1] = c})
       = IF asks[c] = "waits" /\ worker[c] = "none" THEN 1 ELSE 0

\* The workers that sleep over missing pieces are no more than the interfaces:
\* the arbiter bounds them, the pool does not. With fewer interfaces than
\* workers one is always left for metadata and refusals.
SleepersBounded ==
  \A c, d \in Clients :
    worker[c] = "blocked" /\ worker[d] = "blocked" /\ IfaceOf[c] = IfaceOf[d] => c = d

\* However long the download stalls, and whoever waits for its pieces, a client
\* that asks for the metadata gets it, if interfaces are fewer than workers.
MetadataAnswered ==
  Cardinality(Ifaces) < threads =>
    \A c \in Clients : <>(asks[c] = "PIECE_REQ")

\* If the download ends, every client gets all pieces, however few workers there
\* are, and the main thread gets past its wait.
AllServedOnceDownloaded ==
  <>[](have = Pieces) =>
    <>(main = "reconstruct" /\ \A c \in Clients : asks[c] = "nothing")

\* What the clients see of the pool.
Service == INSTANCE PieceService WITH
  Asked <- [c \in Clients |-> Pieces],
  arrived <- have,
  delivered <- sent,
  serving <- {holder[i] : i \in Ifaces} \ {NoClient},
  finished <- {c \in Clients : asks[c] = "nothing"},
  up <- TRUE

\* What the pool of workers does is what PieceService allows, and so what a
\* worker for each client would do.
ImplementsService == Service!Spec
=============================================================================
