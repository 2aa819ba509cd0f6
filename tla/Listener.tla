------------------------------ MODULE Listener ------------------------------
(***************************************************************************)
(* The listener of a serving node: start_listening waits in epoll for new  *)
(* connections and requests and hands each request to the pool; a worker   *)
(* answers it and arms the connection again; the main thread ends it all   *)
(* with stop_listening and a join. Clients connect, send one request after *)
(* another and may go away at any time.                                    *)
(*                                                                         *)
(* What a request does is PieceServer, how tasks get a worker ThreadPool;  *)
(* here a worker reads a request, answers it and returns. Every connection *)
(* has a descriptor of its own: the reuse of descriptors is left out.      *)
(***************************************************************************)
EXTENDS Integers, FiniteSets

CONSTANTS
  Clients,      \* the connections clients make
  MaxEvents,    \* MAX_EVENTS, the most events one epoll_wait returns
  MaxRequests   \* bound: requests a client sends on its connection

\* The other descriptors epoll watches are named "wake" and "accept".
ASSUME ClientsAssumption == "wake" \notin Clients /\ "accept" \notin Clients
ASSUME MaxEventsAssumption == MaxEvents \in Nat \ {0}
ASSUME MaxRequestsAssumption == MaxRequests \in Nat

VARIABLES
  listener,     \* control point of the listener thread
  isListening_,
  wakeFd,       \* wake_fd_ is a descriptor
  wakeup,       \* the eventfd is readable
  events,       \* events of the current batch still to be handled
  conn,         \* the node's side of each connection
  tasks,        \* tasks[c][s]: tasks for connection c at stage s
  main,         \* control point of the main thread
  aborted,      \* an exception has left a pool thread: std::terminate
  inbox,        \* requests that can be read from each connection
  asked,        \* requests each client has sent
  waiting,      \* clients that wait for an answer
  peer          \* the client's side of each connection

listenerVars == <<listener, isListening_, wakeFd, wakeup, events>>
clientVars == <<inbox, asked, waiting, peer>>
vars == <<listenerVars, conn, tasks, main, aborted, clientVars>>

Stages == {"queued", "handling", "rearm"}

Init ==
  /\ listener = "setup" /\ isListening_ = FALSE
  /\ wakeFd = FALSE /\ wakeup = FALSE /\ events = {}
  /\ conn = [c \in Clients |-> "off"]
  /\ tasks = [c \in Clients |-> [s \in Stages |-> 0]]
  /\ main = "serving" /\ aborted = FALSE
  /\ inbox = [c \in Clients |-> 0] /\ asked = [c \in Clients |-> 0]
  /\ waiting = {} /\ peer = [c \in Clients |-> "open"]

-----------------------------------------------------------------------------
(* The listener thread.                                                    *)

ListenerGoes(from, to) == ~aborted /\ listener = from /\ listener' = to

\* bind and listen: from here on the kernel queues connections.
Bind ==
  /\ ListenerGoes("setup", "bound")
  /\ UNCHANGED <<isListening_, wakeFd, wakeup, events, conn, tasks, main, aborted, clientVars>>

MakeWakeFd ==
  /\ ListenerGoes("bound", "ready")
  /\ wakeFd' = TRUE
  /\ UNCHANGED <<isListening_, wakeup, events, conn, tasks, main, aborted, clientVars>>

StartLoop ==
  /\ ListenerGoes("ready", "test")
  /\ isListening_' = TRUE
  /\ UNCHANGED <<wakeFd, wakeup, events, conn, tasks, main, aborted, clientVars>>

\* while (isListening_)
TestListening ==
  /\ isListening_
  /\ ListenerGoes("test", "poll")
  /\ UNCHANGED <<isListening_, wakeFd, wakeup, events, conn, tasks, main, aborted, clientVars>>

\* The loop is over: the descriptors are closed, and with the listening socket
\* the connections nobody has accepted; accepted ones stay open.
Return ==
  /\ ~isListening_
  /\ ListenerGoes("test", "returned")
  /\ wakeFd' = FALSE /\ wakeup' = FALSE
  /\ conn' = [c \in Clients |-> IF conn[c] = "backlog" THEN "closed" ELSE conn[c]]
  /\ UNCHANGED <<isListening_, events, tasks, main, aborted, clientVars>>

Readable(c) == conn[c] = "armed" /\ (inbox[c] > 0 \/ peer[c] # "open")
Ready ==
  {c \in Clients : Readable(c)}
  \cup (IF wakeup THEN {"wake"} ELSE {})
  \cup (IF \E c \in Clients : conn[c] = "backlog" THEN {"accept"} ELSE {})

\* EPOLLONESHOT: a connection that is reported is disarmed. Mutant: it is not.
StillArmed == "armed"
Fired == "disarmed"

\* After a reset EPOLLHUP and EPOLLERR are reported along with EPOLLIN.
Reported(c) == IF peer[c] = "reset" THEN "hung" ELSE Fired

\* epoll_wait reports what is ready, at most MaxEvents at a time.
Poll(batch) ==
  /\ batch # {} /\ (batch = Ready \/ Cardinality(batch) = MaxEvents)
  /\ ListenerGoes("poll", "batch")
  /\ events' = batch
  /\ conn' = [c \in Clients |-> IF c \in batch THEN Reported(c) ELSE conn[c]]
  /\ UNCHANGED <<isListening_, wakeFd, wakeup, tasks, main, aborted, clientVars>>

Handle(e) ==
  /\ ~aborted /\ listener = "batch" /\ e \in events
  /\ events' = events \ {e}
  /\ UNCHANGED <<listener, isListening_, wakeFd, main, aborted, clientVars>>

DrainWake ==
  /\ Handle("wake")
  /\ wakeup' = FALSE
  /\ UNCHANGED <<conn, tasks>>

\* accept, update_inter, and the connection is added to epoll, armed.
AcceptOne(c) ==
  /\ conn[c] = "backlog"
  /\ Handle("accept")
  /\ conn' = [conn EXCEPT ![c] = "armed"]
  /\ UNCHANGED <<wakeup, tasks>>

\* EPOLLIN: a task is enqueued. With EPOLLHUP or EPOLLERR the listener then
\* closes the connection under that task.
Enqueue(c) ==
  /\ Handle(c)
  /\ tasks' = [tasks EXCEPT ![c]["queued"] = @ + 1]
  /\ conn' = IF conn[c] = "hung" THEN [conn EXCEPT ![c] = "closed"] ELSE conn
  /\ UNCHANGED wakeup

BatchDone ==
  /\ events = {}
  /\ ListenerGoes("batch", "test")
  /\ UNCHANGED <<isListening_, wakeFd, wakeup, events, conn, tasks, main, aborted, clientVars>>

Listen ==
  \/ Bind \/ MakeWakeFd \/ StartLoop \/ TestListening \/ Return
  \/ (\E batch \in SUBSET Ready : Poll(batch))
  \/ DrainWake \/ BatchDone
  \/ \E c \in Clients : AcceptOne(c) \/ Enqueue(c)

-----------------------------------------------------------------------------
(* The workers.                                                            *)

At(c, s) == ~aborted /\ tasks[c][s] > 0
Moved(c, from, to) == [tasks EXCEPT ![c][from] = @ - 1, ![c][to] = @ + 1]

\* Does recv find a request? Mutant: the peer's end counts as one.
AnythingToRead(c) == inbox[c] > 0 \/ peer[c] = "closed"
HasRequest(c) == inbox[c] > 0

\* process_request reads header and payload. While nothing has come recv blocks.
ReadRequest(c) ==
  /\ At(c, "queued") /\ HasRequest(c) /\ conn[c] # "closed" /\ peer[c] # "reset"
  /\ tasks' = Moved(c, "queued", "handling")
  /\ inbox' = [inbox EXCEPT ![c] = @ - 1]
  /\ UNCHANGED <<listenerVars, conn, main, aborted, asked, waiting, peer>>

\* recv returns 0 or an error: receive_all throws, and nothing catches it.
ReadFails(c) ==
  /\ At(c, "queued")
  /\ \/ ~HasRequest(c) /\ peer[c] = "closed"
     \/ conn[c] = "closed" \/ peer[c] = "reset"
  /\ aborted' = TRUE
  /\ UNCHANGED <<listenerVars, conn, tasks, main, clientVars>>

\* The answer is sent, or buffered by the kernel.
Reply(c) ==
  /\ At(c, "handling")
  /\ tasks' = Moved(c, "handling", "rearm")
  /\ waiting' = waiting \ {c}
  /\ UNCHANGED <<listenerVars, conn, main, aborted, inbox, asked, peer>>

\* The client is gone: SIGPIPE, or send_all throws.
ReplyFails(c) ==
  /\ At(c, "handling") /\ peer[c] # "open"
  /\ aborted' = TRUE
  /\ UNCHANGED <<listenerVars, conn, tasks, main, clientVars>>

\* EPOLL_CTL_MOD arms the connection. Mutant: it is left out.
NotRearmed(state) == state
Rearmed(state) == "armed"

\* The task's last act. It has no effect once the loop has closed epoll_fd.
Rearm(c) ==
  /\ At(c, "rearm")
  /\ tasks' = [tasks EXCEPT ![c]["rearm"] = @ - 1]
  /\ conn' = [conn EXCEPT ![c] = IF @ = "closed" THEN @ ELSE Rearmed(@)]
  /\ UNCHANGED <<listenerVars, main, aborted, clientVars>>

Work(c) == ReadRequest(c) \/ ReadFails(c) \/ Reply(c) \/ ReplyFails(c) \/ Rearm(c)

-----------------------------------------------------------------------------
(* The main thread: stop_listening, then the join of the listener thread.  *)

MainGoes(from, to) == ~aborted /\ main = from /\ main' = to

ClearFlag ==
  /\ MainGoes("serving", "stopping")
  /\ isListening_' = FALSE
  /\ UNCHANGED <<listener, wakeFd, wakeup, events, conn, tasks, aborted, clientVars>>

\* The eventfd becomes readable. Mutant: nothing is written to it.
NotWritten == wakeup
Written == wakeFd \/ wakeup

\* A write to descriptor -1, or to one that is closed, does nothing.
WriteWakeFd ==
  /\ MainGoes("stopping", "joining")
  /\ wakeup' = Written
  /\ UNCHANGED <<listener, isListening_, wakeFd, events, conn, tasks, aborted, clientVars>>

Joined ==
  /\ listener = "returned"
  /\ MainGoes("joining", "joined")
  /\ UNCHANGED <<listenerVars, conn, tasks, aborted, clientVars>>

-----------------------------------------------------------------------------
(* The clients.                                                            *)

Connect(c) ==
  /\ ~aborted /\ conn[c] = "off" /\ listener \notin {"setup", "returned"}
  /\ conn' = [conn EXCEPT ![c] = "backlog"]
  /\ UNCHANGED <<listenerVars, tasks, main, aborted, clientVars>>

\* A client sends its next request when it has the answer to the last.
Ask(c) ==
  /\ conn[c] \notin {"off", "closed"} /\ peer[c] = "open"
  /\ c \notin waiting /\ asked[c] < MaxRequests /\ ~aborted
  /\ inbox' = [inbox EXCEPT ![c] = @ + 1]
  /\ asked' = [asked EXCEPT ![c] = @ + 1]
  /\ waiting' = waiting \cup {c}
  /\ UNCHANGED <<listenerVars, conn, tasks, main, aborted, peer>>

\* The client's process ends, properly or not: its side is closed, or reset if
\* it leaves an answer unread.
GoAway(c, how) ==
  /\ ~aborted /\ conn[c] # "off" /\ peer[c] = "open"
  /\ how = "reset" => c \in waiting
  /\ peer' = [peer EXCEPT ![c] = how]
  /\ UNCHANGED <<listenerVars, conn, tasks, main, aborted, inbox, asked, waiting>>

Client(c) == Connect(c) \/ Ask(c) \/ \E how \in {"closed", "reset"} : GoAway(c, how)

Next ==
  \/ Listen
  \/ \E c \in Clients : Work(c) \/ Client(c)
  \/ ClearFlag \/ WriteWakeFd \/ Joined

Spec == Init /\ [][Next]_vars

\* The node's threads run when they can. Clients owe nothing, and the main
\* thread stops the listener or does not.
FairSpec ==
  /\ Spec
  /\ WF_vars(Listen) /\ WF_vars(WriteWakeFd \/ Joined)
  /\ \A c \in Clients : WF_vars(Work(c))

-----------------------------------------------------------------------------
\* The types of the state; no request is read that was not sent.
TypeOK ==
  /\ listener \in {"setup", "bound", "ready", "test", "poll", "batch", "returned"}
  /\ isListening_ \in BOOLEAN /\ wakeFd \in BOOLEAN /\ wakeup \in BOOLEAN
  /\ events \subseteq Clients \cup {"wake", "accept"}
  /\ conn \in [Clients -> {"off", "backlog", "armed", "disarmed", "hung", "closed"}]
  /\ tasks \in [Clients -> [Stages -> Nat]]
  /\ main \in {"serving", "stopping", "joining", "joined"}
  /\ aborted \in BOOLEAN
  /\ inbox \in [Clients -> Nat] /\ asked \in [Clients -> 0 .. MaxRequests]
  /\ waiting \subseteq Clients
  /\ peer \in [Clients -> {"open", "closed", "reset"}]

TasksOf(c) == tasks[c]["queued"] + tasks[c]["handling"] + tasks[c]["rearm"]

\* Two workers never have the same connection at once: one would read what the
\* other's request is made of, or mix its answer with the other's.
OneTaskPerSocket ==
  \A c \in Clients : TasksOf(c) + (IF c \in events THEN 1 ELSE 0) <= 1

\* A worker never reads from a connection with nothing to read: it would be lost
\* to the pool until the client speaks or goes away.
NoBlindRead ==
  \A c \in Clients : tasks[c]["queued"] > 0 => inbox[c] > 0 \/ peer[c] # "open"

\* A request on an accepted connection is read, unless the listener is stopped
\* or the process aborts: also one sent between the answer and the re-arming.
NoRequestStranded ==
  \A c \in Clients :
    inbox[c] > 0 ~> inbox[c] = 0 \/ peer[c] # "open" \/ main # "serving" \/ aborted

\* Once the loop has begun, stop_listening followed by the join comes to an end,
\* wherever in its loop the listener is.
StopReturns ==
  [](isListening_ /\ main = "serving" =>
       [](main = "joining" => <>(main = "joined" \/ aborted)))

\* "Socket closed or error": the listener takes the end of a connection for an
\* event to handle, so a client that goes away does not end the process.
PeerCloseHandled == ~aborted
=============================================================================
