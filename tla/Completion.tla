----------------------------- MODULE Completion -----------------------------
(***************************************************************************)
(* How the nodes of a run find out that everybody has the file: each       *)
(* destination that has it connects once to the completion port of every   *)
(* other node, every node counts the connections its completion thread     *)
(* accepts, and start() goes past its wait when the count reaches          *)
(* total_nodes_. A connection is the message: nothing is sent over it.     *)
(* A destination may fail while it downloads, and then its process ends.   *)
(***************************************************************************)
EXTENDS Integers, FiniteSets

CONSTANTS Nodes, Source

Dests == Nodes \ {Source}

ASSUME NodesAssumption == IsFiniteSet(Nodes) /\ Source \in Nodes /\ Dests # {}

VARIABLES
  main,             \* control point of each node's main thread
  acceptor,         \* control point of each node's completion thread
  is_listening_,
  completed_nodes_,
  backlog,          \* connections to the completion port not yet accepted
  notified,         \* notified[n]: the nodes n has tried to notify
  dropped,          \* pairs <<n, m>>: n's connection to m was refused
  timestamp         \* nodes that have written their timestamp file

threadVars == <<acceptor, is_listening_, completed_nodes_>>
netVars == <<backlog, notified, dropped>>
vars == <<main, threadVars, netVars, timestamp>>

\* total_nodes_ of setup_node: everybody else who downloads. Mutant: the source
\* leaves itself out twice, as a destination does.
OneTooFew(n) == Cardinality(Nodes) - 2
total_nodes_(n) == Cardinality(Nodes) - (IF n = Source THEN 1 ELSE 2)

Init ==
  /\ main = [n \in Nodes |-> "off"]
  /\ acceptor = [n \in Nodes |-> "off"]
  /\ is_listening_ = [n \in Nodes |-> TRUE]
  /\ completed_nodes_ = [n \in Nodes |-> 0]
  /\ backlog = [n \in Nodes |-> 0]
  /\ notified = [n \in Dests |-> {}]
  /\ dropped = {} /\ timestamp = {}

Go(n, from, to) == main[n] = from /\ main' = [main EXCEPT ![n] = to]
AcceptorGoes(n, from, to) ==
  acceptor[n] = from /\ acceptor' = [acceptor EXCEPT ![n] = to]

\* The completion socket exists, so that the kernel queues connections to it.
Reachable(n) == main[n] \notin {"off", "exited", "terminated"}

-----------------------------------------------------------------------------
(* The main thread.                                                        *)

\* setup_completion binds the port and starts the thread. The source writes its
\* timestamp file and waits; a destination starts to download.
Start(n) ==
  /\ Go(n, "off", IF n = Source THEN "barrier" ELSE "download")
  /\ AcceptorGoes(n, "off", "test")
  /\ timestamp' = IF n = Source THEN timestamp \cup {n} ELSE timestamp
  /\ UNCHANGED <<is_listening_, completed_nodes_, netVars>>

\* All pieces are there (Swarm): reconstruct and record_time.
HasFile(n) ==
  /\ Go(n, "download", "notify")
  /\ timestamp' = timestamp \cup {n}
  /\ UNCHANGED <<threadVars, netVars>>

\* Something in start()'s try block throws: a lost connection, a missing piece.
Fail(n) ==
  /\ Go(n, "download", "catch")
  /\ UNCHANGED <<threadVars, netVars, timestamp>>

\* The catch block stops the listener and rethrows. ~FloodClone then destroys
\* completion_thread_ while it can be joined: std::terminate.
Terminate(n) ==
  /\ Go(n, "catch", "terminated")
  /\ acceptor' = [acceptor EXCEPT ![n] = "gone"]
  /\ UNCHANGED <<is_listening_, completed_nodes_, netVars, timestamp>>

\* notify_completion, one round of its loop: connect and close, or fail to.
Notify(n, m) ==
  /\ main[n] = "notify" /\ m \in Nodes \ ({n} \cup notified[n])
  /\ notified' = [notified EXCEPT ![n] = @ \cup {m}]
  /\ IF Reachable(m)
     THEN backlog' = [backlog EXCEPT ![m] = @ + 1] /\ dropped' = dropped
     ELSE backlog' = backlog /\ dropped' = dropped \cup {<<n, m>>}
  /\ UNCHANGED <<main, threadVars, timestamp>>

AllTold(n) == notified[n] = Nodes \ {n}

AllNotified(n) ==
  /\ n \in Dests /\ AllTold(n)
  /\ Go(n, "notify", "barrier")
  /\ UNCHANGED <<threadVars, netVars, timestamp>>

\* Under node_mtx: too few have completed, node_change.wait.
Sleep(n) ==
  /\ completed_nodes_[n] < total_nodes_(n)
  /\ Go(n, "barrier", "asleep")
  /\ UNCHANGED <<threadVars, netVars, timestamp>>

SpuriousWake(n) ==
  /\ Go(n, "asleep", "barrier")
  /\ UNCHANGED <<threadVars, netVars, timestamp>>

\* The wait is over: stop serving, unmap the file, is_listening_ = false.
Leave(n) ==
  /\ completed_nodes_[n] >= total_nodes_(n)
  /\ Go(n, "barrier", "join")
  /\ is_listening_' = [is_listening_ EXCEPT ![n] = FALSE]
  /\ UNCHANGED <<acceptor, completed_nodes_, netVars, timestamp>>

\* completion_thread_.join returns, and only then is the socket closed.
Exit(n) ==
  /\ acceptor[n] = "returned"
  /\ Go(n, "join", "exited")
  /\ UNCHANGED <<threadVars, netVars, timestamp>>

-----------------------------------------------------------------------------
(* The completion thread.                                                  *)

TestListening(n) ==
  /\ AcceptorGoes(n, "test", IF is_listening_[n] THEN "accept" ELSE "returned")
  /\ UNCHANGED <<main, is_listening_, completed_nodes_, netVars, timestamp>>

\* accept blocks until somebody connects.
Accept(n) ==
  /\ backlog[n] > 0
  /\ AcceptorGoes(n, "accept", "count")
  /\ backlog' = [backlog EXCEPT ![n] = @ - 1]
  /\ UNCHANGED <<main, is_listening_, completed_nodes_, notified, dropped, timestamp>>

\* Mutant: node_change is not notified.
Unnoticed(point) == point
Noticed(point) == IF point = "asleep" THEN "barrier" ELSE point

\* Under node_mtx.
Count(n) ==
  /\ AcceptorGoes(n, "count", "test")
  /\ completed_nodes_' = [completed_nodes_ EXCEPT ![n] = @ + 1]
  /\ main' = [main EXCEPT ![n] = Noticed(@)]
  /\ UNCHANGED <<is_listening_, netVars, timestamp>>

Main(n) ==
  \/ Start(n) \/ AllNotified(n) \/ Sleep(n) \/ Leave(n) \/ Exit(n)
  \/ n \in Dests /\ (HasFile(n) \/ Terminate(n) \/ \E m \in Nodes : Notify(n, m))
Acceptor(n) == TestListening(n) \/ Accept(n) \/ Count(n)

Next ==
  \/ \E n \in Nodes : Main(n) \/ Acceptor(n) \/ SpuriousWake(n)
  \/ \E n \in Dests : Fail(n)

Spec == Init /\ [][Next]_vars

\* Every node is started, every download ends (Swarm) or fails, every thread
\* runs.
FairSpec ==
  /\ Spec
  /\ \A n \in Nodes : WF_vars(Main(n)) /\ WF_vars(Acceptor(n))

-----------------------------------------------------------------------------
\* The types of the state; the count never passes what start() waits for.
TypeOK ==
  /\ main \in [Nodes -> {"off", "download", "notify", "barrier", "asleep", "join", "exited",
                     "catch", "terminated"}]
  /\ acceptor \in [Nodes -> {"off", "test", "accept", "count", "returned", "gone"}]
  /\ is_listening_ \in [Nodes -> BOOLEAN]
  /\ completed_nodes_ \in [Nodes -> Nat]
  /\ \A n \in Nodes : completed_nodes_[n] <= total_nodes_(n)
  /\ backlog \in [Nodes -> Nat]
  /\ notified \in [Dests -> SUBSET Nodes]
  /\ dropped \subseteq Dests \X Nodes /\ timestamp \subseteq Nodes

Left(n) == main[n] \in {"join", "exited"}

\* Nobody stops serving and unmaps the file before every destination has it,
\* perhaps from here, so never when one has failed: the count of anonymous
\* connections is enough. Who has the file has written its timestamp.
NobodyLeavesEarly == \A n \in Nodes : Left(n) => Dests \subseteq timestamp

\* A notification is refused only by a node that has not been started yet or
\* has failed, never by one that has gone the ordinary way.
DroppedOnlyByAbsent ==
  [][\A n \in Dests, m \in Nodes :
       <<n, m>> \in dropped' \ dropped => main[m] \in {"off", "terminated"}]_vars

Failed == {n \in Dests : main[n] \in {"catch", "terminated"}}

\* Unless a node failed or a notification was refused, every node gets past its
\* wait.
AllLeaveUnlessFailed ==
  <>(dropped # {} \/ Failed # {} \/ \A n \in Nodes : Left(n))

\* "Node ... completed successfully": a node that has left the wait returns from
\* start() and exits.
LeaversExit == \A n \in Nodes : main[n] = "join" ~> main[n] = "exited"
=============================================================================
