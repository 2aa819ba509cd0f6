--------------------------- MODULE ListenerProofs ---------------------------
(* What the one-shot arming of connections guarantees, for any number of     *)
(* clients and requests: never two workers on one connection, and never one  *)
(* without anything to read.                                                 *)
EXTENDS Listener, TLAPS

\* A connection that can be reported has neither a task nor an event pending.
ArmedInv ==
  \A c \in Clients :
    conn[c] \in {"off", "backlog", "armed"} => TasksOf(c) = 0 /\ c \notin events

\* An event is about something: a request, or the end of the connection.
EventInv == \A c \in Clients : c \in events => inbox[c] > 0 \/ peer[c] # "open"

IndInv == TypeOK /\ ArmedInv /\ OneTaskPerSocket /\ EventInv /\ NoBlindRead

-----------------------------------------------------------------------------
\* Nobody is connected yet.
LEMMA InitInv == Init => IndInv
<1> SUFFICES ASSUME Init
             PROVE  IndInv
  OBVIOUS
<1>1. TypeOK
  <2>1. tasks \in [Clients -> [Stages -> Nat]]
    BY DEF Init
  <2>2. /\ conn \in [Clients -> {"off", "backlog", "armed", "disarmed", "hung", "closed"}]
        /\ inbox \in [Clients -> Nat]
        /\ peer \in [Clients -> {"open", "closed", "reset"}]
    BY DEF Init
  <2>3. asked \in [Clients -> 0 .. MaxRequests]
    BY MaxRequestsAssumption DEF Init
  <2>4. QED
    BY <2>1, <2>2, <2>3 DEF Init, TypeOK
<1>2. ArmedInv /\ OneTaskPerSocket /\ EventInv /\ NoBlindRead
  BY DEF Init, Stages, TasksOf, ArmedInv, OneTaskPerSocket, EventInv, NoBlindRead
<1>3. QED
  BY <1>1, <1>2 DEF IndInv

\* One task more, and one task less or further along, keep the counts natural.
LEMMA MoreTasks ==
  ASSUME TypeOK, NEW c \in Clients
  PROVE  [tasks EXCEPT ![c]["queued"] = @ + 1] \in [Clients -> [Stages -> Nat]]
<1>1. tasks[c] \in [Stages -> Nat]
  BY DEF TypeOK
<1>2. [tasks[c] EXCEPT !["queued"] = @ + 1] \in [Stages -> Nat]
  BY <1>1 DEF Stages
<1>3. QED
  BY <1>2 DEF TypeOK

\* A task that ends or goes on to its next stage.
LEMMA FewerTasks ==
  ASSUME TypeOK, NEW c \in Clients, NEW s \in Stages, NEW t \in Stages, tasks[c][s] > 0
  PROVE  /\ Moved(c, s, t) \in [Clients -> [Stages -> Nat]]
         /\ [tasks EXCEPT ![c][s] = @ - 1] \in [Clients -> [Stages -> Nat]]
<1>1. tasks[c] \in [Stages -> Nat]
  BY DEF TypeOK
<1>2. [tasks[c] EXCEPT ![s] = @ - 1] \in [Stages -> Nat]
  BY <1>1
<1>3. [tasks[c] EXCEPT ![s] = @ - 1, ![t] = @ + 1] \in [Stages -> Nat]
  BY <1>1, <1>2
<1>4. [tasks EXCEPT ![c][s] = @ - 1] \in [Clients -> [Stages -> Nat]]
  BY <1>2 DEF TypeOK
<1>5. Moved(c, s, t) \in [Clients -> [Stages -> Nat]]
  BY <1>3 DEF TypeOK, Moved
<1>6. QED
  BY <1>4, <1>5

\* No step leaves the types.
LEMMA TypeStep == TypeOK /\ [Next]_vars => TypeOK'
<1> SUFFICES ASSUME TypeOK, [Next]_vars
             PROVE  TypeOK'
  OBVIOUS
<1> USE DEF TypeOK, listenerVars, clientVars
<1>1. CASE Bind \/ MakeWakeFd \/ StartLoop \/ TestListening \/ Return \/ BatchDone
  BY <1>1 DEF Bind, MakeWakeFd, StartLoop, TestListening, Return, BatchDone, ListenerGoes
<1>2. ASSUME NEW batch \in SUBSET Ready, Poll(batch)
      PROVE  TypeOK'
  <2>1. batch \subseteq Clients \cup {"wake", "accept"}
    BY DEF Ready
  <2>2. conn' \in [Clients -> {"off", "backlog", "armed", "disarmed", "hung", "closed"}]
    BY <1>2 DEF Poll, Reported, Fired
  <2>3. QED
    BY <1>2, <2>1, <2>2 DEF Poll, ListenerGoes
<1>3. CASE DrainWake
  BY <1>3 DEF DrainWake, Handle
<1>4. ASSUME NEW c \in Clients, AcceptOne(c) \/ Enqueue(c)
      PROVE  TypeOK'
  <2>1. tasks' \in [Clients -> [Stages -> Nat]]
    BY <1>4, MoreTasks DEF AcceptOne, Enqueue, Stages
  <2>2. conn' \in [Clients -> {"off", "backlog", "armed", "disarmed", "hung", "closed"}]
    BY <1>4 DEF AcceptOne, Enqueue
  <2>3. QED
    BY <1>4, <2>1, <2>2 DEF AcceptOne, Enqueue, Handle
<1>5. ASSUME NEW c \in Clients, Work(c)
      PROVE  TypeOK'
  <2>1. CASE ReadRequest(c)
    <3>1. tasks' \in [Clients -> [Stages -> Nat]]
      BY <2>1, FewerTasks DEF ReadRequest, At, Stages
    <3>2. inbox' \in [Clients -> Nat]
      BY <2>1 DEF ReadRequest, HasRequest
    <3>3. QED
      BY <2>1, <3>1, <3>2 DEF ReadRequest
  <2>2. CASE ReadFails(c) \/ ReplyFails(c)
    BY <2>2 DEF ReadFails, ReplyFails
  <2>3. CASE Reply(c)
    <3>1. tasks' \in [Clients -> [Stages -> Nat]]
      BY <2>3, FewerTasks DEF Reply, At, Stages
    <3>2. QED
      BY <2>3, <3>1 DEF Reply
  <2>4. CASE Rearm(c)
    <3>1. tasks' \in [Clients -> [Stages -> Nat]]
      BY <2>4, FewerTasks DEF Rearm, At, Stages
    <3>2. conn' \in [Clients -> {"off", "backlog", "armed", "disarmed", "hung", "closed"}]
      BY <2>4 DEF Rearm, Rearmed
    <3>3. QED
      BY <2>4, <3>1, <3>2 DEF Rearm
  <2>5. QED
    BY <1>5, <2>1, <2>2, <2>3, <2>4 DEF Work
<1>6. ASSUME NEW c \in Clients, Client(c)
      PROVE  TypeOK'
  <2>1. CASE Connect(c)
    BY <2>1 DEF Connect
  <2>2. CASE Ask(c)
    <3>1. asked' \in [Clients -> 0 .. MaxRequests]
      BY <2>2, MaxRequestsAssumption DEF Ask
    <3>2. inbox' \in [Clients -> Nat] /\ waiting' \subseteq Clients
      BY <2>2 DEF Ask
    <3>3. QED
      BY <2>2, <3>1, <3>2 DEF Ask
  <2>3. ASSUME NEW how \in {"closed", "reset"}, GoAway(c, how)
        PROVE  TypeOK'
    BY <2>3 DEF GoAway
  <2>4. QED
    BY <1>6, <2>1, <2>2, <2>3 DEF Client
<1>7. CASE ClearFlag \/ WriteWakeFd \/ Joined
  BY <1>7 DEF ClearFlag, WriteWakeFd, Written, Joined, MainGoes
<1>8. CASE UNCHANGED vars
  BY <1>8 DEF vars
<1>9. QED
  BY <1>1, <1>2, <1>3, <1>4, <1>5, <1>6, <1>7, <1>8 DEF Next, Listen

-----------------------------------------------------------------------------
(* The safety properties, connection by connection.                          *)

Safe(c) ==
  /\ conn[c] \in {"off", "backlog", "armed"} => TasksOf(c) = 0 /\ c \notin events
  /\ TasksOf(c) + (IF c \in events THEN 1 ELSE 0) <= 1
  /\ c \in events => inbox[c] > 0 \/ peer[c] # "open"
  /\ tasks[c]["queued"] > 0 => inbox[c] > 0 \/ peer[c] # "open"

\* No step of anybody makes a connection unsafe: two tasks, or a blind one.
LEMMA SafeStep == TypeOK /\ [Next]_vars => \A c \in Clients : Safe(c) => Safe(c)'
<1> SUFFICES ASSUME TypeOK, [Next]_vars, NEW c \in Clients, Safe(c)
             PROVE  Safe(c)'
  OBVIOUS
<1> USE DEF listenerVars, clientVars
<1>1. /\ tasks[c]["queued"] \in Nat /\ tasks[c]["handling"] \in Nat
      /\ tasks[c]["rearm"] \in Nat /\ inbox[c] \in Nat
  BY DEF TypeOK, Stages
<1>2. CASE \/ Bind \/ MakeWakeFd \/ StartLoop \/ TestListening \/ BatchDone
           \/ ClearFlag \/ WriteWakeFd \/ Joined \/ UNCHANGED vars
  <2>1. UNCHANGED <<conn, tasks, events, inbox, peer>>
    BY <1>2 DEF Bind, MakeWakeFd, StartLoop, TestListening, BatchDone, ClearFlag,
       WriteWakeFd, Joined, vars
  <2>2. QED
    BY <2>1 DEF Safe, TasksOf
<1>3. CASE Return
  BY <1>3 DEF Return, Safe, TasksOf, TypeOK
<1>4. ASSUME NEW batch \in SUBSET Ready, Poll(batch)
      PROVE  Safe(c)'
  <2>1. c \in batch => Readable(c)
    BY ClientsAssumption DEF Ready
  <2>2. UNCHANGED <<tasks, inbox, peer>> /\ events' = batch
    BY <1>4 DEF Poll
  <2>3. conn'[c] = IF c \in batch THEN Reported(c) ELSE conn[c]
    BY <1>4 DEF Poll
  <2>4. CASE c \in batch
    BY <1>1, <2>1, <2>2, <2>3, <2>4 DEF Safe, TasksOf, Readable, Reported, Fired
  <2>5. CASE c \notin batch
    BY <1>1, <2>2, <2>3, <2>5 DEF Safe, TasksOf
  <2>6. QED
    BY <2>4, <2>5
<1>5. CASE DrainWake
  BY <1>1, <1>5, ClientsAssumption DEF DrainWake, Handle, Safe, TasksOf
<1>6. ASSUME NEW d \in Clients, AcceptOne(d)
      PROVE  Safe(c)'
  BY <1>1, <1>6, ClientsAssumption DEF AcceptOne, Handle, Safe, TasksOf, TypeOK
<1>7. ASSUME NEW d \in Clients, Enqueue(d)
      PROVE  Safe(c)'
  BY <1>1, <1>7 DEF Enqueue, Handle, Safe, TasksOf, TypeOK, Stages
<1>8. ASSUME NEW d \in Clients, Work(d)
      PROVE  Safe(c)'
  <2>1. CASE ReadRequest(d)
    BY <1>1, <2>1 DEF ReadRequest, At, Moved, HasRequest, Safe, TasksOf, TypeOK, Stages
  <2>2. CASE ReadFails(d) \/ ReplyFails(d)
    BY <2>2 DEF ReadFails, ReplyFails, Safe, TasksOf
  <2>3. CASE Reply(d)
    BY <1>1, <2>3 DEF Reply, At, Moved, Safe, TasksOf, TypeOK, Stages
  <2>4. CASE Rearm(d)
    BY <1>1, <2>4 DEF Rearm, At, Rearmed, Safe, TasksOf, TypeOK, Stages
  <2>5. QED
    BY <1>8, <2>1, <2>2, <2>3, <2>4 DEF Work
<1>9. ASSUME NEW d \in Clients, Client(d)
      PROVE  Safe(c)'
  <2>1. CASE Connect(d)
    BY <2>1 DEF Connect, Safe, TasksOf, TypeOK
  <2>2. CASE Ask(d)
    BY <1>1, <2>2 DEF Ask, Safe, TasksOf, TypeOK
  <2>3. ASSUME NEW how \in {"closed", "reset"}, GoAway(d, how)
        PROVE  Safe(c)'
    BY <2>3 DEF GoAway, Safe, TasksOf, TypeOK
  <2>4. QED
    BY <1>9, <2>1, <2>2, <2>3 DEF Client
<1>10. QED
  BY <1>2, <1>3, <1>4, <1>5, <1>6, <1>7, <1>8, <1>9 DEF Next, Listen

-----------------------------------------------------------------------------
(* The theorems.                                                             *)

\* The inductive invariant of the listener, its workers and its clients.
THEOREM Inductive == Spec => []IndInv
<1>1. IndInv <=> TypeOK /\ \A c \in Clients : Safe(c)
  BY DEF IndInv, ArmedInv, OneTaskPerSocket, EventInv, NoBlindRead, Safe
<1>2. IndInv' <=> TypeOK' /\ \A c \in Clients : Safe(c)'
  BY DEF IndInv, ArmedInv, OneTaskPerSocket, EventInv, NoBlindRead, Safe, TasksOf
<1>3. IndInv /\ [Next]_vars => IndInv'
  BY <1>1, <1>2, TypeStep, SafeStep
<1>4. QED
  BY InitInv, <1>3, PTL DEF Spec

\* The state stays in its type: no worker reads a request that was not sent.
THEOREM TypeCorrect == Spec => []TypeOK
<1>1. IndInv => TypeOK
  BY DEF IndInv
<1>2. QED
  BY Inductive, <1>1, PTL

\* EPOLLONESHOT and the re-arming at the end of a task keep every connection
\* to one worker at a time.
THEOREM OneTask == Spec => []OneTaskPerSocket
<1>1. IndInv => OneTaskPerSocket
  BY DEF IndInv
<1>2. QED
  BY Inductive, <1>1, PTL

\* A task is enqueued only for a connection that can be read without blocking.
THEOREM NeverBlind == Spec => []NoBlindRead
<1>1. IndInv => NoBlindRead
  BY DEF IndInv
<1>2. QED
  BY Inductive, <1>1, PTL
=============================================================================
