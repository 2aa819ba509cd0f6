------------------------- MODULE PooledServerProofs -------------------------
(* What clients may rely on when they share fewer workers than they are, for *)
(* any number of clients, workers, interfaces and pieces: no request is lost *)
(* or answered twice, sleepers are bounded by the interfaces, and the pool   *)
(* does nothing PieceService does not allow.                                 *)
EXTENDS PooledServer, FiniteSetTheorems, TLAPS

Waiting(c) == asks[c] = "waits" /\ worker[c] = "none"

\* The queue holds one task for each client whose request no worker has, and
\* nothing else; a worker has only requests whose client waits.
QueueInv ==
  /\ queue \in Seq(Clients \X {"META_REQ", "PIECE_REQ"})
  /\ \A i \in DOMAIN queue : Waiting(queue[i][1])
  /\ \A i, j \in DOMAIN queue : queue[i][1] = queue[j][1] => i = j
  /\ \A c \in Clients : Waiting(c) => \E i \in DOMAIN queue : queue[i][1] = c
  /\ \A c \in Clients : worker[c] # "none" => asks[c] = "waits"

\* The workers active_tasks counts.
Occupied == {c \in Clients : worker[c] # "none"}

\* An interface is held by the client being served on it, and by no other.
HolderInv ==
  /\ \A c \in Clients : worker[c] \in {"send", "blocked"} => holder[IfaceOf[c]] = c
  /\ \A i \in Ifaces : holder[i] # NoClient =>
       IfaceOf[holder[i]] = i /\ worker[holder[i]] \in {"send", "blocked"}

IndInv == TypeOK /\ QueueInv /\ HolderInv

-----------------------------------------------------------------------------
(* The queue and the workers as sets.                                        *)

\* The last conjunct of TypeOK.
CountedOnce ==
  \A c \in Clients :
    Cardinality({i \in DOMAIN queue : queue[i][1] = c})
    = IF asks[c] = "waits" /\ worker[c] = "none" THEN 1 ELSE 0

\* The clients of the queue, counted: a request that waits is queued once.
LEMMA OnceQueued == QueueInv => CountedOnce
<1> SUFFICES ASSUME QueueInv, NEW c \in Clients
             PROVE  Cardinality({i \in DOMAIN queue : queue[i][1] = c})
                    = IF Waiting(c) THEN 1 ELSE 0
  BY DEF CountedOnce, Waiting
<1> DEFINE Places == {i \in DOMAIN queue : queue[i][1] = c}
<1>1. CASE Waiting(c)
  <2>1. PICK i \in DOMAIN queue : queue[i][1] = c
    BY <1>1 DEF QueueInv
  <2>2. Places = {i}
    BY <2>1 DEF QueueInv
  <2>3. QED
    BY <1>1, <2>2, FS_Singleton
<1>2. CASE ~Waiting(c)
  <2>1. Places = {}
    BY <1>2 DEF QueueInv
  <2>2. QED
    BY <1>2, <2>1, FS_EmptySet
<1>3. QED
  BY <1>1, <1>2

\* A worker that takes a task is one more, a task that ends one less.
LEMMA WorkerSets ==
  /\ active_tasks = Cardinality(Occupied)
  /\ IsFiniteSet(Occupied) /\ Cardinality(Occupied) \in Nat
  /\ \A c \in Clients : Cardinality(Occupied \cup {c}) <= Cardinality(Occupied) + 1
  /\ \A S \in SUBSET Occupied : Cardinality(S) \in Nat /\ Cardinality(S) <= Cardinality(Occupied)
<1>1. IsFiniteSet(Occupied) /\ Cardinality(Occupied) \in Nat
  BY PoolAssumption, FS_Subset, FS_CardinalityType DEF Occupied
<1>2. \A c \in Clients : Cardinality(Occupied \cup {c}) <= Cardinality(Occupied) + 1
  BY <1>1, FS_AddElement
<1>3. \A S \in SUBSET Occupied : Cardinality(S) \in Nat /\ Cardinality(S) <= Cardinality(Occupied)
  BY <1>1, FS_Subset, FS_CardinalityType
<1>4. QED
  BY <1>1, <1>2, <1>3 DEF active_tasks, Occupied

\* The task at the front, and what is left of the queue without it.
LEMMA FrontTask ==
  ASSUME QueueInv, queue # << >>
  PROVE  /\ Head(queue) = queue[1] /\ 1 \in DOMAIN queue
         /\ Head(queue)[1] \in Clients /\ Head(queue)[2] \in {"META_REQ", "PIECE_REQ"}
         /\ Tail(queue) \in Seq(Clients \X {"META_REQ", "PIECE_REQ"})
         /\ DOMAIN Tail(queue) = 1 .. (Len(queue) - 1)
         /\ \A i \in DOMAIN Tail(queue) :
              i + 1 \in DOMAIN queue /\ Tail(queue)[i] = queue[i + 1]
         /\ \A i \in DOMAIN queue : i # 1 => i - 1 \in DOMAIN Tail(queue)
<1>1. queue \in Seq(Clients \X {"META_REQ", "PIECE_REQ"}) /\ Len(queue) \in Nat \ {0}
      /\ DOMAIN queue = 1 .. Len(queue)
  BY DEF QueueInv
<1>2. Head(queue) = queue[1] /\ queue[1] \in Clients \X {"META_REQ", "PIECE_REQ"}
  BY <1>1
<1>3. /\ Tail(queue) \in Seq(Clients \X {"META_REQ", "PIECE_REQ"})
      /\ Len(Tail(queue)) = Len(queue) - 1
      /\ \A i \in 1 .. (Len(queue) - 1) : Tail(queue)[i] = queue[i + 1]
  BY <1>1
<1>4. DOMAIN Tail(queue) = 1 .. (Len(queue) - 1)
  BY <1>3
<1>5. QED
  BY <1>1, <1>2, <1>3, <1>4

-----------------------------------------------------------------------------
(* The inductive invariant.                                                  *)

\* A request enters the queue when its client begins to wait and leaves it for a
\* worker; when the worker is done with it the client waits no longer.
LEMMA QueueStep == TypeOK /\ QueueInv /\ [Next]_vars => QueueInv'
<1> SUFFICES ASSUME TypeOK, QueueInv, [Next]_vars
             PROVE  QueueInv'
  OBVIOUS
<1>1. ASSUME NEW c \in Clients, SendRequest(c)
      PROVE  QueueInv'
  <2>1. /\ asks[c] \in {"META_REQ", "PIECE_REQ"} /\ worker' = worker
        /\ asks' = [asks EXCEPT ![c] = "waits"]
        /\ queue' = Append(queue, <<c, asks[c]>>)
    BY <1>1 DEF SendRequest
  <2>2. /\ queue' \in Seq(Clients \X {"META_REQ", "PIECE_REQ"})
        /\ DOMAIN queue' = DOMAIN queue \cup {Len(queue) + 1}
        /\ Len(queue) + 1 \notin DOMAIN queue
        /\ \A i \in DOMAIN queue : queue'[i] = queue[i]
        /\ queue'[Len(queue) + 1][1] = c
    BY <2>1 DEF QueueInv
  <2>3. worker[c] = "none" /\ \A i \in DOMAIN queue : queue[i][1] \in Clients \ {c}
    <3>1. ~Waiting(c) /\ worker[c] = "none"
      BY <2>1 DEF QueueInv, Waiting
    <3>2. \A i \in DOMAIN queue : queue[i][1] \in Clients
      BY DEF QueueInv
    <3>3. QED
      BY <3>1, <3>2 DEF QueueInv
  <2>4. \A d \in Clients : Waiting(d)' <=> d = c \/ Waiting(d)
    BY <2>1, <2>3 DEF Waiting, TypeOK
  <2>5. \A d \in Clients : worker'[d] # "none" => asks'[d] = "waits"
    BY <2>1 DEF QueueInv, TypeOK
  <2>6. QED
    BY <2>2, <2>3, <2>4, <2>5 DEF QueueInv
<1>2. CASE TakeTask
  <2> DEFINE c == Head(queue)[1]
  <2>1. /\ queue # << >> /\ asks' = asks /\ queue' = Tail(queue)
        /\ worker' = [worker EXCEPT ![c] = Head(queue)[2]]
    BY <1>2 DEF TakeTask
  <2>2. \A d \in Clients : Waiting(d)' <=> d # c /\ Waiting(d)
    BY <2>1, FrontTask DEF Waiting, TypeOK
  <2>3. \A d \in Clients : worker'[d] # "none" => asks'[d] = "waits"
    <3>1. asks[c] = "waits"
      BY <2>1, FrontTask DEF QueueInv, Waiting
    <3>2. QED
      BY <2>1, <3>1, FrontTask DEF QueueInv, TypeOK
  <2>4. \A i \in DOMAIN queue' : queue'[i][1] # c
    BY <2>1, FrontTask DEF QueueInv
  <2>5. \A i \in DOMAIN queue' :
          queue'[i][1] \in Clients /\ i + 1 \in DOMAIN queue /\ queue'[i] = queue[i + 1]
    BY <2>1, FrontTask DEF QueueInv
  <2>6. (\A i \in DOMAIN queue : Waiting(queue[i][1]))'
    <3>1. \A i \in DOMAIN queue' : Waiting(queue'[i][1]) /\ queue'[i][1] # c
      BY <2>4, <2>5 DEF QueueInv
    <3>2. \A d \in Clients : d # c /\ Waiting(d) => (asks'[d] = "waits" /\ worker'[d] = "none")
      BY <2>2 DEF Waiting
    <3>3. QED
      BY <2>5, <3>1, <3>2 DEF Waiting
  <2>7. \A i, j \in DOMAIN queue' : queue'[i][1] = queue'[j][1] => i = j
    <3> SUFFICES ASSUME NEW i \in DOMAIN queue', NEW j \in DOMAIN queue',
                        queue'[i][1] = queue'[j][1]
                 PROVE  i = j
      OBVIOUS
    <3>1. i + 1 = j + 1
      BY <2>5 DEF QueueInv
    <3>2. i \in Int /\ j \in Int
      BY <2>1, FrontTask DEF QueueInv
    <3>3. QED
      BY <3>1, <3>2
  <2>8. \A d \in Clients : Waiting(d)' => \E i \in DOMAIN queue' : queue'[i][1] = d
    <3> SUFFICES ASSUME NEW d \in Clients, Waiting(d)'
                 PROVE  \E i \in DOMAIN queue' : queue'[i][1] = d
      OBVIOUS
    <3>1. PICK k \in DOMAIN queue : queue[k][1] = d
      BY <2>2 DEF QueueInv
    <3>2. k # 1 /\ k \in Int
      BY <2>1, <2>2, <3>1, FrontTask DEF QueueInv
    <3>3. k - 1 \in DOMAIN queue' /\ queue'[k - 1] = queue[k]
      BY <2>1, <3>2, FrontTask
    <3>4. QED
      BY <3>1, <3>3
  <2>9. QED
    BY <2>1, <2>3, <2>6, <2>7, <2>8, FrontTask DEF QueueInv
<1>3. ASSUME NEW c \in Clients, Work(c)
      PROVE  QueueInv'
  <2>1. queue' = queue
    BY <1>3 DEF Work, AnswerMetadata, Refuse, Admit, SendPiece, Block, Wake, Finish,
       EndTask, WorkerGoes
  <2>2. /\ worker[c] # "none"
        /\ \/ asks' = asks
              /\ \E to \in {"send", "blocked"} : worker' = [worker EXCEPT ![c] = to]
           \/ \E to \in {"PIECE_REQ", "nothing"} : asks' = [asks EXCEPT ![c] = to]
              /\ worker' = [worker EXCEPT ![c] = "none"]
    BY <1>3 DEF Work, AnswerMetadata, Refuse, Admit, SendPiece, Block, Wake, Finish,
       EndTask, WorkerGoes
  <2>3. \A d \in Clients : Waiting(d)' <=> Waiting(d)
    BY <2>2 DEF Waiting, TypeOK
  <2>4. \A d \in Clients : worker'[d] # "none" => asks'[d] = "waits"
    BY <2>2 DEF QueueInv, TypeOK
  <2>5. QED
    BY <2>1, <2>3, <2>4 DEF QueueInv
<1>4. ASSUME NEW p \in Pieces, Arrive(p)
      PROVE  QueueInv'
  BY <1>4 DEF Arrive, QueueInv, Waiting
<1>5. CASE Downloaded \/ WaitReturns \/ UNCHANGED vars
  BY <1>5 DEF Downloaded, WaitReturns, vars, QueueInv, Waiting
<1>6. QED
  BY <1>1, <1>2, <1>3, <1>4, <1>5 DEF Next

\* acquire_inter and release_inter bracket the time a client is served.
LEMMA HolderStep == TypeOK /\ QueueInv /\ HolderInv /\ [Next]_vars => HolderInv'
<1> SUFFICES ASSUME TypeOK, QueueInv, HolderInv, [Next]_vars
             PROVE  HolderInv'
  OBVIOUS
<1> USE DEF TypeOK, HolderInv
<1>1. \A c \in Clients : IfaceOf[c] \in Ifaces
  BY DEF Ifaces
<1>2. ASSUME NEW c \in Clients, Work(c)
      PROVE  HolderInv'
  <2>1. CASE AnswerMetadata(c) \/ Refuse(c)
    BY <1>1, <2>1 DEF AnswerMetadata, Refuse, EndTask, WorkerGoes
  <2>2. CASE Admit(c)
    <3>1. /\ holder[IfaceOf[c]] = NoClient /\ worker[c] = "PIECE_REQ"
          /\ holder' = [holder EXCEPT ![IfaceOf[c]] = c]
          /\ worker' = [worker EXCEPT ![c] = "send"]
      BY <2>2 DEF Admit, InterfaceFree, WorkerGoes
    <3>2. \A d \in Clients : worker'[d] \in {"send", "blocked"} => holder'[IfaceOf[d]] = d
      BY <1>1, <3>1, NoClientAssumption
    <3>3. \A i \in Ifaces : holder'[i] # NoClient =>
            IfaceOf[holder'[i]] = i /\ worker'[holder'[i]] \in {"send", "blocked"}
      BY <1>1, <3>1
    <3>4. QED
      BY <3>2, <3>3
  <2>3. CASE (\E p \in Pieces : SendPiece(c, p)) \/ Block(c) \/ Wake(c)
    <3>1. /\ holder' = holder /\ worker[c] \in {"send", "blocked"}
          /\ \E to \in {"send", "blocked"} : worker' = [worker EXCEPT ![c] = to]
      BY <2>3 DEF SendPiece, Block, Wake, WorkerGoes
    <3>2. QED
      BY <3>1
  <2>4. CASE Finish(c)
    <3>1. /\ worker[c] = "send" /\ holder' = [holder EXCEPT ![IfaceOf[c]] = NoClient]
          /\ worker' = [worker EXCEPT ![c] = "none"]
      BY <2>4 DEF Finish, EndTask, WorkerGoes
    <3>2. \A d \in Clients : worker'[d] \in {"send", "blocked"} => holder'[IfaceOf[d]] = d
      BY <1>1, <3>1
    <3>3. \A i \in Ifaces : holder'[i] # NoClient =>
            IfaceOf[holder'[i]] = i /\ worker'[holder'[i]] \in {"send", "blocked"}
      BY <1>1, <3>1
    <3>4. QED
      BY <3>2, <3>3
  <2>5. QED
    BY <1>2, <2>1, <2>2, <2>3, <2>4 DEF Work
<1>3. CASE TakeTask
  <2>1. /\ holder' = holder /\ worker' = [worker EXCEPT ![Head(queue)[1]] = Head(queue)[2]]
        /\ queue # << >>
    BY <1>3 DEF TakeTask
  <2>2. worker[Head(queue)[1]] = "none"
    BY <2>1, FrontTask DEF QueueInv, Waiting
  <2>3. QED
    BY <2>1, <2>2, FrontTask
<1>4. ASSUME NEW c \in Clients, SendRequest(c)
      PROVE  HolderInv'
  BY <1>4 DEF SendRequest
<1>5. ASSUME NEW p \in Pieces, Arrive(p)
      PROVE  HolderInv'
  BY <1>5 DEF Arrive
<1>6. CASE Downloaded \/ WaitReturns \/ UNCHANGED vars
  BY <1>6 DEF Downloaded, WaitReturns, vars
<1>7. QED
  BY <1>2, <1>3, <1>4, <1>5, <1>6 DEF Next

\* No more workers than there are.
LEMMA PoolStep ==
  ASSUME TypeOK, QueueInv, [Next]_vars
  PROVE  (active_tasks <= threads)'
<1>1. active_tasks = Cardinality(Occupied) /\ active_tasks' = Cardinality(Occupied')
  BY DEF active_tasks, Occupied
<1>2. threads \in Nat /\ active_tasks <= threads
  BY PoolAssumption DEF TypeOK
<1>3. CASE TakeTask
  <2>1. Occupied' = Occupied \cup {Head(queue)[1]}
    BY <1>3, FrontTask DEF TakeTask, Occupied, TypeOK
  <2>2. Head(queue)[1] \in Clients /\ active_tasks < threads
    BY <1>3, FrontTask DEF TakeTask, IdleWorker
  <2>3. Cardinality(Occupied') <= Cardinality(Occupied) + 1 /\ Cardinality(Occupied') \in Nat
    <3>1. IsFiniteSet(Occupied')
      BY <2>1, WorkerSets, FS_AddElement
    <3>2. QED
      BY <2>1, <2>2, <3>1, WorkerSets, FS_CardinalityType
  <2>4. QED
    BY <1>1, <1>2, <2>2, <2>3, WorkerSets
<1>4. CASE ~TakeTask
  <2>1. ASSUME NEW c \in Clients, Work(c)
        PROVE  Occupied' \subseteq Occupied
    <3>1. worker[c] # "none" /\ \E to \in {"none", "send", "blocked"} :
            worker' = [worker EXCEPT ![c] = to]
      BY <2>1 DEF Work, AnswerMetadata, Refuse, Admit, SendPiece, Block, Wake, Finish,
         EndTask, WorkerGoes
    <3>2. QED
      BY <3>1 DEF Occupied, TypeOK
  <2>2. ASSUME NEW c \in Clients, SendRequest(c)
        PROVE  worker' = worker
    BY <2>2 DEF SendRequest
  <2>3. ASSUME NEW p \in Pieces, Arrive(p)
        PROVE  worker' = worker
    BY <2>3 DEF Arrive
  <2>4. ASSUME Downloaded \/ WaitReturns \/ UNCHANGED vars
        PROVE  worker' = worker
    BY <2>4 DEF Downloaded, WaitReturns, vars
  <2>5. Occupied' \subseteq Occupied
    <3>1. worker' = worker => Occupied' = Occupied
      BY DEF Occupied
    <3>2. \/ Occupied' \subseteq Occupied
          \/ worker' = worker
      BY <1>4, <2>1, <2>2, <2>3, <2>4 DEF Next
    <3>3. QED
      BY <3>1, <3>2
  <2>6. QED
    BY <1>1, <1>2, <2>5, WorkerSets
<1>5. QED
  BY <1>3, <1>4

\* A step keeps the types, if it keeps the queue in order.
LEMMA TypeStep ==
  ASSUME TypeOK, QueueInv, QueueInv', [Next]_vars
  PROVE  TypeOK'
<1> USE DEF TypeOK
<1>1. CountedOnce'
  BY OnceQueued, PTL
<1>2. (active_tasks <= threads)'
  BY PoolStep
<1>3. \/ UNCHANGED <<asks, worker, holder, have, sent, main>>
      \/ /\ asks' \in [Clients -> {"META_REQ", "PIECE_REQ", "waits", "nothing"}]
         /\ worker' \in [Clients -> {"none", "META_REQ", "PIECE_REQ", "send", "blocked"}]
         /\ holder' \in [Ifaces -> Clients \cup {NoClient}]
         /\ have' \subseteq Pieces /\ sent' \in [Clients -> SUBSET Pieces]
         /\ main' \in {"download", "wait", "reconstruct"}
  <2>1. ASSUME NEW c \in Clients, Work(c)
        PROVE  /\ asks' \in [Clients -> {"META_REQ", "PIECE_REQ", "waits", "nothing"}]
               /\ worker' \in [Clients -> {"none", "META_REQ", "PIECE_REQ", "send", "blocked"}]
               /\ holder' \in [Ifaces -> Clients \cup {NoClient}]
               /\ sent' \in [Clients -> SUBSET Pieces]
               /\ UNCHANGED <<have, main>>
    BY <2>1 DEF Work, AnswerMetadata, Refuse, Admit, SendPiece, Block, Wake, Finish,
       EndTask, WorkerGoes, Sendable
  <2>2. ASSUME NEW c \in Clients, SendRequest(c)
        PROVE  /\ asks' \in [Clients -> {"META_REQ", "PIECE_REQ", "waits", "nothing"}]
               /\ UNCHANGED <<worker, holder, have, sent, main>>
    BY <2>2 DEF SendRequest
  <2>3. CASE TakeTask
    BY <2>3, FrontTask DEF TakeTask
  <2>4. CASE (\E p \in Pieces : Arrive(p)) \/ Downloaded \/ WaitReturns \/ UNCHANGED vars
    BY <2>4 DEF Arrive, Downloaded, WaitReturns, vars
  <2>5. QED
    BY <2>1, <2>2, <2>3, <2>4 DEF Next
<1>4. QED
  BY <1>1, <1>2, <1>3 DEF CountedOnce

\* Nobody has asked for anything yet.
LEMMA InitInv == Init => IndInv
<1> SUFFICES ASSUME Init
             PROVE  IndInv
  OBVIOUS
<1>1. QueueInv
  BY DEF Init, QueueInv, Waiting
<1>2. HolderInv
  BY DEF Init, HolderInv, Ifaces
<1>3. active_tasks <= threads
  <2>1. {c \in Clients : worker[c] # "none"} = {}
    BY DEF Init
  <2>2. QED
    BY <2>1, FS_EmptySet, PoolAssumption DEF active_tasks
<1>4. TypeOK
  BY <1>1, <1>3, OnceQueued DEF Init, TypeOK, CountedOnce
<1>5. QED
  BY <1>1, <1>2, <1>4 DEF IndInv

-----------------------------------------------------------------------------
(* The theorems.                                                             *)

\* The inductive invariant of the pool and its clients.
THEOREM Inductive == Spec => []IndInv
<1>1. IndInv /\ [Next]_vars => IndInv'
  BY QueueStep, HolderStep, TypeStep DEF IndInv
<1>2. QED
  BY InitInv, <1>1, PTL DEF Spec

\* Of every request that waits, one task is queued or one worker has it, and
\* no more workers are busy than there are.
THEOREM TypeCorrect == Spec => []TypeOK
<1>1. IndInv => TypeOK
  BY DEF IndInv
<1>2. QED
  BY Inductive, <1>1, PTL

\* Two workers never sleep over the pieces of one interface.
THEOREM FewSleepers == Spec => []SleepersBounded
<1>1. IndInv => SleepersBounded
  BY DEF IndInv, HolderInv, SleepersBounded
<1>2. QED
  BY Inductive, <1>1, PTL

\* Every step of the pool is a step of PieceService, or none.
LEMMA ServiceStep == IndInv /\ [Next]_vars => [Service!Next]_Service!vars
<1> SUFFICES ASSUME IndInv, [Next]_vars
             PROVE  [Service!Next]_Service!vars
  OBVIOUS
<1> DEFINE serving == {holder[i] : i \in Ifaces} \ {NoClient}
           finished == {c \in Clients : asks[c] = "nothing"}
<1> USE DEF IndInv, TypeOK
<1>1. \A c \in Clients : IfaceOf[c] \in Ifaces
  BY DEF Ifaces
<1>2. \A c \in serving : /\ c \in Clients /\ holder[IfaceOf[c]] = c
                         /\ worker[c] \in {"send", "blocked"}
  BY DEF HolderInv
<1>3. \A c \in Clients : worker[c] \in {"send", "blocked"} => c \in serving
  BY <1>1, NoClientAssumption DEF HolderInv
<1>4. ASSUME NEW p \in Pieces, Arrive(p)
      PROVE  Service!Arrive(p)
  BY <1>4 DEF Arrive, Service!Arrive
<1>5. ASSUME NEW c \in Clients, SendRequest(c)
      PROVE  UNCHANGED Service!vars
  <2>1. finished' = finished
    BY <1>5 DEF SendRequest
  <2>2. QED
    BY <1>5, <2>1 DEF SendRequest, Service!vars
<1>6. ASSUME TakeTask \/ Downloaded \/ WaitReturns \/ UNCHANGED vars
      PROVE  UNCHANGED Service!vars
  BY <1>6 DEF TakeTask, Downloaded, WaitReturns, vars, Service!vars
<1>7. ASSUME NEW c \in Clients, Work(c)
      PROVE  [Service!Next]_Service!vars
  <2>1. CASE AnswerMetadata(c) \/ Refuse(c)
    <3>1. /\ asks[c] = "waits" /\ asks' = [asks EXCEPT ![c] = "PIECE_REQ"]
          /\ UNCHANGED <<have, sent, holder>>
      BY <2>1 DEF AnswerMetadata, Refuse, EndTask, WorkerGoes, QueueInv
    <3>2. finished' = finished
      BY <3>1
    <3>3. QED
      BY <3>1, <3>2 DEF Service!vars
  <2>2. CASE Admit(c)
    <3>1. /\ holder[IfaceOf[c]] = NoClient /\ have # {} /\ worker[c] = "PIECE_REQ"
          /\ holder' = [holder EXCEPT ![IfaceOf[c]] = c]
          /\ UNCHANGED <<have, sent, asks>>
      BY <2>2 DEF Admit, InterfaceFree, WorkerGoes
    <3>2. c \notin serving \cup finished
      BY <1>2, <3>1 DEF QueueInv
    <3>3. \A d \in serving : IfaceOf[d] # IfaceOf[c]
      BY <1>2, <3>1, NoClientAssumption
    <3>4. serving' = serving \cup {c}
      BY <1>1, <3>1, NoClientAssumption
    <3>5. Service!Admit(c)
      BY <3>1, <3>2, <3>3, <3>4 DEF Service!Admit
    <3>6. QED
      BY <3>5 DEF Service!Next
  <2>3. ASSUME NEW p \in Pieces, SendPiece(c, p)
        PROVE  Service!Deliver(c, p)
    BY <1>3, <2>3 DEF SendPiece, Sendable, WorkerGoes, Service!Deliver
  <2>4. CASE Block(c) \/ Wake(c)
    BY <2>4 DEF Block, Wake, WorkerGoes, Service!vars
  <2>5. CASE Finish(c)
    <3>1. /\ worker[c] = "send" /\ sent[c] = Pieces
          /\ holder' = [holder EXCEPT ![IfaceOf[c]] = NoClient]
          /\ asks' = [asks EXCEPT ![c] = "nothing"]
          /\ UNCHANGED <<have, sent>>
      BY <2>5 DEF Finish, Served, EndTask, WorkerGoes
    <3>2. finished' = finished \cup {c}
      BY <3>1
    <3>3. serving' = serving \ {c}
      <4>1. holder[IfaceOf[c]] = c /\ \A i \in Ifaces : holder[i] = c => i = IfaceOf[c]
        BY <3>1, NoClientAssumption DEF HolderInv
      <4>2. \A i \in Ifaces : holder'[i] = IF i = IfaceOf[c] THEN NoClient ELSE holder[i]
        BY <3>1
      <4>3. QED
        BY <1>1, <4>1, <4>2
    <3>4. Service!Finish(c)
      BY <1>3, <3>1, <3>2, <3>3 DEF Service!Finish
    <3>5. QED
      BY <3>4 DEF Service!Next
  <2>6. QED
    BY <1>7, <2>1, <2>2, <2>3, <2>4, <2>5 DEF Work, Service!Next
<1>8. QED
  BY <1>4, <1>5, <1>6, <1>7 DEF Next, Service!Next

\* Clients that share a pool of workers are served as PieceService promises.
THEOREM PoolImplementsService == Spec => ImplementsService
<1>1. Init => Service!Init
  BY DEF Init, Service!Init
<1>2. QED
  BY Inductive, <1>1, ServiceStep, PTL DEF Spec, Service!Spec, ImplementsService
=============================================================================
