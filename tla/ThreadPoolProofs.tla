-------------------------- MODULE ThreadPoolProofs --------------------------
(* The safety of the ThreadPool, for any number of workers and tasks: the    *)
(* queue is drained before join() returns, wait() is a barrier, and no queued *)
(* task is left without a worker while one sleeps.                            *)
EXTENDS ThreadPool, FiniteSetTheorems, TLAPS

\* The workers active_tasks counts.
Occupied == {w \in Workers : worker[w] \in {"run", "uncount"}}
CountInv == active_tasks = Cardinality(Occupied)

\* Only a worker that runs one has a task in hand.
HandInv == \A w \in Workers : worker[w] # "run" => running[w] = {}

\* A worker returns only from a pool that is stopped and empty, and a stopped
\* pool gets no more tasks.
DrainInv ==
  /\ stop => listener = "ended"
  /\ \A w \in Workers : worker[w] = "exited" => stop /\ tasks = << >>
  /\ main = "joined" => \A w \in Workers : worker[w] = "exited"

\* What was in the pool when wait() was called is still there or has run.
OwedInv == main \in {"wait", "asleep"} => owed \subseteq Enqueued

IndInv ==
  TypeOK /\ CountInv /\ HandInv /\ DrainInv /\ OwedInv /\ NoTaskLeftBehind

-----------------------------------------------------------------------------
(* Sets of workers.                                                          *)

\* Any set of workers is finite, and grows by one when a worker joins it.
LEMMA WorkerSets ==
  ASSUME NEW S \in SUBSET Workers
  PROVE  /\ IsFiniteSet(S) /\ Cardinality(S) \in Nat
         /\ \A w \in Workers \ S : Cardinality(S \cup {w}) = Cardinality(S) + 1
         /\ \A w \in S : /\ Cardinality(S \ {w}) = Cardinality(S) - 1
                         /\ Cardinality(S) > 0
<1>1. IsFiniteSet(S)
  BY WorkersAssumption, FS_Subset
<1>2. Cardinality(S) \in Nat
  BY <1>1, FS_CardinalityType
<1>3. ASSUME NEW w \in Workers \ S
      PROVE  Cardinality(S \cup {w}) = Cardinality(S) + 1
  BY <1>1, <1>3, FS_AddElement
<1>4. ASSUME NEW w \in S
      PROVE  Cardinality(S \ {w}) = Cardinality(S) - 1 /\ Cardinality(S) > 0
  <2>1. Cardinality(S \ {w}) = Cardinality(S) - 1
    BY <1>1, <1>4, FS_RemoveElement
  <2>2. Cardinality(S \ {w}) \in Nat
    BY <1>1, FS_RemoveElement, FS_CardinalityType
  <2>3. QED
    BY <1>2, <2>1, <2>2
<1>5. QED
  BY <1>1, <1>2, <1>3, <1>4

\* The queue, as a set, when its head is taken and when a task is appended.
LEMMA HeadAndTail ==
  ASSUME TypeOK, NEW t \in Tasks
  PROVE  /\ tasks = << >> => Queued = {}
         /\ tasks # << >> => Queued \subseteq {Tail(tasks)[i] : i \in 1 .. Len(Tail(tasks))}
                                                 \cup {Head(tasks)}
         /\ Queued \subseteq {Append(tasks, t)[i] : i \in 1 .. Len(Append(tasks, t))}
<1>1. tasks = << >> => Queued = {}
  BY DEF TypeOK, Queued
<1>2. ASSUME tasks # << >>, NEW i \in 1 .. Len(tasks)
      PROVE  \/ tasks[i] = Head(tasks)
             \/ /\ i - 1 \in 1 .. Len(Tail(tasks))
                /\ Tail(tasks)[i - 1] = tasks[i]
  BY <1>2 DEF TypeOK
<1>3. ASSUME NEW i \in 1 .. Len(tasks)
      PROVE  /\ i \in 1 .. Len(Append(tasks, t))
             /\ Append(tasks, t)[i] = tasks[i]
  BY DEF TypeOK
<1>4. QED
  BY <1>1, <1>2, <1>3 DEF Queued

-----------------------------------------------------------------------------
(* active_tasks and the tasks in hand.                                       *)

\* active_tasks counts the workers that have a task: a worker counts itself
\* and takes its task in one critical section.
LEMMA CountStep == TypeOK /\ CountInv /\ [Next]_vars => CountInv'
<1> SUFFICES ASSUME TypeOK, CountInv, [Next]_vars
             PROVE  CountInv'
  OBVIOUS
<1> USE DEF CountInv
<1>1. ASSUME NEW w \in Workers, Take(w)
      PROVE  CountInv'
  <2>1. Occupied' = Occupied \cup {w}
    BY <1>1 DEF Take, Go, Occupied, TypeOK
  <2>2. w \in Workers \ Occupied
    BY <1>1 DEF Take, Go, Occupied
  <2>3. Cardinality(Occupied \cup {w}) = Cardinality(Occupied) + 1
    BY <2>2, WorkerSets DEF Occupied
  <2>4. QED
    BY <1>1, <2>1, <2>3 DEF Take, Counted
<1>2. ASSUME NEW w \in Workers, Uncount(w)
      PROVE  CountInv'
  <2>1. Occupied' = Occupied \ {w}
    BY <1>2 DEF Uncount, Go, Occupied, TypeOK
  <2>2. w \in Occupied
    BY <1>2 DEF Uncount, Go, Occupied
  <2>3. Cardinality(Occupied \ {w}) = Cardinality(Occupied) - 1
    BY <2>2, WorkerSets DEF Occupied
  <2>4. QED
    BY <1>2, <2>1, <2>3 DEF Uncount
<1>3. ASSUME NEW w \in Workers, Sleep(w) \/ Exit(w) \/ Finish(w) \/ SpuriousWake(w)
      PROVE  Occupied' = Occupied /\ active_tasks' = active_tasks
  BY <1>3 DEF Sleep, Exit, Finish, SpuriousWake, Go, Occupied, TypeOK, poolVars
<1>4. ASSUME NotifyOne \/ NotifyAll
      PROVE  Occupied' = Occupied /\ active_tasks' = active_tasks
  BY <1>4 DEF NotifyOne, NotifyAll, Occupied, TypeOK, poolVars
<1>5. CASE \/ \E t \in Tasks : Push(t)
           \/ ListenerEnds \/ CallWait \/ WaitSleep \/ WaitReturn \/ Joined
           \/ WaitSpuriousWake \/ Stop \/ Terminated \/ UNCHANGED vars
  <2>1. UNCHANGED <<worker, active_tasks>>
    BY <1>5 DEF Push, ListenerEnds, CallWait, WaitSleep, WaitReturn, Joined,
       WaitSpuriousWake, Stop, Terminated, vars, poolVars
  <2>2. QED
    BY <2>1 DEF Occupied
<1>6. QED
  BY <1>1, <1>2, <1>3, <1>4, <1>5 DEF Next, Work, InCall

\* A worker's hand is empty except while it runs its task.
LEMMA HandStep == TypeOK /\ HandInv /\ [Next]_vars => HandInv'
<1> SUFFICES ASSUME TypeOK, HandInv, [Next]_vars
             PROVE  HandInv'
  OBVIOUS
<1>1. ASSUME NEW w \in Workers, Work(w) \/ SpuriousWake(w)
      PROVE  HandInv'
  BY <1>1 DEF Work, Take, Sleep, Exit, Finish, Uncount, SpuriousWake, Go, HandInv, TypeOK
<1>2. CASE NotifyOne \/ NotifyAll
  BY <1>2 DEF NotifyOne, NotifyAll, HandInv, TypeOK
<1>3. CASE \/ \E t \in Tasks : Push(t)
           \/ ListenerEnds \/ CallWait \/ WaitSleep \/ WaitReturn \/ Joined
           \/ WaitSpuriousWake \/ Stop \/ Terminated \/ UNCHANGED vars
  BY <1>3 DEF Push, ListenerEnds, CallWait, WaitSleep, WaitReturn, Joined,
     WaitSpuriousWake, Stop, Terminated, vars, HandInv
<1>4. QED
  BY <1>1, <1>2, <1>3 DEF Next, InCall

-----------------------------------------------------------------------------
(* The end of the pool, and wait().                                          *)

\* Once stopped, the pool gets no task any more, and who has left it left it
\* empty.
LEMMA DrainStep == TypeOK /\ DrainInv /\ [Next]_vars => DrainInv'
<1> SUFFICES ASSUME TypeOK, DrainInv, [Next]_vars
             PROVE  DrainInv'
  OBVIOUS
<1>1. ASSUME NEW t \in Tasks, Push(t)
      PROVE  DrainInv'
  BY <1>1 DEF Push, DrainInv
<1>2. ASSUME NEW w \in Workers, Work(w) \/ SpuriousWake(w)
      PROVE  DrainInv'
  BY <1>2 DEF Work, Take, Sleep, Exit, StoppedAndDrained, Finish, Uncount,
     SpuriousWake, Go, poolVars, DrainInv, TypeOK
<1>3. CASE NotifyOne \/ NotifyAll
  BY <1>3 DEF NotifyOne, NotifyAll, MainGo, poolVars, DrainInv, TypeOK
<1>4. CASE Joined \/ Stop
  BY <1>4 DEF Joined, Stop, MainGo, poolVars, DrainInv
<1>5. CASE \/ ListenerEnds \/ CallWait \/ WaitSleep \/ WaitReturn
           \/ WaitSpuriousWake \/ Terminated \/ UNCHANGED vars
  BY <1>5 DEF ListenerEnds, CallWait, WaitSleep, WaitReturn, MainGo,
     WaitSpuriousWake, Terminated, vars, poolVars, DrainInv
<1>6. QED
  BY <1>1, <1>2, <1>3, <1>4, <1>5 DEF Next, InCall

\* No step takes a task out of the pool before it has run.
LEMMA EnqueuedGrows ==
  TypeOK /\ HandInv /\ [Next]_vars => Enqueued \subseteq Enqueued'
<1> SUFFICES ASSUME TypeOK, HandInv, [Next]_vars
             PROVE  Enqueued \subseteq Enqueued'
  OBVIOUS
<1>1. ASSUME NEW t \in Tasks, Push(t)
      PROVE  Queued \subseteq Queued' /\ UNCHANGED <<running, finished>>
  BY <1>1, HeadAndTail DEF Push, Queued
<1>2. ASSUME NEW w \in Workers, Take(w)
      PROVE  Enqueued \subseteq Enqueued'
  <2>1. Queued \subseteq Queued' \cup {Head(tasks)}
    <3>1. Head(tasks) \in Tasks
      BY <1>2 DEF Take, TypeOK
    <3>2. QED
      BY <1>2, <3>1, HeadAndTail DEF Take, Queued
  <2>2. running[w] = {} /\ running'[w] = {Head(tasks)}
    BY <1>2 DEF Take, Go, HandInv, TypeOK
  <2>3. \A v \in Workers : running[v] \subseteq running'[v]
    BY <1>2, <2>2 DEF Take, TypeOK
  <2>4. InHand \cup {Head(tasks)} \subseteq InHand'
    BY <2>2, <2>3 DEF InHand
  <2>5. QED
    BY <1>2, <2>1, <2>4 DEF Take, Enqueued
<1>3. ASSUME NEW w \in Workers, Finish(w)
      PROVE  Enqueued \subseteq Enqueued'
  <2>1. \A v \in Workers : running[v] \subseteq running'[v] \cup finished'
    BY <1>3 DEF Finish, TypeOK
  <2>2. InHand \subseteq InHand' \cup finished'
    BY <2>1 DEF InHand
  <2>3. QED
    BY <1>3, <2>2 DEF Finish, poolVars, Enqueued, Queued
<1>4. ASSUME NEW w \in Workers, Sleep(w) \/ Exit(w) \/ Uncount(w) \/ SpuriousWake(w)
      PROVE  UNCHANGED <<tasks, running, finished>>
  BY <1>4 DEF Sleep, Exit, Uncount, SpuriousWake, poolVars
<1>5. CASE \/ NotifyOne \/ NotifyAll
           \/ ListenerEnds \/ CallWait \/ WaitSleep \/ WaitReturn \/ Joined
           \/ WaitSpuriousWake \/ Stop \/ Terminated \/ UNCHANGED vars
  BY <1>5 DEF NotifyOne, NotifyAll, ListenerEnds, CallWait, WaitSleep, WaitReturn,
     Joined, WaitSpuriousWake, Stop, Terminated, vars, poolVars, Enqueued, Queued, InHand
<1>6. UNCHANGED <<tasks, running, finished>> => Enqueued \subseteq Enqueued'
  BY DEF Enqueued, Queued, InHand
<1>7. Queued \subseteq Queued' /\ UNCHANGED <<running, finished>>
        => Enqueued \subseteq Enqueued'
  BY DEF Enqueued, InHand
<1>8. QED
  BY <1>1, <1>2, <1>3, <1>4, <1>5, <1>6, <1>7 DEF Next, Work, InCall

\* What was in the pool when wait() was called stays there until it has run.
LEMMA OwedStep == TypeOK /\ HandInv /\ OwedInv /\ [Next]_vars => OwedInv'
<1> SUFFICES ASSUME TypeOK, HandInv, OwedInv, [Next]_vars
             PROVE  OwedInv'
  OBVIOUS
<1>1. Enqueued \subseteq Enqueued'
  BY EnqueuedGrows
<1>2. CASE CallWait
  BY <1>1, <1>2 DEF CallWait, OwedInv, Enqueued
<1>3. CASE ~CallWait
  <2>1. owed' = owed /\ (main' \in {"wait", "asleep"} => main \in {"wait", "asleep"})
    BY <1>3 DEF Next, Work, InCall, Push, NotifyOne, ListenerEnds, Take, Sleep, Exit,
       Finish, Uncount, SpuriousWake, WaitSleep, WaitReturn, NotifyAll, Joined,
       WaitSpuriousWake, Stop, Terminated, MainGo, vars, poolVars
  <2>2. QED
    BY <1>1, <2>1 DEF OwedInv
<1>4. QED
  BY <1>2, <1>3

-----------------------------------------------------------------------------
(* Types: that active_tasks stays a natural number needs CountInv.           *)

\* No step leaves the types; the counter of busy workers stays a number.
LEMMA TypeStep == TypeOK /\ CountInv /\ [Next]_vars => TypeOK'
<1> SUFFICES ASSUME TypeOK, CountInv, [Next]_vars
             PROVE  TypeOK'
  OBVIOUS
<1>1. active_tasks' \in Nat
  <2>1. Occupied' \in SUBSET Workers
    BY DEF Occupied
  <2>2. Cardinality(Occupied') \in Nat
    BY <2>1, WorkerSets
  <2>3. QED
    BY <2>2, CountStep DEF CountInv
<1>2. ASSUME NEW t \in Tasks, Push(t)
      PROVE  TypeOK'
  BY <1>1, <1>2 DEF Push, TypeOK
<1>3. ASSUME NEW w \in Workers, Take(w)
      PROVE  TypeOK'
  <2>1. Head(tasks) \in Tasks /\ Tail(tasks) \in Seq(Tasks)
    BY <1>3 DEF Take, TypeOK
  <2>2. QED
    BY <1>1, <1>3, <2>1 DEF Take, Go, TypeOK
<1>4. ASSUME NEW w \in Workers,
             Sleep(w) \/ Exit(w) \/ Finish(w) \/ Uncount(w) \/ SpuriousWake(w)
      PROVE  TypeOK'
  BY <1>1, <1>4 DEF Sleep, Exit, Finish, Uncount, SpuriousWake, Go, poolVars, TypeOK
<1>5. CASE NotifyOne \/ NotifyAll
  BY <1>1, <1>5 DEF NotifyOne, NotifyAll, MainGo, poolVars, TypeOK
<1>6. CASE CallWait
  BY <1>1, <1>6 DEF CallWait, MainGo, poolVars, TypeOK, Queued, InHand
<1>7. CASE \/ ListenerEnds \/ WaitSleep \/ WaitReturn \/ Joined
           \/ WaitSpuriousWake \/ Stop \/ Terminated \/ UNCHANGED vars
  BY <1>1, <1>7 DEF ListenerEnds, WaitSleep, WaitReturn, Joined, WaitSpuriousWake,
     Stop, MainGo, Terminated, vars, poolVars, TypeOK
<1>8. QED
  BY <1>2, <1>3, <1>4, <1>5, <1>6, <1>7 DEF Next, Work, InCall

-----------------------------------------------------------------------------
(* Every queued task has a worker of its own while any worker sleeps.        *)

\* A task that is queued while a worker sleeps has woken somebody.
LEMMA QueueStep == TypeOK /\ NoTaskLeftBehind /\ [Next]_vars => NoTaskLeftBehind'
<1> SUFFICES ASSUME TypeOK, NoTaskLeftBehind, [Next]_vars,
                    NEW s \in Workers, worker'[s] = "asleep"
             PROVE  Len(tasks') <= Cardinality(Awake') + Notifying'
  BY DEF NoTaskLeftBehind
<1> DEFINE Covered == Len(tasks) <= Cardinality(Awake) + Notifying
           Covered1 == Len(tasks') <= Cardinality(Awake') + Notifying'
<1>1. /\ Cardinality(Awake) \in Nat /\ Cardinality(Awake') \in Nat
      /\ Notifying \in 0 .. 1 /\ Notifying' \in 0 .. 1 /\ Len(tasks) \in Nat
  BY WorkerSets DEF Awake, Notifying, TypeOK
<1>2. \A w \in Workers \ Awake : Cardinality(Awake \cup {w}) = Cardinality(Awake) + 1
  BY WorkerSets DEF Awake
<1>3. \A w \in Awake : Cardinality(Awake \ {w}) = Cardinality(Awake) - 1
  BY WorkerSets DEF Awake
<1>4. worker[s] = "asleep" => Covered
  BY DEF NoTaskLeftBehind
<1>5. ASSUME NEW t \in Tasks, Push(t)
      PROVE  Covered1
  <2>1. /\ worker[s] = "asleep" /\ Awake' = Awake
        /\ Len(tasks') = Len(tasks) + 1 /\ Notifying = 0 /\ Notifying' = 1
    BY <1>5 DEF Push, TypeOK, Awake, Notifying
  <2>2. QED
    BY <1>1, <1>4, <2>1
<1>6. CASE NotifyOne
  <2>1. worker[s] = "asleep" /\ SomeAsleep
    BY <1>6 DEF NotifyOne, SomeAsleep, TypeOK
  <2>2. PICK w \in Workers :
          worker[w] = "asleep" /\ worker' = [worker EXCEPT ![w] = "check"]
    BY <1>6, <2>1 DEF NotifyOne
  <2>3. Awake' = Awake \cup {w} /\ w \in Workers \ Awake
    BY <2>2 DEF Awake, TypeOK
  <2>4. tasks' = tasks /\ Notifying = 1 /\ Notifying' = 0
    BY <1>6 DEF NotifyOne, Notifying, poolVars
  <2>5. QED
    BY <1>1, <1>2, <1>4, <2>1, <2>3, <2>4
<1>7. ASSUME NEW w \in Workers, Take(w)
      PROVE  Covered1
  <2>1. worker[s] = "asleep" /\ Notifying' = Notifying
    BY <1>7 DEF Take, Go, TypeOK, Notifying
  <2>2. Awake' = Awake \ {w} /\ w \in Awake
    BY <1>7 DEF Take, Go, TypeOK, Awake
  <2>3. Len(tasks') = Len(tasks) - 1
    BY <1>7 DEF Take, TypeOK
  <2>4. QED
    BY <1>1, <1>3, <1>4, <2>1, <2>2, <2>3
<1>8. ASSUME NEW w \in Workers, Sleep(w) \/ Exit(w)
      PROVE  Covered1
  <2>1. Len(tasks') = 0
    BY <1>8 DEF Sleep, Exit, StoppedAndDrained, poolVars
  <2>2. QED
    BY <1>1, <2>1
<1>9. ASSUME NEW w \in Workers, Uncount(w) \/ SpuriousWake(w)
      PROVE  Covered1
  <2>1. worker[s] = "asleep" /\ Notifying' = Notifying /\ tasks' = tasks
    BY <1>9 DEF Uncount, SpuriousWake, Go, TypeOK, Notifying, poolVars
  <2>2. Awake' = Awake \cup {w} /\ w \in Workers \ Awake
    BY <1>9 DEF Uncount, SpuriousWake, Go, TypeOK, Awake
  <2>3. QED
    BY <1>1, <1>2, <1>4, <2>1, <2>2
<1>10. ASSUME NEW w \in Workers, Finish(w)
       PROVE  Covered1
  <2>1. /\ worker[s] = "asleep" /\ Notifying' = Notifying /\ tasks' = tasks
        /\ Awake' = Awake
    BY <1>10 DEF Finish, Go, TypeOK, Notifying, poolVars, Awake
  <2>2. QED
    BY <1>4, <2>1
<1>11. CASE NotifyAll
  BY <1>11 DEF NotifyAll
<1>12. CASE \/ ListenerEnds \/ CallWait \/ WaitSleep \/ WaitReturn \/ Joined
            \/ WaitSpuriousWake \/ Stop \/ Terminated \/ UNCHANGED vars
  <2>1. UNCHANGED <<worker, tasks>> /\ Notifying' = Notifying
    BY <1>12 DEF ListenerEnds, CallWait, WaitSleep, WaitReturn, Joined,
       WaitSpuriousWake, Stop, Terminated, vars, poolVars, Notifying
  <2>2. QED
    BY <1>4, <2>1 DEF Awake
<1>13. QED
  BY <1>5, <1>6, <1>7, <1>8, <1>9, <1>10, <1>11, <1>12 DEF Next, Work, InCall

-----------------------------------------------------------------------------
(* The theorems.                                                             *)

\* An empty pool.
LEMMA InitInv == Init => IndInv
<1> SUFFICES ASSUME Init
             PROVE  IndInv
  OBVIOUS
<1>1. TypeOK
  <2>1. tasks \in Seq(Tasks)
    BY DEF Init
  <2>2. /\ worker \in [Workers -> {"check", "asleep", "run", "uncount", "exited"}]
        /\ running \in [Workers -> SUBSET Tasks]
    BY DEF Init
  <2>3. QED
    BY <2>1, <2>2 DEF Init, TypeOK
<1>2. CountInv
  <2>1. Occupied = {}
    BY DEF Init, Occupied
  <2>2. QED
    BY <2>1, FS_EmptySet DEF CountInv, Init
<1>3. HandInv /\ DrainInv /\ OwedInv /\ NoTaskLeftBehind
  BY DEF Init, HandInv, DrainInv, OwedInv, NoTaskLeftBehind
<1>4. QED
  BY <1>1, <1>2, <1>3 DEF IndInv

\* The inductive invariant of the pool.
THEOREM Inductive == Spec => []IndInv
<1>1. IndInv /\ [Next]_vars => IndInv'
  BY TypeStep, CountStep, HandStep, DrainStep, OwedStep, QueueStep DEF IndInv
<1>2. QED
  BY InitInv, <1>1, PTL DEF Spec

\* active_tasks never goes below zero, and the queue holds only tasks that
\* were enqueued.
THEOREM TypeCorrect == Spec => []TypeOK
<1>1. IndInv => TypeOK
  BY DEF IndInv
<1>2. QED
  BY Inductive, <1>1, PTL

\* No queued task waits for a busy worker while another one sleeps.
THEOREM NoneLeftBehind == Spec => []NoTaskLeftBehind
<1>1. IndInv => NoTaskLeftBehind
  BY DEF IndInv
<1>2. QED
  BY Inductive, <1>1, PTL

\* When join() has returned, neither the queue nor a worker holds a task.
THEOREM Drained == Spec => []JoinedMeansDrained
<1>1. IndInv => JoinedMeansDrained
  <2> SUFFICES ASSUME IndInv, main = "joined"
               PROVE  Queued = {} /\ InHand = {}
    BY DEF JoinedMeansDrained
  <2>1. \A w \in Workers : worker[w] = "exited" /\ running[w] = {}
    BY DEF IndInv, DrainInv, HandInv
  <2>2. tasks = << >>
    BY <2>1, WorkersAssumption DEF IndInv, DrainInv
  <2>3. QED
    BY <2>1, <2>2 DEF Queued, InHand
<1>2. QED
  BY Inductive, <1>1, PTL

\* When wait() returns, every task that was in the pool at the call has run.
THEOREM Barrier == Spec => WaitIsABarrier
<1>1. IndInv /\ [Next]_vars
        => [main = "wait" /\ main' = "free" => owed \subseteq finished]_vars
  <2> SUFFICES ASSUME IndInv, [Next]_vars, main = "wait", main' = "free"
               PROVE  owed \subseteq finished
    OBVIOUS
  <2>1. Idle
    BY DEF Next, Work, InCall, Push, NotifyOne, ListenerEnds, Take, Sleep, Exit,
       Finish, Uncount, SpuriousWake, CallWait, WaitSleep, WaitReturn, NotifyAll,
       Joined, WaitSpuriousWake, Stop, Terminated, MainGo, vars, poolVars
  <2>2. Queued = {}
    BY <2>1 DEF Idle, Queued
  <2>3. Occupied = {}
    <3>1. Cardinality(Occupied) = 0 /\ IsFiniteSet(Occupied)
      BY <2>1, WorkerSets DEF IndInv, CountInv, Idle, Occupied
    <3>2. QED
      BY <3>1, FS_EmptySet
  <2>4. InHand = {}
    BY <2>3 DEF IndInv, HandInv, Occupied, InHand
  <2>5. QED
    BY <2>2, <2>4 DEF IndInv, OwedInv, Enqueued
<1>2. QED
  BY Inductive, <1>1, PTL DEF Spec, WaitIsABarrier
=============================================================================
