----------------------------- MODULE ThreadPool -----------------------------
(***************************************************************************)
(* The ThreadPool every node runs its request handlers on. The listener    *)
(* thread enqueues, the workers take and run, and the main thread calls    *)
(* wait() while the listener is still enqueueing, and join() (from the     *)
(* destructor) after the listener thread has been joined.                  *)
(*                                                                         *)
(* A step is one critical section of queue_mutex, one notification, or the *)
(* end of a task. A condition variable is the set of threads asleep on it. *)
(***************************************************************************)
EXTENDS Integers, FiniteSets, Sequences

CONSTANTS
  Workers,  \* workers
  Tasks     \* the tasks the listener may enqueue

ASSUME WorkersAssumption == IsFiniteSet(Workers) /\ Workers # {}
ASSUME TasksAssumption == IsFiniteSet(Tasks)

VARIABLES
  tasks,        \* the queue
  active_tasks,
  stop,
  worker,       \* control point of each worker
  running,      \* the tasks each worker has taken and not finished (at most one)
  listener,     \* control point of the enqueueing thread
  main,         \* control point of the main thread
  finished,     \* tasks that have run to their end
  owed          \* tasks that were in the pool when wait() was last called

poolVars == <<tasks, active_tasks, stop>>
vars == <<poolVars, worker, running, listener, main, finished, owed>>

Queued == {tasks[i] : i \in 1 .. Len(tasks)}
InHand == UNION {running[w] : w \in Workers}
Enqueued == Queued \cup InHand \cup finished
\* The predicate wait() sleeps on.
Idle == tasks = << >> /\ active_tasks = 0

Init ==
  /\ tasks = << >> /\ active_tasks = 0 /\ stop = FALSE
  /\ worker = [w \in Workers |-> "check"]
  /\ running = [w \in Workers |-> {}]
  /\ listener = "free" /\ main = "free"
  /\ finished = {} /\ owed = {}

-----------------------------------------------------------------------------
(* The listener thread.                                                    *)

\* enqueue, the critical section: one request has arrived.
Push(t) ==
  /\ listener = "free" /\ t \notin Enqueued
  /\ tasks' = Append(tasks, t)
  /\ listener' = "notify"
  /\ UNCHANGED <<active_tasks, stop, worker, running, main, finished, owed>>

\* Is there anybody to wake? Mutant: not worth it unless they all sleep.
AllAsleep == \A w \in Workers : worker[w] = "asleep"
SomeAsleep == \E w \in Workers : worker[w] = "asleep"

\* condition.notify_one, after the mutex was released.
NotifyOne ==
  /\ listener = "notify"
  /\ IF SomeAsleep
     THEN \E w \in Workers :
            worker[w] = "asleep" /\ worker' = [worker EXCEPT ![w] = "check"]
     ELSE UNCHANGED worker
  /\ listener' = "free"
  /\ UNCHANGED <<poolVars, running, main, finished, owed>>

\* The listener thread returns from start_listening.
ListenerEnds ==
  /\ listener = "free"
  /\ listener' = "ended"
  /\ UNCHANGED <<poolVars, worker, running, main, finished, owed>>

-----------------------------------------------------------------------------
(* A worker.                                                               *)

Go(w, from, to) == worker[w] = from /\ worker' = [worker EXCEPT ![w] = to]

\* active_tasks++. Mutant: it is left for later, outside the critical section.
NotCounted(n) == n
Counted(n) == n + 1

\* The first critical section, when there is a task.
Take(w) ==
  /\ tasks # << >>
  /\ Go(w, "check", "run")
  /\ tasks' = Tail(tasks)
  /\ running' = [running EXCEPT ![w] = {Head(tasks)}]
  /\ active_tasks' = Counted(active_tasks)
  /\ UNCHANGED <<stop, listener, main, finished, owed>>

\* condition.wait finds its predicate false and releases the mutex.
Sleep(w) ==
  /\ tasks = << >> /\ ~stop
  /\ Go(w, "check", "asleep")
  /\ UNCHANGED <<poolVars, running, listener, main, finished, owed>>

SpuriousWake(w) ==
  /\ Go(w, "asleep", "check")
  /\ UNCHANGED <<poolVars, running, listener, main, finished, owed>>

\* May a worker return? Mutant: it does not look at the queue first.
Stopped == stop
StoppedAndDrained == stop /\ tasks = << >>

Exit(w) ==
  /\ StoppedAndDrained
  /\ Go(w, "check", "exited")
  /\ UNCHANGED <<poolVars, running, listener, main, finished, owed>>

\* The task returns.
Finish(w) ==
  /\ Go(w, "run", "uncount")
  /\ finished' = finished \cup running[w]
  /\ running' = [running EXCEPT ![w] = {}]
  /\ UNCHANGED <<poolVars, listener, main, owed>>

\* Does the worker notify idle_condition? Mutant: only when it is stopped.
IdleAndStopped == Idle' /\ stop
BecomesIdle == Idle'

\* The second critical section.
Uncount(w) ==
  /\ Go(w, "uncount", "check")
  /\ active_tasks' = active_tasks - 1
  /\ tasks' = tasks
  /\ main' = IF main = "asleep" /\ BecomesIdle THEN "wait" ELSE main
  /\ UNCHANGED <<stop, running, listener, finished, owed>>

Work(w) == Take(w) \/ Sleep(w) \/ Exit(w) \/ Finish(w) \/ Uncount(w)

-----------------------------------------------------------------------------
(* The main thread.                                                        *)

MainGo(from, to) == main = from /\ main' = to

CallWait ==
  /\ MainGo("free", "wait")
  /\ owed' = Queued \cup InHand
  /\ UNCHANGED <<poolVars, worker, running, listener, finished>>

WaitSleep ==
  /\ ~Idle
  /\ MainGo("wait", "asleep")
  /\ UNCHANGED <<poolVars, worker, running, listener, finished, owed>>

WaitSpuriousWake ==
  /\ MainGo("asleep", "wait")
  /\ UNCHANGED <<poolVars, worker, running, listener, finished, owed>>

WaitReturn ==
  /\ Idle
  /\ MainGo("wait", "free")
  /\ UNCHANGED <<poolVars, worker, running, listener, finished, owed>>

\* join() runs in the destructor, after start() has joined the listener.
Stop ==
  /\ listener = "ended"
  /\ MainGo("free", "stopping")
  /\ stop' = TRUE
  /\ UNCHANGED <<tasks, active_tasks, worker, running, listener, finished, owed>>

NotifyAll ==
  /\ MainGo("stopping", "joining")
  /\ worker' = [w \in Workers |-> IF worker[w] = "asleep" THEN "check" ELSE worker[w]]
  /\ UNCHANGED <<poolVars, running, listener, finished, owed>>

Joined ==
  /\ \A w \in Workers : worker[w] = "exited"
  /\ MainGo("joining", "joined")
  /\ UNCHANGED <<poolVars, worker, running, listener, finished, owed>>

InCall == WaitSleep \/ WaitReturn \/ NotifyAll \/ Joined

Terminated == main = "joined" /\ UNCHANGED vars

Next ==
  \/ (\E t \in Tasks : Push(t)) \/ NotifyOne \/ ListenerEnds
  \/ \E w \in Workers : Work(w) \/ SpuriousWake(w)
  \/ CallWait \/ InCall \/ WaitSpuriousWake \/ Stop
  \/ Terminated

Spec == Init /\ [][Next]_vars

\* Threads that can run do, and every task returns. Nobody need enqueue, call
\* wait() or join(), or be woken spuriously.
FairSpec ==
  /\ Spec /\ WF_vars(NotifyOne) /\ WF_vars(InCall)
  /\ \A w \in Workers : WF_vars(Work(w))

-----------------------------------------------------------------------------
\* The types of the state; active_tasks is never decremented below zero.
TypeOK ==
  /\ tasks \in Seq(Tasks) /\ active_tasks \in Nat /\ stop \in BOOLEAN
  /\ worker \in [Workers -> {"check", "asleep", "run", "uncount", "exited"}]
  /\ running \in [Workers -> SUBSET Tasks]
  /\ listener \in {"free", "notify", "ended"}
  /\ main \in {"free", "wait", "asleep", "stopping", "joining", "joined"}
  /\ finished \subseteq Tasks /\ owed \subseteq Tasks

Awake == {w \in Workers : worker[w] = "check"}
Notifying == IF listener = "notify" THEN 1 ELSE 0

\* While a worker sleeps, every queued task has a worker of its own on the way:
\* one that is about to look at the queue or is about to be notified. Piece
\* requests block a worker for as long as the download lasts, so a task left
\* to the next worker that gets free might wait for the whole file.
NoTaskLeftBehind ==
  (\E w \in Workers : worker[w] = "asleep") =>
    Len(tasks) <= Cardinality(Awake) + Notifying

\* wait() returns only when every task that was in the pool at the call has
\* run: start() goes on to unmap the file those tasks send from.
WaitIsABarrier ==
  [][main = "wait" /\ main' = "free" => owed \subseteq finished]_vars

\* When join() returns, no task is left in the queue or in a worker's hands:
\* the objects the tasks refer to are destroyed next.
JoinedMeansDrained ==
  main = "joined" => Queued = {} /\ InHand = {}

\* Whatever is enqueued runs.
EveryTaskRuns == \A t \in Tasks : t \in Queued ~> t \in finished

\* wait() and join() return, provided tasks do.
CallsReturn ==
  /\ main = "wait" ~> main = "free"
  /\ main = "stopping" ~> main = "joined"
=============================================================================
