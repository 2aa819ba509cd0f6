-------------------------- MODULE CompletionProofs --------------------------
(* Why counting anonymous connections is enough to know that everybody has   *)
(* the file, for any number of nodes: no destination connects twice, so a    *)
(* full count is a connection from every destination, and who connects has   *)
(* written its timestamp.                                                    *)
EXTENDS Completion, FiniteSetTheorems, TLAPS

\* The destinations whose connection n's kernel has taken.
Callers(n) == {d \in Dests : n \in notified[d] /\ <<d, n>> \notin dropped}

\* Who downloads or has failed has told nobody; who is past its download has
\* written its timestamp. The source never downloads.
PhaseInv ==
  /\ \A d \in Dests :
       \/ main[d] \in {"off", "download", "catch", "terminated"} /\ notified[d] = {}
       \/ main[d] \in {"notify", "barrier", "asleep", "join", "exited"} /\ d \in timestamp
  /\ main[Source] \in {"off", "barrier", "asleep", "join", "exited"}

\* Nobody notifies itself, and a refused notification is not tried again.
NotifiedInv ==
  /\ \A d \in Dests : d \notin notified[d]
  /\ \A d \in Dests, n \in Nodes : <<d, n>> \in dropped => n \in notified[d]

\* A connection in the hands of n's completion thread.
InHand(n) == IF acceptor[n] = "count" THEN 1 ELSE 0

\* What n has counted, is about to count or may still accept came from callers,
\* one connection each.
TallyInv ==
  \A n \in Nodes : completed_nodes_[n] + InHand(n) + backlog[n] <= Cardinality(Callers(n))

\* Whoever is past its wait had a full count.
LeftInv == \A n \in Nodes : Left(n) => completed_nodes_[n] >= total_nodes_(n)

IndInv == TypeOK /\ PhaseInv /\ NotifiedInv /\ TallyInv /\ LeftInv

-----------------------------------------------------------------------------
(* Counting destinations.                                                    *)

\* total_nodes_ is the number of the other destinations.
LEMMA Expected ==
  ASSUME NEW n \in Nodes
  PROVE  /\ IsFiniteSet(Dests \ {n})
         /\ total_nodes_(n) = Cardinality(Dests \ {n})
         /\ total_nodes_(n) \in Nat
<1>1. IsFiniteSet(Dests) /\ Cardinality(Dests) = Cardinality(Nodes) - 1
  BY NodesAssumption, FS_RemoveElement DEF Dests
<1>2. /\ IsFiniteSet(Dests \ {n})
      /\ Cardinality(Dests \ {n})
           = IF n \in Dests THEN Cardinality(Dests) - 1 ELSE Cardinality(Dests)
  BY <1>1, FS_RemoveElement
<1>3. n \in Dests <=> n # Source
  BY DEF Dests
<1>4. Cardinality(Nodes) \in Nat /\ Cardinality(Dests \ {n}) \in Nat
  BY <1>2, NodesAssumption, FS_CardinalityType
<1>5. total_nodes_(n) = Cardinality(Dests \ {n})
  BY <1>1, <1>2, <1>3, <1>4 DEF total_nodes_
<1>6. QED
  BY <1>2, <1>4, <1>5

\* There are never more callers than other destinations, and as many only when
\* every one of them has called.
LEMMA FullCount ==
  ASSUME NotifiedInv, NEW n \in Nodes
  PROVE  /\ IsFiniteSet(Callers(n))
         /\ Cardinality(Callers(n)) \in Nat
         /\ Cardinality(Callers(n)) <= total_nodes_(n)
         /\ Cardinality(Callers(n)) = total_nodes_(n) => Callers(n) = Dests \ {n}
<1>1. Callers(n) \in SUBSET (Dests \ {n})
  BY DEF NotifiedInv, Callers
<1>2. IsFiniteSet(Dests \ {n}) /\ total_nodes_(n) = Cardinality(Dests \ {n})
  BY Expected
<1>3. /\ IsFiniteSet(Callers(n)) /\ Cardinality(Callers(n)) <= Cardinality(Dests \ {n})
      /\ Cardinality(Dests \ {n}) = Cardinality(Callers(n)) => Dests \ {n} = Callers(n)
  BY <1>1, <1>2, FS_Subset
<1>4. Cardinality(Callers(n)) \in Nat
  BY <1>3, FS_CardinalityType
<1>5. QED
  BY <1>2, <1>3, <1>4

-----------------------------------------------------------------------------
(* The inductive invariant.                                                  *)

\* Before anybody is started.
LEMMA InitInv == Init => IndInv
<1> SUFFICES ASSUME Init
             PROVE  IndInv
  OBVIOUS
<1>1. \A n \in Nodes : total_nodes_(n) \in Nat
  BY Expected
<1>2. TypeOK
  BY <1>1 DEF Init, TypeOK
<1>3. PhaseInv /\ NotifiedInv /\ LeftInv
  BY NodesAssumption DEF Init, PhaseInv, NotifiedInv, LeftInv, Left, Dests
<1>4. TallyInv
  <2> SUFFICES ASSUME NEW n \in Nodes
               PROVE  completed_nodes_[n] + InHand(n) + backlog[n] <= Cardinality(Callers(n))
    BY DEF TallyInv
  <2>1. Callers(n) = {}
    BY DEF Init, Callers
  <2>2. QED
    BY <2>1, FS_EmptySet DEF Init, InHand
<1>5. QED
  BY <1>2, <1>3, <1>4 DEF IndInv

\* The control points, the threads and the network each stay in their type.
LEMMA TypeStep ==
  ASSUME TypeOK, [Next]_vars, \A n \in Nodes : completed_nodes_'[n] <= total_nodes_(n)
  PROVE  TypeOK'
<1> USE DEF TypeOK, threadVars, netVars, Go, AcceptorGoes
<1>1. ASSUME NEW n \in Nodes, Main(n)
      PROVE  TypeOK'
  <2>1. CASE Start(n)
    BY <2>1 DEF Start
  <2>2. CASE AllNotified(n) \/ Sleep(n) \/ Leave(n) \/ Exit(n)
    BY <2>2 DEF AllNotified, Sleep, Leave, Exit
  <2>3. CASE n \in Dests /\ HasFile(n)
    BY <2>3 DEF HasFile
  <2>4. CASE n \in Dests /\ Terminate(n)
    BY <2>4 DEF Terminate
  <2>5. ASSUME n \in Dests, NEW m \in Nodes, Notify(n, m)
        PROVE  TypeOK'
    <3>1. notified' \in [Dests -> SUBSET Nodes]
      BY <2>5 DEF Notify
    <3>2. backlog' \in [Nodes -> Nat] /\ dropped' \subseteq Dests \X Nodes
      BY <2>5 DEF Notify
    <3>3. QED
      BY <2>5, <3>1, <3>2 DEF Notify
  <2>6. QED
    BY <1>1, <2>1, <2>2, <2>3, <2>4, <2>5 DEF Main
<1>2. ASSUME NEW n \in Nodes, Acceptor(n)
      PROVE  TypeOK'
  <2>1. CASE TestListening(n)
    BY <2>1 DEF TestListening
  <2>2. CASE Accept(n)
    BY <2>2 DEF Accept
  <2>3. CASE Count(n)
    BY <2>3 DEF Count, Noticed
  <2>4. QED
    BY <1>2, <2>1, <2>2, <2>3 DEF Acceptor
<1>3. ASSUME NEW n \in Nodes, SpuriousWake(n) \/ Fail(n)
      PROVE  TypeOK'
  BY <1>3 DEF SpuriousWake, Fail
<1>4. CASE UNCHANGED vars
  BY <1>4 DEF vars
<1>5. QED
  BY <1>1, <1>2, <1>3, <1>4 DEF Next, Dests

\* Only notify_completion opens connections.
LEMMA Others ==
  ASSUME [Next]_vars
  PROVE  \/ \E n \in Dests, m \in Nodes : Notify(n, m)
         \/ UNCHANGED <<notified, dropped>>
<1> USE DEF threadVars, netVars
<1>1. ASSUME NEW n \in Nodes, Main(n)
      PROVE  \/ n \in Dests /\ \E m \in Nodes : Notify(n, m)
             \/ UNCHANGED <<notified, dropped>>
  BY <1>1 DEF Main, Start, AllNotified, Sleep, Leave, Exit, HasFile, Terminate
<1>2. ASSUME NEW n \in Nodes, Acceptor(n) \/ SpuriousWake(n) \/ Fail(n)
      PROVE  UNCHANGED <<notified, dropped>>
  BY <1>2 DEF Acceptor, TestListening, Accept, Count, SpuriousWake, Fail
<1>3. CASE UNCHANGED vars
  BY <1>3 DEF vars
<1>4. QED
  BY <1>1, <1>2, <1>3 DEF Next, Dests

\* The control points of a destination follow start().
LEMMA PhaseStep == TypeOK /\ PhaseInv /\ [Next]_vars => PhaseInv'
<1> SUFFICES ASSUME TypeOK, PhaseInv, [Next]_vars
             PROVE  PhaseInv'
  OBVIOUS
<1> USE DEF TypeOK, PhaseInv, threadVars, netVars, Go, Dests
<1>1. ASSUME NEW n \in Nodes, Main(n)
      PROVE  PhaseInv'
  <2>1. CASE Start(n)
    BY <2>1 DEF Start
  <2>2. CASE AllNotified(n) \/ Sleep(n) \/ Leave(n) \/ Exit(n)
    <3>1. UNCHANGED <<notified, timestamp>>
      BY <2>2 DEF AllNotified, Sleep, Leave, Exit
    <3>2. /\ main[n] \in {"notify", "barrier", "asleep", "join", "exited"}
          /\ n = Source => main[n] # "notify"
      BY <2>2 DEF AllNotified, Sleep, Leave, Exit
    <3>3. \E to \in {"barrier", "asleep", "join", "exited"} :
             main' = [main EXCEPT ![n] = to]
      BY <2>2 DEF AllNotified, Sleep, Leave, Exit
    <3>4. QED
      BY <3>1, <3>2, <3>3
  <2>3. CASE n \in Dests /\ HasFile(n)
    BY <2>3 DEF HasFile
  <2>4. CASE n \in Dests /\ Terminate(n)
    BY <2>4 DEF Terminate
  <2>5. ASSUME n \in Dests, NEW m \in Nodes, Notify(n, m)
        PROVE  PhaseInv'
    <3>1. UNCHANGED <<main, timestamp>> /\ main[n] = "notify"
      BY <2>5 DEF Notify
    <3>2. \A d \in Dests : d # n => notified'[d] = notified[d]
      BY <2>5 DEF Notify
    <3>3. QED
      BY <3>1, <3>2
  <2>6. QED
    BY <1>1, <2>1, <2>2, <2>3, <2>4, <2>5 DEF Main
<1>2. ASSUME NEW n \in Nodes, Acceptor(n)
      PROVE  PhaseInv'
  <2>1. CASE TestListening(n) \/ Accept(n)
    BY <2>1 DEF TestListening, Accept
  <2>2. CASE Count(n)
    BY <2>2 DEF Count, Noticed
  <2>3. QED
    BY <1>2, <2>1, <2>2 DEF Acceptor
<1>3. ASSUME NEW n \in Nodes, SpuriousWake(n)
      PROVE  PhaseInv'
  BY <1>3 DEF SpuriousWake
<1>4. ASSUME NEW n \in Dests, Fail(n)
      PROVE  PhaseInv'
  BY <1>4 DEF Fail
<1>5. CASE UNCHANGED vars
  BY <1>5 DEF vars
<1>6. QED
  BY <1>1, <1>2, <1>3, <1>4, <1>5 DEF Next

\* notify_completion goes over every other node once.
LEMMA NotifiedStep == TypeOK /\ NotifiedInv /\ [Next]_vars => NotifiedInv'
<1> SUFFICES ASSUME TypeOK, NotifiedInv, [Next]_vars
             PROVE  NotifiedInv'
  OBVIOUS
<1>1. ASSUME NEW n \in Dests, NEW m \in Nodes, Notify(n, m)
      PROVE  NotifiedInv'
  <2>1. /\ n # m
        /\ \A d \in Dests : notified'[d] = IF d = n THEN notified[d] \cup {m} ELSE notified[d]
    BY <1>1 DEF Notify, TypeOK
  <2>2. dropped' \subseteq dropped \cup {<<n, m>>}
    BY <1>1 DEF Notify
  <2>3. QED
    BY <2>1, <2>2 DEF NotifiedInv
<1>2. CASE UNCHANGED <<notified, dropped>>
  BY <1>2 DEF NotifiedInv
<1>3. QED
  BY <1>1, <1>2, Others

\* How the three places of k's connections change while nobody connects.
Handed(k) ==
  \/ /\ completed_nodes_'[k] = completed_nodes_[k] /\ backlog'[k] = backlog[k]
     /\ InHand(k)' <= InHand(k)
  \/ /\ completed_nodes_'[k] = completed_nodes_[k] /\ backlog'[k] = backlog[k] - 1
     /\ InHand(k) = 0 /\ InHand(k)' = 1
  \/ /\ completed_nodes_'[k] = completed_nodes_[k] + 1 /\ backlog'[k] = backlog[k]
     /\ InHand(k) = 1 /\ InHand(k)' = 0

\* A connection goes from the backlog to the thread and from there to the count.
LEMMA HandStep ==
  ASSUME TypeOK, [Next]_vars, UNCHANGED <<notified, dropped>>, NEW k \in Nodes
  PROVE  Handed(k)
<1>1. ASSUME NEW n \in Nodes, Main(n)
      PROVE  Handed(k)
  <2>1. ~ \E m \in Nodes : n \in Dests /\ Notify(n, m)
    BY DEF Notify, TypeOK
  <2>2. UNCHANGED <<completed_nodes_, backlog>>
    BY <1>1, <2>1 DEF Main, Start, AllNotified, Sleep, Leave, Exit, HasFile, Terminate,
       threadVars, netVars
  <2>3. \/ acceptor' = acceptor
        \/ \E to \in {"test", "gone"} : acceptor' = [acceptor EXCEPT ![n] = to]
    BY <1>1, <2>1 DEF Main, Start, AllNotified, Sleep, Leave, Exit, HasFile, Terminate,
       AcceptorGoes, threadVars
  <2>4. acceptor'[k] = "count" => acceptor[k] = "count"
    BY <2>3 DEF TypeOK
  <2>5. QED
    BY <2>2, <2>4 DEF Handed, InHand
<1>2. ASSUME NEW n \in Nodes, Acceptor(n)
      PROVE  Handed(k)
  <2> USE DEF AcceptorGoes, netVars, TypeOK
  <2>1. CASE n # k
    <3>1. /\ completed_nodes_'[k] = completed_nodes_[k] /\ backlog'[k] = backlog[k]
          /\ acceptor'[k] = acceptor[k]
      BY <1>2, <2>1 DEF Acceptor, TestListening, Accept, Count
    <3>2. QED
      BY <3>1 DEF Handed, InHand
  <2>2. CASE TestListening(k)
    BY <2>2 DEF TestListening, Handed, InHand
  <2>3. CASE Accept(k)
    BY <2>3 DEF Accept, Handed, InHand
  <2>4. CASE Count(k)
    BY <2>4 DEF Count, Handed, InHand
  <2>5. QED
    BY <1>2, <2>1, <2>2, <2>3, <2>4 DEF Acceptor
<1>3. ASSUME NEW n \in Nodes, SpuriousWake(n) \/ Fail(n)
      PROVE  Handed(k)
  BY <1>3 DEF SpuriousWake, Fail, threadVars, netVars, InHand, Handed
<1>4. CASE UNCHANGED vars
  BY <1>4 DEF vars, threadVars, netVars, InHand, Handed
<1>5. QED
  BY <1>1, <1>2, <1>3, <1>4 DEF Next, Dests

\* The completion thread counts what it accepts, and accepts what was queued.
LEMMA TallyStep ==
  TypeOK /\ NotifiedInv /\ TallyInv /\ [Next]_vars => TallyInv'
<1> SUFFICES ASSUME TypeOK, NotifiedInv, TallyInv, [Next]_vars, NEW k \in Nodes
             PROVE  (completed_nodes_[k] + InHand(k) + backlog[k] <= Cardinality(Callers(k)))'
  BY DEF TallyInv
<1> DEFINE tally == completed_nodes_[k] + InHand(k) + backlog[k]
<1>1. /\ completed_nodes_[k] \in Nat /\ backlog[k] \in Nat /\ InHand(k) \in Nat
      /\ tally <= Cardinality(Callers(k))
  BY DEF TypeOK, TallyInv, InHand
<1>2. ASSUME NEW n \in Dests, NEW m \in Nodes, Notify(n, m)
      PROVE  tally' <= Cardinality(Callers(k)')
  <2>1. UNCHANGED <<completed_nodes_, acceptor>>
    BY <1>2 DEF Notify, threadVars
  <2>2. m \notin notified[n] /\ <<n, m>> \notin dropped
    BY <1>2 DEF Notify, NotifiedInv
  <2>3. \A d \in Dests : notified'[d] = IF d = n THEN notified[d] \cup {m} ELSE notified[d]
    BY <1>2 DEF Notify, TypeOK
  <2>4. IsFiniteSet(Callers(k)) /\ Cardinality(Callers(k)) \in Nat
    BY FullCount
  <2>5. CASE k = m /\ Reachable(m)
    <3>1. Callers(k)' = Callers(k) \cup {n}
      BY <1>2, <2>3, <2>2, <2>5 DEF Callers, Notify
    <3>2. n \notin Callers(k)
      BY <2>2, <2>5 DEF Callers
    <3>3. Cardinality(Callers(k)') = Cardinality(Callers(k)) + 1
      BY <2>4, <3>1, <3>2, FS_AddElement
    <3>4. backlog'[k] = backlog[k] + 1 /\ InHand(k)' = InHand(k)
      BY <1>2, <2>1, <2>5 DEF Notify, InHand, TypeOK
    <3>5. QED
      BY <1>1, <2>1, <2>4, <3>3, <3>4
  <2>6. CASE ~(k = m /\ Reachable(m))
    <3>1. Callers(k)' = Callers(k)
      BY <1>2, <2>2, <2>3, <2>6 DEF Callers, Notify
    <3>2. backlog'[k] = backlog[k] /\ InHand(k)' = InHand(k)
      BY <1>2, <2>1, <2>6 DEF Notify, InHand, TypeOK
    <3>3. QED
      BY <1>1, <2>1, <3>1, <3>2
  <2>7. QED
    BY <2>5, <2>6
<1>3. ASSUME UNCHANGED <<notified, dropped>>
      PROVE  tally' <= Cardinality(Callers(k)')
  <2>1. Callers(k)' = Callers(k) /\ Cardinality(Callers(k)) \in Nat
    BY <1>3, FullCount DEF Callers
  <2>2. InHand(k)' \in Nat
    BY DEF InHand
  <2>3. QED
    BY <1>1, <1>3, <2>1, <2>2, HandStep DEF Handed
<1>4. QED
  BY <1>2, <1>3, Others

\* The count only grows, and only Leave takes a node past its wait.
LEMMA LeftStep == TypeOK /\ LeftInv /\ [Next]_vars => LeftInv'
<1> SUFFICES ASSUME TypeOK, LeftInv, [Next]_vars, NEW k \in Nodes, Left(k)'
             PROVE  completed_nodes_'[k] >= total_nodes_(k)
  BY DEF LeftInv
<1>1. completed_nodes_[k] \in Nat /\ total_nodes_(k) \in Nat
  BY Expected DEF TypeOK
<1>2. completed_nodes_'[k] = completed_nodes_[k] \/ completed_nodes_'[k] = completed_nodes_[k] + 1
  <2>1. \/ completed_nodes_' = completed_nodes_
        \/ \E n \in Nodes : completed_nodes_' = [completed_nodes_ EXCEPT ![n] = @ + 1]
    <3>1. ASSUME NEW n \in Nodes, Main(n) \/ SpuriousWake(n) \/ Fail(n)
          PROVE  completed_nodes_' = completed_nodes_
      BY <3>1 DEF Main, Start, AllNotified, Sleep, Leave, Exit, HasFile, Terminate, Notify,
         SpuriousWake, Fail, threadVars
    <3>2. ASSUME NEW n \in Nodes, Acceptor(n)
          PROVE  \/ completed_nodes_' = completed_nodes_
                 \/ completed_nodes_' = [completed_nodes_ EXCEPT ![n] = @ + 1]
      BY <3>2 DEF Acceptor, TestListening, Accept, Count
    <3>3. QED
      BY <3>1, <3>2 DEF Next, vars, threadVars, Dests
  <2>2. QED
    BY <2>1 DEF TypeOK
<1>3. CASE Leave(k)
  BY <1>1, <1>2, <1>3 DEF Leave
<1>4. CASE ~Leave(k)
  <2> USE DEF Left, Go, threadVars, netVars, TypeOK
  <2>1. ASSUME NEW n \in Nodes, Main(n)
        PROVE  Left(k)
    <3>1. CASE Start(n)
      BY <3>1 DEF Start
    <3>2. CASE AllNotified(n) \/ Sleep(n) \/ Exit(n)
      BY <3>2 DEF AllNotified, Sleep, Exit
    <3>3. CASE Leave(n)
      BY <1>4, <3>3 DEF Leave
    <3>4. CASE HasFile(n) \/ Terminate(n) \/ \E m \in Nodes : Notify(n, m)
      BY <3>4 DEF HasFile, Terminate, Notify
    <3>5. QED
      BY <2>1, <3>1, <3>2, <3>3, <3>4 DEF Main
  <2>2. ASSUME NEW n \in Nodes, Acceptor(n) \/ SpuriousWake(n) \/ Fail(n)
        PROVE  Left(k)
    BY <2>2 DEF Acceptor, TestListening, Accept, Count, Noticed, SpuriousWake, Fail
  <2>3. Left(k)
    BY <2>1, <2>2 DEF Next, vars, Dests
  <2>4. QED
    BY <1>1, <1>2, <2>3 DEF LeftInv
<1>5. QED
  BY <1>3, <1>4

\* What the counting says of a node that is past its wait: every other
\* destination has connected to it.
LEMMA LeftHeardAll ==
  ASSUME IndInv, NEW n \in Nodes, Left(n)
  PROVE  Callers(n) = Dests \ {n}
<1>1. /\ completed_nodes_[n] \in Nat /\ backlog[n] \in Nat /\ InHand(n) \in Nat
      /\ completed_nodes_[n] + InHand(n) + backlog[n] <= Cardinality(Callers(n))
      /\ completed_nodes_[n] >= total_nodes_(n)
  BY DEF IndInv, TypeOK, TallyInv, LeftInv, InHand
<1>2. total_nodes_(n) \in Nat
  BY Expected
<1>3. QED
  BY <1>1, <1>2, FullCount DEF IndInv

-----------------------------------------------------------------------------
(* The theorems.                                                             *)

\* The inductive invariant of the completion barrier.
THEOREM Inductive == Spec => []IndInv
<1>1. IndInv /\ [Next]_vars => IndInv'
  <2> SUFFICES ASSUME IndInv, [Next]_vars
               PROVE  IndInv'
    OBVIOUS
  <2>1. PhaseInv' /\ NotifiedInv' /\ TallyInv' /\ LeftInv'
    BY PhaseStep, NotifiedStep, TallyStep, LeftStep DEF IndInv
  <2>2. \A n \in Nodes : completed_nodes_'[n] <= total_nodes_(n)
    <3> SUFFICES ASSUME NEW n \in Nodes
                 PROVE  completed_nodes_'[n] <= total_nodes_(n)
      OBVIOUS
    <3>1. /\ completed_nodes_[n] \in Nat /\ backlog[n] \in Nat /\ total_nodes_(n) \in Nat
          /\ completed_nodes_[n] <= total_nodes_(n)
      BY Expected DEF IndInv, TypeOK
    <3>2. CASE \E d \in Dests, m \in Nodes : Notify(d, m)
      BY <3>1, <3>2 DEF Notify, threadVars
    <3>3. CASE UNCHANGED <<notified, dropped>>
      <4>1. Handed(n)
        BY <3>3, HandStep DEF IndInv
      <4>2. completed_nodes_[n] + InHand(n) + backlog[n] <= total_nodes_(n)
        <5>1. /\ completed_nodes_[n] + InHand(n) + backlog[n] <= Cardinality(Callers(n))
              /\ InHand(n) \in Nat
          BY DEF IndInv, TallyInv, InHand
        <5>2. QED
          BY <3>1, <5>1, FullCount DEF IndInv
      <4>3. QED
        BY <3>1, <4>1, <4>2 DEF Handed
    <3>4. QED
      BY <3>2, <3>3, Others
  <2>3. QED
    BY <2>1, <2>2, TypeStep DEF IndInv
<1>2. QED
  BY InitInv, <1>1, PTL DEF Spec

\* The state stays in its type, and no node counts more connections than it
\* waits for.
THEOREM TypeCorrect == Spec => []TypeOK
<1>1. IndInv => TypeOK
  BY DEF IndInv
<1>2. QED
  BY Inductive, <1>1, PTL

\* A node stops serving only when every destination has the file.
THEOREM BarrierHolds == Spec => []NobodyLeavesEarly
<1>1. IndInv => NobodyLeavesEarly
  <2> SUFFICES ASSUME IndInv, NEW n \in Nodes, Left(n), NEW d \in Dests
               PROVE  d \in timestamp
    BY DEF NobodyLeavesEarly
  <2>1. d # n => notified[d] # {}
    BY LeftHeardAll DEF Callers
  <2>2. d = n => main[d] \in {"join", "exited"}
    BY DEF Left
  <2>3. QED
    BY <2>1, <2>2 DEF IndInv, PhaseInv
<1>2. QED
  BY Inductive, <1>1, PTL

\* A node that exits the ordinary way has already heard from everybody, so
\* that nobody is refused by it.
THEOREM RefusedByAbsent == Spec => DroppedOnlyByAbsent
<1>1. ASSUME IndInv, [Next]_vars, NEW n \in Dests, NEW m \in Nodes,
             <<n, m>> \in dropped' \ dropped
      PROVE  main[m] \in {"off", "terminated"}
  <2>1. PICK d \in Dests, k \in Nodes : Notify(d, k)
    BY <1>1, Others
  <2>2. Notify(n, m) /\ ~Reachable(m)
    <3>1. ~Reachable(k) /\ dropped' = dropped \cup {<<d, k>>}
      BY <1>1, <2>1 DEF Notify
    <3>2. n = d /\ m = k
      BY <1>1, <3>1
    <3>3. QED
      BY <2>1, <3>1, <3>2
  <2>3. main[m] # "exited"
    <3> SUFFICES ASSUME main[m] = "exited"
                 PROVE  FALSE
      OBVIOUS
    <3>1. n \in Callers(m)
      BY <1>1, <2>2, LeftHeardAll DEF Left, Notify
    <3>2. QED
      BY <2>2, <3>1 DEF Callers, Notify
  <2>4. QED
    BY <2>2, <2>3 DEF Reachable
<1>2. IndInv /\ [Next]_vars
        => [\A n \in Dests, m \in Nodes :
              <<n, m>> \in dropped' \ dropped => main[m] \in {"off", "terminated"}]_vars
  BY <1>1
<1>3. QED
  BY Inductive, <1>2, PTL DEF Spec, DroppedOnlyByAbsent
=============================================================================
