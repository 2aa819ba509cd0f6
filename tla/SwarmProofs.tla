---------------------------- MODULE SwarmProofs ----------------------------
(* Pieces flow down from the node that took a destination's request, and    *)
(* transfers never form a circle, for any nodes, neighbours and interfaces. *)
EXTENDS Swarm, TLAPS

SlotType ==
  /\ slot = [s \in Nodes |-> slot[s]]
  /\ \A s \in Nodes : slot[s] \in [Ifaces(s) -> Nodes \cup {NoNode}]

Waiting == {"off", "meta", "ask", "failed"}

\* A node nobody has accepted has no piece and no upstream; a node that was
\* accepted has an upstream, and that has a piece.
PhaseInv ==
  \A n \in Dests :
    IF phase[n] \in Waiting
    THEN have[n] = {} /\ upstream[n] = NoNode
    ELSE upstream[n] \in Nodes /\ have[upstream[n]] # {}

IndInv == TypeOK /\ SlotType /\ PhaseInv /\ PiecesFlowDown

\* Whom a node asks, or will ask next, is one of its neighbours.
LEMMA TargetIsNode ==
  ASSUME TypeOK, NEW n \in Dests
  PROVE  /\ Target(n) \in Nodes
         /\ Onward(n) \in Nat \ {0} /\ Onward(n) <= Len(Neighbors[n])
<1> USE NeighborsAssumption
<1>1. Neighbors[n] \in Seq(Nodes) /\ Neighbors[n] # << >>
  OBVIOUS
<1>2. Len(Neighbors[n]) \in Nat \ {0}
  BY <1>1
<1>3. asking[n] \in Nat \ {0} /\ asking[n] <= Len(Neighbors[n])
  BY DEF TypeOK
<1>4. Target(n) \in Nodes
  BY <1>1, <1>2, <1>3 DEF Target
<1>5. QED
  BY <1>2, <1>3, <1>4 DEF Onward

\* No step leaves the types.
LEMMA TypeStep == TypeOK /\ SlotType /\ [Next]_vars => TypeOK' /\ SlotType'
<1> SUFFICES ASSUME TypeOK, SlotType, [Next]_vars
             PROVE  TypeOK' /\ SlotType'
  OBVIOUS
<1> USE DEF TypeOK, SlotType, Phases, Go
<1>1. ASSUME NEW n \in Nodes, Start(n) PROVE TypeOK' /\ SlotType'
  BY <1>1 DEF Start
<1>2. ASSUME NEW n \in Dests, GetMetadata(n) PROVE TypeOK' /\ SlotType'
  BY <1>2 DEF GetMetadata, Dests
<1>3. ASSUME NEW n \in Dests, GiveUp(n) PROVE TypeOK' /\ SlotType'
  BY <1>3 DEF GiveUp, Dests
<1>4. ASSUME NEW n \in Dests, Refused(n) PROVE TypeOK' /\ SlotType'
  BY <1>4, TargetIsNode DEF Refused
<1>5. ASSUME NEW n \in Dests, Accepted(n) PROVE TypeOK' /\ SlotType'
  <2>1. Target(n) \in Nodes /\ n \in Nodes
    BY TargetIsNode DEF Dests
  <2>2. TypeOK'
    BY <1>5, <2>1 DEF Accepted, Dests
  <2>3. SlotType'
    BY <1>5, <2>1 DEF Accepted, Ifaces
  <2>4. QED
    BY <2>2, <2>3
<1>6. ASSUME NEW n \in Dests, NEW p \in Pieces, Transfer(n, p)
      PROVE  TypeOK' /\ SlotType'
  BY <1>6 DEF Transfer, Dests
<1>7. ASSUME NEW n \in Dests, Downloaded(n) PROVE TypeOK' /\ SlotType'
  BY <1>7 DEF Downloaded, Dests
<1>8. ASSUME NEW s \in Nodes, NEW i \in Ifaces(s), Release(s, i)
      PROVE  TypeOK' /\ SlotType'
  BY <1>8 DEF Release
<1>9. CASE UNCHANGED vars
  BY <1>9 DEF vars
<1>10. QED
  BY <1>1, <1>2, <1>3, <1>4, <1>5, <1>6, <1>7, <1>8, <1>9
     DEF Next, Download, Finished

\* Only destinations that were not accepted before change their upstream, and
\* pieces are only added: those the upstream has.
LEMMA PhaseStep == IndInv /\ [Next]_vars => PhaseInv'
<1> SUFFICES ASSUME IndInv, [Next]_vars PROVE PhaseInv'
  OBVIOUS
<1> USE DEF IndInv, TypeOK, PhaseInv, Waiting, Go, Dests
<1>1. ASSUME NEW n \in Nodes, Start(n) PROVE PhaseInv'
  BY <1>1 DEF Start
<1>2. ASSUME NEW n \in Dests, GetMetadata(n) \/ GiveUp(n) PROVE PhaseInv'
  BY <1>2 DEF GetMetadata, GiveUp
<1>3. ASSUME NEW n \in Dests, Refused(n) PROVE PhaseInv'
  BY <1>3 DEF Refused
<1>4. ASSUME NEW n \in Dests, Accepted(n) PROVE PhaseInv'
  <2>1. Target(n) \in Nodes /\ have[Target(n)] # {}
    BY <1>4, TargetIsNode DEF Accepted, Accepts, HasSome
  <2>2. QED
    BY <1>4, <2>1 DEF Accepted
<1>5. ASSUME NEW n \in Dests, NEW p \in Pieces, Transfer(n, p) PROVE PhaseInv'
  BY <1>5 DEF Transfer
<1>6. ASSUME NEW n \in Dests, Downloaded(n) PROVE PhaseInv'
  BY <1>6 DEF Downloaded
<1>7. ASSUME NEW s \in Nodes, NEW i \in Ifaces(s), Release(s, i) PROVE PhaseInv'
  BY <1>7 DEF Release
<1>8. CASE UNCHANGED vars
  BY <1>8 DEF vars
<1>9. QED
  BY <1>1, <1>2, <1>3, <1>4, <1>5, <1>6, <1>7, <1>8 DEF Next, Download, Finished

\* A node's pieces stay among its upstream's, and its interface stays its own
\* while it still lacks a piece.
LEMMA FlowStep == IndInv /\ [Next]_vars => PiecesFlowDown'
<1> SUFFICES ASSUME IndInv, [Next]_vars PROVE PiecesFlowDown'
  OBVIOUS
<1> USE SourceAssumption DEF IndInv, TypeOK, PiecesFlowDown, Go, Dests
<1>1. ASSUME NEW n \in Nodes, Start(n) PROVE PiecesFlowDown'
  BY <1>1 DEF Start
<1>2. ASSUME NEW n \in Dests, GetMetadata(n) \/ GiveUp(n) PROVE PiecesFlowDown'
  BY <1>2 DEF GetMetadata, GiveUp
<1>3. ASSUME NEW n \in Dests, Refused(n) PROVE PiecesFlowDown'
  BY <1>3 DEF Refused
<1>4. ASSUME NEW n \in Dests, Accepted(n) PROVE PiecesFlowDown'
  <2> DEFINE s == Target(n)
  <2>1. s \in Nodes /\ slot[s][IfaceAt[s][n]] = NoNode
    BY <1>4, TargetIsNode DEF Accepted, Accepts, FreeFor
  <2>2. have[n] = {} /\ have' = have
    BY <1>4 DEF Accepted, PhaseInv, Waiting
  <2>3. /\ upstream' = [upstream EXCEPT ![n] = s]
        /\ slot' = [slot EXCEPT ![s][IfaceAt[s][n]] = n]
        /\ phase' = [phase EXCEPT ![n] = "transfer"]
    BY <1>4 DEF Accepted
  <2> HIDE DEF s
  <2>4. slot'[s][IfaceAt[s][n]] = n
    <3>1. IfaceAt[s][n] \in Ifaces(s)
      BY DEF Ifaces
    <3>2. s \in DOMAIN slot /\ IfaceAt[s][n] \in DOMAIN slot[s]
      BY <2>1, <3>1 DEF SlotType
    <3>3. QED
      BY <2>3, <3>2
  <2>5. ASSUME NEW m \in Dests, m # n, phase[m] = "transfer", have[m] # Pieces
        PROVE  slot'[upstream[m]][IfaceAt[upstream[m]][m]] = m
    <3>1. upstream[m] \in Nodes /\ slot[upstream[m]][IfaceAt[upstream[m]][m]] = m
      BY <2>5
    <3>2. upstream[m] # s \/ IfaceAt[upstream[m]][m] # IfaceAt[s][n]
      BY <3>1, <2>1
    <3>3. QED
      BY <3>1, <3>2, <2>1, <2>3 DEF SlotType, Ifaces
  <2>6. QED
    BY <2>1, <2>2, <2>3, <2>4, <2>5
<1>5. ASSUME NEW n \in Dests, NEW p \in Pieces, Transfer(n, p)
      PROVE  PiecesFlowDown'
  <2>1. /\ p \in have[upstream[n]] /\ upstream[n] \in Nodes
        /\ have' = [have EXCEPT ![n] = @ \cup {p}]
        /\ UNCHANGED <<phase, upstream, slot>>
    BY <1>5 DEF Transfer, Offered
  <2>2. ASSUME NEW m \in Dests, have'[m] # {}
        PROVE  upstream[m] # NoNode /\ have'[m] \subseteq have'[upstream[m]]
    <3>1. upstream[m] \in Nodes
      BY <2>1, <2>2, NeighborsAssumption DEF PhaseInv, Waiting, Phases
    <3>2. have[m] \subseteq have[upstream[m]]
      BY <3>1
    <3>3. QED
      BY <2>1, <3>1, <3>2
  <2>3. ASSUME NEW m \in Dests, phase[m] = "transfer", have'[m] # Pieces
        PROVE  slot[upstream[m]][IfaceAt[upstream[m]][m]] = m
    <3>1. CASE m = n
      <4>1. phase[n] = "transfer" /\ have[n] # Pieces
        BY <1>5 DEF Transfer, Offered
      <4>2. QED
        BY <4>1, <3>1
    <3>2. CASE m # n
      BY <3>2, <2>1, <2>3
    <3>3. QED
      BY <3>1, <3>2
  <2>4. QED
    BY <2>1, <2>2, <2>3
<1>6. ASSUME NEW n \in Dests, Downloaded(n) PROVE PiecesFlowDown'
  BY <1>6 DEF Downloaded
<1>7. ASSUME NEW s \in Nodes, NEW i \in Ifaces(s), Release(s, i)
      PROVE  PiecesFlowDown'
  <2>1. /\ have[slot[s][i]] = Pieces
        /\ slot' = [slot EXCEPT ![s][i] = NoNode]
        /\ UNCHANGED <<phase, have, upstream>>
    BY <1>7 DEF Release
  <2>2. ASSUME NEW m \in Dests, phase[m] = "transfer", have[m] # Pieces
        PROVE  slot'[upstream[m]][IfaceAt[upstream[m]][m]] = m
    <3>1. slot[upstream[m]][IfaceAt[upstream[m]][m]] = m /\ upstream[m] \in Nodes
      BY <2>2
    <3>2. upstream[m] # s \/ IfaceAt[upstream[m]][m] # i
      BY <3>1, <2>1, <2>2
    <3>3. QED
      BY <3>1, <3>2, <2>1 DEF SlotType, Ifaces
  <2>3. QED
    BY <2>1, <2>2
<1>8. CASE UNCHANGED vars
  BY <1>8 DEF vars
<1>9. QED
  BY <1>1, <1>2, <1>3, <1>4, <1>5, <1>6, <1>7, <1>8 DEF Next, Download, Finished

\* Before anybody is started.
LEMMA InitInv == Init => IndInv
<1> SUFFICES ASSUME Init PROVE IndInv
  OBVIOUS
<1> USE SourceAssumption, NeighborsAssumption DEF Init, Dests
<1>1. TypeOK
  <2>1. ASSUME NEW n \in Dests PROVE 1 <= Len(Neighbors[n])
    <3>1. Neighbors[n] \in Seq(Nodes) /\ Neighbors[n] # << >>
      OBVIOUS
    <3>2. QED
      BY <3>1
  <2>2. QED
    BY <2>1 DEF TypeOK, Phases
<1>2. SlotType
  BY DEF SlotType
<1>3. PhaseInv /\ PiecesFlowDown
  BY DEF PhaseInv, PiecesFlowDown, Waiting
<1>4. QED
  BY <1>1, <1>2, <1>3 DEF IndInv

\* The conjunction of the above is inductive.
THEOREM Inductive == Spec => []IndInv
<1>1. IndInv /\ [Next]_vars => IndInv'
  BY TypeStep, PhaseStep, FlowStep DEF IndInv
<1>2. QED
  BY InitInv, <1>1, PTL DEF Spec

\* The state of every node stays in its type.
THEOREM TypeCorrect == Spec => []TypeOK
<1>1. IndInv => TypeOK
  BY DEF IndInv
<1>2. QED
  BY Inductive, <1>1, PTL

\* A node's pieces are always among its upstream's, over the interface that the
\* upstream keeps for it.
THEOREM FlowsDown == Spec => []PiecesFlowDown
<1>1. IndInv => PiecesFlowDown
  BY DEF IndInv
<1>2. QED
  BY Inductive, <1>1, PTL

\* A new transfer cannot close a circle: the node that starts it has no piece
\* yet, so nobody downloads from it, and the circle was there without it.
LEMMA CycleStep == IndInv /\ NoCyclicTransfer /\ [Next]_vars => NoCyclicTransfer'
<1> SUFFICES ASSUME IndInv, NoCyclicTransfer, [Next]_vars,
                    NEW S \in SUBSET Dests, S # {},
                    \A n \in S : phase'[n] = "transfer" /\ upstream'[n] \in S
             PROVE  FALSE
  BY DEF NoCyclicTransfer
<1> USE DEF IndInv, TypeOK, Go, Dests
<1>1. ASSUME \A n \in S : phase[n] = "transfer" /\ upstream[n] = upstream'[n]
      PROVE  FALSE
  BY <1>1 DEF NoCyclicTransfer
<1>2. ASSUME NEW n \in Dests, Accepted(n) PROVE FALSE
  <2>1. /\ phase[n] = "ask" /\ have[n] = {}
        /\ phase' = [phase EXCEPT ![n] = "transfer"]
        /\ upstream' = [upstream EXCEPT ![n] = Target(n)]
    BY <1>2 DEF Accepted, PhaseInv, Waiting
  <2>2. have[Target(n)] # {}
    BY <1>2 DEF Accepted, Accepts, HasSome
  <2>3. \A m \in S : upstream'[m] # n
    <3>1. ASSUME NEW m \in S, m # n, upstream'[m] = n PROVE FALSE
      <4>1. phase[m] = "transfer" /\ upstream[m] = n
        BY <2>1, <3>1
      <4>2. QED
        BY <4>1, <2>1 DEF PhaseInv, Waiting
    <3>2. QED
      BY <3>1, <2>1, <2>2
  <2>4. \A m \in S \ {n} : phase[m] = "transfer" /\ upstream[m] \in S \ {n}
    BY <2>1, <2>3
  <2>5. S \ {n} # {}
    BY <2>3
  <2>6. QED
    BY <2>4, <2>5 DEF NoCyclicTransfer
<1>3. ASSUME NEW n \in Nodes, Start(n) PROVE FALSE
  BY <1>1, <1>3 DEF Start
<1>4. ASSUME NEW n \in Dests,
             GetMetadata(n) \/ GiveUp(n) \/ Refused(n) \/ Downloaded(n)
      PROVE  FALSE
  BY <1>1, <1>4 DEF GetMetadata, GiveUp, Refused, Downloaded
<1>5. ASSUME NEW n \in Dests, NEW p \in Pieces, Transfer(n, p) PROVE FALSE
  BY <1>1, <1>5 DEF Transfer
<1>6. ASSUME NEW s \in Nodes, NEW i \in Ifaces(s), Release(s, i) PROVE FALSE
  BY <1>1, <1>6 DEF Release
<1>7. CASE UNCHANGED vars
  BY <1>1, <1>7 DEF vars
<1>8. QED
  BY <1>2, <1>3, <1>4, <1>5, <1>6, <1>7 DEF Next, Download, Finished

\* Nodes never download from each other in a circle.
THEOREM NoCycle == Spec => []NoCyclicTransfer
<1>1. Init => NoCyclicTransfer
  BY DEF Init, NoCyclicTransfer, Dests
<1>2. QED
  BY Inductive, <1>1, CycleStep, PTL DEF Spec

\* Only a node that nobody has accepted yet gets an upstream.
THEOREM OneUpstream == Spec => UpstreamFixed
<1>1. ASSUME IndInv, [Next]_vars, NEW n \in Dests, upstream[n] # NoNode
      PROVE  upstream'[n] = upstream[n]
  <2>1. ASSUME NEW m \in Dests, Accepted(m)
        PROVE  m # n /\ upstream'[n] = upstream[n]
    BY <1>1, <2>1 DEF Accepted, Go, IndInv, TypeOK, PhaseInv, Waiting
  <2>2. ASSUME ~ \E m \in Dests : Accepted(m)
        PROVE  upstream' = upstream
    BY <1>1, <2>2 DEF Next, Start, Download, GetMetadata, GiveUp, Refused, Transfer,
       Downloaded, Release, Finished, vars
  <2>3. QED
    BY <2>1, <2>2
<1>2. IndInv /\ [Next]_vars
        => [\A n \in Dests : upstream[n] # NoNode => upstream'[n] = upstream[n]]_vars
  BY <1>1
<1>3. QED
  BY Inductive, <1>2, PTL DEF Spec, UpstreamFixed

-----------------------------------------------------------------------------
(* Every node serves its neighbours as PieceService promises.                *)

\* Who holds an interface connects to that one and was accepted there.
SlotInv ==
  \A s \in Nodes : \A i \in Ifaces(s) : slot[s][i] # NoNode =>
    /\ slot[s][i] \in Dests
    /\ IfaceAt[s][slot[s][i]] = i /\ upstream[slot[s][i]] = s

\* An interface changes hands only by a request that is accepted.
LEMMA SlotStep == IndInv /\ SlotInv /\ [Next]_vars => SlotInv'
<1> SUFFICES ASSUME IndInv, SlotInv, [Next]_vars
             PROVE  SlotInv'
  OBVIOUS
<1>1. ASSUME NEW n \in Dests, Accepted(n)
      PROVE  SlotInv'
  <2>1. PICK t \in Nodes : t = Target(n)
    BY TargetIsNode DEF IndInv
  <2>2. /\ upstream[n] = NoNode /\ upstream' = [upstream EXCEPT ![n] = t]
        /\ slot' = [slot EXCEPT ![t][IfaceAt[t][n]] = n]
    BY <1>1, <2>1 DEF Accepted, Go, IndInv, PhaseInv, Waiting
  <2>3. ASSUME NEW s \in Nodes, NEW i \in Ifaces(s)
        PROVE  slot'[s][i] = IF s = t /\ i = IfaceAt[t][n] THEN n ELSE slot[s][i]
    BY <2>2 DEF IndInv, SlotType
  <2>4. \A m \in Dests : upstream'[m] = IF m = n THEN t ELSE upstream[m]
    BY <2>2 DEF IndInv, TypeOK
  <2>5. QED
    BY <2>2, <2>3, <2>4, SourceAssumption DEF SlotInv
<1>2. ASSUME NEW t \in Nodes, NEW j \in Ifaces(t), Release(t, j)
      PROVE  SlotInv'
  <2>1. \A s \in Nodes : \A i \in Ifaces(s) :
          slot'[s][i] = IF s = t /\ i = j THEN NoNode ELSE slot[s][i]
    BY <1>2 DEF Release, IndInv, SlotType
  <2>2. QED
    BY <1>2, <2>1 DEF Release, SlotInv
<1>3. CASE UNCHANGED <<upstream, slot>>
  BY <1>3 DEF SlotInv
<1>4. QED
  BY <1>1, <1>2, <1>3 DEF Next, Start, Download, GetMetadata, GiveUp, Refused, Transfer,
     Downloaded, Finished, vars

\* Every step of the swarm is, at every node, a step of PieceService, or none.
LEMMA ServeStep ==
  ASSUME IndInv, SlotInv, [Next]_vars, NEW s \in Nodes
  PROVE  [At(s)!Next]_(At(s)!vars)
<1> USE DEF IndInv, TypeOK
<1> USE SourceAssumption
<1>1. ASSUME NEW n \in Dests, Accepted(n)
      PROVE  [At(s)!Next]_(At(s)!vars)
  <2>1. PICK t \in Nodes : t = Target(n)
    BY TargetIsNode
  <2>2. /\ upstream[n] = NoNode /\ have[n] = {} /\ have[t] # {} /\ have' = have
        /\ upstream' = [upstream EXCEPT ![n] = t]
        /\ slot' = [slot EXCEPT ![t][IfaceAt[t][n]] = n]
        /\ slot[t][IfaceAt[t][n]] = NoNode
    BY <1>1, <2>1 DEF Accepted, Accepts, FreeFor, HasSome, Go, PhaseInv, Waiting
  <2>3. DeliveredBy(s)' = DeliveredBy(s)
    BY <2>2 DEF DeliveredBy
  <2>4. \A r \in Nodes : \A i \in Ifaces(r) :
          slot'[r][i] = IF r = t /\ i = IfaceAt[t][n] THEN n ELSE slot[r][i]
    BY <2>2 DEF SlotType
  <2>5. CASE s = t
    <3>1. IfaceAt[s][n] \in Ifaces(s)
      BY DEF Ifaces, Dests
    <3>2. ServedBy(s)' = ServedBy(s) \cup {n}
      BY <2>2, <2>4, <2>5, <3>1 DEF ServedBy, Ifaces, Dests
    <3>3. n \notin ServedBy(s) /\ \A d \in ServedBy(s) :
            d \in Dests /\ IfaceAt[s][d] # IfaceAt[s][n]
      BY <2>2, <2>5 DEF ServedBy, SlotInv
    <3>4. FinishedBy(s)' = FinishedBy(s) /\ n \notin FinishedBy(s)
      BY <2>2, <2>5, <3>2, <3>3 DEF FinishedBy
    <3>5. At(s)!Admit(n)
      BY <2>2, <2>3, <2>5, <3>2, <3>3, <3>4 DEF At!Admit
    <3>6. QED
      BY <3>5 DEF At!Next
  <2>6. CASE s # t
    <3>1. ServedBy(s)' = ServedBy(s)
      BY <2>4, <2>6 DEF ServedBy, Ifaces
    <3>2. FinishedBy(s)' = FinishedBy(s)
      BY <2>2, <2>6, <3>1 DEF FinishedBy
    <3>3. QED
      BY <2>2, <2>3, <3>1, <3>2 DEF At!vars
  <2>7. QED
    BY <2>5, <2>6
<1>2. ASSUME NEW n \in Dests, NEW p \in Pieces, Transfer(n, p)
      PROVE  [At(s)!Next]_(At(s)!vars)
  <2>1. PICK u \in Nodes : u = upstream[n]
    BY <1>2 DEF Transfer
  <2>2. /\ p \in have[u] /\ p \notin have[n] /\ u # n
        /\ have' = [have EXCEPT ![n] = @ \cup {p}]
        /\ UNCHANGED <<upstream, slot>>
    BY <1>2, <2>1 DEF Transfer, Offered
  <2>3. ServedBy(s)' = ServedBy(s) /\ FinishedBy(s)' = FinishedBy(s)
    BY <2>2 DEF ServedBy, FinishedBy
  <2>4. CASE s = u
    <3>1. n \in ServedBy(s)
      <4>1. slot[u][IfaceAt[u][n]] = n
        BY <1>2, <2>1, <2>2 DEF Transfer, PiecesFlowDown
      <4>2. IfaceAt[u][n] \in Ifaces(u)
        BY DEF Ifaces, Dests
      <4>3. QED
        BY <2>4, <4>1, <4>2 DEF ServedBy, Dests
    <3>2. have'[s] = have[s] /\ DeliveredBy(s)[n] = have[n]
      BY <2>1, <2>2, <2>4 DEF DeliveredBy
    <3>3. DeliveredBy(s)' = [DeliveredBy(s) EXCEPT ![n] = @ \cup {p}]
      BY <2>1, <2>2, <2>4 DEF DeliveredBy, Dests
    <3>4. At(s)!Deliver(n, p)
      BY <2>2, <2>3, <2>4, <3>1, <3>2, <3>3 DEF At!Deliver
    <3>5. QED
      BY <3>4 DEF At!Next
  <2>5. CASE s = n
    <3>1. DeliveredBy(s)' = DeliveredBy(s)
      BY <2>1, <2>2, <2>5 DEF DeliveredBy, Dests
    <3>2. At(s)!Arrive(p)
      BY <2>2, <2>3, <2>5, <3>1 DEF At!Arrive
    <3>3. QED
      BY <3>2 DEF At!Next
  <2>6. CASE s # u /\ s # n
    <3>1. have'[s] = have[s] /\ DeliveredBy(s)' = DeliveredBy(s)
      BY <2>1, <2>2, <2>6 DEF DeliveredBy, Dests
    <3>2. QED
      BY <2>3, <3>1 DEF At!vars
  <2>7. QED
    BY <2>4, <2>5, <2>6
<1>3. ASSUME NEW t \in Nodes, NEW j \in Ifaces(t), Release(t, j)
      PROVE  [At(s)!Next]_(At(s)!vars)
  <2>1. PICK d \in Dests : d = slot[t][j]
    BY <1>3 DEF Release, SlotInv
  <2>2. /\ d # NoNode /\ have[d] = Pieces /\ upstream[d] = t /\ IfaceAt[t][d] = j
        /\ UNCHANGED <<have, upstream>>
    BY <1>3, <2>1 DEF Release, SlotInv
  <2>3. \A r \in Nodes : \A i \in Ifaces(r) :
          slot'[r][i] = IF r = t /\ i = j THEN NoNode ELSE slot[r][i]
    BY <1>3 DEF Release, SlotType
  <2>4. DeliveredBy(s)' = DeliveredBy(s)
    BY <2>2 DEF DeliveredBy
  <2>5. CASE s = t
    <3>1. d \in ServedBy(s)
      BY <2>1, <2>2, <2>5 DEF ServedBy
    <3>2. ServedBy(s)' = ServedBy(s) \ {d}
      <4>1. \A i \in Ifaces(s) : slot[s][i] = d => i = j
        BY <2>2, <2>5 DEF SlotInv
      <4>2. \A i \in Ifaces(s) : slot'[s][i] = IF i = j THEN NoNode ELSE slot[s][i]
        BY <2>3, <2>5
      <4>3. ServedBy(s)' = {slot'[s][i] : i \in Ifaces(s)} \ {NoNode}
        BY DEF ServedBy, Ifaces
      <4>4. QED
        BY <1>3, <2>1, <2>2, <2>5, <4>1, <4>2, <4>3 DEF ServedBy
    <3>3. FinishedBy(s)' = FinishedBy(s) \cup {d}
      BY <2>2, <2>5, <3>1, <3>2 DEF FinishedBy
    <3>4. DeliveredBy(s)[d] = Pieces
      BY <2>2, <2>5 DEF DeliveredBy
    <3>5. At(s)!Finish(d)
      BY <2>2, <2>4, <3>1, <3>2, <3>3, <3>4 DEF At!Finish
    <3>6. QED
      BY <3>5 DEF At!Next
  <2>6. CASE s # t
    <3>1. ServedBy(s)' = ServedBy(s)
      <4>1. \A i \in Ifaces(s) : slot'[s][i] = slot[s][i]
        BY <2>3, <2>6
      <4>2. ServedBy(s)' = {slot'[s][i] : i \in Ifaces(s)} \ {NoNode}
        BY DEF ServedBy, Ifaces
      <4>3. QED
        BY <4>1, <4>2 DEF ServedBy
    <3>2. FinishedBy(s)' = FinishedBy(s)
      BY <2>2, <3>1 DEF FinishedBy
    <3>3. QED
      BY <2>2, <2>4, <3>1, <3>2 DEF At!vars
  <2>7. QED
    BY <2>5, <2>6
<1>4. CASE UNCHANGED <<have, upstream, slot>>
  BY <1>4 DEF At!vars, DeliveredBy, ServedBy, FinishedBy
<1>5. QED
  BY <1>1, <1>2, <1>3, <1>4 DEF Next, Start, Download, GetMetadata, GiveUp, Refused,
     Downloaded, Finished, vars

\* Whatever the topology, every node serves those that chose it as PieceService
\* promises.
THEOREM EveryNodeServes == Spec => NodesServe
<1>1. Init => SlotInv
  BY SourceAssumption DEF Init, SlotInv
<1>2. Init => \A s \in Nodes : At(s)!Init
  <2> SUFFICES ASSUME Init, NEW s \in Nodes
               PROVE  At(s)!Init
    OBVIOUS
  <2>1. have[s] \in {{}, Pieces}
    BY DEF Init
  <2>2. DeliveredBy(s) = [c \in Dests |-> {}]
    BY SourceAssumption DEF Init, DeliveredBy, Dests
  <2>3. ServedBy(s) = {}
    BY DEF Init, ServedBy
  <2>4. FinishedBy(s) = {}
    BY SourceAssumption DEF Init, FinishedBy
  <2>5. QED
    BY <2>1, <2>2, <2>3, <2>4 DEF At!Init
<1>3. IndInv /\ SlotInv /\ [Next]_vars
        => [\A s \in Nodes : [At(s)!Next]_(At(s)!vars)]_vars
  BY ServeStep
<1>4. QED
  BY Inductive, SlotStep, <1>1, <1>2, <1>3, PTL DEF Spec, NodesServe
=============================================================================
