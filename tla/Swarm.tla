------------------------------- MODULE Swarm -------------------------------
(***************************************************************************)
(* The nodes of one run, from the first connection to the last piece: the  *)
(* source serves the file; every destination asks its first neighbour for  *)
(* the metadata, starts to listen, and then tries its neighbours in turn   *)
(* until one takes its request for the whole file. A node serves the       *)
(* pieces it has while it still downloads.                                 *)
(*                                                                         *)
(* What goes on inside a serving node is PieceServer; here a transfer is   *)
(* one piece at a time, in any order, from what the server has.            *)
(***************************************************************************)
EXTENDS Integers, Sequences

CONSTANTS
  Nodes, Source,
  Neighbors,  \* find_immediate_neighbors of each destination, in its order
  IfaceAt,    \* IfaceAt[s][c]: the interface of s that c connects to
  Pieces,     \* the pieces of the file
  NoNode      \* nobody

Dests == Nodes \ {Source}

ASSUME SourceAssumption == Source \in Nodes /\ NoNode \notin Nodes
ASSUME NeighborsAssumption ==
  /\ Neighbors \in [Dests -> Seq(Nodes)]
  /\ \A n \in Dests : Neighbors[n] # << >>
ASSUME PiecesAssumption == Pieces # {}

VARIABLES
  phase,     \* how far start() has come on each node
  asking,    \* index of the neighbour the node tries next
  have,      \* the pieces of each node
  upstream,  \* the neighbour that took the node's request
  slot       \* slot[s][i]: the client that holds interface i of s

vars == <<phase, asking, have, upstream, slot>>

Phases == {"off", "meta", "ask", "transfer", "downloaded", "failed"}
Ifaces(s) == {IfaceAt[s][c] : c \in Nodes}
\* Nodes that accept connections: start_listening has been called.
Listening == {n \in Nodes : phase[n] \in {"ask", "transfer", "downloaded"}}

Init ==
  /\ phase = [n \in Nodes |-> "off"]
  /\ asking = [n \in Dests |-> 1]
  /\ have = [n \in Nodes |-> IF n = Source THEN Pieces ELSE {}]
  /\ upstream = [n \in Dests |-> NoNode]
  /\ slot = [s \in Nodes |-> [i \in Ifaces(s) |-> NoNode]]

Go(n, from, to) == phase[n] = from /\ phase' = [phase EXCEPT ![n] = to]

\* agent.py launches the nodes one by one; the source has all it needs.
Start(n) ==
  /\ Go(n, "off", IF n = Source THEN "downloaded" ELSE "meta")
  /\ UNCHANGED <<asking, have, upstream, slot>>

\* Who is asked for the metadata. Mutant: the last neighbour, not the first.
LastNeighbor(n) == Neighbors[n][Len(Neighbors[n])]
MetaPeer(n) == Neighbors[n][1]

\* request_metadata answers: make the FileManager and start to listen.
GetMetadata(n) ==
  /\ MetaPeer(n) \in Listening
  /\ Go(n, "meta", "ask")
  /\ UNCHANGED <<asking, have, upstream, slot>>

\* connect_to runs out of attempts and request_metadata's assertion aborts.
GiveUp(n) ==
  /\ MetaPeer(n) \notin Listening
  /\ Go(n, "meta", "failed")
  /\ UNCHANGED <<asking, have, upstream, slot>>

Target(n) == Neighbors[n][asking[n]]
\* acquire_inter. Mutant: it does not look whether the interface is busy.
AnyTime(s, c) == TRUE
FreeFor(s, c) == slot[s][IfaceAt[s][c]] = NoNode
\* available_pieces. Mutant: a node with nothing takes requests too.
TakesAny(s) == TRUE
HasSome(s) == have[s] # {}

Accepts(s, c) == s \in Listening /\ FreeFor(s, c) /\ HasSome(s)

\* Round and round the neighbours. Mutant: never back to the first.
OnwardOnly(n) == asking[n] + 1
Onward(n) == IF asking[n] = Len(Neighbors[n]) THEN 1 ELSE asking[n] + 1

\* The neighbour does not listen (connect_to gives up after nine attempts), or
\* it answers BUSY_RES or NOT_AVAIL_RES: try the next one.
Refused(n) ==
  /\ phase[n] = "ask" /\ ~Accepts(Target(n), n)
  /\ asking' = [asking EXCEPT ![n] = Onward(n)]
  /\ UNCHANGED <<phase, have, upstream, slot>>

\* The request for all pieces is taken, and the client holds the interface.
Accepted(n) ==
  LET s == Target(n) IN
  /\ Go(n, "ask", "transfer")
  /\ Accepts(s, n)
  /\ upstream' = [upstream EXCEPT ![n] = s]
  /\ slot' = [slot EXCEPT ![s][IfaceAt[s][n]] = n]
  /\ UNCHANGED <<asking, have>>

\* What the server can send. Mutant: it does not look at piece_status.
Anything(n) == Pieces
Offered(n) == have[upstream[n]]

\* One piece goes from the server's file to the client's.
Transfer(n, p) ==
  /\ phase[n] = "transfer"
  /\ p \in Offered(n) \ have[n]
  /\ have' = [have EXCEPT ![n] = @ \cup {p}]
  /\ UNCHANGED <<phase, asking, upstream, slot>>

\* Mutant: the loop over the neighbours is not left.
AskAgain(n) ==
  /\ have[n] = Pieces
  /\ Go(n, "transfer", "ask")
  /\ UNCHANGED <<asking, have, upstream, slot>>

\* request_pieces has received as many pieces as it asked for.
Downloaded(n) ==
  /\ have[n] = Pieces
  /\ Go(n, "transfer", "downloaded")
  /\ UNCHANGED <<asking, have, upstream, slot>>

\* The server has sent the last piece: ~InterfaceGuard.
Release(s, i) ==
  /\ slot[s][i] # NoNode /\ have[slot[s][i]] = Pieces
  /\ slot' = [slot EXCEPT ![s][i] = NoNode]
  /\ UNCHANGED <<phase, asking, have, upstream>>

Download(n) ==
  \/ GetMetadata(n) \/ Refused(n) \/ Accepted(n)
  \/ (\E p \in Pieces : Transfer(n, p)) \/ Downloaded(n)

GivenUp == \E n \in Nodes : phase[n] = "failed"
EveryoneDownloaded == \A n \in Nodes : phase[n] = "downloaded"

\* Nobody has anything left to do.
Finished ==
  /\ GivenUp \/ EveryoneDownloaded
  /\ \A s \in Nodes : \A i \in Ifaces(s) : slot[s][i] = NoNode
  /\ UNCHANGED vars

Next ==
  \/ \E n \in Nodes : Start(n)
  \/ \E n \in Dests : Download(n) \/ GiveUp(n)
  \/ \E s \in Nodes : \E i \in Ifaces(s) : Release(s, i)
  \/ Finished

Spec == Init /\ [][Next]_vars

\* Every node is started, every destination goes on asking and receiving, and
\* servers run on. Attempts to connect need not run out.
FairSpec ==
  /\ Spec
  /\ \A n \in Nodes : WF_vars(Start(n))
  /\ \A n \in Dests : WF_vars(Download(n))
  /\ \A s \in Nodes : WF_vars(\E i \in Ifaces(s) : Release(s, i))

\* request_metadata's 100000 attempts to connect, a millisecond apart, run out
\* only when nobody has anything else to do; and then they do run out.
Quiet ==
  /\ \A n \in Nodes : phase[n] \in {"meta", "downloaded", "failed"}
  /\ \A n \in Dests : phase[n] = "meta" => MetaPeer(n) \notin Listening
PatientGiveUp(n) == Quiet /\ GiveUp(n)
PatientNext == Next /\ \A n \in Dests : GiveUp(n) => Quiet
PatientSpec ==
  /\ Init /\ [][PatientNext]_vars
  /\ \A n \in Nodes : WF_vars(Start(n))
  /\ \A n \in Dests : WF_vars(Download(n)) /\ WF_vars(PatientGiveUp(n))
  /\ \A s \in Nodes : WF_vars(\E i \in Ifaces(s) : Release(s, i))

-----------------------------------------------------------------------------
\* The types of the state; a transfer has an upstream.
TypeOK ==
  /\ phase \in [Nodes -> Phases]
  /\ asking \in [Dests -> Nat \ {0}]
  /\ \A n \in Dests : asking[n] <= Len(Neighbors[n])
  /\ have \in [Nodes -> SUBSET Pieces]
  /\ upstream \in [Dests -> Nodes \cup {NoNode}]
  /\ \A n \in Dests : phase[n] = "transfer" => upstream[n] \in Nodes

\* No set of nodes downloads in a circle, each from another of the set: they
\* would wait for each other's pieces for ever. The NOT_AVAIL answer of a node
\* that has no piece yet is all that prevents it.
NoCyclicTransfer ==
  \A S \in SUBSET Dests :
    S # {} => \E n \in S : ~(phase[n] = "transfer" /\ upstream[n] \in S)

\* Pieces flow down the tree: a node never has a piece its upstream lacks, and
\* whatever it has came over the interface it was admitted to, which stays its
\* own until the upstream has sent it everything.
PiecesFlowDown ==
  \A n \in Dests :
    /\ have[n] # {} => upstream[n] # NoNode /\ have[n] \subseteq have[upstream[n]]
    /\ phase[n] = "transfer" /\ have[n] # Pieces =>
         slot[upstream[n]][IfaceAt[upstream[n]][n]] = n

\* A node never asks again once its request was taken, so its upstream is the
\* only node it ever gets pieces from.
UpstreamFixed ==
  [][\A n \in Dests : upstream[n] # NoNode => upstream'[n] = upstream[n]]_vars

\* Every destination gets the whole file, unless a process gives up.
AllDownloaded == <>(EveryoneDownloaded \/ GivenUp)

\* The goal of the project (Docs/BrainStorming.md): the file is delivered to all
\* destinations, whatever the topology.
FileDelivered == <>EveryoneDownloaded

\* What its clients see of node s.
DeliveredBy(s) == [c \in Dests |-> IF upstream[c] = s THEN have[c] ELSE {}]
ServedBy(s) == {slot[s][i] : i \in Ifaces(s)} \ {NoNode}
FinishedBy(s) == {c \in Dests : upstream[c] = s} \ ServedBy(s)

At(s) == INSTANCE PieceService WITH
  Clients <- Dests,
  IfaceOf <- [c \in Dests |-> IfaceAt[s][c]],
  Asked <- [c \in Dests |-> Pieces],
  arrived <- have[s],
  delivered <- DeliveredBy(s),
  serving <- ServedBy(s),
  finished <- FinishedBy(s),
  up <- TRUE

\* Every node serves its neighbours as PieceService says, which is also what
\* PieceServer implements: At(s)!Spec for every s, as one action property.
NodesServe ==
  /\ \A s \in Nodes : At(s)!Init
  /\ [][\A s \in Nodes : [At(s)!Next]_(At(s)!vars)]_vars
=============================================================================
