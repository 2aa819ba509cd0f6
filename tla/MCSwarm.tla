------------------------------- MODULE MCSwarm -------------------------------
(* Topologies for Swarm, with the neighbours that Routing computes from them.  *)
EXTENDS Swarm, Routing, TLC

CONSTANTS src, d1, d2, d3, d4, Topology

MCNodes == IF Topology = "switch" THEN {src, d1, d2, d3, d4} ELSE {src, d1, d2, d3}

\* "switch": the source and three destinations behind one switch, and a fourth
\* behind d3, with an interface of its own at d3.
BehindD3(n, m) == d4 \in {n, m} /\ d3 \notin {n, m}
SwitchRoute(n, m) ==
  << IF n = d3 /\ m = d4 THEN "eth1" ELSE "eth0", IF BehindD3(n, m) THEN 2 ELSE 1 >>
\* "chain": src - d1 - d2 - d3, each with an interface on either side.
Place == (src :> 0) @@ (d1 :> 1) @@ (d2 :> 2) @@ (d3 :> 3) @@ (d4 :> 4)
ChainRoute(n, m) ==
  IF Place[m] < Place[n] THEN << "eth0", Place[n] - Place[m] >>
  ELSE << "eth1", Place[m] - Place[n] >>

MCNetworkInfo ==
  [n \in MCNodes |-> [m \in MCNodes \ {n} |->
    << IF Topology = "switch" THEN SwitchRoute(n, m) ELSE ChainRoute(n, m) >>]]
MCIpInfo ==
  [n \in MCNodes |-> << <<"eth0", <<n, "eth0">> >>, <<"eth1", <<n, "eth1">> >> >>]
\* network_map is an unordered_map filled in the order of the names, which
\* libstdc++ iterates from the last name to the first.
MCIteration ==
  [n \in MCNodes |-> SelectSeq(<<src, d4, d3, d2, d1>>, LAMBDA m : m \in MCNodes \ {n})]

MCNeighbors == [n \in MCNodes \ {src} |-> find_immediate_neighbors(n)]
\* The interface of s that c connects to, as a table, which TLC looks up more
\* quickly than it follows the routes; the assumption says that they agree.
MCIfaceAt ==
  [s \in MCNodes |-> [c \in MCNodes |->
    IF \/ Topology = "switch" /\ s = d3 /\ c = d4
       \/ Topology = "chain" /\ Place[s] < Place[c]
      THEN "eth1" ELSE "eth0"]]
ASSUME AddressesAreRouted ==
  \A s, c \in MCNodes : c # s => AcceptedOn(s, c) = <<s, MCIfaceAt[s][c]>>
=============================================================================
