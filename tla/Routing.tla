------------------------------ MODULE Routing ------------------------------
(***************************************************************************)
(* What a node makes of the network the controller describes to it: whom   *)
(* it takes for a neighbour, in which order, and through which address and *)
(* so which interface it reaches another node. Nodes and interfaces are    *)
(* names; hop counts are what the controller measured.                     *)
(***************************************************************************)
EXTENDS Integers, SequencesExt

CONSTANTS
  network_info, \* network_info[n][m]: the routes from n to m, each a tuple of
                \* the interface at n and the number of hops
  ip_info,      \* ip_info[n]: pairs of an interface of n and its address
  Iteration     \* Iteration[n]: the keys of network_map[n] as it is iterated

\* What setup_net_info makes of the arguments.
network_map ==
  [n \in DOMAIN network_info |-> [m \in DOMAIN network_info[n] |->
    [i \in DOMAIN network_info[n][m] |->
      [interface |-> network_info[n][m][i][1], hop_count |-> network_info[n][m][i][2]]]]]
\* The last address of an interface is the one that stays.
ip_map ==
  [n \in DOMAIN ip_info |->
    FoldLeft(LAMBDA sofar, pair : (pair[1] :> pair[2]) @@ sofar, << >>, ip_info[n])]

ASSUME IterationAssumption ==
  \A n \in DOMAIN network_map : ToSet(Iteration[n]) = DOMAIN network_map[n]

OneHop(n, m) ==
  \E i \in DOMAIN network_map[n][m] : network_map[n][m][i].hop_count = 1

find_immediate_neighbors(n) == SelectSeq(Iteration[n], LAMBDA m : OneHop(n, m))

\* Every route to the target with every route back: the target is connected to
\* at the address of the interface of the route back.
get_ip(n, target) ==
  LET back == SelectSeq(network_map[target][n],
                LAMBDA route : route.interface \in DOMAIN ip_map[target])
  IN  FlattenSeq([i \in DOMAIN network_map[n][target] |->
        [j \in DOMAIN back |->
          [target_ip |-> ip_map[target][back[j].interface],
           local_interface |-> network_map[n][target][i].interface]]])

\* start() takes the first option. The server knows the connection's interface
\* by the address it was accepted on.
AcceptedOn(s, c) == get_ip(c, s)[1].target_ip
=============================================================================
