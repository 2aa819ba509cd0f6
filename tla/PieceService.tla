---------------------------- MODULE PieceService ----------------------------
(***************************************************************************)
(* What a relaying node promises its clients, without threads, callbacks   *)
(* or locks: pieces arrive one by one; a client is admitted once there is  *)
(* something to send and nobody else is served on its interface; it is     *)
(* given pieces that have arrived, each once, and is finished when it has  *)
(* all it asked for. The process may abort, and then nothing happens.      *)
(***************************************************************************)
EXTENDS Integers

CONSTANTS
  Clients, Pieces,
  IfaceOf,    \* the interface each client is reached through
  Asked       \* for each client, the pieces it asks for

VARIABLES arrived, delivered, serving, finished, up
vars == <<arrived, delivered, serving, finished, up>>

Init ==
  /\ arrived \in {{}, Pieces}
  /\ delivered = [c \in Clients |-> {}]
  /\ serving = {} /\ finished = {} /\ up = TRUE

Arrive(p) ==
  /\ up /\ p \notin arrived
  /\ arrived' = arrived \cup {p}
  /\ UNCHANGED <<delivered, serving, finished, up>>

Admit(c) ==
  /\ up /\ c \notin serving \cup finished /\ arrived # {}
  /\ \A d \in serving : IfaceOf[d] # IfaceOf[c]
  /\ serving' = serving \cup {c}
  /\ UNCHANGED <<arrived, delivered, finished, up>>

Deliver(c, p) ==
  /\ up /\ c \in serving
  /\ p \in (Asked[c] \cap arrived) \ delivered[c]
  /\ delivered' = [delivered EXCEPT ![c] = @ \cup {p}]
  /\ UNCHANGED <<arrived, serving, finished, up>>

Finish(c) ==
  /\ up /\ c \in serving /\ delivered[c] = Asked[c]
  /\ serving' = serving \ {c}
  /\ finished' = finished \cup {c}
  /\ UNCHANGED <<arrived, delivered, up>>

\* Only a node that is serving somebody may fall over.
Abort ==
  /\ up /\ serving # {}
  /\ up' = FALSE
  /\ UNCHANGED <<arrived, delivered, serving, finished>>

Next ==
  \/ \E p \in Pieces : Arrive(p)
  \/ \E c \in Clients :
       Admit(c) \/ Finish(c) \/ \E p \in Pieces : Deliver(c, p)
  \/ Abort

Spec == Init /\ [][Next]_vars
=============================================================================
