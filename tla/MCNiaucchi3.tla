---------------------------- MODULE MCNiaucchi3 ----------------------------
(* Niaucchi3 and its refinement for TLC: how much each end writes in a run. *)
EXTENDS Niaucchi3Flow

\* Both ends fill the window of a lone tunnel.
BothFill == [e \in End |-> 2]

\* The client fills it, the server answers.
ClientFills == [e \in End |-> IF e = "client" THEN 2 ELSE 1]

\* The client writes one segment into each of several tunnels.
ClientOnce == [e \in End |-> IF e = "client" THEN 1 ELSE 0]
=============================================================================
