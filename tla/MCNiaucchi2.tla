---------------------------- MODULE MCNiaucchi2 ----------------------------
(* Niaucchi2 for TLC: what may happen in a run. *)
EXTENDS Niaucchi2

ClientWrites(n) == [e \in End |-> IF e = "client" THEN n ELSE 0]

\* A window of data on one wire, two wires that fail, and two tunnels that may
\* have the same id on two wires
FullWindow == [wires |-> 1, tunnels |-> 1, writes |-> ClientWrites(2), faults |-> 1]
TwoWires == [wires |-> 2, tunnels |-> 1, writes |-> ClientWrites(0), faults |-> 1]
TwoTunnels == [wires |-> 2, tunnels |-> 2, writes |-> ClientWrites(0), faults |-> 0]

MCBudgets == {FullWindow, TwoWires, TwoTunnels}
=============================================================================
