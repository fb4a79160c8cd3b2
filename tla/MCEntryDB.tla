------------------------------ MODULE MCEntryDB ------------------------------
(* An instance of EntryDB: two nodes in one autonomous system, the third in   *)
(* another.                                                                   *)
EXTENDS EntryDB, TLC

CONSTANTS n1, n2, n3, as1, as2

TwoSystems == [n \in Nodes |-> IF n = n3 THEN as2 ELSE as1]

\* Everyone, and nothing fails; one node or two, and one fault; one node alone with
\* the exit, and faults enough to lose its row, and one more
Whole == {[nodes |-> Nodes, clients |-> Clients, faults |-> 0]}
Pairs == {[nodes |-> {n, m}, clients |-> Clients, faults |-> 1] : n, m \in Nodes}
Lone == {[nodes |-> {n3}, clients |-> {}, faults |-> Faults]}
EveryBudget == Whole \cup Pairs \cup Lone

\* The two of one autonomous system are alike.
Alike == Permutations({n1, n2})
=============================================================================
