------------------------------ MODULE MCProxy ------------------------------
(* Proxy for TLC: destinations, a country table, and what the users write. *)
EXTENDS Proxy

Ip(n) == [form |-> "ip", ip |-> n]
Named(f) == [form |-> f, ip |-> 0]

\* Addresses at the ends of rows, between and above the rows, and a local one.
\* What is at 2 and 3 goes directly if there is a table, and by tunnel if not.
EveryDest == {Named(f) : f \in {"binder", "plain", "name"}} \cup {Ip(n) : n \in {1, 2, 3, 4, 8, 9}}

Cn(a, b) == [from |-> a, to |-> b, ctry |-> "CN"]
Us(a, b) == [from |-> a, to |-> b, ctry |-> "US"]
FourRows == {<<Us(1, 1), Cn(2, 3), Us(5, 5), Cn(6, 7)>>}

\* A name is in one of the countries, or its address is local.
SomeAddrs == {3, 9}

\* Data both ways, and a reply of more than a loop and a connection hold; none
\* where only the routing is of interest
EveryPieces == [d \in Dests |-> [u \in User |->
    CASE d = Ip(3) -> 1 [] d = Ip(2) -> IF u = "app" THEN 1 ELSE 2 [] OTHER -> 0]]
EveryFaults == [d \in Dests |-> IF d \in {Ip(3), Named("name")} THEN 1 ELSE 0]
=============================================================================
