--------------------------- MODULE Niaucchi3Flow ---------------------------
(* Niaucchi3 implements FlowControl: seen from a socket that writes and its *)
(* peer that reads, the whole multiplexer - opening, the shared wire, the   *)
(* other direction, faults and teardown - is the flow control of one        *)
(* stream.  The mapping counts what FlowControl keeps as counters.  It is   *)
(* stated for a lone tunnel: a second one can fail the Context for reasons  *)
(* of its own.                                                              *)
EXTENDS Niaucchi3, FiniteSets

\* Segments of a queue that carry a flag
Carried(flag, q) == Cardinality({k \in DOMAIN q : q[k].flag = flag})

\* A queue with a CLOS in it, and a record of reads with EOF in it
Closes(q) == \E k \in DOMAIN q : q[k].flag = "CLOS"
SawEnd(got) == \E k \in DOMAIN got : got[k][2] = 0

\* The socket of end e, which writes, and the one that reads from it
Writer(e) == sok[<<e, 1>>]
Reader(e) == sok[<<Peer(e), 1>>]

\* Where the CLOS of the writer is
ClosAt(e) ==
    IF ~Writer(e).closed THEN "none"
    ELSE IF Closes(wire[e]) THEN "wire"
    ELSE IF Closes(Reader(e).incoming) THEN "queued"
    ELSE IF SawEnd(Reader(e).got) THEN "read"
    ELSE "lost"

\* The stream from end e to its peer
Flow(e) == INSTANCE FlowControl WITH
    sendwind <- Writer(e).sendwind,
    holding <- IF Writer(e).holding THEN 1 ELSE 0,
    inflight <- Carried("DATA", wire[e]),
    queued <- Carried("DATA", Reader(e).incoming),
    clos <- ClosAt(e),
    recvcount <- Reader(e).recvcount,
    owed <- Reader(e).owed,
    credit <- Carried("ICWD", wire[Peer(e)]),
    carries <- Carries(e),
    wdead <- Writer(e).dead,
    rdead <- Reader(e).dead,
    reading <- Reader(e).reading,
    overfull <- ctx[Peer(e)].failed,
    icwdOverflow <- FALSE

\* What the client writes reaches the server, and is paid back, as FlowControl
\* says.
UploadImplementsFlow ==
    Flow("client")!Init /\ [][Flow("client")!Next]_(Flow("client")!vars)

\* What the server writes reaches the client as FlowControl says.
DownloadImplementsFlow ==
    Flow("server")!Init /\ [][Flow("server")!Next]_(Flow("server")!vars)
=============================================================================
