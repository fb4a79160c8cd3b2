----------------------------- MODULE Niaucchi3 -----------------------------
(* The niaucchi3 multiplexer: two Contexts, one at each end of a wire, the  *)
(* sockets tunnelled through them, and the ways all of them die.            *)
(*                                                                          *)
(* Tunnel n is a pair of sockets, <<"client", n>> and <<"server", n>>; the  *)
(* number n is known to the model only.  What the program knows is the      *)
(* socket id, which Tunnel draws from the ids its table has free, and which *)
(* is all that a segment carries (`num` and `pos` of a segment say whose it *)
(* is and only properties read them).  A wire direction is a queue that     *)
(* loses nothing until the connection is closed or cut.  Keepalives (flAliv)*)
(* and padding change no state and appear only as the sendAliv that fails.  *)
EXTENDS Integers, Sequences

CONSTANTS
    Ids,            \* socket ids: 0..65535
    Tunnels,        \* how many times the client calls Tunnel
    Writes,         \* Writes[e]: DATA segments each socket of end e may send
    Window,         \* capacity of sendwind and incoming: 256
    Count,          \* credits of one ICWD: 64
    LowMark, HighMark,  \* range of the mark below which Read credits: 32..95
    AcceptCap,      \* capacity of acptQueue: 1024
    Faults          \* cuts, outside kills and timeouts of a behaviour

End == {"client", "server"}
Nums == 1..Tunnels
Sockets == End \X Nums

ASSUME NiaucchiAssumption ==
    /\ Ids # {} /\ Tunnels \in Nat /\ Writes \in [End -> Nat]
    /\ Window \in Nat /\ Count \in Nat \ {0}
    /\ LowMark \in Nat \ {0} /\ HighMark \in Nat
    /\ LowMark <= HighMark /\ HighMark + Count <= Window
    /\ AcceptCap \in Nat \ {0} /\ Faults \in Nat

VARIABLES
    idOf,       \* the socket ids Tunnel has drawn, in order
    sok,        \* sok[s]: the state of socket s
    table,      \* table[e]: id -> number of the socket in sokTable, 0 for nil
    ctx,        \* ctx[e]: the Context and its subCtx
    wire,       \* wire[e]: segments sent by e and not yet unpacked
    acptQueue,  \* the server's accept queue, of socket numbers
    cut,        \* the network has failed
    faults,     \* faults left to happen
    crossed     \* ids that Tunnel reused while their last socket was not closed

vars == <<idOf, sok, table, ctx, wire, acptQueue, cut, faults, crossed>>

Peer(e) == IF e = "client" THEN "server" ELSE "client"

-----------------------------------------------------------------------------
(* State of a socket and of a context *)

NewSocket ==
    [stage |-> "none",      \* none, reserved, queued, open
     dead |-> FALSE,        \* socket.death
     closed |-> FALSE,      \* socket.once has run
     sendwind |-> 0,        \* tokens in the channel
     holding |-> FALSE,     \* a realWrite has its token and not the locks
     recvcount |-> 0,
     owed |-> 0,            \* goroutines about to send an ICWD
     reading |-> FALSE,     \* a Read is in its select
     incoming |-> <<>>,
     sent |-> 0,            \* DATA segments written (bound and identity)
     got |-> <<>>]          \* what Read has returned, pos 0 for EOF

NewCtx ==
    [dead |-> FALSE,        \* Context.death
     sdead |-> FALSE,       \* subCtx.death
     main |-> TRUE,         \* mainThread is running
     open |-> TRUE,         \* this end has not closed the wire
     failed |-> FALSE]      \* mainThread met ErrProtocolFail

Init ==
    /\ idOf = <<>>
    /\ sok = [s \in Sockets |-> NewSocket]
    /\ table = [e \in End |-> [i \in Ids |-> 0]]
    /\ ctx = [e \in End |-> NewCtx]
    /\ wire = [e \in End |-> <<>>]
    /\ acptQueue = <<>>
    /\ cut = FALSE
    /\ faults = Faults
    /\ crossed = {}

-----------------------------------------------------------------------------
(* Helpers *)

Segment(flag, n, pos) == [flag |-> flag, id |-> idOf[n], num |-> n, pos |-> pos]

\* The connection still carries what end e writes
Carries(e) == ctx[e].open /\ ctx[Peer(e)].open /\ ~cut

\* struc.Pack to the wire; a write that fails, or whose bytes never arrive,
\* leaves nothing.
Pack(e, seg) == wire' = IF Carries(e) THEN [wire EXCEPT ![e] = Append(@, seg)] ELSE wire

Uint8Dec(x) == IF x = 0 THEN Window - 1 ELSE x - 1

\* Wrong forms of the operators below, named for what is wrong with them; no
\* action uses one.
Uint8AddForgotten(x, y) == x
FreeIdUnchecked(i) == TRUE
MayWriteUnchecked(dead) == TRUE
MayCreditUnchecked(dead) == TRUE
TiedNever(e) == FALSE
TableAfterKept(seg, t) == t
HasRoomForOneMore(q) == Len(q) <= Window
QueuedClosFirst(q, seg) == IF seg.flag = "CLOS" THEN <<seg>> \o q ELSE Append(q, seg)

Uint8Add(x, y) == IF x + y >= Window THEN x + y - Window ELSE x + y

\* Tunnel keeps drawing until the table has nothing at the id.
FreeId(i) == table["client"][i] = 0

\* realWrite looks at the tomb again when it has the locks.
MayWrite(dead) == ~dead

\* The goroutine of Read "must check aliveness here due to a potential race".
MayCredit(dead) == ~dead

\* The death a socket is tied to: the client's to its Context, the server's to
\* the subCtx.
Tied(e) == IF e = "client" THEN ctx[e].dead ELSE ctx[e].sdead

\* sokTable after a segment for a known socket: CLOS frees the entry.
TableAfter(seg, t) == IF seg.flag = "CLOS" THEN [t EXCEPT ![seg.id] = 0] ELSE t

\* A socket in its user's hands, with a Read going unless it is dead already
Opened(k) == [k EXCEPT !.stage = "open", !.reading = ~k.dead]

\* The channel incoming
HasRoom(q) == Len(q) < Window
Queued(q, seg) == Append(q, seg)

\* mainThread returns ErrProtocolFail: the Context is killed, the deferred
\* Close closes the wire, and the subCtx does not learn of it.
Failed(c) == [c EXCEPT !.dead = TRUE, !.main = FALSE, !.open = FALSE, !.failed = TRUE]

-----------------------------------------------------------------------------
(* Context.Tunnel and Context.Accept *)

\* Tunnel under tabLock: an id, a socket, a table entry.
Reserve(i) ==
    /\ Len(idOf) < Tunnels
    /\ FreeId(i)
    /\ idOf' = Append(idOf, i)
    /\ LET n == Len(idOf) + 1
       IN  /\ sok' = [sok EXCEPT ![<<"client", n>>].stage = "reserved"]
           /\ table' = [table EXCEPT !["client"][i] = n]
    /\ crossed' = IF \E k \in DOMAIN idOf : idOf[k] = i /\ ~sok[<<"client", k>>].closed
                    THEN crossed \cup {i} ELSE crossed
    /\ UNCHANGED <<ctx, wire, acptQueue, cut, faults>>

\* Tunnel under wirewlok: OPEN goes out and the socket is the caller's.
OpenTunnel(n) ==
    /\ sok[<<"client", n>>].stage = "reserved"
    /\ sok' = [sok EXCEPT ![<<"client", n>>] = Opened(@)]
    /\ Pack("client", Segment("OPEN", n, 0))
    /\ UNCHANGED <<idOf, table, ctx, acptQueue, cut, faults, crossed>>

\* Accept may take a socket even from a dying Context.
Accept ==
    /\ acptQueue # <<>>
    /\ sok' = [sok EXCEPT ![<<"server", Head(acptQueue)>>] = Opened(@)]
    /\ acptQueue' = Tail(acptQueue)
    /\ UNCHANGED <<idOf, table, ctx, wire, cut, faults, crossed>>

-----------------------------------------------------------------------------
(* socket.Write, Close and Read *)

socketOnly == <<idOf, table, ctx, acptQueue, cut, faults, crossed>>

TakeToken(s) ==
    /\ sok[s].stage = "open" /\ ~sok[s].holding
    /\ sok[s].sent < Writes[s[1]]
    /\ sok[s].sendwind < Window
    /\ sok' = [sok EXCEPT ![s].sendwind = @ + 1, ![s].holding = TRUE]
    /\ UNCHANGED <<wire, socketOnly>>

SendData(s) ==
    /\ sok[s].holding
    /\ IF MayWrite(sok[s].dead)
         THEN /\ Pack(s[1], Segment("DATA", s[2], sok[s].sent + 1))
              /\ sok' = [sok EXCEPT ![s].holding = FALSE, ![s].sent = @ + 1]
         ELSE /\ sok' = [sok EXCEPT ![s].holding = FALSE]
              /\ UNCHANGED wire
    /\ UNCHANGED socketOnly

\* Once per socket, dead or not; the table entry of this end stays.
Close(s) ==
    /\ sok[s].stage = "open" /\ ~sok[s].closed
    /\ sok' = [sok EXCEPT ![s].closed = TRUE, ![s].dead = TRUE]
    /\ Pack(s[1], Segment("CLOS", s[2], 0))
    /\ UNCHANGED socketOnly

\* The owner of an open socket calls Read again and again, so that `reading`
\* says that a Read has passed its aliveness check.  A Read that was in its
\* select when the socket died may still take one segment there.
ReadData(s) ==
    /\ sok[s].reading /\ sok[s].incoming # <<>>
    /\ LET seg == Head(sok[s].incoming)
           left == Uint8Dec(sok[s].recvcount)
       IN  /\ seg.flag = "DATA"
           /\ \E mark \in LowMark..HighMark :
                LET pays == left < mark
                IN  sok' = [sok EXCEPT
                      ![s].reading = ~sok[s].dead,
                      ![s].incoming = Tail(@),
                      ![s].got = Append(@, <<seg.num, seg.pos>>),
                      ![s].recvcount = IF pays THEN Uint8Add(left, Count) ELSE left,
                      ![s].owed = IF pays THEN @ + 1 ELSE @]
    /\ UNCHANGED <<wire, socketOnly>>

ReadClos(s) ==
    /\ sok[s].reading /\ sok[s].incoming # <<>>
    /\ Head(sok[s].incoming).flag = "CLOS"
    /\ sok' = [sok EXCEPT ![s].reading = FALSE, ![s].incoming = Tail(@), ![s].dead = TRUE,
                            ![s].got = Append(@, <<Head(sok[s].incoming).num, 0>>)]
    /\ UNCHANGED <<wire, socketOnly>>

ReadDying(s) ==
    /\ sok[s].reading /\ sok[s].dead
    /\ sok' = [sok EXCEPT ![s].reading = FALSE]
    /\ UNCHANGED <<wire, socketOnly>>

SendIcwd(s) ==
    /\ sok[s].owed > 0
    /\ sok' = [sok EXCEPT ![s].owed = @ - 1]
    /\ IF MayCredit(sok[s].dead) THEN Pack(s[1], Segment("ICWD", s[2], 0)) ELSE UNCHANGED wire
    /\ UNCHANGED socketOnly

\* Fifteen minutes in the select of Read with nothing to take.
ReadTimeout(s) ==
    /\ faults > 0 /\ ~sok[s].dead
    /\ sok[s].reading /\ sok[s].incoming = <<>>
    /\ faults' = faults - 1
    /\ sok' = [sok EXCEPT ![s].dead = TRUE, ![s].reading = FALSE]
    /\ UNCHANGED <<idOf, table, ctx, wire, acptQueue, cut, crossed>>

\* Fifteen minutes in the select of realWrite with no room.
WriteTimeout(s) ==
    /\ faults > 0 /\ ~sok[s].dead
    /\ sok[s].stage = "open" /\ ~sok[s].holding /\ sok[s].sendwind = Window
    /\ faults' = faults - 1
    /\ sok' = [sok EXCEPT ![s].dead = TRUE]
    /\ UNCHANGED <<idOf, table, ctx, wire, acptQueue, cut, crossed>>

\* The goroutine that ties the socket's death to its context's.
TieUp(s) ==
    /\ sok[s].stage \in {"queued", "open"} /\ ~sok[s].dead
    /\ Tied(s[1])
    /\ sok' = [sok EXCEPT ![s].dead = TRUE]
    /\ UNCHANGED <<wire, socketOnly>>

-----------------------------------------------------------------------------
(* subCtx.mainThread *)

Receiving(e, flags) ==
    /\ ctx[e].main /\ ctx[e].open /\ ~cut
    /\ wire[Peer(e)] # <<>>
    /\ Head(wire[Peer(e)]).flag \in flags

Unpacked(e) == wire' = [wire EXCEPT ![Peer(e)] = Tail(@)]

\* OPEN: a socket goes into the table, over whatever is there, and into the
\* accept queue if that has room.
RecvOpen ==
    /\ Receiving("server", {"OPEN"})
    /\ Unpacked("server")
    /\ LET seg == Head(wire["client"])
       IN  /\ table' = [table EXCEPT !["server"][seg.id] = seg.num]
           /\ sok' = [sok EXCEPT ![<<"server", seg.num>>].stage = "queued"]
           /\ IF Len(acptQueue) < AcceptCap
                THEN acptQueue' = Append(acptQueue, seg.num) /\ UNCHANGED ctx
                ELSE ctx' = [ctx EXCEPT !["server"] = Failed(@)] /\ UNCHANGED acptQueue
    /\ UNCHANGED <<idOf, cut, faults, crossed>>

\* ICWD: as many tokens out of sendwind as it says, unless the id is stray or
\* the channel runs empty.
RecvIcwd(e) ==
    /\ Receiving(e, {"ICWD"})
    /\ Unpacked(e)
    /\ LET dest == <<e, table[e][Head(wire[Peer(e)]).id]>>
       IN  IF dest[2] # 0 /\ sok[dest].sendwind >= Count
             THEN sok' = [sok EXCEPT ![dest].sendwind = @ - Count] /\ UNCHANGED ctx
             ELSE ctx' = [ctx EXCEPT ![e] = Failed(@)] /\ UNCHANGED sok
    /\ UNCHANGED <<idOf, table, acptQueue, cut, faults, crossed>>

\* DATA and CLOS: into incoming of the socket at that id, unless the id is
\* stray or the channel is full; CLOS has freed the id before.
RecvSegment(e) ==
    /\ Receiving(e, {"DATA", "CLOS"})
    /\ Unpacked(e)
    /\ LET seg == Head(wire[Peer(e)])
           dest == <<e, table[e][seg.id]>>
       IN  IF dest[2] = 0
             THEN ctx' = [ctx EXCEPT ![e] = Failed(@)] /\ UNCHANGED <<sok, table>>
             ELSE /\ table' = [table EXCEPT ![e] = TableAfter(seg, @)]
                  /\ IF HasRoom(sok[dest].incoming)
                       THEN /\ sok' = [sok EXCEPT ![dest].incoming = Queued(@, seg)]
                            /\ UNCHANGED ctx
                       ELSE ctx' = [ctx EXCEPT ![e] = Failed(@)] /\ UNCHANGED sok
    /\ UNCHANGED <<idOf, acptQueue, cut, faults, crossed>>

contextOnly == <<idOf, sok, table, wire, acptQueue, crossed>>

\* Unpack fails, at once or at the eight minute deadline: the subCtx dies, and
\* the Context with it when mainThread returns.
ReadError(e) ==
    /\ ctx[e].main
    /\ ~Carries(e)
    /\ ctx' = [ctx EXCEPT ![e] = [@ EXCEPT !.sdead = TRUE, !.dead = TRUE, !.main = FALSE,
                                    !.open = FALSE]]
    /\ UNCHANGED <<contextOnly, cut, faults>>

\* sendAliv fails to write, which kills the subCtx, and the goroutine that
\* waits for that closes the wire.
AlivFails(e) ==
    /\ ~ctx[e].sdead
    /\ ~Carries(e)
    /\ ctx' = [ctx EXCEPT ![e].sdead = TRUE, ![e].open = FALSE]
    /\ UNCHANGED <<contextOnly, cut, faults>>

-----------------------------------------------------------------------------
(* The world around *)

\* Tomb().Kill from outside, as dialTunRaw and resolveName do when a tunnel
\* does not answer in time.
Kill ==
    /\ faults > 0 /\ ~ctx["client"].dead
    /\ faults' = faults - 1
    /\ ctx' = [ctx EXCEPT !["client"].dead = TRUE]
    /\ UNCHANGED <<contextOnly, cut>>

\* The network fails for good.
Cut ==
    /\ faults > 0 /\ ~cut
    /\ faults' = faults - 1
    /\ cut' = TRUE
    /\ UNCHANGED <<contextOnly, ctx>>

-----------------------------------------------------------------------------
Application(s) ==
    \/ TakeToken(s) \/ SendData(s) \/ Close(s)
    \/ ReadData(s) \/ ReadClos(s) \/ ReadDying(s)
    \/ SendIcwd(s) \/ ReadTimeout(s) \/ WriteTimeout(s) \/ TieUp(s)

Network(e) ==
    \/ RecvIcwd(e) \/ RecvSegment(e) \/ ReadError(e) \/ AlivFails(e)

Next ==
    \/ \E i \in Ids : Reserve(i)
    \/ \E n \in Nums : OpenTunnel(n)
    \/ Accept \/ RecvOpen
    \/ \E s \in Sockets : Application(s)
    \/ \E e \in End : Network(e)
    \/ Kill \/ Cut

Spec == Init /\ [][Next]_vars

\* What goes on by itself: the goroutines of both programs run and the wire
\* delivers.  To open, accept, write, read or close is nobody's duty, and no
\* fault has to happen.
Duty ==
    \/ \E n \in Nums : OpenTunnel(n)
    \/ RecvOpen
    \/ \E s \in Sockets : SendData(s) \/ SendIcwd(s) \/ TieUp(s)
    \/ \E e \in End : Network(e)

\* Every duty is done once per segment, socket or Context, so fairness to all of
\* them together is enough for each.
FairSpec == Spec /\ WF_vars(Duty)

-----------------------------------------------------------------------------
(* Properties *)

TypeOK ==
    /\ idOf \in Seq(Ids) /\ Len(idOf) <= Tunnels
    /\ \A s \in Sockets :
         /\ sok[s].stage \in {"none", "reserved", "queued", "open"}
         /\ sok[s].sendwind \in 0..Window
         /\ sok[s].recvcount \in 0..(Window - 1)
         /\ sok[s].owed \in Nat
         /\ Len(sok[s].incoming) <= Window
         /\ sok[s].sent \in 0..Writes[s[1]]
    /\ \A e \in End, i \in Ids : table[e][i] \in {0} \cup DOMAIN idOf
    /\ Len(acptQueue) <= AcceptCap
    /\ cut \in BOOLEAN /\ faults \in 0..Faults /\ crossed \subseteq Ids

\* Tunnels whose id was not reused too early
Uncrossed == {n \in DOMAIN idOf : idOf[n] \notin crossed}

\* What a socket reads is what its own peer wrote, in order and without gaps,
\* and EOF comes after all of it: no segment of another tunnel that has had
\* the same id, and no EOF that overtakes or cuts off data.
StreamIntegrity ==
    \A e \in End : \A n \in Uncrossed :
      LET got == sok[<<e, n>>].got
      IN  \A k \in DOMAIN got :
            \/ got[k] = <<n, k>> /\ k <= sok[<<Peer(e), n>>].sent
            \/ got[k] = <<n, 0>> /\ k = Len(got) /\ k = sok[<<Peer(e), n>>].sent + 1

\* Behind the CLOS of a socket there is nothing of that socket on the wire:
\* neither a writer nor a goroutine with an ICWD slips past Close, so the peer,
\* which frees the id at CLOS, never sees a stray.
NothingAfterClos ==
    \A e \in End : \A j, k \in DOMAIN wire[e] :
      j < k /\ wire[e][j].flag = "CLOS" => wire[e][k].num # wire[e][j].num

\* A Context that reports a protocol failure between two honest ends does so
\* for one of three reasons: an id reused too early, a full accept queue, or
\* a CLOS behind a window of data of which nothing has been read.
FailuresExplained ==
    [][\A e \in End :
         ctx'[e].failed /\ ~ctx[e].failed =>
           LET seg == Head(wire[Peer(e)])
               dest == sok[<<e, seg.num>>]
           IN  \/ seg.id \in crossed
               \/ seg.flag = "OPEN" /\ Len(acptQueue) = AcceptCap
               \/ seg.flag = "CLOS" /\ Len(dest.incoming) = Window /\ dest.recvcount = 0
      ]_vars

\* A mainThread that stops, for whatever reason, takes everything with it: the
\* other end's mainThread, both ends of the wire, and every socket that was
\* handed out at either end.
TeardownCompletes ==
    \A e \in End :
      ~ctx[e].main ~>
        /\ \A f \in End : ~ctx[f].main /\ ~ctx[f].open
        /\ \A s \in Sockets : sok[s].stage \in {"queued", "open"} => sok[s].dead

\* A tunnel closed at both ends gives its id back at both ends, as long as the
\* connection lasts.
IdsReturn ==
    \A n \in Nums :
      sok[<<"client", n>>].closed /\ sok[<<"server", n>>].closed ~>
        \/ \A e \in End, i \in Ids : table[e][i] # n
        \/ ~Carries("client")
        \/ n \notin Uncrossed

\* "If our parent dies, so do we!": the goroutine at the head of mainThread is
\* there to close the wire when the Context dies.
ParentDeathClosesWire == ctx["client"].dead ~> ~ctx["client"].open

\* "ErrProtocolFail means a fatal protocol violation": two ends that keep to
\* the protocol never meet it.
ErrProtocolFailMeansViolation == \A e \in End : ~ctx[e].failed
=============================================================================
