----------------------------- MODULE Niaucchi2 -----------------------------
(* The legacy multiplexer: one Context at the client and one at the exit    *)
(* share several wires, which doProxy brings together by a session id.      *)
(*                                                                          *)
(* A Context has one table of sockets for all its wires, and a socket stays *)
(* on the wire Tunnel drew for it, so that two tunnels that have the same   *)
(* id one after the other may be on wires that deliver in any order.  As in *)
(* Niaucchi3, `num` and `pos` of a segment are for the properties, and      *)
(* keepalives, pings (which only a test sends) and padding change no state. *)
(* A sendAliv that fails merely returns.                                    *)
EXTENDS Integers, Sequences

CONSTANTS
    Ids,            \* socket ids: 0..65535
    Budgets,        \* what may happen in a behaviour, see Budget
    Window,         \* capacity of sendwind and incoming: 256
    Count,          \* credits of one ICWD: 64
    LowMark, HighMark,  \* range of the mark below which Read credits: 32..95
    AcceptCap       \* capacity of acptQueue: 256

End == {"client", "server"}

\* Connections of the session, calls of Tunnel, DATA segments that a socket of
\* each end may send, and faults: cuts, outside kills and timeouts
Budget == [wires : Nat, tunnels : Nat, writes : [End -> Nat], faults : Nat]
Wire == UNION {1..b.wires : b \in Budgets}
Nums == UNION {1..b.tunnels : b \in Budgets}
Sockets == End \X Nums

\* The client's Context is 0; one of the exit is named after the wire that
\* made doProxy create it.
Context == {0} \cup Wire

ASSUME Niaucchi2Assumption ==
    /\ Ids # {} /\ Budgets \subseteq Budget
    /\ Window \in Nat /\ Count \in Nat \ {0}
    /\ LowMark \in Nat \ {0} /\ HighMark \in Nat
    /\ LowMark <= HighMark /\ HighMark + Count <= Window
    /\ AcceptCap \in Nat \ {0}

VARIABLES
    idOf, wireOf,   \* the ids and wires Tunnel has drawn, in order
    sok,            \* sok[s]: the state of socket s
    table,          \* table[c]: id -> number of the socket in sokTable, 0 for nil
    dead,           \* dead[c]: Context.death
    acptQueue,      \* acptQueue[c], of socket numbers
    sub,            \* sub[e][w]: the subCtx of wire w at end e
    line,           \* line[w][e]: segments sent by e on w and not yet unpacked
    cut,            \* wires whose network has failed
    ctxTab,         \* the entry of the session in doProxy's table, 0 for nil
    given,          \* given[w]: the Context that doProxy gave wire w to
    left,           \* the budget, with the faults left to happen
    crossed         \* tunnels whose id was still in use, see Tunnel

sockets == <<idOf, wireOf, sok, crossed>>
session == <<ctxTab, given>>
vars == <<sockets, table, dead, acptQueue, sub, line, cut, session, left>>

Peer(e) == IF e = "client" THEN "server" ELSE "client"
Owner(e, w) == IF e = "client" THEN 0 ELSE given[w]
On(s) == wireOf[s[2]]

-----------------------------------------------------------------------------
NewSocket ==
    [stage |-> "none",      \* none, queued, open
     dead |-> FALSE, closed |-> FALSE,
     sendwind |-> 0,
     recvcount |-> 0, owed |-> 0,
     reading |-> FALSE, incoming |-> <<>>,
     sent |-> 0, got |-> <<>>]

NewSub ==
    [stage |-> "none",      \* none, reading, live, leaked
     dead |-> FALSE,        \* subCtx.death
     main |-> FALSE,        \* mainThread is running
     open |-> FALSE]        \* this end has a wire and has not closed it

LiveSub == [NewSub EXCEPT !.stage = "live", !.main = TRUE, !.open = TRUE]

Init ==
    /\ idOf = <<>> /\ wireOf = <<>>
    /\ sok = [s \in Sockets |-> NewSocket]
    /\ table = [c \in Context |-> [i \in Ids |-> 0]]
    /\ dead = [c \in Context |-> FALSE]
    /\ acptQueue = [c \in Context |-> <<>>]
    /\ sub = [e \in End |-> [w \in Wire |-> NewSub]]
    /\ line = [w \in Wire |-> [e \in End |-> <<>>]]
    /\ cut = {} /\ ctxTab = 0 /\ given = [w \in Wire |-> 0]
    /\ left \in Budgets /\ crossed = {}

-----------------------------------------------------------------------------
(* Helpers *)

Segment(flag, n, pos) == [flag |-> flag, id |-> idOf[n], num |-> n, pos |-> pos]

\* The exit's end of a connection exists before doProxy has it.
Carries(w, e) ==
    /\ sub[e][w].open /\ w \notin cut
    /\ sub[Peer(e)][w].open \/ sub[Peer(e)][w].stage = "none"
Pack(s, seg) == line' = IF Carries(On(s), s[1]) THEN [line EXCEPT ![On(s)][s[1]] = Append(@, seg)]
                        ELSE line

Uint8Dec(x) == IF x = 0 THEN Window - 1 ELSE x - 1
Uint8Add(x, y) == IF x + y >= Window THEN x + y - Window ELSE x + y

\* Wrong forms of the operators below; no action uses one.
HasRoomForOneMore(q) == Len(q) <= Window
MayWriteUnchecked(s) == TRUE
MustCloseAlone(e, w) == sub[e][w].dead
FreeIdUnchecked(i) == TRUE

HasRoom(q) == Len(q) < Window

\* Tunnel draws until the table has nothing at the id.
FreeId(i) == table[0][i] = 0

\* realWrite looks at the tomb when it has the locks.
MayWrite(s) == ~sok[s].dead

\* "If our parent dies, so do we!"
MustClose(e, w) == sub[e][w].dead \/ dead[Owner(e, w)]

TableAfter(seg, t) == IF seg.flag = "CLOS" THEN [t EXCEPT ![seg.id] = 0] ELSE t
Opened(k) == [k EXCEPT !.stage = "open", !.reading = ~k.dead]

\* The client's sockets die with the Context, the server's with their subCtx.
Tied(s) == IF s[1] = "client" THEN dead[0] ELSE sub["server"][On(s)].dead

-----------------------------------------------------------------------------
(* Absorb, and the table of sessions in doProxy *)

absorbing == <<sockets, table, acptQueue, line, cut, left>>

\* The client absorbs what it has dialled, and names it by the lowest number
\* its table has free.
AbsorbClient(w) ==
    /\ ~dead[0] /\ w <= left.wires
    /\ sub["client"][w].stage = "none" /\ \A v \in 1..(w - 1) : sub["client"][v].stage # "none"
    /\ sub' = [sub EXCEPT !["client"][w] = LiveSub]
    /\ UNCHANGED <<absorbing, dead, session>>

\* The Context of the session, or a new one, absorbs the wire; a dead one gives
\* it back, and doProxy does not close it.
HandOver(w) ==
    /\ sub["client"][w].stage = "live" /\ sub["server"][w].stage = "none"
    /\ ctxTab' = IF ctxTab = 0 THEN w ELSE ctxTab
    /\ given' = [given EXCEPT ![w] = ctxTab']
    /\ sub' = [sub EXCEPT !["server"][w] =
                  [NewSub EXCEPT !.open = TRUE,
                                 !.stage = IF dead[given'[w]] THEN "leaked" ELSE "reading"]]
    /\ UNCHANGED <<absorbing, dead>>

\* The goroutine that waits for the Context to die
Forget ==
    /\ ctxTab # 0 /\ dead[ctxTab]
    /\ ctxTab' = 0
    /\ UNCHANGED <<absorbing, dead, sub, given>>

ReadSubid(w) ==
    /\ sub["server"][w].stage = "reading"
    /\ \/ /\ w \notin cut /\ UNCHANGED dead
          /\ sub' = [sub EXCEPT !["server"][w] = LiveSub]
       \/ /\ ~Carries(w, "server")
          /\ sub' = [sub EXCEPT !["server"][w].stage = "leaked"]
          /\ dead' = [dead EXCEPT ![given[w]] = TRUE]
    /\ UNCHANGED <<absorbing, session>>

-----------------------------------------------------------------------------
(* Tunnel and Accept *)

\* A wire, an id, a table entry, OPEN, in one step: nobody looks at the entry in
\* between.  The last socket of the id may still have something to say on its
\* own wire: a CLOS it has yet to send, or has sent on another wire than the new
\* socket's, whose OPEN may overtake it.
Tunnel(i, w) ==
    /\ Len(idOf) < left.tunnels
    /\ sub["client"][w].stage = "live"
    /\ FreeId(i)
    /\ LET n == Len(idOf) + 1
           Speaks(k) == \/ ~sok[<<"client", k>>].closed
                        \/ /\ wireOf[k] # w
                           /\ \E p \in DOMAIN line[wireOf[k]]["client"] :
                                line[wireOf[k]]["client"][p].num = k
           before == {k \in DOMAIN idOf : idOf[k] = i /\ Speaks(k)}
       IN  /\ idOf' = Append(idOf, i) /\ wireOf' = Append(wireOf, w)
           /\ sok' = [sok EXCEPT ![<<"client", n>>] = Opened(@)]
           /\ table' = [table EXCEPT ![0][i] = n]
           /\ crossed' = IF before = {} THEN crossed ELSE crossed \cup before \cup {n}
           /\ line' = IF Carries(w, "client")
                        THEN [line EXCEPT ![w]["client"] =
                                Append(@, [flag |-> "OPEN", id |-> i, num |-> n, pos |-> 0])]
                        ELSE line
    /\ UNCHANGED <<dead, acptQueue, sub, cut, session, left>>

socketOnly == <<idOf, wireOf, table, dead, acptQueue, sub, cut, session, left, crossed>>

Accept(c) ==
    /\ acptQueue[c] # <<>>
    /\ sok' = [sok EXCEPT ![<<"server", Head(acptQueue[c])>>] = Opened(@)]
    /\ acptQueue' = [acptQueue EXCEPT ![c] = Tail(@)]
    /\ UNCHANGED <<idOf, wireOf, crossed, table, dead, sub, line, cut, session, left>>

-----------------------------------------------------------------------------
(* socket: realWrite, Close, Read and the goroutine it spawns *)

\* The token and the segment
Write(s) ==
    /\ sok[s].stage = "open" /\ MayWrite(s)
    /\ sok[s].sent < left.writes[s[1]] /\ sok[s].sendwind < Window
    /\ sok' = [sok EXCEPT ![s].sendwind = @ + 1, ![s].sent = @ + 1]
    /\ Pack(s, Segment("DATA", s[2], sok[s].sent + 1))
    /\ UNCHANGED socketOnly

Close(s) ==
    /\ sok[s].stage = "open" /\ ~sok[s].closed
    /\ sok' = [sok EXCEPT ![s].closed = TRUE, ![s].dead = TRUE]
    /\ Pack(s, Segment("CLOS", s[2], 0))
    /\ UNCHANGED socketOnly

\* `reading`: a Read has passed its aliveness check and is in its select.
ReadData(s) ==
    /\ sok[s].reading /\ sok[s].incoming # <<>>
    /\ LET seg == Head(sok[s].incoming)
           more == Uint8Dec(sok[s].recvcount)
       IN  /\ seg.flag = "DATA"
           /\ \E mark \in LowMark..HighMark :
                sok' = [sok EXCEPT
                  ![s].reading = ~sok[s].dead, ![s].incoming = Tail(@),
                  ![s].got = Append(@, <<seg.num, seg.pos>>),
                  ![s].recvcount = IF more < mark THEN Uint8Add(more, Count) ELSE more,
                  ![s].owed = IF more < mark THEN @ + 1 ELSE @]
    /\ UNCHANGED <<line, socketOnly>>

ReadClos(s) ==
    /\ sok[s].reading /\ sok[s].incoming # <<>>
    /\ LET seg == Head(sok[s].incoming)
       IN  /\ seg.flag = "CLOS"
           /\ sok' = [sok EXCEPT ![s].reading = FALSE, ![s].incoming = Tail(@),
                        ![s].dead = TRUE, ![s].got = Append(@, <<seg.num, 0>>)]
    /\ UNCHANGED <<line, socketOnly>>

ReadDying(s) ==
    /\ sok[s].reading /\ sok[s].dead
    /\ sok' = [sok EXCEPT ![s].reading = FALSE]
    /\ UNCHANGED <<line, socketOnly>>

SendIcwd(s) ==
    /\ sok[s].owed > 0
    /\ sok' = [sok EXCEPT ![s].owed = @ - 1]
    /\ IF sok[s].dead THEN UNCHANGED line ELSE Pack(s, Segment("ICWD", s[2], 0))
    /\ UNCHANGED socketOnly

\* Fifteen minutes: of Read with nothing to take, of realWrite with no room
SocketTimeout(s) ==
    /\ left.faults > 0 /\ ~sok[s].dead
    /\ \/ sok[s].reading /\ sok[s].incoming = <<>>
       \/ sok[s].stage = "open" /\ sok[s].sendwind = Window
    /\ left' = [left EXCEPT !.faults = @ - 1]
    /\ sok' = [sok EXCEPT ![s].dead = TRUE, ![s].reading = @ /\ sok[s].incoming # <<>>]
    /\ UNCHANGED <<idOf, wireOf, crossed, table, dead, acptQueue, sub, line, cut, session>>

TieUp(s) ==
    /\ sok[s].stage \in {"queued", "open"} /\ ~sok[s].dead
    /\ Tied(s)
    /\ sok' = [sok EXCEPT ![s].dead = TRUE]
    /\ UNCHANGED <<line, socketOnly>>

-----------------------------------------------------------------------------
(* subCtx.mainThread, its watchdog and the goroutine that closes the wire *)

Receiving(e, w, flags) ==
    /\ sub[e][w].main /\ sub[e][w].open /\ w \notin cut
    /\ line[w][Peer(e)] # <<>>
    /\ Head(line[w][Peer(e)]).flag \in flags

Unpacked(e, w) == line' = [line EXCEPT ![w][Peer(e)] = Tail(@)]

\* mainThread returns an error: parent and subCtx die, the wire is closed.
Fail(e, w) ==
    /\ dead' = [dead EXCEPT ![Owner(e, w)] = TRUE]
    /\ sub' = [sub EXCEPT ![e][w] = [@ EXCEPT !.dead = TRUE, !.main = FALSE, !.open = FALSE]]

GoesOn == UNCHANGED <<dead, sub>>
receiving == <<idOf, wireOf, crossed, cut, session, left>>

RecvOpen(w) ==
    /\ Receiving("server", w, {"OPEN"})
    /\ Unpacked("server", w)
    /\ LET seg == Head(line[w]["client"])
           c == given[w]
       IN  /\ table' = [table EXCEPT ![c][seg.id] = seg.num]
           /\ sok' = [sok EXCEPT ![<<"server", seg.num>>].stage = "queued"]
           /\ IF Len(acptQueue[c]) < AcceptCap
                THEN acptQueue' = [acptQueue EXCEPT ![c] = Append(@, seg.num)] /\ GoesOn
                ELSE UNCHANGED acptQueue /\ Fail("server", w)
    /\ UNCHANGED receiving

RecvIcwd(e, w) ==
    /\ Receiving(e, w, {"ICWD"})
    /\ Unpacked(e, w)
    /\ LET dest == <<e, table[Owner(e, w)][Head(line[w][Peer(e)]).id]>>
       IN  IF dest[2] # 0 /\ sok[dest].sendwind >= Count
             THEN sok' = [sok EXCEPT ![dest].sendwind = @ - Count] /\ GoesOn
             ELSE UNCHANGED sok /\ Fail(e, w)
    /\ UNCHANGED <<table, acptQueue, receiving>>

RecvSegment(e, w) ==
    /\ Receiving(e, w, {"DATA", "CLOS"})
    /\ Unpacked(e, w)
    /\ LET seg == Head(line[w][Peer(e)])
           dest == <<e, table[Owner(e, w)][seg.id]>>
       IN  /\ table' = IF dest[2] = 0 THEN table
                       ELSE [table EXCEPT ![Owner(e, w)] = TableAfter(seg, @)]
           /\ IF dest[2] # 0 /\ HasRoom(sok[dest].incoming)
                THEN sok' = [sok EXCEPT ![dest].incoming = Append(@, seg)] /\ GoesOn
                ELSE UNCHANGED sok /\ Fail(e, w)
    /\ UNCHANGED <<acptQueue, receiving>>

contextOnly == <<sockets, table, acptQueue, line, session>>

ReadError(e, w) ==
    /\ sub[e][w].main /\ ~Carries(w, e)
    /\ Fail(e, w)
    /\ UNCHANGED <<contextOnly, cut, left>>

\* No segment for four or twenty minutes, for want of a sendAliv there
Watchdog(e, w) ==
    /\ sub[e][w].main /\ ~sub[e][w].dead
    /\ w \in cut \/ sub[Peer(e)][w].stage = "leaked"
    /\ sub' = [sub EXCEPT ![e][w].dead = TRUE]
    /\ UNCHANGED <<contextOnly, dead, cut, left>>

CloseWire(e, w) ==
    /\ sub[e][w].stage = "live" /\ sub[e][w].open /\ MustClose(e, w)
    /\ sub' = [sub EXCEPT ![e][w].open = FALSE, ![e][w].dead = TRUE]
    /\ UNCHANGED <<contextOnly, dead, cut, left>>

-----------------------------------------------------------------------------
\* Tomb().Kill by the client program; at the exit only a dead Context is killed.
Kill ==
    /\ left.faults > 0 /\ ~dead[0]
    /\ left' = [left EXCEPT !.faults = @ - 1]
    /\ dead' = [dead EXCEPT ![0] = TRUE]
    /\ UNCHANGED <<contextOnly, sub, cut>>

\* A wire's network fails for good.
Cut(w) ==
    /\ left.faults > 0 /\ w \notin cut /\ sub["client"][w].stage = "live"
    /\ left' = [left EXCEPT !.faults = @ - 1]
    /\ cut' = cut \cup {w}
    /\ UNCHANGED <<contextOnly, dead, sub>>

-----------------------------------------------------------------------------
Admission == Forget \/ \E w \in Wire : HandOver(w) \/ ReadSubid(w)
Application(s) ==
    Write(s) \/ Close(s) \/ ReadData(s) \/ ReadClos(s) \/ ReadDying(s) \/ SocketTimeout(s)
Goroutine(s) == SendIcwd(s) \/ TieUp(s)
SubCtx(e, w) ==
    RecvIcwd(e, w) \/ RecvSegment(e, w) \/ ReadError(e, w) \/ Watchdog(e, w) \/ CloseWire(e, w)

\* What goes on by itself, as in Niaucchi3
Duty ==
    \/ Admission
    \/ \E s \in Sockets : Goroutine(s)
    \/ \E w \in Wire : RecvOpen(w) \/ \E e \in End : SubCtx(e, w)

Next ==
    \/ Duty
    \/ \E w \in Wire : AbsorbClient(w) \/ Cut(w) \/ \E i \in Ids : Tunnel(i, w)
    \/ \E c \in Context : Accept(c)
    \/ Kill
    \/ \E s \in Sockets : Application(s)

Spec == Init /\ [][Next]_vars
FairSpec == Spec /\ WF_vars(Duty)

-----------------------------------------------------------------------------
(* Properties *)

TypeOK ==
    /\ idOf \in Seq(Ids) /\ wireOf \in Seq(Wire)
    /\ Len(idOf) = Len(wireOf) /\ Len(idOf) <= left.tunnels
    /\ \A s \in Sockets :
         /\ sok[s].stage \in {"none", "queued", "open"}
         /\ sok[s].sendwind \in 0..Window /\ sok[s].recvcount \in 0..(Window - 1)
         /\ sok[s].owed \in Nat /\ Len(sok[s].incoming) <= Window
    /\ \A c \in Context : /\ \A i \in Ids : table[c][i] \in {0} \cup DOMAIN idOf
                          /\ Len(acptQueue[c]) <= AcceptCap
    /\ \A e \in End, w \in Wire :
         /\ sub[e][w].stage \in {"none", "reading", "live", "leaked"}
         /\ sub[e][w].main => sub[e][w].stage = "live"
    /\ ctxTab \in Context /\ \A w \in Wire : given[w] \in Context
    /\ cut \subseteq Wire /\ crossed \subseteq Nums /\ left \in Budget

\* What a socket reads is what its own peer wrote, in order, without gaps, and
\* EOF after all of it, whatever the other wires of the session deliver in
\* between; but for ids that Tunnel draws again while their last socket still
\* speaks.
StreamIntegrity ==
    \A e \in End : \A n \in DOMAIN idOf \ crossed :
      LET got == sok[<<e, n>>].got
          sent == sok[<<Peer(e), n>>].sent
      IN  \A k \in DOMAIN got :
            \/ got[k] = <<n, k>> /\ k <= sent
            \/ got[k] = <<n, 0>> /\ k = Len(got) /\ k = sent + 1

\* mainThread returns for something that came over a wire that works, which
\* costs the whole session, for one of three reasons only: an id drawn again
\* too early, a full accept queue, a CLOS behind a window of unread data.
FailuresExplained ==
    [][\A e \in End, w \in Wire :
         sub[e][w].main /\ ~sub'[e][w].main /\ line'[w] # line[w] =>
           LET seg == Head(line[w][Peer(e)])
           IN  \/ seg.num \in crossed
               \/ seg.flag = "OPEN" /\ Len(acptQueue[Owner(e, w)]) = AcceptCap
               \/ seg.flag = "CLOS" /\ Len(sok[<<e, seg.num>>].incoming) = Window
      ]_vars

\* The death of any Context, by a kill from outside too, or of any one wire
\* ends the whole session at both ends: all Contexts that have a wire die, all
\* absorbed wires are closed, all sockets handed out are dead.  (In niaucchi3 a
\* kill leaves the wire open.)
SessionDies ==
    (\E c \in Context : dead[c]) \/ (\E e \in End, w \in Wire : sub[e][w].dead) ~>
      /\ dead[0]
      /\ \A w \in Wire : sub["server"][w].stage = "live" => dead[given[w]]
      /\ \A e \in End, w \in Wire : sub[e][w].stage = "live" => ~sub[e][w].open /\ ~sub[e][w].main
      /\ \A s \in Sockets : sok[s].stage \in {"queued", "open"} => sok[s].dead
=============================================================================
