-------------------------- MODULE Niaucchi3Proofs --------------------------
(* What two multiplexers at the ends of a wire keep for any number of ids,  *)
(* tunnels and segments and any window: type correctness, silence behind    *)
(* CLOS, that a socket reads what its own peer has written, and that two    *)
(* honest ends fail each other for three reasons only.                      *)
EXTENDS Niaucchi3, SequenceTheorems, FiniteSetTheorems, FunctionTheorems, TLAPS

SegmentRec ==
    [flag : {"OPEN", "DATA", "ICWD", "CLOS"}, id : Ids, num : Nums, pos : Nat]

SocketRec ==
    [stage : {"none", "reserved", "queued", "open"}, dead : BOOLEAN, closed : BOOLEAN,
     sendwind : 0..Window, holding : BOOLEAN, recvcount : 0..(Window - 1), owed : Nat,
     reading : BOOLEAN, incoming : Seq(SegmentRec), sent : Nat, got : Seq(Nums \X Nat)]

CtxRec ==
    [dead : BOOLEAN, sdead : BOOLEAN, main : BOOLEAN, open : BOOLEAN, failed : BOOLEAN]

Types ==
    /\ idOf \in Seq(Ids) /\ Len(idOf) <= Tunnels
    /\ sok \in [Sockets -> SocketRec]
    /\ table \in [End -> [Ids -> 0..Len(idOf)]]
    /\ ctx \in [End -> CtxRec]
    /\ wire \in [End -> Seq(SegmentRec)]
    /\ acptQueue \in Seq(1..Len(idOf)) /\ Len(acptQueue) <= AcceptCap
    /\ cut \in BOOLEAN /\ faults \in 0..Faults /\ crossed \in SUBSET Ids

\* Sockets, segments and table entries are those of tunnels that have been
\* drawn, and a segment and an entry have the id of their tunnel.
KnownSockets == \A s \in Sockets : s[2] > Len(idOf) => sok[s] = NewSocket
KnownSegments ==
    \A e \in End : \A k \in 1..Len(wire[e]) :
      wire[e][k].num <= Len(idOf) /\ wire[e][k].id = idOf[wire[e][k].num]
KnownEntries == \A e \in End, i \in Ids : table[e][i] # 0 => idOf[table[e][i]] = i
Known == KnownSockets /\ KnownSegments /\ KnownEntries

\* A writer that holds a token has a segment left to write.
Bounds ==
    \A s \in Sockets :
      /\ Len(sok[s].incoming) <= Window
      /\ sok[s].sent <= Writes[s[1]]
      /\ sok[s].holding => sok[s].sent < Writes[s[1]]

TypeInv == Types /\ Known /\ Bounds

\* A socket sends nothing once it is closed: it is dead, and CLOS is out only
\* then.
ClosedDead ==
    \A s \in Sockets :
      sok[s].closed => sok[s].dead /\ (s[1] = "client" => sok[s].stage = "open")
ClosOfClosed ==
    \A e \in End : \A k \in 1..Len(wire[e]) :
      wire[e][k].flag = "CLOS" => sok[<<e, wire[e][k].num>>].closed
ClosLast ==
    \A e \in End : \A j, k \in 1..Len(wire[e]) :
      j < k /\ wire[e][j].flag = "CLOS" => wire[e][k].num # wire[e][j].num
Silence == ClosedDead /\ ClosOfClosed /\ ClosLast

\* Of the tunnels of an id that is never reused too early, only the last still
\* speaks at the client, and only the one in the client's table at the server.
LastSpeaks ==
    /\ \A m, n \in 1..Len(idOf) :
         m < n /\ idOf[m] = idOf[n] /\ idOf[n] \notin crossed
           => sok[<<"client", m>>].closed
    /\ \A n \in 1..Len(idOf) :
         idOf[n] \notin crossed /\ ~sok[<<"server", n>>].closed
           => table["client"][idOf[n]] = n

\* A segment for the client finds the socket it was sent to.
RoutedDown ==
    \A k \in 1..Len(wire["server"]) :
      LET seg == wire["server"][k]
      IN  seg.id \notin crossed => table["client"][seg.id] = seg.num

OpenAt(w, n, j) == w[j].flag = "OPEN" /\ w[j].num = n

\* A segment for the server finds its socket, or the OPEN of it comes first.
RoutedUp ==
    /\ \A j, k \in 1..Len(wire["client"]) :
         LET a == wire["client"][j]
             b == wire["client"][k]
         IN  j < k /\ a.id = b.id /\ a.id \notin crossed => a.num <= b.num
    /\ \A k \in 1..Len(wire["client"]) :
         LET seg == wire["client"][k]
         IN  seg.id \notin crossed =>
               /\ table["server"][seg.id] <= seg.num
               /\ \/ seg.flag = "OPEN"
                  \/ table["server"][seg.id] = seg.num
                  \/ \E j \in 1..(k - 1) : OpenAt(wire["client"], seg.num, j)
    /\ Carries("client") =>
         \A n \in 1..Len(idOf) :
           idOf[n] \notin crossed /\ sok[<<"client", n>>].stage = "open"
             /\ ~sok[<<"client", n>>].closed
             => \/ table["server"][idOf[n]] = n
                \/ \E j \in 1..Len(wire["client"]) : OpenAt(wire["client"], n, j)

Routing == LastSpeaks /\ RoutedDown /\ RoutedUp

\* How many segments a socket r has been handed, and whether CLOS was the last
Arrived(r) == Len(r.got) + Len(r.incoming)
Ended(r) ==
    \/ Len(r.got) > 0 /\ r.got[Len(r.got)][2] = 0
    \/ Len(r.incoming) > 0 /\ r.incoming[Len(r.incoming)].flag = "CLOS"

\* What has come to socket r of tunnel n from its peer p: the DATA that p has
\* written, from the first on, and CLOS behind all of it.
Received(r, p, n) ==
    /\ \A k \in 1..Len(r.got) :
         \/ r.got[k] = <<n, k>>
         \/ r.got[k] = <<n, 0>> /\ k = Len(r.got) /\ Len(r.incoming) = 0
    /\ \A k \in 1..Len(r.incoming) :
         /\ r.incoming[k].num = n
         /\ \/ r.incoming[k].flag = "DATA" /\ r.incoming[k].pos = Len(r.got) + k
            \/ r.incoming[k].flag = "CLOS" /\ k = Len(r.incoming)
    /\ Ended(r) => p.closed /\ Arrived(r) = p.sent + 1
    /\ ~Ended(r) => Arrived(r) <= p.sent

\* Segment k of wire w is DATA of tunnel n.
Data(w, n, k) == w[k].flag = "DATA" /\ w[k].num = n

\* The last of the first k segments of wire w that are DATA for socket r is
\* number i, or r has been handed i of them and none is on its way.
UpTo(r, w, n, k, i) ==
    i = Arrived(r) \/ \E j \in 1..k : Data(w, n, j) /\ w[j].pos = i

\* What is still to come to socket r over wire w when its peer has sent so much:
\* the rest of it, in order, and CLOS behind that.
Coming(r, sent, w, n, carried) ==
    IF Ended(r)
      THEN \A k \in 1..Len(w) : w[k].num = n => w[k].flag \notin {"DATA", "CLOS"}
      ELSE /\ \A k \in 1..Len(w) : Data(w, n, k) =>
                /\ Arrived(r) < w[k].pos /\ w[k].pos <= sent
                /\ UpTo(r, w, n, k - 1, w[k].pos - 1)
           /\ \A j, k \in 1..Len(w) :
                j < k /\ Data(w, n, j) /\ Data(w, n, k) => w[j].pos < w[k].pos
           /\ \A k \in 1..Len(w) :
                w[k].flag = "CLOS" /\ w[k].num = n => UpTo(r, w, n, k - 1, sent)
           /\ carried => UpTo(r, w, n, Len(w), sent)

\* The stream to socket n of end e
Stream(e, n) ==
    LET r == sok[<<e, n>>]
        p == sok[<<Peer(e), n>>]
    IN  /\ Received(r, p, n)
        /\ ctx[e].main => Coming(r, p.sent, wire[Peer(e)], n, Carries(Peer(e)))

Streams == \A e \in End : \A n \in 1..Len(idOf) : idOf[n] \notin crossed => Stream(e, n)

-----------------------------------------------------------------------------
(* Types *)

LEMMA Numbers ==
    /\ Window \in Nat /\ Count \in Nat /\ Count > 0 /\ Window > 1 /\ Tunnels \in Nat
    /\ LowMark \in Nat /\ HighMark \in Nat /\ HighMark + Count <= Window
    /\ AcceptCap \in Nat /\ Faults \in Nat
  BY NiaucchiAssumption

LEMMA Ends ==
    /\ "client" \in End /\ "server" \in End
    /\ \A e \in End : Peer(e) \in End /\ Peer(e) # e /\ Peer(Peer(e)) = e /\ Writes[e] \in Nat
    /\ \A e \in End, n \in Nums : <<e, n>> \in Sockets
    /\ \A s \in Sockets : s[1] \in End /\ s[2] \in Nums /\ s = <<s[1], s[2]>>
  BY NiaucchiAssumption DEF End, Peer, Sockets

LEMMA NumFacts ==
    ASSUME TypeInv
    PROVE  /\ Len(idOf) \in Nat /\ Len(idOf) <= Tunnels
           /\ \A n \in 1..Len(idOf) :
                n \in Nat /\ n \in Nums /\ idOf[n] \in Ids /\ \A e \in End : <<e, n>> \in Sockets
           /\ \A s \in Sockets : s[2] <= Len(idOf) => s[2] \in 1..Len(idOf)
  <1>1. Len(idOf) \in Nat /\ Len(idOf) <= Tunnels /\ idOf \in Seq(Ids)
    BY DEF TypeInv, Types
  <1>2. \A n \in 1..Len(idOf) : n \in Nat /\ n \in Nums /\ idOf[n] \in Ids
    BY <1>1, Numbers DEF Nums
  <1>3. \A s \in Sockets : s[2] \in Nat /\ s[2] >= 1
    BY Ends, Numbers DEF Nums
  <1> QED
    BY <1>1, <1>2, <1>3, Ends

LEMMA NewSocketType == NewSocket \in SocketRec
  BY Numbers DEF NewSocket, SocketRec

\* What Pack does to a wire: nothing, or one segment more at its end.
LEMMA PackFacts ==
    ASSUME Types, NEW e \in End, NEW seg \in SegmentRec, Pack(e, seg)
    PROVE  /\ wire' \in [End -> Seq(SegmentRec)]
           /\ \A f \in End : \A k \in 1..Len(wire[f]) :
                k \in 1..Len(wire'[f]) /\ wire'[f][k] = wire[f][k]
           /\ \A f \in End : \A k \in 1..Len(wire'[f]) :
                \/ k \in 1..Len(wire[f]) /\ wire'[f][k] = wire[f][k]
                \/ f = e /\ Carries(e) /\ k = Len(wire[e]) + 1 /\ wire'[f][k] = seg
           /\ Carries(e) => Len(wire[e]) + 1 \in 1..Len(wire'[e])
                             /\ wire'[e][Len(wire[e]) + 1] = seg
  <1>1. CASE Carries(e)
    <2>1. wire' = [wire EXCEPT ![e] = Append(wire[e], seg)]
      BY <1>1 DEF Pack
    <2>2. wire[e] \in Seq(SegmentRec)
      BY DEF Types
    <2>3. /\ Append(wire[e], seg) \in Seq(SegmentRec)
          /\ Len(Append(wire[e], seg)) = Len(wire[e]) + 1
          /\ \A i \in 1..Len(wire[e]) : Append(wire[e], seg)[i] = wire[e][i]
          /\ Append(wire[e], seg)[Len(wire[e]) + 1] = seg
      BY <2>2, AppendProperties
    <2>4. wire'[e] = Append(wire[e], seg) /\ \A f \in End \ {e} : wire'[f] = wire[f]
      BY <2>1 DEF Types
    <2>5. wire' \in [End -> Seq(SegmentRec)]
      BY <2>1, <2>3 DEF Types
    <2>6. Len(wire[e]) \in Nat
      BY <2>2
    <2>7. \A f \in End : \A k \in 1..Len(wire[f]) :
            k \in 1..Len(wire'[f]) /\ wire'[f][k] = wire[f][k]
      BY <2>3, <2>4, <2>6
    <2>8. \A f \in End : \A k \in 1..Len(wire'[f]) :
            \/ k \in 1..Len(wire[f]) /\ wire'[f][k] = wire[f][k]
            \/ f = e /\ Carries(e) /\ k = Len(wire[e]) + 1 /\ wire'[f][k] = seg
      BY <1>1, <2>3, <2>4, <2>6
    <2> QED
      BY <2>3, <2>4, <2>5, <2>6, <2>7, <2>8
  <1>2. CASE ~Carries(e)
    <2>1. wire' = wire
      BY <1>2 DEF Pack
    <2> QED
      BY <1>2, <2>1 DEF Types
  <1> QED
    BY <1>1, <1>2

\* A segment of a tunnel that has been drawn keeps the wires known.
LEMMA PackKnown ==
    ASSUME TypeInv, NEW e \in End, NEW seg \in SegmentRec, Pack(e, seg), idOf' = idOf,
           seg.num <= Len(idOf), seg.id = idOf[seg.num]
    PROVE  wire' \in [End -> Seq(SegmentRec)] /\ KnownSegments'
  <1>1. /\ wire' \in [End -> Seq(SegmentRec)]
        /\ \A f \in End : \A k \in 1..Len(wire'[f]) :
             \/ k \in 1..Len(wire[f]) /\ wire'[f][k] = wire[f][k]
             \/ f = e /\ Carries(e) /\ k = Len(wire[e]) + 1 /\ wire'[f][k] = seg
    BY PackFacts DEF TypeInv
  <1>2. ASSUME NEW f \in End, NEW k \in 1..Len(wire'[f])
        PROVE  wire'[f][k].num <= Len(idOf') /\ wire'[f][k].id = idOf'[wire'[f][k].num]
    <2>1. CASE k \in 1..Len(wire[f]) /\ wire'[f][k] = wire[f][k]
      BY <2>1 DEF TypeInv, Known, KnownSegments
    <2>2. CASE wire'[f][k] = seg
      BY <2>2
    <2> QED
      BY <1>1, <2>1, <2>2
  <1> QED
    BY <1>1, <1>2 DEF KnownSegments

\* What mainThread does to a wire: it takes the first segment.
LEMMA UnpackFacts ==
    ASSUME Types, NEW e \in End, wire[Peer(e)] # <<>>, Unpacked(e)
    PROVE  /\ wire' \in [End -> Seq(SegmentRec)]
           /\ 1 \in 1..Len(wire[Peer(e)])
           /\ Head(wire[Peer(e)]) = wire[Peer(e)][1] /\ Head(wire[Peer(e)]) \in SegmentRec
           /\ wire'[e] = wire[e]
           /\ Len(wire'[Peer(e)]) = Len(wire[Peer(e)]) - 1
           /\ \A k \in 1..Len(wire'[Peer(e)]) :
                k + 1 \in 1..Len(wire[Peer(e)]) /\ wire'[Peer(e)][k] = wire[Peer(e)][k + 1]
  <1>1. wire[Peer(e)] \in Seq(SegmentRec) /\ Peer(e) \in End /\ Peer(e) # e
    BY Ends DEF Types
  <1>2. wire' = [wire EXCEPT ![Peer(e)] = Tail(wire[Peer(e)])]
    BY DEF Unpacked
  <1>3. /\ Head(wire[Peer(e)]) \in SegmentRec
        /\ Tail(wire[Peer(e)]) \in Seq(SegmentRec)
        /\ Len(Tail(wire[Peer(e)])) = Len(wire[Peer(e)]) - 1
        /\ \A i \in 1..Len(Tail(wire[Peer(e)])) : Tail(wire[Peer(e)])[i] = wire[Peer(e)][i + 1]
    BY <1>1, HeadTailProperties
  <1>4. wire'[Peer(e)] = Tail(wire[Peer(e)]) /\ wire'[e] = wire[e]
    BY <1>1, <1>2 DEF Types
  <1>5. wire' \in [End -> Seq(SegmentRec)]
    BY <1>2, <1>3 DEF Types
  <1>6. Len(wire[Peer(e)]) \in Nat /\ Len(wire[Peer(e)]) > 0
    BY <1>1
  <1>7. Head(wire[Peer(e)]) = wire[Peer(e)][1]
    BY <1>1
  <1> QED
    BY <1>1, <1>3, <1>4, <1>5, <1>6, <1>7

-----------------------------------------------------------------------------
(* What the steps have in common.  The proofs below go by these, and not by *)
(* the actions.                                                             *)

\* Socket t may die, and the server's be queued or opened, and no more.
Still(t) ==
    /\ t[1] = "client" => sok'[t].stage = sok[t].stage
    /\ sok'[t].closed = sok[t].closed /\ sok'[t].sent = sok[t].sent
    /\ sok'[t].got = sok[t].got /\ sok'[t].incoming = sok[t].incoming
    /\ sok[t].dead => sok'[t].dead

\* A connection that has gone does not come back, nor does a mainThread.
Fading ==
    \A e \in End : (Carries(e)' => Carries(e)) /\ (ctx'[e].main => ctx[e].main)

Quiet ==
    /\ UNCHANGED <<idOf, table, wire, crossed>>
    /\ \A t \in Sockets : Still(t)
    /\ Fading

\* Socket s packs a segment.
Sends(s, seg) ==
    /\ UNCHANGED <<idOf, table, ctx, cut, crossed>>
    /\ s[2] <= Len(idOf)
    /\ seg \in SegmentRec /\ seg.num = s[2] /\ seg.id = idOf[s[2]]
    /\ Pack(s[1], seg)
    /\ \A t \in Sockets \ {s} : Still(t)
    /\ sok'[s].got = sok[s].got /\ sok'[s].incoming = sok[s].incoming
    /\ sok[s].dead => sok'[s].dead
    /\ CASE seg.flag = "OPEN" ->
               /\ s[1] = "client" /\ sok[s].stage = "reserved" /\ sok'[s].stage = "open"
               /\ sok'[s].closed = sok[s].closed /\ sok'[s].sent = sok[s].sent
          [] seg.flag = "DATA" ->
               /\ sok[s].holding /\ ~sok[s].dead /\ seg.pos = sok[s].sent + 1
               /\ sok'[s].closed = sok[s].closed /\ sok'[s].sent = sok[s].sent + 1
               /\ sok'[s].stage = sok[s].stage
          [] seg.flag = "ICWD" -> sok[s].owed > 0 /\ ~sok[s].dead /\ Still(s)
          [] seg.flag = "CLOS" ->
               /\ sok[s].stage = "open" /\ ~sok[s].closed
               /\ sok'[s].closed /\ sok'[s].dead /\ sok'[s].sent = sok[s].sent
               /\ sok'[s].stage = "open"

\* Read moves a segment from incoming into what it has returned.
Reads(s) ==
    LET in == sok[s].incoming
        seg == in[1]
    IN  /\ UNCHANGED <<idOf, table, ctx, cut, wire, crossed>>
        /\ \A t \in Sockets \ {s} : Still(t)
        /\ sok'[s].stage = sok[s].stage
        /\ sok'[s].closed = sok[s].closed /\ sok'[s].sent = sok[s].sent
        /\ sok[s].dead => sok'[s].dead
        /\ Len(in) > 0
        /\ Len(sok'[s].incoming) = Len(in) - 1
        /\ \A k \in 1..(Len(in) - 1) : sok'[s].incoming[k] = in[k + 1]
        /\ Len(sok'[s].got) = Len(sok[s].got) + 1
        /\ \A k \in 1..Len(sok[s].got) : sok'[s].got[k] = sok[s].got[k]
        /\ \/ /\ seg.flag = "DATA"
              /\ sok'[s].got[Len(sok[s].got) + 1] = <<seg.num, seg.pos>>
           \/ /\ seg.flag = "CLOS"
              /\ sok'[s].got[Len(sok[s].got) + 1] = <<seg.num, 0>>

\* The table of end e after one of its entries was set
SetTo(e, i, n) ==
    \A f \in End, j \in Ids : table'[f][j] = IF f = e /\ j = i THEN n ELSE table[f][j]

\* mainThread of end e takes a segment off the wire: OPEN and ICWD change no
\* stream, DATA and CLOS go into incoming of the socket in the table, or
\* mainThread ends.
Takes(e, seg) ==
    LET dest == <<e, table[e][seg.id]>>
    IN  /\ UNCHANGED <<idOf, crossed>> /\ Fading /\ ctx[e].main
        /\ wire[Peer(e)] # <<>> /\ seg = wire[Peer(e)][1] /\ Unpacked(e)
        /\ \A t \in Sockets \ {dest} : Still(t)
        /\ \/ seg.flag = "OPEN" /\ e = "server" /\ SetTo(e, seg.id, seg.num)
           \/ seg.flag = "ICWD" /\ table' = table
           \/ seg.flag = "DATA" /\ table' = table
           \/ seg.flag = "CLOS" /\ SetTo(e, seg.id, 0)
        /\ \/ /\ \A t \in Sockets : Still(t)
              /\ seg.flag \in {"DATA", "CLOS"} => ~ctx'[e].main
           \/ /\ seg.flag \in {"DATA", "CLOS"} /\ dest \in Sockets
              /\ Len(sok[dest].incoming) < Window
              /\ sok'[dest] = [sok[dest] EXCEPT !.incoming = Append(@, seg)]

\* Tunnel draws an id, which is the next tunnel's.
Reserves(i) ==
    LET n == Len(idOf) + 1
        c == <<"client", n>>
    IN  /\ i \in Ids /\ table["client"][i] = 0 /\ n \in Nums
        /\ idOf' = Append(idOf, i) /\ UNCHANGED <<wire, ctx, cut>>
        /\ SetTo("client", i, n)
        /\ sok[c] = NewSocket /\ sok'[c] = [NewSocket EXCEPT !.stage = "reserved"]
        /\ sok[<<"server", n>>] = NewSocket
        /\ \A t \in Sockets \ {c} : sok'[t] = sok[t]
        /\ \A j \in crossed : j \in crossed'
        /\ i \notin crossed' =>
             \A k \in 1..Len(idOf) : idOf[k] = i => sok[<<"client", k>>].closed

LEMMA ContextFades ==
    ASSUME Types, UNCHANGED <<ctx, cut>>
    PROVE  Fading
  BY DEF Fading, Carries

-----------------------------------------------------------------------------
(* The steps of a socket *)

\* A step of socket s alone: what is left to show of its new state.
LEMMA SocketTypes ==
    ASSUME TypeInv, NEW s \in Sockets, NEW new \in SocketRec,
           s[2] <= Len(idOf), sok' = [sok EXCEPT ![s] = new],
           Len(new.incoming) <= Window, new.sent <= Writes[s[1]],
           new.holding => new.sent < Writes[s[1]]
    PROVE  /\ sok' \in [Sockets -> SocketRec]
           /\ sok'[s] = new /\ \A t \in Sockets \ {s} : sok'[t] = sok[t] /\ Still(t)
           /\ idOf' = idOf => KnownSockets'
           /\ Bounds'
  <1>1. sok \in [Sockets -> SocketRec]
    BY DEF TypeInv, Types
  <1>2. sok' \in [Sockets -> SocketRec]
    BY <1>1
  <1>3. sok'[s] = new /\ \A t \in Sockets \ {s} : sok'[t] = sok[t]
    BY <1>1
  <1>4. ASSUME idOf' = idOf PROVE KnownSockets'
    <2>1. s[2] \in Nums /\ Len(idOf) \in Nat
      BY Ends DEF TypeInv, Types
    <2> QED
      BY <1>3, <1>4, <2>1, Numbers DEF TypeInv, Known, KnownSockets, Nums
  <1>5. Bounds'
    BY <1>3 DEF TypeInv, Bounds
  <1> QED
    BY <1>2, <1>3, <1>4, <1>5 DEF Still

\* A socket that is not as new is that of a tunnel which has been drawn.
LEMMA Drawn ==
    ASSUME TypeInv, NEW s \in Sockets,
           \/ sok[s].stage # "none" \/ sok[s].holding \/ sok[s].reading \/ sok[s].owed > 0
    PROVE  /\ s[2] \in 1..Len(idOf) /\ idOf[s[2]] \in Ids
  <1>1. s[2] \in Nums /\ s[2] \in Nat /\ s[2] >= 1
    BY Ends, Numbers DEF Nums
  <1>2. Len(idOf) \in Nat
    BY DEF TypeInv, Types
  <1>3. ~(s[2] > Len(idOf))
    BY DEF TypeInv, Known, KnownSockets, NewSocket
  <1> QED
    BY <1>1, <1>2, <1>3 DEF TypeInv, Types

\* A step of a socket that nobody else sees
LEMMA QuietSocket ==
    ASSUME TypeInv, NEW s \in Sockets, NEW new \in SocketRec,
           s[2] <= Len(idOf), sok' = [sok EXCEPT ![s] = new],
           new.stage = sok[s].stage \/ s[1] = "server", new.closed = sok[s].closed,
           new.sent = sok[s].sent, new.got = sok[s].got, new.incoming = sok[s].incoming,
           sok[s].dead => new.dead, new.holding => new.sent < Writes[s[1]],
           UNCHANGED <<idOf, table, ctx, wire, cut, crossed>>,
           acptQueue' \in Seq(1..Len(idOf)), Len(acptQueue') <= AcceptCap, faults' \in 0..Faults
    PROVE  TypeInv' /\ Quiet
  <1>1. /\ sok' \in [Sockets -> SocketRec]
        /\ sok'[s] = new /\ \A t \in Sockets \ {s} : Still(t)
        /\ KnownSockets' /\ Bounds'
    BY SocketTypes DEF TypeInv, Bounds
  <1>2. TypeInv'
    BY <1>1 DEF TypeInv, Types, Known, KnownSegments, KnownEntries
  <1>3. Still(s)
    <2>1. "client" # "server"
      OBVIOUS
    <2> QED
      BY <1>1, <2>1 DEF Still
  <1> QED
    BY <1>1, <1>2, <1>3, ContextFades DEF Quiet, TypeInv

\* A step of a socket that sends a segment
LEMMA SendingSocket ==
    ASSUME TypeInv, NEW s \in Sockets, NEW new \in SocketRec,
           s[2] <= Len(idOf), sok' = [sok EXCEPT ![s] = new],
           new.got = sok[s].got, new.incoming = sok[s].incoming,
           new.sent <= Writes[s[1]], new.holding => new.sent < Writes[s[1]],
           NEW seg \in SegmentRec, seg.num = s[2], seg.id = idOf[s[2]], Pack(s[1], seg),
           UNCHANGED <<idOf, table, ctx, acptQueue, cut, faults, crossed>>
    PROVE  TypeInv' /\ sok'[s] = new /\ \A t \in Sockets \ {s} : Still(t)
  <1>1. /\ sok' \in [Sockets -> SocketRec]
        /\ sok'[s] = new /\ \A t \in Sockets \ {s} : Still(t)
        /\ KnownSockets' /\ Bounds'
    BY SocketTypes DEF TypeInv, Bounds
  <1>2. wire' \in [End -> Seq(SegmentRec)] /\ KnownSegments'
    BY Ends, PackKnown
  <1>3. TypeInv'
    BY <1>1, <1>2 DEF TypeInv, Types, Known, KnownEntries
  <1> QED
    BY <1>1, <1>3

\* The segments of a tunnel that has been drawn
LEMMA SegmentFacts ==
    ASSUME TypeInv, NEW s \in Sockets, s[2] <= Len(idOf),
           NEW flag \in {"OPEN", "DATA", "ICWD", "CLOS"}, NEW pos \in Nat,
           NEW seg, seg = Segment(flag, s[2], pos)
    PROVE  /\ seg \in SegmentRec /\ seg.flag = flag /\ seg.pos = pos
           /\ seg.num = s[2] /\ seg.id = idOf[s[2]]
  <1>1. s[2] \in Nums /\ s[1] \in End
    BY Ends
  <1>2. idOf[s[2]] \in Ids
    BY <1>1, Numbers DEF Nums, TypeInv, Types
  <1> QED
    BY <1>1, <1>2 DEF Segment, SegmentRec

LEMMA TakeTokenStep ==
    ASSUME TypeInv, NEW s \in Sockets, TakeToken(s)
    PROVE  TypeInv' /\ Quiet
  <1> DEFINE new == [sok[s] EXCEPT !.sendwind = @ + 1, !.holding = TRUE]
  <1>1. sok[s] \in SocketRec /\ s[2] <= Len(idOf) /\ s[2] \in Nat
    BY Drawn DEF TypeInv, Types, TakeToken
  <1>2. sok' = [sok EXCEPT ![s] = new]
    BY DEF TakeToken, TypeInv, Types
  <1>3. new \in SocketRec
    <2>1. sok[s].sendwind \in 0..Window /\ sok[s].sendwind < Window
      BY <1>1 DEF TakeToken, SocketRec
    <2>2. sok[s].sendwind + 1 \in 0..Window
      BY <2>1, Numbers
    <2> QED
      BY <1>1, <2>2 DEF SocketRec
  <1>4. /\ new.incoming = sok[s].incoming /\ new.sent = sok[s].sent /\ new.got = sok[s].got
        /\ new.stage = sok[s].stage /\ new.closed = sok[s].closed /\ new.dead = sok[s].dead
        /\ new.sent < Writes[s[1]]
    BY <1>1 DEF TakeToken, SocketRec
  <1>5. UNCHANGED <<idOf, table, ctx, wire, acptQueue, cut, faults, crossed>>
    BY DEF TakeToken, socketOnly
  <1> HIDE DEF new
  <1> QED
    BY <1>1, <1>2, <1>3, <1>4, <1>5, QuietSocket DEF TypeInv, Types

LEMMA SendDataStep ==
    ASSUME TypeInv, NEW s \in Sockets, SendData(s)
    PROVE  TypeInv' /\ (Quiet \/ \E seg : Sends(s, seg))
  <1>1. /\ sok[s] \in SocketRec /\ s[2] <= Len(idOf)
        /\ sok[s].holding /\ sok[s].sent < Writes[s[1]]
    <2>1. sok[s].holding
      BY DEF SendData
    <2> QED
      BY <2>1, Drawn DEF TypeInv, Types, Bounds
  <1>2. sok[s].sent \in Nat /\ sok[s].sent + 1 \in Nat /\ sok[s].sent + 1 <= Writes[s[1]]
    BY <1>1, Ends DEF SocketRec
  <1>3. UNCHANGED <<idOf, table, ctx, acptQueue, cut, faults, crossed>>
    BY DEF SendData, socketOnly
  <1>4. CASE ~sok[s].dead
    <2> DEFINE new == [sok[s] EXCEPT !.holding = FALSE, !.sent = @ + 1]
               seg == Segment("DATA", s[2], sok[s].sent + 1)
    <2>1. sok' = [sok EXCEPT ![s] = new] /\ Pack(s[1], seg)
      BY <1>4 DEF SendData, MayWrite, TypeInv, Types
    <2>2. new \in SocketRec
      BY <1>1, <1>2 DEF SocketRec
    <2>3. /\ new.incoming = sok[s].incoming /\ new.sent = sok[s].sent + 1 /\ new.got = sok[s].got
          /\ new.stage = sok[s].stage /\ new.closed = sok[s].closed /\ new.dead = sok[s].dead
          /\ ~new.holding
      BY <1>1 DEF SocketRec
    <2> HIDE DEF new
    <2>segment. seg = Segment("DATA", s[2], sok[s].sent + 1)
      OBVIOUS
    <2> HIDE DEF seg
    <2>fields. /\ seg \in SegmentRec /\ seg.flag = "DATA" /\ seg.pos = sok[s].sent + 1
          /\ seg.num = s[2] /\ seg.id = idOf[s[2]]
      BY <1>1, <1>2, <2>segment, SegmentFacts
    <2>4. TypeInv' /\ sok'[s] = new /\ \A t \in Sockets \ {s} : Still(t)
      BY <1>1, <1>2, <1>3, <2>1, <2>2, <2>3, <2>fields, SendingSocket
    <2>5. Sends(s, seg)
      BY <1>1, <1>3, <1>4, <2>1, <2>3, <2>4, <2>fields DEF Sends
    <2> QED
      BY <2>4, <2>5
  <1>5. CASE sok[s].dead
    <2> DEFINE new == [sok[s] EXCEPT !.holding = FALSE]
    <2>1. sok' = [sok EXCEPT ![s] = new] /\ wire' = wire
      BY <1>5 DEF SendData, MayWrite, TypeInv, Types
    <2>2. new \in SocketRec
      BY <1>1 DEF SocketRec
    <2>3. /\ new.incoming = sok[s].incoming /\ new.sent = sok[s].sent /\ new.got = sok[s].got
          /\ new.stage = sok[s].stage /\ new.closed = sok[s].closed /\ new.dead = sok[s].dead
          /\ ~new.holding
      BY <1>1 DEF SocketRec
    <2> HIDE DEF new
    <2> QED
      BY <1>1, <1>3, <2>1, <2>2, <2>3, QuietSocket DEF TypeInv, Types
  <1> QED
    BY <1>4, <1>5

LEMMA CloseStep ==
    ASSUME TypeInv, NEW s \in Sockets, Close(s)
    PROVE  TypeInv' /\ \E seg : Sends(s, seg)
  <1> DEFINE new == [sok[s] EXCEPT !.closed = TRUE, !.dead = TRUE]
             seg == Segment("CLOS", s[2], 0)
  <1>1. /\ sok[s] \in SocketRec /\ s[2] <= Len(idOf)
        /\ sok[s].stage = "open" /\ ~sok[s].closed
    BY Drawn DEF TypeInv, Types, Close
  <1>2. UNCHANGED <<idOf, table, ctx, acptQueue, cut, faults, crossed>>
    BY DEF Close, socketOnly
  <1>3. sok' = [sok EXCEPT ![s] = new] /\ Pack(s[1], seg)
    BY DEF Close, TypeInv, Types
  <1>4. new \in SocketRec
    BY <1>1 DEF SocketRec
  <1>5. /\ new.incoming = sok[s].incoming /\ new.sent = sok[s].sent /\ new.got = sok[s].got
        /\ new.stage = "open" /\ new.closed /\ new.dead /\ new.holding = sok[s].holding
    BY <1>1 DEF SocketRec
  <1>6. new.sent <= Writes[s[1]] /\ (new.holding => new.sent < Writes[s[1]])
    BY <1>5 DEF TypeInv, Bounds
  <1> HIDE DEF new
  <1>segment. seg = Segment("CLOS", s[2], 0)
    OBVIOUS
  <1> HIDE DEF seg
  <1>fields. /\ seg \in SegmentRec /\ seg.flag = "CLOS" /\ seg.pos = 0
        /\ seg.num = s[2] /\ seg.id = idOf[s[2]]
    BY <1>1, <1>segment, SegmentFacts
  <1>7. TypeInv' /\ sok'[s] = new /\ \A t \in Sockets \ {s} : Still(t)
    BY <1>1, <1>2, <1>3, <1>4, <1>5, <1>6, <1>fields, SendingSocket
  <1>8. Sends(s, seg)
    BY <1>1, <1>2, <1>3, <1>5, <1>7, <1>fields DEF Sends
  <1> QED
    BY <1>7, <1>8

LEMMA SendIcwdStep ==
    ASSUME TypeInv, NEW s \in Sockets, SendIcwd(s)
    PROVE  TypeInv' /\ (Quiet \/ \E seg : Sends(s, seg))
  <1> DEFINE new == [sok[s] EXCEPT !.owed = @ - 1]
             seg == Segment("ICWD", s[2], 0)
  <1>1. sok[s] \in SocketRec /\ s[2] <= Len(idOf) /\ sok[s].owed > 0
    BY Drawn DEF TypeInv, Types, SendIcwd
  <1>2. UNCHANGED <<idOf, table, ctx, acptQueue, cut, faults, crossed>>
    BY DEF SendIcwd, socketOnly
  <1>3. sok' = [sok EXCEPT ![s] = new]
    BY DEF SendIcwd, TypeInv, Types
  <1>4. new \in SocketRec
    <2>1. sok[s].owed - 1 \in Nat
      BY <1>1 DEF SocketRec
    <2> QED
      BY <1>1, <2>1 DEF SocketRec
  <1>5. /\ new.incoming = sok[s].incoming /\ new.sent = sok[s].sent /\ new.got = sok[s].got
        /\ new.stage = sok[s].stage /\ new.closed = sok[s].closed /\ new.dead = sok[s].dead
        /\ new.holding = sok[s].holding
    BY <1>1 DEF SocketRec
  <1>6. new.sent <= Writes[s[1]] /\ (new.holding => new.sent < Writes[s[1]])
    BY <1>5 DEF TypeInv, Bounds
  <1> HIDE DEF new
  <1>7. CASE ~sok[s].dead
    <2>1. Pack(s[1], seg)
      BY <1>7 DEF SendIcwd, MayCredit
    <2>segment. seg = Segment("ICWD", s[2], 0)
      OBVIOUS
    <2> HIDE DEF seg
    <2>fields. /\ seg \in SegmentRec /\ seg.flag = "ICWD" /\ seg.pos = 0
          /\ seg.num = s[2] /\ seg.id = idOf[s[2]]
      BY <1>1, <2>segment, SegmentFacts
    <2>2. TypeInv' /\ sok'[s] = new /\ \A t \in Sockets \ {s} : Still(t)
      BY <1>1, <1>2, <1>3, <1>4, <1>5, <1>6, <2>1, <2>fields, SendingSocket
    <2>3. Sends(s, seg)
      BY <1>1, <1>2, <1>5, <1>7, <2>1, <2>2, <2>fields DEF Sends, Still
    <2> QED
      BY <2>2, <2>3
  <1>8. CASE sok[s].dead
    <2>1. wire' = wire
      BY <1>8 DEF SendIcwd, MayCredit
    <2> QED
      BY <1>1, <1>2, <1>3, <1>4, <1>5, <1>6, <2>1, QuietSocket DEF TypeInv, Types
  <1> QED
    BY <1>7, <1>8

\* A socket dies, or its Read gives up.
LEMMA DyingStep ==
    ASSUME TypeInv, NEW s \in Sockets,
           ReadDying(s) \/ ReadTimeout(s) \/ WriteTimeout(s) \/ TieUp(s)
    PROVE  TypeInv' /\ Quiet
  <1>1. sok[s] \in SocketRec /\ s[2] <= Len(idOf)
    BY Drawn DEF TypeInv, Types, ReadDying, ReadTimeout, WriteTimeout, TieUp
  <1>2. UNCHANGED <<idOf, table, ctx, wire, acptQueue, cut, crossed>> /\ faults' \in 0..Faults
    BY Numbers DEF ReadDying, ReadTimeout, WriteTimeout, TieUp, socketOnly, TypeInv, Types
  <1>3. PICK d \in BOOLEAN, r \in BOOLEAN :
          /\ sok' = [sok EXCEPT ![s] = [sok[s] EXCEPT !.dead = d, !.reading = r]]
          /\ sok[s].dead => d
    <2>1. sok[s].dead \in BOOLEAN /\ sok[s].reading \in BOOLEAN
      BY <1>1 DEF SocketRec
    <2>2. CASE ReadDying(s)
      <3>1. sok' = [sok EXCEPT ![s] = [sok[s] EXCEPT !.dead = sok[s].dead, !.reading = FALSE]]
        BY <1>1, <2>2 DEF ReadDying, SocketRec, TypeInv, Types
      <3> QED
        BY <2>1, <3>1
    <2>3. CASE ReadTimeout(s)
      <3>1. sok' = [sok EXCEPT ![s] = [sok[s] EXCEPT !.dead = TRUE, !.reading = FALSE]]
        BY <1>1, <2>3 DEF ReadTimeout, SocketRec, TypeInv, Types
      <3> QED
        BY <2>1, <3>1
    <2>4. CASE WriteTimeout(s) \/ TieUp(s)
      <3>1. sok' = [sok EXCEPT ![s] = [sok[s] EXCEPT !.dead = TRUE, !.reading = sok[s].reading]]
        BY <1>1, <2>4 DEF WriteTimeout, TieUp, SocketRec, TypeInv, Types
      <3> QED
        BY <2>1, <3>1
    <2> QED
      BY <2>2, <2>3, <2>4
  <1> DEFINE new == [sok[s] EXCEPT !.dead = d, !.reading = r]
  <1>4. new \in SocketRec
    BY <1>1, <1>3 DEF SocketRec
  <1>5. /\ new.incoming = sok[s].incoming /\ new.sent = sok[s].sent /\ new.got = sok[s].got
        /\ new.stage = sok[s].stage /\ new.closed = sok[s].closed /\ new.dead = d
        /\ new.holding = sok[s].holding
    BY <1>1 DEF SocketRec
  <1>6. new.holding => new.sent < Writes[s[1]]
    BY <1>5 DEF TypeInv, Bounds
  <1>7. sok' = [sok EXCEPT ![s] = new]
    BY <1>3
  <1> HIDE DEF new
  <1> QED
    BY <1>1, <1>2, <1>3, <1>4, <1>5, <1>6, <1>7, QuietSocket DEF TypeInv, Types

LEMMA OpenTunnelStep ==
    ASSUME TypeInv, NEW n \in Nums, OpenTunnel(n)
    PROVE  TypeInv' /\ \E s \in Sockets : \E seg : Sends(s, seg)
  <1> DEFINE s == <<"client", n>>
             new == Opened(sok[s])
             seg == Segment("OPEN", n, 0)
  <1>1. s \in Sockets /\ s[1] = "client" /\ s[2] = n
    BY Ends
  <1> HIDE DEF s
  <1>2. sok[s] \in SocketRec /\ s[2] <= Len(idOf) /\ sok[s].stage = "reserved"
    <2>1. sok[s].stage = "reserved"
      BY DEF OpenTunnel, s
    <2>2. s[2] \in 1..Len(idOf)
      BY <1>1, <2>1, Drawn
    <2>3. Len(idOf) \in Nat
      BY DEF TypeInv, Types
    <2> QED
      BY <1>1, <2>1, <2>2, <2>3 DEF TypeInv, Types
  <1>3. UNCHANGED <<idOf, table, ctx, acptQueue, cut, faults, crossed>>
    BY DEF OpenTunnel
  <1>4. sok' = [sok EXCEPT ![s] = new] /\ Pack(s[1], seg)
    BY <1>1 DEF OpenTunnel, TypeInv, Types, s
  <1>5. new \in SocketRec
    BY <1>2 DEF SocketRec, Opened
  <1>6. /\ new.incoming = sok[s].incoming /\ new.sent = sok[s].sent /\ new.got = sok[s].got
        /\ new.stage = "open" /\ new.closed = sok[s].closed /\ new.dead = sok[s].dead
        /\ new.holding = sok[s].holding
    BY <1>2 DEF SocketRec, Opened
  <1>7. new.sent <= Writes[s[1]] /\ (new.holding => new.sent < Writes[s[1]])
    BY <1>1, <1>6 DEF TypeInv, Bounds
  <1> HIDE DEF new
  <1>segment. seg = Segment("OPEN", s[2], 0)
    BY <1>1
  <1> HIDE DEF seg
  <1>fields. /\ seg \in SegmentRec /\ seg.flag = "OPEN" /\ seg.pos = 0
             /\ seg.num = s[2] /\ seg.id = idOf[s[2]]
    BY <1>1, <1>2, <1>segment, SegmentFacts
  <1>8. TypeInv' /\ sok'[s] = new /\ \A t \in Sockets \ {s} : Still(t)
    BY <1>1, <1>2, <1>3, <1>4, <1>5, <1>6, <1>7, <1>fields, SendingSocket
  <1>9. Sends(s, seg)
    BY <1>1, <1>2, <1>3, <1>4, <1>6, <1>8, <1>fields DEF Sends
  <1> QED
    BY <1>1, <1>8, <1>9

LEMMA AcceptStep ==
    ASSUME TypeInv, Accept
    PROVE  TypeInv' /\ Quiet
  <1> DEFINE s == <<"server", Head(acptQueue)>>
             new == Opened(sok[s])
  <1>1. acptQueue \in Seq(1..Len(idOf)) /\ acptQueue # <<>> /\ Len(acptQueue) <= AcceptCap
    BY DEF Accept, TypeInv, Types
  <1>2. /\ Head(acptQueue) \in 1..Len(idOf) /\ Tail(acptQueue) \in Seq(1..Len(idOf))
        /\ Len(Tail(acptQueue)) = Len(acptQueue) - 1 /\ Len(acptQueue) \in Nat
    BY <1>1, HeadTailProperties
  <1>3. s \in Sockets /\ s[1] = "server" /\ s[2] <= Len(idOf)
    <2>1. Len(idOf) \in Nat /\ Len(idOf) <= Tunnels
      BY DEF TypeInv, Types
    <2>2. Head(acptQueue) \in Nums
      BY <1>2, <2>1, Numbers DEF Nums
    <2> QED
      BY <1>2, <2>1, <2>2, Ends
  <1> HIDE DEF s
  <1>4. /\ sok' = [sok EXCEPT ![s] = new] /\ acptQueue' = Tail(acptQueue)
        /\ UNCHANGED <<idOf, table, ctx, wire, cut, faults, crossed>>
    BY <1>3 DEF Accept, TypeInv, Types, s
  <1>5. acptQueue' \in Seq(1..Len(idOf)) /\ Len(acptQueue') <= AcceptCap
    BY <1>1, <1>2, <1>4, Numbers
  <1>6. sok[s] \in SocketRec
    BY <1>3 DEF TypeInv, Types
  <1>7. new \in SocketRec
    BY <1>6 DEF SocketRec, Opened
  <1>8. /\ new.incoming = sok[s].incoming /\ new.sent = sok[s].sent /\ new.got = sok[s].got
        /\ new.closed = sok[s].closed /\ new.dead = sok[s].dead /\ new.holding = sok[s].holding
    BY <1>6 DEF SocketRec, Opened
  <1>9. new.holding => new.sent < Writes[s[1]]
    BY <1>3, <1>8 DEF TypeInv, Bounds
  <1> HIDE DEF new
  <1> QED
    BY <1>3, <1>4, <1>5, <1>7, <1>8, <1>9, QuietSocket DEF TypeInv, Types

\* What a Read does, whatever it takes.
LEMMA ReadingSocket ==
    ASSUME TypeInv, NEW s \in Sockets, s[2] <= Len(idOf), NEW new \in SocketRec,
           sok' = [sok EXCEPT ![s] = new],
           sok[s].incoming # <<>>, new.incoming = Tail(sok[s].incoming),
           NEW item \in Nums \X Nat, new.got = Append(sok[s].got, item),
           \/ sok[s].incoming[1].flag = "DATA"
              /\ item = <<sok[s].incoming[1].num, sok[s].incoming[1].pos>>
           \/ sok[s].incoming[1].flag = "CLOS" /\ item = <<sok[s].incoming[1].num, 0>>,
           new.stage = sok[s].stage, new.closed = sok[s].closed, new.sent = sok[s].sent,
           sok[s].dead => new.dead, new.holding = sok[s].holding,
           UNCHANGED <<idOf, table, ctx, wire, acptQueue, cut, faults, crossed>>
    PROVE  TypeInv' /\ Reads(s) /\ \A t \in Sockets \ {s} : sok'[t] = sok[t]
  <1>1. sok[s].incoming \in Seq(SegmentRec) /\ sok[s].got \in Seq(Nums \X Nat)
    BY DEF TypeInv, Types, SocketRec
  <1>2. /\ Len(new.incoming) = Len(sok[s].incoming) - 1
        /\ \A k \in 1..Len(new.incoming) : new.incoming[k] = sok[s].incoming[k + 1]
        /\ Len(sok[s].incoming) \in Nat /\ Len(sok[s].incoming) > 0
    BY <1>1, HeadTailProperties
  <1>3. /\ Len(new.got) = Len(sok[s].got) + 1
        /\ \A k \in 1..Len(sok[s].got) : new.got[k] = sok[s].got[k]
        /\ new.got[Len(sok[s].got) + 1] = item
    BY <1>1, AppendProperties
  <1>4. /\ Len(new.incoming) <= Window /\ new.sent <= Writes[s[1]]
        /\ new.holding => new.sent < Writes[s[1]]
    BY <1>2, Numbers DEF TypeInv, Bounds
  <1>5. /\ sok' \in [Sockets -> SocketRec]
        /\ sok'[s] = new /\ \A t \in Sockets \ {s} : sok'[t] = sok[t] /\ Still(t)
        /\ KnownSockets' /\ Bounds'
    BY <1>4, SocketTypes
  <1>6. TypeInv'
    BY <1>5 DEF TypeInv, Types, Known, KnownSegments, KnownEntries
  <1>7. Reads(s)
    BY <1>2, <1>3, <1>5 DEF Reads
  <1> QED
    BY <1>5, <1>6, <1>7

LEMMA ReadStep ==
    ASSUME TypeInv, NEW s \in Sockets, ReadData(s) \/ ReadClos(s)
    PROVE  TypeInv' /\ Reads(s) /\ \A t \in Sockets \ {s} : sok'[t] = sok[t]
  <1>1. sok[s] \in SocketRec /\ s[2] <= Len(idOf) /\ sok[s].incoming # <<>>
    <2>1. sok[s].reading /\ sok[s].incoming # <<>>
      BY DEF ReadData, ReadClos
    <2>2. s[2] \in 1..Len(idOf)
      BY <2>1, Drawn
    <2>3. Len(idOf) \in Nat
      BY DEF TypeInv, Types
    <2> QED
      BY <2>1, <2>2, <2>3 DEF TypeInv, Types
  <1>2. UNCHANGED <<idOf, table, ctx, wire, acptQueue, cut, faults, crossed>>
    BY DEF ReadData, ReadClos, socketOnly
  <1>3. sok[s].incoming \in Seq(SegmentRec) /\ sok[s].got \in Seq(Nums \X Nat)
    BY <1>1 DEF SocketRec
  <1> DEFINE seg == sok[s].incoming[1]
  <1>4. /\ Tail(sok[s].incoming) \in Seq(SegmentRec)
        /\ Head(sok[s].incoming) = seg /\ seg \in SegmentRec
        /\ seg.num \in Nums /\ seg.pos \in Nat
    <2>1. Tail(sok[s].incoming) \in Seq(SegmentRec) /\ Head(sok[s].incoming) \in SegmentRec
      BY <1>1, <1>3, HeadTailProperties
    <2> QED
      BY <1>1, <1>3, <2>1 DEF SegmentRec
  <1>5. CASE ReadData(s)
    <2> DEFINE left == Uint8Dec(sok[s].recvcount)
               item == <<seg.num, seg.pos>>
    <2>1. PICK mark \in LowMark..HighMark :
            sok' = [sok EXCEPT
                      ![s].reading = ~sok[s].dead,
                      ![s].incoming = Tail(@),
                      ![s].got = Append(@, item),
                      ![s].recvcount = IF left < mark THEN Uint8Add(left, Count) ELSE left,
                      ![s].owed = IF left < mark THEN @ + 1 ELSE @]
      BY <1>4, <1>5 DEF ReadData
    <2> DEFINE count == IF left < mark THEN Uint8Add(left, Count) ELSE left
               owing == IF left < mark THEN sok[s].owed + 1 ELSE sok[s].owed
    <2>2. item \in Nums \X Nat
      BY <1>4
    <2>3. count \in 0..(Window - 1) /\ owing \in Nat
      <3>1. sok[s].recvcount \in 0..(Window - 1) /\ sok[s].owed \in Nat
        BY <1>1 DEF SocketRec
      <3>2. left \in 0..(Window - 1)
        BY <3>1, Numbers DEF Uint8Dec
      <3> QED
        BY <3>1, <3>2, Numbers DEF Uint8Add
    <2>4. Append(sok[s].got, item) \in Seq(Nums \X Nat)
      BY <1>3, <2>2, AppendProperties
    <2> HIDE DEF left
    <2> DEFINE new == [sok[s] EXCEPT
                         !.reading = ~sok[s].dead,
                         !.incoming = Tail(sok[s].incoming),
                         !.got = Append(sok[s].got, item),
                         !.recvcount = count,
                         !.owed = owing]
    <2>5. sok' = [sok EXCEPT ![s] = new]
      BY <1>1, <2>1 DEF SocketRec, TypeInv, Types
    <2> HIDE DEF count, owing, item
    <2>6. new \in SocketRec
      BY <1>1, <1>4, <2>3, <2>4 DEF SocketRec
    <2>7. /\ new.incoming = Tail(sok[s].incoming) /\ new.got = Append(sok[s].got, item)
          /\ new.stage = sok[s].stage /\ new.closed = sok[s].closed /\ new.sent = sok[s].sent
          /\ new.dead = sok[s].dead /\ new.holding = sok[s].holding
      BY <1>1 DEF SocketRec
    <2>8. seg.flag = "DATA"
      BY <1>4, <1>5 DEF ReadData
    <2> HIDE DEF new
    <2> QED
      BY <1>1, <1>2, <2>2, <2>5, <2>6, <2>7, <2>8, ReadingSocket DEF item
  <1>6. CASE ReadClos(s)
    <2> DEFINE item == <<seg.num, 0>>
               new == [sok[s] EXCEPT
                         !.reading = FALSE,
                         !.incoming = Tail(sok[s].incoming),
                         !.dead = TRUE,
                         !.got = Append(sok[s].got, item)]
    <2>1. item \in Nums \X Nat
      BY <1>4
    <2>2. Append(sok[s].got, item) \in Seq(Nums \X Nat)
      BY <1>3, <2>1, AppendProperties
    <2>3. sok' = [sok EXCEPT ![s] = new]
      BY <1>1, <1>4, <1>6 DEF ReadClos, SocketRec, TypeInv, Types
    <2> HIDE DEF item
    <2>4. new \in SocketRec
      BY <1>1, <1>4, <2>2 DEF SocketRec
    <2>5. /\ new.incoming = Tail(sok[s].incoming) /\ new.got = Append(sok[s].got, item)
          /\ new.stage = sok[s].stage /\ new.closed = sok[s].closed /\ new.sent = sok[s].sent
          /\ new.dead /\ new.holding = sok[s].holding
      BY <1>1 DEF SocketRec
    <2>6. seg.flag = "CLOS"
      BY <1>4, <1>6 DEF ReadClos
    <2> HIDE DEF new
    <2> QED
      BY <1>1, <1>2, <2>1, <2>3, <2>4, <2>5, <2>6, ReadingSocket DEF item
  <1> QED
    BY <1>5, <1>6

-----------------------------------------------------------------------------
(* The steps of a Context *)

LEMMA ContextStep ==
    ASSUME TypeInv, NEW e \in End, ReadError(e) \/ AlivFails(e) \/ Kill \/ Cut
    PROVE  TypeInv' /\ Quiet
  <1>1. UNCHANGED <<idOf, sok, table, wire, acptQueue, crossed>>
    BY DEF ReadError, AlivFails, Kill, Cut, contextOnly
  <1>2. /\ ctx' \in [End -> CtxRec] /\ cut' \in BOOLEAN /\ faults' \in 0..Faults
        /\ cut => cut'
        /\ \A f \in End : (ctx'[f].main => ctx[f].main) /\ (ctx'[f].open => ctx[f].open)
    <2>1. ctx \in [End -> CtxRec] /\ cut \in BOOLEAN /\ faults \in 0..Faults
      BY DEF TypeInv, Types
    <2>2. CASE ReadError(e)
      BY <2>1, <2>2 DEF ReadError, CtxRec
    <2>3. CASE AlivFails(e)
      BY <2>1, <2>3 DEF AlivFails, CtxRec
    <2>4. CASE Kill
      <3>1. faults' \in 0..Faults /\ cut' = cut
        BY <2>1, <2>4, Numbers DEF Kill
      <3>2. ctx' = [ctx EXCEPT !["client"] = [ctx["client"] EXCEPT !.dead = TRUE]]
        BY <2>1, <2>4 DEF Kill
      <3>3. [ctx["client"] EXCEPT !.dead = TRUE] \in CtxRec
        BY <2>1, Ends DEF CtxRec
      <3>4. ctx' \in [End -> CtxRec]
        BY <2>1, <3>2, <3>3
      <3>5. \A f \in End : ctx'[f].main = ctx[f].main /\ ctx'[f].open = ctx[f].open
        BY <2>1, <3>2 DEF CtxRec
      <3> QED
        BY <2>1, <3>1, <3>4, <3>5
    <2>5. CASE Cut
      BY <2>1, <2>5, Numbers DEF Cut
    <2> QED
      BY <2>2, <2>3, <2>4, <2>5
  <1>3. TypeInv'
    BY <1>1, <1>2 DEF TypeInv, Types, Known, KnownSockets, KnownSegments, KnownEntries, Bounds
  <1>4. Fading
    BY <1>2, Ends DEF Fading, Carries
  <1> QED
    BY <1>1, <1>3, <1>4 DEF Quiet, Still

\* The segment that mainThread takes is that of a tunnel that has been drawn.
LEMMA TakenSegment ==
    ASSUME TypeInv, NEW e \in End, wire[Peer(e)] # <<>>, NEW seg, seg = wire[Peer(e)][1]
    PROVE  /\ Head(wire[Peer(e)]) = seg /\ seg \in SegmentRec
           /\ seg.id \in Ids /\ seg.num \in 1..Len(idOf) /\ seg.num \in Nums
           /\ seg.id = idOf[seg.num]
           /\ 1 \in 1..Len(wire[Peer(e)])
  <1>1. wire[Peer(e)] \in Seq(SegmentRec) /\ Peer(e) \in End
    BY Ends DEF TypeInv, Types
  <1>2. /\ Head(wire[Peer(e)]) = seg /\ seg \in SegmentRec /\ 1 \in 1..Len(wire[Peer(e)])
    BY <1>1
  <1>3. seg.num <= Len(idOf) /\ seg.id = idOf[seg.num]
    BY <1>1, <1>2 DEF TypeInv, Known, KnownSegments
  <1>4. seg.id \in Ids /\ seg.num \in Nums
    BY <1>2 DEF SegmentRec
  <1>5. Len(idOf) \in Nat
    BY DEF TypeInv, Types
  <1> QED
    BY <1>2, <1>3, <1>4, <1>5, Numbers DEF Nums

LEMMA UnpackKnown ==
    ASSUME TypeInv, NEW e \in End, wire[Peer(e)] # <<>>, Unpacked(e), idOf' = idOf
    PROVE  wire' \in [End -> Seq(SegmentRec)] /\ KnownSegments'
  <1>1. /\ wire' \in [End -> Seq(SegmentRec)]
        /\ wire'[e] = wire[e]
        /\ \A k \in 1..Len(wire'[Peer(e)]) :
             k + 1 \in 1..Len(wire[Peer(e)]) /\ wire'[Peer(e)][k] = wire[Peer(e)][k + 1]
    BY UnpackFacts DEF TypeInv
  <1>2. ASSUME NEW f \in End, NEW k \in 1..Len(wire'[f])
        PROVE  wire'[f][k].num <= Len(idOf') /\ wire'[f][k].id = idOf'[wire'[f][k].num]
    <2>1. CASE f = e
      BY <1>1, <2>1 DEF TypeInv, Known, KnownSegments
    <2>2. CASE f = Peer(e)
      <3>1. k + 1 \in 1..Len(wire[f]) /\ wire'[f][k] = wire[f][k + 1]
        BY <1>1, <2>2
      <3> QED
        BY <3>1 DEF TypeInv, Known, KnownSegments
    <2> QED
      BY <2>1, <2>2 DEF End, Peer
  <1> QED
    BY <1>1, <1>2 DEF KnownSegments

LEMMA FailedFacts ==
    ASSUME Types, NEW e \in End, ctx' = [ctx EXCEPT ![e] = Failed(@)], cut' = cut
    PROVE  ctx' \in [End -> CtxRec] /\ Fading /\ ~ctx'[e].main
  <1>1. ctx \in [End -> CtxRec]
    BY DEF Types
  <1>2. /\ ctx' \in [End -> CtxRec] /\ ~ctx'[e].main
        /\ \A f \in End : (ctx'[f].main => ctx[f].main) /\ (ctx'[f].open => ctx[f].open)
    BY <1>1 DEF Failed, CtxRec
  <1> QED
    BY <1>2, Ends DEF Fading, Carries

LEMMA RecvIcwdStep ==
    ASSUME TypeInv, NEW e \in End, RecvIcwd(e)
    PROVE  TypeInv' /\ \E seg : Takes(e, seg)
  <1> DEFINE seg == wire[Peer(e)][1]
             d == table[e][seg.id]
             dest == <<e, d>>
  <1>1. /\ wire[Peer(e)] # <<>> /\ Unpacked(e) /\ ctx[e].main
        /\ UNCHANGED <<idOf, table, acptQueue, cut, faults, crossed>>
    BY DEF RecvIcwd, Receiving
  <1>2. /\ Head(wire[Peer(e)]) = seg /\ seg \in SegmentRec /\ seg.id \in Ids
    BY <1>1, TakenSegment
  <1>3. seg.flag = "ICWD"
    BY <1>2 DEF RecvIcwd, Receiving
  <1>4. wire' \in [End -> Seq(SegmentRec)] /\ KnownSegments'
    BY <1>1, UnpackKnown
  <1>5. \/ d # 0 /\ sok[dest].sendwind >= Count
           /\ sok' = [sok EXCEPT ![dest].sendwind = @ - Count] /\ ctx' = ctx
        \/ ctx' = [ctx EXCEPT ![e] = Failed(@)] /\ sok' = sok
    BY <1>2 DEF RecvIcwd
  <1>6. d \in 0..Len(idOf)
    BY <1>2 DEF TypeInv, Types
  <1> HIDE DEF d
  <1>7. /\ TypeInv' /\ Fading /\ \A t \in Sockets : Still(t)
    <2>1. CASE /\ d # 0 /\ sok[dest].sendwind >= Count
               /\ sok' = [sok EXCEPT ![dest].sendwind = @ - Count] /\ ctx' = ctx
      <3>1. Len(idOf) \in Nat /\ Len(idOf) <= Tunnels
        BY DEF TypeInv, Types
      <3>2. d \in Nums
        BY <1>6, <2>1, <3>1, Numbers DEF Nums
      <3>3. dest \in Sockets /\ dest[1] = e /\ dest[2] = d /\ d <= Len(idOf)
        BY <1>6, <3>1, <3>2, Ends
      <3> HIDE DEF dest
      <3>4. sok[dest] \in SocketRec
        BY <3>3 DEF TypeInv, Types
      <3>5. sok[dest].sendwind - Count \in 0..Window
        <4>1. sok[dest].sendwind \in 0..Window
          BY <3>4 DEF SocketRec
        <4>2. sok[dest].sendwind >= Count
          BY <2>1
        <4> QED
          BY <4>1, <4>2, Numbers
      <3> DEFINE new == [sok[dest] EXCEPT !.sendwind = sok[dest].sendwind - Count]
      <3>6. sok' = [sok EXCEPT ![dest] = new]
        BY <2>1, <3>3 DEF TypeInv, Types
      <3>7. new \in SocketRec
        BY <3>4, <3>5 DEF SocketRec
      <3>8. /\ new.incoming = sok[dest].incoming /\ new.sent = sok[dest].sent
            /\ new.got = sok[dest].got /\ new.closed = sok[dest].closed
            /\ new.dead = sok[dest].dead /\ new.holding = sok[dest].holding
            /\ new.stage = sok[dest].stage
        BY <3>4 DEF SocketRec
      <3>9. Len(new.incoming) <= Window /\ new.sent <= Writes[dest[1]]
            /\ (new.holding => new.sent < Writes[dest[1]])
        BY <3>3, <3>8 DEF TypeInv, Bounds
      <3> HIDE DEF new
      <3>10. /\ sok' \in [Sockets -> SocketRec]
             /\ sok'[dest] = new /\ \A t \in Sockets \ {dest} : Still(t)
             /\ KnownSockets' /\ Bounds'
        BY <1>1, <3>3, <3>6, <3>7, <3>9, SocketTypes
      <3>11. Still(dest)
        BY <3>8, <3>10 DEF Still
      <3>12. TypeInv'
        BY <1>1, <1>4, <2>1, <3>10 DEF TypeInv, Types, Known, KnownEntries
      <3>13. Fading
        BY <1>1, <2>1, ContextFades DEF TypeInv
      <3> QED
        BY <3>10, <3>11, <3>12, <3>13
    <2>2. CASE ctx' = [ctx EXCEPT ![e] = Failed(@)] /\ sok' = sok
      <3>1. ctx' \in [End -> CtxRec] /\ Fading
        BY <1>1, <2>2, FailedFacts DEF TypeInv
      <3>2. TypeInv'
        BY <1>1, <1>4, <2>2, <3>1 DEF TypeInv, Types, Known, KnownSockets, KnownEntries, Bounds
      <3> QED
        BY <2>2, <3>1, <3>2 DEF Still
    <2> QED
      BY <1>5, <2>1, <2>2
  <1>8. Takes(e, seg)
    BY <1>1, <1>3, <1>7 DEF Takes
  <1> QED
    BY <1>7, <1>8

LEMMA RecvOpenStep ==
    ASSUME TypeInv, RecvOpen
    PROVE  TypeInv' /\ \E seg : Takes("server", seg)
  <1> DEFINE seg == wire["client"][1]
             s == <<"server", seg.num>>
  <1>0. Peer("server") = "client"
    BY DEF Peer
  <1>1. /\ wire["client"] # <<>> /\ Unpacked("server") /\ ctx["server"].main
        /\ UNCHANGED <<idOf, cut, faults, crossed>>
    BY <1>0 DEF RecvOpen, Receiving
  <1>2. /\ Head(wire["client"]) = seg /\ seg \in SegmentRec /\ seg.id \in Ids
        /\ seg.num \in 1..Len(idOf) /\ seg.num \in Nums /\ seg.id = idOf[seg.num]
    BY <1>0, <1>1, Ends, TakenSegment
  <1>3. seg.flag = "OPEN"
    BY <1>0, <1>2 DEF RecvOpen, Receiving
  <1>4. /\ table' = [table EXCEPT !["server"][seg.id] = seg.num]
        /\ sok' = [sok EXCEPT ![s].stage = "queued"]
        /\ \/ Len(acptQueue) < AcceptCap /\ acptQueue' = Append(acptQueue, seg.num) /\ ctx' = ctx
           \/ ctx' = [ctx EXCEPT !["server"] = Failed(@)] /\ acptQueue' = acptQueue
    BY <1>2 DEF RecvOpen
  <1>5. s \in Sockets /\ s[1] = "server" /\ s[2] = seg.num
    BY <1>2, Ends
  <1>6. Len(idOf) \in Nat
    BY DEF TypeInv, Types
  <1> HIDE DEF s
  <1>7. wire' \in [End -> Seq(SegmentRec)] /\ KnownSegments'
    BY <1>0, <1>1, Ends, UnpackKnown
  <1>8. /\ table' \in [End -> [Ids -> 0..Len(idOf)]] /\ KnownEntries'
        /\ SetTo("server", seg.id, seg.num)
    <2>1. table \in [End -> [Ids -> 0..Len(idOf)]] /\ seg.num \in 0..Len(idOf)
      BY <1>2 DEF TypeInv, Types
    <2> HIDE DEF seg
    <2>2. table' \in [End -> [Ids -> 0..Len(idOf)]] /\ SetTo("server", seg.id, seg.num)
      BY <1>2, <1>4, <2>1, Ends DEF SetTo
    <2> QED
      BY <1>1, <1>2, <2>2 DEF TypeInv, Known, KnownEntries, SetTo
  <1>9. /\ acptQueue' \in Seq(1..Len(idOf)) /\ Len(acptQueue') <= AcceptCap
        /\ ctx' \in [End -> CtxRec] /\ Fading
    <2>1. /\ acptQueue \in Seq(1..Len(idOf)) /\ Len(acptQueue) <= AcceptCap
          /\ ctx \in [End -> CtxRec] /\ Types
      BY DEF TypeInv, Types
    <2>2. CASE Len(acptQueue) < AcceptCap /\ acptQueue' = Append(acptQueue, seg.num) /\ ctx' = ctx
      <3>1. acptQueue' \in Seq(1..Len(idOf)) /\ Len(acptQueue') = Len(acptQueue) + 1
        BY <1>2, <2>1, <2>2, AppendProperties
      <3> QED
        BY <1>1, <2>1, <2>2, <3>1, Numbers, ContextFades
    <2>3. CASE ctx' = [ctx EXCEPT !["server"] = Failed(@)] /\ acptQueue' = acptQueue
      BY <1>1, <2>1, <2>3, Ends, FailedFacts
    <2> QED
      BY <1>4, <2>2, <2>3
  <1>10. sok[s] \in SocketRec
    BY <1>5 DEF TypeInv, Types
  <1> DEFINE new == [sok[s] EXCEPT !.stage = "queued"]
  <1>11. sok' = [sok EXCEPT ![s] = new]
    BY <1>4, <1>5 DEF TypeInv, Types
  <1>12. new \in SocketRec
    BY <1>10 DEF SocketRec
  <1>13. /\ new.incoming = sok[s].incoming /\ new.sent = sok[s].sent /\ new.got = sok[s].got
         /\ new.closed = sok[s].closed /\ new.dead = sok[s].dead /\ new.holding = sok[s].holding
    BY <1>10 DEF SocketRec
  <1>14. Len(new.incoming) <= Window /\ new.sent <= Writes[s[1]]
         /\ (new.holding => new.sent < Writes[s[1]])
    BY <1>5, <1>13 DEF TypeInv, Bounds
  <1> HIDE DEF new
  <1>15. /\ sok' \in [Sockets -> SocketRec]
         /\ sok'[s] = new /\ \A t \in Sockets \ {s} : Still(t)
         /\ KnownSockets' /\ Bounds'
    <2>1. s[2] <= Len(idOf)
      BY <1>2, <1>5, <1>6
    <2> QED
      BY <1>1, <1>5, <1>11, <1>12, <1>14, <2>1, SocketTypes
  <1>16. Still(s)
    BY <1>5, <1>13, <1>15 DEF Still
  <1>17. TypeInv'
    BY <1>1, <1>7, <1>8, <1>9, <1>15 DEF TypeInv, Types, Known
  <1>18. Takes("server", seg)
    <2> HIDE DEF seg
    <2> QED
      BY <1>0, <1>1, <1>2, <1>3, <1>8, <1>9, <1>15, <1>16 DEF Takes, seg
  <1> QED
    BY <1>17, <1>18

LEMMA RecvSegmentStep ==
    ASSUME TypeInv, NEW e \in End, RecvSegment(e)
    PROVE  TypeInv' /\ \E seg : Takes(e, seg)
  <1> DEFINE seg == wire[Peer(e)][1]
             d == table[e][seg.id]
             dest == <<e, d>>
  <1>1. /\ wire[Peer(e)] # <<>> /\ Unpacked(e) /\ ctx[e].main
        /\ UNCHANGED <<idOf, acptQueue, cut, faults, crossed>>
    BY DEF RecvSegment, Receiving
  <1>2. /\ Head(wire[Peer(e)]) = seg /\ seg \in SegmentRec /\ seg.id \in Ids
    BY <1>1, TakenSegment
  <1>3. seg.flag \in {"DATA", "CLOS"}
    BY <1>2 DEF RecvSegment, Receiving
  <1>4. wire' \in [End -> Seq(SegmentRec)] /\ KnownSegments'
    BY <1>1, UnpackKnown
  <1>5. \/ d = 0 /\ ctx' = [ctx EXCEPT ![e] = Failed(@)] /\ sok' = sok /\ table' = table
        \/ /\ d # 0 /\ table' = [table EXCEPT ![e] = TableAfter(seg, table[e])]
           /\ \/ /\ Len(sok[dest].incoming) < Window
                 /\ sok' = [sok EXCEPT ![dest].incoming = Append(sok[dest].incoming, seg)]
                 /\ ctx' = ctx
              \/ ctx' = [ctx EXCEPT ![e] = Failed(@)] /\ sok' = sok
    <2>1. dest[2] = d
      OBVIOUS
    <2>2. CASE d = 0
      BY <1>2, <2>1, <2>2 DEF RecvSegment
    <2>3. CASE d # 0
      <3>1. /\ table' = [table EXCEPT ![e] = TableAfter(seg, @)]
            /\ IF HasRoom(sok[dest].incoming)
                 THEN /\ sok' = [sok EXCEPT ![dest].incoming = Queued(@, seg)]
                      /\ ctx' = ctx
                 ELSE ctx' = [ctx EXCEPT ![e] = Failed(@)] /\ sok' = sok
        BY <1>2, <2>1, <2>3 DEF RecvSegment
      <3> HIDE DEF seg, d, dest
      <3> QED
        BY <2>3, <3>1 DEF HasRoom, Queued
    <2> QED
      BY <2>2, <2>3
  <1>6. table \in [End -> [Ids -> 0..Len(idOf)]] /\ d \in 0..Len(idOf)
    BY <1>2 DEF TypeInv, Types
  <1>7. /\ table' \in [End -> [Ids -> 0..Len(idOf)]] /\ KnownEntries'
        /\ IF seg.flag = "CLOS" THEN SetTo(e, seg.id, 0) ELSE table' = table
    <2>1. CASE d = 0
      BY <1>1, <1>5, <1>6, <2>1 DEF TypeInv, Known, KnownEntries, SetTo
    <2>2. CASE d # 0 /\ seg.flag = "DATA"
      <3>1. table' = table
        BY <1>5, <1>6, <2>2 DEF TableAfter
      <3> QED
        BY <1>1, <1>6, <2>2, <3>1 DEF TypeInv, Known, KnownEntries
    <2>3. CASE d # 0 /\ seg.flag = "CLOS"
      <3>1. table' = [table EXCEPT ![e] = [table[e] EXCEPT ![seg.id] = 0]]
        BY <1>5, <2>3 DEF TableAfter
      <3>2. Len(idOf) \in Nat /\ 0 \in 0..Len(idOf)
        BY DEF TypeInv, Types
      <3> HIDE DEF seg, d
      <3>3. table' \in [End -> [Ids -> 0..Len(idOf)]]
        BY <1>2, <1>6, <3>1, <3>2
      <3>4. SetTo(e, seg.id, 0)
        BY <1>2, <1>6, <3>1 DEF SetTo
      <3> QED
        BY <1>1, <2>3, <3>3, <3>4 DEF TypeInv, Known, KnownEntries, SetTo
    <2> QED
      BY <1>3, <2>1, <2>2, <2>3
  <1> HIDE DEF d
  <1>8. CASE ctx' = [ctx EXCEPT ![e] = Failed(@)] /\ sok' = sok
    <2>1. ctx' \in [End -> CtxRec] /\ Fading /\ ~ctx'[e].main
      BY <1>1, <1>8, FailedFacts DEF TypeInv
    <2>2. TypeInv'
      BY <1>1, <1>4, <1>7, <1>8, <2>1 DEF TypeInv, Types, Known, KnownSockets, Bounds
    <2>3. \A t \in Sockets : Still(t)
      BY <1>8 DEF Still
    <2>4. Takes(e, seg)
      BY <1>1, <1>3, <1>7, <2>1, <2>3 DEF Takes
    <2> QED
      BY <2>2, <2>4
  <1>9. CASE /\ d # 0 /\ Len(sok[dest].incoming) < Window
             /\ sok' = [sok EXCEPT ![dest].incoming = Append(sok[dest].incoming, seg)]
             /\ ctx' = ctx
    <2>1. Len(idOf) \in Nat /\ Len(idOf) <= Tunnels
      BY DEF TypeInv, Types
    <2>2. d \in Nums
      BY <1>6, <1>9, <2>1, Numbers DEF Nums
    <2>3. dest \in Sockets /\ dest[1] = e /\ dest[2] = d /\ d <= Len(idOf)
      BY <1>6, <2>1, <2>2, Ends
    <2>4. dest = <<e, table[e][seg.id]>>
      BY DEF d
    <2> HIDE DEF dest, seg
    <2>5. sok[dest] \in SocketRec
      BY <2>3 DEF TypeInv, Types
    <2>6. sok[dest].incoming \in Seq(SegmentRec)
      BY <2>5 DEF SocketRec
    <2>7. /\ Append(sok[dest].incoming, seg) \in Seq(SegmentRec)
          /\ Len(Append(sok[dest].incoming, seg)) = Len(sok[dest].incoming) + 1
      BY <1>2, <2>6, AppendProperties
    <2> DEFINE new == [sok[dest] EXCEPT !.incoming = Append(sok[dest].incoming, seg)]
    <2>8. sok' = [sok EXCEPT ![dest] = new]
      BY <1>9, <2>3 DEF TypeInv, Types
    <2>9. new \in SocketRec
      BY <2>5, <2>7 DEF SocketRec
    <2>10. /\ new.incoming = Append(sok[dest].incoming, seg) /\ new.sent = sok[dest].sent
           /\ new.holding = sok[dest].holding
      BY <2>5 DEF SocketRec
    <2>11. /\ Len(new.incoming) <= Window /\ new.sent <= Writes[dest[1]]
           /\ (new.holding => new.sent < Writes[dest[1]])
      <3>1. Len(sok[dest].incoming) \in Nat /\ Window \in Nat
        BY <2>6, Numbers
      <3>2. /\ sok[dest].sent <= Writes[dest[1]]
            /\ (sok[dest].holding => sok[dest].sent < Writes[dest[1]])
        BY <2>3 DEF TypeInv, Bounds
      <3> QED
        BY <1>9, <2>7, <2>10, <3>1, <3>2
    <2> HIDE DEF new
    <2>12. /\ sok' \in [Sockets -> SocketRec]
           /\ sok'[dest] = new /\ \A t \in Sockets \ {dest} : Still(t)
           /\ KnownSockets' /\ Bounds'
      BY <1>1, <2>3, <2>8, <2>9, <2>11, SocketTypes
    <2>13. Fading
      BY <1>1, <1>9, ContextFades DEF TypeInv
    <2>14. TypeInv'
      BY <1>1, <1>4, <1>7, <1>9, <2>12 DEF TypeInv, Types, Known
    <2>15. Takes(e, seg)
      BY <1>1, <1>3, <1>7, <1>9, <2>3, <2>4, <2>12, <2>13 DEF Takes, new, seg
    <2> QED
      BY <2>14, <2>15
  <1> QED
    BY <1>5, <1>8, <1>9

LEMMA ReserveStep ==
    ASSUME TypeInv, NEW i \in Ids, Reserve(i)
    PROVE  TypeInv' /\ Reserves(i)
  <1> DEFINE n == Len(idOf) + 1
             c == <<"client", n>>
  <1>1. /\ Len(idOf) < Tunnels /\ table["client"][i] = 0
        /\ idOf' = Append(idOf, i)
        /\ sok' = [sok EXCEPT ![c].stage = "reserved"]
        /\ table' = [table EXCEPT !["client"][i] = n]
        /\ UNCHANGED <<ctx, wire, acptQueue, cut, faults>>
    BY DEF Reserve, FreeId
  <1>2. /\ idOf \in Seq(Ids) /\ Len(idOf) \in Nat /\ DOMAIN idOf = 1..Len(idOf)
        /\ sok \in [Sockets -> SocketRec] /\ table \in [End -> [Ids -> 0..Len(idOf)]]
        /\ crossed \in SUBSET Ids
    BY DEF TypeInv, Types
  <1>3. n \in Nums /\ n \in Nat /\ n > Len(idOf)
    BY <1>1, <1>2, Numbers DEF Nums
  <1>4. /\ idOf' \in Seq(Ids) /\ Len(idOf') = n
        /\ \A k \in 1..Len(idOf) : idOf'[k] = idOf[k]
        /\ idOf'[n] = i
    BY <1>1, <1>2, AppendProperties
  <1>5. c \in Sockets /\ c[1] = "client" /\ c[2] = n /\ sok[c] = NewSocket
        /\ sok[<<"server", n>>] = NewSocket
    BY <1>3, Ends DEF TypeInv, Known, KnownSockets
  <1> HIDE DEF c, n
  <1>6. sok' = [sok EXCEPT ![c] = [NewSocket EXCEPT !.stage = "reserved"]]
    BY <1>1, <1>2, <1>5
  <1>7. [NewSocket EXCEPT !.stage = "reserved"] \in SocketRec
    BY NewSocketType DEF SocketRec
  <1>8. /\ sok' \in [Sockets -> SocketRec]
        /\ sok'[c] = [NewSocket EXCEPT !.stage = "reserved"]
        /\ \A t \in Sockets \ {c} : sok'[t] = sok[t]
    BY <1>2, <1>5, <1>6, <1>7
  <1>9. table' \in [End -> [Ids -> 0..n]] /\ SetTo("client", i, n)
    <2>1. table \in [End -> [Ids -> 0..n]] /\ n \in 0..n
      BY <1>2, <1>3
    <2> QED
      BY <1>1, <2>1, Ends DEF SetTo
  <1>10. KnownEntries'
    <2> SUFFICES ASSUME NEW f \in End, NEW j \in Ids, table'[f][j] # 0
                 PROVE  idOf'[table'[f][j]] = j
      BY DEF KnownEntries
    <2>1. CASE f = "client" /\ j = i
      BY <1>4, <1>9, <2>1 DEF SetTo
    <2>2. CASE ~(f = "client" /\ j = i)
      <3>1. table'[f][j] = table[f][j] /\ table[f][j] \in 0..Len(idOf)
        BY <1>2, <1>9, <2>2 DEF SetTo
      <3>2. table[f][j] \in 1..Len(idOf)
        BY <1>2, <3>1
      <3> QED
        BY <1>4, <3>1, <3>2 DEF TypeInv, Known, KnownEntries
    <2> QED
      BY <2>1, <2>2
  <1>11. KnownSegments'
    <2> SUFFICES ASSUME NEW e \in End, NEW k \in 1..Len(wire[e])
                 PROVE  wire[e][k].num <= Len(idOf') /\ wire[e][k].id = idOf'[wire[e][k].num]
      BY <1>1 DEF KnownSegments
    <2>1. wire[e][k].num \in Nat /\ wire[e][k].num >= 1
      <3>1. wire[e][k] \in SegmentRec
        BY DEF TypeInv, Types
      <3> QED
        BY <3>1, Numbers DEF SegmentRec, Nums
    <2>2. wire[e][k].num <= Len(idOf) /\ wire[e][k].id = idOf[wire[e][k].num]
      BY DEF TypeInv, Known, KnownSegments
    <2>3. wire[e][k].num \in 1..Len(idOf)
      BY <1>2, <2>1, <2>2
    <2> QED
      BY <1>2, <1>3, <1>4, <2>1, <2>2, <2>3
  <1>12. KnownSockets'
    <2> SUFFICES ASSUME NEW t \in Sockets, t[2] > n PROVE sok'[t] = NewSocket
      BY <1>4 DEF KnownSockets
    <2>1. t[2] \in Nat /\ t # c
      BY <1>3, <1>5, Ends, Numbers DEF Nums
    <2>2. t[2] > Len(idOf)
      BY <1>2, <1>3, <2>1
    <2> QED
      BY <1>8, <2>1, <2>2 DEF TypeInv, Known, KnownSockets
  <1>13. Bounds'
    <2>1. /\ Len(sok'[c].incoming) <= Window /\ sok'[c].sent <= Writes[c[1]]
          /\ ~sok'[c].holding
      <3>1. sok'[c].incoming = <<>> /\ sok'[c].sent = 0 /\ ~sok'[c].holding
        BY <1>8 DEF NewSocket
      <3> QED
        BY <1>5, <3>1, Ends, Numbers
    <2> QED
      BY <1>8, <2>1 DEF TypeInv, Bounds
  <1>14. /\ crossed' \in SUBSET Ids
         /\ \A j \in crossed : j \in crossed'
         /\ i \notin crossed' => \A k \in 1..Len(idOf) : idOf[k] = i => sok[<<"client", k>>].closed
    BY <1>2 DEF Reserve
  <1>15. acptQueue \in Seq(1..Len(idOf'))
    BY <1>2, <1>3, <1>4 DEF TypeInv, Types
  <1>16. n <= Tunnels
    BY <1>3, Numbers DEF Nums
  <1>17. TypeInv'
    BY <1>1, <1>4, <1>8, <1>9, <1>10, <1>11, <1>12, <1>13, <1>14, <1>15, <1>16
    DEF TypeInv, Types, Known
  <1>18. Reserves(i)
    BY <1>1, <1>3, <1>5, <1>8, <1>9, <1>14 DEF Reserves, n, c
  <1> QED
    BY <1>17, <1>18

-----------------------------------------------------------------------------
\* Every step is one of these five.
LEMMA Steps ==
    ASSUME TypeInv, [Next]_vars
    PROVE  /\ TypeInv'
           /\ \/ Quiet
              \/ \E s \in Sockets : Reads(s) \/ \E seg : Sends(s, seg)
              \/ \E e \in End : \E seg : Takes(e, seg)
              \/ \E i \in Ids : Reserves(i)
  <1>1. ASSUME NEW s \in Sockets, Application(s)
        PROVE  TypeInv' /\ (Quiet \/ Reads(s) \/ \E seg : Sends(s, seg))
    BY <1>1, TakeTokenStep, SendDataStep, CloseStep, SendIcwdStep, DyingStep, ReadStep
    DEF Application
  <1>2. ASSUME NEW e \in End, Network(e)
        PROVE  TypeInv' /\ (Quiet \/ \E seg : Takes(e, seg))
    BY <1>2, RecvIcwdStep, RecvSegmentStep, ContextStep DEF Network
  <1>3. CASE Kill \/ Cut
    BY <1>3, Ends, ContextStep
  <1>4. ASSUME NEW n \in Nums, OpenTunnel(n)
        PROVE  TypeInv' /\ \E s \in Sockets : \E seg : Sends(s, seg)
    BY <1>4, OpenTunnelStep
  <1>5. CASE RecvOpen
    BY <1>5, Ends, RecvOpenStep
  <1>6. CASE UNCHANGED vars
    <2>1. TypeInv'
      BY <1>6 DEF vars, TypeInv, Types, Known, KnownSockets, KnownSegments, KnownEntries, Bounds
    <2>2. Quiet
      BY <1>6, ContextFades DEF vars, Quiet, Still, TypeInv
    <2> QED
      BY <2>1, <2>2
  <1> QED
    BY <1>1, <1>2, <1>3, <1>4, <1>5, <1>6, AcceptStep, ReserveStep DEF Next

LEMMA InitTypeInv == Init => TypeInv
  <1> SUFFICES ASSUME Init PROVE TypeInv
    OBVIOUS
  <1>1. idOf = <<>> /\ idOf \in Seq(Ids) /\ Len(idOf) = 0
    BY DEF Init
  <1>2. sok \in [Sockets -> SocketRec] /\ \A s \in Sockets : sok[s] = NewSocket
    BY NewSocketType DEF Init
  <1>3. table \in [End -> [Ids -> 0..0]] /\ \A e \in End, i \in Ids : table[e][i] = 0
    BY DEF Init
  <1>4. ctx \in [End -> CtxRec]
    BY DEF Init, NewCtx, CtxRec
  <1>5. wire \in [End -> Seq(SegmentRec)] /\ \A e \in End : Len(wire[e]) = 0
    BY DEF Init
  <1>6. acptQueue \in Seq(1..0) /\ Len(acptQueue) = 0
    <2>1. \A S : <<>> \in Seq(S)
      OBVIOUS
    <2>2. acptQueue = <<>>
      BY DEF Init
    <2> QED
      BY <2>1, <2>2
  <1>7. cut \in BOOLEAN /\ faults \in 0..Faults /\ crossed \in SUBSET Ids
    <2>1. cut = FALSE /\ faults = Faults /\ crossed = {}
      BY DEF Init
    <2>2. Faults \in 0..Faults
      BY Numbers
    <2> QED
      BY <2>1, <2>2
  <1>8. Types
    BY <1>1, <1>2, <1>3, <1>4, <1>5, <1>6, <1>7, Numbers DEF Types
  <1>9. Known
    BY <1>2, <1>3, <1>5 DEF Known, KnownSockets, KnownSegments, KnownEntries
  <1>10. Bounds
    <2>1. NewSocket.sent = 0 /\ ~NewSocket.holding /\ Len(NewSocket.incoming) = 0
      BY DEF NewSocket
    <2> QED
      BY <1>2, <2>1, Ends, Numbers DEF Bounds
  <1> QED
    BY <1>8, <1>9, <1>10 DEF TypeInv

LEMMA TypeInvariant == Spec => []TypeInv
  <1>1. TypeInv /\ [Next]_vars => TypeInv'
    BY Steps
  <1> QED
    BY <1>1, InitTypeInv, PTL DEF Spec

\* The ids, sockets, tables and queues stay what they are declared to be: no
\* channel of a socket is filled beyond the window, uint8 counts stay below
\* it, and the table only holds tunnels that have been drawn.
THEOREM NiaucchiTypeOK == Spec => []TypeOK
  <1>1. TypeInv => TypeOK
    <2> SUFFICES ASSUME TypeInv PROVE TypeOK
      OBVIOUS
    <2>1. \A s \in Sockets : sok[s] \in SocketRec
      BY DEF TypeInv, Types
    <2>2. \A s \in Sockets :
            /\ sok[s].stage \in {"none", "reserved", "queued", "open"}
            /\ sok[s].sendwind \in 0..Window /\ sok[s].recvcount \in 0..(Window - 1)
            /\ sok[s].owed \in Nat /\ sok[s].sent \in Nat
      BY <2>1 DEF SocketRec
    <2>3. \A s \in Sockets : sok[s].sent \in 0..Writes[s[1]]
      BY <2>2, Ends DEF TypeInv, Bounds
    <2>4. \A e \in End, i \in Ids : table[e][i] \in {0} \cup DOMAIN idOf
      <3>1. DOMAIN idOf = 1..Len(idOf) /\ Len(idOf) \in Nat
        BY DEF TypeInv, Types
      <3>2. \A e \in End, i \in Ids : table[e][i] \in 0..Len(idOf)
        BY DEF TypeInv, Types
      <3> QED
        BY <3>1, <3>2
    <2> QED
      BY <2>2, <2>3, <2>4 DEF TypeOK, TypeInv, Types, Bounds
  <1> QED
    BY <1>1, TypeInvariant, PTL

-----------------------------------------------------------------------------
(* Silence *)

\* What a socket of either end of a known segment is
LEMMA SegmentSocket ==
    ASSUME TypeInv, NEW e \in End, NEW k \in 1..Len(wire[e])
    PROVE  /\ wire[e][k] \in SegmentRec /\ wire[e][k].num \in Nums
           /\ wire[e][k].num \in 1..Len(idOf)
           /\ wire[e][k].id \in Ids /\ wire[e][k].id = idOf[wire[e][k].num]
           /\ \A f \in End : <<f, wire[e][k].num>> \in Sockets
  <1>1. wire[e][k] \in SegmentRec
    BY DEF TypeInv, Types
  <1>2. wire[e][k].num \in Nums /\ wire[e][k].id \in Ids
    BY <1>1 DEF SegmentRec
  <1>3. wire[e][k].num <= Len(idOf) /\ wire[e][k].id = idOf[wire[e][k].num]
    BY DEF TypeInv, Known, KnownSegments
  <1>4. Len(idOf) \in Nat
    BY DEF TypeInv, Types
  <1> QED
    BY <1>1, <1>2, <1>3, <1>4, Ends, Numbers DEF Nums

\* A socket that sends is not closed.
LEMMA SenderOpen ==
    ASSUME TypeInv, Silence, NEW s \in Sockets, NEW seg, Sends(s, seg)
    PROVE  /\ ~sok[s].closed
           /\ sok'[s].closed <=> seg.flag = "CLOS"
           /\ s[1] \in End /\ seg \in SegmentRec /\ Pack(s[1], seg) /\ seg.num = s[2]
           /\ seg.id = idOf[s[2]] /\ <<s[1], seg.num>> = s
  <1>1. s[1] \in End /\ seg \in SegmentRec /\ Pack(s[1], seg) /\ seg.num = s[2]
        /\ seg.id = idOf[s[2]] /\ <<s[1], seg.num>> = s
    BY Ends DEF Sends
  <1>2. seg.flag \in {"OPEN", "DATA", "ICWD", "CLOS"}
    BY <1>1 DEF SegmentRec
  <1>3. /\ sok[s].closed \in BOOLEAN
        /\ sok[s].closed => sok[s].dead /\ (s[1] = "client" => sok[s].stage = "open")
    BY DEF Silence, ClosedDead, TypeInv, Types, SocketRec
  <1>4. CASE seg.flag = "OPEN"
    BY <1>1, <1>3, <1>4 DEF Sends
  <1>5. CASE seg.flag = "DATA"
    BY <1>1, <1>3, <1>5 DEF Sends
  <1>6. CASE seg.flag = "ICWD"
    BY <1>1, <1>3, <1>6 DEF Sends, Still
  <1>7. CASE seg.flag = "CLOS"
    BY <1>1, <1>3, <1>7 DEF Sends
  <1> QED
    BY <1>2, <1>4, <1>5, <1>6, <1>7

LEMMA SilenceSends ==
    ASSUME TypeInv, Silence, NEW s \in Sockets, NEW seg, Sends(s, seg)
    PROVE  Silence'
  <1>1. /\ ~sok[s].closed
        /\ sok'[s].closed <=> seg.flag = "CLOS"
        /\ s[1] \in End /\ seg \in SegmentRec /\ Pack(s[1], seg) /\ seg.num = s[2]
        /\ <<s[1], seg.num>> = s
    BY SenderOpen
  <1>2. \A t \in Sockets \ {s} : Still(t)
    BY DEF Sends
  <1>3. ClosedDead'
    <2>1. sok'[s].closed => sok'[s].dead /\ sok'[s].stage = "open"
      BY <1>1 DEF Sends
    <2> QED
      BY <1>2, <2>1 DEF Silence, ClosedDead, Still
  <1> DEFINE new(f, k) == f = s[1] /\ k = Len(wire[s[1]]) + 1 /\ wire'[f][k] = seg
             old(f, k) == k \in 1..Len(wire[f]) /\ wire'[f][k] = wire[f][k]
  <1>4. \A f \in End : \A k \in 1..Len(wire'[f]) : old(f, k) \/ new(f, k)
    BY <1>1, PackFacts DEF TypeInv
  <1>5. \A t \in Sockets : sok[t].closed => sok'[t].closed
    BY <1>1, <1>2 DEF Still
  <1>6. \A f \in End : Len(wire[f]) \in Nat
    BY DEF TypeInv, Types
  <1>7. ClosOfClosed'
    <2> SUFFICES ASSUME NEW f \in End, NEW k \in 1..Len(wire'[f]), wire'[f][k].flag = "CLOS"
                 PROVE  sok'[<<f, wire'[f][k].num>>].closed
      BY DEF ClosOfClosed
    <2>1. CASE old(f, k)
      BY <1>5, <2>1, SegmentSocket DEF Silence, ClosOfClosed
    <2>2. CASE new(f, k)
      BY <1>1, <2>2
    <2> QED
      BY <1>4, <2>1, <2>2
  <1>8. ClosLast'
    <2> SUFFICES ASSUME NEW f \in End, NEW j \in 1..Len(wire'[f]), NEW k \in 1..Len(wire'[f]),
                        j < k, wire'[f][j].flag = "CLOS"
                 PROVE  wire'[f][k].num # wire'[f][j].num
      BY DEF ClosLast
    <2>1. CASE old(f, j) /\ old(f, k)
      BY <2>1 DEF Silence, ClosLast
    <2>2. CASE old(f, j) /\ new(f, k)
      <3>1. sok[<<f, wire[f][j].num>>].closed
        BY <2>2 DEF Silence, ClosOfClosed
      <3> QED
        BY <1>1, <2>2, <3>1
    <2>3. CASE new(f, j)
      BY <1>4, <1>6, <2>3
    <2> QED
      BY <1>4, <2>1, <2>2, <2>3
  <1> QED
    BY <1>3, <1>7, <1>8 DEF Silence

LEMMA SilenceTakes ==
    ASSUME TypeInv, Silence, NEW e \in End, NEW seg, Takes(e, seg)
    PROVE  Silence'
  <1>1. \A t \in Sockets :
          /\ t[1] = "client" => sok'[t].stage = sok[t].stage
          /\ sok'[t].closed = sok[t].closed /\ (sok[t].dead => sok'[t].dead)
    <2> DEFINE dest == <<e, table[e][seg.id]>>
    <2>1. CASE dest \in Sockets /\ sok'[dest] = [sok[dest] EXCEPT !.incoming = Append(@, seg)]
      <3>1. sok[dest] \in SocketRec
        BY <2>1 DEF TypeInv, Types
      <3>2. /\ sok'[dest].stage = sok[dest].stage /\ sok'[dest].closed = sok[dest].closed
            /\ sok'[dest].dead = sok[dest].dead
        BY <2>1, <3>1 DEF SocketRec
      <3> HIDE DEF dest
      <3> QED
        BY <3>2 DEF Takes, Still, dest
    <2>2. CASE \A t \in Sockets : Still(t)
      BY <2>2 DEF Still
    <2> QED
      BY <2>1, <2>2 DEF Takes
  <1>2. /\ Peer(e) \in End /\ wire'[e] = wire[e]
        /\ \A k \in 1..Len(wire'[Peer(e)]) :
             k + 1 \in 1..Len(wire[Peer(e)]) /\ wire'[Peer(e)][k] = wire[Peer(e)][k + 1]
    BY Ends, UnpackFacts DEF Takes, TypeInv
  <1>3. \A f \in End : f = e \/ f = Peer(e)
    BY DEF End, Peer
  <1>4. ClosedDead'
    BY <1>1 DEF Silence, ClosedDead
  <1>5. ClosOfClosed'
    <2> SUFFICES ASSUME NEW f \in End, NEW k \in 1..Len(wire'[f]), wire'[f][k].flag = "CLOS"
                 PROVE  sok'[<<f, wire'[f][k].num>>].closed
      BY DEF ClosOfClosed
    <2>1. PICK j \in 1..Len(wire[f]) : wire'[f][k] = wire[f][j]
      BY <1>2, <1>3
    <2> QED
      BY <1>1, <2>1, SegmentSocket DEF Silence, ClosOfClosed
  <1>6. ClosLast'
    <2> SUFFICES ASSUME NEW f \in End, NEW j \in 1..Len(wire'[f]), NEW k \in 1..Len(wire'[f]),
                        j < k, wire'[f][j].flag = "CLOS"
                 PROVE  wire'[f][k].num # wire'[f][j].num
      BY DEF ClosLast
    <2>1. CASE f = e
      BY <1>2, <2>1 DEF Silence, ClosLast
    <2>2. CASE f = Peer(e)
      <3>1. /\ j + 1 \in 1..Len(wire[f]) /\ wire'[f][j] = wire[f][j + 1]
            /\ k + 1 \in 1..Len(wire[f]) /\ wire'[f][k] = wire[f][k + 1] /\ j + 1 < k + 1
        BY <1>2, <2>2
      <3> QED
        BY <3>1 DEF Silence, ClosLast
    <2> QED
      BY <1>3, <2>1, <2>2
  <1> QED
    BY <1>4, <1>5, <1>6 DEF Silence

LEMMA SilenceStep ==
    ASSUME TypeInv, Silence, [Next]_vars
    PROVE  Silence'
  <1>1. CASE Quiet
    <2>1. \A t \in Sockets :
            /\ t[1] = "client" => sok'[t].stage = sok[t].stage
            /\ sok'[t].closed = sok[t].closed /\ (sok[t].dead => sok'[t].dead)
      BY <1>1 DEF Quiet, Still
    <2>2. wire' = wire
      BY <1>1 DEF Quiet
    <2>3. ClosOfClosed'
      BY <2>1, <2>2, SegmentSocket DEF Silence, ClosOfClosed
    <2> QED
      BY <2>1, <2>2, <2>3 DEF Silence, ClosedDead, ClosLast
  <1>2. ASSUME NEW s \in Sockets, Reads(s) PROVE Silence'
    <2>1. \A t \in Sockets :
            /\ t[1] = "client" => sok'[t].stage = sok[t].stage
            /\ sok'[t].closed = sok[t].closed /\ (sok[t].dead => sok'[t].dead)
      BY <1>2 DEF Reads, Still
    <2>2. wire' = wire
      BY <1>2 DEF Reads
    <2>3. ClosOfClosed'
      BY <2>1, <2>2, SegmentSocket DEF Silence, ClosOfClosed
    <2> QED
      BY <2>1, <2>2, <2>3 DEF Silence, ClosedDead, ClosLast
  <1>3. ASSUME NEW i \in Ids, Reserves(i) PROVE Silence'
    <2> DEFINE c == <<"client", Len(idOf) + 1>>
    <2>1. /\ wire' = wire /\ \A t \in Sockets \ {c} : sok'[t] = sok[t]
          /\ ~sok[c].closed /\ ~sok'[c].closed
      BY <1>3 DEF Reserves, NewSocket
    <2> HIDE DEF c
    <2>2. ClosedDead'
      BY <2>1 DEF Silence, ClosedDead
    <2>3. ClosOfClosed'
      BY <2>1, SegmentSocket DEF Silence, ClosOfClosed
    <2> QED
      BY <2>1, <2>2, <2>3 DEF Silence, ClosLast
  <1> QED
    BY <1>1, <1>2, <1>3, SilenceSends, SilenceTakes, Steps

LEMMA InitSilence == Init => Silence
  <1> SUFFICES ASSUME Init PROVE Silence
    OBVIOUS
  <1>1. \A s \in Sockets : ~sok[s].closed
    BY DEF Init, NewSocket
  <1>2. \A e \in End : Len(wire[e]) = 0
    BY DEF Init
  <1> QED
    BY <1>1, <1>2 DEF Silence, ClosedDead, ClosOfClosed, ClosLast

\* Neither a writer nor a goroutine with an ICWD ever slips past the CLOS of its
\* own socket, whatever the number of tunnels and the order of their steps.
THEOREM NiaucchiNothingAfterClos == Spec => []NothingAfterClos
  <1>1. TypeInv /\ Silence /\ [Next]_vars => TypeInv' /\ Silence'
    BY Steps, SilenceStep
  <1>2. TypeInv /\ Silence => NothingAfterClos
    <2> SUFFICES ASSUME TypeInv, Silence PROVE NothingAfterClos
      OBVIOUS
    <2>1. \A e \in End : DOMAIN wire[e] = 1..Len(wire[e])
      BY DEF TypeInv, Types
    <2> QED
      BY <2>1 DEF Silence, ClosLast, NothingAfterClos
  <1> QED
    BY <1>1, <1>2, InitTypeInv, InitSilence, PTL DEF Spec

-----------------------------------------------------------------------------
(* Sockets at work *)

\* At the client only a socket that Tunnel has handed out reads, writes or
\* credits.
Busy(s) == sok[s].holding \/ sok[s].reading \/ sok[s].owed > 0
AtWork ==
    \A s \in Sockets :
      s[1] = "client" /\ Busy(s) => sok[s].stage = "open"

Same(t) ==
    /\ sok'[t].holding = sok[t].holding /\ sok'[t].reading = sok[t].reading
    /\ sok'[t].owed = sok[t].owed /\ sok'[t].stage = sok[t].stage

LEMMA AtWorkSocket ==
    ASSUME TypeInv, AtWork, NEW s \in Sockets, NEW new, sok' = [sok EXCEPT ![s] = new],
           s[1] = "client" /\ (new.holding \/ new.reading \/ new.owed > 0) => new.stage = "open"
    PROVE  AtWork'
  <1>1. sok'[s] = new /\ \A t \in Sockets \ {s} : sok'[t] = sok[t]
    BY DEF TypeInv, Types
  <1> QED
    BY <1>1 DEF AtWork, Busy

LEMMA AtWorkStep ==
    ASSUME TypeInv, AtWork, [Next]_vars
    PROVE  AtWork'
  <1>1. sok \in [Sockets -> SocketRec]
    BY DEF TypeInv, Types
  <1>2. ASSUME NEW s \in Sockets, Application(s) PROVE AtWork'
    <2>2. sok[s] \in SocketRec
      BY <1>1
    <2> DEFINE same(k) == k.stage = sok[s].stage
               fine(k) == /\ sok' = [sok EXCEPT ![s] = k]
                          /\ s[1] = "client" /\ (k.holding \/ k.reading \/ k.owed > 0)
                               => k.stage = "open"
    <2>3. CASE TakeToken(s)
      <3>1. fine([sok[s] EXCEPT !.sendwind = @ + 1, !.holding = TRUE])
        BY <1>1, <2>2, <2>3 DEF TakeToken, SocketRec
      <3> QED
        BY <3>1, AtWorkSocket
    <2>4. CASE SendData(s)
      <3>1. \/ fine([sok[s] EXCEPT !.holding = FALSE, !.sent = @ + 1])
            \/ fine([sok[s] EXCEPT !.holding = FALSE])
        BY <1>1, <2>2, <2>4 DEF SendData, SocketRec, AtWork, Busy
      <3> QED
        BY <3>1, AtWorkSocket
    <2>5. CASE Close(s)
      <3>1. fine([sok[s] EXCEPT !.closed = TRUE, !.dead = TRUE])
        BY <1>1, <2>2, <2>5 DEF Close, SocketRec
      <3> QED
        BY <3>1, AtWorkSocket
    <2>6. CASE ReadData(s) \/ ReadClos(s)
      <3>1. sok'[s].stage = sok[s].stage /\ \A t \in Sockets \ {s} : sok'[t] = sok[t]
        BY <2>6, ReadStep DEF Reads
      <3>3. s[1] = "client" => sok[s].stage = "open"
        BY <2>6 DEF ReadData, ReadClos, AtWork, Busy
      <3> QED
        BY <3>1, <3>3 DEF AtWork, Busy
    <2>7. CASE ReadDying(s)
      <3>1. fine([sok[s] EXCEPT !.reading = FALSE])
        BY <1>1, <2>2, <2>7 DEF ReadDying, SocketRec, AtWork, Busy
      <3> QED
        BY <3>1, AtWorkSocket
    <2>8. CASE SendIcwd(s)
      <3>1. fine([sok[s] EXCEPT !.owed = @ - 1])
        BY <1>1, <2>2, <2>8 DEF SendIcwd, SocketRec, AtWork, Busy
      <3> QED
        BY <3>1, AtWorkSocket
    <2>9. CASE ReadTimeout(s)
      <3>1. fine([sok[s] EXCEPT !.dead = TRUE, !.reading = FALSE])
        BY <1>1, <2>2, <2>9 DEF ReadTimeout, SocketRec, AtWork, Busy
      <3> QED
        BY <3>1, AtWorkSocket
    <2>10. CASE WriteTimeout(s) \/ TieUp(s)
      <3>1. fine([sok[s] EXCEPT !.dead = TRUE])
        BY <1>1, <2>2, <2>10 DEF WriteTimeout, TieUp, SocketRec, AtWork, Busy
      <3> QED
        BY <3>1, AtWorkSocket
    <2> QED
      BY <1>2, <2>3, <2>4, <2>5, <2>6, <2>7, <2>8, <2>9, <2>10 DEF Application
  <1>3. ASSUME NEW n \in Nums, OpenTunnel(n) PROVE AtWork'
    <2> DEFINE s == <<"client", n>>
    <2>1. s \in Sockets /\ sok[s] \in SocketRec
      BY <1>1, Ends
    <2> HIDE DEF s
    <2>2. sok' = [sok EXCEPT ![s] = [sok[s] EXCEPT !.stage = "open", !.reading = ~sok[s].dead]]
      BY <1>1, <1>3, <2>1 DEF OpenTunnel, Opened, s
    <2> QED
      BY <2>1, <2>2, AtWorkSocket DEF SocketRec
  <1>4. CASE Accept \/ RecvOpen
    <2>1. \A t \in Sockets : t[1] = "client" => sok'[t] = sok[t]
      BY <1>1, <1>4 DEF Accept, RecvOpen
    <2> QED
      BY <2>1 DEF AtWork, Busy
  <1>5. ASSUME NEW i \in Ids, Reserves(i) PROVE AtWork'
    <2> DEFINE c == <<"client", Len(idOf) + 1>>
    <2>1. \A t \in Sockets \ {c} : sok'[t] = sok[t]
      BY <1>5 DEF Reserves
    <2>2. ~sok'[c].holding /\ ~sok'[c].reading /\ ~(sok'[c].owed > 0)
      BY <1>5 DEF Reserves, NewSocket
    <2> HIDE DEF c
    <2> QED
      BY <2>1, <2>2 DEF AtWork, Busy
  <1>6. ASSUME NEW e \in End, RecvIcwd(e) PROVE AtWork'
    <2> DEFINE d == <<e, table[e][Head(wire[Peer(e)]).id]>>
    <2>1. \/ sok' = sok
          \/ sok' = [sok EXCEPT ![d].sendwind = @ - Count]
      BY <1>6 DEF RecvIcwd
    <2> HIDE DEF d
    <2>2. \A t \in Sockets : Same(t)
      <3>1. CASE d \in Sockets
        <4>1. sok[d] \in SocketRec
          BY <1>1, <3>1
        <4>2. Same(d)
          BY <1>1, <2>1, <3>1, <4>1 DEF Same, SocketRec
        <4> QED
          BY <1>1, <2>1, <4>2 DEF Same
      <3>2. CASE d \notin Sockets
        BY <1>1, <2>1, <3>2 DEF Same
      <3> QED
        BY <3>1, <3>2
    <2> QED
      BY <2>2 DEF AtWork, Busy, Same
  <1>7. ASSUME NEW e \in End, RecvSegment(e) PROVE AtWork'
    <2> DEFINE g == Head(wire[Peer(e)])
               d == <<e, table[e][g.id]>>
    <2>1. \/ sok' = sok
          \/ sok' = [sok EXCEPT ![d].incoming = Queued(@, g)]
      BY <1>7 DEF RecvSegment
    <2> HIDE DEF d, g
    <2>2. \A t \in Sockets : Same(t)
      <3>1. CASE d \in Sockets
        <4>1. sok[d] \in SocketRec
          BY <1>1, <3>1
        <4>2. Same(d)
          BY <1>1, <2>1, <3>1, <4>1 DEF Same, SocketRec
        <4> QED
          BY <1>1, <2>1, <4>2 DEF Same
      <3>2. CASE d \notin Sockets
        BY <1>1, <2>1, <3>2 DEF Same
      <3> QED
        BY <3>1, <3>2
    <2> QED
      BY <2>2 DEF AtWork, Busy, Same
  <1>8. ASSUME sok' = sok PROVE AtWork'
    BY <1>8 DEF AtWork, Busy
  <1> QED
    BY <1>2, <1>3, <1>4, <1>5, <1>6, <1>7, <1>8, ReserveStep
    DEF Next, Network, vars, ReadError, AlivFails, Kill, Cut, contextOnly

-----------------------------------------------------------------------------
(* Routing *)

RoutingInv == TypeInv /\ Silence /\ AtWork /\ Routing

\* A socket that sends is the last of its id at the client, and the one in the
\* table at the server.
LEMMA SenderIsLast ==
    ASSUME RoutingInv, NEW s \in Sockets, NEW seg, Sends(s, seg), seg.id \notin crossed
    PROVE  /\ s[1] = "client" => \A n \in 1..Len(idOf) : idOf[n] = seg.id => n <= seg.num
           /\ s[1] = "server" => table["client"][seg.id] = seg.num
  <1>1. /\ ~sok[s].closed /\ <<s[1], seg.num>> = s /\ seg.id = idOf[seg.num]
        /\ seg.num \in 1..Len(idOf)
    <2>1. ~sok[s].closed /\ <<s[1], seg.num>> = s /\ seg.num = s[2] /\ seg.id = idOf[s[2]]
      BY SenderOpen DEF RoutingInv
    <2>2. s[2] \in 1..Len(idOf)
      BY NumFacts DEF Sends, RoutingInv
    <2> QED
      BY <2>1, <2>2
  <1>2. Len(idOf) \in Nat
    BY DEF RoutingInv, TypeInv, Types
  <1>3. CASE s[1] = "client"
    <2>1. ASSUME NEW n \in 1..Len(idOf), idOf[n] = seg.id, n > seg.num PROVE FALSE
      BY <1>1, <1>3, <2>1 DEF RoutingInv, Routing, LastSpeaks
    <2> QED
      BY <1>1, <1>2, <1>3, <2>1
  <1>4. CASE s[1] = "server"
    BY <1>1, <1>4 DEF RoutingInv, Routing, LastSpeaks
  <1> QED
    BY <1>3, <1>4

\* What a step that keeps the tables and the ids does to the last speakers
LEMMA LastSpeaksKept ==
    ASSUME RoutingInv, UNCHANGED <<idOf, crossed>>, table'["client"] = table["client"],
           \A t \in Sockets : sok[t].closed => sok'[t].closed
    PROVE  LastSpeaks'
  <1>1. \A e \in End : \A n \in 1..Len(idOf) : <<e, n>> \in Sockets
    BY NumFacts DEF RoutingInv
  <1>2. LastSpeaks
    BY DEF RoutingInv, Routing
  <1> QED
    BY <1>1, <1>2, Ends DEF LastSpeaks

LEMMA RoutingSends ==
    ASSUME RoutingInv, NEW s \in Sockets, NEW seg, Sends(s, seg)
    PROVE  Routing'
  <1>1. /\ UNCHANGED <<idOf, table, ctx, cut, crossed>>
        /\ \A t \in Sockets \ {s} : Still(t)
    BY DEF Sends
  <1>2. /\ ~sok[s].closed
        /\ sok'[s].closed <=> seg.flag = "CLOS"
        /\ s[1] \in End /\ seg \in SegmentRec /\ Pack(s[1], seg) /\ seg.num = s[2]
        /\ <<s[1], seg.num>> = s
    BY SenderOpen DEF RoutingInv
  <1> DEFINE new(f, k) == f = s[1] /\ Carries(f) /\ k = Len(wire[f]) + 1 /\ wire'[f][k] = seg
             old(f, k) == k \in 1..Len(wire[f]) /\ wire'[f][k] = wire[f][k]
  <1>3. /\ \A f \in End : \A k \in 1..Len(wire'[f]) : old(f, k) \/ new(f, k)
        /\ \A f \in End : \A k \in 1..Len(wire[f]) : k \in 1..Len(wire'[f]) /\ old(f, k)
        /\ Carries(s[1]) => Len(wire[s[1]]) + 1 \in 1..Len(wire'[s[1]])
                              /\ wire'[s[1]][Len(wire[s[1]]) + 1] = seg
    BY <1>2, PackFacts DEF RoutingInv, TypeInv
  <1>4. \A f \in End : Len(wire[f]) \in Nat
    BY DEF RoutingInv, TypeInv, Types
  <1> HIDE DEF new, old
  <1>5. LastSpeaks'
    <2>1. \A t \in Sockets : sok[t].closed => sok'[t].closed
      BY <1>1, <1>2 DEF Still
    <2> QED
      BY <1>1, <2>1, LastSpeaksKept
  <1>6. RoutedDown'
    <2> SUFFICES ASSUME NEW k \in 1..Len(wire'["server"]), wire'["server"][k].id \notin crossed
                 PROVE  table["client"][wire'["server"][k].id] = wire'["server"][k].num
      BY <1>1 DEF RoutedDown
    <2>1. CASE old("server", k)
      BY <2>1 DEF RoutingInv, Routing, RoutedDown, old
    <2>2. CASE new("server", k)
      BY <2>2, SenderIsLast DEF new
    <2> QED
      BY <1>3, <2>1, <2>2, Ends
  <1>7. ASSUME NEW j \in 1..Len(wire'["client"]), NEW k \in 1..Len(wire'["client"]), j < k,
               wire'["client"][j].id = wire'["client"][k].id, wire'["client"][j].id \notin crossed
        PROVE  wire'["client"][j].num <= wire'["client"][k].num
    <2>1. CASE old("client", j) /\ old("client", k)
      BY <1>7, <2>1 DEF RoutingInv, Routing, RoutedUp, old
    <2>2. CASE old("client", j) /\ new("client", k)
      <3>1. /\ wire["client"][j].num \in 1..Len(idOf)
            /\ wire["client"][j].id = idOf[wire["client"][j].num]
        BY <2>2, Ends, SegmentSocket DEF old, RoutingInv
      <3> QED
        BY <1>7, <2>2, <3>1, SenderIsLast DEF old, new
    <2>3. CASE new("client", j)
      BY <1>3, <1>4, <1>7, <2>3, Ends DEF new, old
    <2> QED
      BY <1>3, <2>1, <2>2, <2>3, Ends
  <1>8. ASSUME NEW k \in 1..Len(wire'["client"]), wire'["client"][k].id \notin crossed
        PROVE  LET b == wire'["client"][k]
               IN  /\ table["server"][b.id] <= b.num
                   /\ \/ b.flag = "OPEN"
                      \/ table["server"][b.id] = b.num
                      \/ \E j \in 1..(k - 1) : OpenAt(wire'["client"], b.num, j)
    <2>1. CASE old("client", k)
      <3>1. \A j \in 1..(k - 1) : j \in 1..Len(wire["client"])
        BY <1>4, <2>1, Ends DEF old
      <3>2. \A j \in 1..(k - 1) : wire'["client"][j] = wire["client"][j]
        BY <1>3, <3>1, Ends DEF old
      <3>3. LET b == wire["client"][k]
            IN  /\ table["server"][b.id] <= b.num
                /\ \/ b.flag = "OPEN"
                   \/ table["server"][b.id] = b.num
                   \/ \E j \in 1..(k - 1) : OpenAt(wire["client"], b.num, j)
        BY <1>8, <2>1 DEF RoutingInv, Routing, RoutedUp, old
      <3> QED
        BY <2>1, <3>2, <3>3 DEF OpenAt, old
    <2>2. CASE new("client", k)
      <3>1. /\ s[1] = "client" /\ wire'["client"][k] = seg /\ seg.num \in Nums /\ seg.id \in Ids
            /\ seg.num \in 1..Len(idOf) /\ seg.id = idOf[seg.num] /\ k = Len(wire["client"]) + 1
            /\ Carries("client")
        <4>1. /\ s[1] = "client" /\ wire'["client"][k] = seg /\ k = Len(wire["client"]) + 1
              /\ Carries("client")
          BY <2>2 DEF new
        <4>2. seg \in SegmentRec /\ seg.num = s[2] /\ seg.id = idOf[s[2]] /\ s[2] <= Len(idOf)
          BY <1>2 DEF Sends
        <4>3. seg.num \in Nums /\ seg.id \in Ids
          BY <4>2 DEF SegmentRec
        <4>4. seg.num \in 1..Len(idOf)
          BY <4>2, NumFacts DEF RoutingInv
        <4> QED
          BY <4>1, <4>2, <4>3, <4>4
      <3>2. table["server"][seg.id] <= seg.num
        <4>1. table["server"][seg.id] \in 0..Len(idOf) /\ Len(idOf) \in Nat
          <5>1. table \in [End -> [Ids -> 0..Len(idOf)]]
            BY DEF RoutingInv, TypeInv, Types
          <5>2. Len(idOf) \in Nat
            BY NumFacts DEF RoutingInv
          <5> QED
            BY <3>1, <5>1, <5>2, Ends
        <4>2. CASE table["server"][seg.id] = 0
          BY <3>1, <4>2
        <4>3. CASE table["server"][seg.id] # 0
          <5>1. idOf[table["server"][seg.id]] = seg.id
            BY <3>1, <4>3, Ends DEF RoutingInv, TypeInv, Known, KnownEntries
          <5>2. table["server"][seg.id] \in 1..Len(idOf)
            BY <4>1, <4>3
          <5> QED
            BY <1>8, <3>1, <5>1, <5>2, SenderIsLast
        <4> QED
          BY <4>2, <4>3
      <3>3. CASE seg.flag = "OPEN"
        BY <3>1, <3>2, <3>3
      <3>4. CASE seg.flag # "OPEN"
        <4>1. sok[s].stage = "open"
          <5>1. seg.flag \in {"DATA", "ICWD", "CLOS"}
            BY <1>2, <3>4 DEF SegmentRec
          <5>2. s[1] = "client" /\ Busy(s) => sok[s].stage = "open"
            BY DEF RoutingInv, AtWork
          <5> QED
            BY <3>1, <5>1, <5>2 DEF Sends, Busy
        <4>2. \/ table["server"][seg.id] = seg.num
              \/ \E j \in 1..Len(wire["client"]) : OpenAt(wire["client"], seg.num, j)
          BY <1>2, <1>8, <3>1, <4>1 DEF RoutingInv, Routing, RoutedUp
        <4>3. \A j \in 1..Len(wire["client"]) : j \in 1..(k - 1)
                  /\ wire'["client"][j] = wire["client"][j]
          BY <1>3, <1>4, <3>1, Ends DEF old
        <4> QED
          BY <3>1, <3>2, <4>2, <4>3 DEF OpenAt
      <3> QED
        BY <3>3, <3>4
    <2> QED
      BY <1>3, <2>1, <2>2, Ends
  <1>9. ASSUME Carries("client")', NEW n \in 1..Len(idOf), idOf[n] \notin crossed,
               sok'[<<"client", n>>].stage = "open", ~sok'[<<"client", n>>].closed
        PROVE  \/ table["server"][idOf[n]] = n
               \/ \E j \in 1..Len(wire'["client"]) : OpenAt(wire'["client"], n, j)
    <2>1. Carries("client")
      BY <1>1, <1>9 DEF Carries
    <2>2. <<"client", n>> \in Sockets
      BY Ends, NumFacts DEF RoutingInv
    <2>3. CASE sok[<<"client", n>>].stage = "open"
      <3>1. ~sok[<<"client", n>>].closed
        BY <1>1, <1>2, <1>9, <2>2 DEF Still
      <3>2. \/ table["server"][idOf[n]] = n
            \/ \E j \in 1..Len(wire["client"]) : OpenAt(wire["client"], n, j)
        BY <1>9, <2>1, <2>3, <3>1 DEF RoutingInv, Routing, RoutedUp
      <3> QED
        BY <1>3, <3>2, Ends DEF OpenAt, old
    <2>4. CASE sok[<<"client", n>>].stage # "open"
      <3>1. s = <<"client", n>>
        BY <1>1, <1>9, <2>2, <2>4 DEF Still
      <3>2. seg.flag = "OPEN"
        <4>1. seg.flag \in {"OPEN", "DATA", "ICWD", "CLOS"}
          BY <1>2 DEF SegmentRec
        <4> QED
          BY <1>9, <2>4, <3>1, <4>1 DEF Sends, Still
      <3>3. seg.num = n /\ s[1] = "client"
        BY <1>2, <3>1
      <3> QED
        BY <1>3, <2>1, <3>2, <3>3 DEF OpenAt
    <2> QED
      BY <2>3, <2>4
  <1>10. RoutedUp'
    BY <1>1, <1>7, <1>8, <1>9 DEF RoutedUp
  <1> QED
    BY <1>5, <1>6, <1>10 DEF Routing

\* A step that moves nothing on the wires and in the tables
LEMMA RoutingKept ==
    ASSUME RoutingInv, UNCHANGED <<idOf, table, wire, crossed>>,
           Carries("client")' => Carries("client"),
           \A t \in Sockets : /\ t[1] = "client" => sok'[t].stage = sok[t].stage
                              /\ sok'[t].closed = sok[t].closed
    PROVE  Routing'
  <1>1. LastSpeaks'
    BY LastSpeaksKept
  <1>2. RoutedDown'
    BY DEF RoutingInv, Routing, RoutedDown
  <1>3. ASSUME Carries("client")', NEW n \in 1..Len(idOf), idOf[n] \notin crossed,
               sok'[<<"client", n>>].stage = "open", ~sok'[<<"client", n>>].closed
        PROVE  \/ table["server"][idOf[n]] = n
               \/ \E j \in 1..Len(wire["client"]) : OpenAt(wire["client"], n, j)
    <2>1. <<"client", n>> \in Sockets
      BY Ends, NumFacts DEF RoutingInv
    <2>2. sok[<<"client", n>>].stage = "open" /\ ~sok[<<"client", n>>].closed
      BY <1>3, <2>1
    <2> QED
      BY <1>3, <2>2 DEF RoutingInv, Routing, RoutedUp
  <1>4. RoutedUp'
    BY <1>3 DEF RoutingInv, Routing, RoutedUp
  <1> QED
    BY <1>1, <1>2, <1>4 DEF Routing

\* What mainThread takes, and what that does to sockets and tables
Delivered(e, p, seg) ==
    /\ UNCHANGED <<idOf, crossed>> /\ Fading /\ ctx[e].main
    /\ \A t \in Sockets : /\ t[1] = "client" => sok'[t].stage = sok[t].stage
                          /\ sok'[t].closed = sok[t].closed /\ sok'[t].sent = sok[t].sent
    /\ seg \in SegmentRec /\ seg = wire[p][1] /\ 1 \in 1..Len(wire[p])
    /\ seg.id \in Ids /\ seg.num \in 1..Len(idOf) /\ seg.id = idOf[seg.num]
    /\ wire'[e] = wire[e]
    /\ Len(wire'[p]) = Len(wire[p]) - 1 /\ Len(wire[p]) \in Nat
    /\ \A k \in 1..Len(wire'[p]) :
         k + 1 \in 1..Len(wire[p]) /\ wire'[p][k] = wire[p][k + 1]
    /\ \/ seg.flag = "OPEN" /\ e = "server" /\ SetTo(e, seg.id, seg.num)
       \/ seg.flag = "ICWD" /\ table' = table
       \/ seg.flag = "DATA" /\ table' = table
       \/ seg.flag = "CLOS" /\ SetTo(e, seg.id, 0)
    /\ seg.flag = "CLOS" => sok[<<p, seg.num>>].closed
    /\ seg.flag = "CLOS" =>
         \A k \in 1..Len(wire'[p]) : wire'[p][k].num # seg.num

LEMMA TakesFacts ==
    ASSUME RoutingInv, NEW e \in End, NEW seg, Takes(e, seg)
    PROVE  Delivered(e, Peer(e), seg)
  <1>1. /\ UNCHANGED <<idOf, crossed>> /\ Fading /\ ctx[e].main
        /\ wire[Peer(e)] # <<>> /\ seg = wire[Peer(e)][1] /\ Unpacked(e)
        /\ \/ seg.flag = "OPEN" /\ e = "server" /\ SetTo(e, seg.id, seg.num)
           \/ seg.flag = "ICWD" /\ table' = table
           \/ seg.flag = "DATA" /\ table' = table
           \/ seg.flag = "CLOS" /\ SetTo(e, seg.id, 0)
    BY DEF Takes
  <1>2. \A t \in Sockets : /\ t[1] = "client" => sok'[t].stage = sok[t].stage
                           /\ sok'[t].closed = sok[t].closed /\ sok'[t].sent = sok[t].sent
    <2> DEFINE dest == <<e, table[e][seg.id]>>
    <2>1. CASE dest \in Sockets /\ sok'[dest] = [sok[dest] EXCEPT !.incoming = Append(@, seg)]
      <3>1. sok[dest] \in SocketRec
        BY <2>1 DEF RoutingInv, TypeInv, Types
      <3>2. /\ sok'[dest].stage = sok[dest].stage /\ sok'[dest].closed = sok[dest].closed
            /\ sok'[dest].sent = sok[dest].sent
        BY <2>1, <3>1 DEF SocketRec
      <3> HIDE DEF dest
      <3> QED
        BY <3>2 DEF Takes, Still, dest
    <2>2. CASE \A t \in Sockets : Still(t)
      BY <2>2 DEF Still
    <2> QED
      BY <2>1, <2>2 DEF Takes
  <1>3. /\ seg \in SegmentRec /\ seg.id \in Ids /\ seg.num \in 1..Len(idOf)
        /\ seg.id = idOf[seg.num] /\ 1 \in 1..Len(wire[Peer(e)])
    BY <1>1, TakenSegment DEF RoutingInv
  <1>4. /\ wire'[e] = wire[e] /\ Len(wire'[Peer(e)]) = Len(wire[Peer(e)]) - 1
        /\ \A k \in 1..Len(wire'[Peer(e)]) :
             k + 1 \in 1..Len(wire[Peer(e)]) /\ wire'[Peer(e)][k] = wire[Peer(e)][k + 1]
    BY <1>1, UnpackFacts DEF RoutingInv, TypeInv
  <1>5. Peer(e) \in End /\ Len(wire[Peer(e)]) \in Nat
    BY Ends DEF RoutingInv, TypeInv, Types
  <1>6. seg.flag = "CLOS" => sok[<<Peer(e), seg.num>>].closed
    BY <1>1, <1>3, <1>5 DEF RoutingInv, Silence, ClosOfClosed
  <1>7. ASSUME seg.flag = "CLOS", NEW k \in 1..Len(wire'[Peer(e)])
        PROVE  wire'[Peer(e)][k].num # seg.num
    <2>1. /\ k + 1 \in 1..Len(wire[Peer(e)]) /\ wire'[Peer(e)][k] = wire[Peer(e)][k + 1]
          /\ 1 < k + 1
      BY <1>4
    <2> QED
      BY <1>1, <1>3, <1>5, <1>7, <2>1 DEF RoutingInv, Silence, ClosLast
  <1> QED
    BY <1>1, <1>2, <1>3, <1>4, <1>5, <1>6, <1>7 DEF Delivered

LEMMA RoutingTakesDown ==
    ASSUME RoutingInv, NEW seg, Takes("client", seg)
    PROVE  Routing'
  <1>1. Peer("client") = "server" /\ "client" \in End /\ "server" \in End /\ "client" # "server"
    BY Ends DEF Peer
  <1>2. /\ UNCHANGED <<idOf, crossed>> /\ Fading
        /\ \A t \in Sockets : /\ t[1] = "client" => sok'[t].stage = sok[t].stage
                              /\ sok'[t].closed = sok[t].closed
        /\ seg = wire["server"][1] /\ 1 \in 1..Len(wire["server"])
        /\ seg.id \in Ids /\ seg.num \in 1..Len(idOf) /\ seg.id = idOf[seg.num]
        /\ wire'["client"] = wire["client"]
        /\ \A k \in 1..Len(wire'["server"]) :
             k + 1 \in 1..Len(wire["server"]) /\ wire'["server"][k] = wire["server"][k + 1]
        /\ table' = table \/ (seg.flag = "CLOS" /\ SetTo("client", seg.id, 0))
        /\ seg.flag = "CLOS" => sok[<<"server", seg.num>>].closed
        /\ seg.flag = "CLOS" =>
             \A k \in 1..Len(wire'["server"]) : wire'["server"][k].num # seg.num
    <2>1. Delivered("client", "server", seg)
      BY <1>1, TakesFacts
    <2> QED
      BY <1>1, <2>1 DEF Delivered
  <1>3. seg.id \notin crossed => table["client"][seg.id] = seg.num
    BY <1>2 DEF RoutingInv, Routing, RoutedDown
  <1>4. \A n \in 1..Len(idOf) : idOf[n] \in Ids /\ <<"client", n>> \in Sockets
                                 /\ <<"server", n>> \in Sockets
    BY <1>1, NumFacts DEF RoutingInv
  <1>5. ASSUME NEW n \in 1..Len(idOf), idOf[n] \notin crossed, ~sok'[<<"server", n>>].closed
        PROVE  table'["client"][idOf[n]] = n
    <2>1. ~sok[<<"server", n>>].closed
      BY <1>2, <1>4, <1>5
    <2>2. table["client"][idOf[n]] = n
      BY <1>5, <2>1 DEF RoutingInv, Routing, LastSpeaks
    <2>3. CASE seg.flag = "CLOS" /\ SetTo("client", seg.id, 0)
      <3>1. idOf[n] # seg.id
        BY <1>2, <1>3, <1>5, <2>1, <2>2, <2>3
      <3> QED
        BY <1>1, <1>4, <2>2, <2>3, <3>1 DEF SetTo
    <2> QED
      BY <1>2, <2>2, <2>3
  <1>6. LastSpeaks'
    <2>1. \A n \in 1..Len(idOf) : sok'[<<"client", n>>].closed = sok[<<"client", n>>].closed
      BY <1>2, <1>4
    <2> QED
      BY <1>2, <1>5, <2>1 DEF RoutingInv, Routing, LastSpeaks
  <1>7. RoutedDown'
    <2> SUFFICES ASSUME NEW k \in 1..Len(wire'["server"]), wire'["server"][k].id \notin crossed
                 PROVE  table'["client"][wire'["server"][k].id] = wire'["server"][k].num
      BY <1>2 DEF RoutedDown
    <2> DEFINE b == wire["server"][k + 1]
    <2>1. k + 1 \in 1..Len(wire["server"]) /\ wire'["server"][k] = b /\ b.id \in Ids
      BY <1>1, <1>2, SegmentSocket DEF RoutingInv
    <2>2. table["client"][b.id] = b.num
      BY <2>1 DEF RoutingInv, Routing, RoutedDown
    <2>3. CASE seg.flag = "CLOS" /\ SetTo("client", seg.id, 0)
      <3>1. b.num # seg.num
        BY <1>2, <2>1, <2>3
      <3>2. b.id # seg.id
        BY <1>3, <2>1, <2>2, <3>1
      <3> QED
        BY <1>1, <2>1, <2>2, <2>3, <3>2 DEF SetTo
    <2> QED
      BY <1>2, <2>1, <2>2, <2>3
  <1>8. \A i \in Ids : table'["server"][i] = table["server"][i]
    BY <1>1, <1>2 DEF SetTo
  <1>9. ASSUME Carries("client")', NEW n \in 1..Len(idOf), idOf[n] \notin crossed,
               sok'[<<"client", n>>].stage = "open", ~sok'[<<"client", n>>].closed
        PROVE  \/ table'["server"][idOf[n]] = n
               \/ \E j \in 1..Len(wire["client"]) : OpenAt(wire["client"], n, j)
    <2>1. sok[<<"client", n>>].stage = "open" /\ ~sok[<<"client", n>>].closed
      BY <1>2, <1>4, <1>9
    <2>2. Carries("client")
      BY <1>1, <1>2, <1>9 DEF Fading
    <2> QED
      BY <1>4, <1>8, <1>9, <2>1, <2>2 DEF RoutingInv, Routing, RoutedUp
  <1>10. \A k \in 1..Len(wire["client"]) : wire["client"][k].id \in Ids
    BY <1>1, SegmentSocket DEF RoutingInv
  <1>11. RoutedUp'
    <2>1. \A n \in 1..Len(idOf) : table'["server"][idOf[n]] = table["server"][idOf[n]]
      BY <1>4, <1>8
    <2>2. \A k \in 1..Len(wire["client"]) :
            table'["server"][wire["client"][k].id] = table["server"][wire["client"][k].id]
      BY <1>8, <1>10
    <2>3. RoutedUp
      BY DEF RoutingInv, Routing
    <2>4. \A k \in 1..Len(wire["client"]) :
            LET b == wire["client"][k]
            IN  b.id \notin crossed =>
                   /\ table'["server"][b.id] <= b.num
                   /\ \/ b.flag = "OPEN"
                      \/ table'["server"][b.id] = b.num
                      \/ \E j \in 1..(k - 1) : OpenAt(wire["client"], b.num, j)
      BY <2>2, <2>3 DEF RoutedUp
    <2> QED
      BY <1>2, <1>9, <2>3, <2>4 DEF RoutedUp
  <1> QED
    BY <1>6, <1>7, <1>11 DEF Routing

LEMMA RoutingTakesUp ==
    ASSUME RoutingInv, NEW seg, Takes("server", seg)
    PROVE  Routing'
  <1> DEFINE w == wire["client"]
             v == wire'["client"]
             tab == table["server"]
  <1>1. Peer("server") = "client" /\ "client" \in End /\ "server" \in End /\ "client" # "server"
    BY Ends DEF Peer
  <1>2. /\ UNCHANGED <<idOf, crossed>> /\ Fading
        /\ \A t \in Sockets : /\ t[1] = "client" => sok'[t].stage = sok[t].stage
                              /\ sok'[t].closed = sok[t].closed
        /\ seg = w[1] /\ 1 \in 1..Len(w)
        /\ seg.id \in Ids /\ seg.num \in 1..Len(idOf) /\ seg.id = idOf[seg.num]
        /\ wire'["server"] = wire["server"]
        /\ Len(v) = Len(w) - 1 /\ Len(w) \in Nat
        /\ \A k \in 1..Len(v) : k + 1 \in 1..Len(w) /\ v[k] = w[k + 1]
        /\ \/ seg.flag = "OPEN" /\ SetTo("server", seg.id, seg.num)
           \/ seg.flag \in {"DATA", "ICWD"} /\ table' = table
           \/ seg.flag = "CLOS" /\ SetTo("server", seg.id, 0)
        /\ seg.flag = "CLOS" => sok[<<"client", seg.num>>].closed
        /\ seg.flag = "CLOS" => \A k \in 1..Len(v) : v[k].num # seg.num
    <2>1. Delivered("server", "client", seg)
      BY <1>1, TakesFacts
    <2> QED
      BY <1>1, <2>1 DEF Delivered
  <1> HIDE DEF v
  <1>3. \A n \in 1..Len(idOf) : idOf[n] \in Ids /\ <<"client", n>> \in Sockets /\ n \in Nat
                                 /\ <<"server", n>> \in Sockets
    BY <1>1, NumFacts DEF RoutingInv
  <1>4. \A i \in Ids : table'["client"][i] = table["client"][i]
    BY <1>1, <1>2 DEF SetTo
  <1>5. LastSpeaks'
    <2>1. \A n \in 1..Len(idOf) : /\ sok'[<<"client", n>>].closed = sok[<<"client", n>>].closed
                                  /\ sok'[<<"server", n>>].closed = sok[<<"server", n>>].closed
                                  /\ table'["client"][idOf[n]] = table["client"][idOf[n]]
      BY <1>2, <1>3, <1>4
    <2> QED
      BY <1>2, <2>1 DEF RoutingInv, Routing, LastSpeaks
  <1>6. RoutedDown'
    <2>1. \A k \in 1..Len(wire["server"]) : wire["server"][k].id \in Ids
      BY <1>1, SegmentSocket DEF RoutingInv
    <2> QED
      BY <1>2, <1>4, <2>1 DEF RoutingInv, Routing, RoutedDown
  <1>7. \A k \in 1..Len(w) : w[k].id \in Ids /\ w[k].num \in 1..Len(idOf) /\ w[k].num \in Nat
                             /\ w[k].id = idOf[w[k].num]
    BY <1>1, <1>3, SegmentSocket DEF RoutingInv
  <1>8. \A i \in Ids : tab[i] \in Nat
    BY <1>1 DEF RoutingInv, TypeInv, Types
  <1>up. /\ \A j, k \in 1..Len(w) :
              j < k /\ w[j].id = w[k].id /\ w[j].id \notin crossed => w[j].num <= w[k].num
         /\ \A k \in 1..Len(w) : w[k].id \notin crossed =>
              /\ tab[w[k].id] <= w[k].num
              /\ \/ w[k].flag = "OPEN"
                 \/ tab[w[k].id] = w[k].num
                 \/ \E j \in 1..(k - 1) : OpenAt(w, w[k].num, j)
         /\ Carries("client") => \A n \in 1..Len(idOf) :
              idOf[n] \notin crossed /\ sok[<<"client", n>>].stage = "open"
                /\ ~sok[<<"client", n>>].closed
                => tab[idOf[n]] = n \/ \E j \in 1..Len(w) : OpenAt(w, n, j)
    BY DEF RoutingInv, Routing, RoutedUp
  <1> HIDE DEF w, tab
  \* What the table has at the id of the head
  <1>9. seg.id \notin crossed =>
          tab[seg.id] <= seg.num /\ (seg.flag # "OPEN" => tab[seg.id] = seg.num)
    BY <1>2, <1>up
  <1>10. \A i \in Ids : i # seg.id => table'["server"][i] = tab[i]
    BY <1>1, <1>2 DEF SetTo, tab
  <1>11. /\ seg.flag = "OPEN" => table'["server"][seg.id] = seg.num
         /\ seg.flag \in {"DATA", "ICWD"} => table'["server"][seg.id] = tab[seg.id]
         /\ seg.flag = "CLOS" => table'["server"][seg.id] = 0
         /\ seg.flag \in {"OPEN", "DATA", "ICWD", "CLOS"}
    BY <1>1, <1>2 DEF SetTo, tab
  <1>12. ASSUME NEW j \in 1..Len(v), NEW k \in 1..Len(v), j < k,
                v[j].id = v[k].id, v[j].id \notin crossed
         PROVE  v[j].num <= v[k].num
    <2>1. /\ j + 1 \in 1..Len(w) /\ v[j] = w[j + 1]
          /\ k + 1 \in 1..Len(w) /\ v[k] = w[k + 1] /\ j + 1 < k + 1
      BY <1>2, <1>12
    <2> QED
      BY <1>up, <1>12, <2>1
  <1>13. ASSUME NEW k \in 1..Len(v), v[k].id \notin crossed
         PROVE  /\ table'["server"][v[k].id] <= v[k].num
                /\ \/ v[k].flag = "OPEN"
                   \/ table'["server"][v[k].id] = v[k].num
                   \/ \E j \in 1..(k - 1) : OpenAt(v, v[k].num, j)
    <2> DEFINE b == w[k + 1]
    <2>1. /\ k + 1 \in 1..Len(w) /\ v[k] = b /\ k \in Nat /\ 1 < k + 1
          /\ b.id \in Ids /\ b.num \in Nat /\ b.id = idOf[b.num]
      BY <1>2, <1>7
    <2>2. /\ tab[b.id] <= b.num
          /\ \/ b.flag = "OPEN"
             \/ tab[b.id] = b.num
             \/ OpenAt(w, b.num, 1)
             \/ \E j \in 1..(k - 1) : OpenAt(v, b.num, j)
      <3>1. ASSUME NEW j \in 1..k, OpenAt(w, b.num, j), j # 1
            PROVE  \E i \in 1..(k - 1) : OpenAt(v, b.num, i)
        <4>1. j - 1 \in 1..(k - 1) /\ j - 1 \in 1..Len(v) /\ (j - 1) + 1 = j
          BY <2>1, <3>1
        <4>2. v[j - 1] = w[j]
          BY <1>2, <4>1
        <4> QED
          BY <3>1, <4>1, <4>2 DEF OpenAt
      <3>2. (k + 1) - 1 = k
        BY <2>1
      <3>3. /\ tab[b.id] <= b.num
            /\ \/ b.flag = "OPEN"
               \/ tab[b.id] = b.num
               \/ \E j \in 1..k : OpenAt(w, b.num, j)
        BY <1>13, <1>up, <2>1, <3>2
      <3> QED
        BY <3>1, <3>3
    <2>3. OpenAt(w, b.num, 1) => seg.flag = "OPEN" /\ b.num = seg.num /\ b.id = seg.id
      BY <1>2, <2>1 DEF OpenAt
    <2> HIDE DEF b
    <2>4. CASE b.id # seg.id
      BY <1>10, <2>1, <2>2, <2>3, <2>4
    <2>5. CASE b.id = seg.id
      <3>1. seg.num <= b.num /\ seg.num \in Nat /\ tab[b.id] \in Nat
            /\ tab[b.id] <= seg.num /\ (seg.flag # "OPEN" => tab[b.id] = seg.num)
        BY <1>2, <1>3, <1>8, <1>9, <1>13, <1>up, <2>1, <2>5 DEF b
      <3>2. CASE seg.flag = "OPEN"
        BY <1>11, <2>1, <2>2, <2>3, <2>5, <3>1, <3>2
      <3>3. CASE seg.flag \in {"DATA", "ICWD"}
        BY <1>11, <2>1, <2>2, <2>3, <2>5, <3>1, <3>3
      <3>4. CASE seg.flag = "CLOS"
        <4>1. b.num # seg.num
          BY <1>2, <2>1, <3>4
        <4> QED
          BY <1>11, <2>1, <2>2, <2>3, <2>5, <3>1, <3>4, <4>1
      <3> QED
        BY <1>11, <3>2, <3>3, <3>4
    <2> QED
      BY <2>4, <2>5
  <1>14. ASSUME Carries("client")', NEW n \in 1..Len(idOf), idOf[n] \notin crossed,
                sok'[<<"client", n>>].stage = "open", ~sok'[<<"client", n>>].closed
         PROVE  \/ table'["server"][idOf[n]] = n
                \/ \E j \in 1..Len(v) : OpenAt(v, n, j)
    <2>1. sok[<<"client", n>>].stage = "open" /\ ~sok[<<"client", n>>].closed
      BY <1>2, <1>3, <1>14
    <2>2. Carries("client")
      BY <1>1, <1>2, <1>14 DEF Fading
    <2>3. tab[idOf[n]] = n \/ \E j \in 1..Len(w) : OpenAt(w, n, j)
      BY <1>14, <1>up, <2>1, <2>2
    <2>4. ASSUME NEW j \in 1..Len(w), OpenAt(w, n, j), j # 1
          PROVE  \E i \in 1..Len(v) : OpenAt(v, n, i)
      <3>1. j - 1 \in 1..Len(v) /\ (j - 1) + 1 = j
        BY <1>2, <2>4
      <3>2. v[j - 1] = w[j]
        BY <1>2, <3>1
      <3> QED
        BY <2>4, <3>1, <3>2 DEF OpenAt
    <2>5. OpenAt(w, n, 1) => seg.flag = "OPEN" /\ seg.num = n /\ seg.id = idOf[n]
      BY <1>2 DEF OpenAt
    <2>6. ASSUME tab[idOf[n]] = n PROVE table'["server"][idOf[n]] = n
      <3>1. CASE idOf[n] # seg.id
        BY <1>3, <1>10, <2>6, <3>1
      <3>2. CASE idOf[n] = seg.id
        <4>1. seg.num = n
          <5>1. n <= seg.num /\ n \in Nat /\ seg.num \in Nat
            BY <1>2, <1>3, <1>9, <1>14, <2>6, <3>2
          <5>2. ~(n < seg.num)
            BY <1>2, <1>14, <2>1, <3>2 DEF RoutingInv, Routing, LastSpeaks
          <5> QED
            BY <5>1, <5>2
        <4>2. seg.flag # "CLOS"
          BY <1>2, <2>1, <4>1
        <4> QED
          BY <1>11, <2>6, <3>2, <4>1, <4>2
      <3> QED
        BY <3>1, <3>2
    <2> QED
      BY <1>11, <2>3, <2>4, <2>5, <2>6
  <1>15. RoutedUp'
    <2>1. v = wire'["client"]
      BY DEF v
    <2> QED
      BY <1>2, <1>12, <1>13, <1>14, <2>1 DEF RoutedUp
  <1> QED
    BY <1>5, <1>6, <1>15 DEF Routing

LEMMA RoutingReserves ==
    ASSUME RoutingInv, TypeInv', NEW i \in Ids, Reserves(i)
    PROVE  Routing'
  <1> DEFINE n == Len(idOf) + 1
             c == <<"client", n>>
  <1>1. /\ table["client"][i] = 0 /\ UNCHANGED <<wire, ctx, cut>>
        /\ SetTo("client", i, n) /\ idOf' = Append(idOf, i)
        /\ sok'[c].stage = "reserved"
        /\ \A t \in Sockets \ {c} : sok'[t] = sok[t]
        /\ \A j \in crossed : j \in crossed'
        /\ i \notin crossed' =>
             \A k \in 1..Len(idOf) : idOf[k] = i => sok[<<"client", k>>].closed
    <2>1. sok'[c].stage = "reserved"
      BY DEF Reserves, NewSocket
    <2> QED
      BY <2>1 DEF Reserves
  <1>2. Len(idOf) \in Nat /\ n \in Nat /\ n > Len(idOf)
    BY NumFacts DEF RoutingInv
  <1>3. /\ Len(idOf') = n /\ idOf'[n] = i /\ \A k \in 1..Len(idOf) : idOf'[k] = idOf[k]
    <2>1. idOf \in Seq(Ids)
      BY DEF RoutingInv, TypeInv, Types
    <2> QED
      BY <1>1, <2>1, AppendProperties
  <1>4. \A k \in 1..Len(idOf) :
          /\ k # n /\ idOf[k] \in Ids
          /\ sok'[<<"client", k>>] = sok[<<"client", k>>]
          /\ sok'[<<"server", k>>] = sok[<<"server", k>>]
    <2>1. \A k \in 1..Len(idOf) :
            /\ k # n /\ idOf[k] \in Ids
            /\ <<"client", k>> \in Sockets \ {c} /\ <<"server", k>> \in Sockets \ {c}
      BY <1>2, Ends, NumFacts DEF RoutingInv
    <2> HIDE DEF c
    <2> QED
      BY <1>1, <2>1
  <1> HIDE DEF n, c
  <1>5. \A k \in 1..n : k \in 1..Len(idOf) \/ k = n
    BY <1>2 DEF n
  <1>6. /\ table'["client"][i] = n /\ \A j \in Ids \ {i} : table'["client"][j] = table["client"][j]
        /\ \A j \in Ids : table'["server"][j] = table["server"][j]
    BY <1>1, Ends DEF SetTo
  <1>7. ASSUME NEW k \in 1..n, NEW m \in 1..n, m < k, idOf'[m] = idOf'[k], idOf'[k] \notin crossed'
        PROVE  sok'[<<"client", m>>].closed
    <2>1. m \in 1..Len(idOf)
      BY <1>2, <1>7 DEF n
    <2>2. CASE k \in 1..Len(idOf)
      BY <1>1, <1>3, <1>4, <1>7, <2>1, <2>2 DEF RoutingInv, Routing, LastSpeaks
    <2>3. CASE k = n
      BY <1>1, <1>3, <1>4, <1>7, <2>1, <2>3
    <2> QED
      BY <1>5, <2>2, <2>3
  <1>8. ASSUME NEW k \in 1..n, idOf'[k] \notin crossed', ~sok'[<<"server", k>>].closed
        PROVE  table'["client"][idOf'[k]] = k
    <2>1. CASE k \in 1..Len(idOf)
      <3>1. idOf'[k] = idOf[k] /\ idOf[k] \in Ids /\ idOf[k] \notin crossed
        BY <1>1, <1>3, <1>4, <1>8, <2>1
      <3>2. ~sok[<<"server", k>>].closed
        BY <1>4, <1>8, <2>1
      <3>3. table["client"][idOf[k]] = k
        BY <2>1, <3>1, <3>2 DEF RoutingInv, Routing, LastSpeaks
      <3>4. k # 0
        BY <1>2, <2>1
      <3>5. idOf[k] # i
        BY <1>1, <3>3, <3>4
      <3> QED
        BY <1>6, <3>1, <3>3, <3>5
    <2>2. CASE k = n
      BY <1>3, <1>6, <2>2
    <2> QED
      BY <1>5, <2>1, <2>2
  <1>9. LastSpeaks'
    BY <1>3, <1>7, <1>8 DEF LastSpeaks
  <1>10. RoutedDown'
    <2> SUFFICES ASSUME NEW k \in 1..Len(wire["server"]), wire["server"][k].id \notin crossed'
                 PROVE  table'["client"][wire["server"][k].id] = wire["server"][k].num
      BY <1>1 DEF RoutedDown
    <2>1. /\ wire["server"][k].id \in Ids /\ wire["server"][k].num \in 1..Len(idOf)
      BY Ends, SegmentSocket DEF RoutingInv
    <2>2. table["client"][wire["server"][k].id] = wire["server"][k].num
      BY <1>1 DEF RoutingInv, Routing, RoutedDown
    <2>3. wire["server"][k].id # i
      BY <1>1, <1>2, <2>1, <2>2
    <2> QED
      BY <1>6, <2>1, <2>2, <2>3
  <1>11. \A k \in 1..Len(wire["client"]) : wire["client"][k].id \in Ids
    BY Ends, SegmentSocket DEF RoutingInv
  <1>12. ASSUME NEW k \in 1..n, idOf'[k] \notin crossed', Carries("client")',
                sok'[<<"client", k>>].stage = "open", ~sok'[<<"client", k>>].closed
         PROVE  \/ table'["server"][idOf'[k]] = k
                \/ \E j \in 1..Len(wire["client"]) : OpenAt(wire["client"], k, j)
    <2>1. k # n
      BY <1>1, <1>12 DEF c
    <2>2. k \in 1..Len(idOf)
      BY <1>5, <2>1
    <2>3. Carries("client")
      BY <1>1, <1>12 DEF Carries
    <2>4. idOf'[k] = idOf[k] /\ idOf[k] \in Ids /\ idOf[k] \notin crossed
      BY <1>1, <1>3, <1>4, <1>12, <2>2
    <2>5. sok[<<"client", k>>].stage = "open" /\ ~sok[<<"client", k>>].closed
      BY <1>4, <1>12, <2>2
    <2>6. \/ table["server"][idOf[k]] = k
          \/ \E j \in 1..Len(wire["client"]) : OpenAt(wire["client"], k, j)
      BY <2>2, <2>3, <2>4, <2>5 DEF RoutingInv, Routing, RoutedUp
    <2> QED
      BY <1>6, <2>4, <2>6
  <1>13. RoutedUp'
    <2>1. RoutedUp
      BY DEF RoutingInv, Routing
    <2>2. \A k \in 1..Len(wire["client"]) :
            table'["server"][wire["client"][k].id] = table["server"][wire["client"][k].id]
      BY <1>6, <1>11
    <2>3. \A k \in 1..Len(wire["client"]) : wire["client"][k].id \notin crossed' =>
                   wire["client"][k].id \notin crossed
      BY <1>1
    <2> QED
      BY <1>1, <1>3, <1>12, <2>1, <2>2, <2>3 DEF RoutedUp
  <1> QED
    BY <1>9, <1>10, <1>13 DEF Routing

LEMMA RoutingStep ==
    ASSUME RoutingInv, [Next]_vars
    PROVE  RoutingInv'
  <1>1. TypeInv' /\ Silence' /\ AtWork'
    BY Steps, SilenceStep, AtWorkStep DEF RoutingInv
  <1>2. CASE Quiet
    <2>1. /\ UNCHANGED <<idOf, table, wire, crossed>>
          /\ Carries("client")' => Carries("client")
          /\ \A t \in Sockets : /\ t[1] = "client" => sok'[t].stage = sok[t].stage
                                /\ sok'[t].closed = sok[t].closed
      BY <1>2, Ends DEF Quiet, Fading, Still
    <2> QED
      BY <1>1, <2>1, RoutingKept DEF RoutingInv
  <1>3. ASSUME NEW s \in Sockets, Reads(s) PROVE RoutingInv'
    <2>1. /\ UNCHANGED <<idOf, table, wire, crossed>>
          /\ Carries("client")' => Carries("client")
          /\ \A t \in Sockets : /\ t[1] = "client" => sok'[t].stage = sok[t].stage
                                /\ sok'[t].closed = sok[t].closed
      BY <1>3, Ends DEF Reads, Carries, Still
    <2> QED
      BY <1>1, <2>1, RoutingKept DEF RoutingInv
  <1>4. ASSUME NEW s \in Sockets, NEW seg, Sends(s, seg) PROVE RoutingInv'
    BY <1>1, <1>4, RoutingSends DEF RoutingInv
  <1>5. ASSUME NEW e \in End, NEW seg, Takes(e, seg) PROVE RoutingInv'
    <2>1. e = "client" \/ e = "server"
      BY DEF End
    <2> QED
      BY <1>1, <1>5, <2>1, RoutingTakesDown, RoutingTakesUp DEF RoutingInv
  <1>6. ASSUME NEW i \in Ids, Reserves(i) PROVE RoutingInv'
    BY <1>1, <1>6, RoutingReserves DEF RoutingInv
  <1>7. \/ Quiet
        \/ \E s \in Sockets : Reads(s) \/ \E seg : Sends(s, seg)
        \/ \E e \in End : \E seg : Takes(e, seg)
        \/ \E i \in Ids : Reserves(i)
    BY Steps DEF RoutingInv
  <1> QED
    BY <1>2, <1>3, <1>4, <1>5, <1>6, <1>7

-----------------------------------------------------------------------------
(* What comes to a socket *)

LEMMA SocketLengths ==
    ASSUME NEW r \in SocketRec
    PROVE  Len(r.got) \in Nat /\ Len(r.incoming) \in Nat
  <1>1. r.got \in Seq(Nums \X Nat) /\ r.incoming \in Seq(SegmentRec)
    BY DEF SocketRec
  <1>2. Len(r.got) \in Nat
    BY <1>1, LenProperties
  <1>3. Len(r.incoming) \in Nat
    BY <1>1, LenProperties
  <1> QED
    BY <1>2, <1>3

\* A Read takes socket r to q.
ReadOff(r, q) ==
    /\ Len(r.incoming) > 0
    /\ Len(q.incoming) = Len(r.incoming) - 1
    /\ \A k \in 1..(Len(r.incoming) - 1) : q.incoming[k] = r.incoming[k + 1]
    /\ Len(q.got) = Len(r.got) + 1
    /\ \A k \in 1..Len(r.got) : q.got[k] = r.got[k]
    /\ \/ /\ r.incoming[1].flag = "DATA"
          /\ q.got[Len(r.got) + 1] = <<r.incoming[1].num, r.incoming[1].pos>>
       \/ /\ r.incoming[1].flag = "CLOS"
          /\ q.got[Len(r.got) + 1] = <<r.incoming[1].num, 0>>

\* A Read moves what has come, and changes neither how much that is nor whether
\* it is all.
LEMMA ReadKeeps ==
    ASSUME NEW r \in SocketRec, NEW q \in SocketRec, NEW p \in SocketRec, NEW n \in Nat,
           Received(r, p, n), ReadOff(r, q)
    PROVE  Received(q, p, n) /\ Arrived(q) = Arrived(r) /\ (Ended(q) <=> Ended(r))
  <1>1. PICK G \in Nat, I \in Nat :
          /\ Len(r.got) = G /\ Len(r.incoming) = I /\ I > 0
          /\ Len(q.got) = G + 1 /\ Len(q.incoming) = I - 1
    BY SocketLengths DEF ReadOff
  <1>0. /\ \A k \in 1..(I - 1) : q.incoming[k] = r.incoming[k + 1]
        /\ \A k \in 1..G : q.got[k] = r.got[k]
        /\ \/ /\ r.incoming[1].flag = "DATA"
              /\ q.got[G + 1] = <<r.incoming[1].num, r.incoming[1].pos>>
           \/ /\ r.incoming[1].flag = "CLOS"
              /\ q.got[G + 1] = <<r.incoming[1].num, 0>>
    BY <1>1 DEF ReadOff
  <1>2. Arrived(q) = Arrived(r)
    <2>1. Arrived(r) = G + I /\ Arrived(q) = (G + 1) + (I - 1)
      BY <1>1 DEF Arrived
    <2> QED
      BY <2>1
  <1>3. /\ \A k \in 1..G : r.got[k] = <<n, k>>
        /\ \A k \in 1..I :
             /\ r.incoming[k].num = n
             /\ \/ r.incoming[k].flag = "DATA" /\ r.incoming[k].pos = G + k
                \/ r.incoming[k].flag = "CLOS" /\ k = I
    BY <1>1 DEF Received
  <1>4. 1 \in 1..I /\ I \in 1..I /\ G + 1 \in 1..(G + 1)
    BY <1>1
  <1>5. \/ r.incoming[1].flag = "DATA" /\ q.got[G + 1] = <<n, G + 1>>
        \/ r.incoming[1].flag = "CLOS" /\ I = 1 /\ q.got[G + 1] = <<n, 0>>
    <2>1. r.incoming[1].num = n /\ (r.incoming[1].flag = "DATA" => r.incoming[1].pos = G + 1)
      BY <1>3, <1>4
    <2>2. r.incoming[1].flag = "CLOS" => I = 1
      BY <1>3, <1>4
    <2> QED
      BY <1>0, <2>1, <2>2
  <1>6. Ended(r) <=> r.incoming[I].flag = "CLOS"
    <2>1. ASSUME G > 0 PROVE r.got[G][2] # 0
      <3>1. G \in 1..G
        BY <2>1
      <3>2. r.got[G] = <<n, G>>
        BY <1>3, <3>1
      <3> QED
        BY <2>1, <3>2
    <2> QED
      BY <1>1, <2>1 DEF Ended
  <1>7. Ended(q) <=> q.got[G + 1][2] = 0 \/ (I > 1 /\ q.incoming[I - 1].flag = "CLOS")
    BY <1>1 DEF Ended
  <1>8. I > 1 => q.incoming[I - 1] = r.incoming[I]
    <2>1. I > 1 => I - 1 \in 1..(I - 1) /\ (I - 1) + 1 = I
      OBVIOUS
    <2> QED
      BY <1>0, <2>1
  <1>9. CASE r.incoming[1].flag = "DATA" /\ q.got[G + 1] = <<n, G + 1>>
    <2>1. q.got[G + 1][2] # 0
      BY <1>1, <1>9
    <2>2. Ended(q) <=> Ended(r)
      BY <1>1, <1>6, <1>7, <1>8, <1>9, <2>1
    <2>3. \A k \in 1..(G + 1) : q.got[k] = <<n, k>>
      <3>1. \A k \in 1..(G + 1) : k \in 1..G \/ k = G + 1
        OBVIOUS
      <3>2. \A k \in 1..G : q.got[k] = <<n, k>>
        BY <1>0, <1>3
      <3> QED
        BY <1>9, <3>1, <3>2
    <2>4. ASSUME NEW k \in 1..(I - 1)
          PROVE  /\ q.incoming[k].num = n
                 /\ \/ q.incoming[k].flag = "DATA" /\ q.incoming[k].pos = (G + 1) + k
                    \/ q.incoming[k].flag = "CLOS" /\ k = I - 1
      <3>1. q.incoming[k] = r.incoming[k + 1]
        BY <1>0
      <3>2. k + 1 \in 1..I /\ G + (k + 1) = (G + 1) + k /\ (k + 1 = I => k = I - 1)
        OBVIOUS
      <3> QED
        BY <1>3, <3>1, <3>2
    <2>5. Received(q, p, n)
      BY <1>1, <1>2, <2>2, <2>3, <2>4 DEF Received
    <2> QED
      BY <1>2, <2>2, <2>5
  <1>10. CASE r.incoming[1].flag = "CLOS" /\ I = 1 /\ q.got[G + 1] = <<n, 0>>
    <2>1. Ended(q) /\ Ended(r)
      BY <1>6, <1>7, <1>10
    <2>2. \A k \in 1..(G + 1) : q.got[k] = <<n, k>> \/ (q.got[k] = <<n, 0>> /\ k = G + 1)
      BY <1>0, <1>1, <1>3, <1>10
    <2>3. Received(q, p, n)
      BY <1>1, <1>2, <1>10, <2>1, <2>2 DEF Received
    <2> QED
      BY <1>2, <2>1, <2>3
  <1> QED
    BY <1>5, <1>9, <1>10

\* Neither DATA nor CLOS of tunnel n
Alien(x, n) == ~(x.num = n /\ x.flag \in {"DATA", "CLOS"})

\* What does not concern a tunnel may be written behind what is to come ...
LEMMA ComingBeforeAlien ==
    ASSUME NEW r, NEW sent, NEW w \in Seq(SegmentRec), NEW n, NEW c,
           NEW x \in SegmentRec, Alien(x, n), Coming(r, sent, w, n, c)
    PROVE  Coming(r, sent, Append(w, x), n, c)
  <1> DEFINE v == Append(w, x)
  <1>1. /\ Len(w) \in Nat /\ Len(v) = Len(w) + 1
        /\ \A k \in 1..Len(w) : k \in 1..Len(v) /\ v[k] = w[k]
        /\ v[Len(w) + 1] = x
    BY AppendProperties
  <1> HIDE DEF v
  <1>2. \A k \in 1..Len(v) : Data(v, n, k) \/ (v[k].flag = "CLOS" /\ v[k].num = n)
          => k \in 1..Len(w) /\ v[k] = w[k]
    BY <1>1 DEF Alien, Data
  <1>3. \A k \in 1..Len(w) : Data(v, n, k) <=> Data(w, n, k)
    BY <1>1 DEF Data
  <1>4. CASE Ended(r)
    <2>1. \A k \in 1..Len(v) : v[k].num = n => v[k].flag \notin {"DATA", "CLOS"}
      BY <1>2, <1>4 DEF Coming, Data
    <2> QED
      BY <1>4, <2>1 DEF Coming, v
  <1>5. CASE ~Ended(r)
    <2>1. ASSUME NEW k \in Nat, k <= Len(w), NEW i, UpTo(r, w, n, k, i) PROVE UpTo(r, v, n, k, i)
      <3>1. \A j \in 1..k : j \in 1..Len(w)
        BY <1>1, <2>1
      <3> QED
        BY <1>1, <1>3, <2>1, <3>1 DEF UpTo
    <2>2. ASSUME NEW i, UpTo(r, w, n, Len(w), i) PROVE UpTo(r, v, n, Len(v), i)
      BY <1>1, <1>3, <2>2 DEF UpTo
    <2>3. \A k \in 1..Len(w) : k - 1 \in Nat /\ k - 1 <= Len(w)
      BY <1>1
    <2>4. \A k \in 1..Len(v) : Data(v, n, k) =>
                /\ Arrived(r) < v[k].pos /\ v[k].pos <= sent
                /\ UpTo(r, v, n, k - 1, v[k].pos - 1)
      BY <1>2, <1>3, <1>5, <2>1, <2>3 DEF Coming
    <2>5. \A j, k \in 1..Len(v) :
                j < k /\ Data(v, n, j) /\ Data(v, n, k) => v[j].pos < v[k].pos
      BY <1>2, <1>3, <1>5 DEF Coming
    <2>6. \A k \in 1..Len(v) :
                v[k].flag = "CLOS" /\ v[k].num = n => UpTo(r, v, n, k - 1, sent)
      BY <1>2, <1>5, <2>1, <2>3 DEF Coming
    <2>7. c => UpTo(r, v, n, Len(v), sent)
      BY <1>5, <2>2 DEF Coming
    <2> QED
      BY <1>5, <2>4, <2>5, <2>6, <2>7 DEF Coming, v
  <1> QED
    BY <1>4, <1>5

\* ... and so may CLOS, when all that its writer has sent is out ...
LEMMA ComingBeforeClos ==
    ASSUME NEW r, NEW sent, NEW w \in Seq(SegmentRec), NEW n,
           NEW x \in SegmentRec, x.flag = "CLOS", x.num = n,
           ~Ended(r), Coming(r, sent, w, n, TRUE)
    PROVE  Coming(r, sent, Append(w, x), n, TRUE)
  <1> DEFINE v == Append(w, x)
  <1>1. /\ Len(w) \in Nat /\ Len(v) = Len(w) + 1
        /\ \A k \in 1..Len(w) : k \in 1..Len(v) /\ v[k] = w[k]
        /\ v[Len(w) + 1] = x
        /\ \A k \in 1..Len(v) : k \in 1..Len(w) \/ k = Len(w) + 1
    BY AppendProperties
  <1> HIDE DEF v
  <1>2. \A k \in 1..Len(v) : Data(v, n, k) => k \in 1..Len(w) /\ v[k] = w[k]
    BY <1>1 DEF Data
  <1>3. \A k \in 1..Len(w) : Data(v, n, k) <=> Data(w, n, k)
    BY <1>1 DEF Data
  <1>4. ASSUME NEW k \in Nat, k <= Len(w), NEW i, UpTo(r, w, n, k, i) PROVE UpTo(r, v, n, k, i)
    <2>1. \A j \in 1..k : j \in 1..Len(w)
      BY <1>1, <1>4
    <2> QED
      BY <1>1, <1>3, <1>4, <2>1 DEF UpTo
  <1>5. \A k \in 1..Len(w) : k - 1 \in Nat /\ k - 1 <= Len(w)
    BY <1>1
  <1>6. \A k \in 1..Len(v) : Data(v, n, k) =>
              /\ Arrived(r) < v[k].pos /\ v[k].pos <= sent
              /\ UpTo(r, v, n, k - 1, v[k].pos - 1)
    BY <1>2, <1>3, <1>4, <1>5 DEF Coming
  <1>7. \A j, k \in 1..Len(v) :
              j < k /\ Data(v, n, j) /\ Data(v, n, k) => v[j].pos < v[k].pos
    BY <1>2, <1>3 DEF Coming
  <1>8. UpTo(r, v, n, Len(w), sent)
    BY <1>1, <1>4 DEF Coming
  <1>9. UpTo(r, v, n, Len(v), sent)
    BY <1>1, <1>8 DEF UpTo
  <1>10. \A k \in 1..Len(v) :
              v[k].flag = "CLOS" /\ v[k].num = n => UpTo(r, v, n, k - 1, sent)
    <2>1. \A k \in 1..Len(w) :
              v[k].flag = "CLOS" /\ v[k].num = n => UpTo(r, v, n, k - 1, sent)
      BY <1>1, <1>4, <1>5 DEF Coming
    <2>2. (Len(w) + 1) - 1 = Len(w)
      BY <1>1
    <2> QED
      BY <1>1, <1>8, <2>1, <2>2
  <1> QED
    BY <1>6, <1>7, <1>9, <1>10 DEF Coming, v

\* ... and the next DATA of the tunnel, as long as no CLOS of it is out.
LEMMA ComingBeforeData ==
    ASSUME NEW r \in SocketRec, NEW sent \in Nat, NEW w \in Seq(SegmentRec), NEW n,
           NEW x \in SegmentRec, x.flag = "DATA", x.num = n, x.pos = sent + 1,
           ~Ended(r), Arrived(r) <= sent, Coming(r, sent, w, n, TRUE),
           \A k \in 1..Len(w) : w[k].flag = "CLOS" => w[k].num # n
    PROVE  Coming(r, sent + 1, Append(w, x), n, TRUE)
  <1> DEFINE v == Append(w, x)
  <1>1. /\ Len(w) \in Nat /\ Len(v) = Len(w) + 1
        /\ \A k \in 1..Len(w) : k \in 1..Len(v) /\ v[k] = w[k]
        /\ v[Len(w) + 1] = x /\ Len(w) + 1 \in 1..Len(v)
        /\ \A k \in 1..Len(v) : k \in 1..Len(w) \/ k = Len(w) + 1
        /\ \A k \in 1..Len(w) : w[k].pos \in Nat
    <2>1. \A k \in 1..Len(w) : w[k].pos \in Nat
      <3>1. \A k \in 1..Len(w) : w[k] \in SegmentRec
        OBVIOUS
      <3> QED
        BY <3>1 DEF SegmentRec
    <2> QED
      BY <2>1, AppendProperties
  <1> HIDE DEF v
  <1>2. Arrived(r) \in Nat
    BY DEF Arrived, SocketRec
  <1>3. \A k \in 1..Len(w) : Data(v, n, k) <=> Data(w, n, k)
    BY <1>1 DEF Data
  <1>4. ASSUME NEW k \in Nat, k <= Len(w), NEW i, UpTo(r, w, n, k, i) PROVE UpTo(r, v, n, k, i)
    <2>1. \A j \in 1..k : j \in 1..Len(w)
      BY <1>1, <1>4
    <2> QED
      BY <1>1, <1>3, <1>4, <2>1 DEF UpTo
  <1>5. \A k \in 1..Len(w) : k - 1 \in Nat /\ k - 1 <= Len(w)
    BY <1>1
  <1>6. UpTo(r, v, n, Len(w), sent)
    BY <1>1, <1>4 DEF Coming
  <1>7. ASSUME NEW k \in 1..Len(v), Data(v, n, k)
        PROVE  /\ Arrived(r) < v[k].pos /\ v[k].pos <= sent + 1
               /\ UpTo(r, v, n, k - 1, v[k].pos - 1)
    <2>1. CASE k \in 1..Len(w)
      <3>1. /\ Arrived(r) < w[k].pos /\ w[k].pos <= sent
            /\ UpTo(r, w, n, k - 1, w[k].pos - 1)
        BY <1>3, <1>7, <2>1 DEF Coming
      <3>2. v[k].pos = w[k].pos /\ w[k].pos \in Nat
        BY <1>1, <2>1
      <3> QED
        BY <1>4, <1>5, <2>1, <3>1, <3>2
    <2>2. CASE k = Len(w) + 1
      <3>1. v[k].pos = sent + 1 /\ v[k].pos - 1 = sent /\ k - 1 = Len(w)
        BY <1>1, <2>2
      <3> QED
        BY <1>2, <1>6, <3>1
    <2> QED
      BY <1>1, <2>1, <2>2
  <1>8. ASSUME NEW j \in 1..Len(v), NEW k \in 1..Len(v), j < k, Data(v, n, j), Data(v, n, k)
        PROVE  v[j].pos < v[k].pos
    <2>1. j \in 1..Len(w)
      BY <1>1, <1>8
    <2>2. CASE k \in 1..Len(w)
      BY <1>1, <1>3, <1>8, <2>1, <2>2 DEF Coming
    <2>3. CASE k = Len(w) + 1
      <3>1. w[j].pos <= sent /\ v[j].pos = w[j].pos /\ w[j].pos \in Nat /\ v[k].pos = sent + 1
        BY <1>1, <1>3, <1>8, <2>1, <2>3 DEF Coming
      <3> QED
        BY <3>1
    <2> QED
      BY <1>1, <2>2, <2>3
  <1>9. \A k \in 1..Len(v) :
              v[k].flag = "CLOS" /\ v[k].num = n => UpTo(r, v, n, k - 1, sent + 1)
    BY <1>1
  <1>10. UpTo(r, v, n, Len(v), sent + 1)
    BY <1>1 DEF UpTo, Data
  <1> QED
    BY <1>7, <1>8, <1>9, <1>10 DEF Coming, v

\* DATA that is packed to a wire which carries nothing any more
LEMMA ComingLost ==
    ASSUME NEW r, NEW sent \in Nat, NEW w \in Seq(SegmentRec), NEW n, ~Ended(r),
           Coming(r, sent, w, n, FALSE),
           \A k \in 1..Len(w) : w[k].flag = "CLOS" => w[k].num # n
    PROVE  Coming(r, sent + 1, w, n, FALSE)
  <1>1. \A k \in 1..Len(w) : w[k].pos \in Nat
    <2>1. \A k \in 1..Len(w) : w[k] \in SegmentRec
      OBVIOUS
    <2> QED
      BY <2>1 DEF SegmentRec
  <1>2. \A k \in 1..Len(w) : w[k].pos <= sent => w[k].pos <= sent + 1
    BY <1>1
  <1> QED
    BY <1>2 DEF Coming

\* What does not concern a tunnel may be taken off the wire before the rest ...
LEMMA ComingBehindAlien ==
    ASSUME NEW r, NEW sent, NEW w \in Seq(SegmentRec), NEW v \in Seq(SegmentRec), NEW n, NEW c,
           Len(w) > 0, Len(v) = Len(w) - 1, \A k \in 1..Len(v) : v[k] = w[k + 1],
           Alien(w[1], n), Coming(r, sent, w, n, c)
    PROVE  Coming(r, sent, v, n, c)
  <1>1. PICK N \in Nat : Len(v) = N /\ Len(w) = N + 1
    OBVIOUS
  <1>2. \A k \in 1..N : k + 1 \in 1..(N + 1) /\ v[k] = w[k + 1] /\ (k + 1) - 1 = k
    BY <1>1
  <1>3. \A k \in 1..N : Data(v, n, k) <=> Data(w, n, k + 1)
    BY <1>2 DEF Data
  <1>4. CASE Ended(r)
    <2>1. \A k \in 1..N : v[k].num = n => v[k].flag \notin {"DATA", "CLOS"}
      BY <1>1, <1>2, <1>4 DEF Coming
    <2> QED
      BY <1>1, <1>4, <2>1 DEF Coming
  <1>5. CASE ~Ended(r)
    <2>1. ASSUME NEW k \in Nat, k <= N, NEW i, UpTo(r, w, n, k + 1, i) PROVE UpTo(r, v, n, k, i)
      <3>1. CASE i = Arrived(r)
        BY <3>1 DEF UpTo
      <3>2. ASSUME NEW j \in 1..(k + 1), Data(w, n, j), w[j].pos = i PROVE UpTo(r, v, n, k, i)
        <4>1. j # 1
          BY <3>2 DEF Alien, Data
        <4>2. j - 1 \in 1..k /\ j - 1 \in 1..N /\ (j - 1) + 1 = j
          BY <2>1, <3>2, <4>1
        <4>3. v[j - 1] = w[j] /\ Data(v, n, j - 1)
          BY <1>2, <1>3, <3>2, <4>2
        <4> QED
          BY <3>2, <4>2, <4>3 DEF UpTo
      <3> QED
        BY <2>1, <3>1, <3>2 DEF UpTo
    <2>2. \A k \in 1..N : k - 1 \in Nat /\ k - 1 <= N /\ (k - 1) + 1 = k /\ (k + 1) - 1 = k
      BY <1>1
    <2>3. ASSUME NEW k \in 1..N, NEW i, UpTo(r, w, n, (k + 1) - 1, i)
          PROVE  UpTo(r, v, n, k - 1, i)
      BY <2>1, <2>2, <2>3
    <2>4. \A k \in 1..N : Data(v, n, k) =>
                /\ Arrived(r) < v[k].pos /\ v[k].pos <= sent
                /\ UpTo(r, v, n, k - 1, v[k].pos - 1)
      <3> SUFFICES ASSUME NEW k \in 1..N, Data(v, n, k)
                   PROVE  /\ Arrived(r) < v[k].pos /\ v[k].pos <= sent
                          /\ UpTo(r, v, n, k - 1, v[k].pos - 1)
        OBVIOUS
      <3>1. k + 1 \in 1..(N + 1) /\ v[k] = w[k + 1] /\ Data(w, n, k + 1)
        BY <1>2, <1>3
      <3>2. /\ Arrived(r) < w[k + 1].pos /\ w[k + 1].pos <= sent
            /\ UpTo(r, w, n, (k + 1) - 1, w[k + 1].pos - 1)
        BY <1>1, <1>5, <3>1 DEF Coming
      <3> QED
        BY <2>3, <3>1, <3>2
    <2>5. \A j, k \in 1..N :
                j < k /\ Data(v, n, j) /\ Data(v, n, k) => v[j].pos < v[k].pos
      <3> SUFFICES ASSUME NEW j \in 1..N, NEW k \in 1..N, j < k, Data(v, n, j), Data(v, n, k)
                   PROVE  v[j].pos < v[k].pos
        OBVIOUS
      <3>1. /\ j + 1 \in 1..(N + 1) /\ v[j] = w[j + 1] /\ Data(w, n, j + 1)
            /\ k + 1 \in 1..(N + 1) /\ v[k] = w[k + 1] /\ Data(w, n, k + 1) /\ j + 1 < k + 1
        BY <1>2, <1>3
      <3> QED
        BY <1>1, <1>5, <3>1 DEF Coming
    <2>6. \A k \in 1..N : v[k].flag = "CLOS" /\ v[k].num = n => UpTo(r, v, n, k - 1, sent)
      <3> SUFFICES ASSUME NEW k \in 1..N, v[k].flag = "CLOS", v[k].num = n
                   PROVE  UpTo(r, v, n, k - 1, sent)
        OBVIOUS
      <3>1. k + 1 \in 1..(N + 1) /\ v[k] = w[k + 1]
        BY <1>2
      <3>2. UpTo(r, w, n, (k + 1) - 1, sent)
        BY <1>1, <1>5, <3>1 DEF Coming
      <3> QED
        BY <2>3, <3>2
    <2>7. c => UpTo(r, v, n, N, sent)
      BY <1>1, <1>5, <2>1 DEF Coming
    <2> QED
      BY <1>1, <1>5, <2>4, <2>5, <2>6, <2>7 DEF Coming
  <1> QED
    BY <1>4, <1>5

\* What socket r, which becomes q, has been handed when x is queued for it
Queues(r, q, n, x) ==
    /\ Arrived(r) \in Nat /\ Arrived(q) = Arrived(r) + 1
    /\ Ended(q) <=> x.flag = "CLOS"
    /\ \A k \in 1..Len(q.got) : q.got[k] = <<n, k>>
    /\ \A k \in 1..Len(q.incoming) :
         \/ /\ k # Len(q.incoming) /\ q.incoming[k].num = n
            /\ q.incoming[k].flag = "DATA" /\ q.incoming[k].pos = Len(q.got) + k
         \/ /\ k = Len(q.incoming) /\ q.incoming[k] = x
            /\ Arrived(r) + 1 = Len(q.got) + k

LEMMA QueuedFacts ==
    ASSUME NEW r \in SocketRec, NEW q \in SocketRec, NEW p \in SocketRec, NEW n \in Nat,
           NEW x \in SegmentRec, Received(r, p, n), ~Ended(r),
           q.got = r.got, q.incoming = Append(r.incoming, x)
    PROVE  Queues(r, q, n, x)
  <1>1. r.got \in Seq(Nums \X Nat) /\ r.incoming \in Seq(SegmentRec)
    BY DEF SocketRec
  <1>2. PICK G \in Nat, I \in Nat : Len(r.got) = G /\ Len(r.incoming) = I
    BY SocketLengths
  <1>3. /\ Len(q.got) = G /\ Len(q.incoming) = I + 1 /\ q.incoming[I + 1] = x
        /\ \A k \in 1..I : q.incoming[k] = r.incoming[k]
    BY <1>1, <1>2, AppendProperties
  <1>4. Arrived(r) = G + I /\ Arrived(q) = G + (I + 1)
    BY <1>2, <1>3 DEF Arrived
  <1>5. ~(G > 0 /\ r.got[G][2] = 0) /\ ~(I > 0 /\ r.incoming[I].flag = "CLOS")
    BY <1>2 DEF Ended
  <1>6. \A k \in 1..G : r.got[k] = <<n, k>>
    <2> SUFFICES ASSUME NEW k \in 1..G, r.got[k] # <<n, k>> PROVE FALSE
      OBVIOUS
    <2>1. r.got[k] = <<n, 0>> /\ k = G
      BY <1>2 DEF Received
    <2> QED
      BY <1>5, <2>1
  <1>7. \A k \in 1..I : /\ r.incoming[k].num = n /\ r.incoming[k].flag = "DATA"
                        /\ r.incoming[k].pos = G + k
    <2> SUFFICES ASSUME NEW k \in 1..I
                 PROVE  /\ r.incoming[k].num = n /\ r.incoming[k].flag = "DATA"
                        /\ r.incoming[k].pos = G + k
      OBVIOUS
    <2>1. /\ r.incoming[k].num = n
          /\ \/ r.incoming[k].flag = "DATA" /\ r.incoming[k].pos = G + k
             \/ r.incoming[k].flag = "CLOS" /\ k = I
      BY <1>2 DEF Received
    <2> QED
      BY <1>5, <2>1
  <1>8. Ended(q) <=> x.flag = "CLOS"
    <2>1. ~(G > 0 /\ q.got[G][2] = 0)
      BY <1>5
    <2> QED
      BY <1>3, <2>1 DEF Ended
  <1>9. ASSUME NEW k \in 1..(I + 1)
        PROVE  \/ /\ k # I + 1 /\ q.incoming[k].num = n
                  /\ q.incoming[k].flag = "DATA" /\ q.incoming[k].pos = G + k
               \/ /\ k = I + 1 /\ q.incoming[k] = x /\ Arrived(r) + 1 = G + k
    <2>1. CASE k \in 1..I
      BY <1>3, <1>7, <2>1
    <2>2. CASE k = I + 1
      BY <1>3, <1>4, <2>2
    <2>3. k \in 1..I \/ k = I + 1
      BY <1>2
    <2> QED
      BY <2>1, <2>2, <2>3
  <1>10. \A k \in 1..G : q.got[k] = <<n, k>>
    BY <1>6
  <1> QED
    BY <1>3, <1>4, <1>8, <1>9, <1>10 DEF Queues

\* ... the DATA of the tunnel is the next that its socket has been waiting for ...
LEMMA ComingData ==
    ASSUME NEW r \in SocketRec, NEW q \in SocketRec, NEW p \in SocketRec, NEW n \in Nat, NEW c,
           NEW w \in Seq(SegmentRec), NEW v \in Seq(SegmentRec),
           Len(w) > 0, Len(v) = Len(w) - 1, \A k \in 1..Len(v) : v[k] = w[k + 1],
           w[1].num = n, w[1].flag = "DATA", w[1] \in SegmentRec,
           q.got = r.got, q.incoming = Append(r.incoming, w[1]),
           Received(r, p, n), Coming(r, p.sent, w, n, c)
    PROVE  Received(q, p, n) /\ Coming(q, p.sent, v, n, c)
  <1>1. PICK N \in Nat : Len(v) = N /\ Len(w) = N + 1
    OBVIOUS
  <1>2. \A k \in 1..N : k + 1 \in 1..(N + 1) /\ v[k] = w[k + 1] /\ (k + 1) - 1 = k
    BY <1>1
  <1>3. \A k \in 1..N : Data(v, n, k) <=> Data(w, n, k + 1)
    BY <1>2 DEF Data
  <1>4. 1 \in 1..Len(w) /\ Data(w, n, 1)
    BY <1>1 DEF Data
  <1>5. ~Ended(r)
    BY <1>4 DEF Coming
  <1>6. /\ Arrived(r) < w[1].pos /\ w[1].pos <= p.sent /\ UpTo(r, w, n, 1 - 1, w[1].pos - 1)
    BY <1>4, <1>5 DEF Coming
  <1>7. w[1].pos \in Nat /\ p.sent \in Nat /\ \A k \in 1..Len(w) : w[k].pos \in Nat
    <2>1. \A k \in 1..Len(w) : w[k] \in SegmentRec
      OBVIOUS
    <2> QED
      BY <2>1 DEF SegmentRec, SocketRec
  <1>8. /\ Arrived(r) \in Nat /\ Arrived(q) = Arrived(r) + 1
        /\ Ended(q) <=> w[1].flag = "CLOS"
        /\ \A k \in 1..Len(q.got) : q.got[k] = <<n, k>>
        /\ \A k \in 1..Len(q.incoming) :
             \/ /\ k # Len(q.incoming) /\ q.incoming[k].num = n
                /\ q.incoming[k].flag = "DATA" /\ q.incoming[k].pos = Len(q.got) + k
             \/ /\ k = Len(q.incoming) /\ q.incoming[k] = w[1]
                /\ Arrived(r) + 1 = Len(q.got) + k
    <2>1. Queues(r, q, n, w[1])
      BY <1>5, QueuedFacts
    <2> QED
      BY <2>1 DEF Queues
  <1>9. w[1].pos = Arrived(r) + 1
    <2>1. \A j \in 1..(1 - 1) : FALSE
      OBVIOUS
    <2>2. w[1].pos - 1 = Arrived(r)
      BY <1>6, <2>1 DEF UpTo
    <2> QED
      BY <1>7, <1>8, <2>2
  <1>10. ~Ended(q)
    BY <1>8
  <1>11. Received(q, p, n)
    <2>1. Arrived(q) <= p.sent
      BY <1>6, <1>8, <1>9
    <2>2. \A k \in 1..Len(q.incoming) :
             /\ q.incoming[k].num = n
             /\ q.incoming[k].flag = "DATA" /\ q.incoming[k].pos = Len(q.got) + k
      BY <1>8, <1>9
    <2> QED
      BY <1>8, <1>10, <2>1, <2>2 DEF Received
  <1>12. ASSUME NEW k \in Nat, k <= N, NEW i, UpTo(r, w, n, k + 1, i), i # Arrived(r)
         PROVE  UpTo(q, v, n, k, i)
    <2>1. PICK j \in 1..(k + 1) : Data(w, n, j) /\ w[j].pos = i
      BY <1>12 DEF UpTo
    <2>2. CASE j = 1
      BY <1>8, <1>9, <2>1, <2>2 DEF UpTo
    <2>3. CASE j # 1
      <3>1. j - 1 \in 1..k /\ j - 1 \in 1..N /\ (j - 1) + 1 = j
        BY <1>12, <2>1, <2>3
      <3>2. v[j - 1] = w[j] /\ Data(v, n, j - 1)
        BY <1>2, <1>3, <2>1, <3>1
      <3> QED
        BY <2>1, <3>1, <3>2 DEF UpTo
    <2> QED
      BY <2>2, <2>3
  <1>13. p.sent # Arrived(r)
    BY <1>6, <1>7, <1>8
  <1>14. ASSUME NEW k \in 1..N, Data(v, n, k)
         PROVE  /\ Arrived(q) < v[k].pos /\ v[k].pos <= p.sent
                /\ UpTo(q, v, n, k - 1, v[k].pos - 1)
    <2>1. /\ k + 1 \in 1..(N + 1) /\ v[k] = w[k + 1] /\ Data(w, n, k + 1) /\ (k + 1) - 1 = k
          /\ k - 1 \in Nat /\ k - 1 <= N /\ (k - 1) + 1 = k /\ 1 < k + 1
      BY <1>2, <1>3, <1>14
    <2>2. /\ w[k + 1].pos <= p.sent /\ UpTo(r, w, n, k, w[k + 1].pos - 1)
      BY <1>1, <1>5, <2>1 DEF Coming
    <2>3. w[1].pos < w[k + 1].pos /\ w[k + 1].pos \in Nat
      BY <1>1, <1>4, <1>5, <1>7, <2>1 DEF Coming
    <2>4. Arrived(q) < v[k].pos /\ v[k].pos - 1 # Arrived(r)
      BY <1>7, <1>8, <1>9, <2>1, <2>3
    <2> QED
      BY <1>12, <2>1, <2>2, <2>4
  <1>15. ASSUME NEW j \in 1..N, NEW k \in 1..N, j < k, Data(v, n, j), Data(v, n, k)
         PROVE  v[j].pos < v[k].pos
    <2>1. /\ j + 1 \in 1..(N + 1) /\ v[j] = w[j + 1] /\ Data(w, n, j + 1)
          /\ k + 1 \in 1..(N + 1) /\ v[k] = w[k + 1] /\ Data(w, n, k + 1) /\ j + 1 < k + 1
      BY <1>2, <1>3, <1>15
    <2> QED
      BY <1>1, <1>5, <2>1 DEF Coming
  <1>16. ASSUME NEW k \in 1..N, v[k].flag = "CLOS", v[k].num = n
         PROVE  UpTo(q, v, n, k - 1, p.sent)
    <2>1. /\ k + 1 \in 1..(N + 1) /\ v[k] = w[k + 1] /\ (k + 1) - 1 = k
          /\ k - 1 \in Nat /\ k - 1 <= N /\ (k - 1) + 1 = k
      BY <1>2
    <2>2. UpTo(r, w, n, k, p.sent)
      BY <1>1, <1>5, <1>16, <2>1 DEF Coming
    <2> QED
      BY <1>12, <1>13, <2>1, <2>2
  <1>17. c => UpTo(q, v, n, N, p.sent)
    BY <1>1, <1>5, <1>12, <1>13 DEF Coming
  <1>18. Coming(q, p.sent, v, n, c)
    BY <1>1, <1>10, <1>14, <1>15, <1>16, <1>17 DEF Coming
  <1> QED
    BY <1>11, <1>18

\* ... and CLOS ends its stream.
LEMMA ComingClos ==
    ASSUME NEW r \in SocketRec, NEW q \in SocketRec, NEW p \in SocketRec, NEW n \in Nat, NEW c,
           NEW w \in Seq(SegmentRec), NEW v \in Seq(SegmentRec), Len(w) > 0,
           w[1].num = n, w[1].flag = "CLOS", w[1] \in SegmentRec,
           q.got = r.got, q.incoming = Append(r.incoming, w[1]),
           p.closed, \A k \in 1..Len(v) : v[k].num # n,
           Received(r, p, n), Coming(r, p.sent, w, n, c)
    PROVE  Received(q, p, n) /\ Coming(q, p.sent, v, n, c)
  <1>1. 1 \in 1..Len(w)
    OBVIOUS
  <1>2. ~Ended(r)
    BY <1>1 DEF Coming
  <1>3. /\ Arrived(r) \in Nat /\ Arrived(q) = Arrived(r) + 1
        /\ Ended(q) <=> w[1].flag = "CLOS"
        /\ \A k \in 1..Len(q.got) : q.got[k] = <<n, k>>
        /\ \A k \in 1..Len(q.incoming) :
             \/ /\ k # Len(q.incoming) /\ q.incoming[k].num = n
                /\ q.incoming[k].flag = "DATA" /\ q.incoming[k].pos = Len(q.got) + k
             \/ /\ k = Len(q.incoming) /\ q.incoming[k] = w[1]
                /\ Arrived(r) + 1 = Len(q.got) + k
    <2>1. Queues(r, q, n, w[1])
      BY <1>2, QueuedFacts
    <2> QED
      BY <2>1 DEF Queues
  <1>4. p.sent = Arrived(r)
    <2>1. \A j \in 1..(1 - 1) : FALSE
      OBVIOUS
    <2> QED
      BY <1>1, <1>2, <2>1 DEF Coming, UpTo
  <1>5. Ended(q)
    BY <1>3
  <1>6. Received(q, p, n)
    BY <1>3, <1>4, <1>5 DEF Received
  <1>7. Coming(q, p.sent, v, n, c)
    BY <1>5 DEF Coming
  <1> QED
    BY <1>6, <1>7

-----------------------------------------------------------------------------
(* Streams *)

StreamInv == RoutingInv /\ Streams

\* A stream of which a step changes neither end nor wire
LEMMA StreamKept ==
    ASSUME NEW r, NEW q, NEW p, NEW u, NEW n, NEW w, NEW c, NEW d,
           q.got = r.got, q.incoming = r.incoming, u.closed = p.closed, u.sent = p.sent, d => c
    PROVE  /\ Received(r, p, n) => Received(q, u, n)
           /\ Coming(r, p.sent, w, n, c) => Coming(q, u.sent, w, n, d)
  <1>1. Arrived(q) = Arrived(r) /\ (Ended(q) <=> Ended(r))
    BY DEF Arrived, Ended
  <1>2. Received(r, p, n) => Received(q, u, n)
    BY <1>1 DEF Received
  <1>3. \A k, i : UpTo(q, w, n, k, i) <=> UpTo(r, w, n, k, i)
    BY <1>1 DEF UpTo
  <1>4. Coming(r, p.sent, w, n, c) => Coming(q, u.sent, w, n, d)
    BY <1>1, <1>3 DEF Coming
  <1> QED
    BY <1>2, <1>4

LEMMA Untouched ==
    ASSUME NEW e \in End, NEW n \in Nums, Stream(e, n), ctx'[e].main => ctx[e].main,
           LET r == <<e, n>>
               p == <<Peer(e), n>>
           IN  /\ sok'[r].got = sok[r].got /\ sok'[r].incoming = sok[r].incoming
               /\ sok'[p].closed = sok[p].closed /\ sok'[p].sent = sok[p].sent,
           wire'[Peer(e)] = wire[Peer(e)],
           Carries(Peer(e))' => Carries(Peer(e))
    PROVE  Stream(e, n)'
  <1>1. PICK r, q, p, u, w, c, d :
          /\ r = sok[<<e, n>>] /\ q = sok'[<<e, n>>] /\ p = sok[<<Peer(e), n>>]
          /\ u = sok'[<<Peer(e), n>>] /\ w = wire[Peer(e)]
          /\ c = Carries(Peer(e)) /\ d = Carries(Peer(e))'
    OBVIOUS
  <1>2. q.got = r.got /\ q.incoming = r.incoming /\ u.closed = p.closed /\ u.sent = p.sent
    BY <1>1
  <1>3. d => c
    BY <1>1
  <1>4. Received(r, p, n) /\ (ctx[e].main => Coming(r, p.sent, w, n, c))
    BY <1>1 DEF Stream
  <1>5. Received(q, u, n) /\ (ctx'[e].main => Coming(q, u.sent, w, n, d))
    BY <1>2, <1>3, <1>4, StreamKept
  <1>6. wire'[Peer(e)] = w
    BY <1>1
  <1> QED
    BY <1>1, <1>5, <1>6 DEF Stream

LEMMA StreamTypes ==
    ASSUME StreamInv, NEW e \in End, NEW n \in 1..Len(idOf)
    PROVE  /\ n \in Nums /\ n \in Nat /\ Peer(e) \in End /\ Peer(e) # e /\ idOf[n] \in Ids
           /\ <<e, n>> \in Sockets /\ <<Peer(e), n>> \in Sockets
           /\ sok[<<e, n>>] \in SocketRec /\ sok[<<Peer(e), n>>] \in SocketRec
           /\ wire[Peer(e)] \in Seq(SegmentRec) /\ Len(wire[Peer(e)]) \in Nat
           /\ idOf[n] \notin crossed => Stream(e, n)
  <1>1. n \in Nums /\ n \in Nat /\ idOf[n] \in Ids /\ Peer(e) \in End /\ Peer(e) # e
        /\ <<e, n>> \in Sockets /\ <<Peer(e), n>> \in Sockets
    BY Ends, NumFacts DEF StreamInv, RoutingInv
  <1>2. wire[Peer(e)] \in Seq(SegmentRec)
    BY <1>1 DEF StreamInv, RoutingInv, TypeInv, Types
  <1> QED
    BY <1>1, <1>2 DEF StreamInv, RoutingInv, TypeInv, Types, Streams

LEMMA StreamsQuiet ==
    ASSUME StreamInv, Quiet
    PROVE  Streams'
  <1> SUFFICES ASSUME NEW e \in End, NEW n \in 1..Len(idOf), idOf[n] \notin crossed
               PROVE  Stream(e, n)'
    BY DEF Quiet, Streams
  <1>1. n \in Nums /\ <<e, n>> \in Sockets /\ <<Peer(e), n>> \in Sockets /\ Stream(e, n)
        /\ Peer(e) \in End
    BY StreamTypes
  <1> QED
    BY <1>1, Untouched DEF Quiet, Fading, Still

LEMMA StreamsReads ==
    ASSUME StreamInv, TypeInv', NEW s \in Sockets, Reads(s)
    PROVE  Streams'
  <1> SUFFICES ASSUME NEW e \in End, NEW n \in 1..Len(idOf), idOf[n] \notin crossed
               PROVE  Stream(e, n)'
    BY DEF Reads, Streams
  <1>1. /\ n \in Nums /\ n \in Nat /\ <<e, n>> \in Sockets /\ <<Peer(e), n>> \in Sockets
        /\ Stream(e, n) /\ Peer(e) \in End /\ Peer(e) # e
        /\ sok[<<e, n>>] \in SocketRec /\ sok[<<Peer(e), n>>] \in SocketRec
    BY StreamTypes
  <1>2. /\ ctx' = ctx /\ cut' = cut /\ wire' = wire
        /\ \A t \in Sockets \ {s} : Still(t)
        /\ sok'[s].closed = sok[s].closed /\ sok'[s].sent = sok[s].sent
    BY DEF Reads
  <1>3. Carries(Peer(e))' => Carries(Peer(e))
    BY <1>2 DEF Carries
  <1>4. /\ sok'[<<Peer(e), n>>].closed = sok[<<Peer(e), n>>].closed
        /\ sok'[<<Peer(e), n>>].sent = sok[<<Peer(e), n>>].sent
    BY <1>1, <1>2 DEF Still
  <1>5. CASE s # <<e, n>>
    <2>1. /\ sok'[<<e, n>>].got = sok[<<e, n>>].got
          /\ sok'[<<e, n>>].incoming = sok[<<e, n>>].incoming
      BY <1>1, <1>2, <1>5 DEF Still
    <2> QED
      BY <1>1, <1>2, <1>3, <1>4, <2>1, Untouched
  <1>6. CASE s = <<e, n>>
    <2>1. PICK r, q, p, u :
            r = sok[s] /\ q = sok'[s] /\ p = sok[<<Peer(e), n>>] /\ u = sok'[<<Peer(e), n>>]
      OBVIOUS
    <2>2. r \in SocketRec /\ q \in SocketRec /\ p \in SocketRec
      BY <1>1, <1>6, <2>1 DEF TypeInv, Types
    <2>3. /\ Received(r, p, n)
          /\ ctx[e].main => Coming(r, p.sent, wire[Peer(e)], n, Carries(Peer(e)))
      BY <1>1, <1>6, <2>1 DEF Stream
    <2>4. ReadOff(r, q)
      BY <2>1 DEF Reads, ReadOff
    <2>5. Received(q, p, n) /\ Arrived(q) = Arrived(r) /\ (Ended(q) <=> Ended(r))
      BY <1>1, <2>2, <2>3, <2>4, ReadKeeps
    <2>6. \A sent, w, c : Coming(r, sent, w, n, c) => Coming(q, sent, w, n, c)
      <3>1. \A w, k, i : UpTo(q, w, n, k, i) <=> UpTo(r, w, n, k, i)
        BY <2>5 DEF UpTo
      <3> QED
        BY <2>5, <3>1 DEF Coming
    <2>7. ctx[e].main => Coming(q, p.sent, wire[Peer(e)], n, Carries(Peer(e)))
      BY <2>3, <2>6
    <2>8. u.closed = p.closed /\ u.sent = p.sent
      BY <1>4, <2>1
    <2>9. /\ Received(q, u, n)
          /\ ctx[e].main => Coming(q, u.sent, wire[Peer(e)], n, Carries(Peer(e)))
      BY <2>5, <2>7, <2>8, StreamKept
    <2>10. Carries(Peer(e))' = Carries(Peer(e))
      BY <1>2 DEF Carries
    <2>11. wire'[Peer(e)] = wire[Peer(e)] /\ ctx'[e].main = ctx[e].main
      BY <1>2
    <2> QED
      BY <1>6, <2>1, <2>9, <2>10, <2>11 DEF Stream
  <1> QED
    BY <1>5, <1>6

\* A peer that writes on owes nothing to what has come.
LEMMA ReceivedMore ==
    ASSUME NEW r \in SocketRec, NEW p, NEW u, NEW n, Received(r, p, n), ~Ended(r),
           p.sent \in Nat, u.sent = p.sent + 1
    PROVE  Received(r, u, n)
  <1>1. Arrived(r) \in Nat
    BY DEF Arrived, SocketRec
  <1>2. Arrived(r) <= u.sent
    BY <1>1 DEF Received
  <1> QED
    BY <1>2 DEF Received

LEMMA StreamsSends ==
    ASSUME StreamInv, TypeInv', NEW s \in Sockets, NEW seg, Sends(s, seg)
    PROVE  Streams'
  <1> SUFFICES ASSUME NEW e \in End, NEW n \in 1..Len(idOf), idOf[n] \notin crossed
               PROVE  Stream(e, n)'
    BY DEF Sends, Streams
  <1>1. /\ n \in Nums /\ n \in Nat /\ <<e, n>> \in Sockets /\ <<Peer(e), n>> \in Sockets
        /\ Stream(e, n) /\ Peer(e) \in End /\ Peer(e) # e
        /\ sok[<<e, n>>] \in SocketRec /\ sok[<<Peer(e), n>>] \in SocketRec
        /\ wire[Peer(e)] \in Seq(SegmentRec)
    BY StreamTypes
  <1>2. /\ ~sok[s].closed
        /\ sok'[s].closed <=> seg.flag = "CLOS"
        /\ s[1] \in End /\ seg \in SegmentRec /\ Pack(s[1], seg) /\ seg.num = s[2]
        /\ <<s[1], seg.num>> = s
    BY SenderOpen DEF StreamInv, RoutingInv
  <1>3. /\ ctx' = ctx /\ cut' = cut
        /\ \A t \in Sockets \ {s} : Still(t)
        /\ sok'[s].got = sok[s].got /\ sok'[s].incoming = sok[s].incoming
    BY DEF Sends
  <1>4. \A f \in End : /\ f # s[1] => wire'[f] = wire[f]
                       /\ ~Carries(f) => wire'[f] = wire[f]
                       /\ f = s[1] /\ Carries(f) => wire'[f] = Append(wire[f], seg)
    <2>1. wire \in [End -> Seq(SegmentRec)]
      BY DEF StreamInv, RoutingInv, TypeInv, Types
    <2> QED
      BY <1>2, <2>1 DEF Pack
  <1>5. Carries(Peer(e))' = Carries(Peer(e))
    BY <1>3 DEF Carries
  <1>6. /\ sok'[<<e, n>>].got = sok[<<e, n>>].got
        /\ sok'[<<e, n>>].incoming = sok[<<e, n>>].incoming
    BY <1>1, <1>3 DEF Still
  <1>7. s # <<Peer(e), n>> => /\ sok'[<<Peer(e), n>>].closed = sok[<<Peer(e), n>>].closed
                              /\ sok'[<<Peer(e), n>>].sent = sok[<<Peer(e), n>>].sent
    BY <1>1, <1>3 DEF Still
  <1>8. CASE wire'[Peer(e)] = wire[Peer(e)] /\ s # <<Peer(e), n>>
    BY <1>1, <1>3, <1>5, <1>6, <1>7, <1>8, Untouched
  <1> DEFINE c == Carries(Peer(e))
             w == wire[Peer(e)]
             r == sok[<<e, n>>]
             q == sok'[<<e, n>>]
             p == sok[<<Peer(e), n>>]
             u == sok'[<<Peer(e), n>>]
  <1>9. /\ Received(r, p, n) /\ (ctx[e].main => Coming(r, p.sent, w, n, c))
        /\ r \in SocketRec /\ p \in SocketRec /\ w \in Seq(SegmentRec)
        /\ q.got = r.got /\ q.incoming = r.incoming
    BY <1>1, <1>6 DEF Stream
  <1>10. ASSUME NEW v, wire'[Peer(e)] = v, Received(r, u, n),
                ctx[e].main => Coming(r, u.sent, v, n, c)
         PROVE  Stream(e, n)'
    <2> HIDE DEF c, w, r, q, p, u
    <2>1. Received(q, u, n) /\ (ctx[e].main => Coming(q, u.sent, v, n, c))
      BY <1>9, <1>10, StreamKept
    <2> QED
      BY <1>3, <1>5, <1>10, <2>1 DEF Stream, c, w, r, q, p, u
  <1>11. Coming(r, p.sent, w, n, c) /\ c => Coming(r, p.sent, w, n, TRUE)
    BY StreamKept
  <1>12. Coming(r, p.sent, w, n, c) /\ ~c => Coming(r, p.sent, w, n, FALSE)
    BY StreamKept
  <1>13. \A x, v : (Coming(r, x, v, n, TRUE) /\ c) \/ (Coming(r, x, v, n, FALSE) /\ ~c)
                     => Coming(r, x, v, n, c)
    BY DEF Coming
  <1>14. CASE s[1] = Peer(e) /\ c
    <2>1. wire'[Peer(e)] = Append(w, seg)
      BY <1>1, <1>4, <1>14
    <2>2. CASE Alien(seg, n)
      <3>1. u.closed = p.closed /\ u.sent = p.sent
        <4>1. CASE s # <<Peer(e), n>>
          BY <1>7, <4>1
        <4>2. CASE s = <<Peer(e), n>>
          <5>1. seg.flag \in {"OPEN", "ICWD"}
            BY <1>2, <2>2, <4>2 DEF Alien, SegmentRec
          <5> QED
            BY <4>2, <5>1 DEF Sends, Still
        <4> QED
          BY <4>1, <4>2
      <3>2. Received(r, u, n)
        BY <1>9, <3>1, StreamKept
      <3>3. ctx[e].main => Coming(r, p.sent, Append(w, seg), n, c)
        BY <1>2, <1>9, <2>2, ComingBeforeAlien
      <3> HIDE DEF c, w, r, q, p, u
      <3> QED
        BY <1>10, <2>1, <3>1, <3>2, <3>3
    <2>3. CASE ~Alien(seg, n)
      <3>1. s = <<Peer(e), n>> /\ seg.num = n /\ seg.flag \in {"DATA", "CLOS"}
        BY <1>2, <1>14, <2>3 DEF Alien
      <3>2. ~p.closed /\ (u.closed <=> seg.flag = "CLOS")
        BY <1>2, <3>1
      <3>3. ~Ended(r)
        BY <1>9, <3>2 DEF Received
      <3>4. CASE seg.flag = "CLOS"
        <4>1. u.sent = p.sent /\ u.closed
          BY <3>1, <3>4 DEF Sends
        <4>2. Received(r, u, n)
          BY <1>9, <3>3, <4>1 DEF Received
        <4>3. ctx[e].main => Coming(r, p.sent, Append(w, seg), n, TRUE)
          BY <1>2, <1>9, <1>11, <1>14, <3>1, <3>3, <3>4, ComingBeforeClos
        <4>4. ctx[e].main => Coming(r, p.sent, Append(w, seg), n, c)
          BY <1>13, <1>14, <4>3
        <4> HIDE DEF c, w, r, q, p, u
        <4> QED
          BY <1>10, <2>1, <4>1, <4>2, <4>4
      <3>5. CASE seg.flag = "DATA"
        <4>1. u.sent = p.sent + 1 /\ seg.pos = p.sent + 1 /\ p.sent \in Nat
          BY <1>9, <3>1, <3>5 DEF Sends, SocketRec
        <4>2. Arrived(r) <= p.sent
          BY <1>9, <3>3 DEF Received
        <4>3. Received(r, u, n)
          BY <1>9, <3>3, <4>1, ReceivedMore
        <4>4. \A k \in 1..Len(w) : w[k].flag = "CLOS" => w[k].num # n
          BY <1>1, <3>2 DEF StreamInv, RoutingInv, Silence, ClosOfClosed
        <4>5. ctx[e].main => Coming(r, p.sent + 1, Append(w, seg), n, TRUE)
          BY <1>2, <1>9, <1>11, <1>14, <3>1, <3>3, <3>5, <4>1, <4>2, <4>4, ComingBeforeData
        <4>6. ctx[e].main => Coming(r, p.sent + 1, Append(w, seg), n, c)
          BY <1>13, <1>14, <4>5
        <4> HIDE DEF c, w, r, q, p, u
        <4> QED
          BY <1>10, <2>1, <4>1, <4>3, <4>6
      <3> QED
        BY <3>1, <3>4, <3>5
    <2> QED
      BY <2>2, <2>3
  <1>15. CASE s = <<Peer(e), n>> /\ ~c
    <2>1. wire'[Peer(e)] = w
      BY <1>1, <1>4, <1>15
    <2>2. ~p.closed /\ (u.closed <=> seg.flag = "CLOS")
      BY <1>2, <1>15
    <2>3. ~Ended(r)
      BY <1>9, <2>2 DEF Received
    <2>4. seg.flag \in {"OPEN", "DATA", "ICWD", "CLOS"}
      BY <1>2 DEF SegmentRec
    <2>5. CASE seg.flag # "DATA"
      <3>1. u.sent = p.sent
        BY <1>15, <2>4, <2>5 DEF Sends, Still
      <3>2. Received(r, u, n)
        BY <1>9, <2>3, <3>1 DEF Received
      <3> HIDE DEF c, w, r, q, p, u
      <3> QED
        BY <1>9, <1>10, <2>1, <3>1, <3>2
    <2>6. CASE seg.flag = "DATA"
      <3>1. u.sent = p.sent + 1 /\ p.sent \in Nat
        BY <1>9, <1>15, <2>6 DEF Sends, SocketRec
      <3>3. Received(r, u, n)
        BY <1>9, <2>3, <3>1, ReceivedMore
      <3>4. \A k \in 1..Len(w) : w[k].flag = "CLOS" => w[k].num # n
        BY <1>1, <2>2 DEF StreamInv, RoutingInv, Silence, ClosOfClosed
      <3>5. ctx[e].main => Coming(r, p.sent + 1, w, n, FALSE)
        BY <1>9, <1>12, <1>15, <2>3, <3>1, <3>4, ComingLost
      <3>6. ctx[e].main => Coming(r, p.sent + 1, w, n, c)
        BY <1>13, <1>15, <3>5
      <3> HIDE DEF c, w, r, q, p, u
      <3> QED
        BY <1>10, <2>1, <3>1, <3>3, <3>6
    <2> QED
      BY <2>5, <2>6
  <1>16. s[1] # Peer(e) \/ ~c \/ (s[1] = Peer(e) /\ c)
    OBVIOUS
  <1>17. s[1] # Peer(e) => s # <<Peer(e), n>>
    OBVIOUS
  <1> HIDE DEF c, w, r, q, p, u
  <1> QED
    BY <1>1, <1>4, <1>8, <1>14, <1>15, <1>16, <1>17 DEF c

\* A segment of an id that was not reused too early goes to its own tunnel.
LEMMA Routed ==
    ASSUME RoutingInv, NEW e \in End, NEW seg, Takes(e, seg),
           seg.id \notin crossed, seg.flag # "OPEN"
    PROVE  table[e][seg.id] = seg.num
  <1>1. seg = wire[Peer(e)][1] /\ 1 \in 1..Len(wire[Peer(e)])
    BY TakesFacts DEF Delivered
  <1>2. CASE e = "client"
    <2>1. Peer(e) = "server"
      BY <1>2 DEF Peer
    <2> QED
      BY <1>1, <1>2, <2>1 DEF RoutingInv, Routing, RoutedDown
  <1>3. CASE e = "server"
    <2>1. Peer(e) = "client"
      BY <1>3 DEF Peer
    <2>2. \A j \in 1..(1 - 1) : FALSE
      OBVIOUS
    <2> QED
      BY <1>1, <1>3, <2>1, <2>2 DEF RoutingInv, Routing, RoutedUp
  <1> QED
    BY <1>2, <1>3 DEF End

LEMMA StreamsTakes ==
    ASSUME StreamInv, TypeInv', NEW f \in End, NEW seg, Takes(f, seg)
    PROVE  Streams'
  <1>1. /\ UNCHANGED <<idOf, crossed>> /\ Fading /\ ctx[f].main
        /\ \A t \in Sockets : sok'[t].closed = sok[t].closed /\ sok'[t].sent = sok[t].sent
        /\ seg \in SegmentRec /\ seg = wire[Peer(f)][1] /\ 1 \in 1..Len(wire[Peer(f)])
        /\ seg.id \in Ids /\ seg.num \in 1..Len(idOf) /\ seg.id = idOf[seg.num]
        /\ wire'[f] = wire[f]
        /\ Len(wire'[Peer(f)]) = Len(wire[Peer(f)]) - 1 /\ Len(wire[Peer(f)]) \in Nat
        /\ \A k \in 1..Len(wire'[Peer(f)]) :
             k + 1 \in 1..Len(wire[Peer(f)]) /\ wire'[Peer(f)][k] = wire[Peer(f)][k + 1]
        /\ seg.flag = "CLOS" => sok[<<Peer(f), seg.num>>].closed
        /\ seg.flag = "CLOS" =>
             \A k \in 1..Len(wire'[Peer(f)]) : wire'[Peer(f)][k].num # seg.num
    BY TakesFacts DEF StreamInv, Delivered
  <1> DEFINE dest == <<f, table[f][seg.id]>>
  <1>2. /\ \A t \in Sockets \ {dest} : Still(t)
        /\ \/ /\ \A t \in Sockets : Still(t)
              /\ seg.flag \in {"DATA", "CLOS"} => ~ctx'[f].main
           \/ /\ seg.flag \in {"DATA", "CLOS"} /\ dest \in Sockets
              /\ sok'[dest] = [sok[dest] EXCEPT !.incoming = Append(@, seg)]
    BY DEF Takes
  <1>3. seg.id \notin crossed /\ seg.flag # "OPEN" => dest = <<f, seg.num>>
    BY Routed DEF StreamInv
  <1> SUFFICES ASSUME NEW e \in End, NEW n \in 1..Len(idOf), idOf[n] \notin crossed
               PROVE  Stream(e, n)'
    BY <1>1 DEF Streams
  <1>4. /\ n \in Nums /\ n \in Nat /\ <<e, n>> \in Sockets /\ <<Peer(e), n>> \in Sockets
        /\ Stream(e, n) /\ Peer(e) \in End /\ Peer(e) # e
        /\ sok[<<e, n>>] \in SocketRec /\ sok[<<Peer(e), n>>] \in SocketRec
        /\ wire[Peer(e)] \in Seq(SegmentRec)
    BY StreamTypes
  <1>5. /\ Carries(Peer(e))' => Carries(Peer(e))
        /\ ctx'[e].main => ctx[e].main
    BY <1>1, <1>4 DEF Fading
  <1>6. CASE f # e
    <2>1. Peer(e) = f
      BY <1>6 DEF End, Peer
    <2>2. Still(<<e, n>>)
      BY <1>2, <1>4, <1>6
    <2> HIDE DEF dest
    <2> QED
      BY <1>1, <1>4, <1>5, <2>1, <2>2, Untouched DEF Still
  <1>7. CASE f = e
    <2> DEFINE c == Carries(Peer(e))
               w == wire[Peer(e)]
               v == wire'[Peer(e)]
               r == sok[<<e, n>>]
               q == sok'[<<e, n>>]
               p == sok[<<Peer(e), n>>]
               u == sok'[<<Peer(e), n>>]
    <2>1. /\ Received(r, p, n) /\ Coming(r, p.sent, w, n, c)
          /\ r \in SocketRec /\ p \in SocketRec /\ w \in Seq(SegmentRec) /\ v \in Seq(SegmentRec)
          /\ q \in SocketRec
          /\ Len(w) > 0 /\ Len(v) = Len(w) - 1 /\ \A k \in 1..Len(v) : v[k] = w[k + 1]
          /\ w[1] = seg
      <3>1. v \in Seq(SegmentRec) /\ q \in SocketRec
        BY <1>4 DEF TypeInv, Types
      <3>2. Received(r, p, n) /\ Coming(r, p.sent, w, n, c)
        BY <1>1, <1>4, <1>7 DEF Stream
      <3>3. Len(w) > 0 /\ Len(v) = Len(w) - 1 /\ w[1] = seg
        BY <1>1, <1>7
      <3>4. \A k \in 1..Len(v) : v[k] = w[k + 1]
        BY <1>1, <1>7
      <3>5. r \in SocketRec /\ p \in SocketRec /\ w \in Seq(SegmentRec)
        BY <1>4
      <3> HIDE DEF c, w, v, r, q, p, u
      <3> QED
        BY <3>1, <3>2, <3>3, <3>4, <3>5
    <2>2. u.closed = p.closed /\ u.sent = p.sent
      BY <1>1, <1>4
    <2>3. ASSUME NEW x, x.got = q.got, x.incoming = q.incoming, Received(x, p, n),
                 ctx'[e].main => Coming(x, p.sent, v, n, c)
          PROVE  Stream(e, n)'
      <3> HIDE DEF c, w, v, r, q, p, u
      <3> DEFINE d == Carries(Peer(e))'
      <3>1. d => c
        BY <1>5 DEF c
      <3> HIDE DEF d
      <3>2. Received(q, u, n) /\ (ctx'[e].main => Coming(q, u.sent, v, n, d))
        BY <2>2, <2>3, <3>1, StreamKept
      <3> QED
        BY <3>2 DEF Stream, c, w, v, r, q, p, u, d
    <2>4. CASE seg.num = n /\ seg.flag \in {"DATA", "CLOS"}
      <3>1. dest = <<e, n>>
        BY <1>1, <1>3, <1>7, <2>4
      <3>2. CASE Still(<<e, n>>) /\ ~ctx'[e].main
        <4>1. q.got = r.got /\ q.incoming = r.incoming
          BY <3>2 DEF Still
        <4> HIDE DEF c, w, v, r, q, p, u
        <4> QED
          BY <2>1, <2>3, <3>2, <4>1
      <3>3. CASE sok'[<<e, n>>] = [sok[<<e, n>>] EXCEPT !.incoming = Append(@, seg)]
        <4>1. q.got = r.got /\ q.incoming = Append(r.incoming, w[1])
          BY <2>1, <3>3 DEF SocketRec
        <4>2. CASE seg.flag = "DATA"
          <5>1. w[1].num = n /\ w[1].flag = "DATA" /\ w[1] \in SegmentRec
            BY <1>1, <2>1, <2>4, <4>2
          <5> HIDE DEF c, w, v, r, q, p, u
          <5>2. Received(q, p, n) /\ Coming(q, p.sent, v, n, c)
            <6>1. n \in Nat
              BY <1>4
            <6> QED
              BY <2>1, <4>1, <5>1, <6>1, ComingData
          <5> QED
            BY <2>3, <5>2
        <4>3. CASE seg.flag = "CLOS"
          <5>1. w[1].num = n /\ w[1].flag = "CLOS" /\ w[1] \in SegmentRec
            BY <1>1, <2>1, <2>4, <4>3
          <5>2. p.closed /\ \A k \in 1..Len(v) : v[k].num # n
            BY <1>1, <1>7, <2>4, <4>3
          <5> HIDE DEF c, w, v, r, q, p, u
          <5>3. Received(q, p, n) /\ Coming(q, p.sent, v, n, c)
            BY <1>4, <2>1, <4>1, <5>1, <5>2, ComingClos
          <5> QED
            BY <2>3, <5>3
        <4> QED
          BY <2>4, <4>2, <4>3
      <3> QED
        BY <1>2, <1>4, <1>7, <2>4, <3>1, <3>2, <3>3
    <2>5. CASE Alien(seg, n)
      <3>1. Still(<<e, n>>)
        <4>1. CASE seg.flag \in {"DATA", "CLOS"} /\ dest = <<e, n>>
          <5>1. table[e][seg.id] = n /\ n # 0
            BY <1>7, <4>1
          <5>2. idOf[n] = seg.id
            BY <1>1, <5>1 DEF StreamInv, RoutingInv, TypeInv, Known, KnownEntries
          <5>3. dest = <<f, seg.num>>
            BY <1>3, <4>1, <5>2
          <5> QED
            BY <1>7, <2>5, <4>1, <5>1, <5>3 DEF Alien
        <4>2. CASE dest # <<e, n>>
          BY <1>2, <1>4, <4>2
        <4>3. CASE seg.flag \notin {"DATA", "CLOS"}
          BY <1>2, <1>4, <4>3
        <4> QED
          BY <4>1, <4>2, <4>3
      <3>2. q.got = r.got /\ q.incoming = r.incoming
        BY <3>1 DEF Still
      <3>3. Coming(r, p.sent, v, n, c)
        <4>1. Alien(w[1], n)
          BY <2>1, <2>5
        <4> HIDE DEF c, w, v, r, q, p, u
        <4> QED
          BY <2>1, <4>1, ComingBehindAlien
      <3> HIDE DEF c, w, v, r, q, p, u
      <3> QED
        BY <2>1, <2>3, <3>2, <3>3
    <2> QED
      BY <2>4, <2>5 DEF Alien
  <1> QED
    BY <1>6, <1>7

LEMMA StreamsReserves ==
    ASSUME StreamInv, TypeInv', NEW i \in Ids, Reserves(i)
    PROVE  Streams'
  <1> DEFINE m == Len(idOf) + 1
             c == <<"client", m>>
  <1>1. /\ UNCHANGED <<wire, ctx, cut>> /\ idOf' = Append(idOf, i)
        /\ sok[c] = NewSocket /\ sok'[c] = [NewSocket EXCEPT !.stage = "reserved"]
        /\ sok[<<"server", m>>] = NewSocket
        /\ \A t \in Sockets \ {c} : sok'[t] = sok[t]
        /\ \A j \in crossed : j \in crossed'
        /\ m \in Nums
    BY DEF Reserves
  <1>2. Len(idOf) \in Nat /\ m \in Nat /\ m > Len(idOf)
    BY NumFacts DEF StreamInv, RoutingInv
  <1>3. /\ Len(idOf') = m /\ \A k \in 1..Len(idOf) : idOf'[k] = idOf[k]
    <2>1. idOf \in Seq(Ids)
      BY DEF StreamInv, RoutingInv, TypeInv, Types
    <2> QED
      BY <1>1, <2>1, AppendProperties
  <1>4. \A t \in Sockets : sok'[t].got = sok[t].got /\ sok'[t].incoming = sok[t].incoming
           /\ sok'[t].closed = sok[t].closed /\ sok'[t].sent = sok[t].sent
    <2>1. /\ sok'[c].got = sok[c].got /\ sok'[c].incoming = sok[c].incoming
          /\ sok'[c].closed = sok[c].closed /\ sok'[c].sent = sok[c].sent
      BY <1>1 DEF NewSocket
    <2> HIDE DEF c
    <2> QED
      BY <1>1, <2>1
  <1> SUFFICES ASSUME NEW e \in End, NEW n \in 1..m, idOf'[n] \notin crossed'
               PROVE  Stream(e, n)'
    BY <1>3 DEF Streams
  <1>5. Carries(Peer(e))' = Carries(Peer(e))
    BY <1>1 DEF Carries
  <1>6. CASE n \in 1..Len(idOf)
    <2>1. /\ n \in Nums /\ <<e, n>> \in Sockets /\ <<Peer(e), n>> \in Sockets
          /\ idOf[n] \notin crossed => Stream(e, n)
      BY <1>6, StreamTypes
    <2>2. idOf[n] \notin crossed
      BY <1>1, <1>3, <1>6
    <2> QED
      BY <1>1, <1>4, <1>5, <2>1, <2>2, Untouched
  <1>7. CASE n = m
    <2>1. <<e, n>> \in Sockets /\ <<Peer(e), n>> \in Sockets
      BY <1>1, <1>7, Ends
    <2>2. sok[<<e, n>>] = NewSocket /\ sok[<<Peer(e), n>>] = NewSocket
      BY <1>1, <1>7 DEF End, Peer
    <2> DEFINE r == sok[<<e, n>>]
               p == sok[<<Peer(e), n>>]
    <2>3. Len(r.got) = 0 /\ Len(r.incoming) = 0 /\ p.sent = 0
      BY <2>2 DEF NewSocket
    <2> HIDE DEF r, p
    <2>4. ~Ended(r) /\ Arrived(r) = 0
      BY <2>3 DEF Ended, Arrived
    <2>5. Received(r, p, n)
      BY <2>3, <2>4 DEF Received
    <2>6. \A k \in 1..Len(wire[Peer(e)]) : wire[Peer(e)][k].num # n
      <3>1. \A k \in 1..Len(wire[Peer(e)]) : wire[Peer(e)][k].num \in 1..Len(idOf)
        BY Ends, SegmentSocket DEF StreamInv, RoutingInv
      <3> QED
        BY <1>2, <1>7, <3>1
    <2>7. Coming(r, p.sent, wire[Peer(e)], n, Carries(Peer(e)))
      BY <2>3, <2>4, <2>6 DEF Coming, Data, UpTo
    <2>8. Stream(e, n)
      BY <2>5, <2>7 DEF Stream, r, p
    <2> QED
      BY <1>1, <1>4, <1>5, <1>7, <2>1, <2>8, Untouched
  <1>8. n \in 1..Len(idOf) \/ n = m
    BY <1>2
  <1> QED
    BY <1>6, <1>7, <1>8

LEMMA StreamStep ==
    ASSUME StreamInv, [Next]_vars
    PROVE  StreamInv'
  <1>1. TypeInv' /\ RoutingInv'
    BY RoutingStep DEF StreamInv, RoutingInv
  <1>2. Streams'
    BY <1>1, Steps, StreamsQuiet, StreamsReads, StreamsSends, StreamsTakes, StreamsReserves
    DEF StreamInv, RoutingInv
  <1> QED
    BY <1>1, <1>2 DEF StreamInv

LEMMA InitStreamInv == Init => StreamInv
  <1> SUFFICES ASSUME Init PROVE StreamInv
    OBVIOUS
  <1>1. TypeInv /\ Silence
    BY InitTypeInv, InitSilence
  <1>2. AtWork
    BY DEF Init, AtWork, Busy, NewSocket
  <1>3. Len(idOf) = 0 /\ \A e \in End : Len(wire[e]) = 0
    BY DEF Init
  <1>4. Routing
    BY <1>3, Ends DEF Routing, LastSpeaks, RoutedDown, RoutedUp
  <1>5. Streams
    BY <1>3 DEF Streams
  <1> QED
    BY <1>1, <1>2, <1>4, <1>5 DEF StreamInv, RoutingInv

\* For every window, number of ids and tunnels and amount of data, and whatever
\* is closed, cut or killed: the socket of a tunnel whose id was not reused too
\* early reads exactly what its own peer has written, and EOF behind all of it.
THEOREM NiaucchiStreamIntegrity == Spec => []StreamIntegrity
  <1>1. StreamInv => StreamIntegrity
    <2> SUFFICES ASSUME StreamInv, NEW e \in End, NEW n \in Uncrossed,
                        NEW k \in DOMAIN sok[<<e, n>>].got
                 PROVE  LET got == sok[<<e, n>>].got
                        IN  \/ got[k] = <<n, k>> /\ k <= sok[<<Peer(e), n>>].sent
                            \/ /\ got[k] = <<n, 0>> /\ k = Len(got)
                               /\ k = sok[<<Peer(e), n>>].sent + 1
      BY DEF StreamIntegrity
    <2>1. n \in 1..Len(idOf) /\ idOf[n] \notin crossed
      BY DEF Uncrossed, StreamInv, RoutingInv, TypeInv, Types
    <2>2. /\ n \in Nat /\ n > 0 /\ Stream(e, n)
          /\ sok[<<e, n>>] \in SocketRec /\ sok[<<Peer(e), n>>] \in SocketRec
      BY <2>1, StreamTypes
    <2>3. PICK r \in SocketRec, p \in SocketRec : r = sok[<<e, n>>] /\ p = sok[<<Peer(e), n>>]
      BY <2>2
    <2>4. Received(r, p, n)
      BY <2>2, <2>3 DEF Stream
    <2>5. PICK G \in Nat, I \in Nat : Len(r.got) = G /\ Len(r.incoming) = I
      BY SocketLengths
    <2>6. k \in 1..G
      <3>1. r.got \in Seq(Nums \X Nat)
        BY DEF SocketRec
      <3> QED
        BY <2>3, <2>5, <3>1
    <2>7. p.sent \in Nat
      BY DEF SocketRec
    <2>8. Arrived(r) = G + I
      BY <2>5 DEF Arrived
    <2>9. \/ r.got[k] = <<n, k>>
          \/ r.got[k] = <<n, 0>> /\ k = G /\ I = 0
      BY <2>4, <2>5, <2>6 DEF Received
    <2>10. CASE r.got[k] = <<n, k>>
      <3>1. CASE ~Ended(r)
        <4>1. G + I <= p.sent
          BY <2>4, <2>8, <3>1 DEF Received
        <4> QED
          BY <2>3, <2>6, <2>7, <2>10, <4>1
      <3>2. CASE Ended(r)
        <4>1. G + I = p.sent + 1
          BY <2>4, <2>8, <3>2 DEF Received
        <4>2. k < G + I
          <5>1. CASE k < G
            BY <2>6, <5>1
          <5>2. CASE k = G
            <6>1. r.got[G][2] # 0
              BY <2>6, <2>10, <5>2
            <6>2. I > 0
              BY <2>5, <3>2, <6>1 DEF Ended
            <6> QED
              BY <5>2, <6>2
          <5> QED
            BY <2>6, <5>1, <5>2
        <4> QED
          BY <2>3, <2>6, <2>7, <2>10, <4>1, <4>2
      <3> QED
        BY <3>1, <3>2
    <2>11. CASE r.got[k] = <<n, 0>> /\ k = G /\ I = 0
      <3>1. Ended(r)
        <4>1. G > 0 /\ r.got[G][2] = 0
          BY <2>6, <2>11
        <4> QED
          BY <2>5, <4>1 DEF Ended
      <3>2. G + I = p.sent + 1
        BY <2>4, <2>8, <3>1 DEF Received
      <3> QED
        BY <2>3, <2>5, <2>7, <2>11, <3>2
    <2> QED
      BY <2>9, <2>10, <2>11
  <1> QED
    BY <1>1, InitStreamInv, StreamStep, PTL DEF Spec

-----------------------------------------------------------------------------
(* Credit.  The window of a socket p and of the socket r that reads from it *)
(* are one account.                                                         *)

\* The ICWDs of tunnel n on wire w
IcwdsAt(w, n) == {k \in 1..Len(w) : w[k].flag = "ICWD" /\ w[k].num = n}
Icwds(w, n) == Cardinality(IcwdsAt(w, n))

LEMMA IcwdsFinite ==
    ASSUME NEW w \in Seq(SegmentRec), NEW n
    PROVE  IsFiniteSet(IcwdsAt(w, n)) /\ Icwds(w, n) \in Nat
  <1>1. Len(w) \in Int /\ 1 \in Int
    OBVIOUS
  <1>2. IsFiniteSet(1..Len(w))
    BY <1>1, FS_Interval
  <1>3. IcwdsAt(w, n) \in SUBSET (1..Len(w))
    BY DEF IcwdsAt
  <1>4. IsFiniteSet(IcwdsAt(w, n))
    BY <1>2, <1>3, FS_Subset
  <1> QED
    BY <1>4, FS_CardinalityType DEF Icwds

LEMMA IcwdsNone ==
    ASSUME NEW w, NEW n, \A k \in 1..Len(w) : w[k].num # n
    PROVE  Icwds(w, n) = 0
  <1>1. IcwdsAt(w, n) = {}
    BY DEF IcwdsAt
  <1> QED
    BY <1>1, FS_EmptySet DEF Icwds

\* A segment more at the end of a wire
LEMMA IcwdsAppend ==
    ASSUME NEW w \in Seq(SegmentRec), NEW x \in SegmentRec, NEW n
    PROVE  Icwds(Append(w, x), n)
             = IF x.flag = "ICWD" /\ x.num = n THEN Icwds(w, n) + 1 ELSE Icwds(w, n)
  <1> DEFINE v == Append(w, x)
             L == Len(w) + 1
  <1>1. Len(v) = L /\ v[L] = x /\ (\A k \in 1..Len(w) : v[k] = w[k]) /\ Len(w) \in Nat
    BY AppendProperties
  <1> HIDE DEF v
  <1>2. L \notin IcwdsAt(w, n) /\ IsFiniteSet(IcwdsAt(w, n))
    <2>1. L \notin IcwdsAt(w, n)
      BY <1>1 DEF IcwdsAt
    <2> QED
      BY <2>1, IcwdsFinite
  <1>3. \A k : k \in 1..L <=> k \in 1..Len(w) \/ k = L
    BY <1>1
  <1>4. CASE x.flag = "ICWD" /\ x.num = n
    <2>1. IcwdsAt(v, n) = IcwdsAt(w, n) \cup {L}
      BY <1>1, <1>3, <1>4 DEF IcwdsAt
    <2>2. Cardinality(IcwdsAt(w, n) \cup {L}) = Cardinality(IcwdsAt(w, n)) + 1
      BY <1>2, FS_AddElement
    <2> QED
      BY <1>4, <2>1, <2>2 DEF Icwds, v
  <1>5. CASE ~(x.flag = "ICWD" /\ x.num = n)
    <2>1. IcwdsAt(v, n) = IcwdsAt(w, n)
      BY <1>1, <1>3, <1>5 DEF IcwdsAt
    <2> QED
      BY <1>5, <2>1 DEF Icwds, v
  <1> QED
    BY <1>4, <1>5

\* The first segment off a wire
LEMMA IcwdsTail ==
    ASSUME NEW w \in Seq(SegmentRec), w # <<>>, NEW n
    PROVE  Icwds(w, n)
             = IF w[1].flag = "ICWD" /\ w[1].num = n THEN Icwds(Tail(w), n) + 1
                                                     ELSE Icwds(Tail(w), n)
  <1> DEFINE v == Tail(w)
             f == [k \in IcwdsAt(v, n) |-> k + 1]
             later == IcwdsAt(w, n) \ {1}
  <1>1. /\ v \in Seq(SegmentRec) /\ Len(w) \in Nat /\ Len(w) > 0 /\ Len(v) = Len(w) - 1
        /\ \A k \in 1..Len(v) : v[k] = w[k + 1]
    BY HeadTailProperties
  <1> HIDE DEF v
  <1>2. \A k : k \in IcwdsAt(v, n) => k \in Nat /\ k + 1 \in later
    BY <1>1 DEF IcwdsAt
  <1>3. \A k \in later : k - 1 \in IcwdsAt(v, n) /\ (k - 1) + 1 = k
    BY <1>1 DEF IcwdsAt
  <1>4. f \in [IcwdsAt(v, n) -> later]
    BY <1>2
  <1>5. \A a, b \in IcwdsAt(v, n) : f[a] = f[b] => a = b
    BY <1>2
  <1>6. \A t \in later : \E s \in IcwdsAt(v, n) : f[s] = t
    BY <1>3
  <1> HIDE DEF f
  <1>7. f \in Bijection(IcwdsAt(v, n), later)
    BY <1>4, <1>5, <1>6, Fun_IsBij
  <1>8. ExistsBijection(IcwdsAt(v, n), later)
    BY <1>7, Fun_ExistsBij
  <1>9. IsFiniteSet(IcwdsAt(v, n)) /\ IsFiniteSet(IcwdsAt(w, n))
    BY <1>1, IcwdsFinite
  <1>10. Cardinality(later) = Icwds(v, n)
    BY <1>8, <1>9, FS_Bijection DEF Icwds
  <1>11. Cardinality(later) = IF 1 \in IcwdsAt(w, n) THEN Icwds(w, n) - 1 ELSE Icwds(w, n)
    BY <1>9, FS_RemoveElement DEF Icwds
  <1>12. 1 \in IcwdsAt(w, n) <=> w[1].flag = "ICWD" /\ w[1].num = n
    BY <1>1 DEF IcwdsAt
  <1>13. Icwds(w, n) \in Nat
    BY IcwdsFinite
  <1> QED
    BY <1>10, <1>11, <1>12, <1>13 DEF v

\* What a writing socket p has put into its window beyond what it has sent
Put(p) == p.sendwind - p.sent - IF p.holding THEN 1 ELSE 0

\* The DATA that a reading socket r has returned, EOF apart
Returned(r) ==
    IF Len(r.got) > 0 /\ r.got[Len(r.got)][2] = 0 THEN Len(r.got) - 1 ELSE Len(r.got)

\* recvcount stands for a whole window as long as it is zero.
Remaining(r) == IF r.recvcount = 0 THEN Window ELSE r.recvcount

\* What r has yet to give back of the DATA it has not returned
Due(r) == Count * r.owed + Window - Remaining(r) - Returned(r)

\* Whatever r and the wire still owe to p, p has put into its window: what it
\* has sent and r has not counted, and Count for every ICWD.
Covered(e, n) ==
    Count * Icwds(wire[Peer(e)], n) + Due(sok[<<Peer(e), n>>]) <= Put(sok[<<e, n>>])
Credits == \A e \in End : \A n \in 1..Len(idOf) : idOf[n] \notin crossed => Covered(e, n)

CreditInv == StreamInv /\ Credits

LEMMA Products ==
    \A x \in Nat : /\ Count * x \in Nat /\ Count * (x + 1) = Count * x + Count
                   /\ Count * 0 = 0
  BY Numbers

LEMMA LedgerTypes ==
    ASSUME NEW r \in SocketRec
    PROVE  /\ Put(r) \in Int /\ Due(r) \in Int /\ Returned(r) \in Nat
           /\ Remaining(r) \in 0..Window /\ Count * r.owed \in Nat
           /\ r.sendwind \in 0..Window /\ r.sent \in Nat /\ r.recvcount \in 0..(Window - 1)
  <1>1. /\ r.sendwind \in 0..Window /\ r.sent \in Nat /\ r.recvcount \in 0..(Window - 1)
        /\ r.owed \in Nat /\ Len(r.got) \in Nat
    BY DEF SocketRec
  <1>2. Count * r.owed \in Nat
    BY <1>1, Products
  <1>3. Put(r) \in Int
    BY <1>1, Numbers DEF Put
  <1>4. Returned(r) \in Nat
    BY <1>1 DEF Returned
  <1>5. Remaining(r) \in 0..Window
    BY <1>1, Numbers DEF Remaining
  <1>6. Due(r) \in Int
    BY <1>2, <1>4, <1>5, Numbers DEF Due
  <1> QED
    BY <1>1, <1>2, <1>3, <1>4, <1>5, <1>6

\* A socket in which a step changes nothing that the account reads
Level(q, r) ==
    /\ q.sendwind = r.sendwind /\ q.holding = r.holding /\ q.sent = r.sent
    /\ q.recvcount = r.recvcount /\ q.owed = r.owed /\ q.got = r.got

\* A step that makes no account worse: p has put in as much, r owes no more.
LevelOrBetter(q, r) == Put(q) >= Put(r) /\ Due(q) <= Due(r)

LEMMA LevelFacts ==
    ASSUME NEW r \in SocketRec, NEW q, Level(q, r)
    PROVE  LevelOrBetter(q, r) /\ Put(q) = Put(r) /\ Due(q) = Due(r)
  <1>1. Put(q) = Put(r) /\ Due(q) = Due(r)
    BY DEF Level, Put, Due, Returned, Remaining
  <1> QED
    BY <1>1, LedgerTypes DEF LevelOrBetter

\* What Pack and Unpacked do to the ICWDs on the wires
LEMMA IcwdsPacked ==
    ASSUME TypeInv, NEW e \in End, NEW seg \in SegmentRec, Pack(e, seg),
           NEW f \in End, NEW n
    PROVE  Icwds(wire'[f], n)
             <= Icwds(wire[f], n) + IF f = e /\ seg.flag = "ICWD" /\ seg.num = n THEN 1 ELSE 0
  <1>1. wire[f] \in Seq(SegmentRec) /\ wire \in [End -> Seq(SegmentRec)]
    BY DEF TypeInv, Types
  <1>2. Icwds(wire[f], n) \in Nat
    BY <1>1, IcwdsFinite
  <1>3. \/ wire'[f] = wire[f]
        \/ f = e /\ wire'[f] = Append(wire[f], seg)
    <2>1. CASE Carries(e)
      <3>1. wire' = [wire EXCEPT ![e] = Append(wire[e], seg)]
        BY <2>1 DEF Pack
      <3>2. \A x : [wire EXCEPT ![e] = x][f] = IF f = e THEN x ELSE wire[f]
        BY <1>1
      <3> QED
        BY <3>1, <3>2
    <2>2. CASE ~Carries(e)
      <3>1. wire' = wire
        BY <2>2 DEF Pack
      <3> QED
        BY <3>1
    <2> QED
      BY <2>1, <2>2
  <1>4. CASE wire'[f] = wire[f]
    BY <1>2, <1>4
  <1>5. CASE f = e /\ wire'[f] = Append(wire[f], seg)
    <2>1. Icwds(Append(wire[f], seg), n)
            = IF seg.flag = "ICWD" /\ seg.num = n THEN Icwds(wire[f], n) + 1
                                                  ELSE Icwds(wire[f], n)
      BY <1>1, IcwdsAppend
    <2> QED
      BY <1>2, <1>5, <2>1
  <1> QED
    BY <1>3, <1>4, <1>5

LEMMA IcwdsUnpacked ==
    ASSUME TypeInv, NEW e \in End, wire[Peer(e)] # <<>>, Unpacked(e),
           NEW f \in End, NEW n
    PROVE  LET seg == wire[Peer(e)][1]
           IN  Icwds(wire[f], n)
                 = Icwds(wire'[f], n)
                   + IF f = Peer(e) /\ seg.flag = "ICWD" /\ seg.num = n THEN 1 ELSE 0
  <1>1. wire \in [End -> Seq(SegmentRec)] /\ Peer(e) \in End /\ wire[f] \in Seq(SegmentRec)
    BY Ends DEF TypeInv, Types
  <1>2. wire' = [wire EXCEPT ![Peer(e)] = Tail(wire[Peer(e)])]
    BY DEF Unpacked
  <1>3. CASE f = Peer(e)
    <2>1. wire'[f] = Tail(wire[f]) /\ Tail(wire[f]) \in Seq(SegmentRec)
      BY <1>1, <1>2, <1>3, HeadTailProperties
    <2>2. Icwds(Tail(wire[f]), n) \in Nat
      BY <2>1, IcwdsFinite
    <2>3. Icwds(wire[f], n)
            = IF wire[f][1].flag = "ICWD" /\ wire[f][1].num = n
                THEN Icwds(Tail(wire[f]), n) + 1 ELSE Icwds(Tail(wire[f]), n)
      BY <1>1, <1>3, IcwdsTail
    <2> QED
      BY <1>3, <2>1, <2>2, <2>3
  <1>4. CASE f # Peer(e)
    <2>1. wire'[f] = wire[f]
      BY <1>1, <1>2, <1>4
    <2>2. Icwds(wire[f], n) \in Nat
      BY <1>1, IcwdsFinite
    <2> QED
      BY <1>4, <2>1, <2>2
  <1> QED
    BY <1>3, <1>4

\* Socket t is that of a tunnel whose id was not reused too early.
Honest(t) == t[2] \in 1..Len(idOf) /\ idOf[t[2]] \notin crossed

\* No account becomes worse.
Solvent ==
    /\ UNCHANGED <<idOf, crossed>>
    /\ \A t \in Sockets : Honest(t) => LevelOrBetter(sok'[t], sok[t])
    /\ \A e \in End, n \in Nums : Icwds(wire'[e], n) <= Icwds(wire[e], n)

\* Socket s sends an ICWD that it owes, or has died and sends none.
Credited(s) ==
    /\ UNCHANGED <<idOf, crossed>>
    /\ \A t \in Sockets \ {s} : LevelOrBetter(sok'[t], sok[t])
    /\ Put(sok'[s]) = Put(sok[s]) /\ Due(sok'[s]) = Due(sok[s]) - Count
    /\ \A e \in End, n \in Nums :
         Icwds(wire'[e], n) <= Icwds(wire[e], n) + IF <<e, n>> = s THEN 1 ELSE 0

\* End e takes an ICWD off the wire and as many tokens out of the window of
\* socket d.
Cashed(e, d, num) ==
    /\ UNCHANGED <<idOf, crossed>>
    /\ \A t \in Sockets \ {d} : LevelOrBetter(sok'[t], sok[t])
    /\ Put(sok'[d]) = Put(sok[d]) - Count /\ Due(sok'[d]) = Due(sok[d])
    /\ \A f \in End, n \in Nums :
         Icwds(wire[f], n) = Icwds(wire'[f], n) + IF f = Peer(e) /\ n = num THEN 1 ELSE 0

\* A step of socket s that puts no ICWD on a wire
LEMMA SolventSocket ==
    ASSUME TypeInv, NEW s \in Sockets, NEW q, sok' = [sok EXCEPT ![s] = q],
           Honest(s) => LevelOrBetter(q, sok[s]), UNCHANGED <<idOf, crossed>>,
           \/ wire' = wire
           \/ \E seg \in SegmentRec : seg.flag # "ICWD" /\ Pack(s[1], seg)
    PROVE  Solvent
  <1>1. sok'[s] = q /\ \A t \in Sockets \ {s} : sok'[t] = sok[t] /\ sok[t] \in SocketRec
    BY DEF TypeInv, Types
  <1>2. \A t \in Sockets \ {s} : LevelOrBetter(sok'[t], sok[t])
    BY <1>1, LevelFacts DEF Level
  <1>3. ASSUME NEW e \in End, NEW n \in Nums
        PROVE  Icwds(wire'[e], n) <= Icwds(wire[e], n)
    <2>1. wire[e] \in Seq(SegmentRec)
      BY DEF TypeInv, Types
    <2>2. Icwds(wire[e], n) \in Nat
      BY <2>1, IcwdsFinite
    <2>3. CASE wire' = wire
      BY <2>2, <2>3
    <2>4. ASSUME NEW seg \in SegmentRec, seg.flag # "ICWD", Pack(s[1], seg)
          PROVE  Icwds(wire'[e], n) <= Icwds(wire[e], n)
      <3>1. s[1] \in End
        BY Ends
      <3>2. Icwds(wire'[e], n)
              <= Icwds(wire[e], n) + IF e = s[1] /\ seg.flag = "ICWD" /\ seg.num = n THEN 1 ELSE 0
        BY <2>4, <3>1, IcwdsPacked
      <3> QED
        BY <2>2, <2>4, <3>2
    <2> QED
      BY <2>3, <2>4
  <1> QED
    BY <1>1, <1>2, <1>3 DEF Solvent

LEMMA TakeTokenSolvent ==
    ASSUME TypeInv, NEW s \in Sockets, TakeToken(s)
    PROVE  Solvent
  <1> DEFINE r == sok[s]
             q == [r EXCEPT !.sendwind = @ + 1, !.holding = TRUE]
  <1>1. r \in SocketRec /\ ~r.holding
    BY DEF TakeToken, TypeInv, Types
  <1>2. sok' = [sok EXCEPT ![s] = q]
    BY DEF TakeToken, TypeInv, Types
  <1>3. /\ q.sendwind = r.sendwind + 1 /\ q.holding /\ q.sent = r.sent
        /\ q.recvcount = r.recvcount /\ q.owed = r.owed /\ q.got = r.got
    BY <1>1 DEF SocketRec
  <1> HIDE DEF r, q
  <1>4. r.sendwind \in Nat /\ r.sent \in Nat /\ Due(r) \in Int
    BY <1>1, LedgerTypes, Numbers
  <1>5. Put(q) = Put(r)
    BY <1>1, <1>3, <1>4 DEF Put
  <1>6. Due(q) = Due(r)
    BY <1>3 DEF Due, Returned, Remaining
  <1>7. LevelOrBetter(q, r)
    BY <1>1, <1>5, <1>6, LedgerTypes DEF LevelOrBetter
  <1>8. UNCHANGED <<idOf, wire, crossed>>
    BY DEF TakeToken, socketOnly
  <1> QED
    BY <1>2, <1>7, <1>8, SolventSocket DEF r

LEMMA SendDataSolvent ==
    ASSUME TypeInv, NEW s \in Sockets, SendData(s)
    PROVE  Solvent
  <1> DEFINE r == sok[s]
  <1>1. r \in SocketRec /\ r.holding /\ s[2] <= Len(idOf)
    <2>1. r.holding
      BY DEF SendData
    <2>2. s[2] \in 1..Len(idOf) /\ Len(idOf) \in Nat
      BY <2>1, Drawn DEF TypeInv, Types
    <2> QED
      BY <2>1, <2>2 DEF TypeInv, Types
  <1>2. /\ r.sendwind \in Nat /\ r.sent \in Nat /\ Due(r) \in Int
    BY <1>1, LedgerTypes, Numbers
  <1>3. UNCHANGED <<idOf, crossed>>
    BY DEF SendData, socketOnly
  <1>4. ASSUME NEW q, q.sendwind = r.sendwind, ~q.holding, q.sent \in {r.sent, r.sent + 1},
               q.recvcount = r.recvcount, q.owed = r.owed, q.got = r.got
        PROVE  LevelOrBetter(q, r)
    <2> HIDE DEF r
    <2>1. Put(q) >= Put(r)
      BY <1>1, <1>2, <1>4 DEF Put
    <2>2. Due(q) = Due(r)
      BY <1>4 DEF Due, Returned, Remaining
    <2> QED
      BY <1>2, <2>1, <2>2 DEF LevelOrBetter
  <1>5. CASE ~r.dead
    <2> DEFINE q == [r EXCEPT !.holding = FALSE, !.sent = @ + 1]
               seg == Segment("DATA", s[2], r.sent + 1)
    <2>1. sok' = [sok EXCEPT ![s] = q] /\ Pack(s[1], seg)
      BY <1>5 DEF SendData, MayWrite, TypeInv, Types
    <2>2. LevelOrBetter(q, r)
      <3>1. /\ q.sendwind = r.sendwind /\ ~q.holding /\ q.sent = r.sent + 1
            /\ q.recvcount = r.recvcount /\ q.owed = r.owed /\ q.got = r.got
        BY <1>1 DEF SocketRec
      <3> HIDE DEF r, q
      <3> QED
        BY <1>4, <3>1
    <2>segment. seg = Segment("DATA", s[2], r.sent + 1)
      OBVIOUS
    <2> HIDE DEF seg
    <2>3. seg \in SegmentRec /\ seg.flag = "DATA"
      <3>1. r.sent + 1 \in Nat
        BY <1>2
      <3> QED
        BY <1>1, <2>segment, <3>1, SegmentFacts
    <2> QED
      BY <1>3, <2>1, <2>2, <2>3, SolventSocket
  <1>6. CASE r.dead
    <2> DEFINE q == [r EXCEPT !.holding = FALSE]
    <2>1. sok' = [sok EXCEPT ![s] = q] /\ wire' = wire
      BY <1>6 DEF SendData, MayWrite, TypeInv, Types
    <2>2. LevelOrBetter(q, r)
      <3>1. /\ q.sendwind = r.sendwind /\ ~q.holding /\ q.sent = r.sent
            /\ q.recvcount = r.recvcount /\ q.owed = r.owed /\ q.got = r.got
        BY <1>1 DEF SocketRec
      <3> HIDE DEF r, q
      <3> QED
        BY <1>4, <3>1
    <2> QED
      BY <1>3, <2>1, <2>2, SolventSocket
  <1> QED
    BY <1>5, <1>6

\* A step of socket s that leaves its account alone
LEMMA LevelSolvent ==
    ASSUME TypeInv, NEW s \in Sockets, NEW q, sok' = [sok EXCEPT ![s] = q], Level(q, sok[s]),
           UNCHANGED <<idOf, crossed>>,
           \/ wire' = wire
           \/ \E seg \in SegmentRec : seg.flag # "ICWD" /\ Pack(s[1], seg)
    PROVE  Solvent
  <1>1. sok[s] \in SocketRec
    BY DEF TypeInv, Types
  <1>2. LevelOrBetter(q, sok[s])
    BY <1>1, LevelFacts
  <1> QED
    BY <1>2, SolventSocket

LEMMA CloseSolvent ==
    ASSUME TypeInv, NEW s \in Sockets, Close(s)
    PROVE  Solvent
  <1> DEFINE q == [sok[s] EXCEPT !.closed = TRUE, !.dead = TRUE]
             seg == Segment("CLOS", s[2], 0)
  <1>1. sok[s] \in SocketRec /\ s[2] <= Len(idOf)
    BY Drawn DEF TypeInv, Types, Close
  <1>2. sok' = [sok EXCEPT ![s] = q] /\ Pack(s[1], seg) /\ UNCHANGED <<idOf, crossed>>
    BY DEF Close, socketOnly, TypeInv, Types
  <1>3. Level(q, sok[s])
    BY <1>1 DEF Level, SocketRec
  <1>segment. seg = Segment("CLOS", s[2], 0)
    OBVIOUS
  <1> HIDE DEF seg, q
  <1>4. seg \in SegmentRec /\ seg.flag = "CLOS"
    BY <1>1, <1>segment, SegmentFacts
  <1> QED
    BY <1>2, <1>3, <1>4, LevelSolvent

LEMMA OpenTunnelSolvent ==
    ASSUME TypeInv, NEW n \in Nums, OpenTunnel(n)
    PROVE  Solvent
  <1> DEFINE s == <<"client", n>>
             q == Opened(sok[s])
             seg == Segment("OPEN", s[2], 0)
  <1>1. s \in Sockets /\ sok[s] \in SocketRec /\ s[2] <= Len(idOf)
    <2>1. s \in Sockets
      BY Ends
    <2>2. sok[s].stage = "reserved"
      BY DEF OpenTunnel
    <2> HIDE DEF s
    <2>3. s[2] \in 1..Len(idOf) /\ Len(idOf) \in Nat
      BY <2>1, <2>2, Drawn DEF TypeInv, Types
    <2> QED
      BY <2>1, <2>3 DEF TypeInv, Types
  <1>2. sok' = [sok EXCEPT ![s] = q] /\ Pack(s[1], seg) /\ UNCHANGED <<idOf, crossed>>
    BY <1>1 DEF OpenTunnel, TypeInv, Types
  <1>3. Level(q, sok[s])
    BY <1>1 DEF Level, SocketRec, Opened
  <1>segment. seg = Segment("OPEN", s[2], 0)
    OBVIOUS
  <1> HIDE DEF seg, q, s
  <1>4. seg \in SegmentRec /\ seg.flag = "OPEN"
    BY <1>1, <1>segment, SegmentFacts
  <1> QED
    BY <1>1, <1>2, <1>3, <1>4, LevelSolvent

LEMMA DyingSolvent ==
    ASSUME TypeInv, NEW s \in Sockets,
           ReadDying(s) \/ ReadTimeout(s) \/ WriteTimeout(s) \/ TieUp(s)
    PROVE  Solvent
  <1>1. sok[s] \in SocketRec
    BY DEF TypeInv, Types
  <1>2. UNCHANGED <<idOf, wire, crossed>>
    BY DEF ReadDying, ReadTimeout, WriteTimeout, TieUp, socketOnly
  <1> DEFINE dies == [sok[s] EXCEPT !.dead = TRUE]
             stops == [sok[s] EXCEPT !.reading = FALSE]
             both == [sok[s] EXCEPT !.dead = TRUE, !.reading = FALSE]
  <1>3. Level(dies, sok[s]) /\ Level(stops, sok[s]) /\ Level(both, sok[s])
    BY <1>1 DEF Level, SocketRec
  <1>4. \/ sok' = [sok EXCEPT ![s] = dies]
        \/ sok' = [sok EXCEPT ![s] = stops]
        \/ sok' = [sok EXCEPT ![s] = both]
    BY <1>1 DEF ReadDying, ReadTimeout, WriteTimeout, TieUp, TypeInv, Types, SocketRec
  <1> HIDE DEF dies, stops, both
  <1> QED
    BY <1>2, <1>3, <1>4, LevelSolvent

LEMMA AcceptSolvent ==
    ASSUME TypeInv, Accept
    PROVE  Solvent
  <1> DEFINE s == <<"server", Head(acptQueue)>>
             q == Opened(sok[s])
  <1>1. acptQueue \in Seq(1..Len(idOf)) /\ acptQueue # <<>>
    BY DEF Accept, TypeInv, Types
  <1>2. Head(acptQueue) \in 1..Len(idOf)
    BY <1>1, HeadTailProperties
  <1>3. s \in Sockets
    BY <1>2, Ends, NumFacts
  <1>4. sok' = [sok EXCEPT ![s] = q] /\ UNCHANGED <<idOf, wire, crossed>>
    BY <1>3 DEF Accept, TypeInv, Types
  <1> HIDE DEF s
  <1>5. Level(q, sok[s])
    BY <1>3 DEF Level, SocketRec, Opened, TypeInv, Types
  <1> HIDE DEF q
  <1> QED
    BY <1>3, <1>4, <1>5, LevelSolvent

\* One segment read: what the count loses the ICWD owed for it restores.
LEMMA ReadCounted ==
    ASSUME NEW r \in SocketRec, NEW mark \in LowMark..HighMark,
           NEW left, left = Uint8Dec(r.recvcount),
           NEW q, q.recvcount = IF left < mark THEN Uint8Add(left, Count) ELSE left,
           q.owed = IF left < mark THEN r.owed + 1 ELSE r.owed,
           Returned(q) > Returned(r), Returned(q) \in Nat
    PROVE  Due(q) <= Due(r)
  <1>1. /\ r.recvcount \in 0..(Window - 1) /\ r.owed \in Nat /\ Returned(r) \in Nat
    BY LedgerTypes DEF SocketRec
  <1>2. PICK m \in Nat, g \in Nat, h \in Nat, x \in Nat :
          m = mark /\ g = Returned(r) /\ h = Returned(q) /\ x = r.recvcount
    BY <1>1, Numbers
  <1>3. Window \in Nat /\ Count \in Nat /\ Count > 0 /\ m >= 1 /\ m + Count <= Window
    BY <1>2, NiaucchiAssumption
  <1>4. Remaining(r) \in Nat /\ left \in Nat /\ left = Remaining(r) - 1 /\ left < Window
    BY <1>1, <1>2, <1>3 DEF Remaining, Uint8Dec
  <1>5. PICK b \in Nat : b = Count * r.owed
    BY <1>1, Products
  <1>6. CASE left < m
    <2>1. q.recvcount = left + Count /\ q.recvcount > 0
      BY <1>2, <1>3, <1>4, <1>6 DEF Uint8Add
    <2>2. Remaining(q) = left + Count
      BY <1>3, <1>4, <2>1 DEF Remaining
    <2>3. Count * q.owed = b + Count
      BY <1>1, <1>2, <1>5, <1>6, Products
    <2> QED
      BY <1>2, <1>3, <1>4, <1>5, <2>2, <2>3 DEF Due
  <1>7. CASE ~(left < m)
    <2>1. q.recvcount = left /\ q.owed = r.owed
      BY <1>2, <1>7
    <2>2. Remaining(q) = left
      BY <1>3, <1>4, <1>7, <2>1 DEF Remaining
    <2> QED
      BY <1>2, <1>3, <1>4, <1>5, <2>1, <2>2 DEF Due
  <1> QED
    BY <1>6, <1>7

\* DATA in incoming of a socket of an honest tunnel has a position.
LEMMA DataPlaced ==
    ASSUME StreamInv, NEW s \in Sockets, Honest(s), Len(sok[s].incoming) > 0,
           sok[s].incoming[1].flag = "DATA"
    PROVE  sok[s].incoming[1].pos > 0
  <1>1. s[1] \in End /\ s = <<s[1], s[2]>> /\ s[2] \in 1..Len(idOf) /\ idOf[s[2]] \notin crossed
    BY Ends DEF Honest
  <1>2. Stream(s[1], s[2]) /\ sok[s] \in SocketRec
    BY <1>1, StreamTypes
  <1>3. PICK r, p : r \in SocketRec /\ r = sok[s] /\ p = sok[<<Peer(s[1]), s[2]>>]
    BY <1>2
  <1>4. Received(r, p, s[2])
    BY <1>1, <1>2, <1>3 DEF Stream
  <1>5. PICK G \in Nat, I \in Nat : Len(r.got) = G /\ Len(r.incoming) = I
    BY <1>3, SocketLengths
  <1>6. 1 \in 1..Len(r.incoming)
    BY <1>3, <1>5
  <1>7. r.incoming[1].pos = Len(r.got) + 1
    BY <1>3, <1>4, <1>6 DEF Received
  <1> QED
    BY <1>3, <1>5, <1>7

LEMMA ReadDataSolvent ==
    ASSUME StreamInv, NEW s \in Sockets, ReadData(s)
    PROVE  Solvent
  <1> DEFINE r == sok[s]
             seg == r.incoming[1]
             left == Uint8Dec(r.recvcount)
             item == <<seg.num, seg.pos>>
  <1>1. /\ TypeInv /\ r \in SocketRec /\ r.incoming # <<>>
        /\ r.incoming \in Seq(SegmentRec) /\ r.got \in Seq(Nums \X Nat)
    BY DEF ReadData, StreamInv, RoutingInv, TypeInv, Types, SocketRec
  <1>2. /\ Head(r.incoming) = seg /\ Len(r.incoming) > 0 /\ seg \in SegmentRec
    BY <1>1
  <1>3. PICK mark \in LowMark..HighMark :
          sok' = [sok EXCEPT
                    ![s].reading = ~sok[s].dead,
                    ![s].incoming = Tail(@),
                    ![s].got = Append(@, item),
                    ![s].recvcount = IF left < mark THEN Uint8Add(left, Count) ELSE left,
                    ![s].owed = IF left < mark THEN @ + 1 ELSE @]
    BY <1>2 DEF ReadData
  <1> DEFINE count == IF left < mark THEN Uint8Add(left, Count) ELSE left
             owing == IF left < mark THEN r.owed + 1 ELSE r.owed
             q == [r EXCEPT !.reading = ~r.dead, !.incoming = Tail(r.incoming),
                            !.got = Append(r.got, item), !.recvcount = count, !.owed = owing]
  <1>4. sok' = [sok EXCEPT ![s] = q]
    BY <1>1, <1>3 DEF SocketRec, TypeInv, Types
  <1>5. /\ q.sendwind = r.sendwind /\ q.holding = r.holding /\ q.sent = r.sent
        /\ q.recvcount = count /\ q.owed = owing /\ q.got = Append(r.got, item)
    BY <1>1 DEF SocketRec
  <1>6. seg.flag = "DATA" /\ UNCHANGED <<idOf, wire, crossed>>
    BY <1>2 DEF ReadData, socketOnly
  <1>7. Honest(s) => seg.pos > 0
    BY <1>2, <1>6, DataPlaced
  <1>8. item \in Nums \X Nat /\ item[2] = seg.pos
    BY <1>2 DEF SegmentRec
  <1> HIDE DEF q, item, seg, count, owing, left
  <1>9. Put(q) = Put(r) /\ Put(r) \in Int
    BY <1>1, <1>5, LedgerTypes DEF Put
  <1>10. ASSUME Honest(s) PROVE LevelOrBetter(q, r)
    <2>1. /\ Len(q.got) = Len(r.got) + 1 /\ q.got[Len(r.got) + 1] = item /\ Len(r.got) \in Nat
      BY <1>1, <1>5, <1>8, AppendProperties
    <2>2. item[2] # 0
      BY <1>7, <1>8, <1>10
    <2> HIDE DEF r
    <2>3. Returned(q) = Len(r.got) + 1
      BY <2>1, <2>2 DEF Returned
    <2>4. Returned(r) <= Len(r.got) /\ Returned(r) \in Nat
      BY <1>1, <2>1, LedgerTypes DEF Returned
    <2>5. Returned(q) > Returned(r) /\ Returned(q) \in Nat
      BY <2>1, <2>3, <2>4
    <2>6. Due(q) <= Due(r)
      BY <1>1, <1>5, <2>5, ReadCounted DEF count, owing, left
    <2> QED
      BY <1>9, <2>6 DEF LevelOrBetter
  <1> QED
    BY <1>1, <1>4, <1>6, <1>10, SolventSocket

\* EOF counts for nothing.
LEMMA ReadClosSolvent ==
    ASSUME TypeInv, NEW s \in Sockets, ReadClos(s)
    PROVE  Solvent
  <1> DEFINE r == sok[s]
             item == <<Head(r.incoming).num, 0>>
             q == [r EXCEPT !.reading = FALSE, !.incoming = Tail(r.incoming),
                            !.dead = TRUE, !.got = Append(r.got, item)]
  <1>1. r \in SocketRec /\ r.got \in Seq(Nums \X Nat)
    BY DEF TypeInv, Types, SocketRec
  <1>2. item \in Nums \X Nat
    <2>1. r.incoming \in Seq(SegmentRec) /\ r.incoming # <<>>
      BY <1>1 DEF ReadClos, SocketRec
    <2>2. Head(r.incoming) \in SegmentRec
      BY <2>1, HeadTailProperties
    <2> QED
      BY <2>2 DEF SegmentRec
  <1>3. sok' = [sok EXCEPT ![s] = q] /\ UNCHANGED <<idOf, wire, crossed>>
    BY <1>1 DEF ReadClos, socketOnly, SocketRec, TypeInv, Types
  <1>4. /\ q.sendwind = r.sendwind /\ q.holding = r.holding /\ q.sent = r.sent
        /\ q.recvcount = r.recvcount /\ q.owed = r.owed /\ q.got = Append(r.got, item)
    BY <1>1 DEF SocketRec
  <1>5. item[2] = 0
    OBVIOUS
  <1> HIDE DEF q, item
  <1>6. /\ Len(q.got) = Len(r.got) + 1 /\ q.got[Len(r.got) + 1] = item /\ Len(r.got) \in Nat
    BY <1>1, <1>2, <1>4, AppendProperties
  <1> HIDE DEF r
  <1>7. Returned(q) = Len(r.got)
    BY <1>5, <1>6 DEF Returned
  <1>8. Returned(r) <= Returned(q) /\ Returned(r) \in Nat /\ Returned(q) \in Nat
    BY <1>1, <1>6, <1>7, LedgerTypes DEF Returned
  <1>9. PICK b \in Nat, m \in Nat, g \in Nat, h \in Nat :
          b = Count * r.owed /\ m = Remaining(r) /\ g = Returned(r) /\ h = Returned(q)
    BY <1>1, <1>8, LedgerTypes, Numbers
  <1>10. Count * q.owed = Count * r.owed /\ Remaining(q) = Remaining(r)
    BY <1>4 DEF Remaining
  <1>11. Due(q) <= Due(r)
    BY <1>8, <1>9, <1>10, Numbers DEF Due
  <1>12. Put(q) = Put(r) /\ Put(r) \in Int
    BY <1>1, <1>4, LedgerTypes DEF Put
  <1>13. LevelOrBetter(q, r)
    BY <1>11, <1>12 DEF LevelOrBetter
  <1> QED
    BY <1>3, <1>13, SolventSocket DEF r

LEMMA SendIcwdCredited ==
    ASSUME TypeInv, NEW s \in Sockets, SendIcwd(s)
    PROVE  Credited(s)
  <1> DEFINE r == sok[s]
             q == [r EXCEPT !.owed = @ - 1]
             seg == Segment("ICWD", s[2], 0)
  <1>1. r \in SocketRec /\ s[2] <= Len(idOf) /\ r.owed \in Nat /\ r.owed > 0
    BY Drawn DEF TypeInv, Types, SendIcwd, SocketRec
  <1>2. sok' = [sok EXCEPT ![s] = q] /\ UNCHANGED <<idOf, crossed>>
    BY DEF SendIcwd, socketOnly, TypeInv, Types
  <1>3. sok'[s] = q /\ \A t \in Sockets \ {s} : sok'[t] = sok[t] /\ sok[t] \in SocketRec
    BY <1>2 DEF TypeInv, Types
  <1>4. /\ q.sendwind = r.sendwind /\ q.holding = r.holding /\ q.sent = r.sent
        /\ q.recvcount = r.recvcount /\ q.owed = r.owed - 1 /\ q.got = r.got
    BY <1>1 DEF SocketRec
  <1>5. wire' = wire \/ Pack(s[1], seg)
    BY DEF SendIcwd
  <1>segment. seg = Segment("ICWD", s[2], 0)
    OBVIOUS
  <1> HIDE DEF seg, q
  <1>6. seg \in SegmentRec /\ seg.flag = "ICWD" /\ seg.num = s[2]
    BY <1>1, <1>segment, SegmentFacts
  <1>7. \A t \in Sockets \ {s} : LevelOrBetter(sok'[t], sok[t])
    BY <1>3, LevelFacts DEF Level
  <1>8. Put(q) = Put(r) /\ Due(q) = Due(r) - Count
    <2> HIDE DEF r
    <2>1. Put(q) = Put(r) /\ Returned(q) = Returned(r) /\ Remaining(q) = Remaining(r)
      BY <1>4 DEF Put, Returned, Remaining
    <2>2. PICK x \in Nat : x = r.owed - 1 /\ r.owed = x + 1
      BY <1>1
    <2>3. Count * q.owed + Count = Count * r.owed /\ Count * q.owed \in Nat
      BY <1>4, <2>2, Products
    <2>4. Remaining(r) \in Nat /\ Returned(r) \in Nat /\ Count * r.owed \in Nat
      BY <1>1, LedgerTypes, Numbers
    <2>5. PICK b \in Nat, c \in Nat, m \in Nat, g \in Nat :
            /\ b = Count * r.owed /\ c = Count * q.owed
            /\ m = Remaining(r) /\ g = Returned(r)
      BY <2>3, <2>4
    <2> QED
      BY <2>1, <2>3, <2>5, Numbers DEF Due
  <1>9. ASSUME NEW e \in End, NEW n \in Nums
        PROVE  Icwds(wire'[e], n) <= Icwds(wire[e], n) + IF <<e, n>> = s THEN 1 ELSE 0
    <2>1. wire[e] \in Seq(SegmentRec)
      BY DEF TypeInv, Types
    <2>2. Icwds(wire[e], n) \in Nat
      BY <2>1, IcwdsFinite
    <2>3. CASE wire' = wire
      BY <2>2, <2>3
    <2>4. CASE Pack(s[1], seg)
      <3>1. s[1] \in End /\ s = <<s[1], s[2]>>
        BY Ends
      <3>2. Icwds(wire'[e], n)
              <= Icwds(wire[e], n) + IF e = s[1] /\ seg.flag = "ICWD" /\ seg.num = n THEN 1 ELSE 0
        BY <1>6, <2>4, <3>1, IcwdsPacked
      <3>3. e = s[1] /\ seg.flag = "ICWD" /\ seg.num = n <=> <<e, n>> = s
        BY <1>6, <3>1
      <3> QED
        BY <3>2, <3>3
    <2> QED
      BY <1>5, <2>3, <2>4
  <1> QED
    BY <1>2, <1>3, <1>7, <1>8, <1>9 DEF Credited

\* A step of mainThread that takes a segment and no token
LEMMA UnpackedSolvent ==
    ASSUME TypeInv, NEW e \in End, wire[Peer(e)] # <<>>, Unpacked(e),
           UNCHANGED <<idOf, crossed>>, \A t \in Sockets : Level(sok'[t], sok[t])
    PROVE  Solvent
  <1>1. \A t \in Sockets : LevelOrBetter(sok'[t], sok[t])
    BY LevelFacts DEF TypeInv, Types
  <1>2. ASSUME NEW f \in End, NEW n \in Nums
        PROVE  Icwds(wire'[f], n) <= Icwds(wire[f], n)
    <2>1. wire' \in [End -> Seq(SegmentRec)]
      BY UnpackFacts DEF TypeInv
    <2>2. Icwds(wire'[f], n) \in Nat
      BY <2>1, IcwdsFinite
    <2>3. \E i \in {0, 1} : Icwds(wire[f], n) = Icwds(wire'[f], n) + i
      BY IcwdsUnpacked
    <2> QED
      BY <2>2, <2>3
  <1> QED
    BY <1>1, <1>2 DEF Solvent

LEMMA RecvOpenSolvent ==
    ASSUME TypeInv, RecvOpen
    PROVE  Solvent
  <1>1. /\ Peer("server") = "client" /\ "server" \in End
        /\ wire["client"] # <<>> /\ Unpacked("server") /\ UNCHANGED <<idOf, crossed>>
    BY Ends DEF RecvOpen, Receiving, Peer
  <1> DEFINE s == <<"server", Head(wire["client"]).num>>
  <1>2. sok' = [sok EXCEPT ![s].stage = "queued"]
    BY DEF RecvOpen
  <1> HIDE DEF s
  <1>3. \A t \in Sockets : Level(sok'[t], sok[t])
    BY <1>2 DEF Level, TypeInv, Types, SocketRec
  <1> QED
    BY <1>1, <1>3, UnpackedSolvent

LEMMA RecvSegmentSolvent ==
    ASSUME TypeInv, NEW e \in End, RecvSegment(e)
    PROVE  Solvent
  <1>1. wire[Peer(e)] # <<>> /\ Unpacked(e) /\ UNCHANGED <<idOf, crossed>>
    BY DEF RecvSegment, Receiving
  <1> DEFINE seg == Head(wire[Peer(e)])
             dest == <<e, table[e][seg.id]>>
  <1>2. \/ sok' = sok
        \/ sok' = [sok EXCEPT ![dest].incoming = Queued(@, seg)]
    BY DEF RecvSegment
  <1> HIDE DEF dest, seg
  <1>3. ASSUME NEW t \in Sockets PROVE Level(sok'[t], sok[t])
    <2>1. sok[t] \in SocketRec /\ sok \in [Sockets -> SocketRec]
      BY DEF TypeInv, Types
    <2>2. \/ sok'[t] = sok[t]
          \/ sok'[t] = [sok[t] EXCEPT !.incoming = Queued(@, seg)]
      BY <1>2, <2>1
    <2> QED
      BY <2>1, <2>2 DEF Level, SocketRec
  <1> QED
    BY <1>1, <1>3, UnpackedSolvent

LEMMA RecvIcwdCashed ==
    ASSUME TypeInv, NEW e \in End, RecvIcwd(e)
    PROVE  LET seg == wire[Peer(e)][1]
               dest == <<e, table[e][seg.id]>>
           IN  \/ Solvent
               \/ dest \in Sockets /\ Cashed(e, dest, seg.num)
  <1> DEFINE seg == wire[Peer(e)][1]
             dest == <<e, table[e][seg.id]>>
  <1>1. wire[Peer(e)] # <<>> /\ Unpacked(e) /\ UNCHANGED <<idOf, crossed>>
    BY DEF RecvIcwd, Receiving
  <1>2. Head(wire[Peer(e)]) = seg /\ seg.id \in Ids
    BY <1>1, TakenSegment
  <1>3. seg.flag = "ICWD"
    BY <1>2 DEF RecvIcwd, Receiving
  <1>4. \/ sok' = sok
        \/ /\ dest[2] # 0 /\ sok[dest].sendwind >= Count
           /\ sok' = [sok EXCEPT ![dest].sendwind = @ - Count]
    BY <1>2 DEF RecvIcwd
  <1>5. CASE sok' = sok
    <2>1. \A t \in Sockets : Level(sok'[t], sok[t])
      BY <1>5 DEF Level
    <2> QED
      BY <1>1, <2>1, UnpackedSolvent
  <1>6. CASE dest[2] # 0 /\ sok' = [sok EXCEPT ![dest].sendwind = @ - Count]
    <2>1. dest \in Sockets
      <3>1. table[e][seg.id] \in 0..Len(idOf)
        BY <1>2 DEF TypeInv, Types
      <3>2. table[e][seg.id] \in 1..Len(idOf)
        BY <1>6, <3>1, NumFacts
      <3> QED
        BY <3>2, NumFacts
    <2> HIDE DEF dest
    <2> DEFINE r == sok[dest]
               q == [r EXCEPT !.sendwind = @ - Count]
    <2>2. sok' = [sok EXCEPT ![dest] = q] /\ r \in SocketRec
      BY <1>6, <2>1 DEF TypeInv, Types
    <2>3. sok'[dest] = q /\ \A t \in Sockets \ {dest} : sok'[t] = sok[t] /\ sok[t] \in SocketRec
      BY <2>1, <2>2 DEF TypeInv, Types
    <2>4. /\ q.sendwind = r.sendwind - Count /\ q.holding = r.holding /\ q.sent = r.sent
          /\ q.recvcount = r.recvcount /\ q.owed = r.owed /\ q.got = r.got
      BY <2>2 DEF SocketRec
    <2> HIDE DEF q, r
    <2>5. Put(q) = Put(r) - Count /\ Due(q) = Due(r)
      <3>1. r.sendwind \in Nat /\ r.sent \in Nat
        BY <2>2, LedgerTypes, Numbers
      <3> QED
        BY <2>4, <3>1, Numbers DEF Put, Due, Returned, Remaining
    <2>6. \A t \in Sockets \ {dest} : LevelOrBetter(sok'[t], sok[t])
      BY <2>3, LevelFacts DEF Level
    <2>7. \A f \in End, n \in Nums :
            Icwds(wire[f], n) = Icwds(wire'[f], n) + IF f = Peer(e) /\ n = seg.num THEN 1 ELSE 0
      BY <1>1, <1>3, IcwdsUnpacked
    <2> QED
      BY <1>1, <2>1, <2>3, <2>5, <2>6, <2>7 DEF Cashed, r, dest
  <1> QED
    BY <1>4, <1>5, <1>6

\* What a step does to the accounts
LEMMA CreditSteps ==
    ASSUME StreamInv, [Next]_vars
    PROVE  \/ Solvent
           \/ \E s \in Sockets : Credited(s)
           \/ \E e \in End :
                /\ \E seg : Takes(e, seg)
                /\ LET seg == wire[Peer(e)][1]
                       dest == <<e, table[e][seg.id]>>
                   IN  seg.flag = "ICWD" /\ dest \in Sockets /\ Cashed(e, dest, seg.num)
           \/ \E i \in Ids : Reserves(i)
  <1>1. TypeInv
    BY DEF StreamInv, RoutingInv
  <1>2. ASSUME UNCHANGED <<idOf, sok, wire, crossed>> PROVE Solvent
    <2>1. \A t \in Sockets : LevelOrBetter(sok'[t], sok[t])
      BY <1>1, <1>2, LevelFacts DEF Level, TypeInv, Types
    <2>2. ASSUME NEW f \in End, NEW n \in Nums
          PROVE  Icwds(wire'[f], n) <= Icwds(wire[f], n)
      <3>1. wire[f] \in Seq(SegmentRec)
        BY <1>1 DEF TypeInv, Types
      <3>2. Icwds(wire[f], n) \in Nat
        BY <3>1, IcwdsFinite
      <3> QED
        BY <1>2, <3>2
    <2> QED
      BY <1>2, <2>1, <2>2 DEF Solvent
  <1>3. ASSUME NEW s \in Sockets, Application(s) PROVE Solvent \/ Credited(s)
    BY <1>1, <1>3, TakeTokenSolvent, SendDataSolvent, CloseSolvent, ReadDataSolvent,
       ReadClosSolvent, DyingSolvent, SendIcwdCredited
    DEF Application
  <1>4. ASSUME NEW e \in End, RecvIcwd(e)
        PROVE  \/ Solvent
               \/ /\ \E seg : Takes(e, seg)
                  /\ LET seg == wire[Peer(e)][1]
                         dest == <<e, table[e][seg.id]>>
                     IN  seg.flag = "ICWD" /\ dest \in Sockets /\ Cashed(e, dest, seg.num)
    <2>1. wire[Peer(e)][1].flag = "ICWD"
      <3>1. wire[Peer(e)] # <<>> /\ Head(wire[Peer(e)]).flag = "ICWD"
        BY <1>4 DEF RecvIcwd, Receiving
      <3> QED
        BY <1>1, <3>1, TakenSegment
    <2> QED
      BY <1>1, <1>4, <2>1, RecvIcwdStep, RecvIcwdCashed
  <1>5. ASSUME NEW e \in End, RecvSegment(e) PROVE Solvent
    BY <1>1, <1>5, RecvSegmentSolvent
  <1>6. ASSUME NEW e \in End, ReadError(e) \/ AlivFails(e) PROVE Solvent
    BY <1>2, <1>6 DEF ReadError, AlivFails, contextOnly
  <1>7. CASE Kill \/ Cut
    BY <1>2, <1>7 DEF Kill, Cut, contextOnly
  <1>8. CASE UNCHANGED vars
    BY <1>2, <1>8 DEF vars
  <1> QED
    BY <1>1, <1>3, <1>4, <1>5, <1>6, <1>7, <1>8, OpenTunnelSolvent, AcceptSolvent,
       RecvOpenSolvent, ReserveStep
    DEF Next, Network

\* One account after a step
LEMMA AccountKept ==
    ASSUME NEW i \in Nat, NEW j \in Nat, j <= i, NEW d \in Int, NEW c, c <= d, c \in Int,
           NEW p \in Int, NEW q, q >= p, q \in Int,
           Count * i + d <= p
    PROVE  Count * j + c <= q
  <1>1. PICK x \in Nat : i = j + x
    <2>1. i - j \in Nat /\ i = j + (i - j)
      OBVIOUS
    <2> QED
      BY <2>1
  <1>2. Count \in Nat
    BY Numbers
  <1>3. Count * i = Count * j + Count * x
    BY <1>1, <1>2
  <1>4. Count * x \in Nat /\ Count * j \in Nat
    BY Products
  <1>5. PICK a \in Nat, b \in Nat : a = Count * j /\ b = Count * x
    BY <1>4
  <1> QED
    BY <1>3, <1>5

LEMMA AccountTypes ==
    ASSUME CreditInv, TypeInv', idOf' = idOf, NEW e \in End, NEW n \in 1..Len(idOf),
           idOf[n] \notin crossed
    PROVE  LET i == Icwds(wire[Peer(e)], n)
               j == Icwds(wire'[Peer(e)], n)
               w == <<e, n>>
               r == <<Peer(e), n>>
           IN  /\ i \in Nat /\ j \in Nat /\ Peer(e) \in End /\ Peer(e) # e /\ n \in Nums
               /\ w \in Sockets /\ r \in Sockets /\ Honest(w) /\ Honest(r) /\ w # r
               /\ Due(sok[r]) \in Int /\ Due(sok'[r]) \in Int
               /\ Put(sok[w]) \in Int /\ Put(sok'[w]) \in Int
               /\ Count * i + Due(sok[r]) <= Put(sok[w])
  <1>1. /\ Peer(e) \in End /\ Peer(e) # e /\ n \in Nums
        /\ <<e, n>> \in Sockets /\ <<Peer(e), n>> \in Sockets
        /\ sok[<<e, n>>] \in SocketRec /\ sok[<<Peer(e), n>>] \in SocketRec
        /\ wire[Peer(e)] \in Seq(SegmentRec)
    BY StreamTypes DEF CreditInv
  <1>2. /\ sok'[<<e, n>>] \in SocketRec /\ sok'[<<Peer(e), n>>] \in SocketRec
        /\ wire'[Peer(e)] \in Seq(SegmentRec)
    BY <1>1 DEF TypeInv, Types
  <1>3. Icwds(wire[Peer(e)], n) \in Nat /\ Icwds(wire'[Peer(e)], n) \in Nat
    BY <1>1, <1>2, IcwdsFinite
  <1>4. /\ Due(sok[<<Peer(e), n>>]) \in Int /\ Due(sok'[<<Peer(e), n>>]) \in Int
        /\ Put(sok[<<e, n>>]) \in Int /\ Put(sok'[<<e, n>>]) \in Int
    BY <1>1, <1>2, LedgerTypes
  <1>5. Covered(e, n)
    BY DEF CreditInv, Credits
  <1> QED
    BY <1>1, <1>3, <1>4, <1>5 DEF Covered, Honest

LEMMA CreditsSolvent ==
    ASSUME CreditInv, TypeInv', Solvent
    PROVE  Credits'
  <1>1. UNCHANGED <<idOf, crossed>>
    BY DEF Solvent
  <1> SUFFICES ASSUME NEW e \in End, NEW n \in 1..Len(idOf), idOf[n] \notin crossed
               PROVE  Covered(e, n)'
    BY <1>1 DEF Credits
  <1> DEFINE i == Icwds(wire[Peer(e)], n)
             j == Icwds(wire'[Peer(e)], n)
             w == <<e, n>>
             r == <<Peer(e), n>>
  <1>2. /\ i \in Nat /\ j \in Nat /\ Peer(e) \in End /\ n \in Nums
        /\ w \in Sockets /\ r \in Sockets /\ Honest(w) /\ Honest(r)
        /\ Due(sok[r]) \in Int /\ Due(sok'[r]) \in Int
        /\ Put(sok[w]) \in Int /\ Put(sok'[w]) \in Int
        /\ Count * i + Due(sok[r]) <= Put(sok[w])
    BY <1>1, AccountTypes
  <1>3. j <= i /\ Due(sok'[r]) <= Due(sok[r]) /\ Put(sok'[w]) >= Put(sok[w])
    BY <1>2 DEF Solvent, LevelOrBetter
  <1> HIDE DEF i, j, w, r
  <1>4. Count * j + Due(sok'[r]) <= Put(sok'[w])
    BY <1>2, <1>3, AccountKept
  <1> QED
    BY <1>4 DEF Covered, j, w, r

LEMMA CreditsCredited ==
    ASSUME CreditInv, TypeInv', NEW s \in Sockets, Credited(s)
    PROVE  Credits'
  <1>1. UNCHANGED <<idOf, crossed>>
    BY DEF Credited
  <1> SUFFICES ASSUME NEW e \in End, NEW n \in 1..Len(idOf), idOf[n] \notin crossed
               PROVE  Covered(e, n)'
    BY <1>1 DEF Credits
  <1> DEFINE i == Icwds(wire[Peer(e)], n)
             j == Icwds(wire'[Peer(e)], n)
             w == <<e, n>>
             r == <<Peer(e), n>>
  <1>2. /\ i \in Nat /\ j \in Nat /\ Peer(e) \in End /\ n \in Nums
        /\ w \in Sockets /\ r \in Sockets /\ w # r
        /\ Due(sok[r]) \in Int /\ Due(sok'[r]) \in Int
        /\ Put(sok[w]) \in Int /\ Put(sok'[w]) \in Int
        /\ Count * i + Due(sok[r]) <= Put(sok[w])
    BY <1>1, AccountTypes
  <1>3. Put(sok'[w]) >= Put(sok[w])
    BY <1>2 DEF Credited, LevelOrBetter
  <1>4. j <= i + IF r = s THEN 1 ELSE 0
    BY <1>2 DEF Credited
  <1>5. r = s => Due(sok'[r]) = Due(sok[r]) - Count
    BY DEF Credited
  <1>6. r # s => Due(sok'[r]) <= Due(sok[r])
    BY <1>2 DEF Credited, LevelOrBetter
  <1> HIDE DEF i, j, w, r
  <1>7. CASE r # s
    <2>1. j <= i
      BY <1>2, <1>4, <1>7
    <2>2. Count * j + Due(sok'[r]) <= Put(sok'[w])
      BY <1>2, <1>3, <1>6, <1>7, <2>1, AccountKept
    <2> QED
      BY <2>2 DEF Covered, j, w, r
  <1>8. CASE r = s
    <2>1. j <= i + 1 /\ i + 1 \in Nat
      BY <1>2, <1>4, <1>8
    <2>2. Count * (i + 1) + (Due(sok[r]) - Count) <= Put(sok[w])
      <3>1. Count * (i + 1) = Count * i + Count /\ Count * i \in Nat
        BY <1>2, Products
      <3> QED
        BY <1>2, <3>1, Numbers
    <2>3. Due(sok[r]) - Count \in Int /\ Due(sok'[r]) <= Due(sok[r]) - Count
      BY <1>2, <1>5, <1>8, Numbers
    <2>4. Count * j + Due(sok'[r]) <= Put(sok'[w])
      BY <1>2, <1>3, <2>1, <2>2, <2>3, AccountKept
    <2> QED
      BY <2>4 DEF Covered, j, w, r
  <1> QED
    BY <1>7, <1>8

LEMMA CreditsCashed ==
    ASSUME CreditInv, TypeInv', NEW f \in End, NEW seg, Takes(f, seg), seg.flag = "ICWD",
           NEW d \in Sockets, d = <<f, table[f][seg.id]>>, Cashed(f, d, seg.num)
    PROVE  Credits'
  <1>1. UNCHANGED <<idOf, crossed>>
    BY DEF Cashed
  <1>2. seg.id \in Ids /\ seg.num \in 1..Len(idOf) /\ seg.id = idOf[seg.num]
    BY TakesFacts DEF Delivered, CreditInv, StreamInv
  <1> SUFFICES ASSUME NEW e \in End, NEW n \in 1..Len(idOf), idOf[n] \notin crossed
               PROVE  Covered(e, n)'
    BY <1>1 DEF Credits
  <1> DEFINE i == Icwds(wire[Peer(e)], n)
             j == Icwds(wire'[Peer(e)], n)
             w == <<e, n>>
             r == <<Peer(e), n>>
  <1>3. /\ i \in Nat /\ j \in Nat /\ Peer(e) \in End /\ Peer(e) # e /\ n \in Nums
        /\ w \in Sockets /\ r \in Sockets /\ w # r /\ Honest(w) /\ Honest(r)
        /\ Due(sok[r]) \in Int /\ Due(sok'[r]) \in Int
        /\ Put(sok[w]) \in Int /\ Put(sok'[w]) \in Int
        /\ Count * i + Due(sok[r]) <= Put(sok[w])
    BY <1>1, AccountTypes
  <1>4. i = j + IF Peer(e) = Peer(f) /\ n = seg.num THEN 1 ELSE 0
    BY <1>3 DEF Cashed
  <1>5. Due(sok'[r]) <= Due(sok[r])
    <2>1. CASE r = d
      BY <1>3, <2>1 DEF Cashed
    <2>2. CASE r # d
      BY <1>3, <2>2 DEF Cashed, LevelOrBetter
    <2> QED
      BY <2>1, <2>2
  <1>6. w # d => Put(sok'[w]) >= Put(sok[w])
    BY <1>3 DEF Cashed, LevelOrBetter
  <1>7. w = d => Put(sok'[w]) = Put(sok[w]) - Count
    BY DEF Cashed
  <1>8. w = d <=> Peer(e) = Peer(f) /\ n = seg.num
    <2>1. Peer(e) = Peer(f) <=> e = f
      BY DEF End, Peer
    <2>2. ASSUME e = f PROVE n = seg.num <=> table[f][seg.id] = n
      <3>1. seg.id \notin crossed => table[f][seg.id] = seg.num
        BY Routed DEF CreditInv, StreamInv
      <3>2. table[f][seg.id] = n /\ n # 0 => idOf[n] = seg.id
        BY <1>2 DEF CreditInv, StreamInv, RoutingInv, TypeInv, Known, KnownEntries
      <3>3. n # 0
        BY NumFacts DEF CreditInv, StreamInv, RoutingInv
      <3> QED
        BY <1>2, <3>1, <3>2, <3>3
    <2> QED
      BY <2>1, <2>2
  <1> HIDE DEF i, j, w, r
  <1>9. CASE w # d
    <2>1. j <= i
      BY <1>3, <1>4, <1>8, <1>9
    <2>2. Count * j + Due(sok'[r]) <= Put(sok'[w])
      BY <1>3, <1>5, <1>6, <1>9, <2>1, AccountKept
    <2> QED
      BY <2>2 DEF Covered, j, w, r
  <1>10. CASE w = d
    <2>1. i = j + 1
      BY <1>4, <1>8, <1>10
    <2>2. Count * j + Due(sok[r]) <= Put(sok[w]) - Count
      <3>1. Count * (j + 1) = Count * j + Count /\ Count * j \in Nat
        BY <1>3, Products
      <3> QED
        BY <1>3, <2>1, <3>1, Numbers
    <2>3. Put(sok[w]) - Count \in Int
      BY <1>3, Numbers
    <2>4. j <= j /\ Put(sok'[w]) >= Put(sok[w]) - Count
      BY <1>3, <1>7, <1>10, <2>3
    <2>5. Count * j + Due(sok'[r]) <= Put(sok'[w])
      BY <1>3, <1>5, <2>2, <2>3, <2>4, AccountKept
    <2> QED
      BY <2>5 DEF Covered, j, w, r
  <1> QED
    BY <1>9, <1>10

\* A tunnel that has just been drawn has an empty account.
LEMMA NewAccount ==
    ASSUME NEW w, NEW r, w.sendwind = 0, w.holding = FALSE, w.sent = 0,
           r.recvcount = 0, r.owed = 0, Len(r.got) = 0
    PROVE  Put(w) = 0 /\ Due(r) = 0
  <1>1. Count * r.owed = 0
    <2>1. 0 \in Nat
      OBVIOUS
    <2>2. Count * 0 = 0
      BY <2>1, Products
    <2> QED
      BY <2>2
  <1>2. Remaining(r) = Window /\ Returned(r) = 0
    BY DEF Remaining, Returned
  <1>3. Put(w) = 0
    <2>1. Put(w) = 0 - 0 - 0
      BY Zenon DEF Put
    <2> QED
      BY <2>1
  <1> QED
    BY <1>1, <1>2, <1>3, Numbers DEF Due

LEMMA CreditsReserves ==
    ASSUME CreditInv, TypeInv', NEW id \in Ids, Reserves(id)
    PROVE  Credits'
  <1> DEFINE m == Len(idOf) + 1
             c == <<"client", m>>
  <1>1. /\ wire' = wire /\ idOf' = Append(idOf, id)
        /\ sok[c] = NewSocket /\ sok'[c] = [NewSocket EXCEPT !.stage = "reserved"]
        /\ sok[<<"server", m>>] = NewSocket
        /\ \A t \in Sockets \ {c} : sok'[t] = sok[t]
        /\ \A j \in crossed : j \in crossed'
        /\ m \in Nums
    BY DEF Reserves
  <1>2. Len(idOf) \in Nat /\ m \in Nat /\ m > Len(idOf)
    BY NumFacts DEF CreditInv, StreamInv, RoutingInv
  <1>3. /\ Len(idOf') = m /\ \A k \in 1..Len(idOf) : idOf'[k] = idOf[k]
    <2>1. idOf \in Seq(Ids)
      BY DEF CreditInv, StreamInv, RoutingInv, TypeInv, Types
    <2> QED
      BY <1>1, <2>1, AppendProperties
  <1>4. \A t \in Sockets : Level(sok'[t], sok[t])
    <2>1. Level(sok'[c], sok[c])
      BY <1>1 DEF NewSocket, Level
    <2> HIDE DEF c
    <2> QED
      BY <1>1, <2>1 DEF Level
  <1> SUFFICES ASSUME NEW e \in End, NEW n \in 1..m, idOf'[n] \notin crossed'
               PROVE  Covered(e, n)'
    BY <1>3 DEF Credits
  <1>5. /\ Peer(e) \in End /\ n \in Nums /\ <<e, n>> \in Sockets /\ <<Peer(e), n>> \in Sockets
    <2>1. n \in Nums
      BY <1>1, <1>2, Numbers DEF Nums
    <2> QED
      BY <2>1, Ends
  <1> DEFINE w == <<e, n>>
             r == <<Peer(e), n>>
  <1>6. Put(sok'[w]) = Put(sok[w]) /\ Due(sok'[r]) = Due(sok[r])
    <2>1. sok[w] \in SocketRec /\ sok[r] \in SocketRec
      BY <1>5 DEF CreditInv, StreamInv, RoutingInv, TypeInv, Types
    <2>2. Level(sok'[w], sok[w]) /\ Level(sok'[r], sok[r])
      BY <1>4, <1>5
    <2> QED
      BY <2>1, <2>2, LevelFacts
  <1>7. CASE n \in 1..Len(idOf)
    <2>1. idOf[n] \notin crossed
      BY <1>1, <1>3, <1>7
    <2>2. Covered(e, n)
      BY <1>7, <2>1 DEF CreditInv, Credits
    <2> QED
      BY <1>1, <1>6, <2>2 DEF Covered
  <1>8. CASE n = m
    <2>1. sok[w] = NewSocket /\ sok[r] = NewSocket
      BY <1>1, <1>8 DEF End, Peer
    <2>2. Put(sok[w]) = 0 /\ Due(sok[r]) = 0
      <3> HIDE DEF w, r
      <3>1. /\ sok[w].sendwind = 0 /\ sok[w].holding = FALSE /\ sok[w].sent = 0
            /\ sok[r].recvcount = 0 /\ sok[r].owed = 0 /\ Len(sok[r].got) = 0
        BY <2>1 DEF NewSocket
      <3> QED
        BY <3>1, NewAccount
    <2>3. \A k \in 1..Len(wire[Peer(e)]) : wire[Peer(e)][k].num # n
      <3>1. \A k \in 1..Len(wire[Peer(e)]) : wire[Peer(e)][k].num \in 1..Len(idOf)
        BY <1>5, SegmentSocket DEF CreditInv, StreamInv, RoutingInv
      <3> QED
        BY <1>2, <1>8, <3>1
    <2>4. Icwds(wire[Peer(e)], n) = 0
      BY <2>3, IcwdsNone
    <2>5. Count * Icwds(wire[Peer(e)], n) = 0
      <3>1. 0 \in Nat
        OBVIOUS
      <3>2. Count * 0 = 0
        BY <3>1, Products
      <3> QED
        BY <2>4, <3>2
    <2> QED
      BY <1>1, <1>6, <2>2, <2>5 DEF Covered
  <1>9. n \in 1..Len(idOf) \/ n = m
    BY <1>2
  <1> QED
    BY <1>7, <1>8, <1>9

LEMMA CreditStep ==
    ASSUME CreditInv, [Next]_vars
    PROVE  CreditInv'
  <1>1. StreamInv' /\ TypeInv'
    BY StreamStep DEF CreditInv, StreamInv, RoutingInv
  <1>2. ASSUME Solvent PROVE Credits'
    BY <1>1, <1>2, CreditsSolvent
  <1>3. ASSUME NEW s \in Sockets, Credited(s) PROVE Credits'
    BY <1>1, <1>3, CreditsCredited
  <1>4. ASSUME NEW e \in End, NEW seg, Takes(e, seg), wire[Peer(e)][1].flag = "ICWD",
               NEW d \in Sockets, d = <<e, table[e][wire[Peer(e)][1].id]>>,
               Cashed(e, d, wire[Peer(e)][1].num)
        PROVE  Credits'
    <2>1. seg = wire[Peer(e)][1]
      BY <1>4 DEF Takes
    <2> QED
      BY <1>1, <1>4, <2>1, CreditsCashed
  <1>5. ASSUME NEW i \in Ids, Reserves(i) PROVE Credits'
    BY <1>1, <1>5, CreditsReserves
  <1>6. Credits'
    BY <1>2, <1>3, <1>4, <1>5, CreditSteps DEF CreditInv
  <1> QED
    BY <1>1, <1>6 DEF CreditInv

LEMMA InitCreditInv == Init => CreditInv
  <1> SUFFICES ASSUME Init PROVE CreditInv
    OBVIOUS
  <1>1. Len(idOf) = 0
    BY DEF Init
  <1> QED
    BY <1>1, InitStreamInv DEF CreditInv, Credits

-----------------------------------------------------------------------------
(* Why a Context fails                                                      *)

\* The account of an honest tunnel, in numbers
LEMMA AccountFacts ==
    ASSUME CreditInv, NEW e \in End, NEW n \in 1..Len(idOf), idOf[n] \notin crossed,
           NEW p, p = sok[<<e, n>>], NEW r, r = sok[<<Peer(e), n>>]
    PROVE  /\ p \in SocketRec /\ r \in SocketRec /\ Received(r, p, n)
           /\ p.sendwind \in 0..Window /\ p.sent \in Nat /\ Returned(r) \in Nat
           /\ Remaining(r) \in 0..Window
           /\ p.sendwind >= Count * Icwds(wire[Peer(e)], n)
                              + p.sent - Returned(r) + Window - Remaining(r)
           /\ Icwds(wire[Peer(e)], n) \in Nat
  <1>1. /\ p \in SocketRec /\ r \in SocketRec /\ Peer(e) \in End /\ Peer(Peer(e)) = e
        /\ wire[Peer(e)] \in Seq(SegmentRec)
    BY Ends, StreamTypes DEF CreditInv
  <1>2. Received(r, p, n)
    <2>1. Stream(Peer(e), n)
      BY <1>1, StreamTypes DEF CreditInv
    <2> QED
      BY <1>1, <2>1 DEF Stream
  <1>3. /\ p.sendwind \in 0..Window /\ p.sent \in Nat /\ Returned(r) \in Nat
        /\ Remaining(r) \in 0..Window /\ Count * r.owed \in Nat
    BY <1>1, LedgerTypes
  <1>4. Icwds(wire[Peer(e)], n) \in Nat /\ Count * Icwds(wire[Peer(e)], n) \in Nat
    BY <1>1, IcwdsFinite, Products
  <1>5. Count * Icwds(wire[Peer(e)], n) + Due(r) <= Put(p)
    BY DEF CreditInv, Credits, Covered
  <1>6. PICK c \in Nat, b \in Nat, m \in Nat, g \in Nat, x \in {0, 1} :
          /\ c = Count * Icwds(wire[Peer(e)], n) /\ b = Count * r.owed
          /\ m = Remaining(r) /\ g = Returned(r) /\ x = IF p.holding THEN 1 ELSE 0
    <2>1. Remaining(r) \in Nat
      BY <1>3, Numbers
    <2>2. \E x \in {0, 1} : x = IF p.holding THEN 1 ELSE 0
      OBVIOUS
    <2> QED
      BY <1>3, <1>4, <2>1, <2>2, Zenon
  <1>7. Due(r) = b + Window - m - g /\ Put(p) = p.sendwind - p.sent - x
    BY <1>6 DEF Due, Put
  <1>8. p.sendwind >= c + p.sent - g + Window - m
    <2>1. c + Due(r) <= Put(p)
      BY <1>5, <1>6
    <2>2. PICK k \in Nat, l \in Nat : k = p.sendwind /\ l = p.sent
      BY <1>3, Numbers
    <2>3. c + (b + Window - m - g) <= k - l - x
      BY <1>7, <2>1, <2>2
    <2>4. x >= 0 /\ x \in Nat
      BY <1>6
    <2>5. k >= c + l - g + Window - m
      BY <2>3, <2>4, Numbers
    <2> QED
      BY <2>2, <2>5
  <1> QED
    BY <1>1, <1>2, <1>3, <1>4, <1>6, <1>8

\* A socket returns no more than its peer has sent, and all of it before EOF.
LEMMA ReturnedSent ==
    ASSUME NEW r \in SocketRec, NEW p, NEW n, Received(r, p, n), p.sent \in Nat
    PROVE  /\ Returned(r) <= p.sent
           /\ ~Ended(r) => Returned(r) = Len(r.got) /\ Len(r.got) + Len(r.incoming) <= p.sent
  <1>1. PICK G \in Nat, I \in Nat : Len(r.got) = G /\ Len(r.incoming) = I
    BY SocketLengths
  <1>2. Arrived(r) = G + I
    BY <1>1 DEF Arrived
  <1>3. CASE ~Ended(r)
    <2>1. G + I <= p.sent
      BY <1>2, <1>3 DEF Received
    <2>2. Returned(r) = G
      BY <1>1, <1>3 DEF Ended, Returned
    <2> QED
      BY <1>1, <2>1, <2>2
  <1>4. CASE Ended(r)
    <2>1. G + I = p.sent + 1
      BY <1>2, <1>4 DEF Received
    <2>2. CASE G > 0 /\ r.got[G][2] = 0
      <3>1. Returned(r) = G - 1
        BY <1>1, <2>2 DEF Returned
      <3> QED
        BY <1>1, <1>4, <2>1, <3>1
    <2>3. CASE ~(G > 0 /\ r.got[G][2] = 0)
      <3>1. Returned(r) = G /\ I > 0
        BY <1>1, <1>4, <2>3 DEF Returned, Ended
      <3> QED
        BY <1>1, <1>4, <2>1, <3>1
    <2> QED
      BY <2>2, <2>3
  <1> QED
    BY <1>3, <1>4

LEMMA TokensLeft ==
    ASSUME NEW a \in Nat, NEW c \in Nat, NEW l \in Nat, NEW g \in Nat, NEW v \in Nat, NEW m \in Nat,
           NEW k \in Nat, g <= l, m <= v, k >= (a + c) + l - g + v - m
    PROVE  k >= c
  OBVIOUS

\* An ICWD of an honest tunnel finds as many tokens as it takes.
LEMMA IcwdServed ==
    ASSUME CreditInv, NEW e \in End, wire[Peer(e)] # <<>>, NEW seg, seg = wire[Peer(e)][1],
           seg.flag = "ICWD", seg.id \notin crossed
    PROVE  sok[<<e, seg.num>>].sendwind >= Count
  <1> DEFINE n == seg.num
  <1>1. n \in 1..Len(idOf) /\ idOf[n] \notin crossed
    BY TakenSegment DEF CreditInv, StreamInv, RoutingInv
  <1>2. PICK p, r : p = sok[<<e, n>>] /\ r = sok[<<Peer(e), n>>]
    OBVIOUS
  <1>3. Peer(e) \in End /\ wire[Peer(e)] \in Seq(SegmentRec)
    BY Ends DEF CreditInv, StreamInv, RoutingInv, TypeInv, Types
  <1>4. Icwds(wire[Peer(e)], n) = Icwds(Tail(wire[Peer(e)]), n) + 1
        /\ Icwds(Tail(wire[Peer(e)]), n) \in Nat
    <2>1. Tail(wire[Peer(e)]) \in Seq(SegmentRec)
      BY <1>3, HeadTailProperties
    <2> QED
      BY <1>3, <2>1, IcwdsTail, IcwdsFinite
  <1> HIDE DEF n
  <1>5. /\ p \in SocketRec /\ r \in SocketRec /\ Received(r, p, n)
        /\ p.sendwind \in 0..Window /\ p.sent \in Nat /\ Returned(r) \in Nat
        /\ Remaining(r) \in 0..Window
        /\ p.sendwind >= Count * Icwds(wire[Peer(e)], n)
                           + p.sent - Returned(r) + Window - Remaining(r)
    BY <1>1, <1>2, AccountFacts
  <1>6. Returned(r) <= p.sent
    BY <1>5, ReturnedSent
  <1>7. PICK i \in Nat : Icwds(wire[Peer(e)], n) = i + 1
    BY <1>4
  <1>8. Count * (i + 1) = Count * i + Count /\ Count * i \in Nat
    BY Products
  <1>9. PICK a \in Nat : a = Count * i
    BY <1>8
  <1>10. Count * Icwds(wire[Peer(e)], n) = a + Count
    BY <1>7, <1>8, <1>9
  <1>11. PICK k \in Nat, l \in Nat, g \in Nat, m \in Nat :
           k = p.sendwind /\ l = p.sent /\ g = Returned(r) /\ m = Remaining(r) /\ m <= Window
    BY <1>5, Numbers
  <1>12. k >= (a + Count) + l - g + Window - m
    BY <1>5, <1>10, <1>11
  <1>13. g <= l
    BY <1>6, <1>11
  <1>14. k >= Count
    <2>1. m <= Window
      BY <1>11
    <2>2. Window \in Nat /\ Count \in Nat
      BY Numbers
    <2> QED
      BY <1>12, <1>13, <2>1, <2>2, TokensLeft
  <1> QED
    BY <1>2, <1>11, <1>14 DEF n

\* DATA and CLOS of an honest tunnel find room, but for a CLOS behind a window
\* of DATA of which nothing has been read.
LEMMA SegmentServed ==
    ASSUME CreditInv, NEW e \in End, ctx[e].main,
           wire[Peer(e)] # <<>>, NEW seg, seg = wire[Peer(e)][1],
           seg.flag \in {"DATA", "CLOS"}, seg.id \notin crossed,
           NEW r, r = sok[<<e, seg.num>>], ~(Len(r.incoming) < Window)
    PROVE  seg.flag = "CLOS" /\ Len(r.incoming) = Window /\ r.recvcount = 0
  <1> DEFINE n == seg.num
             w == wire[Peer(e)]
  <1>1. n \in 1..Len(idOf) /\ idOf[n] \notin crossed /\ 1 \in 1..Len(w)
    BY TakenSegment DEF CreditInv, StreamInv, RoutingInv
  <1>2. Peer(e) \in End /\ Peer(Peer(e)) = e
    BY Ends
  <1>3. PICK p : p = sok[<<Peer(e), n>>]
    OBVIOUS
  <1>4. Coming(r, p.sent, w, n, Carries(Peer(e)))
    <2>1. Stream(e, n)
      BY <1>1, StreamTypes DEF CreditInv
    <2> QED
      BY <1>3, <2>1 DEF Stream
  <1>5. r \in SocketRec /\ Len(r.incoming) <= Window
    <2>1. <<e, n>> \in Sockets
      BY <1>1, StreamTypes DEF CreditInv
    <2> QED
      BY <2>1 DEF CreditInv, StreamInv, RoutingInv, TypeInv, Types, Bounds
  <1>6. w[1] = seg /\ seg.num = n
    OBVIOUS
  <1> HIDE DEF n, w
  <1>7. /\ p \in SocketRec /\ Received(r, p, n)
        /\ p.sendwind \in 0..Window /\ p.sent \in Nat /\ Returned(r) \in Nat
        /\ Remaining(r) \in 0..Window
        /\ p.sendwind >= Count * Icwds(wire[e], n)
                           + p.sent - Returned(r) + Window - Remaining(r)
        /\ Icwds(wire[e], n) \in Nat
    BY <1>1, <1>2, <1>3, AccountFacts DEF n
  <1>8. ~Ended(r)
    BY <1>1, <1>4, <1>6 DEF Coming
  <1>9. PICK G \in Nat, I \in Nat : Len(r.got) = G /\ Len(r.incoming) = I
    BY <1>5, SocketLengths
  <1>10. I = Window
    BY <1>5, <1>9, Numbers
  <1>11. Returned(r) = G /\ G + I <= p.sent
    BY <1>5, <1>7, <1>8, <1>9, ReturnedSent
  <1>12. PICK c \in Nat, m \in Nat : c = Count * Icwds(wire[e], n) /\ m = Remaining(r)
    BY <1>7, Products, Numbers
  <1>13. m = Window /\ G + Window = p.sent
    <2>1. p.sendwind >= c + p.sent - G + Window - m
      BY <1>7, <1>11, <1>12
    <2>2. PICK k \in Nat, l \in Nat : k = p.sendwind /\ l = p.sent /\ k <= Window
      BY <1>7, Numbers
    <2>3. m <= Window
      BY <1>7, <1>12
    <2> QED
      BY <1>10, <1>11, <2>1, <2>2, <2>3, Numbers
  <1>14. r.recvcount = 0
    <2>1. r.recvcount \in 0..(Window - 1)
      BY <1>5, LedgerTypes
    <2> QED
      BY <1>12, <1>13, <2>1, Numbers DEF Remaining
  <1>15. seg.flag # "DATA"
    <2>1. ASSUME seg.flag = "DATA" PROVE Arrived(r) < p.sent
      <3>1. Arrived(r) < w[1].pos /\ w[1].pos <= p.sent
        BY <1>1, <1>4, <1>6, <1>8, <2>1 DEF Coming, Data
      <3>2. w[1].pos \in Nat
        <4>1. seg \in SegmentRec
          BY TakenSegment DEF CreditInv, StreamInv, RoutingInv
        <4> QED
          BY <1>6, <4>1 DEF SegmentRec
      <3>3. Arrived(r) = G + I
        BY <1>9 DEF Arrived
      <3> QED
        BY <1>7, <3>1, <3>2, <3>3
    <2>2. Arrived(r) = G + Window
      BY <1>9, <1>10 DEF Arrived
    <2> QED
      <3>1. p.sent \in Nat /\ ~(p.sent < p.sent)
        BY <1>7
      <3> QED
        BY <1>13, <2>1, <2>2, <3>1
  <1> QED
    BY <1>9, <1>10, <1>14, <1>15

\* Which step makes a Context report a protocol failure, and on what segment
LEMMA FailingStep ==
    ASSUME TypeInv, [Next]_vars, NEW e \in End, ctx'[e].failed, ~ctx[e].failed
    PROVE  LET seg == wire[Peer(e)][1]
               dest == <<e, table[e][seg.id]>>
           IN  /\ wire[Peer(e)] # <<>> /\ Head(wire[Peer(e)]) = seg /\ ctx[e].main
               /\ \/ seg.flag = "OPEN" /\ ~(Len(acptQueue) < AcceptCap)
                  \/ seg.flag = "ICWD" /\ ~(dest[2] # 0 /\ sok[dest].sendwind >= Count)
                     /\ \E s : Takes(e, s) /\ s = seg
                  \/ seg.flag \in {"DATA", "CLOS"}
                     /\ ~(dest[2] # 0 /\ Len(sok[dest].incoming) < Window)
                     /\ \E s : Takes(e, s) /\ s = seg
  <1> DEFINE seg == wire[Peer(e)][1]
             dest == <<e, table[e][seg.id]>>
  <1>1. ctx \in [End -> CtxRec]
    BY DEF TypeInv, Types
  <1>2. ctx' # ctx
    OBVIOUS
  <1>3. ASSUME NEW f \in End, ctx' = [ctx EXCEPT ![f] = Failed(@)] PROVE f = e
    BY <1>1, <1>3
  <1>4. CASE RecvOpen
    <2>1. /\ ctx' = [ctx EXCEPT !["server"] = Failed(@)] /\ ~(Len(acptQueue) < AcceptCap)
          /\ Receiving("server", {"OPEN"})
      BY <1>2, <1>4 DEF RecvOpen
    <2>2. e = "server"
      BY <1>3, <2>1, Ends
    <2>3. wire[Peer(e)] # <<>> /\ ctx[e].main /\ Head(wire[Peer(e)]).flag = "OPEN"
      BY <2>1, <2>2 DEF Receiving
    <2>4. Head(wire[Peer(e)]) = seg
      BY <2>3, TakenSegment
    <2> QED
      BY <2>1, <2>3, <2>4
  <1>5. ASSUME NEW f \in End, RecvIcwd(f)
        PROVE  /\ wire[Peer(e)] # <<>> /\ Head(wire[Peer(e)]) = seg /\ ctx[e].main
               /\ seg.flag = "ICWD" /\ ~(dest[2] # 0 /\ sok[dest].sendwind >= Count)
               /\ \E s : Takes(e, s) /\ s = seg
    <2>1. ctx' = [ctx EXCEPT ![f] = Failed(@)]
      BY <1>2, <1>5 DEF RecvIcwd
    <2>2. f = e
      BY <1>3, <2>1
    <2>3. wire[Peer(e)] # <<>> /\ ctx[e].main /\ Head(wire[Peer(e)]).flag = "ICWD"
      BY <1>5, <2>2 DEF RecvIcwd, Receiving
    <2>4. Head(wire[Peer(e)]) = seg
      BY <2>3, TakenSegment
    <2>5. ~(dest[2] # 0 /\ sok[dest].sendwind >= Count)
      BY <1>2, <1>5, <2>2, <2>4 DEF RecvIcwd
    <2>6. PICK s : Takes(e, s)
      BY <1>5, <2>2, RecvIcwdStep
    <2>7. s = seg
      BY <2>6 DEF Takes
    <2> QED
      BY <2>3, <2>4, <2>5, <2>6, <2>7
  <1>6. ASSUME NEW f \in End, RecvSegment(f)
        PROVE  /\ wire[Peer(e)] # <<>> /\ Head(wire[Peer(e)]) = seg /\ ctx[e].main
               /\ seg.flag \in {"DATA", "CLOS"}
               /\ ~(dest[2] # 0 /\ Len(sok[dest].incoming) < Window)
               /\ \E s : Takes(e, s) /\ s = seg
    <2>1. ctx' = [ctx EXCEPT ![f] = Failed(@)]
      BY <1>2, <1>6 DEF RecvSegment
    <2>2. f = e
      BY <1>3, <2>1
    <2>3. wire[Peer(e)] # <<>> /\ ctx[e].main /\ Head(wire[Peer(e)]).flag \in {"DATA", "CLOS"}
      BY <1>6, <2>2 DEF RecvSegment, Receiving
    <2>4. Head(wire[Peer(e)]) = seg
      BY <2>3, TakenSegment
    <2>5. ~(dest[2] # 0 /\ Len(sok[dest].incoming) < Window)
      BY <1>2, <1>6, <2>2, <2>4 DEF RecvSegment, HasRoom
    <2>6. PICK s : Takes(e, s)
      BY <1>6, <2>2, RecvSegmentStep
    <2>7. s = seg
      BY <2>6 DEF Takes
    <2> QED
      BY <2>3, <2>4, <2>5, <2>6, <2>7
  <1>7. ASSUME NEW f \in End, ReadError(f) \/ AlivFails(f) PROVE FALSE
    BY <1>1, <1>7 DEF ReadError, AlivFails, CtxRec
  <1>8. CASE Kill
    BY <1>1, <1>8 DEF Kill, CtxRec
  <1>9. ASSUME ctx' = ctx PROVE FALSE
    BY <1>2, <1>9
  <1>10. ASSUME NEW s \in Sockets, Application(s) PROVE ctx' = ctx
    BY <1>10 DEF Application, TakeToken, SendData, Close, ReadData, ReadClos, ReadDying,
       SendIcwd, ReadTimeout, WriteTimeout, TieUp, socketOnly
  <1>11. ASSUME \/ \E i \in Ids : Reserve(i)
                \/ \E n \in Nums : OpenTunnel(n)
                \/ Accept \/ Cut \/ UNCHANGED vars
         PROVE  ctx' = ctx
    BY <1>11 DEF Reserve, OpenTunnel, Accept, Cut, contextOnly, vars
  <1> HIDE DEF seg, dest
  <1> QED
    BY <1>4, <1>5, <1>6, <1>7, <1>8, <1>9, <1>10, <1>11 DEF Next, Network, seg, dest

\* For every window, credit and number of ids and tunnels: two honest ends fail
\* each other's Context only over an id that Tunnel reused too early, a full
\* accept queue, or a CLOS behind a window of DATA of which nothing has been
\* read; never over credits, and never over DATA.
THEOREM NiaucchiFailuresExplained == Spec => FailuresExplained
  <1> DEFINE A == \A e \in End :
               ctx'[e].failed /\ ~ctx[e].failed =>
                 LET seg == Head(wire[Peer(e)])
                     dest == sok[<<e, seg.num>>]
                 IN  \/ seg.id \in crossed
                     \/ seg.flag = "OPEN" /\ Len(acptQueue) = AcceptCap
                     \/ seg.flag = "CLOS" /\ Len(dest.incoming) = Window /\ dest.recvcount = 0
  <1>1. CreditInv /\ [Next]_vars => A
    <2> SUFFICES ASSUME CreditInv, [Next]_vars, NEW e \in End, ctx'[e].failed, ~ctx[e].failed,
                        NEW seg, seg = Head(wire[Peer(e)]), seg.id \notin crossed
                 PROVE  \/ seg.flag = "OPEN" /\ Len(acptQueue) = AcceptCap
                        \/ /\ seg.flag = "CLOS" /\ Len(sok[<<e, seg.num>>].incoming) = Window
                           /\ sok[<<e, seg.num>>].recvcount = 0
      OBVIOUS
    <2>1. RoutingInv /\ TypeInv
      BY DEF CreditInv, StreamInv, RoutingInv
    <2> DEFINE dest == <<e, table[e][seg.id]>>
    <2>2. /\ wire[Peer(e)] # <<>> /\ seg = wire[Peer(e)][1] /\ ctx[e].main
          /\ \/ seg.flag = "OPEN" /\ ~(Len(acptQueue) < AcceptCap)
             \/ seg.flag = "ICWD" /\ ~(dest[2] # 0 /\ sok[dest].sendwind >= Count)
                /\ Takes(e, seg)
             \/ seg.flag \in {"DATA", "CLOS"}
                /\ ~(dest[2] # 0 /\ Len(sok[dest].incoming) < Window)
                /\ Takes(e, seg)
      BY <2>1, FailingStep
    <2>3. seg.num \in 1..Len(idOf) /\ seg.num # 0
      BY <2>1, <2>2, TakenSegment, NumFacts
    <2>4. ASSUME Takes(e, seg), seg.flag # "OPEN"
          PROVE  dest = <<e, seg.num>> /\ dest[2] # 0
      BY <2>1, <2>3, <2>4, Routed
    <2>5. CASE seg.flag = "OPEN" /\ ~(Len(acptQueue) < AcceptCap)
      <3>1. Len(acptQueue) <= AcceptCap /\ acptQueue \in Seq(1..Len(idOf))
        BY <2>1 DEF TypeInv, Types
      <3>2. Len(acptQueue) \in Nat
        BY <3>1
      <3> QED
        BY <2>5, <3>1, <3>2, Numbers
    <2>6. CASE /\ seg.flag = "ICWD" /\ ~(dest[2] # 0 /\ sok[dest].sendwind >= Count)
               /\ Takes(e, seg)
      <3>1. dest = <<e, seg.num>> /\ dest[2] # 0
        BY <2>4, <2>6
      <3>2. sok[<<e, seg.num>>].sendwind >= Count
        BY <2>2, <2>6, IcwdServed
      <3> QED
        BY <2>6, <3>1, <3>2
    <2>7. CASE /\ seg.flag \in {"DATA", "CLOS"}
               /\ ~(dest[2] # 0 /\ Len(sok[dest].incoming) < Window)
               /\ Takes(e, seg)
      <3>1. dest = <<e, seg.num>> /\ dest[2] # 0
        BY <2>4, <2>7
      <3>2. ~(Len(sok[<<e, seg.num>>].incoming) < Window)
        BY <2>7, <3>1
      <3> QED
        BY <2>2, <2>7, <3>2, SegmentServed
    <2> HIDE DEF dest
    <2> QED
      BY <2>2, <2>5, <2>6, <2>7
  <1>2. FailuresExplained <=> [][A]_vars
    BY DEF FailuresExplained
  <1>3. CreditInv /\ [Next]_vars => CreditInv'
    BY CreditStep
  <1> HIDE DEF A
  <1> QED
    BY <1>1, <1>2, <1>3, InitCreditInv, PTL DEF Spec
=============================================================================
