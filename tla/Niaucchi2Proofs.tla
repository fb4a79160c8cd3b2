-------------------------- MODULE Niaucchi2Proofs --------------------------
(* What the Contexts of a session keep for any number of wires, ids, tunnels *)
(* and segments: type correctness, that a socket reads what its own peer    *)
(* has written, and for what a mainThread fails.                            *)
EXTENDS Niaucchi2, SequenceTheorems, FiniteSetTheorems, FunctionTheorems, TLAPS

SegmentRec ==
    [flag : {"OPEN", "DATA", "ICWD", "CLOS"}, id : Ids, num : Nums, pos : Nat]

SocketRec ==
    [stage : {"none", "queued", "open"}, dead : BOOLEAN, closed : BOOLEAN,
     sendwind : 0..Window, recvcount : 0..(Window - 1), owed : Nat,
     reading : BOOLEAN, incoming : Seq(SegmentRec), sent : Nat, got : Seq(Nums \X Nat)]

SubRec ==
    [stage : {"none", "reading", "live", "leaked"}, dead : BOOLEAN, main : BOOLEAN,
     open : BOOLEAN]

Types ==
    /\ idOf \in Seq(Ids) /\ wireOf \in Seq(Wire) /\ Len(wireOf) = Len(idOf)
    /\ sok \in [Sockets -> SocketRec]
    /\ table \in [Context -> [Ids -> 0..Len(idOf)]]
    /\ dead \in [Context -> BOOLEAN]
    /\ acptQueue \in [Context -> Seq(1..Len(idOf))]
    /\ sub \in [End -> [Wire -> SubRec]]
    /\ line \in [Wire -> [End -> Seq(SegmentRec)]]
    /\ cut \in SUBSET Wire /\ ctxTab \in Context /\ given \in [Wire -> Context]
    /\ left \in Budget /\ crossed \in SUBSET Nums

\* A socket still speaks only if it has been handed out.
Asleep(k) == ~k.reading /\ k.owed = 0 /\ ~k.closed /\ k.sent = 0

\* Sockets, segments and table entries are those of tunnels that have been
\* drawn; segments are on the wire of their tunnel and have its id.
KnownSockets ==
    \A s \in Sockets :
      /\ s[2] > Len(idOf) => sok[s] = NewSocket
      /\ s[1] = "client" /\ s[2] <= Len(idOf) => sok[s].stage = "open"
      /\ sok[s].stage = "none" => Asleep(sok[s])
      /\ sok[s].stage # "none" => sub[s[1]][On(s)].stage = "live"
KnownSegments ==
    \A w \in Wire, e \in End : \A k \in 1..Len(line[w][e]) :
      LET seg == line[w][e][k]
      IN  seg.num <= Len(idOf) /\ seg.id = idOf[seg.num] /\ wireOf[seg.num] = w
KnownEntries == \A c \in Context, i \in Ids : table[c][i] # 0 => idOf[table[c][i]] = i
KnownQueue ==
    \A c \in Context : \A k \in 1..Len(acptQueue[c]) :
      sok[<<"server", acptQueue[c][k]>>].stage # "none"
Known == KnownSockets /\ KnownSegments /\ KnownEntries /\ KnownQueue

\* mainThread runs on an absorbed wire only, which doProxy has given away
Bounds ==
    /\ \A s \in Sockets : Len(sok[s].incoming) <= Window
    /\ \A c \in Context : Len(acptQueue[c]) <= AcceptCap
    /\ \A e \in End, w \in Wire : /\ sub[e][w].main => sub[e][w].stage = "live"
                                  /\ sub[e][w].stage = "reading" => sub[e][w].open
    /\ \A w \in Wire : sub["server"][w].stage = "none" <=> given[w] = 0
    /\ Len(idOf) <= left.tunnels /\ \E b \in Budgets : left.tunnels = b.tunnels

TypeInv == Types /\ Known /\ Bounds

\* A socket sends nothing once it is closed: it is dead, and CLOS is out only
\* then, behind all else of its tunnel.
ClosedDead == \A s \in Sockets : sok[s].closed => sok[s].dead
ClosOfClosed ==
    \A w \in Wire, e \in End : \A k \in 1..Len(line[w][e]) :
      line[w][e][k].flag = "CLOS" => sok[<<e, line[w][e][k].num>>].closed
ClosLast ==
    \A w \in Wire, e \in End : \A j, k \in 1..Len(line[w][e]) :
      j < k /\ line[w][e][j].flag = "CLOS" => line[w][e][k].num # line[w][e][j].num
Silence == ClosedDead /\ ClosOfClosed /\ ClosLast

-----------------------------------------------------------------------------
\* Tunnel n has reached the exit.
Started(n) == sok[<<"server", n>>].stage # "none"
\* Two tunnels of the same id, the first of which was over when Tunnel drew the
\* second: if they had met, both would be crossed.
Apart(m, n) == m < n /\ idOf[m] = idOf[n] /\ (m \notin crossed \/ n \notin crossed)
\* Something of tunnel n that end e has sent is on its way.
OnLine(e, n) == \E k \in 1..Len(line[wireOf[n]][e]) : line[wireOf[n]][e][k].num = n
\* Segment j of q is the OPEN of tunnel n.
OpenAt(q, n, j) == q[j].flag = "OPEN" /\ q[j].num = n
\* Nothing that is sent on wire w is lost.
Hale(w) == w \notin cut /\ \A e \in End : sub[e][w].open \/ sub[e][w].stage = "none"

\* A tunnel is over at the client before the next of its id is drawn; what it
\* has said is on the wire of the next one, in front of the OPEN of that, or off.
LastSpeaks ==
    \A m, n \in 1..Len(idOf) :
      Apart(m, n) => /\ sok[<<"client", m>>].closed
                     /\ OnLine("client", m) => wireOf[m] = wireOf[n] /\ ~Started(n)
\* What is for the client finds the socket it was sent to.
RoutedDown ==
    \A n \in 1..Len(idOf) :
      ~sok[<<"server", n>>].closed \/ OnLine("server", n) => table[0][idOf[n]] = n
\* On one wire the tunnels of an id follow one another.
InOrder ==
    \A w \in Wire : \A j, k \in 1..Len(line[w]["client"]) :
      j < k => ~Apart(line[w]["client"][k].num, line[w]["client"][j].num)
\* OPEN goes before all else of a tunnel, and is not lost on a wire that is hale.
OpenFirst ==
    /\ \A w \in Wire : \A k \in 1..Len(line[w]["client"]) :
         LET q == line[w]["client"]
         IN  \/ q[k].flag = "OPEN" \/ Started(q[k].num)
             \/ \E j \in 1..(k - 1) : OpenAt(q, q[k].num, j)
    /\ \A n \in 1..Len(idOf) :
         Hale(wireOf[n]) /\ ~sok[<<"client", n>>].closed =>
           \/ Started(n)
           \/ \E j \in 1..Len(line[wireOf[n]]["client"]) : OpenAt(line[wireOf[n]]["client"], n, j)
\* A tunnel that still speaks has its entry in the table of the exit, and no
\* entry is older than a tunnel of its id that has reached the same Context.
RoutedUp ==
    /\ \A n \in 1..Len(idOf) :
         n \notin crossed /\ Started(n) /\ (OnLine("client", n) \/ ~sok[<<"client", n>>].closed)
           => table[given[wireOf[n]]][idOf[n]] = n
    /\ \A c \in Context \ {0}, i \in Ids :
         table[c][i] # 0 =>
           /\ Started(table[c][i])
           /\ \A n \in 1..Len(idOf) :
                Started(n) /\ given[wireOf[n]] = c => ~Apart(table[c][i], n)
Routing == LastSpeaks /\ RoutedDown /\ InOrder /\ OpenFirst /\ RoutedUp

\* How many segments a socket r has been handed, and whether CLOS was the last
Arrived(r) == Len(r.got) + Len(r.incoming)
Ended(r) ==
    \/ Len(r.got) > 0 /\ r.got[Len(r.got)][2] = 0
    \/ Len(r.incoming) > 0 /\ r.incoming[Len(r.incoming)].flag = "CLOS"

\* What has come to socket r of tunnel n from its peer p: the DATA that p has
\* written, from the first on, and CLOS behind all of it.
Received(r, p, n) ==
    /\ \A k \in 1..Len(r.got) :
         \/ r.got[k] = <<n, k>>
         \/ r.got[k] = <<n, 0>> /\ k = Len(r.got) /\ Len(r.incoming) = 0
    /\ \A k \in 1..Len(r.incoming) :
         /\ r.incoming[k].num = n
         /\ \/ r.incoming[k].flag = "DATA" /\ r.incoming[k].pos = Len(r.got) + k
            \/ r.incoming[k].flag = "CLOS" /\ k = Len(r.incoming)
    /\ Ended(r) => p.closed /\ Arrived(r) = p.sent + 1
    /\ ~Ended(r) => Arrived(r) <= p.sent

\* Segment k of line w is DATA of tunnel n.
Data(w, n, k) == w[k].flag = "DATA" /\ w[k].num = n

\* The last of the first k segments of line w that are DATA for socket r is
\* number i, or r has been handed i of them and none is on its way.
UpTo(r, w, n, k, i) ==
    i = Arrived(r) \/ \E j \in 1..k : Data(w, n, j) /\ w[j].pos = i

\* What is still to come to socket r over line w when its peer has sent so much:
\* the rest of it, in order, and CLOS behind that.
Coming(r, sent, w, n, carried) ==
    IF Ended(r)
      THEN \A k \in 1..Len(w) : w[k].num = n => w[k].flag \notin {"DATA", "CLOS"}
      ELSE /\ \A k \in 1..Len(w) : Data(w, n, k) =>
                /\ Arrived(r) < w[k].pos /\ w[k].pos <= sent
                /\ UpTo(r, w, n, k - 1, w[k].pos - 1)
           /\ \A j, k \in 1..Len(w) :
                j < k /\ Data(w, n, j) /\ Data(w, n, k) => w[j].pos < w[k].pos
           /\ \A k \in 1..Len(w) :
                w[k].flag = "CLOS" /\ w[k].num = n => UpTo(r, w, n, k - 1, sent)
           /\ carried => UpTo(r, w, n, Len(w), sent)

\* mainThread of wire w at end e runs, or may yet be started.
Able(e, w) == sub[e][w].main \/ sub[e][w].stage \in {"none", "reading"}

\* The stream to socket n of end e
Stream(e, n) ==
    LET r == sok[<<e, n>>]
        p == sok[<<Peer(e), n>>]
        w == wireOf[n]
    IN  /\ Received(r, p, n)
        /\ Able(e, w) => Coming(r, p.sent, line[w][Peer(e)], n, Hale(w))

Streams == \A e \in End : \A n \in 1..Len(idOf) : n \notin crossed => Stream(e, n)

-----------------------------------------------------------------------------
(* Types *)

LEMMA Numbers ==
    /\ Window \in Nat /\ Count \in Nat /\ Count > 0 /\ Window > 1
    /\ LowMark \in Nat /\ HighMark \in Nat /\ HighMark + Count <= Window
    /\ AcceptCap \in Nat /\ Budgets \subseteq Budget
  BY Niaucchi2Assumption

LEMMA Ranges ==
    /\ \A n \in Nums : n \in Nat /\ n > 0
    /\ \A w \in Wire : w \in Nat /\ w > 0 /\ w \in Context
    /\ 0 \in Context
    /\ \A b \in Budgets : b.tunnels \in Nat /\ \A n \in 1..b.tunnels : n \in Nums
  <1>1. \A b \in Budgets : b.tunnels \in Nat /\ b.wires \in Nat
    BY Numbers DEF Budget
  <1> QED
    BY <1>1 DEF Nums, Wire, Context

LEMMA Ends ==
    /\ "client" \in End /\ "server" \in End
    /\ \A e \in End : Peer(e) \in End /\ Peer(e) # e /\ Peer(Peer(e)) = e
    /\ \A e, f \in End : f = e \/ f = Peer(e)
    /\ \A e \in End, n \in Nums : <<e, n>> \in Sockets
    /\ \A s \in Sockets : s[1] \in End /\ s[2] \in Nums /\ s = <<s[1], s[2]>>
  BY DEF End, Peer, Sockets

LEMMA NumFacts ==
    ASSUME TypeInv
    PROVE  /\ Len(idOf) \in Nat /\ idOf \in Seq(Ids) /\ wireOf \in Seq(Wire)
           /\ \A n \in 1..Len(idOf) :
                /\ n \in Nat /\ n \in Nums /\ idOf[n] \in Ids /\ wireOf[n] \in Wire
                /\ \A e \in End : <<e, n>> \in Sockets
           /\ \A s \in Sockets : s[2] <= Len(idOf) => s[2] \in 1..Len(idOf) /\ On(s) \in Wire
           /\ DOMAIN idOf = 1..Len(idOf)
  <1>1. Len(idOf) \in Nat /\ idOf \in Seq(Ids) /\ wireOf \in Seq(Wire) /\ Len(wireOf) = Len(idOf)
    BY DEF TypeInv, Types
  <1>2. \A n \in 1..Len(idOf) : n \in Nat /\ idOf[n] \in Ids /\ wireOf[n] \in Wire
    BY <1>1
  <1>3. PICK b \in Budgets : left.tunnels = b.tunnels
    BY DEF TypeInv, Bounds
  <1>4. \A n \in 1..Len(idOf) : n \in Nums
    <2>1. Len(idOf) <= b.tunnels /\ b.tunnels \in Nat
      BY <1>3, Ranges DEF TypeInv, Bounds
    <2>2. \A n \in 1..Len(idOf) : n \in 1..b.tunnels
      BY <1>1, <2>1
    <2> QED
      BY <2>2, Ranges
  <1>5. \A s \in Sockets : s[2] \in Nat /\ s[2] > 0
    BY Ends, Ranges
  <1>6. \A s \in Sockets : s[2] <= Len(idOf) => s[2] \in 1..Len(idOf)
    BY <1>1, <1>5
  <1>7. \A n \in 1..Len(idOf) : \A e \in End : <<e, n>> \in Sockets
    BY <1>4, Ends
  <1>8. DOMAIN idOf = 1..Len(idOf)
    BY <1>1
  <1>9. \A s \in Sockets : s[2] <= Len(idOf) => On(s) \in Wire
    BY <1>2, <1>6 DEF On
  <1> QED
    BY <1>1, <1>2, <1>4, <1>6, <1>7, <1>8, <1>9

LEMMA NewSocketType == NewSocket \in SocketRec
  BY Numbers DEF NewSocket, SocketRec

\* At most one segment more is on a wire, at its end.
Packed(w, e, seg) ==
    /\ \A v \in Wire, f \in End : ~(v = w /\ f = e) => line'[v][f] = line[v][f]
    /\ \A v \in Wire, f \in End : \A k \in 1..Len(line[v][f]) :
         k \in 1..Len(line'[v][f]) /\ line'[v][f][k] = line[v][f][k]
    /\ \A v \in Wire, f \in End : \A k \in 1..Len(line'[v][f]) :
         \/ k \in 1..Len(line[v][f]) /\ line'[v][f][k] = line[v][f][k]
         \/ /\ v = w /\ f = e /\ Carries(w, e)
            /\ k = Len(line[w][e]) + 1 /\ line'[v][f][k] = seg
    /\ Carries(w, e) => /\ Len(line[w][e]) + 1 \in 1..Len(line'[w][e])
                        /\ line'[w][e][Len(line[w][e]) + 1] = seg

\* What Pack does to a wire: nothing, or one segment more at its end.
LEMMA PackFacts ==
    ASSUME Types, NEW w \in Wire, NEW e \in End, NEW seg \in SegmentRec,
           line' = IF Carries(w, e) THEN [line EXCEPT ![w][e] = Append(@, seg)] ELSE line
    PROVE  /\ line' \in [Wire -> [End -> Seq(SegmentRec)]]
           /\ line'[w][e] = IF Carries(w, e) THEN Append(line[w][e], seg) ELSE line[w][e]
           /\ Packed(w, e, seg)
  <1>0. line \in [Wire -> [End -> Seq(SegmentRec)]] /\ line[w][e] \in Seq(SegmentRec)
    BY DEF Types
  <1>1. CASE Carries(w, e)
    <2> DEFINE new == Append(line[w][e], seg)
    <2>1. line' = [line EXCEPT ![w] = [line[w] EXCEPT ![e] = new]]
      BY <1>0, <1>1
    <2>2. /\ new \in Seq(SegmentRec) /\ Len(new) = Len(line[w][e]) + 1
          /\ \A i \in 1..Len(line[w][e]) : new[i] = line[w][e][i]
          /\ new[Len(line[w][e]) + 1] = seg
      BY <1>0, AppendProperties
    <2>3. Len(line[w][e]) \in Nat
      BY <1>0
    <2> HIDE DEF new
    <2>4. line'[w][e] = new /\ \A v \in Wire, f \in End : ~(v = w /\ f = e) => line'[v][f] = line[v][f]
      BY <1>0, <2>1
    <2>5. line' \in [Wire -> [End -> Seq(SegmentRec)]]
      BY <1>0, <2>1, <2>2
    <2>6. \A v \in Wire, f \in End : \A k \in 1..Len(line[v][f]) :
            k \in 1..Len(line'[v][f]) /\ line'[v][f][k] = line[v][f][k]
      BY <2>2, <2>3, <2>4
    <2>7. \A v \in Wire, f \in End : \A k \in 1..Len(line'[v][f]) :
                \/ k \in 1..Len(line[v][f]) /\ line'[v][f][k] = line[v][f][k]
                \/ /\ v = w /\ f = e /\ Carries(w, e)
                   /\ k = Len(line[w][e]) + 1 /\ line'[v][f][k] = seg
      BY <1>1, <2>2, <2>3, <2>4
    <2> QED
      BY <1>1, <2>2, <2>3, <2>4, <2>5, <2>6, <2>7 DEF new, Packed
  <1>2. CASE ~Carries(w, e)
    <2>1. line' = line
      BY <1>2
    <2> QED
      BY <1>0, <1>2, <2>1 DEF Packed
  <1> QED
    BY <1>1, <1>2

\* A segment of a tunnel that has been drawn keeps the wires known.
LEMMA PackKnown ==
    ASSUME TypeInv, NEW s \in Sockets, s[2] <= Len(idOf), NEW seg \in SegmentRec, Pack(s, seg),
           idOf' = idOf, wireOf' = wireOf, seg.num = s[2], seg.id = idOf[s[2]]
    PROVE  line' \in [Wire -> [End -> Seq(SegmentRec)]] /\ KnownSegments'
  <1>1. On(s) \in Wire /\ s[1] \in End /\ wireOf[seg.num] = On(s)
    BY Ends, NumFacts DEF On
  <1>2. PICK w \in Wire, e \in End : w = On(s) /\ e = s[1]
    BY <1>1
  <1>3. /\ line' \in [Wire -> [End -> Seq(SegmentRec)]]
        /\ \A v \in Wire, f \in End : \A k \in 1..Len(line'[v][f]) :
                \/ k \in 1..Len(line[v][f]) /\ line'[v][f][k] = line[v][f][k]
                \/ v = w /\ line'[v][f][k] = seg
    <2>1. line' = IF Carries(w, e) THEN [line EXCEPT ![w][e] = Append(@, seg)] ELSE line
      BY <1>2 DEF Pack
    <2>2. Types
      BY DEF TypeInv
    <2>3. line' \in [Wire -> [End -> Seq(SegmentRec)]] /\ Packed(w, e, seg)
      BY <2>1, <2>2, PackFacts
    <2> QED
      BY <2>3 DEF Packed
  <1>4. ASSUME NEW v \in Wire, NEW f \in End, NEW k \in 1..Len(line'[v][f])
        PROVE  LET x == line'[v][f][k]
               IN  x.num <= Len(idOf') /\ x.id = idOf'[x.num] /\ wireOf'[x.num] = v
    <2>1. CASE k \in 1..Len(line[v][f]) /\ line'[v][f][k] = line[v][f][k]
      BY <2>1 DEF TypeInv, Known, KnownSegments
    <2>2. CASE v = w /\ line'[v][f][k] = seg
      BY <1>1, <1>2, <2>2
    <2> QED
      BY <1>3, <2>1, <2>2
  <1> QED
    BY <1>3, <1>4 DEF KnownSegments

\* What mainThread does to a wire: it takes the first segment.
LEMMA UnpackFacts ==
    ASSUME Types, NEW w \in Wire, NEW e \in End, line[w][Peer(e)] # <<>>, Unpacked(e, w)
    PROVE  /\ line' \in [Wire -> [End -> Seq(SegmentRec)]]
           /\ 1 \in 1..Len(line[w][Peer(e)])
           /\ Head(line[w][Peer(e)]) = line[w][Peer(e)][1]
           /\ Head(line[w][Peer(e)]) \in SegmentRec
           /\ \A v \in Wire, f \in End : ~(v = w /\ f = Peer(e)) => line'[v][f] = line[v][f]
           /\ Len(line'[w][Peer(e)]) = Len(line[w][Peer(e)]) - 1
           /\ \A k \in 1..Len(line'[w][Peer(e)]) :
                /\ k + 1 \in 1..Len(line[w][Peer(e)])
                /\ line'[w][Peer(e)][k] = line[w][Peer(e)][k + 1]
  <1> DEFINE q == line[w][Peer(e)]
  <1>1. q \in Seq(SegmentRec) /\ Peer(e) \in End
    BY Ends DEF Types
  <1>2. line' = [line EXCEPT ![w] = [line[w] EXCEPT ![Peer(e)] = Tail(q)]]
    BY <1>1 DEF Unpacked, Types
  <1>3. /\ Head(q) \in SegmentRec /\ Tail(q) \in Seq(SegmentRec)
        /\ Len(Tail(q)) = Len(q) - 1
        /\ \A i \in 1..Len(Tail(q)) : Tail(q)[i] = q[i + 1]
    BY <1>1, HeadTailProperties
  <1>4. /\ line'[w][Peer(e)] = Tail(q)
        /\ \A v \in Wire, f \in End : ~(v = w /\ f = Peer(e)) => line'[v][f] = line[v][f]
    BY <1>1, <1>2 DEF Types
  <1>5. line' \in [Wire -> [End -> Seq(SegmentRec)]]
    BY <1>1, <1>2, <1>3 DEF Types
  <1>6. Len(q) \in Nat /\ Len(q) > 0 /\ Head(q) = q[1]
    BY <1>1
  <1> QED
    BY <1>3, <1>4, <1>5, <1>6

-----------------------------------------------------------------------------
(* What the steps have in common.  The proofs below go by these, and not by *)
(* the actions.                                                             *)

\* Socket t may die, and be opened if it is queued, and no more.
Still(t) ==
    /\ sok'[t].stage = "none" <=> sok[t].stage = "none"
    /\ sok'[t].closed = sok[t].closed /\ sok'[t].sent = sok[t].sent
    /\ sok'[t].got = sok[t].got /\ sok'[t].incoming = sok[t].incoming
    /\ sok[t].dead => sok'[t].dead

\* A wire that is broken stays so, a mainThread that is over does not run again,
\* and doProxy gives each wire away once.
Fading ==
    /\ \A w \in Wire : Hale(w)' => Hale(w)
    /\ \A e \in End, w \in Wire : Able(e, w)' => Able(e, w)
    /\ \A w \in Wire : given[w] # 0 => given'[w] = given[w]

Quiet ==
    /\ UNCHANGED <<idOf, wireOf, table, line, crossed>>
    /\ \A t \in Sockets : Still(t)
    /\ Fading

\* Socket s packs a segment.
Sends(s, seg) ==
    /\ UNCHANGED <<idOf, wireOf, table, sub, cut, given, crossed>>
    /\ s[2] <= Len(idOf) /\ sok[s].stage # "none" /\ sok'[s].stage # "none"
    /\ seg \in SegmentRec /\ seg.num = s[2] /\ seg.id = idOf[s[2]]
    /\ Pack(s, seg)
    /\ \A t \in Sockets \ {s} : Still(t)
    /\ sok'[s].got = sok[s].got /\ sok'[s].incoming = sok[s].incoming
    /\ sok[s].dead => sok'[s].dead
    /\ \/ /\ seg.flag = "DATA" /\ ~sok[s].dead /\ seg.pos = sok[s].sent + 1
          /\ sok'[s].closed = sok[s].closed /\ sok'[s].sent = sok[s].sent + 1
       \/ seg.flag = "ICWD" /\ ~sok[s].dead /\ Still(s)
       \/ /\ seg.flag = "CLOS" /\ ~sok[s].closed
          /\ sok'[s].closed /\ sok'[s].dead /\ sok'[s].sent = sok[s].sent

\* Read moves a segment from incoming into what it has returned.
Reads(s) ==
    LET in == sok[s].incoming
        seg == in[1]
    IN  /\ UNCHANGED <<idOf, wireOf, table, sub, cut, given, line, crossed>>
        /\ \A t \in Sockets \ {s} : Still(t)
        /\ sok[s].stage # "none" /\ sok'[s].stage # "none"
        /\ sok'[s].closed = sok[s].closed /\ sok'[s].sent = sok[s].sent
        /\ sok[s].dead => sok'[s].dead
        /\ Len(in) > 0
        /\ Len(sok'[s].incoming) = Len(in) - 1
        /\ \A k \in 1..(Len(in) - 1) : sok'[s].incoming[k] = in[k + 1]
        /\ Len(sok'[s].got) = Len(sok[s].got) + 1
        /\ \A k \in 1..Len(sok[s].got) : sok'[s].got[k] = sok[s].got[k]
        /\ \/ /\ seg.flag = "DATA"
              /\ sok'[s].got[Len(sok[s].got) + 1] = <<seg.num, seg.pos>>
           \/ /\ seg.flag = "CLOS"
              /\ sok'[s].got[Len(sok[s].got) + 1] = <<seg.num, 0>>

\* The tables after an entry of Context c was set
SetTo(c, i, n) ==
    \A d \in Context, j \in Ids : table'[d][j] = IF d = c /\ j = i THEN n ELSE table[d][j]

\* mainThread of wire w at end e takes a segment: OPEN starts its socket, ICWD
\* changes no stream, DATA and CLOS go into incoming of the socket in the table,
\* or mainThread ends.
Takes(e, w, seg) ==
    LET c == Owner(e, w)
        dest == <<e, table[c][seg.id]>>
        started == <<"server", seg.num>>
    IN  /\ UNCHANGED <<idOf, wireOf, given, crossed>> /\ Fading /\ sub[e][w].main
        /\ line[w][Peer(e)] # <<>> /\ seg = line[w][Peer(e)][1] /\ Unpacked(e, w)
        /\ \/ /\ seg.flag = "OPEN" /\ e = "server" /\ SetTo(c, seg.id, seg.num)
              /\ \A t \in Sockets \ {started} : Still(t)
              /\ sok'[started] = [sok[started] EXCEPT !.stage = "queued"]
           \/ seg.flag = "ICWD" /\ table' = table /\ \A t \in Sockets : Still(t)
           \/ /\ \/ seg.flag = "DATA" /\ table' = table
                 \/ seg.flag = "CLOS" /\ SetTo(c, seg.id, 0)
              /\ \/ ~Able(e, w)' /\ \A t \in Sockets : Still(t)
                 \/ /\ dest \in Sockets /\ \A t \in Sockets \ {dest} : Still(t)
                    /\ sok'[dest] = [sok[dest] EXCEPT !.incoming = Append(@, seg)]

\* Tunnel draws wire w and id i for the next tunnel.
Draws(i, w) ==
    LET n == Len(idOf) + 1
        c == <<"client", n>>
        open == [flag |-> "OPEN", id |-> i, num |-> n, pos |-> 0]
    IN  /\ UNCHANGED <<sub, cut, given>> /\ n \in Nums
        /\ sub["client"][w].stage = "live" /\ table[0][i] = 0
        /\ idOf' = Append(idOf, i) /\ wireOf' = Append(wireOf, w)
        /\ SetTo(0, i, n)
        /\ sok[c] = NewSocket /\ sok'[c] = Opened(NewSocket)
        /\ sok[<<"server", n>>] = NewSocket
        /\ \A t \in Sockets \ {c} : sok'[t] = sok[t]
        /\ line' = IF Carries(w, "client") THEN [line EXCEPT ![w]["client"] = Append(@, open)]
                   ELSE line
        /\ \A k \in crossed : k \in crossed'
        /\ \A k \in 1..Len(idOf) :
             idOf[k] = i /\ (k \notin crossed' \/ n \notin crossed')
               => /\ sok[<<"client", k>>].closed
                  /\ OnLine("client", k) => wireOf[k] = w

LEMMA ContextFades ==
    ASSUME UNCHANGED <<sub, cut, given>>
    PROVE  Fading
  BY DEF Fading, Hale, Able

-----------------------------------------------------------------------------
(* The steps of a socket *)

\* A step of socket s alone: what is left to show of its new state.
LEMMA SocketTypes ==
    ASSUME TypeInv, NEW s \in Sockets, s[2] <= Len(idOf), NEW new \in SocketRec,
           sok' = [sok EXCEPT ![s] = new], UNCHANGED <<idOf, wireOf>>,
           Len(new.incoming) <= Window,
           s[1] = "client" => new.stage = "open",
           new.stage = "none" => Asleep(new),
           new.stage # "none" => sub[s[1]][On(s)].stage = "live",
           \A e \in End, w \in Wire : sub[e][w].stage = "live" => sub'[e][w].stage = "live"
    PROVE  /\ sok' \in [Sockets -> SocketRec]
           /\ sok'[s] = new /\ \A t \in Sockets \ {s} : sok'[t] = sok[t] /\ Still(t)
           /\ KnownSockets' /\ \A t \in Sockets : Len(sok'[t].incoming) <= Window
  <1>1. sok \in [Sockets -> SocketRec]
    BY DEF TypeInv, Types
  <1>2. /\ sok' \in [Sockets -> SocketRec]
        /\ sok'[s] = new /\ \A t \in Sockets \ {s} : sok'[t] = sok[t]
    BY <1>1
  <1>3. s[2] \in Nat /\ Len(idOf) \in Nat /\ On(s) \in Wire /\ s[1] \in End
    BY NumFacts, Ends, Ranges
  <1>4. ASSUME NEW t \in Sockets
        PROVE  /\ t[2] > Len(idOf) => sok'[t] = NewSocket
               /\ t[1] = "client" /\ t[2] <= Len(idOf) => sok'[t].stage = "open"
               /\ sok'[t].stage = "none" => Asleep(sok'[t])
               /\ sok'[t].stage # "none" => sub'[t[1]][On(t)].stage = "live"
    <2>1. CASE t = s
      <3>1. ~(t[2] > Len(idOf))
        BY <1>3, <2>1
      <3> QED
        BY <1>2, <1>3, <2>1, <3>1
    <2>2. CASE t # s
      <3>1. /\ sok'[t] = sok[t]
            /\ t[2] > Len(idOf) => sok[t] = NewSocket
            /\ t[1] = "client" /\ t[2] <= Len(idOf) => sok[t].stage = "open"
            /\ sok[t].stage = "none" => Asleep(sok[t])
            /\ sok[t].stage # "none" => sub[t[1]][On(t)].stage = "live"
        BY <1>2, <2>2 DEF TypeInv, Known, KnownSockets
      <3>2. sok[t].stage # "none" => t[1] \in End /\ On(t) \in Wire
        <4>1. sok[t].stage # "none" => ~(t[2] > Len(idOf))
          BY <3>1 DEF NewSocket
        <4>2. t[2] \in Nat
          BY Ends, Ranges
        <4> QED
          BY <1>3, <4>1, <4>2, NumFacts, Ends
      <3> QED
        BY <3>1, <3>2
    <2> QED
      BY <2>1, <2>2
  <1>5. KnownSockets'
    <2>1. \A t \in Sockets : On(t)' = On(t)
      BY DEF On
    <2> QED
      BY <1>4, <2>1 DEF KnownSockets
  <1>6. \A t \in Sockets : Len(sok'[t].incoming) <= Window
    BY <1>2 DEF TypeInv, Bounds
  <1> QED
    BY <1>2, <1>5, <1>6 DEF Still

\* A socket that is not as new is that of a tunnel which has been drawn.
LEMMA Drawn ==
    ASSUME TypeInv, NEW s \in Sockets,
           sok[s].stage # "none" \/ sok[s].reading \/ sok[s].owed > 0
    PROVE  /\ s[2] \in 1..Len(idOf) /\ s[2] <= Len(idOf) /\ idOf[s[2]] \in Ids
           /\ sok[s].stage # "none" /\ sok[s] \in SocketRec
           /\ On(s) \in Wire /\ s[1] \in End /\ sub[s[1]][On(s)].stage = "live"
           /\ s[1] = "client" => sok[s].stage = "open"
  <1>1. s[2] \in Nat /\ s[2] > 0 /\ Len(idOf) \in Nat
    BY Ends, Ranges, NumFacts
  <1>2. sok[s] \in SocketRec /\ sok[s].owed \in Nat
    BY DEF TypeInv, Types, SocketRec
  <1>3. sok[s].stage # "none"
    BY <1>2 DEF TypeInv, Known, KnownSockets, Asleep
  <1>4. ~(s[2] > Len(idOf))
    BY <1>3 DEF TypeInv, Known, KnownSockets, NewSocket
  <1>5. s[2] \in 1..Len(idOf) /\ s[2] <= Len(idOf)
    BY <1>1, <1>4
  <1>6. sub[s[1]][On(s)].stage = "live" /\ (s[1] = "client" => sok[s].stage = "open")
    BY <1>3, <1>5 DEF TypeInv, Known, KnownSockets
  <1> QED
    BY <1>2, <1>3, <1>5, <1>6, NumFacts, Ends

\* What a step leaves of TypeInv to be shown when it changes neither the tunnels
\* nor the tables and Contexts
LEMMA SocketsOnly ==
    ASSUME TypeInv, sok' \in [Sockets -> SocketRec], KnownSockets', KnownQueue', KnownSegments',
           \A t \in Sockets : Len(sok'[t].incoming) <= Window,
           line' \in [Wire -> [End -> Seq(SegmentRec)]],
           UNCHANGED <<idOf, wireOf, table, dead, sub, cut, ctxTab, given, crossed>>,
           acptQueue' \in [Context -> Seq(1..Len(idOf))],
           \A c \in Context : Len(acptQueue'[c]) <= AcceptCap,
           left' \in Budget, left'.tunnels = left.tunnels
    PROVE  TypeInv'
  <1>1. Types'
    BY DEF TypeInv, Types
  <1>2. KnownEntries'
    BY DEF TypeInv, Known, KnownEntries
  <1>3. Bounds'
    BY DEF TypeInv, Bounds
  <1> QED
    BY <1>1, <1>2, <1>3 DEF TypeInv, Known

\* A step of a socket that nobody else sees
LEMMA QuietSocket ==
    ASSUME TypeInv, NEW s \in Sockets, s[2] <= Len(idOf), NEW new \in SocketRec,
           sok' = [sok EXCEPT ![s] = new],
           sok[s].stage # "none", new.stage # "none", s[1] = "client" => new.stage = "open",
           new.closed = sok[s].closed, new.sent = sok[s].sent,
           new.got = sok[s].got, new.incoming = sok[s].incoming, sok[s].dead => new.dead,
           UNCHANGED <<idOf, wireOf, table, dead, sub, line, cut, ctxTab, given, crossed>>,
           acptQueue' \in [Context -> Seq(1..Len(idOf))],
           \A c \in Context : /\ Len(acptQueue'[c]) <= AcceptCap
                              /\ \A k \in 1..Len(acptQueue'[c]) :
                                   sok[<<"server", acptQueue'[c][k]>>].stage # "none",
           left' \in Budget, left'.tunnels = left.tunnels
    PROVE  TypeInv' /\ Quiet
  <1>0. Len(new.incoming) <= Window /\ sub[s[1]][On(s)].stage = "live"
    BY Drawn DEF TypeInv, Bounds
  <1>1. /\ sok' \in [Sockets -> SocketRec]
        /\ sok'[s] = new /\ \A t \in Sockets \ {s} : sok'[t] = sok[t] /\ Still(t)
        /\ KnownSockets' /\ \A t \in Sockets : Len(sok'[t].incoming) <= Window
    BY <1>0, SocketTypes
  <1>2. \A t \in Sockets : Still(t)
    BY <1>1 DEF Still
  <1>3. KnownQueue'
    <2> SUFFICES ASSUME NEW c \in Context, NEW k \in 1..Len(acptQueue'[c])
                 PROVE  sok'[<<"server", acptQueue'[c][k]>>].stage # "none"
      BY DEF KnownQueue
    <2>1. acptQueue'[c][k] \in 1..Len(idOf)
      <3>1. acptQueue'[c] \in Seq(1..Len(idOf))
        OBVIOUS
      <3> QED
        BY <3>1
    <2>2. <<"server", acptQueue'[c][k]>> \in Sockets
      BY <2>1, NumFacts, Ends
    <2> QED
      BY <1>2, <2>2 DEF Still
  <1>4. KnownSegments' /\ line' \in [Wire -> [End -> Seq(SegmentRec)]]
    <2>1. KnownSegments /\ line \in [Wire -> [End -> Seq(SegmentRec)]]
      BY DEF TypeInv, Types, Known
    <2>2. KnownSegments'
      BY ONLY <2>1, UNCHANGED <<idOf, wireOf, line>> DEF KnownSegments
    <2> QED
      BY <2>1, <2>2
  <1>5. TypeInv'
    BY <1>1, <1>3, <1>4, SocketsOnly
  <1> QED
    BY <1>2, <1>5, ContextFades DEF Quiet

\* A step of a socket that sends a segment
LEMMA SendingSocket ==
    ASSUME TypeInv, NEW s \in Sockets, s[2] <= Len(idOf), NEW new \in SocketRec,
           sok' = [sok EXCEPT ![s] = new],
           sok[s].stage # "none", new.stage = sok[s].stage,
           new.got = sok[s].got, new.incoming = sok[s].incoming,
           NEW seg \in SegmentRec, seg.num = s[2], seg.id = idOf[s[2]], Pack(s, seg),
           UNCHANGED <<idOf, wireOf, table, dead, acptQueue, sub, cut, ctxTab, given, left, crossed>>
    PROVE  TypeInv' /\ sok'[s] = new /\ \A t \in Sockets \ {s} : Still(t)
  <1>0. /\ Len(new.incoming) <= Window /\ sub[s[1]][On(s)].stage = "live"
        /\ s[1] = "client" => new.stage = "open"
    BY Drawn DEF TypeInv, Bounds
  <1>1. /\ sok' \in [Sockets -> SocketRec]
        /\ sok'[s] = new /\ \A t \in Sockets \ {s} : sok'[t] = sok[t] /\ Still(t)
        /\ KnownSockets' /\ \A t \in Sockets : Len(sok'[t].incoming) <= Window
    BY <1>0, SocketTypes
  <1>2. KnownQueue'
    BY <1>1 DEF TypeInv, Known, KnownQueue
  <1>3. KnownSegments' /\ line' \in [Wire -> [End -> Seq(SegmentRec)]]
    BY PackKnown
  <1>4. /\ acptQueue' \in [Context -> Seq(1..Len(idOf))]
        /\ \A c \in Context : Len(acptQueue'[c]) <= AcceptCap
        /\ left' \in Budget /\ left'.tunnels = left.tunnels
    BY DEF TypeInv, Types, Bounds
  <1>5. TypeInv'
    BY <1>1, <1>2, <1>3, <1>4, SocketsOnly
  <1> QED
    BY <1>1, <1>5

\* The segments of a tunnel that has been drawn
LEMMA SegmentFacts ==
    ASSUME TypeInv, NEW s \in Sockets, s[2] <= Len(idOf),
           NEW flag \in {"OPEN", "DATA", "ICWD", "CLOS"}, NEW pos \in Nat,
           NEW seg, seg = Segment(flag, s[2], pos)
    PROVE  /\ seg \in SegmentRec /\ seg.flag = flag /\ seg.pos = pos
           /\ seg.num = s[2] /\ seg.id = idOf[s[2]]
  <1>1. s[2] \in Nums /\ idOf[s[2]] \in Ids
    BY Ends, NumFacts
  <1> QED
    BY <1>1 DEF Segment, SegmentRec

LEMMA WriteStep ==
    ASSUME TypeInv, NEW s \in Sockets, Write(s)
    PROVE  TypeInv' /\ \E seg : Sends(s, seg)
  <1> DEFINE new == [sok[s] EXCEPT !.sendwind = @ + 1, !.sent = @ + 1]
             seg == Segment("DATA", s[2], sok[s].sent + 1)
  <1>1. /\ sok[s] \in SocketRec /\ s[2] <= Len(idOf) /\ sok[s].stage # "none"
        /\ ~sok[s].dead /\ sok[s].sendwind < Window
    BY Drawn DEF Write, MayWrite
  <1>2. UNCHANGED <<idOf, wireOf, table, dead, acptQueue, sub, cut, ctxTab, given, left, crossed>>
    BY DEF Write, socketOnly, session
  <1>3. sok' = [sok EXCEPT ![s] = new] /\ Pack(s, seg)
    BY DEF Write, TypeInv, Types
  <1>4. new \in SocketRec /\ sok[s].sent + 1 \in Nat
    <2>1. sok[s].sendwind \in 0..Window /\ sok[s].sent \in Nat
      BY <1>1 DEF SocketRec
    <2>2. sok[s].sendwind + 1 \in 0..Window /\ sok[s].sent + 1 \in Nat
      BY <1>1, <2>1, Numbers
    <2> QED
      BY <1>1, <2>2 DEF SocketRec
  <1>5. /\ new.incoming = sok[s].incoming /\ new.sent = sok[s].sent + 1 /\ new.got = sok[s].got
        /\ new.stage = sok[s].stage /\ new.closed = sok[s].closed /\ new.dead = sok[s].dead
    BY <1>1 DEF SocketRec
  <1> HIDE DEF new
  <1>segment. seg = Segment("DATA", s[2], sok[s].sent + 1)
    OBVIOUS
  <1> HIDE DEF seg
  <1>fields. /\ seg \in SegmentRec /\ seg.flag = "DATA" /\ seg.pos = sok[s].sent + 1
             /\ seg.num = s[2] /\ seg.id = idOf[s[2]]
    BY <1>1, <1>4, <1>segment, SegmentFacts
  <1>6. TypeInv' /\ sok'[s] = new /\ \A t \in Sockets \ {s} : Still(t)
    BY <1>1, <1>2, <1>3, <1>4, <1>5, <1>fields, SendingSocket
  <1>7. Sends(s, seg)
    BY <1>1, <1>2, <1>3, <1>5, <1>6, <1>fields DEF Sends
  <1> QED
    BY <1>6, <1>7

LEMMA CloseStep ==
    ASSUME TypeInv, NEW s \in Sockets, Close(s)
    PROVE  TypeInv' /\ \E seg : Sends(s, seg)
  <1> DEFINE new == [sok[s] EXCEPT !.closed = TRUE, !.dead = TRUE]
             seg == Segment("CLOS", s[2], 0)
  <1>1. /\ sok[s] \in SocketRec /\ s[2] <= Len(idOf) /\ sok[s].stage # "none"
        /\ ~sok[s].closed
    BY Drawn DEF Close
  <1>2. UNCHANGED <<idOf, wireOf, table, dead, acptQueue, sub, cut, ctxTab, given, left, crossed>>
    BY DEF Close, socketOnly, session
  <1>3. sok' = [sok EXCEPT ![s] = new] /\ Pack(s, seg)
    BY DEF Close, TypeInv, Types
  <1>4. new \in SocketRec
    BY <1>1 DEF SocketRec
  <1>5. /\ new.incoming = sok[s].incoming /\ new.sent = sok[s].sent /\ new.got = sok[s].got
        /\ new.stage = sok[s].stage /\ new.closed /\ new.dead
    BY <1>1 DEF SocketRec
  <1> HIDE DEF new
  <1>segment. seg = Segment("CLOS", s[2], 0)
    OBVIOUS
  <1> HIDE DEF seg
  <1>fields. /\ seg \in SegmentRec /\ seg.flag = "CLOS" /\ seg.pos = 0
             /\ seg.num = s[2] /\ seg.id = idOf[s[2]]
    BY <1>1, <1>segment, SegmentFacts
  <1>6. TypeInv' /\ sok'[s] = new /\ \A t \in Sockets \ {s} : Still(t)
    BY <1>1, <1>2, <1>3, <1>4, <1>5, <1>fields, SendingSocket
  <1>7. Sends(s, seg)
    BY <1>1, <1>2, <1>3, <1>5, <1>6, <1>fields DEF Sends
  <1> QED
    BY <1>6, <1>7

\* The queues and the budget, where a step leaves them alone
LEMMA Elsewhere ==
    ASSUME TypeInv
    PROVE  /\ acptQueue \in [Context -> Seq(1..Len(idOf))]
           /\ \A c \in Context : /\ Len(acptQueue[c]) <= AcceptCap
                                 /\ \A k \in 1..Len(acptQueue[c]) :
                                      sok[<<"server", acptQueue[c][k]>>].stage # "none"
           /\ left \in Budget
  BY DEF TypeInv, Types, Bounds, Known, KnownQueue

LEMMA SendIcwdStep ==
    ASSUME TypeInv, NEW s \in Sockets, SendIcwd(s)
    PROVE  TypeInv' /\ (Quiet \/ \E seg : Sends(s, seg))
  <1> DEFINE new == [sok[s] EXCEPT !.owed = @ - 1]
             seg == Segment("ICWD", s[2], 0)
  <1>1. /\ sok[s] \in SocketRec /\ s[2] <= Len(idOf) /\ sok[s].stage # "none"
        /\ sok[s].owed > 0 /\ (s[1] = "client" => sok[s].stage = "open")
    BY Drawn DEF SendIcwd
  <1>2. UNCHANGED <<idOf, wireOf, table, dead, acptQueue, sub, cut, ctxTab, given, left, crossed>>
    BY DEF SendIcwd, socketOnly, session
  <1>3. sok' = [sok EXCEPT ![s] = new]
    BY DEF SendIcwd, TypeInv, Types
  <1>4. new \in SocketRec
    <2>1. sok[s].owed - 1 \in Nat
      BY <1>1 DEF SocketRec
    <2> QED
      BY <1>1, <2>1 DEF SocketRec
  <1>5. /\ new.incoming = sok[s].incoming /\ new.sent = sok[s].sent /\ new.got = sok[s].got
        /\ new.stage = sok[s].stage /\ new.closed = sok[s].closed /\ new.dead = sok[s].dead
    BY <1>1 DEF SocketRec
  <1> HIDE DEF new
  <1>6. CASE ~sok[s].dead
    <2>1. Pack(s, seg)
      BY <1>6 DEF SendIcwd
    <2>segment. seg = Segment("ICWD", s[2], 0)
      OBVIOUS
    <2> HIDE DEF seg
    <2>fields. /\ seg \in SegmentRec /\ seg.flag = "ICWD" /\ seg.pos = 0
               /\ seg.num = s[2] /\ seg.id = idOf[s[2]]
      BY <1>1, <2>segment, SegmentFacts
    <2>2. TypeInv' /\ sok'[s] = new /\ \A t \in Sockets \ {s} : Still(t)
      BY <1>1, <1>2, <1>3, <1>4, <1>5, <2>1, <2>fields, SendingSocket
    <2>3. Sends(s, seg)
      BY <1>1, <1>2, <1>5, <1>6, <2>1, <2>2, <2>fields DEF Sends, Still
    <2> QED
      BY <2>2, <2>3
  <1>7. CASE sok[s].dead
    <2>1. line' = line
      BY <1>7 DEF SendIcwd
    <2> QED
      BY <1>1, <1>2, <1>3, <1>4, <1>5, <2>1, Elsewhere, QuietSocket
  <1> QED
    BY <1>6, <1>7

\* A socket dies, or its Read gives up.
LEMMA DyingStep ==
    ASSUME TypeInv, NEW s \in Sockets, ReadDying(s) \/ SocketTimeout(s) \/ TieUp(s)
    PROVE  TypeInv' /\ Quiet
  <1>1. /\ sok[s] \in SocketRec /\ s[2] <= Len(idOf) /\ sok[s].stage # "none"
        /\ s[1] = "client" => sok[s].stage = "open"
    BY Drawn DEF ReadDying, SocketTimeout, TieUp
  <1>2. /\ UNCHANGED <<idOf, wireOf, table, dead, acptQueue, sub, line, cut, ctxTab, given, crossed>>
        /\ left' = left \/ (left.faults > 0 /\ left' = [left EXCEPT !.faults = @ - 1])
    BY DEF ReadDying, SocketTimeout, TieUp, socketOnly, session
  <1>3. left' \in Budget /\ left'.tunnels = left.tunnels
    <2>1. left \in Budget
      BY Elsewhere
    <2> QED
      BY <1>2, <2>1 DEF Budget
  <1>4. PICK d \in BOOLEAN, r \in BOOLEAN :
          /\ sok' = [sok EXCEPT ![s] = [sok[s] EXCEPT !.dead = d, !.reading = r]]
          /\ sok[s].dead => d
    <2>0. sok \in [Sockets -> SocketRec] /\ sok[s].dead \in BOOLEAN /\ sok[s].reading \in BOOLEAN
      BY <1>1 DEF SocketRec, TypeInv, Types
    <2>1. CASE ReadDying(s)
      <3>1. sok' = [sok EXCEPT ![s] = [sok[s] EXCEPT !.dead = sok[s].dead, !.reading = FALSE]]
        BY <1>1, <2>0, <2>1 DEF ReadDying, SocketRec
      <3> QED
        BY <2>0, <3>1
    <2>2. CASE SocketTimeout(s)
      <3> DEFINE r == sok[s].reading /\ sok[s].incoming # <<>>
      <3>1. sok' = [sok EXCEPT ![s] = [sok[s] EXCEPT !.dead = TRUE, !.reading = r]]
        BY <1>1, <2>0, <2>2 DEF SocketTimeout, SocketRec
      <3>2. r \in BOOLEAN
        BY <2>0
      <3> HIDE DEF r
      <3> QED
        BY <3>1, <3>2
    <2>3. CASE TieUp(s)
      <3>1. sok' = [sok EXCEPT ![s] = [sok[s] EXCEPT !.dead = TRUE, !.reading = sok[s].reading]]
        BY <1>1, <2>0, <2>3 DEF TieUp, SocketRec
      <3> QED
        BY <2>0, <3>1
    <2> QED
      BY <2>1, <2>2, <2>3
  <1> DEFINE new == [sok[s] EXCEPT !.dead = d, !.reading = r]
  <1>5. new \in SocketRec
    BY <1>1, <1>4 DEF SocketRec
  <1>6. /\ new.incoming = sok[s].incoming /\ new.sent = sok[s].sent /\ new.got = sok[s].got
        /\ new.stage = sok[s].stage /\ new.closed = sok[s].closed /\ new.dead = d
    BY <1>1 DEF SocketRec
  <1>7. sok' = [sok EXCEPT ![s] = new]
    BY <1>4
  <1> HIDE DEF new
  <1>8. /\ acptQueue' \in [Context -> Seq(1..Len(idOf))]
        /\ \A c \in Context : /\ Len(acptQueue'[c]) <= AcceptCap
                              /\ \A k \in 1..Len(acptQueue'[c]) :
                                   sok[<<"server", acptQueue'[c][k]>>].stage # "none"
    BY <1>2, Elsewhere
  <1>9. sok[s].dead => new.dead
    BY <1>4, <1>6
  <1> QED
    BY <1>1, <1>2, <1>3, <1>5, <1>6, <1>7, <1>8, <1>9, QuietSocket

LEMMA AcceptStep ==
    ASSUME TypeInv, NEW c \in Context, Accept(c)
    PROVE  TypeInv' /\ Quiet
  <1> DEFINE n == acptQueue[c][1]
             s == <<"server", n>>
             new == Opened(sok[s])
  <1>1. /\ acptQueue[c] \in Seq(1..Len(idOf)) /\ acptQueue[c] # <<>>
        /\ acptQueue \in [Context -> Seq(1..Len(idOf))]
    BY DEF Accept, TypeInv, Types
  <1>2. /\ Head(acptQueue[c]) = n /\ n \in 1..Len(idOf) /\ 1 \in 1..Len(acptQueue[c])
        /\ Tail(acptQueue[c]) \in Seq(1..Len(idOf))
        /\ Len(Tail(acptQueue[c])) = Len(acptQueue[c]) - 1
        /\ \A i \in 1..Len(Tail(acptQueue[c])) :
             Tail(acptQueue[c])[i] = acptQueue[c][i + 1] /\ i + 1 \in 1..Len(acptQueue[c])
    BY <1>1, HeadTailProperties
  <1>3. s \in Sockets /\ s[1] = "server" /\ s[2] = n
    <2>1. \A k \in 1..Len(idOf) : <<"server", k>> \in Sockets
      BY NumFacts, Ends
    <2> QED
      BY <1>2, <2>1
  <1>4. sok[s].stage # "none" /\ sok[s] \in SocketRec /\ s[2] <= Len(idOf)
    <2>1. sok[s].stage # "none"
      BY <1>2, Elsewhere
    <2> QED
      BY <1>3, <2>1, Drawn
  <1>5. /\ sok' = [sok EXCEPT ![s] = new]
        /\ acptQueue' = [acptQueue EXCEPT ![c] = Tail(acptQueue[c])]
        /\ UNCHANGED <<idOf, wireOf, table, dead, sub, line, cut, ctxTab, given, left, crossed>>
    BY <1>1, <1>2, <1>3 DEF Accept, session, TypeInv, Types
  <1>6. acptQueue' \in [Context -> Seq(1..Len(idOf))]
    BY <1>1, <1>2, <1>5
  <1>7. ASSUME NEW d \in Context
        PROVE  /\ Len(acptQueue'[d]) <= AcceptCap
               /\ \A k \in 1..Len(acptQueue'[d]) :
                    sok[<<"server", acptQueue'[d][k]>>].stage # "none"
    <2>1. /\ Len(acptQueue[d]) <= AcceptCap
          /\ \A k \in 1..Len(acptQueue[d]) : sok[<<"server", acptQueue[d][k]>>].stage # "none"
      BY Elsewhere
    <2>2. CASE d = c
      <3>1. acptQueue'[d] = Tail(acptQueue[c])
        BY <1>1, <1>5, <2>2
      <3>2. Len(acptQueue[c]) \in Nat
        BY <1>1
      <3> QED
        BY <1>2, <2>1, <2>2, <3>1, <3>2, Numbers
    <2>3. CASE d # c
      BY <1>1, <1>5, <2>1, <2>3
    <2> QED
      BY <2>2, <2>3
  <1>8. new \in SocketRec
    BY <1>4 DEF SocketRec, Opened
  <1>9. /\ new.incoming = sok[s].incoming /\ new.sent = sok[s].sent /\ new.got = sok[s].got
        /\ new.stage = "open" /\ new.closed = sok[s].closed /\ new.dead = sok[s].dead
    BY <1>4 DEF SocketRec, Opened
  <1> HIDE DEF new, s
  <1>10. left' \in Budget /\ left'.tunnels = left.tunnels
    BY <1>5, Elsewhere
  <1> QED
    BY <1>3, <1>4, <1>5, <1>6, <1>7, <1>8, <1>9, <1>10, QuietSocket

\* A Read that takes its item into what it has returned
LEMMA ReadingSocket ==
    ASSUME TypeInv, NEW s \in Sockets, s[2] <= Len(idOf), NEW new \in SocketRec,
           sok' = [sok EXCEPT ![s] = new], sok[s].stage # "none",
           sok[s].incoming # <<>>, new.incoming = Tail(sok[s].incoming),
           NEW item \in Nums \X Nat, new.got = Append(sok[s].got, item),
           \/ sok[s].incoming[1].flag = "DATA"
              /\ item = <<sok[s].incoming[1].num, sok[s].incoming[1].pos>>
           \/ sok[s].incoming[1].flag = "CLOS" /\ item = <<sok[s].incoming[1].num, 0>>,
           new.stage = sok[s].stage, new.closed = sok[s].closed, new.sent = sok[s].sent,
           sok[s].dead => new.dead,
           UNCHANGED <<idOf, wireOf, table, dead, acptQueue, sub, line, cut, ctxTab, given, left, crossed>>
    PROVE  TypeInv' /\ Reads(s)
  <1>1. sok[s].incoming \in Seq(SegmentRec) /\ sok[s].got \in Seq(Nums \X Nat)
    BY DEF TypeInv, Types, SocketRec
  <1>2. /\ Len(new.incoming) = Len(sok[s].incoming) - 1
        /\ \A k \in 1..Len(new.incoming) : new.incoming[k] = sok[s].incoming[k + 1]
        /\ Len(sok[s].incoming) \in Nat /\ Len(sok[s].incoming) > 0
    BY <1>1, HeadTailProperties
  <1>3. /\ Len(new.got) = Len(sok[s].got) + 1
        /\ \A k \in 1..Len(sok[s].got) : new.got[k] = sok[s].got[k]
        /\ new.got[Len(sok[s].got) + 1] = item
    BY <1>1, AppendProperties
  <1>4. /\ Len(new.incoming) <= Window /\ sub[s[1]][On(s)].stage = "live"
        /\ s[1] = "client" => new.stage = "open"
    BY <1>2, Numbers, Drawn DEF TypeInv, Bounds
  <1>5. /\ sok' \in [Sockets -> SocketRec]
        /\ sok'[s] = new /\ \A t \in Sockets \ {s} : sok'[t] = sok[t] /\ Still(t)
        /\ KnownSockets' /\ \A t \in Sockets : Len(sok'[t].incoming) <= Window
    BY <1>4, SocketTypes
  <1>6. KnownQueue' /\ KnownSegments' /\ line' \in [Wire -> [End -> Seq(SegmentRec)]]
    <2>1. KnownQueue'
      BY <1>5 DEF TypeInv, Known, KnownQueue
    <2> QED
      BY <2>1 DEF TypeInv, Types, Known, KnownSegments
  <1>7. /\ acptQueue' \in [Context -> Seq(1..Len(idOf))]
        /\ \A c \in Context : Len(acptQueue'[c]) <= AcceptCap
        /\ left' \in Budget /\ left'.tunnels = left.tunnels
    BY Elsewhere
  <1>8. TypeInv'
    BY <1>5, <1>6, <1>7, SocketsOnly
  <1>9. Reads(s)
    BY <1>2, <1>3, <1>5 DEF Reads
  <1> QED
    BY <1>8, <1>9

LEMMA ReadStep ==
    ASSUME TypeInv, NEW s \in Sockets, ReadData(s) \/ ReadClos(s)
    PROVE  TypeInv' /\ Reads(s)
  <1>1. /\ sok[s] \in SocketRec /\ s[2] <= Len(idOf) /\ sok[s].stage # "none"
        /\ sok[s].incoming # <<>>
    BY Drawn, Zenon DEF ReadData, ReadClos
  <1>2. UNCHANGED <<idOf, wireOf, table, dead, acptQueue, sub, line, cut, ctxTab, given, left, crossed>>
    BY Zenon DEF ReadData, ReadClos, socketOnly, session
  <1>3. sok[s].incoming \in Seq(SegmentRec) /\ sok[s].got \in Seq(Nums \X Nat)
    BY <1>1 DEF SocketRec
  <1> DEFINE seg == sok[s].incoming[1]
  <1>4. /\ Tail(sok[s].incoming) \in Seq(SegmentRec)
        /\ Head(sok[s].incoming) = seg /\ seg \in SegmentRec
        /\ seg.num \in Nums /\ seg.pos \in Nat
    <2>1. Tail(sok[s].incoming) \in Seq(SegmentRec) /\ Head(sok[s].incoming) \in SegmentRec
      BY <1>1, <1>3, HeadTailProperties
    <2> QED
      BY <1>1, <1>3, <2>1 DEF SegmentRec
  <1>5. CASE ReadData(s)
    <2> DEFINE more == Uint8Dec(sok[s].recvcount)
               item == <<seg.num, seg.pos>>
    <2>1. PICK mark \in LowMark..HighMark :
            sok' = [sok EXCEPT
                      ![s].reading = ~sok[s].dead,
                      ![s].incoming = Tail(@),
                      ![s].got = Append(@, item),
                      ![s].recvcount = IF more < mark THEN Uint8Add(more, Count) ELSE more,
                      ![s].owed = IF more < mark THEN @ + 1 ELSE @]
      BY <1>4, <1>5, Zenon DEF ReadData
    <2> DEFINE count == IF more < mark THEN Uint8Add(more, Count) ELSE more
               owing == IF more < mark THEN sok[s].owed + 1 ELSE sok[s].owed
    <2>2. item \in Nums \X Nat
      BY <1>4
    <2>3. count \in 0..(Window - 1) /\ owing \in Nat
      <3>1. sok[s].recvcount \in 0..(Window - 1) /\ sok[s].owed \in Nat
        BY <1>1 DEF SocketRec
      <3>2. more \in 0..(Window - 1)
        BY <3>1, Numbers DEF Uint8Dec
      <3> QED
        BY <3>1, <3>2, Numbers DEF Uint8Add
    <2>4. Append(sok[s].got, item) \in Seq(Nums \X Nat)
      BY <1>3, <2>2, AppendProperties
    <2> HIDE DEF more
    <2> DEFINE new == [sok[s] EXCEPT
                         !.reading = ~sok[s].dead,
                         !.incoming = Tail(sok[s].incoming),
                         !.got = Append(sok[s].got, item),
                         !.recvcount = count,
                         !.owed = owing]
    <2>5. sok' = [sok EXCEPT ![s] = new]
      BY <1>1, <2>1 DEF SocketRec, TypeInv, Types
    <2> HIDE DEF count, owing, item
    <2>6. new \in SocketRec
      BY <1>1, <1>4, <2>3, <2>4 DEF SocketRec
    <2>7. /\ new.incoming = Tail(sok[s].incoming) /\ new.got = Append(sok[s].got, item)
          /\ new.stage = sok[s].stage /\ new.closed = sok[s].closed /\ new.sent = sok[s].sent
          /\ new.dead = sok[s].dead
      BY <1>1 DEF SocketRec
    <2>8. seg.flag = "DATA"
      BY <1>4, <1>5, Zenon DEF ReadData
    <2> HIDE DEF new
    <2> QED
      BY <1>1, <1>2, <2>2, <2>5, <2>6, <2>7, <2>8, ReadingSocket DEF item
  <1>6. CASE ReadClos(s)
    <2> DEFINE item == <<seg.num, 0>>
               new == [sok[s] EXCEPT
                         !.reading = FALSE,
                         !.incoming = Tail(sok[s].incoming),
                         !.dead = TRUE,
                         !.got = Append(sok[s].got, item)]
    <2>1. item \in Nums \X Nat
      BY <1>4
    <2>2. Append(sok[s].got, item) \in Seq(Nums \X Nat)
      BY <1>3, <2>1, AppendProperties
    <2>3. sok' = [sok EXCEPT ![s] = new]
      BY <1>1, <1>4, <1>6 DEF ReadClos, SocketRec, TypeInv, Types
    <2> HIDE DEF item
    <2>4. new \in SocketRec
      BY <1>1, <1>4, <2>2 DEF SocketRec
    <2>5. /\ new.incoming = Tail(sok[s].incoming) /\ new.got = Append(sok[s].got, item)
          /\ new.stage = sok[s].stage /\ new.closed = sok[s].closed /\ new.sent = sok[s].sent
          /\ new.dead
      BY <1>1 DEF SocketRec
    <2>6. seg.flag = "CLOS"
      BY <1>4, <1>6 DEF ReadClos
    <2> HIDE DEF new
    <2> QED
      BY <1>1, <1>2, <2>1, <2>3, <2>4, <2>5, <2>6, ReadingSocket DEF item
  <1> QED
    BY <1>5, <1>6

-----------------------------------------------------------------------------
(* The steps of a Context *)

\* What may become of a subCtx: an absorbed one stays absorbed, and none that
\* is over or closed comes back.
Turns(a, b) ==
    /\ a.stage = "live" => b.stage = "live"
    /\ b.main => b.stage = "live"
    /\ b.stage = "reading" => b.open
    /\ b.open \/ b.stage = "none" => a.open \/ a.stage = "none"
    /\ b.main \/ b.stage \in {"none", "reading"} => a.main \/ a.stage \in {"none", "reading"}

LEMMA TurnsSame ==
    ASSUME NEW a, a.main => a.stage = "live", a.stage = "reading" => a.open
    PROVE  Turns(a, a)
  BY DEF Turns

LEMMA SubFacts ==
    ASSUME TypeInv, NEW e \in End, NEW w \in Wire, NEW new \in SubRec,
           sub' = [sub EXCEPT ![e][w] = new], Turns(sub[e][w], new)
    PROVE  /\ sub' \in [End -> [Wire -> SubRec]] /\ sub'[e][w] = new
           /\ \A f \in End, v \in Wire : ~(f = e /\ v = w) => sub'[f][v] = sub[f][v]
           /\ \A f \in End, v \in Wire : Turns(sub[f][v], sub'[f][v])
  <1>1. sub \in [End -> [Wire -> SubRec]]
    BY DEF TypeInv, Types
  <1>2. sub' = [sub EXCEPT ![e] = [sub[e] EXCEPT ![w] = new]]
    BY <1>1
  <1>3. /\ sub' \in [End -> [Wire -> SubRec]] /\ sub'[e][w] = new
        /\ \A f \in End, v \in Wire : ~(f = e /\ v = w) => sub'[f][v] = sub[f][v]
    BY <1>1, <1>2
  <1>4. \A f \in End, v \in Wire : /\ sub[f][v].main => sub[f][v].stage = "live"
                                   /\ sub[f][v].stage = "reading" => sub[f][v].open
    BY DEF TypeInv, Bounds
  <1>5. \A f \in End, v \in Wire : Turns(sub[f][v], sub[f][v])
    BY <1>4, TurnsSame
  <1> QED
    BY <1>3, <1>5

\* A step that changes subCtxs, Contexts and faults only
LEMMA ContextsOnly ==
    ASSUME TypeInv, UNCHANGED <<idOf, wireOf, sok, table, acptQueue, line, crossed>>,
           sub' \in [End -> [Wire -> SubRec]],
           \A f \in End, v \in Wire : Turns(sub[f][v], sub'[f][v]),
           dead' \in [Context -> BOOLEAN], cut' \in SUBSET Wire, cut \subseteq cut',
           ctxTab' \in Context, given' \in [Wire -> Context],
           \A v \in Wire : sub'["server"][v].stage = "none" <=> given'[v] = 0,
           \A v \in Wire : given[v] # 0 => given'[v] = given[v],
           left' \in Budget, left'.tunnels = left.tunnels
    PROVE  TypeInv' /\ Quiet
  <1>1. Types'
    BY DEF TypeInv, Types
  <1>2. KnownSockets'
    <2> SUFFICES ASSUME NEW s \in Sockets
                 PROVE  sok[s].stage # "none" => sub'[s[1]][On(s)].stage = "live"
      BY DEF TypeInv, Known, KnownSockets, On
    <2>1. sok[s].stage # "none" => /\ s[1] \in End /\ On(s) \in Wire
                                   /\ sub[s[1]][On(s)].stage = "live"
      BY Drawn
    <2> QED
      BY <2>1 DEF Turns
  <1>3. KnownSegments' /\ KnownEntries' /\ KnownQueue'
    <2>1. KnownSegments /\ KnownEntries /\ KnownQueue
      BY DEF TypeInv, Known
    <2>2. KnownSegments'
      BY ONLY <2>1, UNCHANGED <<idOf, wireOf, line>> DEF KnownSegments
    <2>3. KnownEntries'
      BY ONLY <2>1, UNCHANGED <<idOf, table>> DEF KnownEntries
    <2>4. KnownQueue'
      BY ONLY <2>1, UNCHANGED <<acptQueue, sok>> DEF KnownQueue
    <2> QED
      BY <2>2, <2>3, <2>4
  <1>4. Bounds'
    BY DEF TypeInv, Bounds, Turns
  <1>5. \A w \in Wire : Hale(w)' => Hale(w)
    BY DEF Hale, Turns
  <1>6. \A e \in End, w \in Wire : Able(e, w)' => Able(e, w)
    BY DEF Able, Turns
  <1>7. \A t \in Sockets : Still(t)
    BY DEF Still
  <1>8. Quiet
    BY <1>5, <1>6, <1>7 DEF Quiet, Fading
  <1> QED
    BY <1>1, <1>2, <1>3, <1>4, <1>8 DEF TypeInv, Known

\* The Contexts, their wires and the budget
LEMMA ContextTypes ==
    ASSUME TypeInv
    PROVE  /\ dead \in [Context -> BOOLEAN] /\ cut \in SUBSET Wire /\ ctxTab \in Context
           /\ given \in [Wire -> Context] /\ left \in Budget
           /\ sub \in [End -> [Wire -> SubRec]]
           /\ \A v \in Wire : sub["server"][v].stage = "none" <=> given[v] = 0
           /\ \A e \in End, v \in Wire : sub[e][v] \in SubRec /\ Owner(e, v) \in Context
           /\ \A e \in End, v \in Wire : /\ sub[e][v].main => sub[e][v].stage = "live"
                                         /\ sub[e][v].stage = "reading" => sub[e][v].open
           /\ \A f \in End, v \in Wire : Turns(sub[f][v], sub[f][v])
  <1>1. /\ dead \in [Context -> BOOLEAN] /\ cut \in SUBSET Wire /\ ctxTab \in Context
        /\ given \in [Wire -> Context] /\ left \in Budget
        /\ sub \in [End -> [Wire -> SubRec]]
    BY DEF TypeInv, Types
  <1>2. /\ \A v \in Wire : sub["server"][v].stage = "none" <=> given[v] = 0
        /\ \A e \in End, v \in Wire : /\ sub[e][v].main => sub[e][v].stage = "live"
                                      /\ sub[e][v].stage = "reading" => sub[e][v].open
    BY DEF TypeInv, Bounds
  <1>3. \A e \in End, v \in Wire : sub[e][v] \in SubRec /\ Owner(e, v) \in Context
    BY <1>1, Ranges DEF Owner
  <1>4. \A f \in End, v \in Wire : Turns(sub[f][v], sub[f][v])
    BY <1>2, TurnsSame
  <1> QED
    BY <1>1, <1>2, <1>3, <1>4

LEMMA FailFacts ==
    ASSUME TypeInv, NEW e \in End, NEW w \in Wire, sub[e][w].main, Fail(e, w)
    PROVE  /\ dead' \in [Context -> BOOLEAN] /\ sub' \in [End -> [Wire -> SubRec]]
           /\ \A f \in End, v \in Wire : Turns(sub[f][v], sub'[f][v])
           /\ \A v \in Wire : sub'["server"][v].stage = sub["server"][v].stage
           /\ ~Able(e, w)'
  <1>1. /\ sub[e][w] \in SubRec /\ sub[e][w].stage = "live" /\ Owner(e, w) \in Context
        /\ dead \in [Context -> BOOLEAN] /\ sub \in [End -> [Wire -> SubRec]]
    <2>1. sub[e][w].stage = "live"
      BY ContextTypes
    <2> QED
      BY <2>1, ContextTypes
  <1> DEFINE new == [sub[e][w] EXCEPT !.dead = TRUE, !.main = FALSE, !.open = FALSE]
  <1>2. new \in SubRec /\ new.stage = "live" /\ ~new.main /\ ~new.open
    BY <1>1 DEF SubRec
  <1>3. sub' = [sub EXCEPT ![e][w] = new]
    BY <1>1 DEF Fail
  <1>4. dead' \in [Context -> BOOLEAN]
    BY <1>1 DEF Fail
  <1> HIDE DEF new
  <1>5. Turns(sub[e][w], new)
    BY <1>1, <1>2 DEF Turns
  <1>6. /\ sub' \in [End -> [Wire -> SubRec]] /\ sub'[e][w] = new
        /\ \A f \in End, v \in Wire : ~(f = e /\ v = w) => sub'[f][v] = sub[f][v]
        /\ \A f \in End, v \in Wire : Turns(sub[f][v], sub'[f][v])
    BY <1>2, <1>3, <1>5, SubFacts
  <1>7. \A v \in Wire : sub'["server"][v].stage = sub["server"][v].stage
    BY <1>1, <1>2, <1>6, Ends
  <1>8. ~Able(e, w)'
    BY <1>2, <1>6 DEF Able
  <1> QED
    BY <1>4, <1>6, <1>7, <1>8

\* The Contexts absorb wires, ...
LEMMA AbsorbStep ==
    ASSUME TypeInv, NEW w \in Wire, AbsorbClient(w) \/ HandOver(w) \/ ReadSubid(w)
    PROVE  TypeInv' /\ Quiet
  <1>0. /\ LiveSub \in SubRec /\ LiveSub.stage = "live" /\ LiveSub.open
        /\ NewSub \in SubRec
    BY DEF LiveSub, NewSub, SubRec
  <1>1. /\ UNCHANGED <<idOf, wireOf, sok, table, acptQueue, line, crossed>>
        /\ cut' = cut /\ left' = left
    BY DEF AbsorbClient, HandOver, ReadSubid, absorbing, sockets
  <1>2. \A v \in Wire : v \in Context /\ v # 0
    BY Ranges
  <1>3. CASE AbsorbClient(w)
    <2>1. /\ sub["client"][w].stage = "none" /\ sub' = [sub EXCEPT !["client"][w] = LiveSub]
          /\ UNCHANGED <<dead, ctxTab, given>>
      BY <1>3 DEF AbsorbClient, session
    <2>2. PICK new \in SubRec : /\ sub' = [sub EXCEPT !["client"][w] = new]
                               /\ Turns(sub["client"][w], new)
      BY <1>0, <2>1 DEF Turns
    <2>3. /\ sub' \in [End -> [Wire -> SubRec]]
          /\ \A f \in End, v \in Wire : ~(f = "client" /\ v = w) => sub'[f][v] = sub[f][v]
          /\ \A f \in End, v \in Wire : Turns(sub[f][v], sub'[f][v])
      <3>1. PICK e \in End : e = "client"
        BY Ends
      <3>2. sub' = [sub EXCEPT ![e][w] = new] /\ Turns(sub[e][w], new)
        BY <2>2, <3>1
      <3>3. /\ sub' \in [End -> [Wire -> SubRec]] /\ sub'[e][w] = new
            /\ \A f \in End, v \in Wire : ~(f = e /\ v = w) => sub'[f][v] = sub[f][v]
            /\ \A f \in End, v \in Wire : Turns(sub[f][v], sub'[f][v])
        BY <3>2, SubFacts
      <3> QED
        BY <3>1, <3>3
    <2>4. \A v \in Wire : sub'["server"][v] = sub["server"][v]
      BY <2>3, Ends
    <2> QED
      BY <1>1, <2>1, <2>3, <2>4, ContextTypes, ContextsOnly
  <1>4. CASE HandOver(w)
    <2> DEFINE new == [NewSub EXCEPT !.open = TRUE,
                         !.stage = IF dead[given'[w]] THEN "leaked" ELSE "reading"]
    <2>1. /\ sub["server"][w].stage = "none" /\ sub' = [sub EXCEPT !["server"][w] = new]
          /\ ctxTab' = IF ctxTab = 0 THEN w ELSE ctxTab
          /\ given' = [given EXCEPT ![w] = ctxTab'] /\ dead' = dead
      BY <1>4 DEF HandOver
    <2>2. new \in SubRec /\ new.open /\ new.stage \in {"leaked", "reading"} /\ ~new.main
      BY DEF NewSub, SubRec
    <2> HIDE DEF new
    <2>3. Turns(sub["server"][w], new)
      BY <2>1, <2>2 DEF Turns
    <2>4. /\ sub' \in [End -> [Wire -> SubRec]] /\ sub'["server"][w] = new
          /\ \A f \in End, v \in Wire : ~(f = "server" /\ v = w) => sub'[f][v] = sub[f][v]
          /\ \A f \in End, v \in Wire : Turns(sub[f][v], sub'[f][v])
      BY <2>1, <2>2, <2>3, Ends, SubFacts
    <2>5. ctxTab' \in Context /\ ctxTab' # 0
      BY <1>2, <2>1, ContextTypes
    <2>6. /\ given' \in [Wire -> Context] /\ given'[w] # 0
          /\ \A v \in Wire \ {w} : given'[v] = given[v]
      BY <2>1, <2>5, ContextTypes
    <2>7. given[w] = 0
      BY <2>1, ContextTypes
    <2>8. \A v \in Wire : sub'["server"][v].stage = "none" <=> given'[v] = 0
      BY <2>2, <2>4, <2>6, Ends, ContextTypes
    <2>9. \A v \in Wire : given[v] # 0 => given'[v] = given[v]
      BY <2>6, <2>7
    <2> QED
      BY <1>1, <2>1, <2>4, <2>5, <2>6, <2>8, <2>9, ContextTypes, ContextsOnly
  <1>5. CASE ReadSubid(w)
    <2>1. sub["server"][w] \in SubRec /\ sub["server"][w].stage = "reading" /\ sub["server"][w].open
      <3>1. sub["server"][w].stage = "reading"
        BY <1>5 DEF ReadSubid
      <3> QED
        BY <3>1, Ends, ContextTypes
    <2> DEFINE leaked == [sub["server"][w] EXCEPT !.stage = "leaked"]
    <2>2. PICK new : /\ new = LiveSub \/ new = [sub["server"][w] EXCEPT !.stage = "leaked"]
                     /\ sub' = [sub EXCEPT !["server"][w] = new]
      <3>1. sub \in [End -> [Wire -> SubRec]] /\ "server" \in End
        BY Ends, ContextTypes
      <3>2. \/ sub' = [sub EXCEPT !["server"][w] = LiveSub]
            \/ sub' = [sub EXCEPT !["server"][w].stage = "leaked"]
        BY <1>5 DEF ReadSubid
      <3>3. [sub EXCEPT !["server"][w].stage = "leaked"] = [sub EXCEPT !["server"][w] = leaked]
        BY <3>1
      <3> QED
        BY <3>2, <3>3
    <2>3. new \in SubRec /\ new.stage \in {"live", "leaked"} /\ (new.stage = "leaked" => ~new.main)
      <3>1. ~sub["server"][w].main
        BY <2>1, Ends, ContextTypes
      <3> QED
        BY <1>0, <2>1, <2>2, <3>1 DEF SubRec
    <2>4. Turns(sub["server"][w], new)
      BY <2>1, <2>3 DEF Turns
    <2>5. /\ sub' \in [End -> [Wire -> SubRec]] /\ sub'["server"][w] = new
          /\ \A f \in End, v \in Wire : ~(f = "server" /\ v = w) => sub'[f][v] = sub[f][v]
          /\ \A f \in End, v \in Wire : Turns(sub[f][v], sub'[f][v])
      BY <2>2, <2>3, <2>4, Ends, SubFacts
    <2>6. \A v \in Wire : sub'["server"][v].stage = "none" <=> given[v] = 0
      BY <2>1, <2>3, <2>5, Ends, ContextTypes
    <2>7. dead' \in [Context -> BOOLEAN] /\ UNCHANGED <<ctxTab, given>>
      <3>1. dead' = dead \/ dead' = [dead EXCEPT ![given[w]] = TRUE]
        BY <1>5 DEF ReadSubid
      <3>2. UNCHANGED <<ctxTab, given>>
        BY <1>5 DEF ReadSubid, session
      <3> QED
        BY <3>1, <3>2, ContextTypes
    <2> QED
      BY <1>1, <2>5, <2>6, <2>7, ContextTypes, ContextsOnly
  <1> QED
    BY <1>3, <1>4, <1>5

\* ... and lose them.
LEMMA ContextStep ==
    ASSUME TypeInv, NEW e \in End, NEW w \in Wire,
           \/ ReadError(e, w) \/ Watchdog(e, w) \/ CloseWire(e, w)
           \/ Kill \/ Cut(w) \/ Forget
    PROVE  TypeInv' /\ Quiet
  <1>1. UNCHANGED <<idOf, wireOf, sok, table, acptQueue, line, crossed, given>>
    BY DEF ReadError, Watchdog, CloseWire, Kill, Cut, Forget, contextOnly, absorbing, sockets,
           session
  <1>2. CASE ReadError(e, w)
    <2>1. sub[e][w].main /\ Fail(e, w) /\ UNCHANGED <<ctxTab, cut, left>>
      BY <1>2 DEF ReadError, contextOnly, session
    <2> QED
      BY <1>1, <2>1, FailFacts, ContextTypes, ContextsOnly
  <1>3. CASE Watchdog(e, w) \/ CloseWire(e, w)
    <2>1. UNCHANGED <<ctxTab, dead, cut, left>>
      BY <1>3 DEF Watchdog, CloseWire, contextOnly, session
    <2>2. PICK o \in BOOLEAN :
            /\ sub' = [sub EXCEPT ![e][w] = [sub[e][w] EXCEPT !.dead = TRUE, !.open = o]]
            /\ o => sub[e][w].open /\ sub[e][w].stage = "live"
            /\ sub[e][w].stage = "live"
      <3>1. /\ sub \in [End -> [Wire -> SubRec]] /\ sub[e][w] \in SubRec
            /\ sub[e][w].main => sub[e][w].stage = "live"
        BY ContextTypes
      <3>2. sub[e][w].open \in BOOLEAN
        BY <3>1 DEF SubRec
      <3>3. CASE Watchdog(e, w)
        <4>1. [sub EXCEPT ![e][w].dead = TRUE]
                = [sub EXCEPT ![e][w] = [sub[e][w] EXCEPT !.dead = TRUE, !.open = sub[e][w].open]]
          BY <3>1 DEF SubRec
        <4>2. sub[e][w].stage = "live"
          BY <3>1, <3>3 DEF Watchdog
        <4>3. sub' = [sub EXCEPT ![e][w].dead = TRUE]
          BY <3>3 DEF Watchdog
        <4> QED
          BY <3>2, <4>1, <4>2, <4>3
      <3>4. CASE CloseWire(e, w)
        <4>1. [sub EXCEPT ![e][w].open = FALSE, ![e][w].dead = TRUE]
                = [sub EXCEPT ![e][w] = [sub[e][w] EXCEPT !.dead = TRUE, !.open = FALSE]]
          BY <3>1 DEF SubRec
        <4>2. /\ sub[e][w].stage = "live"
              /\ sub' = [sub EXCEPT ![e][w].open = FALSE, ![e][w].dead = TRUE]
          BY <3>4 DEF CloseWire
        <4> QED
          BY <4>1, <4>2
      <3> QED
        BY <1>3, <3>3, <3>4, Zenon
    <2> DEFINE new == [sub[e][w] EXCEPT !.dead = TRUE, !.open = o]
    <2>3. /\ new \in SubRec /\ new.stage = "live" /\ new.main = sub[e][w].main
          /\ new.open = o
      <3>1. sub[e][w] \in SubRec
        BY ContextTypes
      <3> QED
        BY <2>2, <3>1 DEF SubRec
    <2>4. sub' = [sub EXCEPT ![e][w] = new]
      BY <2>2
    <2> HIDE DEF new
    <2>5. Turns(sub[e][w], new)
      BY <2>2, <2>3 DEF Turns
    <2>6. /\ sub' \in [End -> [Wire -> SubRec]] /\ sub'[e][w] = new
          /\ \A f \in End, v \in Wire : ~(f = e /\ v = w) => sub'[f][v] = sub[f][v]
          /\ \A f \in End, v \in Wire : Turns(sub[f][v], sub'[f][v])
      BY <2>3, <2>4, <2>5, SubFacts
    <2>7. \A v \in Wire : sub'["server"][v].stage = sub["server"][v].stage
      BY <2>2, <2>3, <2>6, Ends
    <2> QED
      BY <1>1, <2>1, <2>6, <2>7, ContextTypes, ContextsOnly
  <1>4. CASE Kill \/ Cut(w)
    <2>1. sub' = sub /\ ctxTab' = ctxTab /\ dead' \in [Context -> BOOLEAN]
      <3>1. sub' = sub /\ ctxTab' = ctxTab
            /\ (dead' = dead \/ dead' = [dead EXCEPT ![0] = TRUE])
        BY <1>4 DEF Kill, Cut, contextOnly, session
      <3> QED
        BY <3>1, ContextTypes
    <2>2. cut' \in SUBSET Wire /\ cut \subseteq cut'
      <3>1. cut' = cut \/ cut' = cut \cup {w}
        BY <1>4 DEF Kill, Cut
      <3> QED
        BY <3>1, ContextTypes
    <2>3. left' \in Budget /\ left'.tunnels = left.tunnels
      <3>1. left.faults > 0 /\ left' = [left EXCEPT !.faults = @ - 1] /\ left \in Budget
        BY <1>4, ContextTypes DEF Kill, Cut
      <3> QED
        BY <3>1 DEF Budget
    <2> QED
      BY <1>1, <2>1, <2>2, <2>3, ContextTypes, ContextsOnly
  <1>5. CASE Forget
    <2>1. ctxTab' = 0 /\ UNCHANGED <<sub, dead, cut, left>>
      BY <1>5 DEF Forget, absorbing
    <2> QED
      BY <1>1, <2>1, Ranges, ContextTypes, ContextsOnly
  <1> QED
    BY <1>2, <1>3, <1>4, <1>5

\* The segment that mainThread takes is that of a tunnel that has been drawn.
LEMMA TakenSegment ==
    ASSUME TypeInv, NEW e \in End, NEW w \in Wire, line[w][Peer(e)] # <<>>,
           NEW seg, seg = line[w][Peer(e)][1]
    PROVE  /\ Head(line[w][Peer(e)]) = seg /\ seg \in SegmentRec
           /\ seg.id \in Ids /\ seg.num \in 1..Len(idOf) /\ seg.num \in Nums
           /\ seg.id = idOf[seg.num] /\ wireOf[seg.num] = w
           /\ 1 \in 1..Len(line[w][Peer(e)])
  <1>1. line[w][Peer(e)] \in Seq(SegmentRec) /\ Peer(e) \in End
    BY Ends DEF TypeInv, Types
  <1>2. /\ Head(line[w][Peer(e)]) = seg /\ seg \in SegmentRec /\ 1 \in 1..Len(line[w][Peer(e)])
    BY <1>1
  <1>3. seg.num <= Len(idOf) /\ seg.id = idOf[seg.num] /\ wireOf[seg.num] = w
    <2>1. KnownSegments
      BY DEF TypeInv, Known
    <2> QED
      BY <1>1, <1>2, <2>1 DEF KnownSegments
  <1>4. seg.id \in Ids /\ seg.num \in Nums
    BY <1>2 DEF SegmentRec
  <1>5. Len(idOf) \in Nat /\ seg.num \in Nat /\ seg.num > 0
    BY <1>4, Ranges, NumFacts
  <1> QED
    BY <1>2, <1>3, <1>4, <1>5

LEMMA UnpackKnown ==
    ASSUME TypeInv, NEW e \in End, NEW w \in Wire, line[w][Peer(e)] # <<>>, Unpacked(e, w),
           idOf' = idOf, wireOf' = wireOf
    PROVE  line' \in [Wire -> [End -> Seq(SegmentRec)]] /\ KnownSegments'
  <1>1. /\ line' \in [Wire -> [End -> Seq(SegmentRec)]]
        /\ \A v \in Wire, f \in End : ~(v = w /\ f = Peer(e)) => line'[v][f] = line[v][f]
        /\ \A k \in 1..Len(line'[w][Peer(e)]) :
             /\ k + 1 \in 1..Len(line[w][Peer(e)])
             /\ line'[w][Peer(e)][k] = line[w][Peer(e)][k + 1]
    BY UnpackFacts DEF TypeInv
  <1>2. KnownSegments
    BY DEF TypeInv, Known
  <1>3. ASSUME NEW v \in Wire, NEW f \in End, NEW k \in 1..Len(line'[v][f])
        PROVE  \E j \in 1..Len(line[v][f]) : line'[v][f][k] = line[v][f][j]
    <2>1. CASE v = w /\ f = Peer(e)
      BY <1>1, <2>1
    <2>2. CASE ~(v = w /\ f = Peer(e))
      BY <1>1, <2>2
    <2> QED
      BY <2>1, <2>2
  <1>4. ASSUME NEW v \in Wire, NEW f \in End, NEW k \in 1..Len(line'[v][f])
        PROVE  LET x == line'[v][f][k]
               IN  x.num <= Len(idOf') /\ x.id = idOf'[x.num] /\ wireOf'[x.num] = v
    <2>1. PICK j \in 1..Len(line[v][f]) : line'[v][f][k] = line[v][f][j]
      BY <1>3
    <2> QED
      BY <1>2, <2>1 DEF KnownSegments
  <1>5. KnownSegments'
    BY <1>4 DEF KnownSegments
  <1> QED
    BY <1>1, <1>5

\* What a socket that has been drawn is tied to
LEMMA Standing ==
    ASSUME TypeInv, NEW s \in Sockets, s[2] <= Len(idOf)
    PROVE  /\ sok[s] \in SocketRec /\ Len(sok[s].incoming) <= Window
           /\ s[1] = "client" => sok[s].stage = "open"
           /\ sok[s].stage = "none" => Asleep(sok[s])
           /\ sok[s].stage # "none" => sub[s[1]][On(s)].stage = "live"
  BY DEF TypeInv, Types, Known, KnownSockets, Bounds

LEMMA Fails ==
    ASSUME TypeInv, NEW e \in End, NEW w \in Wire, sub[e][w].main,
           GoesOn \/ Fail(e, w), cut' = cut, given' = given
    PROVE  /\ dead' \in [Context -> BOOLEAN] /\ sub' \in [End -> [Wire -> SubRec]]
           /\ \A f \in End, v \in Wire : Turns(sub[f][v], sub'[f][v])
           /\ \A v \in Wire : sub'["server"][v].stage = "none" <=> given'[v] = 0
           /\ Fail(e, w) => ~Able(e, w)'
           /\ Fading
  <1>1. /\ dead' \in [Context -> BOOLEAN] /\ sub' \in [End -> [Wire -> SubRec]]
        /\ \A f \in End, v \in Wire : Turns(sub[f][v], sub'[f][v])
        /\ \A v \in Wire : sub'["server"][v].stage = sub["server"][v].stage
        /\ Fail(e, w) => ~Able(e, w)'
    <2>1. CASE GoesOn /\ ~Fail(e, w)
      BY <2>1, ContextTypes DEF GoesOn
    <2>2. CASE Fail(e, w)
      BY <2>2, FailFacts
    <2> QED
      BY <2>1, <2>2
  <1>2. \A v \in Wire : sub'["server"][v].stage = "none" <=> given'[v] = 0
    BY <1>1, ContextTypes
  <1>3. \A v \in Wire : Hale(v)' => Hale(v)
    BY <1>1 DEF Hale, Turns
  <1>4. \A f \in End, v \in Wire : Able(f, v)' => Able(f, v)
    BY <1>1 DEF Able, Turns
  <1> QED
    BY <1>1, <1>2, <1>3, <1>4 DEF Fading

\* What is left to show of a step of mainThread
LEMMA MainTypes ==
    ASSUME TypeInv, NEW e \in End, NEW w \in Wire, sub[e][w].main,
           line[w][Peer(e)] # <<>>, Unpacked(e, w), GoesOn \/ Fail(e, w),
           UNCHANGED <<idOf, wireOf, crossed, cut, ctxTab, given, left>>,
           sok' \in [Sockets -> SocketRec], KnownSockets', KnownQueue', KnownEntries',
           \A t \in Sockets : Len(sok'[t].incoming) <= Window,
           table' \in [Context -> [Ids -> 0..Len(idOf)]],
           acptQueue' \in [Context -> Seq(1..Len(idOf))],
           \A c \in Context : Len(acptQueue'[c]) <= AcceptCap
    PROVE  TypeInv' /\ Fading /\ (Fail(e, w) => ~Able(e, w)')
  <1>1. /\ dead' \in [Context -> BOOLEAN] /\ sub' \in [End -> [Wire -> SubRec]]
        /\ \A f \in End, v \in Wire : Turns(sub[f][v], sub'[f][v])
        /\ \A v \in Wire : sub'["server"][v].stage = "none" <=> given'[v] = 0
        /\ Fail(e, w) => ~Able(e, w)'
        /\ Fading
    BY Fails
  <1>2. line' \in [Wire -> [End -> Seq(SegmentRec)]] /\ KnownSegments'
    BY UnpackKnown
  <1>3. Types'
    BY <1>1, <1>2 DEF TypeInv, Types
  <1>4. Bounds'
    BY <1>1 DEF TypeInv, Bounds, Turns
  <1> QED
    BY <1>1, <1>2, <1>3, <1>4 DEF TypeInv, Known

LEMMA SocketsStay ==
    ASSUME TypeInv, sok' = sok, idOf' = idOf, wireOf' = wireOf,
           \A f \in End, v \in Wire : sub[f][v].stage = "live" => sub'[f][v].stage = "live"
    PROVE  KnownSockets'
  <1> SUFFICES ASSUME NEW s \in Sockets
               PROVE  sok[s].stage # "none" => sub'[s[1]][On(s)].stage = "live"
    BY DEF TypeInv, Known, KnownSockets, On
  <1>1. sok[s].stage # "none" => /\ s[1] \in End /\ On(s) \in Wire
                                 /\ sub[s[1]][On(s)].stage = "live"
    BY Drawn
  <1> QED
    BY <1>1

\* Who has been queued has been started.
LEMMA QueueStays ==
    ASSUME TypeInv, acptQueue' = acptQueue,
           \A t \in Sockets : sok[t].stage # "none" => sok'[t].stage # "none"
    PROVE  KnownQueue'
  <1> SUFFICES ASSUME NEW c \in Context, NEW k \in 1..Len(acptQueue[c])
               PROVE  sok'[<<"server", acptQueue[c][k]>>].stage # "none"
    BY DEF KnownQueue
  <1>1. acptQueue[c] \in Seq(1..Len(idOf))
    BY Elsewhere
  <1>2. acptQueue[c][k] \in 1..Len(idOf)
    BY <1>1
  <1>3. <<"server", acptQueue[c][k]>> \in Sockets
    BY <1>2, NumFacts, Ends
  <1>4. sok[<<"server", acptQueue[c][k]>>].stage # "none"
    BY Elsewhere
  <1> QED
    BY <1>3, <1>4

LEMMA RecvIcwdStep ==
    ASSUME TypeInv, NEW e \in End, NEW w \in Wire, RecvIcwd(e, w)
    PROVE  TypeInv' /\ \E seg : Takes(e, w, seg)
  <1> DEFINE seg == line[w][Peer(e)][1]
             d == table[Owner(e, w)][seg.id]
             dest == <<e, d>>
  <1>1. /\ line[w][Peer(e)] # <<>> /\ Unpacked(e, w) /\ sub[e][w].main
        /\ UNCHANGED <<idOf, wireOf, crossed, cut, ctxTab, given, left, table, acptQueue>>
    BY Zenon DEF RecvIcwd, Receiving, receiving, session
  <1>2. /\ Head(line[w][Peer(e)]) = seg /\ seg \in SegmentRec /\ seg.id \in Ids
    BY <1>1, TakenSegment
  <1>3. seg.flag = "ICWD"
    BY <1>2, Zenon DEF RecvIcwd, Receiving
  <1>4. \/ d # 0 /\ sok[dest].sendwind >= Count
           /\ sok' = [sok EXCEPT ![dest].sendwind = @ - Count] /\ GoesOn
        \/ Fail(e, w) /\ sok' = sok
    BY <1>2, Zenon DEF RecvIcwd
  <1>5. d \in 0..Len(idOf)
    <2>1. Owner(e, w) \in Context
      BY ContextTypes
    <2> QED
      BY <1>2, <2>1 DEF TypeInv, Types
  <1> HIDE DEF d
  <1>6. /\ sok' \in [Sockets -> SocketRec] /\ KnownSockets'
        /\ \A t \in Sockets : Still(t) /\ Len(sok'[t].incoming) <= Window
    <2>0. \A f \in End, v \in Wire : sub[f][v].stage = "live" => sub'[f][v].stage = "live"
      BY <1>1, <1>4, Fails DEF Turns
    <2>1. CASE /\ d # 0 /\ sok[dest].sendwind >= Count
               /\ sok' = [sok EXCEPT ![dest].sendwind = @ - Count]
      <3>1. d \in 1..Len(idOf)
        BY <1>5, <2>1, NumFacts
      <3>2. dest \in Sockets /\ dest[1] = e /\ dest[2] = d /\ d <= Len(idOf)
        BY <3>1, NumFacts
      <3> HIDE DEF dest
      <3>3. /\ sok[dest] \in SocketRec /\ Len(sok[dest].incoming) <= Window
            /\ dest[1] = "client" => sok[dest].stage = "open"
            /\ sok[dest].stage = "none" => Asleep(sok[dest])
            /\ sok[dest].stage # "none" => sub[dest[1]][On(dest)].stage = "live"
        BY <3>2, Standing
      <3>4. sok[dest].sendwind - Count \in 0..Window
        <4>1. sok[dest].sendwind \in 0..Window
          BY <3>3 DEF SocketRec
        <4> QED
          BY <2>1, <4>1, Numbers
      <3> DEFINE new == [sok[dest] EXCEPT !.sendwind = sok[dest].sendwind - Count]
      <3>5. sok' = [sok EXCEPT ![dest] = new]
        BY <2>1, <3>2 DEF TypeInv, Types
      <3>6. new \in SocketRec
        BY <3>3, <3>4 DEF SocketRec
      <3>7. /\ new.incoming = sok[dest].incoming /\ new.sent = sok[dest].sent
            /\ new.got = sok[dest].got /\ new.closed = sok[dest].closed
            /\ new.dead = sok[dest].dead /\ new.stage = sok[dest].stage
            /\ Asleep(sok[dest]) => Asleep(new)
        BY <3>3 DEF SocketRec, Asleep
      <3> HIDE DEF new
      <3>8. /\ sok' \in [Sockets -> SocketRec]
            /\ sok'[dest] = new /\ \A t \in Sockets \ {dest} : sok'[t] = sok[t] /\ Still(t)
            /\ KnownSockets' /\ \A t \in Sockets : Len(sok'[t].incoming) <= Window
        BY <1>1, <2>0, <3>2, <3>3, <3>5, <3>6, <3>7, SocketTypes
      <3>9. Still(dest)
        BY <3>7, <3>8 DEF Still
      <3> QED
        BY <3>8, <3>9
    <2>2. CASE sok' = sok
      <3>1. sok' \in [Sockets -> SocketRec] /\ \A t \in Sockets : Len(sok'[t].incoming) <= Window
        BY <2>2 DEF TypeInv, Types, Bounds
      <3>2. KnownSockets'
        BY <1>1, <2>0, <2>2, SocketsStay
      <3> QED
        BY <2>2, <3>1, <3>2 DEF Still
    <2> QED
      BY <1>4, <2>1, <2>2
  <1>7. KnownQueue' /\ KnownEntries'
    <2>1. KnownEntries'
      <3>1. KnownEntries
        BY DEF TypeInv, Known
      <3> QED
        BY <1>1, <3>1 DEF KnownEntries
    <2>2. \A t \in Sockets : sok[t].stage # "none" => sok'[t].stage # "none"
      BY <1>6 DEF Still
    <2>3. acptQueue' = acptQueue
      BY <1>1
    <2>4. KnownQueue'
      BY ONLY TypeInv, <2>2, <2>3, QueueStays
    <2> QED
      BY <2>1, <2>4
  <1>8. TypeInv' /\ Fading
    <2>1. GoesOn \/ Fail(e, w)
      BY <1>4
    <2>2. table' \in [Context -> [Ids -> 0..Len(idOf)]]
      BY <1>1 DEF TypeInv, Types
    <2>3. /\ acptQueue' \in [Context -> Seq(1..Len(idOf))]
          /\ \A c \in Context : Len(acptQueue'[c]) <= AcceptCap
      BY <1>1, Elsewhere
    <2> QED
      BY <1>1, <1>6, <1>7, <2>1, <2>2, <2>3, MainTypes
  <1>9. Takes(e, w, seg)
    BY <1>1, <1>3, <1>6, <1>8 DEF Takes
  <1> QED
    BY <1>8, <1>9

LEMMA RecvOpenStep ==
    ASSUME TypeInv, NEW w \in Wire, RecvOpen(w)
    PROVE  TypeInv' /\ \E seg : Takes("server", w, seg)
  <1> DEFINE seg == line[w]["client"][1]
             s == <<"server", seg.num>>
             c == given[w]
  <1>0. Peer("server") = "client" /\ "server" \in End /\ Owner("server", w) = c
    BY DEF Peer, End, Owner
  <1>1. /\ line[w]["client"] # <<>> /\ Unpacked("server", w) /\ sub["server"][w].main
        /\ UNCHANGED <<idOf, wireOf, crossed, cut, ctxTab, given, left>>
    BY <1>0 DEF RecvOpen, Receiving, receiving, session
  <1>2. /\ Head(line[w]["client"]) = seg /\ seg \in SegmentRec /\ seg.id \in Ids
        /\ seg.num \in 1..Len(idOf) /\ seg.num \in Nums /\ seg.id = idOf[seg.num]
        /\ wireOf[seg.num] = w
    BY <1>0, <1>1, TakenSegment
  <1>3. seg.flag = "OPEN"
    BY <1>0, <1>2 DEF RecvOpen, Receiving
  <1>4. /\ table' = [table EXCEPT ![c][seg.id] = seg.num]
        /\ sok' = [sok EXCEPT ![s].stage = "queued"]
        /\ \/ /\ Len(acptQueue[c]) < AcceptCap /\ GoesOn
              /\ acptQueue' = [acptQueue EXCEPT ![c] = Append(acptQueue[c], seg.num)]
           \/ Fail("server", w) /\ acptQueue' = acptQueue
    BY <1>2 DEF RecvOpen
  <1>5. c \in Context
    BY <1>0, ContextTypes
  <1>6. s \in Sockets /\ s[1] = "server" /\ s[2] = seg.num /\ s[2] <= Len(idOf) /\ On(s) = w
    <2>1. s \in Sockets /\ s[1] = "server" /\ s[2] = seg.num
      BY <1>2, NumFacts, Ends
    <2> QED
      BY <1>2, <2>1, NumFacts DEF On
  <1> HIDE DEF s, c
  <1>7. /\ table' \in [Context -> [Ids -> 0..Len(idOf)]] /\ KnownEntries'
        /\ SetTo(c, seg.id, seg.num)
    <2>1. table \in [Context -> [Ids -> 0..Len(idOf)]] /\ seg.num \in 0..Len(idOf)
      <3>1. table \in [Context -> [Ids -> 0..Len(idOf)]]
        BY DEF TypeInv, Types
      <3>2. \A k \in 1..Len(idOf) : k \in 0..Len(idOf)
        BY NumFacts
      <3> QED
        BY <1>2, <3>1, <3>2
    <2> HIDE DEF seg
    <2>2. table' = [table EXCEPT ![c] = [table[c] EXCEPT ![seg.id] = seg.num]]
      BY <1>4, <1>5, <2>1
    <2>3. table' \in [Context -> [Ids -> 0..Len(idOf)]] /\ SetTo(c, seg.id, seg.num)
      BY <1>2, <1>5, <2>1, <2>2 DEF SetTo
    <2>4. KnownEntries
      BY DEF TypeInv, Known
    <2>5. KnownEntries'
      BY <1>1, <1>2, <2>3, <2>4 DEF KnownEntries, SetTo
    <2> QED
      BY <2>3, <2>5
  <1>8. /\ sok[s] \in SocketRec /\ Len(sok[s].incoming) <= Window
        /\ sub["server"][w].stage = "live"
    BY <1>0, <1>1, <1>6, Standing, ContextTypes
  <1> DEFINE new == [sok[s] EXCEPT !.stage = "queued"]
  <1>9. sok' = [sok EXCEPT ![s] = new]
    BY <1>4, <1>6 DEF TypeInv, Types
  <1>10. new \in SocketRec /\ new.stage = "queued" /\ new.incoming = sok[s].incoming
    BY <1>8 DEF SocketRec
  <1> HIDE DEF new
  <1>11. /\ sok' \in [Sockets -> SocketRec]
         /\ sok'[s] = new /\ \A t \in Sockets \ {s} : sok'[t] = sok[t] /\ Still(t)
         /\ KnownSockets' /\ \A t \in Sockets : Len(sok'[t].incoming) <= Window
    <2>1. \A f \in End, v \in Wire : sub[f][v].stage = "live" => sub'[f][v].stage = "live"
      BY <1>0, <1>1, <1>4, Fails DEF Turns
    <2>2. s[1] # "client" /\ new.stage # "none" /\ sub[s[1]][On(s)].stage = "live"
      BY <1>6, <1>8, <1>10
    <2> QED
      BY <1>1, <1>6, <1>8, <1>9, <1>10, <2>1, <2>2, SocketTypes
  <1>12. /\ acptQueue' \in [Context -> Seq(1..Len(idOf))] /\ KnownQueue'
         /\ \A d \in Context : Len(acptQueue'[d]) <= AcceptCap
    <2>1. \A t \in Sockets : sok[t].stage # "none" => sok'[t].stage # "none"
      BY <1>10, <1>11 DEF Still
    <2>2. CASE acptQueue' = acptQueue
      BY <2>1, <2>2, QueueStays, Elsewhere
    <2>3. CASE /\ Len(acptQueue[c]) < AcceptCap
               /\ acptQueue' = [acptQueue EXCEPT ![c] = Append(acptQueue[c], seg.num)]
      <3>1. /\ acptQueue \in [Context -> Seq(1..Len(idOf))]
            /\ acptQueue[c] \in Seq(1..Len(idOf)) /\ Len(acptQueue[c]) \in Nat
        BY <1>5, Elsewhere
      <3> DEFINE q == Append(acptQueue[c], seg.num)
      <3>2. /\ q \in Seq(1..Len(idOf)) /\ Len(q) = Len(acptQueue[c]) + 1
            /\ \A k \in 1..Len(acptQueue[c]) : q[k] = acptQueue[c][k]
            /\ q[Len(acptQueue[c]) + 1] = seg.num
        BY <1>2, <3>1, AppendProperties
      <3>3. acptQueue' = [acptQueue EXCEPT ![c] = q]
        BY <2>3
      <3> HIDE DEF q
      <3>4. /\ acptQueue' \in [Context -> Seq(1..Len(idOf))] /\ acptQueue'[c] = q
            /\ \A d \in Context \ {c} : acptQueue'[d] = acptQueue[d]
        BY <1>5, <3>1, <3>2, <3>3
      <3>5. \A d \in Context : Len(acptQueue'[d]) <= AcceptCap
        BY <2>3, <3>1, <3>2, <3>4, Elsewhere, Numbers
      <3>6. ASSUME NEW d \in Context, NEW k \in 1..Len(acptQueue'[d])
            PROVE  sok'[<<"server", acptQueue'[d][k]>>].stage # "none"
        <4>1. CASE d \in Context /\ k \in 1..Len(acptQueue[d])
                   /\ acptQueue'[d][k] = acptQueue[d][k]
          <5>1. acptQueue[d][k] \in 1..Len(idOf)
            BY <3>1, <4>1
          <5>2. <<"server", acptQueue[d][k]>> \in Sockets
            BY <5>1, NumFacts, Ends
          <5>3. sok[<<"server", acptQueue[d][k]>>].stage # "none"
            BY <4>1, Elsewhere
          <5> QED
            BY <2>1, <4>1, <5>2, <5>3
        <4>2. CASE d = c /\ k = Len(acptQueue[c]) + 1
          <5>1. <<"server", acptQueue'[d][k]>> = s
            BY <3>2, <3>4, <4>2 DEF s
          <5> QED
            BY <1>10, <1>11, <5>1
        <4> QED
          BY <3>1, <3>2, <3>4, <4>1, <4>2
      <3> QED
        BY <3>4, <3>5, <3>6 DEF KnownQueue
    <2> QED
      BY <1>4, <2>2, <2>3
  <1>13. TypeInv' /\ Fading
    <2>1. GoesOn \/ Fail("server", w)
      BY <1>4
    <2> QED
      BY <1>0, <1>1, <1>7, <1>11, <1>12, <2>1, MainTypes
  <1>14. Takes("server", w, seg)
    <2>1. sok'[<<"server", seg.num>>] = [sok[<<"server", seg.num>>] EXCEPT !.stage = "queued"]
      BY <1>11 DEF new, s
    <2>2. \A t \in Sockets \ {<<"server", seg.num>>} : Still(t)
      BY <1>11 DEF s
    <2>3. c = given[w]
      BY DEF c
    <2> HIDE DEF seg
    <2> QED
      BY <1>0, <1>1, <1>3, <1>7, <1>13, <2>1, <2>2, <2>3 DEF Takes, seg
  <1> QED
    BY <1>13, <1>14

LEMMA RecvSegmentStep ==
    ASSUME TypeInv, NEW e \in End, NEW w \in Wire, RecvSegment(e, w)
    PROVE  TypeInv' /\ \E seg : Takes(e, w, seg)
  <1> DEFINE seg == line[w][Peer(e)][1]
             c == Owner(e, w)
             d == table[c][seg.id]
             dest == <<e, d>>
  <1>1. /\ line[w][Peer(e)] # <<>> /\ Unpacked(e, w) /\ sub[e][w].main
        /\ UNCHANGED <<idOf, wireOf, crossed, cut, ctxTab, given, left, acptQueue>>
    BY Zenon DEF RecvSegment, Receiving, receiving, session
  <1>2. /\ Head(line[w][Peer(e)]) = seg /\ seg \in SegmentRec /\ seg.id \in Ids
    BY <1>1, TakenSegment
  <1>3. seg.flag \in {"DATA", "CLOS"}
    BY <1>2, Zenon DEF RecvSegment, Receiving
  <1>4. /\ table' = IF d = 0 THEN table ELSE [table EXCEPT ![c] = TableAfter(seg, table[c])]
        /\ \/ /\ d # 0 /\ Len(sok[dest].incoming) < Window /\ GoesOn
              /\ sok' = [sok EXCEPT ![dest].incoming = Append(sok[dest].incoming, seg)]
           \/ Fail(e, w) /\ sok' = sok
    <2>1. dest[2] = d
      OBVIOUS
    <2>2. /\ table' = IF d = 0 THEN table ELSE [table EXCEPT ![c] = TableAfter(seg, @)]
          /\ IF d # 0 /\ HasRoom(sok[dest].incoming)
               THEN sok' = [sok EXCEPT ![dest].incoming = Append(@, seg)] /\ GoesOn
               ELSE UNCHANGED sok /\ Fail(e, w)
      BY <1>2, <2>1, Zenon DEF RecvSegment
    <2> HIDE DEF seg, c, d, dest
    <2> QED
      BY <2>2 DEF HasRoom
  <1>5. c \in Context /\ table \in [Context -> [Ids -> 0..Len(idOf)]] /\ d \in 0..Len(idOf)
    <2>1. c \in Context
      BY ContextTypes
    <2>2. table \in [Context -> [Ids -> 0..Len(idOf)]]
      BY DEF TypeInv, Types
    <2> HIDE DEF seg, c
    <2> QED
      BY <1>2, <2>1, <2>2
  <1>6. /\ table' \in [Context -> [Ids -> 0..Len(idOf)]] /\ KnownEntries'
        /\ IF seg.flag = "CLOS" THEN SetTo(c, seg.id, 0) ELSE table' = table
    <2>0. KnownEntries
      BY DEF TypeInv, Known
    <2> HIDE DEF seg, c
    <2>1. CASE d = 0
      BY <1>1, <1>4, <1>5, <2>0, <2>1 DEF KnownEntries, SetTo
    <2>2. CASE d # 0 /\ seg.flag = "DATA"
      <3>1. table' = table
        BY <1>4, <1>5, <2>2 DEF TableAfter
      <3> QED
        BY <1>1, <1>5, <2>0, <2>2, <3>1 DEF KnownEntries
    <2>3. CASE d # 0 /\ seg.flag = "CLOS"
      <3>1. table' = [table EXCEPT ![c] = [table[c] EXCEPT ![seg.id] = 0]]
        BY <1>4, <2>3 DEF TableAfter
      <3>2. 0 \in 0..Len(idOf)
        BY NumFacts
      <3> HIDE DEF d
      <3>3. table' \in [Context -> [Ids -> 0..Len(idOf)]]
        BY <1>2, <1>5, <3>1, <3>2
      <3>4. SetTo(c, seg.id, 0)
        BY <1>2, <1>5, <3>1 DEF SetTo
      <3> QED
        BY <1>1, <2>0, <2>3, <3>3, <3>4 DEF KnownEntries, SetTo
    <2> QED
      BY <1>3, <2>1, <2>2, <2>3
  <1>7. /\ acptQueue' \in [Context -> Seq(1..Len(idOf))]
        /\ \A x \in Context : Len(acptQueue'[x]) <= AcceptCap
    BY <1>1, Elsewhere
  <1>8. \A f \in End, v \in Wire : sub[f][v].stage = "live" => sub'[f][v].stage = "live"
    BY <1>1, <1>4, Fails, Zenon DEF Turns
  <1>9. CASE Fail(e, w) /\ sok' = sok
    <2>1. sok' \in [Sockets -> SocketRec] /\ \A t \in Sockets : Len(sok'[t].incoming) <= Window
      BY <1>9 DEF TypeInv, Types, Bounds
    <2>2. KnownSockets' /\ KnownQueue' /\ \A t \in Sockets : Still(t)
      BY <1>1, <1>8, <1>9, SocketsStay, QueueStays DEF Still
    <2> HIDE DEF seg, c, d, dest
    <2>3. TypeInv' /\ Fading /\ ~Able(e, w)'
      BY <1>1, <1>6, <1>7, <1>9, <2>1, <2>2, MainTypes
    <2>4. Takes(e, w, seg)
      BY <1>1, <1>3, <1>6, <2>2, <2>3, Zenon DEF Takes, seg, c
    <2> QED
      BY <2>3, <2>4
  <1>10. CASE /\ d # 0 /\ Len(sok[dest].incoming) < Window /\ GoesOn
              /\ sok' = [sok EXCEPT ![dest].incoming = Append(sok[dest].incoming, seg)]
    <2> HIDE DEF d
    <2>1. d \in 1..Len(idOf)
      BY <1>5, <1>10, NumFacts
    <2>2. dest \in Sockets /\ dest[1] = e /\ dest[2] = d /\ d <= Len(idOf)
      BY <2>1, NumFacts
    <2>3. dest = <<e, table[Owner(e, w)][seg.id]>>
      BY DEF d
    <2> HIDE DEF dest, seg, c
    <2>4. /\ sok[dest] \in SocketRec /\ Len(sok[dest].incoming) <= Window
          /\ dest[1] = "client" => sok[dest].stage = "open"
          /\ sok[dest].stage = "none" => Asleep(sok[dest])
          /\ sok[dest].stage # "none" => sub[dest[1]][On(dest)].stage = "live"
      BY <2>2, Standing
    <2>5. sok[dest].incoming \in Seq(SegmentRec)
      BY <2>4 DEF SocketRec
    <2>6. /\ Append(sok[dest].incoming, seg) \in Seq(SegmentRec)
          /\ Len(Append(sok[dest].incoming, seg)) = Len(sok[dest].incoming) + 1
      BY <1>2, <2>5, AppendProperties
    <2> DEFINE new == [sok[dest] EXCEPT !.incoming = Append(sok[dest].incoming, seg)]
    <2>7. sok' = [sok EXCEPT ![dest] = new]
      BY <1>10, <2>2 DEF TypeInv, Types
    <2>8. new \in SocketRec
      BY <2>4, <2>6 DEF SocketRec
    <2>9. /\ new.incoming = Append(sok[dest].incoming, seg) /\ new.stage = sok[dest].stage
          /\ Asleep(sok[dest]) => Asleep(new)
      BY <2>4 DEF SocketRec, Asleep
    <2>10. Len(new.incoming) <= Window
      <3>1. Len(sok[dest].incoming) \in Nat /\ Window \in Nat
        BY <2>5, Numbers
      <3> QED
        BY <1>10, <2>6, <2>9, <3>1
    <2> HIDE DEF new
    <2>11. /\ sok' \in [Sockets -> SocketRec]
           /\ sok'[dest] = new /\ \A t \in Sockets \ {dest} : sok'[t] = sok[t] /\ Still(t)
           /\ KnownSockets' /\ \A t \in Sockets : Len(sok'[t].incoming) <= Window
      BY <1>1, <1>8, <2>2, <2>4, <2>7, <2>8, <2>9, <2>10, SocketTypes
    <2>12. KnownQueue'
      <3>1. \A t \in Sockets : sok[t].stage # "none" => sok'[t].stage # "none"
        BY <2>9, <2>11
      <3> QED
        BY <1>1, <3>1, QueueStays
    <2>13. TypeInv' /\ Fading
      BY <1>1, <1>6, <1>7, <1>10, <2>11, <2>12, MainTypes
    <2>14. Takes(e, w, seg)
      BY <1>1, <1>3, <1>6, <1>10, <2>2, <2>3, <2>11, <2>13, Zenon DEF Takes, new, seg, c
    <2> QED
      BY <2>13, <2>14
  <1> QED
    BY <1>4, <1>9, <1>10, Zenon

\* The next tunnel
LEMMA NextTunnel ==
    ASSUME TypeInv, Len(idOf) < left.tunnels, NEW n, n = Len(idOf) + 1
    PROVE  /\ n \in Nums /\ n \in Nat /\ n > Len(idOf) /\ n <= left.tunnels
           /\ \A e \in End : <<e, n>> \in Sockets /\ sok[<<e, n>>] = NewSocket
  <1>1. PICK b \in Budgets : left.tunnels = b.tunnels
    BY DEF TypeInv, Bounds
  <1>2. Len(idOf) \in Nat /\ b.tunnels \in Nat
    BY Ranges, NumFacts
  <1>3. n \in Nat /\ n > Len(idOf) /\ n <= left.tunnels /\ n \in 1..b.tunnels
    BY <1>1, <1>2
  <1>4. n \in Nums
    BY <1>3, Ranges
  <1>5. \A e \in End : <<e, n>> \in Sockets
    BY <1>4, Ends
  <1>6. \A e \in End : sok[<<e, n>>] = NewSocket
    <2> SUFFICES ASSUME NEW e \in End PROVE sok[<<e, n>>] = NewSocket
      OBVIOUS
    <2>1. PICK s \in Sockets : s = <<e, n>>
      BY <1>5
    <2>2. s[2] > Len(idOf)
      BY <1>3, <2>1
    <2> QED
      BY <2>1, <2>2 DEF TypeInv, Known, KnownSockets
  <1> QED
    BY <1>3, <1>4, <1>5, <1>6

LEMMA TunnelStep ==
    ASSUME TypeInv, NEW i \in Ids, NEW w \in Wire, Tunnel(i, w)
    PROVE  TypeInv' /\ Draws(i, w)
  <1> DEFINE n == Len(idOf) + 1
             c == <<"client", n>>
             open == [flag |-> "OPEN", id |-> i, num |-> n, pos |-> 0]
  <1>1. /\ Len(idOf) < left.tunnels /\ sub["client"][w].stage = "live" /\ table[0][i] = 0
        /\ idOf' = Append(idOf, i) /\ wireOf' = Append(wireOf, w)
        /\ sok' = [sok EXCEPT ![c] = Opened(sok[c])]
        /\ table' = [table EXCEPT ![0][i] = n]
        /\ line' = IF Carries(w, "client") THEN [line EXCEPT ![w]["client"] = Append(@, open)]
                   ELSE line
        /\ UNCHANGED <<dead, acptQueue, sub, cut, ctxTab, given, left>>
    BY DEF Tunnel, FreeId, session
  <1>2. n \in Nums /\ n \in Nat /\ n > Len(idOf) /\ n <= left.tunnels
        /\ \A e \in End : <<e, n>> \in Sockets /\ sok[<<e, n>>] = NewSocket
    BY <1>1, NextTunnel
  <1>3. /\ idOf \in Seq(Ids) /\ wireOf \in Seq(Wire) /\ Len(wireOf) = Len(idOf)
        /\ Len(idOf) \in Nat /\ DOMAIN idOf = 1..Len(idOf)
        /\ sok \in [Sockets -> SocketRec] /\ table \in [Context -> [Ids -> 0..Len(idOf)]]
        /\ crossed \in SUBSET Nums
    BY NumFacts DEF TypeInv, Types
  <1>4. /\ idOf' \in Seq(Ids) /\ Len(idOf') = n /\ wireOf' \in Seq(Wire) /\ Len(wireOf') = n
        /\ \A k \in 1..Len(idOf) : idOf'[k] = idOf[k] /\ wireOf'[k] = wireOf[k]
        /\ idOf'[n] = i /\ wireOf'[n] = w
    BY <1>1, <1>3, AppendProperties
  <1>5. c \in Sockets /\ c[1] = "client" /\ c[2] = n /\ sok[c] = NewSocket
        /\ sok[<<"server", n>>] = NewSocket
    BY <1>2, Ends
  <1>6. open \in SegmentRec /\ open.num = n /\ open.id = i
    BY <1>2 DEF SegmentRec
  <1>7. /\ \A k \in crossed : k \in crossed'
        /\ crossed' \in SUBSET Nums
        /\ \A k \in 1..Len(idOf) :
             idOf[k] = i /\ (k \notin crossed' \/ n \notin crossed')
               => /\ sok[<<"client", k>>].closed
                  /\ OnLine("client", k) => wireOf[k] = w
    <2> DEFINE Speaks(k) == \/ ~sok[<<"client", k>>].closed
                            \/ /\ wireOf[k] # w
                               /\ \E p \in DOMAIN line[wireOf[k]]["client"] :
                                    line[wireOf[k]]["client"][p].num = k
               before == {k \in DOMAIN idOf : idOf[k] = i /\ Speaks(k)}
    <2>1. crossed' = IF before = {} THEN crossed ELSE crossed \cup before \cup {n}
      BY DEF Tunnel
    <2>2. \A k \in 1..Len(idOf) : k \in Nums /\ wireOf[k] \in Wire
      BY NumFacts
    <2>3. before \subseteq 1..Len(idOf)
      BY <1>3
    <2>4. crossed' \in SUBSET Nums /\ \A k \in crossed : k \in crossed'
      BY <1>2, <1>3, <2>1, <2>2, <2>3
    <2>5. ASSUME NEW k \in 1..Len(idOf), idOf[k] = i, k \notin crossed' \/ n \notin crossed'
          PROVE  /\ sok[<<"client", k>>].closed
                 /\ OnLine("client", k) => wireOf[k] = w
      <3>1. k \notin before
        <4> HIDE DEF before
        <4> QED
          BY <2>1, <2>5
      <3>2. ~Speaks(k)
        BY <1>3, <2>5, <3>1
      <3>3. DOMAIN line[wireOf[k]]["client"] = 1..Len(line[wireOf[k]]["client"])
        <4>1. line[wireOf[k]]["client"] \in Seq(SegmentRec)
          BY <2>2, Ends DEF TypeInv, Types
        <4> QED
          BY <4>1
      <3> QED
        BY <3>2, <3>3 DEF OnLine
    <2> QED
      BY <2>4, <2>5
  <1> HIDE DEF c, n, open
  <1>8. /\ sok' = [sok EXCEPT ![c] = Opened(NewSocket)] /\ Opened(NewSocket) \in SocketRec
        /\ Opened(NewSocket).stage = "open" /\ Opened(NewSocket).incoming = <<>>
    <2>1. NewSocket \in SocketRec /\ NewSocket.incoming = <<>>
      BY NewSocketType DEF NewSocket
    <2> QED
      BY <1>1, <1>5, <2>1 DEF Opened, SocketRec
  <1>9. /\ sok' \in [Sockets -> SocketRec] /\ sok'[c] = Opened(NewSocket)
        /\ \A t \in Sockets \ {c} : sok'[t] = sok[t]
    BY <1>3, <1>5, <1>8
  <1>10. table' \in [Context -> [Ids -> 0..n]] /\ SetTo(0, i, n)
    <2>1. 0 \in Context /\ n \in 0..n /\ \A k \in 0..Len(idOf) : k \in 0..n
      BY <1>2, <1>3, Ranges
    <2>2. table \in [Context -> [Ids -> 0..n]]
      BY <1>3, <2>1
    <2>3. table' = [table EXCEPT ![0] = [table[0] EXCEPT ![i] = n]]
      BY <1>1, <2>1, <2>2
    <2> QED
      BY <2>1, <2>2, <2>3 DEF SetTo
  <1>11. KnownEntries'
    <2> SUFFICES ASSUME NEW f \in Context, NEW j \in Ids, table'[f][j] # 0
                 PROVE  idOf'[table'[f][j]] = j
      BY DEF KnownEntries
    <2>1. CASE f = 0 /\ j = i
      BY <1>4, <1>10, <2>1 DEF SetTo
    <2>2. CASE ~(f = 0 /\ j = i)
      <3>1. table'[f][j] = table[f][j] /\ table[f][j] \in 0..Len(idOf)
        BY <1>3, <1>10, <2>2 DEF SetTo
      <3>2. table[f][j] \in 1..Len(idOf)
        BY <1>3, <3>1
      <3> QED
        BY <1>4, <3>1, <3>2 DEF TypeInv, Known, KnownEntries
    <2> QED
      BY <2>1, <2>2
  <1>12. /\ line' \in [Wire -> [End -> Seq(SegmentRec)]]
         /\ \A v \in Wire, f \in End : \A k \in 1..Len(line'[v][f]) :
              \/ k \in 1..Len(line[v][f]) /\ line'[v][f][k] = line[v][f][k]
              \/ v = w /\ line'[v][f][k] = open
    <2>1. PICK e \in End : e = "client"
      BY Ends
    <2>2. line' = IF Carries(w, e) THEN [line EXCEPT ![w][e] = Append(@, open)] ELSE line
      BY <1>1, <2>1
    <2>3. Types
      BY DEF TypeInv
    <2>4. open \in SegmentRec
      BY <1>6
    <2>6. line' \in [Wire -> [End -> Seq(SegmentRec)]] /\ Packed(w, e, open)
      BY <2>2, <2>3, <2>4, PackFacts
    <2>5. /\ line' \in [Wire -> [End -> Seq(SegmentRec)]]
          /\ \A v \in Wire, f \in End : \A k \in 1..Len(line'[v][f]) :
                \/ k \in 1..Len(line[v][f]) /\ line'[v][f][k] = line[v][f][k]
                \/ /\ v = w /\ f = e /\ Carries(w, e)
                   /\ k = Len(line[w][e]) + 1 /\ line'[v][f][k] = open
      BY <2>6 DEF Packed
    <2> QED
      BY <2>5
  <1>13. KnownSegments'
    <2> SUFFICES ASSUME NEW v \in Wire, NEW e \in End, NEW k \in 1..Len(line'[v][e]),
                        NEW x, x = line'[v][e][k]
                 PROVE  x.num <= Len(idOf') /\ x.id = idOf'[x.num] /\ wireOf'[x.num] = v
      BY DEF KnownSegments
    <2>1. CASE k \in 1..Len(line[v][e]) /\ x = line[v][e][k]
      <3>1. x \in SegmentRec
        <4>1. line[v][e] \in Seq(SegmentRec)
          BY DEF TypeInv, Types
        <4> QED
          BY <2>1, <4>1
      <3>2. x.num \in Nat /\ x.num > 0
        BY <3>1, Ranges DEF SegmentRec
      <3>3. x.num <= Len(idOf) /\ x.id = idOf[x.num] /\ wireOf[x.num] = v
        BY <2>1 DEF TypeInv, Known, KnownSegments
      <3>4. x.num \in 1..Len(idOf) /\ x.num <= n
        BY <1>2, <1>3, <3>2, <3>3
      <3> QED
        BY <1>4, <3>3, <3>4
    <2>2. CASE v = w /\ x = open
      BY <1>2, <1>4, <1>6, <2>2
    <2> QED
      BY <1>12, <2>1, <2>2
  <1>14. KnownSockets'
    <2> SUFFICES ASSUME NEW t \in Sockets
                 PROVE  /\ t[2] > n => sok'[t] = NewSocket
                        /\ t[1] = "client" /\ t[2] <= n => sok'[t].stage = "open"
                        /\ sok'[t].stage = "none" => Asleep(sok'[t])
                        /\ sok'[t].stage # "none" => sub'[t[1]][wireOf'[t[2]]].stage = "live"
      BY <1>4 DEF KnownSockets, On
    <2>0. t[2] \in Nat /\ t[2] > 0 /\ t = <<t[1], t[2]>> /\ t[1] \in End
      BY Ends, Ranges
    <2>1. CASE t = c
      BY <1>1, <1>2, <1>4, <1>5, <1>8, <1>9, <2>1
    <2>2. CASE t # c
      <3>1. sok'[t] = sok[t]
        BY <1>9, <2>2
      <3>2. /\ t[2] > Len(idOf) => sok[t] = NewSocket
            /\ t[1] = "client" /\ t[2] <= Len(idOf) => sok[t].stage = "open"
            /\ sok[t].stage = "none" => Asleep(sok[t])
            /\ sok[t].stage # "none" => sub[t[1]][wireOf[t[2]]].stage = "live"
        BY DEF TypeInv, Known, KnownSockets, On
      <3>3. t[1] = "client" => t[2] # n
        BY <2>0, <2>2 DEF c
      <3>4. sok[t].stage # "none" => t[2] \in 1..Len(idOf)
        <4>1. sok[t].stage # "none" => ~(t[2] > Len(idOf))
          BY <3>2 DEF NewSocket
        <4> QED
          BY <1>3, <2>0, <4>1
      <3>5. t[2] > n => t[2] > Len(idOf)
        BY <1>2, <1>3, <2>0
      <3>6. t[2] <= n /\ t[2] # n => t[2] <= Len(idOf)
        BY <1>3, <2>0 DEF n
      <3>7. sok[t].stage # "none" => sub'[t[1]][wireOf'[t[2]]].stage = "live"
        BY <1>1, <1>4, <3>2, <3>4
      <3> QED
        BY <3>1, <3>2, <3>3, <3>5, <3>6, <3>7
    <2> QED
      BY <2>1, <2>2
  <1>15. KnownQueue'
    <2>1. \A t \in Sockets : sok[t].stage # "none" => sok'[t].stage # "none"
      BY <1>8, <1>9
    <2> QED
      BY <1>1, <2>1, QueueStays
  <1>16. Bounds'
    <2>1. Len(Opened(NewSocket).incoming) <= Window
      BY <1>8, Numbers
    <2>2. \A t \in Sockets : Len(sok'[t].incoming) <= Window
      BY <1>9, <2>1 DEF TypeInv, Bounds
    <2> QED
      BY <1>1, <1>2, <1>4, <2>2 DEF TypeInv, Bounds
  <1>17. acptQueue' \in [Context -> Seq(1..n)]
    <2>1. acptQueue \in [Context -> Seq(1..Len(idOf))]
      BY Elsewhere
    <2>2. 1..Len(idOf) \subseteq 1..n
      BY <1>2, <1>3
    <2>3. ASSUME NEW q \in Seq(1..Len(idOf)) PROVE q \in Seq(1..n)
      BY <2>2, SeqMonotonic
    <2> QED
      BY <1>1, <2>1, <2>3
  <1>18. Types'
    BY <1>1, <1>4, <1>7, <1>9, <1>10, <1>12, <1>17, ContextTypes DEF Types
  <1>19. TypeInv'
    BY <1>11, <1>13, <1>14, <1>15, <1>16, <1>18 DEF TypeInv, Known
  <1>20. Draws(i, w)
    BY <1>1, <1>2, <1>5, <1>7, <1>9, <1>10 DEF Draws, n, c, open
  <1> QED
    BY <1>19, <1>20

-----------------------------------------------------------------------------
\* Every step is one of these five.
LEMMA Steps ==
    ASSUME TypeInv, [Next]_vars
    PROVE  /\ TypeInv'
           /\ \/ Quiet
              \/ \E s \in Sockets : Reads(s) \/ \E seg : Sends(s, seg)
              \/ \E e \in End, w \in Wire : \E seg : Takes(e, w, seg)
              \/ \E i \in Ids, w \in Wire : Draws(i, w)
  <1>1. ASSUME NEW s \in Sockets, Application(s) \/ Goroutine(s)
        PROVE  TypeInv' /\ (Quiet \/ Reads(s) \/ \E seg : Sends(s, seg))
    BY <1>1, WriteStep, CloseStep, SendIcwdStep, DyingStep, ReadStep DEF Application, Goroutine
  <1>2. ASSUME NEW e \in End, NEW w \in Wire, SubCtx(e, w)
        PROVE  TypeInv' /\ (Quiet \/ \E seg : Takes(e, w, seg))
    BY <1>2, RecvIcwdStep, RecvSegmentStep, ContextStep DEF SubCtx
  <1>3. ASSUME NEW w \in Wire, RecvOpen(w)
        PROVE  TypeInv' /\ \E seg : Takes("server", w, seg)
    BY <1>3, RecvOpenStep
  <1>4. ASSUME NEW w \in Wire, AbsorbClient(w) \/ HandOver(w) \/ ReadSubid(w) \/ Cut(w)
        PROVE  TypeInv' /\ Quiet
    BY <1>4, Ends, AbsorbStep, ContextStep
  <1>5. CASE (Forget \/ Kill) /\ Wire # {}
    <2>1. PICK w \in Wire : TRUE
      BY <1>5
    <2> QED
      BY <1>5, <2>1, Ends, ContextStep
  <1>6. CASE (Forget \/ Kill) /\ Wire = {}
    <2>1. sub' \in [End -> [Wire -> SubRec]] /\ \A f \in End, v \in Wire : Turns(sub[f][v], sub'[f][v])
      BY <1>6, ContextTypes DEF Forget, Kill
    <2>2. UNCHANGED <<idOf, wireOf, sok, table, acptQueue, line, crossed, given, cut>>
      BY <1>6 DEF Forget, Kill, absorbing, contextOnly, sockets, session
    <2>3. ctxTab' \in Context /\ dead' \in [Context -> BOOLEAN]
      <3>1. \/ ctxTab' = 0 /\ dead' = dead
            \/ ctxTab' = ctxTab /\ dead' = [dead EXCEPT ![0] = TRUE]
        BY <1>6 DEF Forget, Kill, contextOnly, session
      <3> QED
        BY <3>1, Ranges, ContextTypes
    <2>4. left' \in Budget /\ left'.tunnels = left.tunnels
      <3>1. \/ left' = left
            \/ left.faults > 0 /\ left' = [left EXCEPT !.faults = @ - 1]
        BY <1>6 DEF Forget, Kill, absorbing
      <3>2. left \in Budget
        BY ContextTypes
      <3> QED
        BY <3>1, <3>2 DEF Budget
    <2> QED
      BY <1>6, <2>1, <2>2, <2>3, <2>4, ContextTypes, ContextsOnly
  <1>7. ASSUME NEW w \in Wire, NEW i \in Ids, Tunnel(i, w)
        PROVE  TypeInv' /\ Draws(i, w)
    BY <1>7, TunnelStep
  <1>8. ASSUME NEW c \in Context, Accept(c)
        PROVE  TypeInv' /\ Quiet
    BY <1>8, AcceptStep
  <1>9. CASE UNCHANGED vars
    <2>1. TypeInv'
      <3>1. /\ UNCHANGED <<idOf, wireOf, sok, table, acptQueue, line, crossed>>
            /\ UNCHANGED <<sub, dead, cut, ctxTab, given, left>>
        BY <1>9 DEF vars, sockets, session
      <3>2. \A f \in End, v \in Wire : Turns(sub[f][v], sub'[f][v])
        BY <3>1, ContextTypes
      <3> QED
        BY <3>1, <3>2, ContextTypes, ContextsOnly
    <2>2. Quiet
      BY <1>9, ContextFades DEF vars, sockets, session, Quiet, Still
    <2> QED
      BY <2>1, <2>2
  <1>10. \/ \E s \in Sockets : Application(s) \/ Goroutine(s)
         \/ \E e \in End, w \in Wire : SubCtx(e, w)
         \/ \E w \in Wire : RecvOpen(w)
         \/ \E w \in Wire : AbsorbClient(w) \/ HandOver(w) \/ ReadSubid(w) \/ Cut(w)
         \/ Forget \/ Kill
         \/ \E w \in Wire, i \in Ids : Tunnel(i, w)
         \/ \E c \in Context : Accept(c)
         \/ UNCHANGED vars
    BY DEF Next, Duty, Admission
  <1>server. "server" \in End
    BY Ends
  <1> QED
    BY <1>1, <1>2, <1>3, <1>4, <1>5, <1>6, <1>7, <1>8, <1>9, <1>10, <1>server

LEMMA InitTypeInv == Init => TypeInv
  <1> SUFFICES ASSUME Init PROVE TypeInv
    OBVIOUS
  <1>1. /\ idOf = <<>> /\ idOf \in Seq(Ids) /\ Len(idOf) = 0
        /\ wireOf \in Seq(Wire) /\ Len(wireOf) = 0
    BY DEF Init
  <1>2. sok \in [Sockets -> SocketRec] /\ \A s \in Sockets : sok[s] = NewSocket
    BY NewSocketType DEF Init
  <1>3. table \in [Context -> [Ids -> 0..0]] /\ \A c \in Context, i \in Ids : table[c][i] = 0
    BY DEF Init
  <1>4. /\ sub \in [End -> [Wire -> SubRec]] /\ dead \in [Context -> BOOLEAN]
        /\ \A e \in End, w \in Wire : sub[e][w].stage = "none" /\ ~sub[e][w].main
    BY DEF Init, NewSub, SubRec
  <1>5. /\ line \in [Wire -> [End -> Seq(SegmentRec)]]
        /\ \A w \in Wire, e \in End : Len(line[w][e]) = 0
    BY DEF Init
  <1>6. acptQueue \in [Context -> Seq(1..0)] /\ \A c \in Context : Len(acptQueue[c]) = 0
    <2>1. \A S : <<>> \in Seq(S)
      OBVIOUS
    <2>2. acptQueue = [c \in Context |-> <<>>]
      BY DEF Init
    <2> QED
      BY <2>1, <2>2
  <1>7. /\ cut \in SUBSET Wire /\ ctxTab \in Context /\ crossed \in SUBSET Nums
        /\ given \in [Wire -> Context] /\ \A w \in Wire : given[w] = 0
    BY Ranges DEF Init
  <1>8. left \in Budget /\ \E b \in Budgets : left.tunnels = b.tunnels
    BY Numbers DEF Init
  <1>9. Types
    BY <1>1, <1>2, <1>3, <1>4, <1>5, <1>6, <1>7, <1>8 DEF Types
  <1>10. Known
    <2>1. NewSocket.stage = "none" /\ Asleep(NewSocket)
      BY DEF NewSocket, Asleep
    <2>2. KnownSockets
      <3>1. \A s \in Sockets : ~(s[2] <= Len(idOf))
        BY <1>1, Ends, Ranges
      <3> QED
        BY <1>2, <2>1, <3>1 DEF KnownSockets
    <2> QED
      BY <1>3, <1>5, <1>6, <2>2 DEF Known, KnownSegments, KnownEntries, KnownQueue
  <1>11. Bounds
    <2>1. Len(NewSocket.incoming) = 0
      BY DEF NewSocket
    <2>2. Len(idOf) <= left.tunnels
      <3>1. left.tunnels \in Nat
        BY <1>8 DEF Budget
      <3> QED
        BY <1>1, <3>1
    <2>3. "server" \in End
      BY Ends
    <2> QED
      BY <1>2, <1>4, <1>6, <1>7, <1>8, <2>1, <2>2, <2>3, Numbers DEF Bounds
  <1> QED
    BY <1>9, <1>10, <1>11 DEF TypeInv

LEMMA TypeInvariant == Spec => []TypeInv
  <1>1. TypeInv /\ [Next]_vars => TypeInv'
    BY Steps
  <1> QED
    BY <1>1, InitTypeInv, PTL DEF Spec

\* The tunnels, sockets, tables and queues of the session stay what they are
\* declared to be: no socket holds more than a window of unread segments, counts
\* of uint8 stay below it, a table only holds tunnels that have been drawn, and
\* mainThread runs on an absorbed wire only.
THEOREM Niaucchi2TypeOK == Spec => []TypeOK
  <1>1. TypeInv => TypeOK
    <2> SUFFICES ASSUME TypeInv PROVE TypeOK
      OBVIOUS
    <2>1. ASSUME NEW s \in Sockets
          PROVE  /\ sok[s].stage \in {"none", "queued", "open"}
                 /\ sok[s].sendwind \in 0..Window /\ sok[s].recvcount \in 0..(Window - 1)
                 /\ sok[s].owed \in Nat /\ Len(sok[s].incoming) <= Window
      <3>1. sok[s] \in SocketRec /\ Len(sok[s].incoming) <= Window
        BY DEF TypeInv, Types, Bounds
      <3> QED
        BY <3>1 DEF SocketRec
    <2>2. ASSUME NEW c \in Context
          PROVE  /\ \A i \in Ids : table[c][i] \in {0} \cup DOMAIN idOf
                 /\ Len(acptQueue[c]) <= AcceptCap
      <3>1. \A i \in Ids : table[c][i] \in 0..Len(idOf)
        BY DEF TypeInv, Types
      <3>2. \A k \in 0..Len(idOf) : k \in {0} \cup DOMAIN idOf
        BY NumFacts
      <3> QED
        BY <3>1, <3>2, Elsewhere
    <2>3. ASSUME NEW e \in End, NEW w \in Wire
          PROVE  /\ sub[e][w].stage \in {"none", "reading", "live", "leaked"}
                 /\ sub[e][w].main => sub[e][w].stage = "live"
      <3>1. sub[e][w] \in SubRec /\ (sub[e][w].main => sub[e][w].stage = "live")
        BY ContextTypes
      <3> QED
        BY <3>1 DEF SubRec
    <2>4. /\ idOf \in Seq(Ids) /\ wireOf \in Seq(Wire) /\ Len(idOf) = Len(wireOf)
          /\ Len(idOf) <= left.tunnels /\ crossed \subseteq Nums
      BY DEF TypeInv, Types, Bounds
    <2>5. /\ ctxTab \in Context /\ \A w \in Wire : given[w] \in Context
          /\ cut \subseteq Wire /\ left \in Budget
      BY ContextTypes
    <2> QED
      BY <2>1, <2>2, <2>3, <2>4, <2>5 DEF TypeOK
  <1> QED
    BY <1>1, TypeInvariant, PTL

-----------------------------------------------------------------------------
(* Silence *)

\* What a socket of either end of a known segment is
LEMMA SegmentSocket ==
    ASSUME TypeInv, NEW w \in Wire, NEW e \in End, NEW k \in 1..Len(line[w][e])
    PROVE  /\ line[w][e][k] \in SegmentRec /\ line[w][e][k].num \in Nums
           /\ line[w][e][k].num \in 1..Len(idOf) /\ wireOf[line[w][e][k].num] = w
           /\ line[w][e][k].id \in Ids /\ line[w][e][k].id = idOf[line[w][e][k].num]
           /\ \A f \in End : <<f, line[w][e][k].num>> \in Sockets
  <1>1. line[w][e] \in Seq(SegmentRec)
    BY DEF TypeInv, Types
  <1>2. line[w][e][k] \in SegmentRec
    BY <1>1
  <1>3. line[w][e][k].num \in Nums /\ line[w][e][k].id \in Ids
    BY <1>2 DEF SegmentRec
  <1>4. /\ line[w][e][k].num <= Len(idOf) /\ line[w][e][k].id = idOf[line[w][e][k].num]
        /\ wireOf[line[w][e][k].num] = w
    BY DEF TypeInv, Known, KnownSegments
  <1>5. line[w][e][k].num \in Nat /\ line[w][e][k].num > 0
    BY <1>3, Ranges
  <1>6. line[w][e][k].num \in 1..Len(idOf)
    BY <1>4, <1>5, NumFacts
  <1> QED
    BY <1>2, <1>3, <1>4, <1>6, Ends

\* The first segment is off a wire.
Shifted(w, e) ==
    /\ 1 \in 1..Len(line[w][e])
    /\ \A v \in Wire, f \in End : ~(v = w /\ f = e) => line'[v][f] = line[v][f]
    /\ Len(line'[w][e]) = Len(line[w][e]) - 1
    /\ \A k \in 1..Len(line'[w][e]) :
         k + 1 \in 1..Len(line[w][e]) /\ line'[w][e][k] = line[w][e][k + 1]

LEMMA Lengths ==
    ASSUME TypeInv
    PROVE  \A w \in Wire, e \in End : Len(line[w][e]) \in Nat
  BY DEF TypeInv, Types

\* A socket that sends is not closed.
LEMMA SendsFacts ==
    ASSUME TypeInv, Silence, NEW s \in Sockets, NEW seg, Sends(s, seg)
    PROVE  \E e \in End, n \in 1..Len(idOf), w \in Wire :
             /\ s = <<e, n>> /\ w = wireOf[n] /\ Packed(w, e, seg)
             /\ ~sok[s].closed /\ (sok'[s].closed <=> seg.flag = "CLOS")
             /\ seg \in SegmentRec /\ seg.num = n /\ seg.id = idOf[n]
             /\ sub[e][w].stage = "live"
  <1>1. /\ s[1] \in End /\ s[2] \in 1..Len(idOf) /\ On(s) \in Wire
        /\ sub[s[1]][On(s)].stage = "live"
    BY Drawn DEF Sends
  <1>2. PICK e \in End, n \in 1..Len(idOf), w \in Wire : e = s[1] /\ n = s[2] /\ w = On(s)
    BY <1>1
  <1>3. s = <<e, n>> /\ w = wireOf[n]
    BY <1>2, Ends DEF On
  <1>4. seg \in SegmentRec /\ seg.num = n /\ seg.id = idOf[n]
    BY <1>2 DEF Sends
  <1>5. Packed(w, e, seg)
    <2>1. line' = IF Carries(w, e) THEN [line EXCEPT ![w][e] = Append(@, seg)] ELSE line
      BY <1>2 DEF Sends, Pack
    <2>2. Types
      BY DEF TypeInv
    <2> QED
      BY <1>4, <2>1, <2>2, PackFacts
  <1>6. ~sok[s].closed /\ (sok'[s].closed <=> seg.flag = "CLOS")
    <2>1. sok[s].closed \in BOOLEAN /\ (sok[s].closed => sok[s].dead)
      BY DEF Silence, ClosedDead, TypeInv, Types, SocketRec
    <2>2. \/ seg.flag = "DATA" /\ ~sok[s].dead /\ sok'[s].closed = sok[s].closed
          \/ seg.flag = "ICWD" /\ ~sok[s].dead /\ sok'[s].closed = sok[s].closed
          \/ seg.flag = "CLOS" /\ ~sok[s].closed /\ sok'[s].closed
      BY DEF Sends, Still
    <2> QED
      BY <2>1, <2>2
  <1> QED
    BY <1>1, <1>2, <1>3, <1>4, <1>5, <1>6

LEMMA TakesShift ==
    ASSUME TypeInv, NEW e \in End, NEW w \in Wire, NEW seg, Takes(e, w, seg)
    PROVE  Shifted(w, Peer(e)) /\ seg = line[w][Peer(e)][1]
  <1>1. line[w][Peer(e)] # <<>> /\ Unpacked(e, w) /\ Types /\ seg = line[w][Peer(e)][1]
    BY Zenon DEF Takes, TypeInv
  <1> QED
    BY <1>1, UnpackFacts DEF Shifted

\* What a segment does to the socket that gets it
LEMMA TakesSockets ==
    ASSUME TypeInv, NEW e \in End, NEW w \in Wire, NEW seg, Takes(e, w, seg)
    PROVE  \A t \in Sockets :
             /\ sok'[t].closed = sok[t].closed
             /\ sok'[t].sent = sok[t].sent /\ sok'[t].got = sok[t].got
             /\ sok[t].dead => sok'[t].dead
             /\ sok[t].stage # "none" => sok'[t].stage # "none"
  <1> TAKE t \in Sockets
  <1>1. sok[t] \in SocketRec
    BY DEF TypeInv, Types
  <1>2. \/ Still(t)
        \/ sok'[t] = [sok[t] EXCEPT !.stage = "queued"]
        \/ sok'[t] = [sok[t] EXCEPT !.incoming = Append(@, seg)]
    <2> DEFINE dest == <<e, table[Owner(e, w)][seg.id]>>
               started == <<"server", seg.num>>
    <2>1. \/ /\ \A x \in Sockets \ {started} : Still(x)
             /\ sok'[started] = [sok[started] EXCEPT !.stage = "queued"]
          \/ \A x \in Sockets : Still(x)
          \/ /\ \A x \in Sockets \ {dest} : Still(x)
             /\ sok'[dest] = [sok[dest] EXCEPT !.incoming = Append(@, seg)]
      BY Zenon DEF Takes
    <2> HIDE DEF dest, started
    <2> QED
      BY <2>1
  <1>3. CASE Still(t)
    BY <1>3 DEF Still
  <1>4. CASE sok'[t] = [sok[t] EXCEPT !.stage = "queued"]
    BY <1>1, <1>4 DEF SocketRec
  <1>5. CASE sok'[t] = [sok[t] EXCEPT !.incoming = Append(@, seg)]
    BY <1>1, <1>5 DEF SocketRec
  <1> QED
    BY <1>2, <1>3, <1>4, <1>5

LEMMA SilenceSends ==
    ASSUME TypeInv, Silence, NEW s \in Sockets, NEW seg, Sends(s, seg)
    PROVE  Silence'
  <1>1. PICK e \in End, n \in 1..Len(idOf), w \in Wire :
          /\ s = <<e, n>> /\ Packed(w, e, seg) /\ seg.num = n
          /\ ~sok[s].closed /\ (sok'[s].closed <=> seg.flag = "CLOS")
    BY SendsFacts
  <1>2. \A t \in Sockets \ {s} : Still(t)
    BY DEF Sends
  <1>3. ClosedDead'
    <2>1. sok'[s].closed => sok'[s].dead
      <3>1. seg.flag = "CLOS" => sok'[s].dead
        BY DEF Sends
      <3> QED
        BY <1>1, <3>1
    <2> QED
      BY <1>2, <2>1 DEF Silence, ClosedDead, Still
  <1> DEFINE new(v, f, k) == /\ v = w /\ f = e
                             /\ k = Len(line[w][e]) + 1 /\ line'[v][f][k] = seg
             old(v, f, k) == k \in 1..Len(line[v][f]) /\ line'[v][f][k] = line[v][f][k]
  <1>4. \A v \in Wire, f \in End : \A k \in 1..Len(line'[v][f]) : old(v, f, k) \/ new(v, f, k)
    BY <1>1 DEF Packed
  <1>5. \A t \in Sockets : sok[t].closed => sok'[t].closed
    BY <1>1, <1>2 DEF Still
  <1>6. ClosOfClosed'
    <2> SUFFICES ASSUME NEW v \in Wire, NEW f \in End, NEW k \in 1..Len(line'[v][f]),
                        line'[v][f][k].flag = "CLOS"
                 PROVE  sok'[<<f, line'[v][f][k].num>>].closed
      BY DEF ClosOfClosed
    <2>1. CASE old(v, f, k)
      BY <1>5, <2>1, SegmentSocket DEF Silence, ClosOfClosed
    <2>2. CASE new(v, f, k)
      BY <1>1, <2>2
    <2> QED
      BY <1>4, <2>1, <2>2
  <1>7. ClosLast'
    <2> SUFFICES ASSUME NEW v \in Wire, NEW f \in End, NEW j \in 1..Len(line'[v][f]),
                        NEW k \in 1..Len(line'[v][f]), j < k, line'[v][f][j].flag = "CLOS"
                 PROVE  line'[v][f][k].num # line'[v][f][j].num
      BY DEF ClosLast
    <2>1. CASE old(v, f, j) /\ old(v, f, k)
      BY <2>1 DEF Silence, ClosLast
    <2>2. CASE old(v, f, j) /\ new(v, f, k)
      <3>1. sok[<<f, line[v][f][j].num>>].closed
        BY <2>2 DEF Silence, ClosOfClosed
      <3> QED
        BY <1>1, <2>2, <3>1
    <2>3. CASE new(v, f, j)
      BY <1>4, <2>3, Lengths
    <2> QED
      BY <1>4, <2>1, <2>2, <2>3
  <1> QED
    BY <1>3, <1>6, <1>7 DEF Silence

LEMMA SilenceTakes ==
    ASSUME TypeInv, Silence, NEW e \in End, NEW w \in Wire, NEW seg, Takes(e, w, seg)
    PROVE  Silence'
  <1>1. \A t \in Sockets : /\ sok'[t].closed = sok[t].closed
                           /\ sok[t].dead => sok'[t].dead
    BY TakesSockets
  <1>2. PICK p \in End : p = Peer(e)
    BY Ends
  <1>3. Shifted(w, p)
    BY <1>2, TakesShift
  <1>4. ClosedDead'
    BY <1>1 DEF Silence, ClosedDead
  <1>5. ClosOfClosed'
    <2> SUFFICES ASSUME NEW v \in Wire, NEW f \in End, NEW k \in 1..Len(line'[v][f]),
                        line'[v][f][k].flag = "CLOS"
                 PROVE  sok'[<<f, line'[v][f][k].num>>].closed
      BY DEF ClosOfClosed
    <2>1. PICK j \in 1..Len(line[v][f]) : line'[v][f][k] = line[v][f][j]
      BY <1>3 DEF Shifted
    <2> QED
      BY <1>1, <2>1, SegmentSocket DEF Silence, ClosOfClosed
  <1>6. ClosLast'
    <2> SUFFICES ASSUME NEW v \in Wire, NEW f \in End, NEW j \in 1..Len(line'[v][f]),
                        NEW k \in 1..Len(line'[v][f]), j < k, line'[v][f][j].flag = "CLOS"
                 PROVE  line'[v][f][k].num # line'[v][f][j].num
      BY DEF ClosLast
    <2>1. CASE ~(v = w /\ f = p)
      BY <1>3, <2>1 DEF Silence, ClosLast, Shifted
    <2>2. CASE v = w /\ f = p
      <3>1. /\ j + 1 \in 1..Len(line[v][f]) /\ line'[v][f][j] = line[v][f][j + 1]
            /\ k + 1 \in 1..Len(line[v][f]) /\ line'[v][f][k] = line[v][f][k + 1] /\ j + 1 < k + 1
        BY <1>3, <2>2 DEF Shifted
      <3> QED
        BY <3>1 DEF Silence, ClosLast
    <2> QED
      BY <2>1, <2>2
  <1> QED
    BY <1>4, <1>5, <1>6 DEF Silence

\* Tunnel: the new socket is as new as its OPEN.
Drew(i, w, n, open) ==
    /\ n = Len(idOf) + 1 /\ n \notin 1..Len(idOf) /\ Len(idOf') = n
    /\ open.flag = "OPEN" /\ open.num = n /\ open.id = i /\ Packed(w, "client", open)
    /\ \A k \in 1..Len(idOf) : /\ idOf'[k] = idOf[k] /\ wireOf'[k] = wireOf[k]
                               /\ k \in 1..Len(idOf')
    /\ idOf'[n] = i /\ wireOf'[n] = w /\ n \in 1..Len(idOf')
    /\ \A k \in 1..Len(idOf') : k = n \/ k \in 1..Len(idOf)
    /\ \A e \in End : <<e, n>> \in Sockets /\ sok[<<e, n>>] = NewSocket
    /\ \A t \in Sockets : t # <<"client", n>> => sok'[t] = sok[t]
    /\ sok'[<<"client", n>>] = Opened(NewSocket)

LEMMA DrawsFacts ==
    ASSUME TypeInv, NEW i \in Ids, NEW w \in Wire, Draws(i, w)
    PROVE  \E n \in Nums, open \in SegmentRec : Drew(i, w, n, open)
  <1>1. PICK n \in Nums : n = Len(idOf) + 1
    BY DEF Draws
  <1>2. PICK open \in SegmentRec : open = [flag |-> "OPEN", id |-> i, num |-> n, pos |-> 0]
    BY DEF SegmentRec
  <1>3. /\ idOf \in Seq(Ids) /\ wireOf \in Seq(Wire) /\ Len(wireOf) = Len(idOf)
        /\ Len(idOf) \in Nat
    BY NumFacts DEF TypeInv, Types
  <1>4. idOf' = Append(idOf, i) /\ wireOf' = Append(wireOf, w)
    BY DEF Draws
  <1>5. /\ Len(idOf') = n /\ idOf'[n] = i /\ wireOf'[n] = w
        /\ \A k \in 1..Len(idOf) : idOf'[k] = idOf[k] /\ wireOf'[k] = wireOf[k]
    BY <1>1, <1>3, <1>4, AppendProperties
  <1>6. /\ n \notin 1..Len(idOf) /\ n \in 1..n /\ \A k \in 1..Len(idOf) : k \in 1..n
        /\ \A k \in 1..n : k = n \/ k \in 1..Len(idOf)
    BY <1>1, <1>3
  <1>7. Packed(w, "client", open)
    <2>1. /\ line' = IF Carries(w, "client") THEN [line EXCEPT ![w]["client"] = Append(@, open)]
                     ELSE line
      BY <1>1, <1>2 DEF Draws
    <2>2. Types /\ "client" \in End
      BY Ends DEF TypeInv
    <2> QED
      BY <2>1, <2>2, PackFacts
  <1>8. /\ sok[<<"client", n>>] = NewSocket /\ sok[<<"server", n>>] = NewSocket
        /\ sok'[<<"client", n>>] = Opened(NewSocket)
        /\ \A t \in Sockets \ {<<"client", n>>} : sok'[t] = sok[t]
    BY <1>1 DEF Draws
  <1>9. \A e \in End : e = "client" \/ e = "server"
    BY DEF End
  <1>10. open.flag = "OPEN" /\ open.num = n /\ open.id = i
    BY <1>2
  <1>11. \A e \in End : <<e, n>> \in Sockets /\ sok[<<e, n>>] = NewSocket
    BY <1>8, <1>9, Ends
  <1>12. Drew(i, w, n, open)
    BY <1>1, <1>5, <1>6, <1>7, <1>8, <1>10, <1>11 DEF Drew
  <1> QED
    BY <1>12

LEMMA SilenceDraws ==
    ASSUME TypeInv, Silence, NEW i \in Ids, NEW w \in Wire, Draws(i, w)
    PROVE  Silence'
  <1>1. PICK n \in Nums, open \in SegmentRec : Drew(i, w, n, open)
    BY DrawsFacts
  <1>2. /\ n \notin 1..Len(idOf)
        /\ open.flag = "OPEN" /\ open.num = n /\ Packed(w, "client", open)
        /\ \A t \in Sockets : t # <<"client", n>> => sok'[t] = sok[t]
        /\ sok'[<<"client", n>>] = Opened(NewSocket)
    BY <1>1 DEF Drew
  <1>3. ~Opened(NewSocket).closed
    BY DEF Opened, NewSocket
  <1>4. ClosedDead'
    BY <1>2, <1>3 DEF Silence, ClosedDead
  <1> DEFINE new(v, f, k) == /\ v = w /\ f = "client"
                             /\ k = Len(line[w]["client"]) + 1 /\ line'[v][f][k] = open
             old(v, f, k) == k \in 1..Len(line[v][f]) /\ line'[v][f][k] = line[v][f][k]
  <1>5. \A v \in Wire, f \in End : \A k \in 1..Len(line'[v][f]) : old(v, f, k) \/ new(v, f, k)
    BY <1>2 DEF Packed
  <1>6. ASSUME NEW v \in Wire, NEW f \in End, NEW k \in 1..Len(line[v][f])
        PROVE  /\ line[v][f][k].num # n
               /\ sok'[<<f, line[v][f][k].num>>] = sok[<<f, line[v][f][k].num>>]
    <2>1. line[v][f][k].num \in 1..Len(idOf) /\ <<f, line[v][f][k].num>> \in Sockets
      BY SegmentSocket
    <2> QED
      BY <1>2, <2>1
  <1>7. ClosOfClosed'
    <2> SUFFICES ASSUME NEW v \in Wire, NEW f \in End, NEW k \in 1..Len(line'[v][f]),
                        line'[v][f][k].flag = "CLOS"
                 PROVE  sok'[<<f, line'[v][f][k].num>>].closed
      BY DEF ClosOfClosed
    <2>1. old(v, f, k)
      BY <1>2, <1>5
    <2> QED
      BY <1>6, <2>1 DEF Silence, ClosOfClosed
  <1>8. ClosLast'
    <2> SUFFICES ASSUME NEW v \in Wire, NEW f \in End, NEW j \in 1..Len(line'[v][f]),
                        NEW k \in 1..Len(line'[v][f]), j < k, line'[v][f][j].flag = "CLOS"
                 PROVE  line'[v][f][k].num # line'[v][f][j].num
      BY DEF ClosLast
    <2>1. old(v, f, j)
      BY <1>2, <1>5
    <2>2. CASE old(v, f, k)
      BY <2>1, <2>2 DEF Silence, ClosLast
    <2>3. CASE new(v, f, k)
      <3>1. line'[v][f][j].num # n
        BY <1>6, <2>1
      <3>2. line'[v][f][k].num = n
        BY <1>2, <2>3
      <3> QED
        BY <3>1, <3>2
    <2> QED
      BY <1>5, <2>2, <2>3
  <1> QED
    BY <1>4, <1>7, <1>8 DEF Silence

LEMMA SilenceKept ==
    ASSUME TypeInv, Silence, line' = line,
           \A t \in Sockets : /\ sok'[t].closed = sok[t].closed
                              /\ sok[t].dead => sok'[t].dead
    PROVE  Silence'
  <1>1. ClosedDead' /\ ClosLast'
    BY DEF Silence, ClosedDead, ClosLast
  <1>2. ASSUME NEW v \in Wire, NEW f \in End, NEW k \in 1..Len(line[v][f]),
               line[v][f][k].flag = "CLOS"
        PROVE  sok'[<<f, line[v][f][k].num>>].closed
    <2>1. <<f, line[v][f][k].num>> \in Sockets
      BY SegmentSocket
    <2>2. sok[<<f, line[v][f][k].num>>].closed
      BY <1>2 DEF Silence, ClosOfClosed
    <2> QED
      BY <2>1, <2>2
  <1> QED
    BY <1>1, <1>2 DEF Silence, ClosOfClosed

LEMMA SilenceStep ==
    ASSUME TypeInv, Silence, [Next]_vars
    PROVE  Silence'
  <1>1. ASSUME Quiet PROVE Silence'
    BY <1>1, SilenceKept DEF Quiet, Still
  <1>2. ASSUME NEW s \in Sockets, Reads(s) PROVE Silence'
    <2>1. \A t \in Sockets : /\ sok'[t].closed = sok[t].closed
                             /\ sok[t].dead => sok'[t].dead
      BY <1>2 DEF Reads, Still
    <2>2. line' = line
      BY <1>2 DEF Reads
    <2> QED
      BY <2>1, <2>2, SilenceKept
  <1> QED
    BY <1>1, <1>2, SilenceSends, SilenceTakes, SilenceDraws, Steps

LEMMA InitSilence == Init => Silence
  <1> SUFFICES ASSUME Init PROVE Silence
    OBVIOUS
  <1>1. \A s \in Sockets : ~sok[s].closed
    BY DEF Init, NewSocket
  <1>2. \A w \in Wire, e \in End : Len(line[w][e]) = 0
    BY DEF Init
  <1> QED
    BY <1>1, <1>2 DEF Silence, ClosedDead, ClosOfClosed, ClosLast

-----------------------------------------------------------------------------
(* Routing *)

RoutingInv == TypeInv /\ Silence /\ Routing

\* The wire of a tunnel that has reached the exit belongs to a Context there.
LEMMA StartedGiven ==
    ASSUME TypeInv, NEW n \in 1..Len(idOf), Started(n)
    PROVE  /\ wireOf[n] \in Wire /\ given[wireOf[n]] \in Context /\ given[wireOf[n]] # 0
           /\ idOf[n] \in Ids
  <1>1. PICK s \in Sockets : s = <<"server", n>>
    BY NumFacts, Ends
  <1>2. s[1] = "server" /\ s[2] = n /\ sok[s].stage # "none"
    BY <1>1 DEF Started
  <1>3. wireOf[n] \in Wire /\ sub["server"][wireOf[n]].stage = "live"
    BY <1>2, Drawn DEF On
  <1>4. given[wireOf[n]] # 0
    BY <1>3 DEF TypeInv, Bounds
  <1>5. given[wireOf[n]] \in Context
    BY <1>3, ContextTypes
  <1> QED
    BY <1>3, <1>4, <1>5, NumFacts

LEMMA MainGiven ==
    ASSUME TypeInv, NEW w \in Wire, sub["server"][w].main
    PROVE  given[w] \in Context /\ given[w] # 0
  <1>1. sub["server"][w].stage = "live"
    BY Ends DEF TypeInv, Bounds
  <1>2. given[w] # 0
    BY <1>1 DEF TypeInv, Bounds
  <1> QED
    BY <1>2, ContextTypes

\* A step that moves nothing on the wires and in the tables
LEMMA RoutingKept ==
    ASSUME RoutingInv, UNCHANGED <<idOf, wireOf, table, line, crossed>>, Fading,
           \A t \in Sockets : /\ sok'[t].stage = "none" <=> sok[t].stage = "none"
                              /\ sok'[t].closed = sok[t].closed
    PROVE  Routing'
  <1>1. \A n \in 1..Len(idOf) :
          /\ Started(n)' <=> Started(n)
          /\ \A e \in End : sok'[<<e, n>>].closed = sok[<<e, n>>].closed
          /\ wireOf[n] \in Wire /\ (Hale(wireOf[n])' => Hale(wireOf[n]))
    <2>1. \A n \in 1..Len(idOf) : \A e \in End : <<e, n>> \in Sockets
      BY NumFacts DEF RoutingInv
    <2>2. \A n \in 1..Len(idOf) : wireOf[n] \in Wire
      BY NumFacts DEF RoutingInv
    <2>3. \A w \in Wire : Hale(w)' => Hale(w)
      BY DEF Fading
    <2>4. \A n \in 1..Len(idOf) : Hale(wireOf[n])' => Hale(wireOf[n])
      BY <2>2, <2>3
    <2> QED
      BY <2>1, <2>2, <2>4, Ends DEF Started
  <1>2. \A e, n : OnLine(e, n)' <=> OnLine(e, n)
    BY DEF OnLine
  <1>3. \A m, n : Apart(m, n)' <=> Apart(m, n)
    BY DEF Apart
  <1>4. LastSpeaks'
    BY <1>1, <1>2, <1>3, Ends DEF RoutingInv, Routing, LastSpeaks
  <1>5. RoutedDown'
    BY <1>1, <1>2, Ends DEF RoutingInv, Routing, RoutedDown
  <1>6. InOrder'
    BY <1>3 DEF RoutingInv, Routing, InOrder
  <1>7. OpenFirst'
    <2>1. ASSUME NEW w \in Wire, NEW k \in 1..Len(line[w]["client"])
          PROVE  LET q == line[w]["client"]
                 IN  \/ q[k].flag = "OPEN" \/ Started(q[k].num)'
                     \/ \E j \in 1..(k - 1) : OpenAt(q, q[k].num, j)
      <3>1. line[w]["client"][k].num \in 1..Len(idOf)
        BY Ends, SegmentSocket DEF RoutingInv
      <3> QED
        BY <1>1, <3>1 DEF RoutingInv, Routing, OpenFirst
    <2>2. ASSUME NEW n \in 1..Len(idOf), Hale(wireOf[n])', ~sok'[<<"client", n>>].closed
          PROVE  \/ Started(n)'
                 \/ \E j \in 1..Len(line[wireOf[n]]["client"]) :
                      OpenAt(line[wireOf[n]]["client"], n, j)
      BY <1>1, <2>2, Ends DEF RoutingInv, Routing, OpenFirst
    <2> QED
      BY <2>1, <2>2 DEF OpenFirst, OpenAt
  <1>8. ASSUME NEW n \in 1..Len(idOf), Started(n)
        PROVE  given'[wireOf[n]] = given[wireOf[n]]
    <2>1. wireOf[n] \in Wire /\ given[wireOf[n]] # 0
      BY <1>8, StartedGiven DEF RoutingInv
    <2> QED
      BY <2>1 DEF Fading
  <1>9. RoutedUp'
    <2>1. ASSUME NEW n \in 1..Len(idOf), n \notin crossed, Started(n)',
                 OnLine("client", n)' \/ ~sok'[<<"client", n>>].closed
          PROVE  table[given'[wireOf[n]]][idOf[n]] = n
      BY <1>1, <1>2, <1>8, <2>1, Ends DEF RoutingInv, Routing, RoutedUp
    <2>2. ASSUME NEW c \in Context \ {0}, NEW i \in Ids, table[c][i] # 0
          PROVE  /\ Started(table[c][i])'
                 /\ \A n \in 1..Len(idOf) :
                      Started(n)' /\ given'[wireOf[n]] = c => ~Apart(table[c][i], n)
      <3>1. table[c][i] \in 1..Len(idOf)
        <4>1. table[c][i] \in 0..Len(idOf) /\ Len(idOf) \in Nat
          BY NumFacts DEF RoutingInv, TypeInv, Types
        <4> QED
          BY <2>2, <4>1
      <3>2. /\ Started(table[c][i])
            /\ \A n \in 1..Len(idOf) :
                 Started(n) /\ given[wireOf[n]] = c => ~Apart(table[c][i], n)
        BY <2>2 DEF RoutingInv, Routing, RoutedUp
      <3> QED
        BY <1>1, <1>8, <3>1, <3>2
    <2> QED
      BY <1>3, <2>1, <2>2 DEF RoutedUp
  <1> QED
    BY <1>4, <1>5, <1>6, <1>7, <1>9 DEF Routing

\* Who is on a wire that has got one segment more
LEMMA PackedOnLine ==
    ASSUME TypeInv, NEW w \in Wire, NEW e \in End, NEW seg, Packed(w, e, seg),
           NEW x \in 1..Len(idOf), wireOf'[x] = wireOf[x], NEW f \in End, OnLine(f, x)'
    PROVE  OnLine(f, x) \/ (f = e /\ x = seg.num)
  <1>1. PICK v \in Wire : v = wireOf[x]
    BY NumFacts
  <1>2. PICK k \in 1..Len(line'[v][f]) : line'[v][f][k].num = x
    BY <1>1 DEF OnLine
  <1>3. CASE k \in 1..Len(line[v][f]) /\ line'[v][f][k] = line[v][f][k]
    BY <1>1, <1>2, <1>3 DEF OnLine
  <1>4. CASE v = w /\ f = e /\ line'[v][f][k] = seg
    BY <1>2, <1>4
  <1> QED
    BY <1>3, <1>4 DEF Packed

\* A prefix of the wire of the client keeps what is in front of a segment.
LEMMA PackedOpen ==
    ASSUME TypeInv, NEW w \in Wire, NEW seg, Packed(w, "client", seg) \/ Packed(w, "server", seg),
           NEW v \in Wire, NEW n
    PROVE  /\ \A k \in 1..Len(line[v]["client"]) :
                /\ line'[v]["client"][k] = line[v]["client"][k]
                /\ \A j \in 1..(k - 1) : OpenAt(line[v]["client"], n, j)
                                           => OpenAt(line'[v]["client"], n, j)
           /\ \A j \in 1..Len(line[v]["client"]) :
                /\ j \in 1..Len(line'[v]["client"])
                /\ OpenAt(line[v]["client"], n, j) => OpenAt(line'[v]["client"], n, j)
  <1>1. \A k \in 1..Len(line[v]["client"]) :
          k \in 1..Len(line'[v]["client"]) /\ line'[v]["client"][k] = line[v]["client"][k]
    BY Ends DEF Packed
  <1>2. Len(line[v]["client"]) \in Nat
    BY Ends, Lengths
  <1>3. \A k \in 1..Len(line[v]["client"]) : \A j \in 1..(k - 1) : j \in 1..Len(line[v]["client"])
    BY <1>2
  <1> QED
    BY <1>1, <1>3 DEF OpenAt

LEMMA RoutingSends ==
    ASSUME RoutingInv, NEW s \in Sockets, NEW seg, Sends(s, seg)
    PROVE  Routing'
  <1>1. PICK e \in End, n \in 1..Len(idOf), w \in Wire :
          /\ s = <<e, n>> /\ w = wireOf[n] /\ Packed(w, e, seg) /\ seg.num = n
          /\ ~sok[s].closed /\ (sok'[s].closed <=> seg.flag = "CLOS")
          /\ sub[e][w].stage = "live"
    BY SendsFacts DEF RoutingInv
  <1>2. TypeInv /\ UNCHANGED <<idOf, wireOf, table, sub, cut, given, crossed>>
    BY DEF Sends, RoutingInv
  <1> DEFINE started(x) == sok'[<<"server", x>>].stage # "none"
  <1>3. \A x \in 1..Len(idOf) :
          /\ started(x) <=> Started(x)
          /\ \A f \in End : sok[<<f, x>>].closed => sok'[<<f, x>>].closed
          /\ wireOf[x] \in Wire /\ (Hale(wireOf[x])' <=> Hale(wireOf[x]))
    <2>1. \A t \in Sockets : /\ sok'[t].stage = "none" <=> sok[t].stage = "none"
                             /\ sok[t].closed => sok'[t].closed
      <3>1. \A t \in Sockets \ {s} : Still(t)
        BY DEF Sends
      <3>2. (sok'[s].stage = "none" <=> sok[s].stage = "none")
        BY DEF Sends
      <3> QED
        BY <1>1, <3>1, <3>2 DEF Still
    <2>2. \A x \in 1..Len(idOf) : wireOf[x] \in Wire /\ \A f \in End : <<f, x>> \in Sockets
      BY <1>2, NumFacts
    <2>3. \A x \in 1..Len(idOf) : Hale(wireOf[x])' <=> Hale(wireOf[x])
      BY <1>2 DEF Hale
    <2> QED
      BY <2>1, <2>2, <2>3, Ends DEF Started
  <1> HIDE DEF started
  <1>4. ASSUME NEW f \in End, NEW x \in 1..Len(idOf), OnLine(f, x)'
        PROVE  OnLine(f, x) \/ ~sok[<<f, x>>].closed
    <2>1. OnLine(f, x) \/ (f = e /\ x = seg.num)
      BY <1>1, <1>2, <1>4, PackedOnLine
    <2> QED
      BY <1>1, <2>1
  <1>5. \A m, x : Apart(m, x)' <=> Apart(m, x)
    BY <1>2 DEF Apart
  <1>6. LastSpeaks'
    <2> SUFFICES ASSUME NEW m \in 1..Len(idOf), NEW x \in 1..Len(idOf), Apart(m, x)
                 PROVE  /\ sok'[<<"client", m>>].closed
                        /\ OnLine("client", m)' => wireOf[m] = wireOf[x] /\ ~started(x)
      BY <1>2, <1>5 DEF LastSpeaks, Started, started
    <2>1. /\ sok[<<"client", m>>].closed
          /\ OnLine("client", m) => wireOf[m] = wireOf[x] /\ ~Started(x)
      BY DEF RoutingInv, Routing, LastSpeaks
    <2> QED
      BY <1>3, <1>4, <2>1, Ends
  <1>7. RoutedDown'
    BY <1>2, <1>3, <1>4, Ends DEF RoutingInv, Routing, RoutedDown
  <1> DEFINE new(v, f, k) == /\ v = w /\ f = e /\ Carries(w, e)
                             /\ k = Len(line[w][e]) + 1 /\ line'[v][f][k] = seg
             old(v, f, k) == k \in 1..Len(line[v][f]) /\ line'[v][f][k] = line[v][f][k]
  <1>8. \A v \in Wire, f \in End : \A k \in 1..Len(line'[v][f]) : old(v, f, k) \/ new(v, f, k)
    BY <1>1 DEF Packed
  <1>9. InOrder'
    <2> SUFFICES ASSUME NEW v \in Wire, NEW j \in 1..Len(line'[v]["client"]),
                        NEW k \in 1..Len(line'[v]["client"]), j < k,
                        Apart(line'[v]["client"][k].num, line'[v]["client"][j].num)
                 PROVE  FALSE
      BY <1>5 DEF InOrder
    <2>1. CASE old(v, "client", j) /\ old(v, "client", k)
      BY <2>1 DEF RoutingInv, Routing, InOrder
    <2>2. CASE old(v, "client", j) /\ new(v, "client", k)
      <3>1. line[v]["client"][j].num \in 1..Len(idOf)
        BY <1>2, <2>2, Ends, SegmentSocket
      <3>2. Apart(n, line[v]["client"][j].num) /\ e = "client"
        BY <1>1, <2>2
      <3>3. sok[<<"client", n>>].closed
        BY <3>1, <3>2 DEF RoutingInv, Routing, LastSpeaks
      <3> QED
        BY <1>1, <3>2, <3>3
    <2>3. CASE new(v, "client", j)
      BY <1>2, <1>8, <2>3, Lengths, Ends
    <2> QED
      BY <1>8, <2>1, <2>2, <2>3, Ends
  <1>10. Packed(w, "client", seg) \/ Packed(w, "server", seg)
    BY <1>1 DEF End
  <1>11. ASSUME NEW v \in Wire, NEW k \in 1..Len(line'[v]["client"])
         PROVE  LET q == line'[v]["client"]
                IN  \/ q[k].flag = "OPEN" \/ started(q[k].num)
                    \/ \E j \in 1..(k - 1) : OpenAt(q, q[k].num, j)
    <2>1. CASE old(v, "client", k)
      <3>1. PICK x \in 1..Len(idOf) : x = line[v]["client"][k].num
        BY <1>2, <2>1, Ends, SegmentSocket
      <3>2. \/ line[v]["client"][k].flag = "OPEN" \/ Started(x)
            \/ \E j \in 1..(k - 1) : OpenAt(line[v]["client"], x, j)
        BY <2>1, <3>1 DEF RoutingInv, Routing, OpenFirst
      <3>3. \A j \in 1..(k - 1) : OpenAt(line[v]["client"], x, j) => OpenAt(line'[v]["client"], x, j)
        BY <1>2, <1>10, <2>1, PackedOpen
      <3> QED
        BY <1>3, <2>1, <3>1, <3>2, <3>3
    <2>2. CASE new(v, "client", k)
      <3>1. e = "client" /\ v = w /\ line'[v]["client"][k].num = n /\ ~sok[<<"client", n>>].closed
        BY <1>1, <2>2
      <3>2. Hale(w)
        <4>1. Carries(w, "client") /\ Peer("client") = "server"
          BY <2>2, <3>1 DEF Peer
        <4> QED
          BY <4>1 DEF Carries, Hale, End
      <3>3. Started(n) \/ \E j \in 1..Len(line[w]["client"]) : OpenAt(line[w]["client"], n, j)
        BY <1>1, <3>1, <3>2 DEF RoutingInv, Routing, OpenFirst
      <3>4. \A j \in 1..Len(line[w]["client"]) :
              j \in 1..(k - 1) /\ (OpenAt(line[w]["client"], n, j) => OpenAt(line'[w]["client"], n, j))
        <4>1. k - 1 = Len(line[w]["client"])
          BY <1>2, <2>2, <3>1, Lengths, Ends
        <4> QED
          BY <1>2, <1>10, <4>1, PackedOpen
      <3> QED
        BY <1>3, <3>1, <3>3, <3>4
    <2> QED
      BY <1>8, <2>1, <2>2, Ends
  <1>12. ASSUME NEW x \in 1..Len(idOf), Hale(wireOf[x])', ~sok'[<<"client", x>>].closed
         PROVE  \/ started(x)
                \/ \E j \in 1..Len(line'[wireOf[x]]["client"]) :
                     OpenAt(line'[wireOf[x]]["client"], x, j)
    <2>1. PICK v \in Wire : v = wireOf[x]
      BY <1>3
    <2>2. Started(x) \/ \E j \in 1..Len(line[v]["client"]) : OpenAt(line[v]["client"], x, j)
      BY <1>3, <1>12, <2>1, Ends DEF RoutingInv, Routing, OpenFirst
    <2>3. \A j \in 1..Len(line[v]["client"]) :
            /\ j \in 1..Len(line'[v]["client"])
            /\ OpenAt(line[v]["client"], x, j) => OpenAt(line'[v]["client"], x, j)
      BY <1>2, <1>10, PackedOpen
    <2> QED
      BY <1>3, <2>1, <2>2, <2>3
  <1>13. OpenFirst'
    BY <1>2, <1>11, <1>12 DEF OpenFirst, OpenAt, Started, started
  <1>14. RoutedUp'
    <2>1. ASSUME NEW x \in 1..Len(idOf), x \notin crossed, started(x),
                 OnLine("client", x)' \/ ~sok'[<<"client", x>>].closed
          PROVE  table[given[wireOf[x]]][idOf[x]] = x
      <3>1. Started(x) /\ (OnLine("client", x) \/ ~sok[<<"client", x>>].closed)
        BY <1>3, <1>4, <2>1, Ends
      <3> QED
        BY <2>1, <3>1 DEF RoutingInv, Routing, RoutedUp
    <2>2. ASSUME NEW c \in Context \ {0}, NEW i \in Ids, table[c][i] # 0
          PROVE  /\ started(table[c][i])
                 /\ \A x \in 1..Len(idOf) :
                      started(x) /\ given[wireOf[x]] = c => ~Apart(table[c][i], x)
      <3>1. table[c][i] \in 1..Len(idOf)
        <4>1. table[c][i] \in 0..Len(idOf) /\ Len(idOf) \in Nat
          BY NumFacts DEF RoutingInv, TypeInv, Types
        <4> QED
          BY <2>2, <4>1
      <3>2. /\ Started(table[c][i])
            /\ \A x \in 1..Len(idOf) :
                 Started(x) /\ given[wireOf[x]] = c => ~Apart(table[c][i], x)
        BY <2>2 DEF RoutingInv, Routing, RoutedUp
      <3> QED
        BY <1>3, <3>1, <3>2
    <2> QED
      BY <1>2, <1>5, <2>1, <2>2 DEF RoutedUp, Started, started
  <1> QED
    BY <1>6, <1>7, <1>9, <1>13, <1>14 DEF Routing

\* Who is still on a wire that has lost its first segment
LEMMA ShiftedOnLine ==
    ASSUME TypeInv, NEW w \in Wire, NEW p \in End, Shifted(w, p), wireOf' = wireOf,
           NEW f \in End, NEW x \in 1..Len(idOf), OnLine(f, x)'
    PROVE  /\ OnLine(f, x)
           /\ f = p /\ wireOf[x] = w =>
                \E k \in 1..Len(line[w][p]) : 1 < k /\ line[w][p][k].num = x
  <1>1. PICK v \in Wire : v = wireOf[x]
    BY NumFacts
  <1>2. PICK k \in 1..Len(line'[v][f]) : line'[v][f][k].num = x
    BY <1>1 DEF OnLine
  <1>3. CASE v = w /\ f = p
    <2>1. k + 1 \in 1..Len(line[v][f]) /\ line[v][f][k + 1].num = x /\ 1 < k + 1
      BY <1>2, <1>3 DEF Shifted
    <2> QED
      BY <1>1, <1>3, <2>1 DEF OnLine
  <1>4. CASE ~(v = w /\ f = p)
    <2>1. line'[v][f] = line[v][f]
      BY <1>4 DEF Shifted
    <2> QED
      BY <1>1, <1>2, <1>4, <2>1 DEF OnLine
  <1> QED
    BY <1>3, <1>4

\* What mainThread takes, and what that does to tables and sockets
Delivered(e, p, w, seg) ==
    /\ UNCHANGED <<idOf, wireOf, given, crossed>> /\ Fading /\ sub[e][w].main
    /\ p \in End /\ p = Peer(e) /\ Shifted(w, p) /\ seg = line[w][p][1]
    /\ seg.num \in 1..Len(idOf) /\ seg.id = idOf[seg.num] /\ seg.id \in Ids
    /\ wireOf[seg.num] = w /\ OnLine(p, seg.num)
    /\ \/ seg.flag = "OPEN" /\ e = "server" /\ SetTo(Owner(e, w), seg.id, seg.num)
       \/ seg.flag = "ICWD" /\ table' = table
       \/ seg.flag = "DATA" /\ table' = table
       \/ seg.flag = "CLOS" /\ SetTo(Owner(e, w), seg.id, 0)
    /\ seg.flag = "CLOS" => sok[<<p, seg.num>>].closed /\ ~OnLine(p, seg.num)'
    /\ \A x \in 1..Len(idOf) :
         /\ sok'[<<"server", x>>].stage # "none"
              <=> Started(x) \/ (seg.flag = "OPEN" /\ x = seg.num)
         /\ \A f \in End : sok'[<<f, x>>].closed = sok[<<f, x>>].closed

LEMMA TakesFacts ==
    ASSUME TypeInv, Silence, NEW e \in End, NEW w \in Wire, NEW seg, Takes(e, w, seg)
    PROVE  \E p \in End : Delivered(e, p, w, seg)
  <1>1. PICK p \in End : p = Peer(e)
    BY Ends
  <1>2. Shifted(w, p) /\ seg = line[w][p][1] /\ 1 \in 1..Len(line[w][p])
    BY <1>1, TakesShift DEF Shifted
  <1>3. /\ seg.num \in 1..Len(idOf) /\ seg.id = idOf[seg.num] /\ seg.id \in Ids
        /\ wireOf[seg.num] = w /\ \A f \in End : <<f, seg.num>> \in Sockets
    BY <1>2, SegmentSocket
  <1>4. OnLine(p, seg.num)
    BY <1>2, <1>3 DEF OnLine
  <1>5. /\ UNCHANGED <<idOf, wireOf, given, crossed>> /\ Fading /\ sub[e][w].main
        /\ \/ seg.flag = "OPEN" /\ e = "server" /\ SetTo(Owner(e, w), seg.id, seg.num)
           \/ seg.flag = "ICWD" /\ table' = table
           \/ seg.flag = "DATA" /\ table' = table
           \/ seg.flag = "CLOS" /\ SetTo(Owner(e, w), seg.id, 0)
    BY Zenon DEF Takes
  <1>6. ASSUME seg.flag = "CLOS" PROVE sok[<<p, seg.num>>].closed /\ ~OnLine(p, seg.num)'
    <2>1. sok[<<p, seg.num>>].closed
      BY <1>2, <1>6 DEF Silence, ClosOfClosed
    <2>2. ASSUME OnLine(p, seg.num)' PROVE FALSE
      <3>1. PICK k \in 1..Len(line[w][p]) : 1 < k /\ line[w][p][k].num = seg.num
        BY <1>2, <1>3, <1>5, <2>2, ShiftedOnLine
      <3> QED
        BY <1>2, <1>6, <3>1 DEF Silence, ClosLast
    <2> QED
      BY <2>1, <2>2
  <1>7. ASSUME NEW x \in 1..Len(idOf)
        PROVE  /\ sok'[<<"server", x>>].stage # "none"
                    <=> Started(x) \/ (seg.flag = "OPEN" /\ x = seg.num)
               /\ \A f \in End : sok'[<<f, x>>].closed = sok[<<f, x>>].closed
    <2>1. \A f \in End : <<f, x>> \in Sockets
      BY NumFacts
    <2>2. \A f \in End : sok'[<<f, x>>].closed = sok[<<f, x>>].closed
      BY <2>1, TakesSockets
    <2>3. PICK t \in Sockets : t = <<"server", x>>
      BY <2>1, Ends
    <2>4. sok[t].stage # "none" => sok'[t].stage # "none"
      BY TakesSockets
    <2>5. CASE seg.flag = "OPEN" /\ x = seg.num
      <3>1. sok[t] \in SocketRec
        BY DEF TypeInv, Types
      <3>2. sok'[t] = [sok[t] EXCEPT !.stage = "queued"]
        BY <2>3, <2>5 DEF Takes
      <3>3. sok'[t].stage = "queued"
        BY <3>1, <3>2 DEF SocketRec
      <3> QED
        BY <2>2, <2>3, <2>5, <3>3
    <2>6. CASE ~(seg.flag = "OPEN" /\ x = seg.num)
      <3>1. sok'[t].stage # "none" => sok[t].stage # "none"
        <4>1. sok[t] \in SocketRec
          BY DEF TypeInv, Types
        <4>2. CASE Still(t)
          BY <4>2 DEF Still
        <4>3. CASE sok'[t] = [sok[t] EXCEPT !.incoming = Append(@, seg)]
          BY <4>1, <4>3 DEF SocketRec
        <4>4. Still(t) \/ sok'[t] = [sok[t] EXCEPT !.incoming = Append(@, seg)]
          <5>1. t # <<"server", seg.num>> \/ seg.flag # "OPEN"
            BY <2>3, <2>6
          <5> DEFINE dest == <<e, table[Owner(e, w)][seg.id]>>
                     opened == <<"server", seg.num>>
          <5>2. \/ seg.flag = "OPEN" /\ \A y \in Sockets \ {opened} : Still(y)
                \/ \A y \in Sockets : Still(y)
                \/ /\ \A y \in Sockets \ {dest} : Still(y)
                   /\ sok'[dest] = [sok[dest] EXCEPT !.incoming = Append(@, seg)]
            BY Zenon DEF Takes
          <5>3. t # opened \/ seg.flag # "OPEN"
            BY <5>1
          <5> HIDE DEF dest, opened
          <5> QED
            BY <5>2, <5>3
        <4> QED
          BY <4>2, <4>3, <4>4
      <3> QED
        BY <2>2, <2>3, <2>4, <2>6, <3>1 DEF Started
    <2> QED
      BY <2>5, <2>6
  <1>8. Delivered(e, p, w, seg)
    BY <1>1, <1>2, <1>3, <1>4, <1>5, <1>6, <1>7 DEF Delivered
  <1> QED
    BY <1>8

\* The client takes a segment: only its own table and RoutedDown are at stake.
LEMMA RoutingTakesDown ==
    ASSUME RoutingInv, NEW w \in Wire, NEW seg, Takes("client", w, seg)
    PROVE  Routing'
  <1>1. Delivered("client", "server", w, seg) /\ TypeInv
    <2>1. PICK e \in End : e = "client"
      BY Ends
    <2>2. PICK p \in End : Delivered(e, p, w, seg)
      BY <2>1, TakesFacts DEF RoutingInv
    <2>3. p = "server"
      BY <2>1, <2>2 DEF Delivered, Peer
    <2> QED
      BY <2>1, <2>2, <2>3 DEF RoutingInv
  <1>2. /\ UNCHANGED <<idOf, wireOf, given, crossed>> /\ Fading
        /\ \A v \in Wire : line'[v]["client"] = line[v]["client"]
        /\ \A c \in Context \ {0}, i \in Ids : table'[c][i] = table[c][i]
    <2>1. \A c \in Context \ {0}, i \in Ids : table'[c][i] = table[c][i]
      <3>1. Owner("client", w) = 0
        BY DEF Owner
      <3>2. table' = table \/ SetTo(0, seg.id, 0)
        BY <1>1, <3>1 DEF Delivered
      <3> QED
        BY <3>2 DEF SetTo
    <2> QED
      BY <1>1, <2>1, Ends DEF Delivered, Shifted
  <1> DEFINE started(x) == sok'[<<"server", x>>].stage # "none"
  <1>3. \A x \in 1..Len(idOf) :
          /\ started(x) <=> Started(x)
          /\ \A f \in End : sok'[<<f, x>>].closed = sok[<<f, x>>].closed
          /\ wireOf[x] \in Wire /\ (Hale(wireOf[x])' => Hale(wireOf[x]))
    <2>1. seg.flag # "OPEN"
      BY <1>1 DEF Delivered
    <2>2. \A x \in 1..Len(idOf) : wireOf[x] \in Wire
      BY <1>1, NumFacts
    <2>3. \A v \in Wire : Hale(v)' => Hale(v)
      BY <1>2 DEF Fading
    <2>4. \A x \in 1..Len(idOf) : Hale(wireOf[x])' => Hale(wireOf[x])
      BY <1>2, <2>2, <2>3
    <2> QED
      BY <1>1, <2>1, <2>2, <2>4 DEF Delivered
  <1> HIDE DEF started
  <1>4. \A f \in End, x \in 1..Len(idOf) : OnLine(f, x)' => OnLine(f, x)
    BY <1>1, ShiftedOnLine, Ends DEF Delivered
  <1>5. \A m, x : Apart(m, x)' <=> Apart(m, x)
    BY <1>2 DEF Apart
  <1>6. LastSpeaks'
    <2> SUFFICES ASSUME NEW m \in 1..Len(idOf), NEW x \in 1..Len(idOf), Apart(m, x)
                 PROVE  /\ sok'[<<"client", m>>].closed
                        /\ OnLine("client", m)' => wireOf[m] = wireOf[x] /\ ~started(x)
      BY <1>2, <1>5 DEF LastSpeaks, Started, started
    <2>1. /\ sok[<<"client", m>>].closed
          /\ OnLine("client", m) => wireOf[m] = wireOf[x] /\ ~Started(x)
      BY DEF RoutingInv, Routing, LastSpeaks
    <2> QED
      BY <1>3, <1>4, <2>1, Ends
  <1>7. RoutedDown'
    <2> SUFFICES ASSUME NEW x \in 1..Len(idOf),
                        ~sok'[<<"server", x>>].closed \/ OnLine("server", x)'
                 PROVE  table'[0][idOf[x]] = x
      BY <1>2 DEF RoutedDown
    <2>1. table[0][idOf[x]] = x
      BY <1>3, <1>4, Ends DEF RoutingInv, Routing, RoutedDown
    <2>2. idOf[x] \in Ids /\ 0 \in Context
      BY <1>1, NumFacts, Ranges
    <2>3. CASE table' = table
      BY <2>1, <2>3
    <2>4. CASE seg.flag = "CLOS" /\ SetTo(0, seg.id, 0)
      <3>1. CASE idOf[x] # seg.id
        BY <2>1, <2>2, <2>4, <3>1 DEF SetTo
      <3>2. CASE idOf[x] = seg.id
        <4>1. /\ seg.num \in 1..Len(idOf) /\ OnLine("server", seg.num) /\ idOf[seg.num] = seg.id
              /\ sok[<<"server", seg.num>>].closed /\ ~OnLine("server", seg.num)'
          BY <1>1, <2>4 DEF Delivered
        <4>2. table[0][idOf[seg.num]] = seg.num
          BY <4>1 DEF RoutingInv, Routing, RoutedDown
        <4>3. x = seg.num
          BY <2>1, <3>2, <4>1, <4>2
        <4>4. sok'[<<"server", x>>].closed
          BY <1>3, <4>1, <4>3, Ends
        <4> QED
          BY <4>1, <4>3, <4>4
      <3> QED
        BY <3>1, <3>2
    <2>5. table' = table \/ (seg.flag = "CLOS" /\ SetTo(0, seg.id, 0))
      BY <1>1 DEF Delivered, Owner
    <2> QED
      BY <2>3, <2>4, <2>5
  <1>8. InOrder'
    BY <1>2, <1>5 DEF RoutingInv, Routing, InOrder
  <1>9. OpenFirst'
    <2>1. ASSUME NEW v \in Wire, NEW k \in 1..Len(line[v]["client"])
          PROVE  LET q == line[v]["client"]
                 IN  \/ q[k].flag = "OPEN" \/ started(q[k].num)
                     \/ \E j \in 1..(k - 1) : OpenAt(q, q[k].num, j)
      <3>1. line[v]["client"][k].num \in 1..Len(idOf)
        BY <1>1, Ends, SegmentSocket
      <3> QED
        BY <1>3, <3>1 DEF RoutingInv, Routing, OpenFirst
    <2>2. ASSUME NEW x \in 1..Len(idOf), Hale(wireOf[x])', ~sok'[<<"client", x>>].closed
          PROVE  \/ started(x)
                 \/ \E j \in 1..Len(line[wireOf[x]]["client"]) :
                      OpenAt(line[wireOf[x]]["client"], x, j)
      BY <1>3, <2>2, Ends DEF RoutingInv, Routing, OpenFirst
    <2>3. ASSUME NEW v \in Wire, NEW k \in 1..Len(line'[v]["client"])
          PROVE  LET q == line'[v]["client"]
                 IN  \/ q[k].flag = "OPEN" \/ started(q[k].num)
                     \/ \E j \in 1..(k - 1) : OpenAt(q, q[k].num, j)
      <3>1. line'[v]["client"] = line[v]["client"]
        BY <1>2
      <3> QED
        BY <2>1, <3>1
    <2>4. ASSUME NEW x \in 1..Len(idOf), Hale(wireOf[x])', ~sok'[<<"client", x>>].closed
          PROVE  \/ started(x)
                 \/ \E j \in 1..Len(line'[wireOf[x]]["client"]) :
                      OpenAt(line'[wireOf[x]]["client"], x, j)
      <3>1. line'[wireOf[x]]["client"] = line[wireOf[x]]["client"]
        BY <1>2, <1>3
      <3> QED
        BY <2>2, <2>4, <3>1
    <2> QED
      BY <1>2, <2>3, <2>4 DEF OpenFirst, OpenAt, Started, started
  <1>10. RoutedUp'
    <2>1. ASSUME NEW x \in 1..Len(idOf), x \notin crossed, started(x),
                 OnLine("client", x)' \/ ~sok'[<<"client", x>>].closed
          PROVE  table'[given[wireOf[x]]][idOf[x]] = x
      <3>1. Started(x) /\ (OnLine("client", x) \/ ~sok[<<"client", x>>].closed)
        BY <1>3, <1>4, <2>1, Ends
      <3>2. table[given[wireOf[x]]][idOf[x]] = x
        BY <2>1, <3>1 DEF RoutingInv, Routing, RoutedUp
      <3>3. given[wireOf[x]] \in Context \ {0} /\ idOf[x] \in Ids
        BY <1>1, <3>1, StartedGiven
      <3> QED
        BY <1>2, <3>2, <3>3
    <2>2. ASSUME NEW c \in Context \ {0}, NEW i \in Ids, table[c][i] # 0
          PROVE  /\ started(table[c][i])
                 /\ \A x \in 1..Len(idOf) :
                      started(x) /\ given[wireOf[x]] = c => ~Apart(table[c][i], x)
      <3>1. table[c][i] \in 1..Len(idOf)
        <4>1. table[c][i] \in 0..Len(idOf) /\ Len(idOf) \in Nat
          BY NumFacts DEF RoutingInv, TypeInv, Types
        <4> QED
          BY <2>2, <4>1
      <3>2. /\ Started(table[c][i])
            /\ \A x \in 1..Len(idOf) :
                 Started(x) /\ given[wireOf[x]] = c => ~Apart(table[c][i], x)
        BY <2>2 DEF RoutingInv, Routing, RoutedUp
      <3> QED
        BY <1>3, <3>1, <3>2
    <2>3. ASSUME NEW c \in Context \ {0}, NEW i \in Ids, table'[c][i] # 0
          PROVE  /\ started(table'[c][i])
                 /\ \A x \in 1..Len(idOf) :
                      started(x) /\ given[wireOf[x]] = c => ~Apart(table'[c][i], x)
      <3>1. table'[c][i] = table[c][i]
        BY <1>2
      <3> QED
        BY <2>2, <2>3, <3>1
    <2> QED
      BY <1>2, <1>5, <2>1, <2>3 DEF RoutedUp, Started, started
  <1> QED
    BY <1>6, <1>7, <1>8, <1>9, <1>10 DEF Routing

\* No other tunnel of its id that has reached the exit speaks behind a segment.
LEMMA Alone ==
    ASSUME RoutingInv, NEW w \in Wire, NEW seg, Delivered("server", "client", w, seg),
           NEW x \in 1..Len(idOf), x # seg.num, idOf[x] = seg.id, x \notin crossed, Started(x),
           OnLine("client", x)' \/ ~sok[<<"client", x>>].closed
    PROVE  FALSE
  <1>1. /\ TypeInv /\ Shifted(w, "client") /\ seg = line[w]["client"][1] /\ "client" \in End
        /\ seg.num \in 1..Len(idOf) /\ seg.id = idOf[seg.num] /\ wireOf[seg.num] = w
        /\ OnLine("client", seg.num) /\ wireOf' = wireOf
    BY Ends DEF Delivered, RoutingInv
  <1>2. x \in Nat /\ seg.num \in Nat
    BY <1>1, NumFacts
  <1>3. CASE seg.num < x
    <2>1. Apart(seg.num, x)
      BY <1>1, <1>3 DEF Apart
    <2> QED
      BY <1>1, <2>1 DEF RoutingInv, Routing, LastSpeaks
  <1>4. CASE x < seg.num
    <2>1. Apart(x, seg.num)
      BY <1>1, <1>4 DEF Apart
    <2>2. /\ sok[<<"client", x>>].closed
          /\ OnLine("client", x) => wireOf[x] = w
      BY <1>1, <2>1 DEF RoutingInv, Routing, LastSpeaks
    <2>3. PICK k \in 1..Len(line[w]["client"]) : 1 < k /\ line[w]["client"][k].num = x
      <3>1. OnLine("client", x)'
        BY <2>2
      <3> QED
        BY <1>1, <2>2, <3>1, ShiftedOnLine
    <2>4. 1 \in 1..Len(line[w]["client"])
      BY <1>1 DEF Shifted
    <2> QED
      BY <1>1, <2>1, <2>3, <2>4 DEF RoutingInv, Routing, InOrder
  <1> QED
    BY <1>2, <1>3, <1>4

\* An OPEN that is in front of a segment stays there, or has been taken.
LEMMA ShiftedOpen ==
    ASSUME TypeInv, NEW w \in Wire, Shifted(w, "client"), NEW v \in Wire, NEW x
    PROVE  /\ \A k \in 1..Len(line'[v]["client"]) : \E k0 \in 1..Len(line[v]["client"]) :
                /\ line'[v]["client"][k] = line[v]["client"][k0]
                /\ \A j \in 1..(k0 - 1) : OpenAt(line[v]["client"], x, j) =>
                     \/ v = w /\ OpenAt(line[w]["client"], x, 1)
                     \/ \E i \in 1..(k - 1) : OpenAt(line'[v]["client"], x, i)
           /\ \A j \in 1..Len(line[v]["client"]) : OpenAt(line[v]["client"], x, j) =>
                \/ v = w /\ OpenAt(line[w]["client"], x, 1)
                \/ \E i \in 1..Len(line'[v]["client"]) : OpenAt(line'[v]["client"], x, i)
  <1>1. Len(line[v]["client"]) \in Nat
    BY Ends, Lengths
  <1>2. CASE v # w
    <2>1. line'[v]["client"] = line[v]["client"]
      BY <1>2, Ends DEF Shifted
    <2> QED
      BY <2>1
  <1>3. CASE v = w
    <2> DEFINE old == line[w]["client"]
               new == line'[w]["client"]
    <2>1. /\ Len(new) = Len(old) - 1 /\ Len(old) \in Nat
          /\ \A k \in 1..Len(new) : k + 1 \in 1..Len(old) /\ new[k] = old[k + 1]
      BY <1>1, <1>3 DEF Shifted
    <2> HIDE DEF old, new
    <2>2. \A j \in 1..Len(old) : j = 1 \/ (j - 1 \in 1..Len(new) /\ new[j - 1] = old[j])
      <3> SUFFICES ASSUME NEW j \in 1..Len(old), j # 1
                   PROVE  j - 1 \in 1..Len(new) /\ new[j - 1] = old[j]
        OBVIOUS
      <3>1. PICK i \in 1..Len(new) : i = j - 1 /\ i + 1 = j
        BY <2>1
      <3> QED
        BY <2>1, <3>1
    <2>3. \A j \in 1..Len(old) : j = 1 \/ (OpenAt(old, x, j) => OpenAt(new, x, j - 1))
      BY <2>2 DEF OpenAt
    <2>4. ASSUME NEW k \in 1..Len(new)
          PROVE  /\ k + 1 \in 1..Len(old) /\ new[k] = old[k + 1]
                 /\ \A j \in 1..k : OpenAt(old, x, j) =>
                      OpenAt(old, x, 1) \/ \E i \in 1..(k - 1) : OpenAt(new, x, i)
      <3>1. k + 1 \in 1..Len(old) /\ new[k] = old[k + 1]
        BY <2>1
      <3>2. ASSUME NEW j \in 1..k, j # 1, OpenAt(old, x, j)
            PROVE  \E i \in 1..(k - 1) : OpenAt(new, x, i)
        <4>1. j \in 1..Len(old) /\ j - 1 \in 1..(k - 1)
          BY <2>1, <3>2
        <4> QED
          BY <2>3, <3>2, <4>1
      <3> QED
        BY <3>1, <3>2
    <2>5. ASSUME NEW j \in 1..Len(old), OpenAt(old, x, j)
          PROVE  OpenAt(old, x, 1) \/ \E i \in 1..Len(new) : OpenAt(new, x, i)
      BY <2>2, <2>3, <2>5
    <2>6. \A k \in 1..Len(new) : \E k0 \in 1..Len(old) :
            /\ new[k] = old[k0]
            /\ \A j \in 1..(k0 - 1) : OpenAt(old, x, j) =>
                 OpenAt(old, x, 1) \/ \E i \in 1..(k - 1) : OpenAt(new, x, i)
      <3> SUFFICES ASSUME NEW k \in 1..Len(new)
                   PROVE  \E k0 \in 1..Len(old) :
                            /\ new[k] = old[k0]
                            /\ \A j \in 1..(k0 - 1) : OpenAt(old, x, j) =>
                                 OpenAt(old, x, 1) \/ \E i \in 1..(k - 1) : OpenAt(new, x, i)
        OBVIOUS
      <3>1. PICK k0 \in 1..Len(old) : k0 = k + 1
        BY <2>4
      <3>2. k0 - 1 = k
        BY <2>1, <3>1
      <3> QED
        BY <2>4, <3>1, <3>2
    <2> QED
      BY <1>3, <2>5, <2>6 DEF old, new
  <1> QED
    BY <1>2, <1>3

\* The server takes a segment: the segments behind it find their own socket, or
\* still have their OPEN in front of them.
LEMMA RoutingTakesUp ==
    ASSUME RoutingInv, NEW w \in Wire, NEW seg, Takes("server", w, seg)
    PROVE  Routing'
  <1>1. Delivered("server", "client", w, seg) /\ TypeInv
    <2>1. PICK e \in End : e = "server"
      BY Ends
    <2>2. PICK p \in End : Delivered(e, p, w, seg)
      BY <2>1, TakesFacts DEF RoutingInv
    <2>3. p = "client"
      BY <2>1, <2>2 DEF Delivered, Peer
    <2> QED
      BY <2>1, <2>2, <2>3 DEF RoutingInv
  <1> DEFINE n == seg.num
             c == given[w]
             started(x) == sok'[<<"server", x>>].stage # "none"
  <1>2. /\ UNCHANGED <<idOf, wireOf, given, crossed>> /\ Fading
        /\ Shifted(w, "client") /\ seg = line[w]["client"][1]
        /\ \A v \in Wire : line'[v]["server"] = line[v]["server"]
        /\ n \in 1..Len(idOf) /\ seg.id = idOf[n] /\ seg.id \in Ids
        /\ wireOf[n] = w /\ OnLine("client", n) /\ c \in Context \ {0}
    BY <1>1, Ends, MainGiven DEF Delivered, Shifted
  <1>3. \/ seg.flag = "OPEN" /\ SetTo(c, seg.id, n)
        \/ seg.flag # "OPEN" /\ table' = table
        \/ seg.flag = "CLOS" /\ SetTo(c, seg.id, 0)
    <2>1. Owner("server", w) = given[w]
      BY DEF Owner
    <2> QED
      BY <1>1, <2>1 DEF Delivered
  <1>4. \A x \in 1..Len(idOf) :
          /\ started(x) <=> Started(x) \/ (seg.flag = "OPEN" /\ x = n)
          /\ \A f \in End : sok'[<<f, x>>].closed = sok[<<f, x>>].closed
          /\ wireOf[x] \in Wire /\ (Hale(wireOf[x])' => Hale(wireOf[x]))
    <2>1. \A x \in 1..Len(idOf) : wireOf[x] \in Wire
      BY <1>1, NumFacts
    <2>2. \A v \in Wire : Hale(v)' => Hale(v)
      BY <1>2 DEF Fading
    <2>3. \A x \in 1..Len(idOf) : Hale(wireOf[x])' => Hale(wireOf[x])
      BY <1>2, <2>1, <2>2
    <2> QED
      BY <1>1, <2>1, <2>3 DEF Delivered
  <1> HIDE DEF started, n, c
  <1>5. \A f \in End, x \in 1..Len(idOf) : OnLine(f, x)' => OnLine(f, x)
    BY <1>1, ShiftedOnLine, Ends DEF Delivered
  <1>6. \A m, x : Apart(m, x)' <=> Apart(m, x)
    BY <1>2 DEF Apart
  <1>7. LastSpeaks'
    <2> SUFFICES ASSUME NEW m \in 1..Len(idOf), NEW x \in 1..Len(idOf), Apart(m, x)
                 PROVE  /\ sok'[<<"client", m>>].closed
                        /\ OnLine("client", m)' => wireOf[m] = wireOf[x] /\ ~started(x)
      BY <1>2, <1>6 DEF LastSpeaks, Started, started
    <2>1. /\ sok[<<"client", m>>].closed
          /\ OnLine("client", m) => wireOf[m] = wireOf[x] /\ ~Started(x)
      BY DEF RoutingInv, Routing, LastSpeaks
    <2>2. ASSUME OnLine("client", m)', x = n PROVE FALSE
      <3>1. wireOf[m] = w
        BY <1>2, <1>5, <2>1, <2>2, Ends
      <3>2. PICK k \in 1..Len(line[w]["client"]) : 1 < k /\ line[w]["client"][k].num = m
        BY <1>1, <1>2, <2>2, <3>1, Ends, ShiftedOnLine
      <3>3. 1 \in 1..Len(line[w]["client"]) /\ line[w]["client"][1].num = x
        BY <1>2, <2>2 DEF Shifted, n
      <3> QED
        BY <3>2, <3>3 DEF RoutingInv, Routing, InOrder
    <2> QED
      BY <1>4, <1>5, <2>1, <2>2, Ends
  <1>8. RoutedDown'
    <2> SUFFICES ASSUME NEW x \in 1..Len(idOf),
                        ~sok'[<<"server", x>>].closed \/ OnLine("server", x)'
                 PROVE  table'[0][idOf[x]] = x
      BY <1>2 DEF RoutedDown
    <2>1. table[0][idOf[x]] = x
      BY <1>4, <1>5, Ends DEF RoutingInv, Routing, RoutedDown
    <2>2. idOf[x] \in Ids /\ 0 \in Context /\ c # 0
      BY <1>1, <1>2, NumFacts, Ranges
    <2> QED
      BY <1>3, <2>1, <2>2 DEF SetTo
  <1>9. InOrder'
    <2> SUFFICES ASSUME NEW v \in Wire, NEW j \in 1..Len(line'[v]["client"]),
                        NEW k \in 1..Len(line'[v]["client"]), j < k,
                        Apart(line'[v]["client"][k].num, line'[v]["client"][j].num)
                 PROVE  FALSE
      BY <1>6 DEF InOrder
    <2>1. CASE v = w
      <3>1. /\ j + 1 \in 1..Len(line[w]["client"]) /\ line'[w]["client"][j] = line[w]["client"][j + 1]
            /\ k + 1 \in 1..Len(line[w]["client"]) /\ line'[w]["client"][k] = line[w]["client"][k + 1]
        BY <1>2, <2>1 DEF Shifted
      <3>2. j + 1 < k + 1
        OBVIOUS
      <3> QED
        BY <2>1, <3>1, <3>2 DEF RoutingInv, Routing, InOrder
    <2>2. CASE v # w
      <3>1. line'[v]["client"] = line[v]["client"]
        BY <1>2, <2>2, Ends DEF Shifted
      <3> QED
        BY <3>1 DEF RoutingInv, Routing, InOrder
    <2> QED
      BY <2>1, <2>2
  <1>10. seg.flag = "OPEN" => started(n)
    BY <1>2, <1>4
  <1>11. \A x : OpenAt(line[w]["client"], x, 1) => seg.flag = "OPEN" /\ x = n
    BY <1>2 DEF OpenAt, n
  <1>12. ASSUME NEW v \in Wire, NEW k \in 1..Len(line'[v]["client"])
         PROVE  LET q == line'[v]["client"]
                IN  \/ q[k].flag = "OPEN" \/ started(q[k].num)
                    \/ \E j \in 1..(k - 1) : OpenAt(q, q[k].num, j)
    <2> DEFINE x == line'[v]["client"][k].num
    <2>1. PICK k0 \in 1..Len(line[v]["client"]) :
            /\ line'[v]["client"][k] = line[v]["client"][k0]
            /\ \A j \in 1..(k0 - 1) : OpenAt(line[v]["client"], x, j) =>
                 \/ v = w /\ OpenAt(line[w]["client"], x, 1)
                 \/ \E i \in 1..(k - 1) : OpenAt(line'[v]["client"], x, i)
      <3> HIDE DEF x
      <3> QED
        BY <1>1, <1>2, ShiftedOpen
    <2>2. /\ line[v]["client"][k0].num = x /\ x \in 1..Len(idOf)
          /\ line'[v]["client"][k].flag = line[v]["client"][k0].flag
      BY <1>1, <2>1, Ends, SegmentSocket
    <2>3. \/ line[v]["client"][k0].flag = "OPEN" \/ Started(x)
          \/ \E j \in 1..(k0 - 1) : OpenAt(line[v]["client"], x, j)
      BY <2>2 DEF RoutingInv, Routing, OpenFirst
    <2> HIDE DEF x
    <2>4. \/ line'[v]["client"][k].flag = "OPEN" \/ started(x)
          \/ \E j \in 1..(k - 1) : OpenAt(line'[v]["client"], x, j)
      BY <1>4, <1>10, <1>11, <2>1, <2>2, <2>3
    <2> QED
      BY <2>4 DEF x
  <1>13. ASSUME NEW x \in 1..Len(idOf), Hale(wireOf[x])', ~sok'[<<"client", x>>].closed
         PROVE  \/ started(x)
                \/ \E j \in 1..Len(line'[wireOf[x]]["client"]) :
                     OpenAt(line'[wireOf[x]]["client"], x, j)
    <2>1. PICK v \in Wire : v = wireOf[x]
      BY <1>4
    <2>2. Started(x) \/ \E j \in 1..Len(line[v]["client"]) : OpenAt(line[v]["client"], x, j)
      BY <1>4, <1>13, <2>1, Ends DEF RoutingInv, Routing, OpenFirst
    <2>3. \A j \in 1..Len(line[v]["client"]) : OpenAt(line[v]["client"], x, j) =>
            \/ v = w /\ OpenAt(line[w]["client"], x, 1)
            \/ \E i \in 1..Len(line'[v]["client"]) : OpenAt(line'[v]["client"], x, i)
      BY <1>1, <1>2, ShiftedOpen
    <2> QED
      BY <1>4, <1>10, <1>11, <2>1, <2>2, <2>3
  <1>14. OpenFirst'
    BY <1>2, <1>12, <1>13 DEF OpenFirst, OpenAt, Started, started
  <1>15. ASSUME NEW x \in 1..Len(idOf), x \notin crossed, started(x),
                OnLine("client", x)' \/ ~sok'[<<"client", x>>].closed
         PROVE  table'[given[wireOf[x]]][idOf[x]] = x
    <2>1. OnLine("client", x)' \/ ~sok[<<"client", x>>].closed
      BY <1>4, <1>15, Ends
    <2>2. CASE seg.flag = "OPEN" /\ x = n
      BY <1>2, <1>3, <2>2 DEF SetTo, c
    <2>3. CASE ~(seg.flag = "OPEN" /\ x = n)
      <3>1. Started(x)
        BY <1>4, <1>15, <2>3
      <3>2. table[given[wireOf[x]]][idOf[x]] = x
        BY <1>5, <1>15, <2>1, <3>1, Ends DEF RoutingInv, Routing, RoutedUp
      <3>3. given[wireOf[x]] \in Context /\ idOf[x] \in Ids
        BY <1>1, <3>1, StartedGiven
      <3>4. CASE x # n /\ idOf[x] = seg.id
        BY <1>1, <1>15, <2>1, <3>1, <3>4, Alone DEF n
      <3>5. CASE x = n /\ seg.flag = "CLOS"
        <4>1. sok[<<"client", n>>].closed /\ ~OnLine("client", n)'
          BY <1>1, <3>5 DEF Delivered, n
        <4> QED
          BY <2>1, <3>5, <4>1
      <3>6. CASE idOf[x] # seg.id
        BY <1>3, <3>2, <3>3, <3>6 DEF SetTo
      <3>7. CASE x = n /\ table' = table
        BY <3>2, <3>7
      <3> QED
        BY <1>3, <2>3, <3>4, <3>5, <3>6, <3>7
    <2> QED
      BY <2>2, <2>3
  <1>16. ASSUME NEW d \in Context \ {0}, NEW i \in Ids, table'[d][i] # 0
         PROVE  /\ started(table'[d][i])
                /\ \A x \in 1..Len(idOf) :
                     started(x) /\ given[wireOf[x]] = d => ~Apart(table'[d][i], x)
    <2>1. CASE seg.flag = "OPEN" /\ d = c /\ i = seg.id
      <3>1. table'[d][i] = n
        BY <1>3, <2>1 DEF SetTo
      <3>2. ASSUME NEW x \in 1..Len(idOf), started(x), Apart(n, x) PROVE FALSE
        <4>1. x # n
          <5>1. n < x /\ n \in Nat
            BY <1>1, <1>2, <3>2, NumFacts DEF Apart
          <5> QED
            BY <5>1
        <4>2. Started(x)
          BY <1>4, <3>2, <4>1
        <4> QED
          BY <1>2, <3>2, <4>2 DEF RoutingInv, Routing, LastSpeaks
      <3> QED
        BY <1>10, <2>1, <3>1, <3>2
    <2>2. CASE ~(seg.flag = "OPEN" /\ d = c /\ i = seg.id)
      <3>1. table'[d][i] = table[d][i]
        BY <1>3, <1>16, <2>2 DEF SetTo
      <3>2. PICK m \in 1..Len(idOf) : m = table[d][i]
        <4>1. table[d][i] \in 0..Len(idOf) /\ Len(idOf) \in Nat
          BY <1>1, NumFacts DEF TypeInv, Types
        <4> QED
          BY <1>16, <3>1, <4>1
      <3>3. /\ Started(m) /\ idOf[m] = i
            /\ \A x \in 1..Len(idOf) : Started(x) /\ given[wireOf[x]] = d => ~Apart(m, x)
        <4>1. idOf[m] = i
          BY <1>1, <1>16, <3>1, <3>2 DEF TypeInv, Known, KnownEntries
        <4> QED
          BY <1>16, <3>1, <3>2, <4>1 DEF RoutingInv, Routing, RoutedUp
      <3>4. ASSUME NEW x \in 1..Len(idOf), started(x), given[wireOf[x]] = d, Apart(m, x)
            PROVE  FALSE
        <4>1. seg.flag = "OPEN" /\ x = n
          BY <1>4, <3>3, <3>4
        <4>2. d = c /\ i = seg.id
          BY <1>2, <3>3, <3>4, <4>1 DEF Apart, c
        <4> QED
          BY <2>2, <4>1, <4>2
      <3>5. started(m)
        BY <1>4, <3>3
      <3> QED
        BY <3>1, <3>2, <3>4, <3>5
    <2> QED
      BY <2>1, <2>2
  <1>17. RoutedUp'
    BY <1>2, <1>6, <1>15, <1>16 DEF RoutedUp, Started, started
  <1> QED
    BY <1>7, <1>8, <1>9, <1>14, <1>17 DEF Routing

\* Tunnel: the new tunnel is the last of its id, and its OPEN the last of the wire.
LEMMA RoutingDraws ==
    ASSUME RoutingInv, NEW i \in Ids, NEW w \in Wire, Draws(i, w)
    PROVE  Routing'
  <1>1. PICK n \in Nums, open \in SegmentRec : Drew(i, w, n, open)
    BY DrawsFacts DEF RoutingInv
  <1>2. /\ TypeInv /\ n \notin 1..Len(idOf) /\ n = Len(idOf) + 1 /\ n > 0
        /\ open.flag = "OPEN" /\ open.num = n /\ Packed(w, "client", open)
        /\ idOf'[n] = i /\ wireOf'[n] = w /\ n \in 1..Len(idOf')
        /\ \A k \in 1..Len(idOf') : k = n \/ k \in 1..Len(idOf)
        /\ UNCHANGED <<sub, cut, given>> /\ sub["client"][w].stage = "live"
        /\ table[0][i] = 0 /\ SetTo(0, i, n) /\ \A k \in crossed : k \in crossed'
    BY <1>1, Ranges DEF RoutingInv, Drew, Draws
  <1> DEFINE started(x) == sok'[<<"server", x>>].stage # "none"
  <1>3. \A x \in 1..Len(idOf) :
          /\ started(x) <=> Started(x)
          /\ \A f \in End : sok'[<<f, x>>].closed = sok[<<f, x>>].closed
          /\ idOf'[x] = idOf[x] /\ wireOf'[x] = wireOf[x] /\ wireOf[x] \in Wire
          /\ x \in Nat /\ x < n /\ x # n /\ x # 0
    <2>1. \A x \in 1..Len(idOf) : /\ wireOf[x] \in Wire /\ \A f \in End : <<f, x>> \in Sockets
                                  /\ x \in Nat /\ x < n /\ x # n /\ x # 0
      BY <1>2, NumFacts
    <2>2. \A t \in Sockets : t # <<"client", n>> => sok'[t] = sok[t]
      BY <1>1 DEF Drew
    <2>3. \A x \in 1..Len(idOf) : \A f \in End : sok'[<<f, x>>] = sok[<<f, x>>]
      BY <2>1, <2>2
    <2>4. \A x \in 1..Len(idOf) : idOf'[x] = idOf[x] /\ wireOf'[x] = wireOf[x]
      BY <1>1 DEF Drew
    <2> QED
      BY <2>1, <2>3, <2>4, Ends DEF Started
  <1>4. ~started(n)
    <2>1. <<"server", n>> \in Sockets /\ sok[<<"server", n>>] = NewSocket
      BY <1>1, Ends DEF Drew
    <2>2. sok'[<<"server", n>>] = NewSocket
      BY <1>1, <2>1 DEF Drew
    <2> QED
      BY <2>2 DEF NewSocket
  <1> HIDE DEF started
  <1> DEFINE apart(m, x) == m < x /\ idOf'[m] = idOf'[x] /\ (m \notin crossed' \/ x \notin crossed')
  <1>5. \A f \in End, x \in 1..Len(idOf) : OnLine(f, x)' => OnLine(f, x)
    BY <1>2, <1>3, PackedOnLine, Ends
  <1>6. ASSUME NEW m \in 1..Len(idOf), NEW x \in 1..Len(idOf), apart(m, x)
        PROVE  Apart(m, x)
    BY <1>2, <1>3, <1>6 DEF Apart
  <1>7. ASSUME NEW m \in 1..Len(idOf), apart(m, n)
        PROVE  /\ sok[<<"client", m>>].closed
               /\ OnLine("client", m) => wireOf[m] = w
    <2>1. idOf[m] = i /\ (m \notin crossed' \/ n \notin crossed')
      BY <1>2, <1>3, <1>7
    <2> QED
      BY <1>2, <2>1 DEF Draws
  <1>8. \A m : m \in 1..Len(idOf) => ~apart(n, m)
    <2>1. \A m : m \in 1..Len(idOf) => ~(n < m)
      BY <1>2, NumFacts
    <2> QED
      BY <2>1
  <1>9. ~apart(n, n)
    <2>1. ~(n < n)
      BY <1>2, NumFacts
    <2> QED
      BY <2>1
  <1> HIDE DEF apart
  <1>10. LastSpeaks'
    <2> SUFFICES ASSUME NEW m \in 1..Len(idOf'), NEW x \in 1..Len(idOf'), apart(m, x)
                 PROVE  /\ sok'[<<"client", m>>].closed
                        /\ OnLine("client", m)' => wireOf'[m] = wireOf'[x] /\ ~started(x)
      BY DEF LastSpeaks, Started, started, Apart, apart
    <2>1. m \in 1..Len(idOf)
      BY <1>2, <1>8, <1>9
    <2>2. CASE x \in 1..Len(idOf)
      <3>1. /\ sok[<<"client", m>>].closed
            /\ OnLine("client", m) => wireOf[m] = wireOf[x] /\ ~Started(x)
        BY <1>6, <2>1, <2>2 DEF RoutingInv, Routing, LastSpeaks
      <3> QED
        BY <1>3, <1>5, <2>1, <2>2, <3>1, Ends
    <2>3. CASE x = n
      BY <1>2, <1>3, <1>4, <1>5, <1>7, <2>1, <2>3, Ends
    <2> QED
      BY <1>2, <2>2, <2>3
  <1>11. RoutedDown'
    <2> SUFFICES ASSUME NEW x \in 1..Len(idOf'),
                        ~sok'[<<"server", x>>].closed \/ OnLine("server", x)'
                 PROVE  table'[0][idOf'[x]] = x
      BY DEF RoutedDown
    <2>1. CASE x \in 1..Len(idOf)
      <3>1. table[0][idOf[x]] = x
        BY <1>3, <1>5, <2>1, Ends DEF RoutingInv, Routing, RoutedDown
      <3>2. idOf[x] # i
        BY <1>2, <1>3, <2>1, <3>1
      <3>3. idOf[x] \in Ids /\ 0 \in Context
        BY <1>2, <2>1, NumFacts, Ranges
      <3> QED
        BY <1>2, <1>3, <2>1, <3>1, <3>2, <3>3 DEF SetTo
    <2>2. CASE x = n
      BY <1>2, <2>2, Ranges DEF SetTo
    <2> QED
      BY <1>2, <2>1, <2>2
  <1> DEFINE new(v, k) == /\ v = w /\ Carries(w, "client")
                          /\ k = Len(line[w]["client"]) + 1 /\ line'[v]["client"][k] = open
             old(v, k) == k \in 1..Len(line[v]["client"]) /\ line'[v]["client"][k] = line[v]["client"][k]
  <1>12. \A v \in Wire : \A k \in 1..Len(line'[v]["client"]) : old(v, k) \/ new(v, k)
    BY <1>2, Ends DEF Packed
  <1>13. InOrder'
    <2> SUFFICES ASSUME NEW v \in Wire, NEW j \in 1..Len(line'[v]["client"]),
                        NEW k \in 1..Len(line'[v]["client"]), j < k,
                        apart(line'[v]["client"][k].num, line'[v]["client"][j].num)
                 PROVE  FALSE
      BY DEF InOrder, Apart, apart
    <2>1. CASE old(v, j) /\ old(v, k)
      <3>1. /\ line[v]["client"][j].num \in 1..Len(idOf)
            /\ line[v]["client"][k].num \in 1..Len(idOf)
        BY <1>2, <2>1, Ends, SegmentSocket
      <3>2. Apart(line[v]["client"][k].num, line[v]["client"][j].num)
        BY <1>6, <2>1, <3>1
      <3> QED
        BY <2>1, <3>2 DEF RoutingInv, Routing, InOrder
    <2>2. CASE old(v, j) /\ new(v, k)
      <3>1. line[v]["client"][j].num \in 1..Len(idOf)
        BY <1>2, <2>2, Ends, SegmentSocket
      <3> QED
        BY <1>2, <1>8, <2>2, <3>1
    <2>3. CASE new(v, j)
      BY <1>2, <1>12, <2>3, Lengths, Ends
    <2> QED
      BY <1>12, <2>1, <2>2, <2>3, Ends
  <1>14. ASSUME NEW v \in Wire, NEW k \in 1..Len(line'[v]["client"])
         PROVE  LET q == line'[v]["client"]
                IN  \/ q[k].flag = "OPEN" \/ started(q[k].num)
                    \/ \E j \in 1..(k - 1) : OpenAt(q, q[k].num, j)
    <2>1. CASE old(v, k)
      <3>1. PICK x \in 1..Len(idOf) : x = line[v]["client"][k].num
        BY <1>2, <2>1, Ends, SegmentSocket
      <3>2. \/ line[v]["client"][k].flag = "OPEN" \/ Started(x)
            \/ \E j \in 1..(k - 1) : OpenAt(line[v]["client"], x, j)
        BY <2>1, <3>1 DEF RoutingInv, Routing, OpenFirst
      <3>3. \A j \in 1..(k - 1) : OpenAt(line[v]["client"], x, j) => OpenAt(line'[v]["client"], x, j)
        BY <1>2, <2>1, PackedOpen
      <3> QED
        BY <1>3, <2>1, <3>1, <3>2, <3>3
    <2>2. CASE new(v, k)
      BY <1>2, <2>2
    <2> QED
      BY <1>12, <2>1, <2>2
  <1>15. ASSUME NEW x \in 1..Len(idOf'), Hale(wireOf'[x]), ~sok'[<<"client", x>>].closed
         PROVE  \/ started(x)
                \/ \E j \in 1..Len(line'[wireOf'[x]]["client"]) :
                     OpenAt(line'[wireOf'[x]]["client"], x, j)
    <2>1. CASE x \in 1..Len(idOf)
      <3>1. PICK v \in Wire : v = wireOf[x] /\ v = wireOf'[x]
        BY <1>3, <2>1
      <3>2. Hale(v)
        BY <1>15, <3>1
      <3>3. Started(x) \/ \E j \in 1..Len(line[v]["client"]) : OpenAt(line[v]["client"], x, j)
        BY <1>3, <1>15, <2>1, <3>1, <3>2, Ends DEF RoutingInv, Routing, OpenFirst
      <3>4. \A j \in 1..Len(line[v]["client"]) :
              /\ j \in 1..Len(line'[v]["client"])
              /\ OpenAt(line[v]["client"], x, j) => OpenAt(line'[v]["client"], x, j)
        BY <1>2, PackedOpen
      <3> QED
        BY <1>3, <2>1, <3>1, <3>3, <3>4
    <2>2. CASE x = n
      <3>1. wireOf'[x] = w
        BY <1>2, <2>2
      <3>2. Carries(w, "client")
        <4>1. w \notin cut /\ \A e \in End : sub[e][w].open \/ sub[e][w].stage = "none"
          BY <1>15, <3>1 DEF Hale
        <4> QED
          BY <1>2, <4>1, Ends DEF Carries
      <3>3. PICK k \in 1..Len(line'[w]["client"]) : line'[w]["client"][k] = open
        BY <1>2, <3>2 DEF Packed
      <3>4. OpenAt(line'[w]["client"], x, k)
        BY <1>2, <2>2, <3>3 DEF OpenAt
      <3> QED
        BY <3>1, <3>4
    <2> QED
      BY <1>2, <2>1, <2>2
  <1>16. OpenFirst'
    <2>2. \A x \in 1..Len(idOf') : Hale(wireOf'[x]) /\ ~sok'[<<"client", x>>].closed =>
            \/ started(x)
            \/ \E j \in 1..Len(line'[wireOf'[x]]["client"]) :
                 OpenAt(line'[wireOf'[x]]["client"], x, j)
      BY <1>15
    <2>3. UNCHANGED <<sub, cut>>
      BY <1>2
    <2> QED
      BY <1>14, <2>2, <2>3 DEF OpenFirst, OpenAt, Started, started, Hale
  <1>17. ASSUME NEW x \in 1..Len(idOf'), x \notin crossed', started(x),
                OnLine("client", x)' \/ ~sok'[<<"client", x>>].closed
         PROVE  table'[given'[wireOf'[x]]][idOf'[x]] = x
    <2>1. x \in 1..Len(idOf) /\ x \notin crossed
      BY <1>2, <1>4, <1>17
    <2>2. Started(x) /\ (OnLine("client", x) \/ ~sok[<<"client", x>>].closed)
      BY <1>3, <1>5, <1>17, <2>1, Ends
    <2>3. table[given[wireOf[x]]][idOf[x]] = x
      BY <2>1, <2>2 DEF RoutingInv, Routing, RoutedUp
    <2>4. given[wireOf[x]] \in Context /\ given[wireOf[x]] # 0 /\ idOf[x] \in Ids
      BY <1>2, <2>1, <2>2, StartedGiven
    <2>5. table'[given[wireOf[x]]][idOf[x]] = x
      BY <1>2, <2>3, <2>4 DEF SetTo
    <2> QED
      BY <1>2, <1>3, <2>1, <2>5
  <1>18. ASSUME NEW d \in Context \ {0}, NEW k \in Ids, table'[d][k] # 0
         PROVE  /\ started(table'[d][k])
                /\ \A x \in 1..Len(idOf') :
                     started(x) /\ given'[wireOf'[x]] = d => ~apart(table'[d][k], x)
    <2>1. table'[d][k] = table[d][k]
      BY <1>2 DEF SetTo
    <2>2. PICK m \in 1..Len(idOf) : m = table[d][k]
      <3>1. table[d][k] \in 0..Len(idOf) /\ Len(idOf) \in Nat
        BY <1>2, NumFacts DEF TypeInv, Types
      <3> QED
        BY <1>18, <2>1, <3>1
    <2>3. Started(m) /\ \A x \in 1..Len(idOf) : Started(x) /\ given[wireOf[x]] = d => ~Apart(m, x)
      BY <1>18, <2>1, <2>2 DEF RoutingInv, Routing, RoutedUp
    <2>4. ASSUME NEW x \in 1..Len(idOf'), started(x), given'[wireOf'[x]] = d, apart(m, x)
          PROVE  FALSE
      <3>1. x \in 1..Len(idOf)
        BY <1>2, <1>4, <2>4
      <3>2. Apart(m, x) /\ Started(x) /\ given[wireOf[x]] = d
        BY <1>2, <1>3, <1>6, <2>4, <3>1
      <3> QED
        BY <2>3, <3>1, <3>2
    <2> QED
      BY <1>3, <2>1, <2>2, <2>3, <2>4
  <1>19. RoutedUp'
    BY <1>17, <1>18 DEF RoutedUp, Started, started, Apart, apart
  <1> QED
    BY <1>10, <1>11, <1>13, <1>16, <1>19 DEF Routing

LEMMA RoutingStep ==
    ASSUME RoutingInv, [Next]_vars
    PROVE  RoutingInv'
  <1>1. TypeInv' /\ Silence'
    BY Steps, SilenceStep DEF RoutingInv
  <1>2. ASSUME Quiet PROVE Routing'
    BY <1>2, RoutingKept DEF Quiet, Still
  <1>3. ASSUME NEW s \in Sockets, Reads(s) PROVE Routing'
    <2>1. \A t \in Sockets : /\ sok'[t].stage = "none" <=> sok[t].stage = "none"
                             /\ sok'[t].closed = sok[t].closed
      BY <1>3 DEF Reads, Still
    <2>2. UNCHANGED <<idOf, wireOf, table, line, crossed>> /\ Fading
      BY <1>3, ContextFades DEF Reads
    <2> QED
      BY <2>1, <2>2, RoutingKept
  <1>4. ASSUME NEW e \in End, NEW w \in Wire, NEW seg, Takes(e, w, seg) PROVE Routing'
    <2>1. e = "client" \/ e = "server"
      BY DEF End
    <2> QED
      BY <1>4, <2>1, RoutingTakesDown, RoutingTakesUp
  <1>5. \/ Quiet
        \/ \E s \in Sockets : Reads(s) \/ \E seg : Sends(s, seg)
        \/ \E e \in End, w \in Wire : \E seg : Takes(e, w, seg)
        \/ \E i \in Ids, w \in Wire : Draws(i, w)
    BY Steps DEF RoutingInv
  <1>6. Routing'
    BY <1>2, <1>3, <1>4, <1>5, RoutingSends, RoutingDraws
  <1> QED
    BY <1>1, <1>6 DEF RoutingInv

LEMMA InitRouting == Init => RoutingInv
  <1> SUFFICES ASSUME Init PROVE RoutingInv
    OBVIOUS
  <1>1. TypeInv /\ Silence
    BY InitTypeInv, InitSilence
  <1>2. idOf = <<>> /\ Len(idOf) = 0
    BY DEF Init
  <1>3. \A w \in Wire : Len(line[w]["client"]) = 0
    BY Ends DEF Init
  <1>4. \A c \in Context, i \in Ids : table[c][i] = 0
    BY DEF Init
  <1>5. LastSpeaks /\ RoutedDown
    BY <1>2 DEF LastSpeaks, RoutedDown
  <1>6. InOrder /\ OpenFirst
    BY <1>2, <1>3 DEF InOrder, OpenFirst
  <1>7. RoutedUp
    BY <1>2, <1>4 DEF RoutedUp
  <1> QED
    BY <1>1, <1>5, <1>6, <1>7 DEF RoutingInv, Routing

-----------------------------------------------------------------------------
(* What comes to a socket *)

LEMMA SocketLengths ==
    ASSUME NEW r \in SocketRec
    PROVE  Len(r.got) \in Nat /\ Len(r.incoming) \in Nat
  <1>1. r.got \in Seq(Nums \X Nat) /\ r.incoming \in Seq(SegmentRec)
    BY DEF SocketRec
  <1>2. Len(r.got) \in Nat
    BY <1>1, LenProperties
  <1>3. Len(r.incoming) \in Nat
    BY <1>1, LenProperties
  <1> QED
    BY <1>2, <1>3

\* A Read takes socket r to q.
ReadOff(r, q) ==
    /\ Len(r.incoming) > 0
    /\ Len(q.incoming) = Len(r.incoming) - 1
    /\ \A k \in 1..(Len(r.incoming) - 1) : q.incoming[k] = r.incoming[k + 1]
    /\ Len(q.got) = Len(r.got) + 1
    /\ \A k \in 1..Len(r.got) : q.got[k] = r.got[k]
    /\ \/ /\ r.incoming[1].flag = "DATA"
          /\ q.got[Len(r.got) + 1] = <<r.incoming[1].num, r.incoming[1].pos>>
       \/ /\ r.incoming[1].flag = "CLOS"
          /\ q.got[Len(r.got) + 1] = <<r.incoming[1].num, 0>>

\* A Read moves what has come, and changes neither how much that is nor whether
\* it is all.
LEMMA ReadKeeps ==
    ASSUME NEW r \in SocketRec, NEW q \in SocketRec, NEW p \in SocketRec, NEW n \in Nat,
           Received(r, p, n), ReadOff(r, q)
    PROVE  Received(q, p, n) /\ Arrived(q) = Arrived(r) /\ (Ended(q) <=> Ended(r))
  <1>1. PICK G \in Nat, I \in Nat :
          /\ Len(r.got) = G /\ Len(r.incoming) = I /\ I > 0
          /\ Len(q.got) = G + 1 /\ Len(q.incoming) = I - 1
    BY SocketLengths DEF ReadOff
  <1>0. /\ \A k \in 1..(I - 1) : q.incoming[k] = r.incoming[k + 1]
        /\ \A k \in 1..G : q.got[k] = r.got[k]
        /\ \/ /\ r.incoming[1].flag = "DATA"
              /\ q.got[G + 1] = <<r.incoming[1].num, r.incoming[1].pos>>
           \/ /\ r.incoming[1].flag = "CLOS"
              /\ q.got[G + 1] = <<r.incoming[1].num, 0>>
    BY <1>1 DEF ReadOff
  <1>2. Arrived(q) = Arrived(r)
    <2>1. Arrived(r) = G + I /\ Arrived(q) = (G + 1) + (I - 1)
      BY <1>1 DEF Arrived
    <2> QED
      BY <2>1
  <1>3. /\ \A k \in 1..G : r.got[k] = <<n, k>>
        /\ \A k \in 1..I :
             /\ r.incoming[k].num = n
             /\ \/ r.incoming[k].flag = "DATA" /\ r.incoming[k].pos = G + k
                \/ r.incoming[k].flag = "CLOS" /\ k = I
    BY <1>1 DEF Received
  <1>4. 1 \in 1..I /\ I \in 1..I /\ G + 1 \in 1..(G + 1)
    BY <1>1
  <1>5. \/ r.incoming[1].flag = "DATA" /\ q.got[G + 1] = <<n, G + 1>>
        \/ r.incoming[1].flag = "CLOS" /\ I = 1 /\ q.got[G + 1] = <<n, 0>>
    <2>1. r.incoming[1].num = n /\ (r.incoming[1].flag = "DATA" => r.incoming[1].pos = G + 1)
      BY <1>3, <1>4
    <2>2. r.incoming[1].flag = "CLOS" => I = 1
      BY <1>3, <1>4
    <2> QED
      BY <1>0, <2>1, <2>2
  <1>6. Ended(r) <=> r.incoming[I].flag = "CLOS"
    <2>1. ASSUME G > 0 PROVE r.got[G][2] # 0
      <3>1. G \in 1..G
        BY <2>1
      <3>2. r.got[G] = <<n, G>>
        BY <1>3, <3>1
      <3> QED
        BY <2>1, <3>2
    <2> QED
      BY <1>1, <2>1 DEF Ended
  <1>7. Ended(q) <=> q.got[G + 1][2] = 0 \/ (I > 1 /\ q.incoming[I - 1].flag = "CLOS")
    BY <1>1 DEF Ended
  <1>8. I > 1 => q.incoming[I - 1] = r.incoming[I]
    <2>1. I > 1 => I - 1 \in 1..(I - 1) /\ (I - 1) + 1 = I
      OBVIOUS
    <2> QED
      BY <1>0, <2>1
  <1>9. CASE r.incoming[1].flag = "DATA" /\ q.got[G + 1] = <<n, G + 1>>
    <2>1. q.got[G + 1][2] # 0
      BY <1>1, <1>9
    <2>2. Ended(q) <=> Ended(r)
      BY <1>1, <1>6, <1>7, <1>8, <1>9, <2>1
    <2>3. \A k \in 1..(G + 1) : q.got[k] = <<n, k>>
      <3>1. \A k \in 1..(G + 1) : k \in 1..G \/ k = G + 1
        OBVIOUS
      <3>2. \A k \in 1..G : q.got[k] = <<n, k>>
        BY <1>0, <1>3
      <3> QED
        BY <1>9, <3>1, <3>2
    <2>4. ASSUME NEW k \in 1..(I - 1)
          PROVE  /\ q.incoming[k].num = n
                 /\ \/ q.incoming[k].flag = "DATA" /\ q.incoming[k].pos = (G + 1) + k
                    \/ q.incoming[k].flag = "CLOS" /\ k = I - 1
      <3>1. q.incoming[k] = r.incoming[k + 1]
        BY <1>0
      <3>2. k + 1 \in 1..I /\ G + (k + 1) = (G + 1) + k /\ (k + 1 = I => k = I - 1)
        OBVIOUS
      <3> QED
        BY <1>3, <3>1, <3>2
    <2>5. Received(q, p, n)
      BY <1>1, <1>2, <2>2, <2>3, <2>4 DEF Received
    <2> QED
      BY <1>2, <2>2, <2>5
  <1>10. CASE r.incoming[1].flag = "CLOS" /\ I = 1 /\ q.got[G + 1] = <<n, 0>>
    <2>1. Ended(q) /\ Ended(r)
      BY <1>6, <1>7, <1>10
    <2>2. \A k \in 1..(G + 1) : q.got[k] = <<n, k>> \/ (q.got[k] = <<n, 0>> /\ k = G + 1)
      BY <1>0, <1>1, <1>3, <1>10
    <2>3. Received(q, p, n)
      BY <1>1, <1>2, <1>10, <2>1, <2>2 DEF Received
    <2> QED
      BY <1>2, <2>1, <2>3
  <1> QED
    BY <1>5, <1>9, <1>10

\* Neither DATA nor CLOS of tunnel n
Alien(x, n) == ~(x.num = n /\ x.flag \in {"DATA", "CLOS"})

\* What does not concern a tunnel may be written behind what is to come ...
LEMMA ComingBeforeAlien ==
    ASSUME NEW r, NEW sent, NEW w \in Seq(SegmentRec), NEW n, NEW c,
           NEW x \in SegmentRec, Alien(x, n), Coming(r, sent, w, n, c)
    PROVE  Coming(r, sent, Append(w, x), n, c)
  <1> DEFINE v == Append(w, x)
  <1>1. /\ Len(w) \in Nat /\ Len(v) = Len(w) + 1
        /\ \A k \in 1..Len(w) : k \in 1..Len(v) /\ v[k] = w[k]
        /\ v[Len(w) + 1] = x
    BY AppendProperties
  <1> HIDE DEF v
  <1>2. \A k \in 1..Len(v) : Data(v, n, k) \/ (v[k].flag = "CLOS" /\ v[k].num = n)
          => k \in 1..Len(w) /\ v[k] = w[k]
    BY <1>1 DEF Alien, Data
  <1>3. \A k \in 1..Len(w) : Data(v, n, k) <=> Data(w, n, k)
    BY <1>1 DEF Data
  <1>4. CASE Ended(r)
    <2>1. \A k \in 1..Len(v) : v[k].num = n => v[k].flag \notin {"DATA", "CLOS"}
      BY <1>2, <1>4 DEF Coming, Data
    <2> QED
      BY <1>4, <2>1 DEF Coming, v
  <1>5. CASE ~Ended(r)
    <2>1. ASSUME NEW k \in Nat, k <= Len(w), NEW i, UpTo(r, w, n, k, i) PROVE UpTo(r, v, n, k, i)
      <3>1. \A j \in 1..k : j \in 1..Len(w)
        BY <1>1, <2>1
      <3> QED
        BY <1>1, <1>3, <2>1, <3>1 DEF UpTo
    <2>2. ASSUME NEW i, UpTo(r, w, n, Len(w), i) PROVE UpTo(r, v, n, Len(v), i)
      BY <1>1, <1>3, <2>2 DEF UpTo
    <2>3. \A k \in 1..Len(w) : k - 1 \in Nat /\ k - 1 <= Len(w)
      BY <1>1
    <2>4. \A k \in 1..Len(v) : Data(v, n, k) =>
                /\ Arrived(r) < v[k].pos /\ v[k].pos <= sent
                /\ UpTo(r, v, n, k - 1, v[k].pos - 1)
      BY <1>2, <1>3, <1>5, <2>1, <2>3 DEF Coming
    <2>5. \A j, k \in 1..Len(v) :
                j < k /\ Data(v, n, j) /\ Data(v, n, k) => v[j].pos < v[k].pos
      BY <1>2, <1>3, <1>5 DEF Coming
    <2>6. \A k \in 1..Len(v) :
                v[k].flag = "CLOS" /\ v[k].num = n => UpTo(r, v, n, k - 1, sent)
      BY <1>2, <1>5, <2>1, <2>3 DEF Coming
    <2>7. c => UpTo(r, v, n, Len(v), sent)
      BY <1>5, <2>2 DEF Coming
    <2> QED
      BY <1>5, <2>4, <2>5, <2>6, <2>7 DEF Coming, v
  <1> QED
    BY <1>4, <1>5

\* ... and so may CLOS, when all that its writer has sent is out ...
LEMMA ComingBeforeClos ==
    ASSUME NEW r, NEW sent, NEW w \in Seq(SegmentRec), NEW n,
           NEW x \in SegmentRec, x.flag = "CLOS", x.num = n,
           ~Ended(r), Coming(r, sent, w, n, TRUE)
    PROVE  Coming(r, sent, Append(w, x), n, TRUE)
  <1> DEFINE v == Append(w, x)
  <1>1. /\ Len(w) \in Nat /\ Len(v) = Len(w) + 1
        /\ \A k \in 1..Len(w) : k \in 1..Len(v) /\ v[k] = w[k]
        /\ v[Len(w) + 1] = x
        /\ \A k \in 1..Len(v) : k \in 1..Len(w) \/ k = Len(w) + 1
    BY AppendProperties
  <1> HIDE DEF v
  <1>2. \A k \in 1..Len(v) : Data(v, n, k) => k \in 1..Len(w) /\ v[k] = w[k]
    BY <1>1 DEF Data
  <1>3. \A k \in 1..Len(w) : Data(v, n, k) <=> Data(w, n, k)
    BY <1>1 DEF Data
  <1>4. ASSUME NEW k \in Nat, k <= Len(w), NEW i, UpTo(r, w, n, k, i) PROVE UpTo(r, v, n, k, i)
    <2>1. \A j \in 1..k : j \in 1..Len(w)
      BY <1>1, <1>4
    <2> QED
      BY <1>1, <1>3, <1>4, <2>1 DEF UpTo
  <1>5. \A k \in 1..Len(w) : k - 1 \in Nat /\ k - 1 <= Len(w)
    BY <1>1
  <1>6. \A k \in 1..Len(v) : Data(v, n, k) =>
              /\ Arrived(r) < v[k].pos /\ v[k].pos <= sent
              /\ UpTo(r, v, n, k - 1, v[k].pos - 1)
    BY <1>2, <1>3, <1>4, <1>5 DEF Coming
  <1>7. \A j, k \in 1..Len(v) :
              j < k /\ Data(v, n, j) /\ Data(v, n, k) => v[j].pos < v[k].pos
    BY <1>2, <1>3 DEF Coming
  <1>8. UpTo(r, v, n, Len(w), sent)
    BY <1>1, <1>4 DEF Coming
  <1>9. UpTo(r, v, n, Len(v), sent)
    BY <1>1, <1>8 DEF UpTo
  <1>10. \A k \in 1..Len(v) :
              v[k].flag = "CLOS" /\ v[k].num = n => UpTo(r, v, n, k - 1, sent)
    <2>1. \A k \in 1..Len(w) :
              v[k].flag = "CLOS" /\ v[k].num = n => UpTo(r, v, n, k - 1, sent)
      BY <1>1, <1>4, <1>5 DEF Coming
    <2>2. (Len(w) + 1) - 1 = Len(w)
      BY <1>1
    <2> QED
      BY <1>1, <1>8, <2>1, <2>2
  <1> QED
    BY <1>6, <1>7, <1>9, <1>10 DEF Coming, v

\* ... and the next DATA of the tunnel, as long as no CLOS of it is out.
LEMMA ComingBeforeData ==
    ASSUME NEW r \in SocketRec, NEW sent \in Nat, NEW w \in Seq(SegmentRec), NEW n,
           NEW x \in SegmentRec, x.flag = "DATA", x.num = n, x.pos = sent + 1,
           ~Ended(r), Arrived(r) <= sent, Coming(r, sent, w, n, TRUE),
           \A k \in 1..Len(w) : w[k].flag = "CLOS" => w[k].num # n
    PROVE  Coming(r, sent + 1, Append(w, x), n, TRUE)
  <1> DEFINE v == Append(w, x)
  <1>1. /\ Len(w) \in Nat /\ Len(v) = Len(w) + 1
        /\ \A k \in 1..Len(w) : k \in 1..Len(v) /\ v[k] = w[k]
        /\ v[Len(w) + 1] = x /\ Len(w) + 1 \in 1..Len(v)
        /\ \A k \in 1..Len(v) : k \in 1..Len(w) \/ k = Len(w) + 1
        /\ \A k \in 1..Len(w) : w[k].pos \in Nat
    <2>1. \A k \in 1..Len(w) : w[k].pos \in Nat
      <3>1. \A k \in 1..Len(w) : w[k] \in SegmentRec
        OBVIOUS
      <3> QED
        BY <3>1 DEF SegmentRec
    <2> QED
      BY <2>1, AppendProperties
  <1> HIDE DEF v
  <1>2. Arrived(r) \in Nat
    BY DEF Arrived, SocketRec
  <1>3. \A k \in 1..Len(w) : Data(v, n, k) <=> Data(w, n, k)
    BY <1>1 DEF Data
  <1>4. ASSUME NEW k \in Nat, k <= Len(w), NEW i, UpTo(r, w, n, k, i) PROVE UpTo(r, v, n, k, i)
    <2>1. \A j \in 1..k : j \in 1..Len(w)
      BY <1>1, <1>4
    <2> QED
      BY <1>1, <1>3, <1>4, <2>1 DEF UpTo
  <1>5. \A k \in 1..Len(w) : k - 1 \in Nat /\ k - 1 <= Len(w)
    BY <1>1
  <1>6. UpTo(r, v, n, Len(w), sent)
    BY <1>1, <1>4 DEF Coming
  <1>7. ASSUME NEW k \in 1..Len(v), Data(v, n, k)
        PROVE  /\ Arrived(r) < v[k].pos /\ v[k].pos <= sent + 1
               /\ UpTo(r, v, n, k - 1, v[k].pos - 1)
    <2>1. CASE k \in 1..Len(w)
      <3>1. /\ Arrived(r) < w[k].pos /\ w[k].pos <= sent
            /\ UpTo(r, w, n, k - 1, w[k].pos - 1)
        BY <1>3, <1>7, <2>1 DEF Coming
      <3>2. v[k].pos = w[k].pos /\ w[k].pos \in Nat
        BY <1>1, <2>1
      <3> QED
        BY <1>4, <1>5, <2>1, <3>1, <3>2
    <2>2. CASE k = Len(w) + 1
      <3>1. v[k].pos = sent + 1 /\ v[k].pos - 1 = sent /\ k - 1 = Len(w)
        BY <1>1, <2>2
      <3> QED
        BY <1>2, <1>6, <3>1
    <2> QED
      BY <1>1, <2>1, <2>2
  <1>8. ASSUME NEW j \in 1..Len(v), NEW k \in 1..Len(v), j < k, Data(v, n, j), Data(v, n, k)
        PROVE  v[j].pos < v[k].pos
    <2>1. j \in 1..Len(w)
      BY <1>1, <1>8
    <2>2. CASE k \in 1..Len(w)
      BY <1>1, <1>3, <1>8, <2>1, <2>2 DEF Coming
    <2>3. CASE k = Len(w) + 1
      <3>1. w[j].pos <= sent /\ v[j].pos = w[j].pos /\ w[j].pos \in Nat /\ v[k].pos = sent + 1
        BY <1>1, <1>3, <1>8, <2>1, <2>3 DEF Coming
      <3> QED
        BY <3>1
    <2> QED
      BY <1>1, <2>2, <2>3
  <1>9. \A k \in 1..Len(v) :
              v[k].flag = "CLOS" /\ v[k].num = n => UpTo(r, v, n, k - 1, sent + 1)
    BY <1>1
  <1>10. UpTo(r, v, n, Len(v), sent + 1)
    BY <1>1 DEF UpTo, Data
  <1> QED
    BY <1>7, <1>8, <1>9, <1>10 DEF Coming, v

\* DATA that is packed to a wire which carries nothing any more
LEMMA ComingLost ==
    ASSUME NEW r, NEW sent \in Nat, NEW w \in Seq(SegmentRec), NEW n, ~Ended(r),
           Coming(r, sent, w, n, FALSE),
           \A k \in 1..Len(w) : w[k].flag = "CLOS" => w[k].num # n
    PROVE  Coming(r, sent + 1, w, n, FALSE)
  <1>1. \A k \in 1..Len(w) : w[k].pos \in Nat
    <2>1. \A k \in 1..Len(w) : w[k] \in SegmentRec
      OBVIOUS
    <2> QED
      BY <2>1 DEF SegmentRec
  <1>2. \A k \in 1..Len(w) : w[k].pos <= sent => w[k].pos <= sent + 1
    BY <1>1
  <1> QED
    BY <1>2 DEF Coming

\* What does not concern a tunnel may be taken off the wire before the rest ...
LEMMA ComingBehindAlien ==
    ASSUME NEW r, NEW sent, NEW w \in Seq(SegmentRec), NEW v \in Seq(SegmentRec), NEW n, NEW c,
           Len(w) > 0, Len(v) = Len(w) - 1, \A k \in 1..Len(v) : v[k] = w[k + 1],
           Alien(w[1], n), Coming(r, sent, w, n, c)
    PROVE  Coming(r, sent, v, n, c)
  <1>1. PICK N \in Nat : Len(v) = N /\ Len(w) = N + 1
    OBVIOUS
  <1>2. \A k \in 1..N : k + 1 \in 1..(N + 1) /\ v[k] = w[k + 1] /\ (k + 1) - 1 = k
    BY <1>1
  <1>3. \A k \in 1..N : Data(v, n, k) <=> Data(w, n, k + 1)
    BY <1>2 DEF Data
  <1>4. CASE Ended(r)
    <2>1. \A k \in 1..N : v[k].num = n => v[k].flag \notin {"DATA", "CLOS"}
      BY <1>1, <1>2, <1>4 DEF Coming
    <2> QED
      BY <1>1, <1>4, <2>1 DEF Coming
  <1>5. CASE ~Ended(r)
    <2>1. ASSUME NEW k \in Nat, k <= N, NEW i, UpTo(r, w, n, k + 1, i) PROVE UpTo(r, v, n, k, i)
      <3>1. CASE i = Arrived(r)
        BY <3>1 DEF UpTo
      <3>2. ASSUME NEW j \in 1..(k + 1), Data(w, n, j), w[j].pos = i PROVE UpTo(r, v, n, k, i)
        <4>1. j # 1
          BY <3>2 DEF Alien, Data
        <4>2. j - 1 \in 1..k /\ j - 1 \in 1..N /\ (j - 1) + 1 = j
          BY <2>1, <3>2, <4>1
        <4>3. v[j - 1] = w[j] /\ Data(v, n, j - 1)
          BY <1>2, <1>3, <3>2, <4>2
        <4> QED
          BY <3>2, <4>2, <4>3 DEF UpTo
      <3> QED
        BY <2>1, <3>1, <3>2 DEF UpTo
    <2>2. \A k \in 1..N : k - 1 \in Nat /\ k - 1 <= N /\ (k - 1) + 1 = k /\ (k + 1) - 1 = k
      BY <1>1
    <2>3. ASSUME NEW k \in 1..N, NEW i, UpTo(r, w, n, (k + 1) - 1, i)
          PROVE  UpTo(r, v, n, k - 1, i)
      BY <2>1, <2>2, <2>3
    <2>4. \A k \in 1..N : Data(v, n, k) =>
                /\ Arrived(r) < v[k].pos /\ v[k].pos <= sent
                /\ UpTo(r, v, n, k - 1, v[k].pos - 1)
      <3> SUFFICES ASSUME NEW k \in 1..N, Data(v, n, k)
                   PROVE  /\ Arrived(r) < v[k].pos /\ v[k].pos <= sent
                          /\ UpTo(r, v, n, k - 1, v[k].pos - 1)
        OBVIOUS
      <3>1. k + 1 \in 1..(N + 1) /\ v[k] = w[k + 1] /\ Data(w, n, k + 1)
        BY <1>2, <1>3
      <3>2. /\ Arrived(r) < w[k + 1].pos /\ w[k + 1].pos <= sent
            /\ UpTo(r, w, n, (k + 1) - 1, w[k + 1].pos - 1)
        BY <1>1, <1>5, <3>1 DEF Coming
      <3> QED
        BY <2>3, <3>1, <3>2
    <2>5. \A j, k \in 1..N :
                j < k /\ Data(v, n, j) /\ Data(v, n, k) => v[j].pos < v[k].pos
      <3> SUFFICES ASSUME NEW j \in 1..N, NEW k \in 1..N, j < k, Data(v, n, j), Data(v, n, k)
                   PROVE  v[j].pos < v[k].pos
        OBVIOUS
      <3>1. /\ j + 1 \in 1..(N + 1) /\ v[j] = w[j + 1] /\ Data(w, n, j + 1)
            /\ k + 1 \in 1..(N + 1) /\ v[k] = w[k + 1] /\ Data(w, n, k + 1) /\ j + 1 < k + 1
        BY <1>2, <1>3
      <3> QED
        BY <1>1, <1>5, <3>1 DEF Coming
    <2>6. \A k \in 1..N : v[k].flag = "CLOS" /\ v[k].num = n => UpTo(r, v, n, k - 1, sent)
      <3> SUFFICES ASSUME NEW k \in 1..N, v[k].flag = "CLOS", v[k].num = n
                   PROVE  UpTo(r, v, n, k - 1, sent)
        OBVIOUS
      <3>1. k + 1 \in 1..(N + 1) /\ v[k] = w[k + 1]
        BY <1>2
      <3>2. UpTo(r, w, n, (k + 1) - 1, sent)
        BY <1>1, <1>5, <3>1 DEF Coming
      <3> QED
        BY <2>3, <3>2
    <2>7. c => UpTo(r, v, n, N, sent)
      BY <1>1, <1>5, <2>1 DEF Coming
    <2> QED
      BY <1>1, <1>5, <2>4, <2>5, <2>6, <2>7 DEF Coming
  <1> QED
    BY <1>4, <1>5

\* What socket r, which becomes q, has been handed when x is queued for it
Queues(r, q, n, x) ==
    /\ Arrived(r) \in Nat /\ Arrived(q) = Arrived(r) + 1
    /\ Ended(q) <=> x.flag = "CLOS"
    /\ \A k \in 1..Len(q.got) : q.got[k] = <<n, k>>
    /\ \A k \in 1..Len(q.incoming) :
         \/ /\ k # Len(q.incoming) /\ q.incoming[k].num = n
            /\ q.incoming[k].flag = "DATA" /\ q.incoming[k].pos = Len(q.got) + k
         \/ /\ k = Len(q.incoming) /\ q.incoming[k] = x
            /\ Arrived(r) + 1 = Len(q.got) + k

LEMMA QueuedFacts ==
    ASSUME NEW r \in SocketRec, NEW q \in SocketRec, NEW p \in SocketRec, NEW n \in Nat,
           NEW x \in SegmentRec, Received(r, p, n), ~Ended(r),
           q.got = r.got, q.incoming = Append(r.incoming, x)
    PROVE  Queues(r, q, n, x)
  <1>1. r.got \in Seq(Nums \X Nat) /\ r.incoming \in Seq(SegmentRec)
    BY DEF SocketRec
  <1>2. PICK G \in Nat, I \in Nat : Len(r.got) = G /\ Len(r.incoming) = I
    BY SocketLengths
  <1>3. /\ Len(q.got) = G /\ Len(q.incoming) = I + 1 /\ q.incoming[I + 1] = x
        /\ \A k \in 1..I : q.incoming[k] = r.incoming[k]
    BY <1>1, <1>2, AppendProperties
  <1>4. Arrived(r) = G + I /\ Arrived(q) = G + (I + 1)
    BY <1>2, <1>3 DEF Arrived
  <1>5. ~(G > 0 /\ r.got[G][2] = 0) /\ ~(I > 0 /\ r.incoming[I].flag = "CLOS")
    BY <1>2 DEF Ended
  <1>6. \A k \in 1..G : r.got[k] = <<n, k>>
    <2> SUFFICES ASSUME NEW k \in 1..G, r.got[k] # <<n, k>> PROVE FALSE
      OBVIOUS
    <2>1. r.got[k] = <<n, 0>> /\ k = G
      BY <1>2 DEF Received
    <2> QED
      BY <1>5, <2>1
  <1>7. \A k \in 1..I : /\ r.incoming[k].num = n /\ r.incoming[k].flag = "DATA"
                        /\ r.incoming[k].pos = G + k
    <2> SUFFICES ASSUME NEW k \in 1..I
                 PROVE  /\ r.incoming[k].num = n /\ r.incoming[k].flag = "DATA"
                        /\ r.incoming[k].pos = G + k
      OBVIOUS
    <2>1. /\ r.incoming[k].num = n
          /\ \/ r.incoming[k].flag = "DATA" /\ r.incoming[k].pos = G + k
             \/ r.incoming[k].flag = "CLOS" /\ k = I
      BY <1>2 DEF Received
    <2> QED
      BY <1>5, <2>1
  <1>8. Ended(q) <=> x.flag = "CLOS"
    <2>1. ~(G > 0 /\ q.got[G][2] = 0)
      BY <1>5
    <2> QED
      BY <1>3, <2>1 DEF Ended
  <1>9. ASSUME NEW k \in 1..(I + 1)
        PROVE  \/ /\ k # I + 1 /\ q.incoming[k].num = n
                  /\ q.incoming[k].flag = "DATA" /\ q.incoming[k].pos = G + k
               \/ /\ k = I + 1 /\ q.incoming[k] = x /\ Arrived(r) + 1 = G + k
    <2>1. CASE k \in 1..I
      BY <1>3, <1>7, <2>1
    <2>2. CASE k = I + 1
      BY <1>3, <1>4, <2>2
    <2>3. k \in 1..I \/ k = I + 1
      BY <1>2
    <2> QED
      BY <2>1, <2>2, <2>3
  <1>10. \A k \in 1..G : q.got[k] = <<n, k>>
    BY <1>6
  <1> QED
    BY <1>3, <1>4, <1>8, <1>9, <1>10 DEF Queues

\* ... the DATA of the tunnel is the next that its socket has been waiting for ...
LEMMA ComingData ==
    ASSUME NEW r \in SocketRec, NEW q \in SocketRec, NEW p \in SocketRec, NEW n \in Nat, NEW c,
           NEW w \in Seq(SegmentRec), NEW v \in Seq(SegmentRec),
           Len(w) > 0, Len(v) = Len(w) - 1, \A k \in 1..Len(v) : v[k] = w[k + 1],
           w[1].num = n, w[1].flag = "DATA", w[1] \in SegmentRec,
           q.got = r.got, q.incoming = Append(r.incoming, w[1]),
           Received(r, p, n), Coming(r, p.sent, w, n, c)
    PROVE  Received(q, p, n) /\ Coming(q, p.sent, v, n, c)
  <1>1. PICK N \in Nat : Len(v) = N /\ Len(w) = N + 1
    OBVIOUS
  <1>2. \A k \in 1..N : k + 1 \in 1..(N + 1) /\ v[k] = w[k + 1] /\ (k + 1) - 1 = k
    BY <1>1
  <1>3. \A k \in 1..N : Data(v, n, k) <=> Data(w, n, k + 1)
    BY <1>2 DEF Data
  <1>4. 1 \in 1..Len(w) /\ Data(w, n, 1)
    BY <1>1 DEF Data
  <1>5. ~Ended(r)
    BY <1>4 DEF Coming
  <1>6. /\ Arrived(r) < w[1].pos /\ w[1].pos <= p.sent /\ UpTo(r, w, n, 1 - 1, w[1].pos - 1)
    BY <1>4, <1>5 DEF Coming
  <1>7. w[1].pos \in Nat /\ p.sent \in Nat /\ \A k \in 1..Len(w) : w[k].pos \in Nat
    <2>1. \A k \in 1..Len(w) : w[k] \in SegmentRec
      OBVIOUS
    <2> QED
      BY <2>1 DEF SegmentRec, SocketRec
  <1>8. /\ Arrived(r) \in Nat /\ Arrived(q) = Arrived(r) + 1
        /\ Ended(q) <=> w[1].flag = "CLOS"
        /\ \A k \in 1..Len(q.got) : q.got[k] = <<n, k>>
        /\ \A k \in 1..Len(q.incoming) :
             \/ /\ k # Len(q.incoming) /\ q.incoming[k].num = n
                /\ q.incoming[k].flag = "DATA" /\ q.incoming[k].pos = Len(q.got) + k
             \/ /\ k = Len(q.incoming) /\ q.incoming[k] = w[1]
                /\ Arrived(r) + 1 = Len(q.got) + k
    <2>1. Queues(r, q, n, w[1])
      BY <1>5, QueuedFacts
    <2> QED
      BY <2>1 DEF Queues
  <1>9. w[1].pos = Arrived(r) + 1
    <2>1. \A j \in 1..(1 - 1) : FALSE
      OBVIOUS
    <2>2. w[1].pos - 1 = Arrived(r)
      BY <1>6, <2>1 DEF UpTo
    <2> QED
      BY <1>7, <1>8, <2>2
  <1>10. ~Ended(q)
    BY <1>8
  <1>11. Received(q, p, n)
    <2>1. Arrived(q) <= p.sent
      BY <1>6, <1>8, <1>9
    <2>2. \A k \in 1..Len(q.incoming) :
             /\ q.incoming[k].num = n
             /\ q.incoming[k].flag = "DATA" /\ q.incoming[k].pos = Len(q.got) + k
      BY <1>8, <1>9
    <2> QED
      BY <1>8, <1>10, <2>1, <2>2 DEF Received
  <1>12. ASSUME NEW k \in Nat, k <= N, NEW i, UpTo(r, w, n, k + 1, i), i # Arrived(r)
         PROVE  UpTo(q, v, n, k, i)
    <2>1. PICK j \in 1..(k + 1) : Data(w, n, j) /\ w[j].pos = i
      BY <1>12 DEF UpTo
    <2>2. CASE j = 1
      BY <1>8, <1>9, <2>1, <2>2 DEF UpTo
    <2>3. CASE j # 1
      <3>1. j - 1 \in 1..k /\ j - 1 \in 1..N /\ (j - 1) + 1 = j
        BY <1>12, <2>1, <2>3
      <3>2. v[j - 1] = w[j] /\ Data(v, n, j - 1)
        BY <1>2, <1>3, <2>1, <3>1
      <3> QED
        BY <2>1, <3>1, <3>2 DEF UpTo
    <2> QED
      BY <2>2, <2>3
  <1>13. p.sent # Arrived(r)
    BY <1>6, <1>7, <1>8
  <1>14. ASSUME NEW k \in 1..N, Data(v, n, k)
         PROVE  /\ Arrived(q) < v[k].pos /\ v[k].pos <= p.sent
                /\ UpTo(q, v, n, k - 1, v[k].pos - 1)
    <2>1. /\ k + 1 \in 1..(N + 1) /\ v[k] = w[k + 1] /\ Data(w, n, k + 1) /\ (k + 1) - 1 = k
          /\ k - 1 \in Nat /\ k - 1 <= N /\ (k - 1) + 1 = k /\ 1 < k + 1
      BY <1>2, <1>3, <1>14
    <2>2. /\ w[k + 1].pos <= p.sent /\ UpTo(r, w, n, k, w[k + 1].pos - 1)
      BY <1>1, <1>5, <2>1 DEF Coming
    <2>3. w[1].pos < w[k + 1].pos /\ w[k + 1].pos \in Nat
      BY <1>1, <1>4, <1>5, <1>7, <2>1 DEF Coming
    <2>4. Arrived(q) < v[k].pos /\ v[k].pos - 1 # Arrived(r)
      BY <1>7, <1>8, <1>9, <2>1, <2>3
    <2> QED
      BY <1>12, <2>1, <2>2, <2>4
  <1>15. ASSUME NEW j \in 1..N, NEW k \in 1..N, j < k, Data(v, n, j), Data(v, n, k)
         PROVE  v[j].pos < v[k].pos
    <2>1. /\ j + 1 \in 1..(N + 1) /\ v[j] = w[j + 1] /\ Data(w, n, j + 1)
          /\ k + 1 \in 1..(N + 1) /\ v[k] = w[k + 1] /\ Data(w, n, k + 1) /\ j + 1 < k + 1
      BY <1>2, <1>3, <1>15
    <2> QED
      BY <1>1, <1>5, <2>1 DEF Coming
  <1>16. ASSUME NEW k \in 1..N, v[k].flag = "CLOS", v[k].num = n
         PROVE  UpTo(q, v, n, k - 1, p.sent)
    <2>1. /\ k + 1 \in 1..(N + 1) /\ v[k] = w[k + 1] /\ (k + 1) - 1 = k
          /\ k - 1 \in Nat /\ k - 1 <= N /\ (k - 1) + 1 = k
      BY <1>2
    <2>2. UpTo(r, w, n, k, p.sent)
      BY <1>1, <1>5, <1>16, <2>1 DEF Coming
    <2> QED
      BY <1>12, <1>13, <2>1, <2>2
  <1>17. c => UpTo(q, v, n, N, p.sent)
    BY <1>1, <1>5, <1>12, <1>13 DEF Coming
  <1>18. Coming(q, p.sent, v, n, c)
    BY <1>1, <1>10, <1>14, <1>15, <1>16, <1>17 DEF Coming
  <1> QED
    BY <1>11, <1>18

\* ... and CLOS ends its stream.
LEMMA ComingClos ==
    ASSUME NEW r \in SocketRec, NEW q \in SocketRec, NEW p \in SocketRec, NEW n \in Nat, NEW c,
           NEW w \in Seq(SegmentRec), NEW v \in Seq(SegmentRec), Len(w) > 0,
           w[1].num = n, w[1].flag = "CLOS", w[1] \in SegmentRec,
           q.got = r.got, q.incoming = Append(r.incoming, w[1]),
           p.closed, \A k \in 1..Len(v) : v[k].num # n,
           Received(r, p, n), Coming(r, p.sent, w, n, c)
    PROVE  Received(q, p, n) /\ Coming(q, p.sent, v, n, c)
  <1>1. 1 \in 1..Len(w)
    OBVIOUS
  <1>2. ~Ended(r)
    BY <1>1 DEF Coming
  <1>3. /\ Arrived(r) \in Nat /\ Arrived(q) = Arrived(r) + 1
        /\ Ended(q) <=> w[1].flag = "CLOS"
        /\ \A k \in 1..Len(q.got) : q.got[k] = <<n, k>>
        /\ \A k \in 1..Len(q.incoming) :
             \/ /\ k # Len(q.incoming) /\ q.incoming[k].num = n
                /\ q.incoming[k].flag = "DATA" /\ q.incoming[k].pos = Len(q.got) + k
             \/ /\ k = Len(q.incoming) /\ q.incoming[k] = w[1]
                /\ Arrived(r) + 1 = Len(q.got) + k
    <2>1. Queues(r, q, n, w[1])
      BY <1>2, QueuedFacts
    <2> QED
      BY <2>1 DEF Queues
  <1>4. p.sent = Arrived(r)
    <2>1. \A j \in 1..(1 - 1) : FALSE
      OBVIOUS
    <2> QED
      BY <1>1, <1>2, <2>1 DEF Coming, UpTo
  <1>5. Ended(q)
    BY <1>3
  <1>6. Received(q, p, n)
    BY <1>3, <1>4, <1>5 DEF Received
  <1>7. Coming(q, p.sent, v, n, c)
    BY <1>5 DEF Coming
  <1> QED
    BY <1>6, <1>7

-----------------------------------------------------------------------------
(* Streams *)

StreamInv == RoutingInv /\ Streams

\* A stream of which a step changes neither end nor wire
LEMMA StreamKept ==
    ASSUME NEW r, NEW q, NEW p, NEW u, NEW n, NEW w, NEW c, NEW d,
           q.got = r.got, q.incoming = r.incoming, u.closed = p.closed, u.sent = p.sent, d => c
    PROVE  /\ Received(r, p, n) => Received(q, u, n)
           /\ Coming(r, p.sent, w, n, c) => Coming(q, u.sent, w, n, d)
  <1>1. Arrived(q) = Arrived(r) /\ (Ended(q) <=> Ended(r))
    BY DEF Arrived, Ended
  <1>2. Received(r, p, n) => Received(q, u, n)
    BY <1>1 DEF Received
  <1>3. \A k, i : UpTo(q, w, n, k, i) <=> UpTo(r, w, n, k, i)
    BY <1>1 DEF UpTo
  <1>4. Coming(r, p.sent, w, n, c) => Coming(q, u.sent, w, n, d)
    BY <1>1, <1>3 DEF Coming
  <1> QED
    BY <1>2, <1>4

\* The stream to socket n of end e: r reads what p writes and q carries.
Flow(e, w, n, r, u, q) == Received(r, u, n) /\ (Able(e, w) => Coming(r, u.sent, q, n, Hale(w)))

LEMMA StreamTypes ==
    ASSUME StreamInv, NEW e \in End, NEW n \in 1..Len(idOf)
    PROVE  \E p \in End, w \in Wire, r \in SocketRec, u \in SocketRec, q \in Seq(SegmentRec) :
             /\ p = Peer(e) /\ p # e /\ w = wireOf[n]
             /\ <<e, n>> \in Sockets /\ <<p, n>> \in Sockets
             /\ r = sok[<<e, n>>] /\ u = sok[<<p, n>>] /\ q = line[w][p]
             /\ n \in Nums /\ n \in Nat /\ idOf[n] \in Ids
             /\ n \notin crossed => Flow(e, w, n, r, u, q)
  <1>1. PICK p \in End : p = Peer(e) /\ p # e
    BY Ends
  <1>2. TypeInv
    BY DEF StreamInv, RoutingInv
  <1>3. n \in Nums /\ n \in Nat /\ idOf[n] \in Ids /\ <<e, n>> \in Sockets /\ <<p, n>> \in Sockets
    BY <1>2, NumFacts
  <1>4. PICK w \in Wire : w = wireOf[n]
    BY <1>2, NumFacts
  <1>5. /\ sok[<<e, n>>] \in SocketRec /\ sok[<<p, n>>] \in SocketRec
        /\ line[w][p] \in Seq(SegmentRec)
    BY <1>2, <1>3 DEF TypeInv, Types
  <1>6. PICK r \in SocketRec, u \in SocketRec, q \in Seq(SegmentRec) :
          r = sok[<<e, n>>] /\ u = sok[<<p, n>>] /\ q = line[w][p]
    BY <1>5
  <1>7. n \notin crossed => Stream(e, n)
    BY DEF StreamInv, Streams
  <1>8. n \notin crossed => Flow(e, w, n, r, u, q)
    BY <1>1, <1>4, <1>6, <1>7 DEF Stream, Flow
  <1> QED
    BY <1>1, <1>3, <1>4, <1>6, <1>8

\* The same after a step that leaves no more able than before
LEMMA Restream ==
    ASSUME NEW e \in End, NEW w \in Wire, NEW p \in End, NEW n, p = Peer(e), wireOf'[n] = w, Fading,
           NEW r, NEW u, NEW q, r.got = sok'[<<e, n>>].got, r.incoming = sok'[<<e, n>>].incoming,
           u.closed = sok'[<<p, n>>].closed, u.sent = sok'[<<p, n>>].sent, q = line'[w][p],
           Flow(e, w, n, r, u, q)
    PROVE  Stream(e, n)'
  <1>1. PICK x, y, c, d, a, b : /\ x = sok'[<<e, n>>] /\ y = sok'[<<p, n>>]
                                /\ c = Hale(w) /\ d = Hale(w)' /\ a = Able(e, w) /\ b = Able(e, w)'
    OBVIOUS
  <1>2. (d => c) /\ (b => a)
    BY <1>1 DEF Fading
  <1>3. Received(r, u, n) /\ (a => Coming(r, u.sent, q, n, c))
    BY <1>1 DEF Flow
  <1>4. x.got = r.got /\ x.incoming = r.incoming /\ y.closed = u.closed /\ y.sent = u.sent
    BY <1>1
  <1>5. Received(x, y, n) /\ (b => Coming(x, y.sent, q, n, d))
    BY <1>2, <1>3, <1>4, StreamKept, Zenon
  <1> QED
    BY <1>1, <1>5 DEF Stream

LEMMA StreamsQuiet ==
    ASSUME StreamInv, Quiet
    PROVE  Streams'
  <1> SUFFICES ASSUME NEW e \in End, NEW n \in 1..Len(idOf), n \notin crossed
               PROVE  Stream(e, n)'
    BY DEF Quiet, Streams
  <1>1. PICK p \in End, w \in Wire, r \in SocketRec, u \in SocketRec, q \in Seq(SegmentRec) :
          /\ p = Peer(e) /\ w = wireOf[n] /\ <<e, n>> \in Sockets /\ <<p, n>> \in Sockets
          /\ r = sok[<<e, n>>] /\ u = sok[<<p, n>>] /\ q = line[w][p]
          /\ Flow(e, w, n, r, u, q)
    BY StreamTypes
  <1>2. wireOf' = wireOf /\ line' = line /\ Fading
    BY DEF Quiet
  <1>3. /\ r.got = sok'[<<e, n>>].got /\ r.incoming = sok'[<<e, n>>].incoming
        /\ u.closed = sok'[<<p, n>>].closed /\ u.sent = sok'[<<p, n>>].sent
    BY <1>1 DEF Quiet, Still
  <1> QED
    BY <1>1, <1>2, <1>3, Restream

LEMMA StreamsReads ==
    ASSUME StreamInv, TypeInv', NEW s \in Sockets, Reads(s)
    PROVE  Streams'
  <1> SUFFICES ASSUME NEW e \in End, NEW n \in 1..Len(idOf), n \notin crossed
               PROVE  Stream(e, n)'
    BY DEF Reads, Streams
  <1>1. PICK p \in End, w \in Wire, r \in SocketRec, u \in SocketRec, q \in Seq(SegmentRec) :
          /\ p = Peer(e) /\ p # e /\ w = wireOf[n] /\ <<e, n>> \in Sockets /\ <<p, n>> \in Sockets
          /\ r = sok[<<e, n>>] /\ u = sok[<<p, n>>] /\ q = line[w][p]
          /\ n \in Nat /\ Flow(e, w, n, r, u, q)
    BY StreamTypes
  <1>2. /\ wireOf' = wireOf /\ line' = line /\ Fading
        /\ \A t \in Sockets \ {s} : Still(t)
        /\ sok'[s].closed = sok[s].closed /\ sok'[s].sent = sok[s].sent
    BY ContextFades DEF Reads
  <1>3. u.closed = sok'[<<p, n>>].closed /\ u.sent = sok'[<<p, n>>].sent
    BY <1>1, <1>2 DEF Still
  <1>4. CASE s # <<e, n>>
    <2>1. r.got = sok'[<<e, n>>].got /\ r.incoming = sok'[<<e, n>>].incoming
      BY <1>1, <1>2, <1>4 DEF Still
    <2> QED
      BY <1>1, <1>2, <1>3, <2>1, Restream
  <1>5. CASE s = <<e, n>>
    <2>1. PICK x \in SocketRec : x = sok'[<<e, n>>]
      BY <1>1 DEF TypeInv, Types
    <2>2. ReadOff(r, x)
      BY <1>1, <1>5, <2>1, Zenon DEF Reads, ReadOff
    <2>3. Received(r, u, n) /\ (Able(e, w) => Coming(r, u.sent, q, n, Hale(w)))
      BY <1>1 DEF Flow
    <2>4. Received(x, u, n) /\ Arrived(x) = Arrived(r) /\ (Ended(x) <=> Ended(r))
      BY <1>1, <2>2, <2>3, ReadKeeps
    <2>5. \A y, z, c : Coming(r, y, z, n, c) => Coming(x, y, z, n, c)
      <3>1. \A z, k, i : UpTo(x, z, n, k, i) <=> UpTo(r, z, n, k, i)
        BY <2>4 DEF UpTo
      <3> QED
        BY <2>4, <3>1 DEF Coming
    <2>6. Flow(e, w, n, x, u, q)
      BY <2>3, <2>4, <2>5 DEF Flow
    <2> QED
      BY <1>1, <1>2, <1>3, <2>1, <2>6, Restream
  <1> QED
    BY <1>4, <1>5

\* A peer that writes on owes nothing to what has come.
LEMMA ReceivedMore ==
    ASSUME NEW r \in SocketRec, NEW p, NEW u, NEW n, Received(r, p, n), ~Ended(r),
           p.sent \in Nat, u.sent = p.sent + 1
    PROVE  Received(r, u, n)
  <1>1. Arrived(r) \in Nat
    BY DEF Arrived, SocketRec
  <1>2. Arrived(r) <= u.sent
    BY <1>1 DEF Received
  <1> QED
    BY <1>2 DEF Received

\* The sender of a stream, before (u) and after (y), sends a segment: it is on the
\* wire if that is hale, and lost if not.
LEMMA FlowWrites ==
    ASSUME NEW e, NEW w, NEW n, NEW r \in SocketRec, NEW u \in SocketRec, NEW y,
           NEW q \in Seq(SegmentRec), NEW seg \in SegmentRec, seg.num = n, Flow(e, w, n, r, u, q),
           ~u.closed, y.closed <=> seg.flag = "CLOS",
           seg.flag = "DATA" => seg.pos = u.sent + 1 /\ y.sent = u.sent + 1,
           seg.flag # "DATA" => y.sent = u.sent,
           \A k \in 1..Len(q) : q[k].flag = "CLOS" => q[k].num # n
    PROVE  Flow(e, w, n, r, y, IF Hale(w) THEN Append(q, seg) ELSE q)
  <1>1. PICK a, c : a = Able(e, w) /\ c = Hale(w)
    OBVIOUS
  <1>2. Received(r, u, n) /\ (a => Coming(r, u.sent, q, n, c))
    BY <1>1 DEF Flow
  <1>3. ~Ended(r) /\ u.sent \in Nat /\ seg.flag \in {"OPEN", "DATA", "ICWD", "CLOS"}
    BY <1>2 DEF Received, SocketRec, SegmentRec
  <1>4. Received(r, y, n)
    <2>1. CASE seg.flag = "DATA"
      BY <1>2, <1>3, <2>1, ReceivedMore
    <2>2. CASE seg.flag # "DATA"
      BY <1>2, <1>3, <2>2 DEF Received
    <2> QED
      BY <2>1, <2>2
  <1>5. CASE c
    <2>1. a => Coming(r, u.sent, q, n, TRUE)
      BY <1>2, <1>5 DEF Coming
    <2>2. a => Coming(r, y.sent, Append(q, seg), n, TRUE)
      <3>1. CASE seg.flag = "DATA"
        <4>1. Arrived(r) <= u.sent
          BY <1>2, <1>3 DEF Received
        <4> QED
          BY <1>3, <2>1, <3>1, <4>1, ComingBeforeData
      <3>2. CASE seg.flag = "CLOS"
        BY <1>3, <2>1, <3>2, ComingBeforeClos
      <3>3. CASE seg.flag \notin {"DATA", "CLOS"}
        <4>1. Alien(seg, n)
          BY <3>3 DEF Alien
        <4>2. a => Coming(r, u.sent, Append(q, seg), n, TRUE)
          BY <2>1, <4>1, ComingBeforeAlien
        <4> QED
          BY <3>3, <4>2
      <3> QED
        BY <3>1, <3>2, <3>3
    <2>3. a => Coming(r, y.sent, Append(q, seg), n, c)
      BY <1>5, <2>2 DEF Coming
    <2> QED
      BY <1>1, <1>4, <1>5, <2>3 DEF Flow
  <1>6. CASE ~c
    <2>1. a => Coming(r, u.sent, q, n, FALSE)
      BY <1>2, <1>6 DEF Coming
    <2>2. a => Coming(r, y.sent, q, n, FALSE)
      BY <1>3, <2>1, ComingLost
    <2>3. a => Coming(r, y.sent, q, n, c)
      BY <1>6, <2>2 DEF Coming
    <2> QED
      BY <1>1, <1>4, <1>6, <2>3 DEF Flow
  <1> QED
    BY <1>5, <1>6

\* What a segment does to a stream that it does not belong to
LEMMA FlowBeside ==
    ASSUME NEW e, NEW w, NEW n, NEW r, NEW u, NEW q \in Seq(SegmentRec),
           NEW seg \in SegmentRec, seg.num # n, Flow(e, w, n, r, u, q)
    PROVE  Flow(e, w, n, r, u, Append(q, seg))
  <1>1. PICK a, c : a = Able(e, w) /\ c = Hale(w)
    OBVIOUS
  <1>2. Received(r, u, n) /\ (a => Coming(r, u.sent, q, n, c))
    BY <1>1 DEF Flow
  <1>3. Alien(seg, n)
    BY DEF Alien
  <1>4. a => Coming(r, u.sent, Append(q, seg), n, c)
    BY <1>2, <1>3, ComingBeforeAlien
  <1> QED
    BY <1>1, <1>2, <1>4 DEF Flow

LEMMA StreamsSends ==
    ASSUME StreamInv, NEW s \in Sockets, NEW seg, Sends(s, seg)
    PROVE  Streams'
  <1>1. TypeInv /\ Silence
    BY DEF StreamInv, RoutingInv
  <1>2. PICK f \in End, m \in 1..Len(idOf), v \in Wire :
          /\ s = <<f, m>> /\ v = wireOf[m] /\ ~sok[s].closed /\ (sok'[s].closed <=> seg.flag = "CLOS")
          /\ seg \in SegmentRec /\ seg.num = m /\ sub[f][v].stage = "live"
    BY <1>1, SendsFacts
  <1>3. /\ wireOf' = wireOf /\ Fading /\ \A t \in Sockets \ {s} : Still(t)
        /\ sok'[s].got = sok[s].got /\ sok'[s].incoming = sok[s].incoming
        /\ seg.flag = "DATA" => seg.pos = sok[s].sent + 1 /\ sok'[s].sent = sok[s].sent + 1
        /\ seg.flag # "DATA" => sok'[s].sent = sok[s].sent
    BY ContextFades DEF Sends, Still
  <1>4. /\ line'[v][f] = IF Carries(v, f) THEN Append(line[v][f], seg) ELSE line[v][f]
        /\ \A x \in Wire, g \in End : ~(x = v /\ g = f) => line'[x][g] = line[x][g]
    <2>1. line' = IF Carries(v, f) THEN [line EXCEPT ![v][f] = Append(@, seg)] ELSE line
      BY <1>2 DEF Sends, Pack, On
    <2>2. Packed(v, f, seg) /\ line'[v][f] = IF Carries(v, f) THEN Append(line[v][f], seg) ELSE line[v][f]
      BY <1>1, <1>2, <2>1, PackFacts DEF TypeInv
    <2> QED
      BY <2>2 DEF Packed
  <1>5. Carries(v, f) <=> Hale(v)
    BY <1>2, Ends DEF Carries, Hale
  <1> SUFFICES ASSUME NEW e \in End, NEW n \in 1..Len(idOf), n \notin crossed
               PROVE  Stream(e, n)'
    BY DEF Sends, Streams
  <1>6. PICK p \in End, w \in Wire, r \in SocketRec, u \in SocketRec, q \in Seq(SegmentRec) :
          /\ p = Peer(e) /\ p # e /\ w = wireOf[n] /\ <<e, n>> \in Sockets /\ <<p, n>> \in Sockets
          /\ r = sok[<<e, n>>] /\ u = sok[<<p, n>>] /\ q = line[w][p]
          /\ Flow(e, w, n, r, u, q)
    BY StreamTypes
  <1>7. r.got = sok'[<<e, n>>].got /\ r.incoming = sok'[<<e, n>>].incoming
    BY <1>3, <1>6 DEF Still
  <1>8. CASE s # <<p, n>>
    <2>1. u.closed = sok'[<<p, n>>].closed /\ u.sent = sok'[<<p, n>>].sent
      BY <1>3, <1>6, <1>8 DEF Still
    <2>2. CASE line'[w][p] = q
      BY <1>3, <1>6, <1>7, <2>1, <2>2, Restream
    <2>3. CASE line'[w][p] # q
      <3>1. w = v /\ p = f /\ m # n /\ line'[w][p] = Append(q, seg)
        BY <1>2, <1>4, <1>6, <1>8, <2>3
      <3>2. Flow(e, w, n, r, u, Append(q, seg))
        BY <1>2, <1>6, <3>1, FlowBeside
      <3> QED
        BY <1>3, <1>6, <1>7, <2>1, <3>1, <3>2, Restream
    <2> QED
      BY <2>2, <2>3
  <1>9. CASE s = <<p, n>>
    <2>1. f = p /\ m = n /\ v = w
      BY <1>2, <1>6, <1>9
    <2>2. PICK y : y = sok'[<<p, n>>]
      OBVIOUS
    <2>3. /\ ~u.closed /\ (y.closed <=> seg.flag = "CLOS") /\ seg.num = n /\ seg \in SegmentRec
          /\ seg.flag = "DATA" => seg.pos = u.sent + 1 /\ y.sent = u.sent + 1
          /\ seg.flag # "DATA" => y.sent = u.sent
      BY <1>2, <1>3, <1>6, <1>9, <2>1, <2>2
    <2>4. \A k \in 1..Len(q) : q[k].flag = "CLOS" => q[k].num # n
      BY <1>1, <1>6, <2>3 DEF Silence, ClosOfClosed
    <2>5. PICK z : z = IF Hale(w) THEN Append(q, seg) ELSE q
      OBVIOUS
    <2>6. Flow(e, w, n, r, y, z)
      BY <1>6, <2>3, <2>4, <2>5, FlowWrites
    <2>7. line'[w][p] = z
      BY <1>4, <1>5, <1>6, <2>1, <2>5
    <2> QED
      BY <1>3, <1>6, <1>7, <2>2, <2>6, <2>7, Restream
  <1> QED
    BY <1>8, <1>9

\* The wires after a Tunnel
LEMMA DrawnLine ==
    ASSUME TypeInv, NEW i \in Ids, NEW v \in Wire, Draws(i, v)
    PROVE  \E o \in SegmentRec :
             /\ o.flag = "OPEN" /\ o.num = Len(idOf) + 1
             /\ \A x \in Wire, g \in End :
                  line'[x][g] = line[x][g] \/ line'[x][g] = Append(line[x][g], o)
  <1>1. Len(idOf) + 1 \in Nums
    BY DEF Draws
  <1>2. PICK o \in SegmentRec :
          o = [flag |-> "OPEN", id |-> i, num |-> Len(idOf) + 1, pos |-> 0]
    BY <1>1 DEF SegmentRec
  <1>3. PICK c \in End : c = "client"
    BY Ends
  <1>4. line' = IF Carries(v, c) THEN [line EXCEPT ![v][c] = Append(@, o)] ELSE line
    BY <1>2, <1>3 DEF Draws
  <1>5. Types
    BY DEF TypeInv
  <1>6. /\ line'[v][c] = IF Carries(v, c) THEN Append(line[v][c], o) ELSE line[v][c]
        /\ Packed(v, c, o)
    BY <1>4, <1>5, PackFacts
  <1>7. \A x \in Wire, g \in End : ~(x = v /\ g = c) => line'[x][g] = line[x][g]
    BY <1>6 DEF Packed
  <1>8. \A x \in Wire, g \in End :
          line'[x][g] = line[x][g] \/ line'[x][g] = Append(line[x][g], o)
    BY <1>6, <1>7
  <1> QED
    BY <1>2, <1>8

\* A socket that nothing has come to yet, and nothing is on its way to
LEMMA FlowBegins ==
    ASSUME NEW e, NEW w, NEW n, NEW r, NEW u, NEW q, Len(r.got) = 0, Len(r.incoming) = 0,
           u.sent = 0, \A k \in 1..Len(q) : q[k].num = n => q[k].flag \notin {"DATA", "CLOS"}
    PROVE  Flow(e, w, n, r, u, q)
  <1>1. ~Ended(r) /\ Arrived(r) = 0
    BY DEF Ended, Arrived
  <1>2. Received(r, u, n)
    BY <1>1 DEF Received
  <1>3. Coming(r, u.sent, q, n, TRUE) /\ Coming(r, u.sent, q, n, FALSE)
    BY <1>1 DEF Coming, Data, UpTo
  <1>4. Coming(r, u.sent, q, n, Hale(w))
    BY <1>3 DEF Coming
  <1> QED
    BY <1>2, <1>4 DEF Flow

LEMMA StreamsDraws ==
    ASSUME StreamInv, NEW i \in Ids, NEW v \in Wire, Draws(i, v)
    PROVE  Streams'
  <1>1. TypeInv
    BY DEF StreamInv, RoutingInv
  <1>2. PICK m \in Nums, open \in SegmentRec : Drew(i, v, m, open)
    BY <1>1, DrawsFacts
  <1>3. /\ m = Len(idOf) + 1 /\ m \notin 1..Len(idOf)
        /\ \A k \in 1..Len(idOf) : wireOf'[k] = wireOf[k]
        /\ wireOf'[m] = v
        /\ \A k \in 1..Len(idOf') : k = m \/ k \in 1..Len(idOf)
        /\ \A f \in End : <<f, m>> \in Sockets /\ sok[<<f, m>>] = NewSocket
        /\ \A t \in Sockets : t # <<"client", m>> => sok'[t] = sok[t]
        /\ sok'[<<"client", m>>] = Opened(NewSocket)
    BY <1>2 DEF Drew
  <1>4. Fading /\ \A k \in crossed : k \in crossed'
    BY ContextFades DEF Draws
  <1>5. PICK o \in SegmentRec :
          /\ o.flag = "OPEN" /\ o.num = m
          /\ \A x \in Wire, g \in End :
               line'[x][g] = line[x][g] \/ line'[x][g] = Append(line[x][g], o)
    BY <1>1, <1>3, DrawnLine
  <1>6. \A t \in Sockets : sok'[t].got = sok[t].got /\ sok'[t].incoming = sok[t].incoming
           /\ sok'[t].closed = sok[t].closed /\ sok'[t].sent = sok[t].sent
    <2>1. PICK c \in Sockets : c = <<"client", m>>
      BY <1>3, Ends
    <2>2. sok[c] = NewSocket /\ sok'[c] = Opened(NewSocket)
      BY <1>3, <2>1, Ends
    <2>3. /\ sok'[c].got = sok[c].got /\ sok'[c].incoming = sok[c].incoming
          /\ sok'[c].closed = sok[c].closed /\ sok'[c].sent = sok[c].sent
      BY <2>2 DEF Opened, NewSocket
    <2> QED
      BY <1>3, <2>1, <2>3
  <1> SUFFICES ASSUME NEW e \in End, NEW n \in 1..Len(idOf'), n \notin crossed'
               PROVE  Stream(e, n)'
    BY DEF Streams
  <1>7. CASE n \in 1..Len(idOf)
    <2>1. n \notin crossed
      BY <1>4
    <2>2. PICK p \in End, w \in Wire, r \in SocketRec, u \in SocketRec, q \in Seq(SegmentRec) :
            /\ p = Peer(e) /\ w = wireOf[n] /\ <<e, n>> \in Sockets /\ <<p, n>> \in Sockets
            /\ r = sok[<<e, n>>] /\ u = sok[<<p, n>>] /\ q = line[w][p]
            /\ Flow(e, w, n, r, u, q)
      BY <1>7, <2>1, StreamTypes
    <2>3. /\ r.got = sok'[<<e, n>>].got /\ r.incoming = sok'[<<e, n>>].incoming
          /\ u.closed = sok'[<<p, n>>].closed /\ u.sent = sok'[<<p, n>>].sent
      BY <1>6, <2>2
    <2>4. wireOf'[n] = w
      BY <1>3, <1>7, <2>2
    <2>5. Flow(e, w, n, r, u, Append(q, o))
      BY <1>3, <1>5, <1>7, <2>2, FlowBeside
    <2>6. PICK z : z = line'[w][p] /\ Flow(e, w, n, r, u, z)
      BY <1>5, <2>2, <2>5
    <2> QED
      BY <1>4, <2>2, <2>3, <2>4, <2>6, Restream
  <1>8. CASE n = m
    <2>1. PICK p \in End : p = Peer(e)
      BY Ends
    <2>2. PICK r, u : r = NewSocket /\ u = NewSocket
      OBVIOUS
    <2>3. /\ r.got = sok'[<<e, n>>].got /\ r.incoming = sok'[<<e, n>>].incoming
          /\ u.closed = sok'[<<p, n>>].closed /\ u.sent = sok'[<<p, n>>].sent
      BY <1>3, <1>6, <1>8, <2>2
    <2>4. PICK q \in Seq(SegmentRec) : q = line[v][p]
      BY <1>1 DEF TypeInv, Types
    <2>5. \A k \in 1..Len(q) : q[k].num # n
      BY <1>1, <1>3, <1>8, <2>4, SegmentSocket
    <2>6. PICK z : z = line'[v][p] /\ (z = q \/ z = Append(q, o))
      BY <1>5, <2>4
    <2>7. \A k \in 1..Len(z) : z[k].num = n => z[k].flag \notin {"DATA", "CLOS"}
      <3>1. CASE z = q
        BY <2>5, <3>1
      <3>2. CASE z = Append(q, o)
        <4>1. \A k \in 1..Len(z) : (k \in 1..Len(q) /\ z[k] = q[k]) \/ z[k] = o
          BY <2>4, <3>2, AppendProperties
        <4> QED
          BY <1>5, <2>5, <4>1
      <3> QED
        BY <2>6, <3>1, <3>2
    <2>8. Len(r.got) = 0 /\ Len(r.incoming) = 0 /\ u.sent = 0
      BY <2>2 DEF NewSocket
    <2>9. Flow(e, v, n, r, u, z)
      BY <2>7, <2>8, FlowBegins
    <2> QED
      BY <1>3, <1>4, <1>8, <2>1, <2>3, <2>6, <2>9, Restream
  <1> QED
    BY <1>3, <1>7, <1>8

\* A segment behind its OPEN has found its tunnel at the exit.
LEMMA HeadStarted ==
    ASSUME RoutingInv, NEW w \in Wire, NEW seg, Delivered("server", "client", w, seg),
           seg.flag # "OPEN"
    PROVE  Started(seg.num) /\ given[w] \in Context \ {0}
  <1>1. Shifted(w, "client") /\ seg = line[w]["client"][1] /\ sub["server"][w].main
    BY DEF Delivered
  <1>2. 1 \in 1..Len(line[w]["client"]) /\ \A j \in 1..(1 - 1) : FALSE
    BY <1>1 DEF Shifted
  <1>3. Started(seg.num)
    BY <1>1, <1>2 DEF RoutingInv, Routing, OpenFirst
  <1>4. given[w] \in Context /\ given[w] # 0
    BY <1>1, MainGiven DEF RoutingInv
  <1> QED
    BY <1>3, <1>4

\* A segment of a tunnel that is not crossed goes to its own tunnel ...
LEMMA Routed ==
    ASSUME RoutingInv, NEW e \in End, NEW w \in Wire, NEW seg, Takes(e, w, seg),
           seg.num \notin crossed, seg.flag # "OPEN"
    PROVE  table[Owner(e, w)][seg.id] = seg.num
  <1>1. PICK p \in End : Delivered(e, p, w, seg)
    BY TakesFacts DEF RoutingInv
  <1>2. /\ p = Peer(e) /\ seg.num \in 1..Len(idOf) /\ seg.id = idOf[seg.num]
        /\ wireOf[seg.num] = w /\ OnLine(p, seg.num)
    BY <1>1 DEF Delivered
  <1>3. CASE e = "client"
    <2>1. p = "server" /\ Owner(e, w) = 0
      BY <1>2, <1>3 DEF Peer, Owner
    <2>2. table[0][idOf[seg.num]] = seg.num
      BY <1>2, <2>1 DEF RoutingInv, Routing, RoutedDown
    <2> QED
      BY <1>2, <2>1, <2>2
  <1>4. CASE e = "server"
    <2>1. p = "client" /\ Owner(e, w) = given[w]
      BY <1>2, <1>4 DEF Peer, Owner
    <2>2. Delivered("server", "client", w, seg)
      BY <1>1, <1>4, <2>1
    <2>3. Started(seg.num)
      BY <2>2, HeadStarted
    <2>4. table[given[wireOf[seg.num]]][idOf[seg.num]] = seg.num
      BY <1>2, <2>1, <2>3 DEF RoutingInv, Routing, RoutedUp
    <2> QED
      BY <1>2, <2>1, <2>4
  <1> QED
    BY <1>3, <1>4 DEF End

\* ... and a segment of a crossed one to no tunnel that is not.
LEMMA NotAstray ==
    ASSUME RoutingInv, NEW e \in End, NEW w \in Wire, NEW seg, Takes(e, w, seg),
           seg.flag # "OPEN", NEW n \in 1..Len(idOf), n \notin crossed,
           table[Owner(e, w)][seg.id] = n
    PROVE  seg.num = n
  <1> SUFFICES ASSUME seg.num # n PROVE FALSE
    OBVIOUS
  <1>1. PICK p \in End : Delivered(e, p, w, seg)
    BY TakesFacts DEF RoutingInv
  <1>2. /\ p = Peer(e) /\ seg.num \in 1..Len(idOf) /\ seg.id = idOf[seg.num] /\ seg.id \in Ids
        /\ wireOf[seg.num] = w /\ OnLine(p, seg.num)
    BY <1>1 DEF Delivered
  <1>3. CASE e = "client"
    <2>1. p = "server" /\ Owner(e, w) = 0
      BY <1>2, <1>3 DEF Peer, Owner
    <2>2. table[0][idOf[seg.num]] = seg.num
      BY <1>2, <2>1 DEF RoutingInv, Routing, RoutedDown
    <2> QED
      BY <1>2, <2>1, <2>2
  <1>4. CASE e = "server"
    <2>1. p = "client" /\ Owner(e, w) = given[w]
      BY <1>2, <1>4 DEF Peer, Owner
    <2>2. Started(seg.num) /\ given[w] \in Context \ {0}
      BY <1>1, <1>4, <2>1, HeadStarted
    <2>3. PICK c \in Context \ {0} : c = given[w]
      BY <2>2
    <2>4. table[c][seg.id] = n /\ n # 0 /\ n \in Nat /\ seg.num \in Nat /\ idOf[n] = idOf[seg.num]
      <3>1. table[c][seg.id] = n /\ n # 0
        BY <2>1, <2>3
      <3>2. idOf[n] = seg.id
        BY <1>2, <3>1 DEF RoutingInv, TypeInv, Known, KnownEntries
      <3> QED
        BY <1>2, <3>1, <3>2
    <2>5. Started(n) /\ ~Apart(n, seg.num)
      BY <1>2, <2>2, <2>3, <2>4 DEF RoutingInv, Routing, RoutedUp
    <2>6. seg.num < n
      BY <2>4, <2>5 DEF Apart
    <2>7. Apart(seg.num, n)
      BY <2>4, <2>6 DEF Apart
    <2> QED
      BY <1>2, <2>1, <2>5, <2>7, Zenon DEF RoutingInv, Routing, LastSpeaks
  <1> QED
    BY <1>3, <1>4 DEF End

\* What becomes of a stream when the first segment is off its wire
LEMMA FlowTakes ==
    ASSUME NEW e, NEW w, NEW n \in Nat, NEW r \in SocketRec, NEW u \in SocketRec,
           NEW q \in Seq(SegmentRec), NEW v \in Seq(SegmentRec), Flow(e, w, n, r, u, q),
           Len(q) > 0, Len(v) = Len(q) - 1, \A k \in 1..Len(v) : v[k] = q[k + 1]
    PROVE  /\ Alien(q[1], n) => Flow(e, w, n, r, u, v)
           /\ ~Alien(q[1], n) /\ Able(e, w)
                /\ (q[1].flag = "CLOS" => u.closed /\ \A k \in 1..Len(v) : v[k].num # n) =>
                \A x \in SocketRec : x.got = r.got /\ x.incoming = Append(r.incoming, q[1])
                                       => Flow(e, w, n, x, u, v)
  <1>1. PICK a, c : a = Able(e, w) /\ c = Hale(w)
    OBVIOUS
  <1>2. Received(r, u, n) /\ (a => Coming(r, u.sent, q, n, c))
    BY <1>1 DEF Flow
  <1>3. ASSUME Alien(q[1], n) PROVE Flow(e, w, n, r, u, v)
    <2>1. a => Coming(r, u.sent, v, n, c)
      BY <1>2, <1>3, ComingBehindAlien
    <2> QED
      BY <1>1, <1>2, <2>1 DEF Flow
  <1>4. ASSUME ~Alien(q[1], n), a, NEW x \in SocketRec, x.got = r.got,
               x.incoming = Append(r.incoming, q[1]),
               q[1].flag = "CLOS" => u.closed /\ \A k \in 1..Len(v) : v[k].num # n
        PROVE  Flow(e, w, n, x, u, v)
    <2>1. q[1] \in SegmentRec
      OBVIOUS
    <2>2. Coming(r, u.sent, q, n, c)
      BY <1>2, <1>4
    <2>3. Received(x, u, n) /\ Coming(x, u.sent, v, n, c)
      <3>1. q[1].num = n /\ q[1].flag \in {"DATA", "CLOS"}
        BY <1>4 DEF Alien
      <3>2. CASE q[1].flag = "DATA"
        BY <1>2, <1>4, <2>1, <2>2, <3>1, <3>2, ComingData
      <3>3. CASE q[1].flag = "CLOS"
        BY <1>2, <1>4, <2>1, <2>2, <3>1, <3>3, ComingClos
      <3> QED
        BY <3>1, <3>2, <3>3
    <2> QED
      BY <1>1, <2>3 DEF Flow
  <1> QED
    BY <1>1, <1>3, <1>4

\* A segment reaches a stream that is not crossed only if it belongs to it, and
\* mainThread is over if it does not reach it then.
Reached(f, x, seg, e, n) ==
    \/ /\ sok'[<<e, n>>].got = sok[<<e, n>>].got
       /\ sok'[<<e, n>>].incoming = sok[<<e, n>>].incoming
       /\ f = e /\ ~Alien(seg, n) => ~Able(e, x)'
    \/ /\ f = e /\ ~Alien(seg, n)
       /\ sok'[<<e, n>>] = [sok[<<e, n>>] EXCEPT !.incoming = Append(@, seg)]

LEMMA TakenBy ==
    ASSUME RoutingInv, NEW f \in End, NEW x \in Wire, NEW seg, Takes(f, x, seg),
           NEW e \in End, NEW n \in 1..Len(idOf), n \notin crossed
    PROVE  Reached(f, x, seg, e, n)
  <1>1. PICK t \in Sockets : t = <<e, n>> /\ sok[t] \in SocketRec
    BY NumFacts DEF RoutingInv, TypeInv, Types
  <1>2. PICK k : k = table[Owner(f, x)][seg.id]
    OBVIOUS
  <1>3. CASE seg.flag = "OPEN"
    <2>1. Still(t) \/ sok'[t] = [sok[t] EXCEPT !.stage = "queued"]
      BY <1>1, <1>3 DEF Takes
    <2>2. sok'[t].got = sok[t].got /\ sok'[t].incoming = sok[t].incoming
      <3>1. CASE Still(t)
        BY <3>1 DEF Still
      <3>2. CASE sok'[t] = [sok[t] EXCEPT !.stage = "queued"]
        BY <1>1, <3>2 DEF SocketRec
      <3> QED
        BY <2>1, <3>1, <3>2
    <2> QED
      BY <1>1, <1>3, <2>2 DEF Reached, Alien
  <1>4. CASE seg.flag = "ICWD"
    <2>1. Still(t)
      BY <1>4 DEF Takes
    <2> QED
      BY <1>1, <1>4, <2>1 DEF Reached, Still, Alien
  <1>5. CASE seg.flag \in {"DATA", "CLOS"}
    <2>1. \/ ~Able(f, x)' /\ \A y \in Sockets : Still(y)
          \/ /\ <<f, k>> \in Sockets /\ \A y \in Sockets \ {<<f, k>>} : Still(y)
             /\ sok'[<<f, k>>] = [sok[<<f, k>>] EXCEPT !.incoming = Append(@, seg)]
      BY <1>2, <1>5, Zenon DEF Takes
    <2>2. CASE ~Able(f, x)' /\ Still(t)
      BY <1>1, <2>2 DEF Reached, Still
    <2>3. CASE t # <<f, k>> /\ Still(t)
      <3>1. f = e => Alien(seg, n)
        <4>1. f = e => k # n
          BY <1>1, <2>3
        <4>2. seg.num = n => k = n
          BY <1>2, <1>5, Routed
        <4> QED
          BY <4>1, <4>2 DEF Reached, Alien
      <3> QED
        BY <1>1, <2>3, <3>1 DEF Reached, Still
    <2>4. CASE t = <<f, k>> /\ sok'[t] = [sok[t] EXCEPT !.incoming = Append(@, seg)]
      <3>1. f = e /\ k = n
        BY <1>1, <2>4
      <3>2. seg.num = n
        BY <1>2, <1>5, <3>1, NotAstray
      <3> QED
        BY <1>1, <1>5, <2>4, <3>1, <3>2 DEF Reached, Alien
    <2> QED
      BY <2>1, <2>2, <2>3, <2>4
  <1> QED
    BY <1>3, <1>4, <1>5, Zenon DEF Takes

LEMMA StreamsTakes ==
    ASSUME StreamInv, TypeInv', NEW f \in End, NEW x \in Wire, NEW seg, Takes(f, x, seg)
    PROVE  Streams'
  <1>1. RoutingInv /\ TypeInv /\ Silence
    BY DEF StreamInv, RoutingInv
  <1>2. PICK g \in End : Delivered(f, g, x, seg)
    BY <1>1, TakesFacts
  <1>3. /\ UNCHANGED <<idOf, wireOf, crossed>> /\ Fading /\ sub[f][x].main
        /\ g = Peer(f) /\ Shifted(x, g) /\ seg = line[x][g][1] /\ wireOf[seg.num] = x
        /\ seg.flag = "CLOS" => sok[<<g, seg.num>>].closed /\ ~OnLine(g, seg.num)'
    BY <1>2 DEF Delivered
  <1>4. \A t \in Sockets : sok'[t].closed = sok[t].closed /\ sok'[t].sent = sok[t].sent
    BY <1>1, TakesSockets
  <1> SUFFICES ASSUME NEW e \in End, NEW n \in 1..Len(idOf), n \notin crossed
               PROVE  Stream(e, n)'
    BY <1>3 DEF Streams
  <1>5. PICK p \in End, w \in Wire, r \in SocketRec, u \in SocketRec, q \in Seq(SegmentRec) :
          /\ p = Peer(e) /\ p # e /\ w = wireOf[n] /\ <<e, n>> \in Sockets /\ <<p, n>> \in Sockets
          /\ r = sok[<<e, n>>] /\ u = sok[<<p, n>>] /\ q = line[w][p]
          /\ n \in Nat /\ Flow(e, w, n, r, u, q)
    BY StreamTypes
  <1>6. PICK y \in SocketRec, v \in Seq(SegmentRec) : y = sok'[<<e, n>>] /\ v = line'[w][p]
    BY <1>5 DEF TypeInv, Types
  <1>7. u.closed = sok'[<<p, n>>].closed /\ u.sent = sok'[<<p, n>>].sent
    BY <1>4, <1>5
  <1>8. \/ y.got = r.got /\ y.incoming = r.incoming /\ (f = e /\ ~Alien(seg, n) => ~Able(e, x)')
        \/ /\ f = e /\ ~Alien(seg, n)
           /\ y.got = r.got /\ y.incoming = Append(r.incoming, seg)
    <2>1. sok'[<<e, n>>] = [sok[<<e, n>>] EXCEPT !.incoming = Append(@, seg)]
            => y.got = r.got /\ y.incoming = Append(r.incoming, seg)
      BY <1>5, <1>6 DEF SocketRec
    <2>2. Reached(f, x, seg, e, n)
      BY <1>1, TakenBy
    <2>3. y.got = sok'[<<e, n>>].got /\ y.incoming = sok'[<<e, n>>].incoming
      BY <1>6
    <2>4. sok[<<e, n>>].got = r.got /\ sok[<<e, n>>].incoming = r.incoming
      BY <1>5
    <2> QED
      BY <2>1, <2>2, <2>3, <2>4 DEF Reached
  <1>9. CASE ~(w = x /\ f = e)
    <2>1. ~(w = x /\ p = g)
      BY <1>3, <1>5, <1>9, Ends
    <2>2. v = q
      BY <1>3, <1>5, <1>6, <2>1 DEF Shifted
    <2>3. y.got = r.got /\ y.incoming = r.incoming
      BY <1>3, <1>5, <1>8, <1>9 DEF Alien
    <2>4. r.got = sok'[<<e, n>>].got /\ r.incoming = sok'[<<e, n>>].incoming
      BY <1>6, <2>3
    <2> QED
      BY <1>3, <1>5, <1>6, <1>7, <2>2, <2>4, Restream
  <1>10. CASE w = x /\ f = e
    <2>1. /\ Len(q) > 0 /\ Len(v) = Len(q) - 1 /\ \A k \in 1..Len(v) : v[k] = q[k + 1]
          /\ q[1] = seg
      BY <1>3, <1>5, <1>6, <1>10 DEF Shifted
    <2>2. Able(e, w)
      BY <1>3, <1>10 DEF Able
    <2>3. CASE Alien(seg, n)
      <3>1. Flow(e, w, n, r, u, v)
        BY <1>5, <2>1, <2>3, FlowTakes
      <3>2. r.got = sok'[<<e, n>>].got /\ r.incoming = sok'[<<e, n>>].incoming
        BY <1>6, <1>8, <2>3
      <3> QED
        BY <1>3, <1>5, <1>6, <1>7, <3>1, <3>2, Restream
    <2>4. CASE ~Alien(seg, n) /\ y.incoming = Append(r.incoming, seg) /\ y.got = r.got
      <3>1. seg.flag = "CLOS" => u.closed /\ \A k \in 1..Len(v) : v[k].num # n
        <4>1. seg.num = n /\ g = p
          BY <1>3, <1>5, <1>10, <2>4 DEF Alien
        <4>2. ~OnLine(p, n)' => \A k \in 1..Len(v) : v[k].num # n
          BY <1>3, <1>5, <1>6 DEF OnLine
        <4> QED
          BY <1>3, <1>5, <4>1, <4>2
      <3>2. Flow(e, w, n, y, u, v)
        BY <1>5, <2>1, <2>2, <2>4, <3>1, FlowTakes
      <3>3. y.got = sok'[<<e, n>>].got /\ y.incoming = sok'[<<e, n>>].incoming
        BY <1>6
      <3> QED
        BY <1>3, <1>5, <1>6, <1>7, <3>2, <3>3, Restream
    <2>5. CASE ~Alien(seg, n) /\ ~Able(e, x)' /\ y.incoming = r.incoming /\ y.got = r.got
      <3>1. Received(r, u, n)
        BY <1>5 DEF Flow
      <3>2. PICK z, b, c : z = sok'[<<p, n>>] /\ b = Able(e, w)' /\ c = Hale(w)'
        OBVIOUS
      <3>3. ~b /\ y.got = r.got /\ y.incoming = r.incoming /\ u.closed = z.closed /\ u.sent = z.sent
        BY <1>7, <1>10, <2>5, <3>2
      <3>4. Received(y, z, n) /\ (b => Coming(y, z.sent, v, n, c))
        BY <3>1, <3>3, StreamKept
      <3>5. wireOf'[n] = w
        BY <1>3, <1>5
      <3> QED
        BY <1>5, <1>6, <3>2, <3>4, <3>5 DEF Stream
    <2> QED
      BY <1>8, <1>10, <2>3, <2>4, <2>5
  <1> QED
    BY <1>9, <1>10

LEMMA StreamStep ==
    ASSUME StreamInv, [Next]_vars
    PROVE  StreamInv'
  <1>1. TypeInv' /\ RoutingInv'
    BY RoutingStep DEF StreamInv, RoutingInv
  <1>2. Streams'
    BY <1>1, Steps, StreamsQuiet, StreamsReads, StreamsSends, StreamsTakes, StreamsDraws
    DEF StreamInv, RoutingInv
  <1> QED
    BY <1>1, <1>2 DEF StreamInv

LEMMA InitStreamInv == Init => StreamInv
  <1> SUFFICES ASSUME Init PROVE StreamInv
    OBVIOUS
  <1>1. Len(idOf) = 0
    BY DEF Init
  <1>2. Streams
    BY <1>1 DEF Streams
  <1> QED
    BY <1>2, InitRouting DEF StreamInv

\* For every window, number of ids, wires and tunnels and amount of data, and
\* whatever is closed, cut or killed: the socket of a tunnel that was not crossed
\* reads exactly what its own peer has written, and EOF behind all of it.
THEOREM Niaucchi2StreamIntegrity == Spec => []StreamIntegrity
  <1>1. StreamInv => StreamIntegrity
    <2> SUFFICES ASSUME StreamInv, NEW e \in End, NEW n \in DOMAIN idOf \ crossed,
                        NEW k \in DOMAIN sok[<<e, n>>].got
                 PROVE  LET got == sok[<<e, n>>].got
                            sent == sok[<<Peer(e), n>>].sent
                        IN  \/ got[k] = <<n, k>> /\ k <= sent
                            \/ got[k] = <<n, 0>> /\ k = Len(got) /\ k = sent + 1
      BY DEF StreamIntegrity
    <2>1. n \in 1..Len(idOf) /\ n \notin crossed /\ n > 0
      BY NumFacts DEF StreamInv, RoutingInv
    <2>2. PICK r \in SocketRec, p \in SocketRec :
            r = sok[<<e, n>>] /\ p = sok[<<Peer(e), n>>] /\ Received(r, p, n)
      <3>1. PICK f \in End, w \in Wire, r \in SocketRec, p \in SocketRec, q \in Seq(SegmentRec) :
              /\ f = Peer(e) /\ r = sok[<<e, n>>] /\ p = sok[<<f, n>>] /\ Flow(e, w, n, r, p, q)
        BY <2>1, StreamTypes
      <3>2. Received(r, p, n)
        BY <3>1 DEF Flow
      <3> QED
        BY <3>1, <3>2
    <2>3. PICK G \in Nat, I \in Nat : Len(r.got) = G /\ Len(r.incoming) = I
      BY SocketLengths
    <2>4. k \in 1..G
      <3>1. r.got \in Seq(Nums \X Nat)
        BY DEF SocketRec
      <3> QED
        BY <2>2, <2>3, <3>1
    <2>5. p.sent \in Nat
      BY DEF SocketRec
    <2>6. Arrived(r) = G + I
      BY <2>3 DEF Arrived
    <2>7. \/ r.got[k] = <<n, k>>
          \/ r.got[k] = <<n, 0>> /\ k = G /\ I = 0
      BY <2>2, <2>3, <2>4 DEF Received
    <2>8. CASE r.got[k] = <<n, k>>
      <3>1. CASE ~Ended(r)
        <4>1. G + I <= p.sent
          BY <2>2, <2>6, <3>1 DEF Received
        <4> QED
          BY <2>2, <2>4, <2>5, <2>8, <4>1
      <3>2. CASE Ended(r)
        <4>1. G + I = p.sent + 1
          BY <2>2, <2>6, <3>2 DEF Received
        <4>2. k < G + I
          <5>1. CASE k < G
            BY <2>4, <5>1
          <5>2. CASE k = G
            <6>1. r.got[G][2] # 0
              BY <2>4, <2>8, <5>2
            <6>2. I > 0
              BY <2>3, <3>2, <6>1 DEF Ended
            <6> QED
              BY <5>2, <6>2
          <5> QED
            BY <2>4, <5>1, <5>2
        <4> QED
          BY <2>2, <2>4, <2>5, <2>8, <4>1, <4>2
      <3> QED
        BY <3>1, <3>2
    <2>9. CASE r.got[k] = <<n, 0>> /\ k = G /\ I = 0
      <3>1. Ended(r)
        <4>1. G > 0 /\ r.got[G][2] = 0
          BY <2>4, <2>9
        <4> QED
          BY <2>3, <4>1 DEF Ended
      <3>2. G + I = p.sent + 1
        BY <2>2, <2>6, <3>1 DEF Received
      <3> QED
        BY <2>2, <2>3, <2>5, <2>9, <3>2
    <2> QED
      BY <2>7, <2>8, <2>9
  <1> QED
    BY <1>1, InitStreamInv, StreamStep, PTL DEF Spec

-----------------------------------------------------------------------------
(* Credit.  The window of a socket p and of the socket r that reads from it *)
(* are one account, as in Niaucchi3, on the wire of their tunnel.           *)

\* The ICWDs of tunnel n in q, what one end has sent on a wire
IcwdsAt(q, n) == {k \in 1..Len(q) : q[k].flag = "ICWD" /\ q[k].num = n}
Icwds(q, n) == Cardinality(IcwdsAt(q, n))

LEMMA IcwdsFinite ==
    ASSUME NEW w \in Seq(SegmentRec), NEW n
    PROVE  IsFiniteSet(IcwdsAt(w, n)) /\ Icwds(w, n) \in Nat
  <1>1. Len(w) \in Int /\ 1 \in Int
    OBVIOUS
  <1>2. IsFiniteSet(1..Len(w))
    BY <1>1, FS_Interval
  <1>3. IcwdsAt(w, n) \in SUBSET (1..Len(w))
    BY DEF IcwdsAt
  <1>4. IsFiniteSet(IcwdsAt(w, n))
    BY <1>2, <1>3, FS_Subset
  <1> QED
    BY <1>4, FS_CardinalityType DEF Icwds

LEMMA IcwdsNone ==
    ASSUME NEW w, NEW n, \A k \in 1..Len(w) : w[k].num # n
    PROVE  Icwds(w, n) = 0
  <1>1. IcwdsAt(w, n) = {}
    BY DEF IcwdsAt
  <1> QED
    BY <1>1, FS_EmptySet DEF Icwds

\* A segment more at the end of a wire
LEMMA IcwdsAppend ==
    ASSUME NEW w \in Seq(SegmentRec), NEW x \in SegmentRec, NEW n
    PROVE  Icwds(Append(w, x), n)
             = IF x.flag = "ICWD" /\ x.num = n THEN Icwds(w, n) + 1 ELSE Icwds(w, n)
  <1> DEFINE v == Append(w, x)
             L == Len(w) + 1
  <1>1. Len(v) = L /\ v[L] = x /\ (\A k \in 1..Len(w) : v[k] = w[k]) /\ Len(w) \in Nat
    BY AppendProperties
  <1> HIDE DEF v
  <1>2. L \notin IcwdsAt(w, n) /\ IsFiniteSet(IcwdsAt(w, n))
    <2>1. L \notin IcwdsAt(w, n)
      BY <1>1 DEF IcwdsAt
    <2> QED
      BY <2>1, IcwdsFinite
  <1>3. \A k : k \in 1..L <=> k \in 1..Len(w) \/ k = L
    BY <1>1
  <1>4. CASE x.flag = "ICWD" /\ x.num = n
    <2>1. IcwdsAt(v, n) = IcwdsAt(w, n) \cup {L}
      BY <1>1, <1>3, <1>4 DEF IcwdsAt
    <2>2. Cardinality(IcwdsAt(w, n) \cup {L}) = Cardinality(IcwdsAt(w, n)) + 1
      BY <1>2, FS_AddElement
    <2> QED
      BY <1>4, <2>1, <2>2 DEF Icwds, v
  <1>5. CASE ~(x.flag = "ICWD" /\ x.num = n)
    <2>1. IcwdsAt(v, n) = IcwdsAt(w, n)
      BY <1>1, <1>3, <1>5 DEF IcwdsAt
    <2> QED
      BY <1>5, <2>1 DEF Icwds, v
  <1> QED
    BY <1>4, <1>5

\* The first segment off a wire
LEMMA IcwdsTail ==
    ASSUME NEW w \in Seq(SegmentRec), w # <<>>, NEW n
    PROVE  Icwds(w, n)
             = IF w[1].flag = "ICWD" /\ w[1].num = n THEN Icwds(Tail(w), n) + 1
                                                     ELSE Icwds(Tail(w), n)
  <1> DEFINE v == Tail(w)
             f == [k \in IcwdsAt(v, n) |-> k + 1]
             later == IcwdsAt(w, n) \ {1}
  <1>1. /\ v \in Seq(SegmentRec) /\ Len(w) \in Nat /\ Len(w) > 0 /\ Len(v) = Len(w) - 1
        /\ \A k \in 1..Len(v) : v[k] = w[k + 1]
    BY HeadTailProperties
  <1> HIDE DEF v
  <1>2. \A k : k \in IcwdsAt(v, n) => k \in Nat /\ k + 1 \in later
    BY <1>1 DEF IcwdsAt
  <1>3. \A k \in later : k - 1 \in IcwdsAt(v, n) /\ (k - 1) + 1 = k
    BY <1>1 DEF IcwdsAt
  <1>4. f \in [IcwdsAt(v, n) -> later]
    BY <1>2
  <1>5. \A a, b \in IcwdsAt(v, n) : f[a] = f[b] => a = b
    BY <1>2
  <1>6. \A t \in later : \E s \in IcwdsAt(v, n) : f[s] = t
    BY <1>3
  <1> HIDE DEF f
  <1>7. f \in Bijection(IcwdsAt(v, n), later)
    BY <1>4, <1>5, <1>6, Fun_IsBij
  <1>8. ExistsBijection(IcwdsAt(v, n), later)
    BY <1>7, Fun_ExistsBij
  <1>9. IsFiniteSet(IcwdsAt(v, n)) /\ IsFiniteSet(IcwdsAt(w, n))
    BY <1>1, IcwdsFinite
  <1>10. Cardinality(later) = Icwds(v, n)
    BY <1>8, <1>9, FS_Bijection DEF Icwds
  <1>11. Cardinality(later) = IF 1 \in IcwdsAt(w, n) THEN Icwds(w, n) - 1 ELSE Icwds(w, n)
    BY <1>9, FS_RemoveElement DEF Icwds
  <1>12. 1 \in IcwdsAt(w, n) <=> w[1].flag = "ICWD" /\ w[1].num = n
    BY <1>1 DEF IcwdsAt
  <1>13. Icwds(w, n) \in Nat
    BY IcwdsFinite
  <1> QED
    BY <1>10, <1>11, <1>12, <1>13 DEF v

\* What a writing socket p has put into its window beyond what it has sent
Put(p) == p.sendwind - p.sent

\* The DATA that a reading socket r has returned, EOF apart
Returned(r) ==
    IF Len(r.got) > 0 /\ r.got[Len(r.got)][2] = 0 THEN Len(r.got) - 1 ELSE Len(r.got)

\* recvcount stands for a whole window as long as it is zero.
Remaining(r) == IF r.recvcount = 0 THEN Window ELSE r.recvcount

\* What r has yet to give back of the DATA it has not returned
Due(r) == Count * r.owed + Window - Remaining(r) - Returned(r)

\* Whatever r and the wire still owe to p, p has put into its window: what it
\* has sent and r has not counted, and Count for every ICWD.
Covered(e, n) ==
    Count * Icwds(line[wireOf[n]][Peer(e)], n) + Due(sok[<<Peer(e), n>>]) <= Put(sok[<<e, n>>])
Credits == \A e \in End : \A n \in 1..Len(idOf) : n \notin crossed => Covered(e, n)

CreditInv == StreamInv /\ Credits

LEMMA Products ==
    \A x \in Nat : /\ Count * x \in Nat /\ Count * (x + 1) = Count * x + Count
                   /\ Count * 0 = 0
  BY Numbers

LEMMA LedgerTypes ==
    ASSUME NEW r \in SocketRec
    PROVE  /\ Put(r) \in Int /\ Due(r) \in Int /\ Returned(r) \in Nat
           /\ Remaining(r) \in 0..Window /\ Count * r.owed \in Nat
           /\ r.sendwind \in 0..Window /\ r.sent \in Nat /\ r.recvcount \in 0..(Window - 1)
  <1>1. /\ r.sendwind \in 0..Window /\ r.sent \in Nat /\ r.recvcount \in 0..(Window - 1)
        /\ r.owed \in Nat /\ Len(r.got) \in Nat
    BY DEF SocketRec
  <1>2. Count * r.owed \in Nat
    BY <1>1, Products
  <1>3. Put(r) \in Int
    BY <1>1, Numbers DEF Put
  <1>4. Returned(r) \in Nat
    BY <1>1 DEF Returned
  <1>5. Remaining(r) \in 0..Window
    BY <1>1, Numbers DEF Remaining
  <1>6. Due(r) \in Int
    BY <1>2, <1>4, <1>5, Numbers DEF Due
  <1> QED
    BY <1>1, <1>2, <1>3, <1>4, <1>5, <1>6

\* A socket in which a step changes nothing that the account reads
Level(q, r) ==
    /\ q.sendwind = r.sendwind /\ q.sent = r.sent
    /\ q.recvcount = r.recvcount /\ q.owed = r.owed /\ q.got = r.got

\* A step that makes no account worse: p has put in as much, r owes no more.
LevelOrBetter(q, r) == Put(q) >= Put(r) /\ Due(q) <= Due(r)

LEMMA LevelFacts ==
    ASSUME NEW r \in SocketRec, NEW q, Level(q, r)
    PROVE  LevelOrBetter(q, r) /\ Put(q) = Put(r) /\ Due(q) = Due(r)
  <1>1. Put(q) = Put(r) /\ Due(q) = Due(r)
    BY DEF Level, Put, Due, Returned, Remaining
  <1> QED
    BY <1>1, LedgerTypes DEF LevelOrBetter

\* One segment read: what the count loses the ICWD owed for it restores.
LEMMA ReadCounted ==
    ASSUME NEW r \in SocketRec, NEW mark \in LowMark..HighMark,
           NEW more, more = Uint8Dec(r.recvcount),
           NEW q, q.recvcount = IF more < mark THEN Uint8Add(more, Count) ELSE more,
           q.owed = IF more < mark THEN r.owed + 1 ELSE r.owed,
           Returned(q) > Returned(r), Returned(q) \in Nat
    PROVE  Due(q) <= Due(r)
  <1>1. /\ r.recvcount \in 0..(Window - 1) /\ r.owed \in Nat /\ Returned(r) \in Nat
    BY LedgerTypes DEF SocketRec
  <1>2. PICK m \in Nat, g \in Nat, h \in Nat, x \in Nat :
          m = mark /\ g = Returned(r) /\ h = Returned(q) /\ x = r.recvcount
    BY <1>1, Numbers
  <1>3. Window \in Nat /\ Count \in Nat /\ Count > 0 /\ m >= 1 /\ m + Count <= Window
    BY <1>2, Niaucchi2Assumption
  <1>4. Remaining(r) \in Nat /\ more \in Nat /\ more = Remaining(r) - 1 /\ more < Window
    BY <1>1, <1>2, <1>3 DEF Remaining, Uint8Dec
  <1>5. PICK b \in Nat : b = Count * r.owed
    BY <1>1, Products
  <1>6. CASE more < m
    <2>1. q.recvcount = more + Count /\ q.recvcount > 0
      BY <1>2, <1>3, <1>4, <1>6 DEF Uint8Add
    <2>2. Remaining(q) = more + Count
      BY <1>3, <1>4, <2>1 DEF Remaining
    <2>3. Count * q.owed = b + Count
      BY <1>1, <1>2, <1>5, <1>6, Products
    <2> QED
      BY <1>2, <1>3, <1>4, <1>5, <2>2, <2>3 DEF Due
  <1>7. CASE ~(more < m)
    <2>1. q.recvcount = more /\ q.owed = r.owed
      BY <1>2, <1>7
    <2>2. Remaining(q) = more
      BY <1>3, <1>4, <1>7, <2>1 DEF Remaining
    <2> QED
      BY <1>2, <1>3, <1>4, <1>5, <2>1, <2>2 DEF Due
  <1> QED
    BY <1>6, <1>7

\* One account after a step
LEMMA AccountKept ==
    ASSUME NEW i \in Nat, NEW j \in Nat, j <= i, NEW d \in Int, NEW c, c <= d, c \in Int,
           NEW p \in Int, NEW q, q >= p, q \in Int,
           Count * i + d <= p
    PROVE  Count * j + c <= q
  <1>1. PICK x \in Nat : i = j + x
    <2>1. i - j \in Nat /\ i = j + (i - j)
      OBVIOUS
    <2> QED
      BY <2>1
  <1>2. Count \in Nat
    BY Numbers
  <1>3. Count * i = Count * j + Count * x
    BY <1>1, <1>2
  <1>4. Count * x \in Nat /\ Count * j \in Nat
    BY Products
  <1>5. PICK a \in Nat, b \in Nat : a = Count * j /\ b = Count * x
    BY <1>4
  <1> QED
    BY <1>3, <1>5

\* A socket returns no more than its peer has sent, and all of it before EOF.
LEMMA ReturnedSent ==
    ASSUME NEW r \in SocketRec, NEW p, NEW n, Received(r, p, n), p.sent \in Nat
    PROVE  /\ Returned(r) <= p.sent
           /\ ~Ended(r) => Returned(r) = Len(r.got) /\ Len(r.got) + Len(r.incoming) <= p.sent
  <1>1. PICK G \in Nat, I \in Nat : Len(r.got) = G /\ Len(r.incoming) = I
    BY SocketLengths
  <1>2. Arrived(r) = G + I
    BY <1>1 DEF Arrived
  <1>3. CASE ~Ended(r)
    <2>1. G + I <= p.sent
      BY <1>2, <1>3 DEF Received
    <2>2. Returned(r) = G
      BY <1>1, <1>3 DEF Ended, Returned
    <2> QED
      BY <1>1, <2>1, <2>2
  <1>4. CASE Ended(r)
    <2>1. G + I = p.sent + 1
      BY <1>2, <1>4 DEF Received
    <2>2. CASE G > 0 /\ r.got[G][2] = 0
      <3>1. Returned(r) = G - 1
        BY <1>1, <2>2 DEF Returned
      <3> QED
        BY <1>1, <1>4, <2>1, <3>1
    <2>3. CASE ~(G > 0 /\ r.got[G][2] = 0)
      <3>1. Returned(r) = G /\ I > 0
        BY <1>1, <1>4, <2>3 DEF Returned, Ended
      <3> QED
        BY <1>1, <1>4, <2>1, <3>1
    <2> QED
      BY <2>2, <2>3
  <1> QED
    BY <1>3, <1>4

LEMMA TokensLeft ==
    ASSUME NEW a \in Nat, NEW c \in Nat, NEW l \in Nat, NEW g \in Nat, NEW v \in Nat, NEW m \in Nat,
           NEW k \in Nat, g <= l, m <= v, k >= (a + c) + l - g + v - m
    PROVE  k >= c
  OBVIOUS

\* What Pack and Unpacked do to the ICWDs on the wires
LEMMA IcwdsPacked ==
    ASSUME TypeInv, NEW w \in Wire, NEW e \in End, NEW seg \in SegmentRec,
           line' = IF Carries(w, e) THEN [line EXCEPT ![w][e] = Append(@, seg)] ELSE line,
           NEW v \in Wire, NEW f \in End, NEW n
    PROVE  Icwds(line'[v][f], n)
             <= Icwds(line[v][f], n) + IF f = e /\ seg.flag = "ICWD" /\ seg.num = n THEN 1 ELSE 0
  <1>1. line[v][f] \in Seq(SegmentRec)
    BY DEF TypeInv, Types
  <1>2. Icwds(line[v][f], n) \in Nat
    BY <1>1, IcwdsFinite
  <1>3. \/ line'[v][f] = line[v][f]
        \/ f = e /\ line'[v][f] = Append(line[v][f], seg)
    <2>1. /\ line'[w][e] = IF Carries(w, e) THEN Append(line[w][e], seg) ELSE line[w][e]
          /\ Packed(w, e, seg)
      BY PackFacts DEF TypeInv
    <2> QED
      BY <2>1 DEF Packed
  <1>4. CASE line'[v][f] = line[v][f]
    BY <1>2, <1>4
  <1>5. CASE f = e /\ line'[v][f] = Append(line[v][f], seg)
    <2>1. Icwds(Append(line[v][f], seg), n)
            = IF seg.flag = "ICWD" /\ seg.num = n THEN Icwds(line[v][f], n) + 1
                                                  ELSE Icwds(line[v][f], n)
      BY <1>1, IcwdsAppend
    <2> QED
      BY <1>2, <1>5, <2>1
  <1> QED
    BY <1>3, <1>4, <1>5

\* The ICWDs that are left after end e's segment seg is off wire w
Without(w, e, seg) ==
    \A v \in Wire, f \in End : \A n :
      LET off == v = w /\ f = e /\ seg.flag = "ICWD" /\ seg.num = n
      IN  /\ off => Icwds(line[v][f], n) = Icwds(line'[v][f], n) + 1
          /\ ~off => Icwds(line[v][f], n) = Icwds(line'[v][f], n)

LEMMA IcwdsUnpacked ==
    ASSUME TypeInv, NEW e \in End, NEW w \in Wire, line[w][Peer(e)] # <<>>, Unpacked(e, w),
           NEW seg, seg = line[w][Peer(e)][1]
    PROVE  Without(w, Peer(e), seg)
  <1> DEFINE off(v, f, n) == v = w /\ f = Peer(e) /\ seg.flag = "ICWD" /\ seg.num = n
  <1> SUFFICES ASSUME NEW v \in Wire, NEW f \in End, NEW n
               PROVE  /\ off(v, f, n) => Icwds(line[v][f], n) = Icwds(line'[v][f], n) + 1
                      /\ ~off(v, f, n) => Icwds(line[v][f], n) = Icwds(line'[v][f], n)
    BY DEF Without
  <1>1. line \in [Wire -> [End -> Seq(SegmentRec)]] /\ Peer(e) \in End
        /\ line[v][f] \in Seq(SegmentRec)
    BY Ends DEF TypeInv, Types
  <1>2. line' = [line EXCEPT ![w] = [line[w] EXCEPT ![Peer(e)] = Tail(line[w][Peer(e)])]]
    BY <1>1 DEF Unpacked
  <1>3. CASE v = w /\ f = Peer(e)
    <2>1. line'[v][f] = Tail(line[v][f]) /\ Tail(line[v][f]) \in Seq(SegmentRec)
      BY <1>1, <1>2, <1>3, HeadTailProperties
    <2>2. Icwds(Tail(line[v][f]), n) \in Nat
      BY <2>1, IcwdsFinite
    <2>3. Icwds(line[v][f], n)
            = IF seg.flag = "ICWD" /\ seg.num = n
                THEN Icwds(Tail(line[v][f]), n) + 1 ELSE Icwds(Tail(line[v][f]), n)
      BY <1>1, <1>3, IcwdsTail
    <2> QED
      BY <1>3, <2>1, <2>2, <2>3
  <1>4. CASE ~(v = w /\ f = Peer(e))
    <2>1. line'[v][f] = line[v][f]
      BY <1>1, <1>2, <1>4
    <2>2. Icwds(line[v][f], n) \in Nat
      BY <1>1, IcwdsFinite
    <2> QED
      BY <1>4, <2>1, <2>2
  <1> QED
    BY <1>3, <1>4

\* Socket t is that of a tunnel that was not crossed.
Honest(t) == t[2] \in 1..Len(idOf) /\ t[2] \notin crossed

\* No account becomes worse.
Solvent ==
    /\ UNCHANGED <<idOf, wireOf, crossed>>
    /\ \A t \in Sockets : Honest(t) => LevelOrBetter(sok'[t], sok[t])
    /\ \A v \in Wire, e \in End, n \in Nums : Icwds(line'[v][e], n) <= Icwds(line[v][e], n)

\* Socket s sends an ICWD that it owes, or has died and sends none.
Credited(s) ==
    /\ UNCHANGED <<idOf, wireOf, crossed>>
    /\ \A t \in Sockets \ {s} : LevelOrBetter(sok'[t], sok[t])
    /\ Put(sok'[s]) = Put(sok[s]) /\ Due(sok'[s]) = Due(sok[s]) - Count
    /\ \A v \in Wire, e \in End, n \in Nums :
         Icwds(line'[v][e], n) <= Icwds(line[v][e], n) + IF <<e, n>> = s THEN 1 ELSE 0

\* End e takes an ICWD off wire w and as many tokens out of the window of
\* socket d.
Cashed(e, w, d, num) ==
    /\ UNCHANGED <<idOf, wireOf, crossed>>
    /\ \A t \in Sockets \ {d} : LevelOrBetter(sok'[t], sok[t])
    /\ Put(sok'[d]) = Put(sok[d]) - Count /\ Due(sok'[d]) = Due(sok[d])
    /\ \A v \in Wire, f \in End, n \in Nums :
         Icwds(line[v][f], n)
           = Icwds(line'[v][f], n) + IF v = w /\ f = Peer(e) /\ n = num THEN 1 ELSE 0

\* A step of socket s that puts no ICWD on a wire
LEMMA SolventSocket ==
    ASSUME TypeInv, NEW s \in Sockets, NEW q, sok' = [sok EXCEPT ![s] = q],
           Honest(s) => LevelOrBetter(q, sok[s]), UNCHANGED <<idOf, wireOf, crossed>>,
           \/ line' = line
           \/ \E seg \in SegmentRec : seg.flag # "ICWD" /\ On(s) \in Wire /\ Pack(s, seg)
    PROVE  Solvent
  <1>1. sok'[s] = q /\ \A t \in Sockets \ {s} : sok'[t] = sok[t] /\ sok[t] \in SocketRec
    BY DEF TypeInv, Types
  <1>2. \A t \in Sockets \ {s} : LevelOrBetter(sok'[t], sok[t])
    BY <1>1, LevelFacts DEF Level
  <1>3. ASSUME NEW v \in Wire, NEW e \in End, NEW n \in Nums
        PROVE  Icwds(line'[v][e], n) <= Icwds(line[v][e], n)
    <2>1. line[v][e] \in Seq(SegmentRec)
      BY DEF TypeInv, Types
    <2>2. Icwds(line[v][e], n) \in Nat
      BY <2>1, IcwdsFinite
    <2>3. CASE line' = line
      BY <2>2, <2>3
    <2>4. ASSUME NEW seg \in SegmentRec, seg.flag # "ICWD", On(s) \in Wire, Pack(s, seg)
          PROVE  Icwds(line'[v][e], n) <= Icwds(line[v][e], n)
      <3>1. PICK w \in Wire, f \in End : w = On(s) /\ f = s[1]
        BY <2>4, Ends
      <3>2. line' = IF Carries(w, f) THEN [line EXCEPT ![w][f] = Append(@, seg)] ELSE line
        BY <2>4, <3>1 DEF Pack
      <3>3. Icwds(line'[v][e], n)
              <= Icwds(line[v][e], n) + IF e = f /\ seg.flag = "ICWD" /\ seg.num = n THEN 1 ELSE 0
        BY <3>2, IcwdsPacked
      <3> QED
        BY <2>2, <2>4, <3>3
    <2> QED
      BY <2>3, <2>4
  <1> QED
    BY <1>1, <1>2, <1>3 DEF Solvent

LEMMA WriteSolvent ==
    ASSUME TypeInv, NEW s \in Sockets, Write(s)
    PROVE  Solvent
  <1> DEFINE r == sok[s]
             q == [r EXCEPT !.sendwind = @ + 1, !.sent = @ + 1]
             seg == Segment("DATA", s[2], r.sent + 1)
  <1>1. r \in SocketRec /\ s[2] <= Len(idOf) /\ On(s) \in Wire
    BY Drawn DEF Write
  <1>2. /\ sok' = [sok EXCEPT ![s] = q] /\ Pack(s, seg)
        /\ UNCHANGED <<idOf, wireOf, crossed>>
    BY DEF Write, socketOnly, TypeInv, Types
  <1>3. /\ q.sendwind = r.sendwind + 1 /\ q.sent = r.sent + 1
        /\ q.recvcount = r.recvcount /\ q.owed = r.owed /\ q.got = r.got
    BY <1>1 DEF SocketRec
  <1>segment. seg = Segment("DATA", s[2], r.sent + 1)
    OBVIOUS
  <1> HIDE DEF seg, q, r
  <1>4. r.sendwind \in Nat /\ r.sent \in Nat /\ Due(r) \in Int
    BY <1>1, LedgerTypes, Numbers
  <1>5. seg \in SegmentRec /\ seg.flag = "DATA"
    <2>1. r.sent + 1 \in Nat
      BY <1>4
    <2> QED
      BY <1>1, <1>segment, <2>1, SegmentFacts
  <1>6. Put(q) = Put(r) /\ Put(r) \in Int
    BY <1>3, <1>4 DEF Put
  <1>7. Due(q) = Due(r)
    BY <1>3 DEF Due, Returned, Remaining
  <1>8. LevelOrBetter(q, r)
    BY <1>4, <1>6, <1>7 DEF LevelOrBetter
  <1> QED
    BY <1>1, <1>2, <1>5, <1>8, SolventSocket DEF r

\* A step of socket s that leaves its account alone
LEMMA LevelSolvent ==
    ASSUME TypeInv, NEW s \in Sockets, NEW q, sok' = [sok EXCEPT ![s] = q], Level(q, sok[s]),
           UNCHANGED <<idOf, wireOf, crossed>>,
           \/ line' = line
           \/ \E seg \in SegmentRec : seg.flag # "ICWD" /\ On(s) \in Wire /\ Pack(s, seg)
    PROVE  Solvent
  <1>1. sok[s] \in SocketRec
    BY DEF TypeInv, Types
  <1>2. LevelOrBetter(q, sok[s])
    BY <1>1, LevelFacts
  <1> QED
    BY <1>2, SolventSocket

LEMMA CloseSolvent ==
    ASSUME TypeInv, NEW s \in Sockets, Close(s)
    PROVE  Solvent
  <1> DEFINE q == [sok[s] EXCEPT !.closed = TRUE, !.dead = TRUE]
             seg == Segment("CLOS", s[2], 0)
  <1>1. sok[s] \in SocketRec /\ s[2] <= Len(idOf) /\ On(s) \in Wire
    BY Drawn DEF Close
  <1>2. sok' = [sok EXCEPT ![s] = q] /\ Pack(s, seg) /\ UNCHANGED <<idOf, wireOf, crossed>>
    BY DEF Close, socketOnly, TypeInv, Types
  <1>3. Level(q, sok[s])
    BY <1>1 DEF Level, SocketRec
  <1>segment. seg = Segment("CLOS", s[2], 0)
    OBVIOUS
  <1> HIDE DEF seg, q
  <1>4. seg \in SegmentRec /\ seg.flag = "CLOS"
    BY <1>1, <1>segment, SegmentFacts
  <1> QED
    BY <1>1, <1>2, <1>3, <1>4, LevelSolvent

LEMMA DyingSolvent ==
    ASSUME TypeInv, NEW s \in Sockets, ReadDying(s) \/ SocketTimeout(s) \/ TieUp(s)
    PROVE  Solvent
  <1>1. sok[s] \in SocketRec
    BY DEF TypeInv, Types
  <1>2. UNCHANGED <<idOf, wireOf, line, crossed>>
    BY DEF ReadDying, SocketTimeout, TieUp, socketOnly
  <1> DEFINE dies == [sok[s] EXCEPT !.dead = TRUE]
             stops == [sok[s] EXCEPT !.reading = FALSE]
             both == [sok[s] EXCEPT !.dead = TRUE, !.reading = @ /\ sok[s].incoming # <<>>]
  <1>3. Level(dies, sok[s]) /\ Level(stops, sok[s]) /\ Level(both, sok[s])
    BY <1>1 DEF Level, SocketRec
  <1>4. \/ sok' = [sok EXCEPT ![s] = dies]
        \/ sok' = [sok EXCEPT ![s] = stops]
        \/ sok' = [sok EXCEPT ![s] = both]
    BY <1>1 DEF ReadDying, SocketTimeout, TieUp, TypeInv, Types, SocketRec
  <1> HIDE DEF dies, stops, both
  <1> QED
    BY <1>2, <1>3, <1>4, LevelSolvent

LEMMA AcceptSolvent ==
    ASSUME TypeInv, NEW c \in Context, Accept(c)
    PROVE  Solvent
  <1> DEFINE s == <<"server", Head(acptQueue[c])>>
             q == Opened(sok[s])
  <1>1. acptQueue[c] \in Seq(1..Len(idOf)) /\ acptQueue[c] # <<>>
    BY DEF Accept, TypeInv, Types
  <1>2. Head(acptQueue[c]) \in 1..Len(idOf)
    BY <1>1, HeadTailProperties
  <1>3. s \in Sockets
    BY <1>2, Ends, NumFacts
  <1>4. sok' = [sok EXCEPT ![s] = q] /\ UNCHANGED <<idOf, wireOf, line, crossed>>
    BY <1>3 DEF Accept, TypeInv, Types
  <1> HIDE DEF s
  <1>5. Level(q, sok[s])
    BY <1>3 DEF Level, SocketRec, Opened, TypeInv, Types
  <1> HIDE DEF q
  <1> QED
    BY <1>3, <1>4, <1>5, LevelSolvent

\* A stream that is not crossed, and both its ends
LEMMA HonestStream ==
    ASSUME StreamInv, NEW e \in End, NEW n \in 1..Len(idOf), n \notin crossed,
           NEW r, r = sok[<<e, n>>], NEW p, p = sok[<<Peer(e), n>>],
           NEW q, q = line[wireOf[n]][Peer(e)]
    PROVE  /\ r \in SocketRec /\ p \in SocketRec /\ Received(r, p, n)
           /\ Able(e, wireOf[n]) => Coming(r, p.sent, q, n, Hale(wireOf[n]))
  <1>1. PICK f \in End, w \in Wire, a \in SocketRec, u \in SocketRec, v \in Seq(SegmentRec) :
          /\ f = Peer(e) /\ w = wireOf[n] /\ a = sok[<<e, n>>] /\ u = sok[<<f, n>>]
          /\ v = line[w][f] /\ Flow(e, w, n, a, u, v)
    BY StreamTypes
  <1> QED
    BY <1>1 DEF Flow

\* DATA in incoming of a socket of an honest tunnel has a position.
LEMMA DataPlaced ==
    ASSUME StreamInv, NEW s \in Sockets, Honest(s), Len(sok[s].incoming) > 0,
           sok[s].incoming[1].flag = "DATA"
    PROVE  sok[s].incoming[1].pos > 0
  <1>1. s[1] \in End /\ s = <<s[1], s[2]>> /\ s[2] \in 1..Len(idOf) /\ s[2] \notin crossed
    BY Ends DEF Honest
  <1>2. PICK r, p : r = sok[s] /\ p = sok[<<Peer(s[1]), s[2]>>]
    OBVIOUS
  <1>3. r \in SocketRec /\ Received(r, p, s[2])
    BY <1>1, <1>2, HonestStream
  <1>4. PICK G \in Nat, I \in Nat : Len(r.got) = G /\ Len(r.incoming) = I
    BY <1>3, SocketLengths
  <1>5. 1 \in 1..Len(r.incoming)
    BY <1>2, <1>4
  <1>6. r.incoming[1].pos = Len(r.got) + 1
    BY <1>2, <1>3, <1>5 DEF Received
  <1> QED
    BY <1>2, <1>4, <1>6

LEMMA ReadDataSolvent ==
    ASSUME StreamInv, NEW s \in Sockets, ReadData(s)
    PROVE  Solvent
  <1> DEFINE r == sok[s]
             seg == r.incoming[1]
             more == Uint8Dec(r.recvcount)
             item == <<seg.num, seg.pos>>
  <1>1. /\ TypeInv /\ r \in SocketRec /\ r.incoming # <<>>
        /\ r.incoming \in Seq(SegmentRec) /\ r.got \in Seq(Nums \X Nat)
    BY DEF ReadData, StreamInv, RoutingInv, TypeInv, Types, SocketRec
  <1>2. /\ Head(r.incoming) = seg /\ Len(r.incoming) > 0 /\ seg \in SegmentRec
    BY <1>1
  <1>3. PICK mark \in LowMark..HighMark :
          sok' = [sok EXCEPT
                    ![s].reading = ~sok[s].dead,
                    ![s].incoming = Tail(@),
                    ![s].got = Append(@, item),
                    ![s].recvcount = IF more < mark THEN Uint8Add(more, Count) ELSE more,
                    ![s].owed = IF more < mark THEN @ + 1 ELSE @]
    BY <1>2, Zenon DEF ReadData
  <1> DEFINE count == IF more < mark THEN Uint8Add(more, Count) ELSE more
             owing == IF more < mark THEN r.owed + 1 ELSE r.owed
             q == [r EXCEPT !.reading = ~r.dead, !.incoming = Tail(r.incoming),
                            !.got = Append(r.got, item), !.recvcount = count, !.owed = owing]
  <1>4. sok' = [sok EXCEPT ![s] = q]
    BY <1>1, <1>3 DEF SocketRec, TypeInv, Types
  <1>5. /\ q.sendwind = r.sendwind /\ q.sent = r.sent
        /\ q.recvcount = count /\ q.owed = owing /\ q.got = Append(r.got, item)
    BY <1>1 DEF SocketRec
  <1>6. seg.flag = "DATA" /\ UNCHANGED <<idOf, wireOf, line, crossed>>
    BY <1>2 DEF ReadData, socketOnly
  <1>7. Honest(s) => seg.pos > 0
    BY <1>2, <1>6, DataPlaced
  <1>8. item \in Nums \X Nat /\ item[2] = seg.pos
    BY <1>2 DEF SegmentRec
  <1> HIDE DEF q, item, seg, count, owing, more
  <1>9. Put(q) = Put(r) /\ Put(r) \in Int
    BY <1>1, <1>5, LedgerTypes DEF Put
  <1>10. ASSUME Honest(s) PROVE LevelOrBetter(q, r)
    <2>1. /\ Len(q.got) = Len(r.got) + 1 /\ q.got[Len(r.got) + 1] = item /\ Len(r.got) \in Nat
      BY <1>1, <1>5, <1>8, AppendProperties
    <2>2. item[2] # 0
      BY <1>7, <1>8, <1>10
    <2> HIDE DEF r
    <2>3. Returned(q) = Len(r.got) + 1
      BY <2>1, <2>2 DEF Returned
    <2>4. Returned(r) <= Len(r.got) /\ Returned(r) \in Nat
      BY <1>1, <2>1, LedgerTypes DEF Returned
    <2>5. Returned(q) > Returned(r) /\ Returned(q) \in Nat
      BY <2>1, <2>3, <2>4
    <2>6. Due(q) <= Due(r)
      BY <1>1, <1>5, <2>5, ReadCounted DEF count, owing, more
    <2> QED
      BY <1>9, <2>6 DEF LevelOrBetter
  <1> QED
    BY <1>1, <1>4, <1>6, <1>10, SolventSocket

\* EOF counts for nothing.
LEMMA ReadClosSolvent ==
    ASSUME TypeInv, NEW s \in Sockets, ReadClos(s)
    PROVE  Solvent
  <1> DEFINE r == sok[s]
             item == <<Head(r.incoming).num, 0>>
             q == [r EXCEPT !.reading = FALSE, !.incoming = Tail(r.incoming),
                            !.dead = TRUE, !.got = Append(r.got, item)]
  <1>1. r \in SocketRec /\ r.got \in Seq(Nums \X Nat)
    BY DEF TypeInv, Types, SocketRec
  <1>2. item \in Nums \X Nat
    <2>1. r.incoming \in Seq(SegmentRec) /\ r.incoming # <<>>
      BY <1>1 DEF ReadClos, SocketRec
    <2>2. Head(r.incoming) \in SegmentRec
      BY <2>1, HeadTailProperties
    <2> QED
      BY <2>2 DEF SegmentRec
  <1>3. sok' = [sok EXCEPT ![s] = q] /\ UNCHANGED <<idOf, wireOf, line, crossed>>
    BY <1>1 DEF ReadClos, socketOnly, SocketRec, TypeInv, Types
  <1>4. /\ q.sendwind = r.sendwind /\ q.sent = r.sent
        /\ q.recvcount = r.recvcount /\ q.owed = r.owed /\ q.got = Append(r.got, item)
    BY <1>1 DEF SocketRec
  <1>5. item[2] = 0
    OBVIOUS
  <1> HIDE DEF q, item
  <1>6. /\ Len(q.got) = Len(r.got) + 1 /\ q.got[Len(r.got) + 1] = item /\ Len(r.got) \in Nat
    BY <1>1, <1>2, <1>4, AppendProperties
  <1> HIDE DEF r
  <1>7. Returned(q) = Len(r.got)
    BY <1>5, <1>6 DEF Returned
  <1>8. Returned(r) <= Returned(q) /\ Returned(r) \in Nat /\ Returned(q) \in Nat
    BY <1>1, <1>6, <1>7, LedgerTypes DEF Returned
  <1>9. PICK b \in Nat, m \in Nat, g \in Nat, h \in Nat :
          b = Count * r.owed /\ m = Remaining(r) /\ g = Returned(r) /\ h = Returned(q)
    BY <1>1, <1>8, LedgerTypes, Numbers
  <1>10. Count * q.owed = Count * r.owed /\ Remaining(q) = Remaining(r)
    BY <1>4 DEF Remaining
  <1>11. Due(q) <= Due(r)
    BY <1>8, <1>9, <1>10, Numbers DEF Due
  <1>12. Put(q) = Put(r) /\ Put(r) \in Int
    BY <1>1, <1>4, LedgerTypes DEF Put
  <1>13. LevelOrBetter(q, r)
    BY <1>11, <1>12 DEF LevelOrBetter
  <1> QED
    BY <1>3, <1>13, SolventSocket DEF r

LEMMA SendIcwdCredited ==
    ASSUME TypeInv, NEW s \in Sockets, SendIcwd(s)
    PROVE  Credited(s)
  <1> DEFINE r == sok[s]
             q == [r EXCEPT !.owed = @ - 1]
             seg == Segment("ICWD", s[2], 0)
  <1>1. /\ r \in SocketRec /\ s[2] <= Len(idOf) /\ r.owed \in Nat /\ r.owed > 0
        /\ On(s) \in Wire /\ s[1] \in End
    BY Drawn DEF TypeInv, Types, SendIcwd, SocketRec
  <1>2. sok' = [sok EXCEPT ![s] = q] /\ UNCHANGED <<idOf, wireOf, crossed>>
    BY DEF SendIcwd, socketOnly, TypeInv, Types
  <1>3. sok'[s] = q /\ \A t \in Sockets \ {s} : sok'[t] = sok[t] /\ sok[t] \in SocketRec
    BY <1>2 DEF TypeInv, Types
  <1>4. /\ q.sendwind = r.sendwind /\ q.sent = r.sent
        /\ q.recvcount = r.recvcount /\ q.owed = r.owed - 1 /\ q.got = r.got
    BY <1>1 DEF SocketRec
  <1>5. line' = line \/ Pack(s, seg)
    BY DEF SendIcwd
  <1>segment. seg = Segment("ICWD", s[2], 0)
    OBVIOUS
  <1> HIDE DEF seg, q
  <1>6. seg \in SegmentRec /\ seg.flag = "ICWD" /\ seg.num = s[2]
    BY <1>1, <1>segment, SegmentFacts
  <1>7. \A t \in Sockets \ {s} : LevelOrBetter(sok'[t], sok[t])
    BY <1>3, LevelFacts DEF Level
  <1>8. Put(q) = Put(r) /\ Due(q) = Due(r) - Count
    <2> HIDE DEF r
    <2>1. Put(q) = Put(r) /\ Returned(q) = Returned(r) /\ Remaining(q) = Remaining(r)
      BY <1>4 DEF Put, Returned, Remaining
    <2>2. PICK x \in Nat : x = r.owed - 1 /\ r.owed = x + 1
      BY <1>1
    <2>3. Count * q.owed + Count = Count * r.owed /\ Count * q.owed \in Nat
      BY <1>4, <2>2, Products
    <2>4. Remaining(r) \in Nat /\ Returned(r) \in Nat /\ Count * r.owed \in Nat
      BY <1>1, LedgerTypes, Numbers
    <2>5. PICK b \in Nat, c \in Nat, m \in Nat, g \in Nat :
            /\ b = Count * r.owed /\ c = Count * q.owed
            /\ m = Remaining(r) /\ g = Returned(r)
      BY <2>3, <2>4
    <2> QED
      BY <2>1, <2>3, <2>5, Numbers DEF Due
  <1>9. ASSUME NEW v \in Wire, NEW e \in End, NEW n \in Nums
        PROVE  Icwds(line'[v][e], n) <= Icwds(line[v][e], n) + IF <<e, n>> = s THEN 1 ELSE 0
    <2>1. line[v][e] \in Seq(SegmentRec)
      BY DEF TypeInv, Types
    <2>2. Icwds(line[v][e], n) \in Nat
      BY <2>1, IcwdsFinite
    <2>3. CASE line' = line
      BY <2>2, <2>3
    <2>4. CASE Pack(s, seg)
      <3>1. PICK w \in Wire, f \in End : w = On(s) /\ f = s[1]
        BY <1>1
      <3>2. line' = IF Carries(w, f) THEN [line EXCEPT ![w][f] = Append(@, seg)] ELSE line
        BY <2>4, <3>1 DEF Pack
      <3>3. Icwds(line'[v][e], n)
              <= Icwds(line[v][e], n) + IF e = f /\ seg.flag = "ICWD" /\ seg.num = n THEN 1 ELSE 0
        BY <1>6, <3>2, IcwdsPacked
      <3>4. s = <<s[1], s[2]>>
        BY Ends
      <3>5. e = f /\ seg.flag = "ICWD" /\ seg.num = n <=> <<e, n>> = s
        BY <1>6, <3>1, <3>4
      <3> QED
        BY <3>3, <3>5
    <2> QED
      BY <1>5, <2>3, <2>4
  <1> QED
    BY <1>2, <1>3, <1>7, <1>8, <1>9 DEF Credited

\* A step of mainThread that takes a segment and no token
LEMMA UnpackedSolvent ==
    ASSUME TypeInv, NEW e \in End, NEW w \in Wire, line[w][Peer(e)] # <<>>, Unpacked(e, w),
           UNCHANGED <<idOf, wireOf, crossed>>, \A t \in Sockets : Level(sok'[t], sok[t])
    PROVE  Solvent
  <1>1. \A t \in Sockets : LevelOrBetter(sok'[t], sok[t])
    BY LevelFacts DEF TypeInv, Types
  <1>2. ASSUME NEW v \in Wire, NEW f \in End, NEW n \in Nums
        PROVE  Icwds(line'[v][f], n) <= Icwds(line[v][f], n)
    <2>1. line' \in [Wire -> [End -> Seq(SegmentRec)]]
      BY UnpackFacts DEF TypeInv
    <2>2. line'[v][f] \in Seq(SegmentRec)
      BY <2>1
    <2>3. Icwds(line'[v][f], n) \in Nat
      BY <2>2, IcwdsFinite
    <2>4. PICK seg : Without(w, Peer(e), seg)
      BY IcwdsUnpacked
    <2>5. \/ Icwds(line[v][f], n) = Icwds(line'[v][f], n) + 1
          \/ Icwds(line[v][f], n) = Icwds(line'[v][f], n)
      BY <2>4 DEF Without
    <2> QED
      BY <2>3, <2>5
  <1> QED
    BY <1>1, <1>2 DEF Solvent

LEMMA RecvOpenSolvent ==
    ASSUME TypeInv, NEW w \in Wire, RecvOpen(w)
    PROVE  Solvent
  <1>1. /\ Peer("server") = "client" /\ "server" \in End
        /\ line[w]["client"] # <<>> /\ Unpacked("server", w) /\ UNCHANGED <<idOf, wireOf, crossed>>
    BY Ends DEF RecvOpen, Receiving, receiving, Peer
  <1> DEFINE s == <<"server", Head(line[w]["client"]).num>>
  <1>2. sok' = [sok EXCEPT ![s].stage = "queued"]
    BY DEF RecvOpen
  <1> HIDE DEF s
  <1>3. \A t \in Sockets : Level(sok'[t], sok[t])
    BY <1>2 DEF Level, TypeInv, Types, SocketRec
  <1> QED
    BY <1>1, <1>3, UnpackedSolvent

LEMMA RecvSegmentSolvent ==
    ASSUME TypeInv, NEW e \in End, NEW w \in Wire, RecvSegment(e, w)
    PROVE  Solvent
  <1>1. line[w][Peer(e)] # <<>> /\ Unpacked(e, w) /\ UNCHANGED <<idOf, wireOf, crossed>>
    BY Zenon DEF RecvSegment, Receiving, receiving
  <1> DEFINE seg == Head(line[w][Peer(e)])
             dest == <<e, table[Owner(e, w)][seg.id]>>
  <1>2. \/ sok' = sok
        \/ sok' = [sok EXCEPT ![dest].incoming = Append(@, seg)]
    BY Zenon DEF RecvSegment
  <1> HIDE DEF dest, seg
  <1>3. ASSUME NEW t \in Sockets PROVE Level(sok'[t], sok[t])
    <2>1. sok[t] \in SocketRec /\ sok \in [Sockets -> SocketRec]
      BY DEF TypeInv, Types
    <2>2. \/ sok'[t] = sok[t]
          \/ sok'[t] = [sok[t] EXCEPT !.incoming = Append(@, seg)]
      BY <1>2, <2>1
    <2> QED
      BY <2>1, <2>2 DEF Level, SocketRec
  <1> QED
    BY <1>1, <1>3, UnpackedSolvent

LEMMA RecvIcwdCashed ==
    ASSUME TypeInv, NEW e \in End, NEW w \in Wire, RecvIcwd(e, w)
    PROVE  LET seg == line[w][Peer(e)][1]
               dest == <<e, table[Owner(e, w)][seg.id]>>
           IN  \/ Solvent
               \/ dest \in Sockets /\ Cashed(e, w, dest, seg.num)
  <1> DEFINE seg == line[w][Peer(e)][1]
             d == table[Owner(e, w)][seg.id]
             dest == <<e, d>>
  <1>1. /\ line[w][Peer(e)] # <<>> /\ Unpacked(e, w) /\ sub[e][w].main
        /\ UNCHANGED <<idOf, wireOf, crossed>>
    BY Zenon DEF RecvIcwd, Receiving, receiving
  <1>2. Head(line[w][Peer(e)]) = seg /\ seg.id \in Ids
    BY <1>1, TakenSegment
  <1>3. seg.flag = "ICWD"
    BY <1>2, Zenon DEF RecvIcwd, Receiving
  <1>4. \/ sok' = sok
        \/ /\ d # 0 /\ sok[dest].sendwind >= Count
           /\ sok' = [sok EXCEPT ![dest].sendwind = @ - Count]
    BY <1>2, Zenon DEF RecvIcwd
  <1>5. CASE sok' = sok
    <2>1. \A t \in Sockets : Level(sok'[t], sok[t])
      BY <1>5 DEF Level
    <2> QED
      BY <1>1, <2>1, UnpackedSolvent
  <1>6. CASE d # 0 /\ sok' = [sok EXCEPT ![dest].sendwind = @ - Count]
    <2>1. dest \in Sockets
      <3>1. d \in 0..Len(idOf)
        <4>1. Owner(e, w) \in Context
          BY ContextTypes
        <4> QED
          BY <1>2, <4>1 DEF TypeInv, Types
      <3>2. d # 0
        BY <1>6, Zenon
      <3>3. Len(idOf) \in Nat
        BY NumFacts
      <3> HIDE DEF d
      <3>4. d \in 1..Len(idOf)
        BY <3>1, <3>2, <3>3
      <3> QED
        BY <3>4, NumFacts
    <2> HIDE DEF dest
    <2> DEFINE r == sok[dest]
               q == [r EXCEPT !.sendwind = @ - Count]
    <2>2. sok' = [sok EXCEPT ![dest] = q] /\ r \in SocketRec
      BY <1>6, <2>1 DEF TypeInv, Types
    <2>3. sok'[dest] = q /\ \A t \in Sockets \ {dest} : sok'[t] = sok[t] /\ sok[t] \in SocketRec
      BY <2>1, <2>2 DEF TypeInv, Types
    <2>4. /\ q.sendwind = r.sendwind - Count /\ q.sent = r.sent
          /\ q.recvcount = r.recvcount /\ q.owed = r.owed /\ q.got = r.got
      BY <2>2 DEF SocketRec
    <2> HIDE DEF q, r
    <2>5. Put(q) = Put(r) - Count /\ Due(q) = Due(r)
      <3>1. r.sendwind \in Nat /\ r.sent \in Nat
        BY <2>2, LedgerTypes, Numbers
      <3> QED
        BY <2>4, <3>1, Numbers DEF Put, Due, Returned, Remaining
    <2>6. \A t \in Sockets \ {dest} : LevelOrBetter(sok'[t], sok[t])
      BY <2>3, LevelFacts DEF Level
    <2>7. \A v \in Wire, f \in End, n \in Nums :
            Icwds(line[v][f], n)
              = Icwds(line'[v][f], n) + IF v = w /\ f = Peer(e) /\ n = seg.num THEN 1 ELSE 0
      <3> SUFFICES ASSUME NEW v \in Wire, NEW f \in End, NEW n \in Nums
                   PROVE  Icwds(line[v][f], n)
                            = Icwds(line'[v][f], n)
                              + IF v = w /\ f = Peer(e) /\ n = seg.num THEN 1 ELSE 0
        OBVIOUS
      <3>1. Without(w, Peer(e), seg)
        BY <1>1, IcwdsUnpacked
      <3> HIDE DEF seg
      <3>2. /\ v = w /\ f = Peer(e) /\ n = seg.num
                 => Icwds(line[v][f], n) = Icwds(line'[v][f], n) + 1
            /\ ~(v = w /\ f = Peer(e) /\ n = seg.num)
                 => Icwds(line[v][f], n) = Icwds(line'[v][f], n)
        BY <1>3, <3>1 DEF Without
      <3>3. line' \in [Wire -> [End -> Seq(SegmentRec)]]
        BY <1>1, UnpackFacts DEF TypeInv
      <3>4. line'[v][f] \in Seq(SegmentRec)
        BY <3>3
      <3>5. Icwds(line'[v][f], n) \in Nat
        BY <3>4, IcwdsFinite
      <3> QED
        BY <3>2, <3>5
    <2> QED
      BY <1>1, <2>1, <2>3, <2>5, <2>6, <2>7, Zenon DEF Cashed, r, dest
  <1> QED
    BY <1>4, <1>5, <1>6, Zenon

\* What a step does to the accounts
LEMMA CreditSteps ==
    ASSUME StreamInv, [Next]_vars
    PROVE  \/ Solvent
           \/ \E s \in Sockets : Credited(s)
           \/ \E e \in End, w \in Wire :
                /\ \E seg : Takes(e, w, seg)
                /\ LET seg == line[w][Peer(e)][1]
                       dest == <<e, table[Owner(e, w)][seg.id]>>
                   IN  seg.flag = "ICWD" /\ dest \in Sockets /\ Cashed(e, w, dest, seg.num)
           \/ \E i \in Ids, w \in Wire : Draws(i, w)
  <1>1. TypeInv
    BY DEF StreamInv, RoutingInv
  <1>2. ASSUME UNCHANGED <<idOf, wireOf, sok, line, crossed>> PROVE Solvent
    <2>1. \A t \in Sockets : LevelOrBetter(sok'[t], sok[t])
      BY <1>1, <1>2, LevelFacts DEF Level, TypeInv, Types
    <2>2. ASSUME NEW v \in Wire, NEW f \in End, NEW n \in Nums
          PROVE  Icwds(line'[v][f], n) <= Icwds(line[v][f], n)
      <3>1. line[v][f] \in Seq(SegmentRec)
        BY <1>1 DEF TypeInv, Types
      <3>2. Icwds(line[v][f], n) \in Nat
        BY <3>1, IcwdsFinite
      <3> QED
        BY <1>2, <3>2
    <2> QED
      BY <1>2, <2>1, <2>2 DEF Solvent
  <1>3. ASSUME NEW s \in Sockets, Application(s) \/ Goroutine(s) PROVE Solvent \/ Credited(s)
    BY <1>1, <1>3, WriteSolvent, CloseSolvent, ReadDataSolvent, ReadClosSolvent, DyingSolvent,
       SendIcwdCredited
    DEF Application, Goroutine
  <1>4. ASSUME NEW e \in End, NEW w \in Wire, RecvIcwd(e, w)
        PROVE  \/ Solvent
               \/ /\ \E seg : Takes(e, w, seg)
                  /\ LET seg == line[w][Peer(e)][1]
                         dest == <<e, table[Owner(e, w)][seg.id]>>
                     IN  seg.flag = "ICWD" /\ dest \in Sockets /\ Cashed(e, w, dest, seg.num)
    <2>1. line[w][Peer(e)][1].flag = "ICWD"
      <3>1. line[w][Peer(e)] # <<>> /\ Head(line[w][Peer(e)]).flag = "ICWD"
        BY <1>4, Zenon DEF RecvIcwd, Receiving
      <3> QED
        BY <1>1, <3>1, TakenSegment
    <2> QED
      BY <1>1, <1>4, <2>1, RecvIcwdStep, RecvIcwdCashed
  <1>5. ASSUME NEW e \in End, NEW w \in Wire, RecvSegment(e, w) PROVE Solvent
    BY <1>1, <1>5, RecvSegmentSolvent
  <1>6. ASSUME \/ \E e \in End, w \in Wire : ReadError(e, w) \/ Watchdog(e, w) \/ CloseWire(e, w)
               \/ \E w \in Wire : AbsorbClient(w) \/ HandOver(w) \/ ReadSubid(w) \/ Cut(w)
               \/ Forget \/ Kill
        PROVE  Solvent
    BY <1>2, <1>6, Zenon
    DEF ReadError, Watchdog, CloseWire, AbsorbClient, HandOver, ReadSubid, Cut, Forget, Kill,
        contextOnly, absorbing, sockets
  <1>7. CASE UNCHANGED vars
    BY <1>2, <1>7 DEF vars, sockets
  <1>8. ASSUME NEW i \in Ids, NEW w \in Wire, Tunnel(i, w) PROVE Draws(i, w)
    BY <1>1, <1>8, TunnelStep
  <1>9. ASSUME NEW w \in Wire, RecvOpen(w) PROVE Solvent
    BY <1>1, <1>9, RecvOpenSolvent
  <1>10. ASSUME NEW c \in Context, Accept(c) PROVE Solvent
    BY <1>1, <1>10, AcceptSolvent
  <1> QED
    BY <1>3, <1>4, <1>5, <1>6, <1>7, <1>8, <1>9, <1>10 DEF Next, Duty, Admission, SubCtx

LEMMA AccountTypes ==
    ASSUME CreditInv, TypeInv', UNCHANGED <<idOf, wireOf>>, NEW e \in End,
           NEW n \in 1..Len(idOf), n \notin crossed
    PROVE  LET x == wireOf[n]
               i == Icwds(line[x][Peer(e)], n)
               j == Icwds(line'[x][Peer(e)], n)
               w == <<e, n>>
               r == <<Peer(e), n>>
           IN  /\ i \in Nat /\ j \in Nat /\ Peer(e) \in End /\ Peer(e) # e /\ n \in Nums
               /\ x \in Wire
               /\ w \in Sockets /\ r \in Sockets /\ Honest(w) /\ Honest(r) /\ w # r
               /\ Due(sok[r]) \in Int /\ Due(sok'[r]) \in Int
               /\ Put(sok[w]) \in Int /\ Put(sok'[w]) \in Int
               /\ Count * i + Due(sok[r]) <= Put(sok[w])
  <1>1. TypeInv
    BY DEF CreditInv, StreamInv, RoutingInv
  <1>2. /\ Peer(e) \in End /\ Peer(e) # e /\ n \in Nums /\ wireOf[n] \in Wire
        /\ <<e, n>> \in Sockets /\ <<Peer(e), n>> \in Sockets
    <2>1. Peer(e) \in End /\ Peer(e) # e
      BY DEF End, Peer
    <2> QED
      BY <1>1, <2>1, NumFacts
  <1>3. /\ sok[<<e, n>>] \in SocketRec /\ sok[<<Peer(e), n>>] \in SocketRec
        /\ sok'[<<e, n>>] \in SocketRec /\ sok'[<<Peer(e), n>>] \in SocketRec
    BY <1>1, <1>2 DEF TypeInv, Types
  <1>4. /\ line[wireOf[n]][Peer(e)] \in Seq(SegmentRec)
        /\ line'[wireOf[n]][Peer(e)] \in Seq(SegmentRec)
    <2>1. /\ line \in [Wire -> [End -> Seq(SegmentRec)]]
          /\ line' \in [Wire -> [End -> Seq(SegmentRec)]]
      BY <1>1 DEF TypeInv, Types
    <2> QED
      BY <1>2, <2>1
  <1>5. Icwds(line[wireOf[n]][Peer(e)], n) \in Nat /\ Icwds(line'[wireOf[n]][Peer(e)], n) \in Nat
    BY <1>4, IcwdsFinite
  <1>6. /\ Due(sok[<<Peer(e), n>>]) \in Int /\ Due(sok'[<<Peer(e), n>>]) \in Int
        /\ Put(sok[<<e, n>>]) \in Int /\ Put(sok'[<<e, n>>]) \in Int
    BY <1>3, LedgerTypes
  <1>7. Covered(e, n)
    BY DEF CreditInv, Credits
  <1> QED
    BY <1>2, <1>5, <1>6, <1>7 DEF Covered, Honest

LEMMA CreditsSolvent ==
    ASSUME CreditInv, TypeInv', Solvent
    PROVE  Credits'
  <1>1. UNCHANGED <<idOf, wireOf, crossed>>
    BY DEF Solvent
  <1> SUFFICES ASSUME NEW e \in End, NEW n \in 1..Len(idOf), n \notin crossed
               PROVE  Covered(e, n)'
    BY <1>1 DEF Credits
  <1> DEFINE i == Icwds(line[wireOf[n]][Peer(e)], n)
             j == Icwds(line'[wireOf[n]][Peer(e)], n)
             w == <<e, n>>
             r == <<Peer(e), n>>
  <1>2. /\ i \in Nat /\ j \in Nat /\ Peer(e) \in End /\ n \in Nums /\ wireOf[n] \in Wire
        /\ w \in Sockets /\ r \in Sockets /\ Honest(w) /\ Honest(r)
        /\ Due(sok[r]) \in Int /\ Due(sok'[r]) \in Int
        /\ Put(sok[w]) \in Int /\ Put(sok'[w]) \in Int
        /\ Count * i + Due(sok[r]) <= Put(sok[w])
    BY <1>1, AccountTypes
  <1>3. j <= i /\ Due(sok'[r]) <= Due(sok[r]) /\ Put(sok'[w]) >= Put(sok[w])
    BY <1>2 DEF Solvent, LevelOrBetter
  <1> HIDE DEF i, j, w, r
  <1>4. Count * j + Due(sok'[r]) <= Put(sok'[w])
    BY <1>2, <1>3, AccountKept
  <1> QED
    BY <1>1, <1>4 DEF Covered, j, w, r

LEMMA CreditsCredited ==
    ASSUME CreditInv, TypeInv', NEW s \in Sockets, Credited(s)
    PROVE  Credits'
  <1>1. UNCHANGED <<idOf, wireOf, crossed>>
    BY DEF Credited
  <1> SUFFICES ASSUME NEW e \in End, NEW n \in 1..Len(idOf), n \notin crossed
               PROVE  Covered(e, n)'
    BY <1>1 DEF Credits
  <1> DEFINE i == Icwds(line[wireOf[n]][Peer(e)], n)
             j == Icwds(line'[wireOf[n]][Peer(e)], n)
             w == <<e, n>>
             r == <<Peer(e), n>>
  <1>2. /\ i \in Nat /\ j \in Nat /\ Peer(e) \in End /\ n \in Nums /\ wireOf[n] \in Wire
        /\ w \in Sockets /\ r \in Sockets /\ w # r
        /\ Due(sok[r]) \in Int /\ Due(sok'[r]) \in Int
        /\ Put(sok[w]) \in Int /\ Put(sok'[w]) \in Int
        /\ Count * i + Due(sok[r]) <= Put(sok[w])
    BY <1>1, AccountTypes
  <1>3. Put(sok'[w]) >= Put(sok[w])
    BY <1>2 DEF Credited, LevelOrBetter
  <1>4. j <= i + IF r = s THEN 1 ELSE 0
    BY <1>2 DEF Credited
  <1>5. r = s => Due(sok'[r]) = Due(sok[r]) - Count
    BY DEF Credited
  <1>6. r # s => Due(sok'[r]) <= Due(sok[r])
    BY <1>2 DEF Credited, LevelOrBetter
  <1> HIDE DEF i, j, w, r
  <1>7. CASE r # s
    <2>1. j <= i
      BY <1>2, <1>4, <1>7
    <2>2. Count * j + Due(sok'[r]) <= Put(sok'[w])
      BY <1>2, <1>3, <1>6, <1>7, <2>1, AccountKept
    <2> QED
      BY <1>1, <2>2 DEF Covered, j, w, r
  <1>8. CASE r = s
    <2>1. j <= i + 1 /\ i + 1 \in Nat
      BY <1>2, <1>4, <1>8
    <2>2. Count * (i + 1) + (Due(sok[r]) - Count) <= Put(sok[w])
      <3>1. Count * (i + 1) = Count * i + Count /\ Count * i \in Nat
        BY <1>2, Products
      <3> QED
        BY <1>2, <3>1, Numbers
    <2>3. Due(sok[r]) - Count \in Int /\ Due(sok'[r]) <= Due(sok[r]) - Count
      BY <1>2, <1>5, <1>8, Numbers
    <2>4. Count * j + Due(sok'[r]) <= Put(sok'[w])
      BY <1>2, <1>3, <2>1, <2>2, <2>3, AccountKept
    <2> QED
      BY <1>1, <2>4 DEF Covered, j, w, r
  <1> QED
    BY <1>7, <1>8

LEMMA CreditsCashed ==
    ASSUME CreditInv, TypeInv', NEW f \in End, NEW x \in Wire, NEW seg, Takes(f, x, seg),
           seg.flag = "ICWD", NEW d \in Sockets, d = <<f, table[Owner(f, x)][seg.id]>>,
           Cashed(f, x, d, seg.num)
    PROVE  Credits'
  <1>1. UNCHANGED <<idOf, wireOf, crossed>>
    BY DEF Cashed
  <1>2. /\ RoutingInv /\ TypeInv /\ wireOf[seg.num] = x
    <2>1. RoutingInv /\ TypeInv /\ Silence
      BY DEF CreditInv, StreamInv, RoutingInv
    <2>2. PICK p \in End : Delivered(f, p, x, seg)
      BY <2>1, TakesFacts
    <2> QED
      BY <2>1, <2>2, Zenon DEF Delivered
  <1> SUFFICES ASSUME NEW e \in End, NEW n \in 1..Len(idOf), n \notin crossed
               PROVE  Covered(e, n)'
    BY <1>1 DEF Credits
  <1> DEFINE i == Icwds(line[wireOf[n]][Peer(e)], n)
             j == Icwds(line'[wireOf[n]][Peer(e)], n)
             w == <<e, n>>
             r == <<Peer(e), n>>
  <1>3. /\ i \in Nat /\ j \in Nat /\ Peer(e) \in End /\ Peer(e) # e /\ n \in Nums
        /\ wireOf[n] \in Wire
        /\ w \in Sockets /\ r \in Sockets /\ w # r /\ Honest(w) /\ Honest(r)
        /\ Due(sok[r]) \in Int /\ Due(sok'[r]) \in Int
        /\ Put(sok[w]) \in Int /\ Put(sok'[w]) \in Int
        /\ Count * i + Due(sok[r]) <= Put(sok[w])
    BY <1>1, AccountTypes
  <1>4. i = j + IF wireOf[n] = x /\ Peer(e) = Peer(f) /\ n = seg.num THEN 1 ELSE 0
    BY <1>3 DEF Cashed
  <1>5. Due(sok'[r]) <= Due(sok[r])
    <2>1. CASE r = d
      BY <1>3, <2>1 DEF Cashed
    <2>2. CASE r # d
      BY <1>3, <2>2 DEF Cashed, LevelOrBetter
    <2> QED
      BY <2>1, <2>2
  <1>6. w # d => Put(sok'[w]) >= Put(sok[w])
    BY <1>3 DEF Cashed, LevelOrBetter
  <1>7. w = d => Put(sok'[w]) = Put(sok[w]) - Count
    BY DEF Cashed
  <1>8. w = d <=> wireOf[n] = x /\ Peer(e) = Peer(f) /\ n = seg.num
    <2>1. Peer(e) = Peer(f) <=> e = f
      BY DEF End, Peer
    <2>2. n = seg.num <=> table[Owner(f, x)][seg.id] = n
      <3>1. n = seg.num => table[Owner(f, x)][seg.id] = n
        BY <1>2, Routed
      <3>2. table[Owner(f, x)][seg.id] = n => seg.num = n
        BY <1>2, NotAstray
      <3> QED
        BY <3>1, <3>2
    <2> QED
      BY <1>2, <2>1, <2>2
  <1> HIDE DEF i, j, w, r
  <1>9. CASE w # d
    <2>1. j <= i
      BY <1>3, <1>4, <1>8, <1>9
    <2>2. Count * j + Due(sok'[r]) <= Put(sok'[w])
      BY <1>3, <1>5, <1>6, <1>9, <2>1, AccountKept
    <2> QED
      BY <1>1, <2>2 DEF Covered, j, w, r
  <1>10. CASE w = d
    <2>1. i = j + 1
      BY <1>4, <1>8, <1>10
    <2>2. Count * j + Due(sok[r]) <= Put(sok[w]) - Count
      <3>1. Count * (j + 1) = Count * j + Count /\ Count * j \in Nat
        BY <1>3, Products
      <3>2. Count * (j + 1) + Due(sok[r]) <= Put(sok[w])
        BY <1>3, <2>1
      <3>3. PICK a \in Nat, c \in Nat, h \in Int, p \in Int :
              a = Count * j /\ c = Count /\ h = Due(sok[r]) /\ p = Put(sok[w])
        BY <1>3, <3>1, Numbers
      <3>4. a + c + h <= p
        BY <3>1, <3>2, <3>3
      <3>5. a + h <= p - c
        BY <3>4
      <3> QED
        BY <3>3, <3>5
    <2>3. Put(sok[w]) - Count \in Int
      BY <1>3, Numbers
    <2>4. j <= j /\ Put(sok'[w]) >= Put(sok[w]) - Count
      BY <1>3, <1>7, <1>10, <2>3
    <2>5. Count * j + Due(sok'[r]) <= Put(sok'[w])
      BY <1>3, <1>5, <2>2, <2>3, <2>4, AccountKept
    <2> QED
      BY <1>1, <2>5 DEF Covered, j, w, r
  <1> QED
    BY <1>9, <1>10

\* A tunnel that has just been drawn has an empty account.
LEMMA NewAccount ==
    ASSUME NEW w, NEW r, w.sendwind = 0, w.sent = 0, r.recvcount = 0, r.owed = 0, Len(r.got) = 0
    PROVE  Put(w) = 0 /\ Due(r) = 0
  <1>1. Count * r.owed = 0
    <2>1. 0 \in Nat
      OBVIOUS
    <2>2. Count * 0 = 0
      BY <2>1, Products
    <2> QED
      BY <2>2
  <1>2. Remaining(r) = Window /\ Returned(r) = 0
    BY DEF Remaining, Returned
  <1>3. Put(w) = 0
    BY DEF Put
  <1> QED
    BY <1>1, <1>2, <1>3, Numbers DEF Due

LEMMA CreditsDraws ==
    ASSUME CreditInv, TypeInv', NEW x \in Ids, NEW v \in Wire, Draws(x, v)
    PROVE  Credits'
  <1>1. TypeInv
    BY DEF CreditInv, StreamInv, RoutingInv
  <1>2. PICK m \in Nums, open \in SegmentRec : Drew(x, v, m, open)
    BY <1>1, DrawsFacts
  <1>3. /\ m = Len(idOf) + 1 /\ m \notin 1..Len(idOf)
        /\ \A k \in 1..Len(idOf) : wireOf'[k] = wireOf[k]
        /\ wireOf'[m] = v
        /\ \A k \in 1..Len(idOf') : k = m \/ k \in 1..Len(idOf)
        /\ \A f \in End : <<f, m>> \in Sockets /\ sok[<<f, m>>] = NewSocket
        /\ \A t \in Sockets : t # <<"client", m>> => sok'[t] = sok[t]
        /\ sok'[<<"client", m>>] = Opened(NewSocket)
    BY <1>2 DEF Drew
  <1>4. \A k \in crossed : k \in crossed'
    BY DEF Draws
  <1>5. PICK o \in SegmentRec :
          /\ o.flag = "OPEN" /\ o.num = m
          /\ \A y \in Wire, g \in End :
               line'[y][g] = line[y][g] \/ line'[y][g] = Append(line[y][g], o)
    BY <1>1, <1>3, DrawnLine
  <1>6. ASSUME NEW t \in Sockets PROVE Level(sok'[t], sok[t])
    <2>1. CASE t = <<"client", m>>
      <3>1. sok[t] = NewSocket /\ sok'[t] = Opened(NewSocket)
        BY <1>3, <2>1, Ends
      <3> QED
        BY <3>1 DEF Level, Opened, NewSocket
    <2>2. CASE t # <<"client", m>>
      <3>1. sok'[t] = sok[t]
        BY <1>3, <2>2
      <3> QED
        BY <3>1 DEF Level
    <2> QED
      BY <2>1, <2>2
  <1>7. ASSUME NEW y \in Wire, NEW g \in End, NEW n
        PROVE  Icwds(line'[y][g], n) = Icwds(line[y][g], n)
    <2>1. line[y][g] \in Seq(SegmentRec)
      BY <1>1 DEF TypeInv, Types
    <2>2. Icwds(Append(line[y][g], o), n) = Icwds(line[y][g], n)
      BY <1>5, <2>1, IcwdsAppend
    <2> QED
      BY <1>5, <2>2
  <1> SUFFICES ASSUME NEW e \in End, NEW n \in 1..Len(idOf'), n \notin crossed'
               PROVE  Covered(e, n)'
    BY DEF Credits
  <1> DEFINE w == <<e, n>>
             r == <<Peer(e), n>>
  <1>8. /\ n \in Nums /\ wireOf'[n] \in Wire /\ Peer(e) \in End
        /\ w \in Sockets /\ r \in Sockets
    <2>1. n \in Nums /\ (\A f \in End : <<f, n>> \in Sockets)
      BY <1>1, <1>3, NumFacts
    <2>2. wireOf'[n] \in Wire
      BY <1>1, <1>3, NumFacts
    <2> QED
      BY <2>1, <2>2, Ends
  <1>9. Put(sok'[w]) = Put(sok[w]) /\ Due(sok'[r]) = Due(sok[r])
    <2>1. sok[w] \in SocketRec /\ sok[r] \in SocketRec
      BY <1>1, <1>8 DEF TypeInv, Types
    <2>2. Level(sok'[w], sok[w]) /\ Level(sok'[r], sok[r])
      BY <1>6, <1>8
    <2> QED
      BY <2>1, <2>2, LevelFacts
  <1>10. CASE n \in 1..Len(idOf)
    <2>1. n \notin crossed
      BY <1>4
    <2>2. Covered(e, n)
      BY <1>10, <2>1 DEF CreditInv, Credits
    <2>3. wireOf'[n] = wireOf[n]
      BY <1>3, <1>10
    <2> QED
      BY <1>7, <1>8, <1>9, <2>2, <2>3 DEF Covered
  <1>11. CASE n = m
    <2>1. sok[w] = NewSocket /\ sok[r] = NewSocket
      BY <1>3, <1>8, <1>11
    <2>2. Put(sok[w]) = 0 /\ Due(sok[r]) = 0
      <3> HIDE DEF w, r
      <3>1. /\ sok[w].sendwind = 0 /\ sok[w].sent = 0
            /\ sok[r].recvcount = 0 /\ sok[r].owed = 0 /\ Len(sok[r].got) = 0
        BY <2>1 DEF NewSocket
      <3> QED
        BY <3>1, NewAccount
    <2>3. \A k \in 1..Len(line[wireOf'[n]][Peer(e)]) : line[wireOf'[n]][Peer(e)][k].num # n
      BY <1>1, <1>3, <1>8, <1>11, SegmentSocket
    <2>4. Icwds(line[wireOf'[n]][Peer(e)], n) = 0
      BY <2>3, IcwdsNone
    <2>5. Count * Icwds(line[wireOf'[n]][Peer(e)], n) = 0
      <3>1. 0 \in Nat
        OBVIOUS
      <3>2. Count * 0 = 0
        BY <3>1, Products
      <3> QED
        BY <2>4, <3>2
    <2> QED
      BY <1>7, <1>8, <1>9, <2>2, <2>5 DEF Covered
  <1> QED
    BY <1>3, <1>10, <1>11

LEMMA CreditStep ==
    ASSUME CreditInv, [Next]_vars
    PROVE  CreditInv'
  <1>1. StreamInv' /\ TypeInv'
    BY StreamStep DEF CreditInv, StreamInv, RoutingInv
  <1>2. ASSUME Solvent PROVE Credits'
    BY <1>1, <1>2, CreditsSolvent
  <1>3. ASSUME NEW s \in Sockets, Credited(s) PROVE Credits'
    BY <1>1, <1>3, CreditsCredited
  <1>4. ASSUME NEW e \in End, NEW w \in Wire, NEW seg, Takes(e, w, seg), NEW head,
               head = line[w][Peer(e)][1], head.flag = "ICWD",
               NEW d \in Sockets, d = <<e, table[Owner(e, w)][head.id]>>,
               Cashed(e, w, d, head.num)
        PROVE  Credits'
    <2>1. seg = head
      BY <1>4 DEF Takes
    <2> QED
      BY <1>1, <1>4, <2>1, CreditsCashed
  <1>5. ASSUME NEW i \in Ids, NEW w \in Wire, Draws(i, w) PROVE Credits'
    BY <1>1, <1>5, CreditsDraws
  <1>6. Credits'
    BY <1>2, <1>3, <1>4, <1>5, CreditSteps DEF CreditInv
  <1> QED
    BY <1>1, <1>6 DEF CreditInv

LEMMA InitCreditInv == Init => CreditInv
  <1> SUFFICES ASSUME Init PROVE CreditInv
    OBVIOUS
  <1>1. Len(idOf) = 0
    BY DEF Init
  <1> QED
    BY <1>1, InitStreamInv DEF CreditInv, Credits

-----------------------------------------------------------------------------
(* Why mainThread returns                                                   *)

\* The account of an honest tunnel, in numbers
LEMMA AccountFacts ==
    ASSUME CreditInv, NEW e \in End, NEW n \in 1..Len(idOf), n \notin crossed,
           NEW p, p = sok[<<e, n>>], NEW r, r = sok[<<Peer(e), n>>],
           NEW q, q = line[wireOf[n]][Peer(e)]
    PROVE  /\ p \in SocketRec /\ r \in SocketRec /\ Received(r, p, n)
           /\ p.sendwind \in 0..Window /\ p.sent \in Nat /\ Returned(r) \in Nat
           /\ Remaining(r) \in 0..Window
           /\ p.sendwind >= Count * Icwds(q, n) + p.sent - Returned(r) + Window - Remaining(r)
           /\ Icwds(q, n) \in Nat
  <1>1. TypeInv /\ StreamInv
    BY DEF CreditInv, StreamInv, RoutingInv
  <1>2. Peer(e) \in End /\ Peer(Peer(e)) = e /\ wireOf[n] \in Wire
    BY <1>1, Ends, NumFacts
  <1>3. p \in SocketRec /\ r \in SocketRec /\ Received(r, p, n)
    BY <1>1, <1>2, HonestStream
  <1>4. q \in Seq(SegmentRec)
    BY <1>1, <1>2 DEF TypeInv, Types
  <1>5. /\ p.sendwind \in 0..Window /\ p.sent \in Nat /\ Returned(r) \in Nat
        /\ Remaining(r) \in 0..Window /\ Count * r.owed \in Nat
    BY <1>3, LedgerTypes
  <1>6. Icwds(q, n) \in Nat /\ Count * Icwds(q, n) \in Nat
    BY <1>4, IcwdsFinite, Products
  <1>7. Count * Icwds(q, n) + Due(r) <= Put(p)
    BY DEF CreditInv, Credits, Covered
  <1>8. PICK c \in Nat, b \in Nat, m \in Nat, g \in Nat :
          /\ c = Count * Icwds(q, n) /\ b = Count * r.owed
          /\ m = Remaining(r) /\ g = Returned(r)
    <2>1. Remaining(r) \in Nat
      BY <1>5, Numbers
    <2> QED
      BY <1>5, <1>6, <2>1, Zenon
  <1>9. Due(r) = b + Window - m - g /\ Put(p) = p.sendwind - p.sent
    BY <1>8 DEF Due, Put
  <1>10. p.sendwind >= c + p.sent - g + Window - m
    <2>1. c + Due(r) <= Put(p)
      BY <1>7, <1>8
    <2>2. PICK k \in Nat, l \in Nat : k = p.sendwind /\ l = p.sent
      BY <1>5, Numbers
    <2>3. c + (b + Window - m - g) <= k - l
      BY <1>9, <2>1, <2>2
    <2>4. k >= c + l - g + Window - m
      BY <2>3, Numbers
    <2> QED
      BY <2>2, <2>4
  <1> QED
    BY <1>3, <1>5, <1>6, <1>8, <1>10

\* An ICWD of an honest tunnel finds as many tokens as it takes.
LEMMA IcwdServed ==
    ASSUME CreditInv, NEW e \in End, NEW w \in Wire, line[w][Peer(e)] # <<>>,
           NEW seg, seg = line[w][Peer(e)][1], seg.flag = "ICWD", seg.num \notin crossed
    PROVE  sok[<<e, seg.num>>].sendwind >= Count
  <1> DEFINE n == seg.num
             q == line[w][Peer(e)]
  <1>1. n \in 1..Len(idOf) /\ n \notin crossed /\ wireOf[n] = w
    BY TakenSegment DEF CreditInv, StreamInv, RoutingInv
  <1>2. PICK p, r : p = sok[<<e, n>>] /\ r = sok[<<Peer(e), n>>]
    OBVIOUS
  <1>3. q \in Seq(SegmentRec)
    BY Ends DEF CreditInv, StreamInv, RoutingInv, TypeInv, Types
  <1>4. Icwds(q, n) = Icwds(Tail(q), n) + 1 /\ Icwds(Tail(q), n) \in Nat
    <2>1. Tail(q) \in Seq(SegmentRec)
      BY <1>3, HeadTailProperties
    <2> QED
      BY <1>3, <2>1, IcwdsTail, IcwdsFinite
  <1> HIDE DEF n
  <1>5. q = line[wireOf[n]][Peer(e)]
    BY <1>1
  <1> HIDE DEF q
  <1>6. /\ p \in SocketRec /\ r \in SocketRec /\ Received(r, p, n)
        /\ p.sendwind \in 0..Window /\ p.sent \in Nat /\ Returned(r) \in Nat
        /\ Remaining(r) \in 0..Window
        /\ p.sendwind >= Count * Icwds(q, n) + p.sent - Returned(r) + Window - Remaining(r)
    BY <1>1, <1>2, <1>5, AccountFacts
  <1>7. Returned(r) <= p.sent
    BY <1>6, ReturnedSent
  <1>8. PICK i \in Nat : Icwds(q, n) = i + 1
    BY <1>4
  <1>9. Count * (i + 1) = Count * i + Count /\ Count * i \in Nat
    BY Products
  <1>10. PICK a \in Nat : a = Count * i
    BY <1>9
  <1>11. Count * Icwds(q, n) = a + Count
    BY <1>8, <1>9, <1>10
  <1>12. PICK k \in Nat, l \in Nat, g \in Nat, m \in Nat :
           k = p.sendwind /\ l = p.sent /\ g = Returned(r) /\ m = Remaining(r) /\ m <= Window
    BY <1>6, Numbers
  <1>13. k >= (a + Count) + l - g + Window - m
    BY <1>6, <1>11, <1>12
  <1>14. g <= l
    BY <1>7, <1>12
  <1>15. k >= Count
    <2>1. m <= Window
      BY <1>12
    <2>2. Window \in Nat /\ Count \in Nat
      BY Numbers
    <2> QED
      BY <1>13, <1>14, <2>1, <2>2, TokensLeft
  <1> QED
    BY <1>2, <1>12, <1>15 DEF n

\* DATA and CLOS of an honest tunnel find room, but for a CLOS behind a window
\* of DATA.
LEMMA SegmentServed ==
    ASSUME CreditInv, NEW e \in End, NEW w \in Wire, sub[e][w].main,
           line[w][Peer(e)] # <<>>, NEW seg, seg = line[w][Peer(e)][1],
           seg.flag \in {"DATA", "CLOS"}, seg.num \notin crossed,
           NEW r, r = sok[<<e, seg.num>>], ~(Len(r.incoming) < Window)
    PROVE  seg.flag = "CLOS" /\ Len(r.incoming) = Window
  <1> DEFINE n == seg.num
             q == line[w][Peer(e)]
             back == line[w][e]
  <1>1. TypeInv /\ StreamInv
    BY DEF CreditInv, StreamInv, RoutingInv
  <1>2. n \in 1..Len(idOf) /\ n \notin crossed /\ 1 \in 1..Len(q) /\ wireOf[n] = w
        /\ seg \in SegmentRec
    BY <1>1, TakenSegment
  <1>3. Peer(e) \in End /\ Peer(Peer(e)) = e
    BY Ends
  <1>4. PICK p : p = sok[<<Peer(e), n>>]
    OBVIOUS
  <1>5. q[1] = seg /\ seg.num = n
    OBVIOUS
  <1> HIDE DEF n
  <1>6. q = line[wireOf[n]][Peer(e)] /\ back = line[wireOf[n]][Peer(Peer(e))] /\ r = sok[<<e, n>>]
    BY <1>2, <1>3, <1>5
  <1> HIDE DEF q, back
  <1>7. Coming(r, p.sent, q, n, Hale(wireOf[n]))
    <2>1. Able(e, wireOf[n])
      BY <1>2 DEF Able
    <2> QED
      BY <1>1, <1>2, <1>4, <1>6, <2>1, HonestStream
  <1>8. r \in SocketRec /\ Len(r.incoming) <= Window
    <2>1. <<e, n>> \in Sockets
      BY <1>1, <1>2, NumFacts
    <2> QED
      BY <1>1, <1>6, <2>1 DEF TypeInv, Types, Bounds
  <1>9. /\ p \in SocketRec /\ Received(r, p, n)
        /\ p.sendwind \in 0..Window /\ p.sent \in Nat /\ Returned(r) \in Nat
        /\ Remaining(r) \in 0..Window
        /\ p.sendwind >= Count * Icwds(back, n) + p.sent - Returned(r) + Window - Remaining(r)
        /\ Icwds(back, n) \in Nat
    <2>1. r = sok[<<Peer(Peer(e)), n>>]
      BY <1>3, <1>6
    <2> QED
      BY <1>2, <1>3, <1>4, <1>6, <2>1, AccountFacts
  <1>10. ~Ended(r)
    BY <1>2, <1>5, <1>7 DEF Coming
  <1>11. PICK G \in Nat, I \in Nat : Len(r.got) = G /\ Len(r.incoming) = I
    BY <1>8, SocketLengths
  <1>12. I = Window
    BY <1>8, <1>11, Numbers
  <1>13. Returned(r) = G /\ G + I <= p.sent
    BY <1>8, <1>9, <1>10, <1>11, ReturnedSent
  <1>14. PICK c \in Nat, m \in Nat : c = Count * Icwds(back, n) /\ m = Remaining(r)
    BY <1>9, Products, Numbers
  <1>15. G + Window = p.sent
    <2>1. p.sendwind >= c + p.sent - G + Window - m
      BY <1>9, <1>13, <1>14
    <2>2. PICK k \in Nat, l \in Nat : k = p.sendwind /\ l = p.sent /\ k <= Window
      BY <1>9, Numbers
    <2>3. m <= Window
      BY <1>9, <1>14
    <2>4. k >= c + l - G + Window - m /\ G + Window <= l
      BY <1>12, <1>13, <2>1, <2>2
    <2>5. G + Window = l
      BY <2>2, <2>3, <2>4, Numbers
    <2> QED
      BY <2>2, <2>5
  <1>16. seg.flag # "DATA"
    <2>1. ASSUME seg.flag = "DATA" PROVE Arrived(r) < p.sent
      <3>1. Arrived(r) < q[1].pos /\ q[1].pos <= p.sent
        BY <1>2, <1>5, <1>7, <1>10, <2>1 DEF Coming, Data
      <3>2. q[1].pos \in Nat
        BY <1>2, <1>5 DEF SegmentRec
      <3>3. Arrived(r) = G + I
        BY <1>11 DEF Arrived
      <3> QED
        BY <1>9, <3>1, <3>2, <3>3
    <2>2. Arrived(r) = G + Window
      BY <1>11, <1>12 DEF Arrived
    <2> QED
      <3>1. p.sent \in Nat /\ ~(p.sent < p.sent)
        BY <1>9
      <3> QED
        BY <1>15, <2>1, <2>2, <3>1
  <1> QED
    BY <1>11, <1>12, <1>16

\* A mainThread that ends over a segment ends over one of its own.
LEMMA FailsAlone ==
    ASSUME TypeInv, NEW e \in End, NEW w \in Wire, sub[e][w].main, ~sub'[e][w].main,
           line'[w] # line[w], NEW f \in End, NEW x \in Wire, line[x][Peer(f)] # <<>>,
           Unpacked(f, x), GoesOn \/ Fail(f, x)
    PROVE  f = e /\ x = w /\ ~GoesOn
  <1>1. sub \in [End -> [Wire -> SubRec]] /\ line \in [Wire -> [End -> Seq(SegmentRec)]]
    BY DEF TypeInv, Types
  <1>2. ~GoesOn
    BY DEF GoesOn
  <1>3. x = w
    BY <1>1 DEF Unpacked
  <1>4. sub' = [sub EXCEPT ![f][x] = [@ EXCEPT !.dead = TRUE, !.main = FALSE, !.open = FALSE]]
    BY <1>2 DEF Fail
  <1>5. f # e => sub'[e] = sub[e]
    BY <1>1, <1>4
  <1> QED
    BY <1>2, <1>3, <1>5

\* Which step makes a mainThread return over a segment, and over which
LEMMA FailingStep ==
    ASSUME TypeInv, [Next]_vars, NEW e \in End, NEW w \in Wire, sub[e][w].main,
           ~sub'[e][w].main, line'[w] # line[w],
           NEW seg, seg = line[w][Peer(e)][1],
           NEW dest, dest = <<e, table[Owner(e, w)][seg.id]>>
    PROVE  /\ line[w][Peer(e)] # <<>> /\ Head(line[w][Peer(e)]) = seg /\ Takes(e, w, seg)
           /\ \/ seg.flag = "OPEN" /\ ~(Len(acptQueue[Owner(e, w)]) < AcceptCap)
              \/ seg.flag = "ICWD" /\ ~(dest[2] # 0 /\ sok[dest].sendwind >= Count)
              \/ seg.flag \in {"DATA", "CLOS"}
                 /\ ~(dest[2] # 0 /\ Len(sok[dest].incoming) < Window)
  <1> DEFINE Goal == /\ line[w][Peer(e)] # <<>> /\ Head(line[w][Peer(e)]) = seg
                     /\ Takes(e, w, seg)
                     /\ \/ seg.flag = "OPEN" /\ ~(Len(acptQueue[Owner(e, w)]) < AcceptCap)
                        \/ seg.flag = "ICWD" /\ ~(dest[2] # 0 /\ sok[dest].sendwind >= Count)
                        \/ seg.flag \in {"DATA", "CLOS"}
                           /\ ~(dest[2] # 0 /\ Len(sok[dest].incoming) < Window)
  <1>1. ASSUME NEW x \in Wire, RecvOpen(x) PROVE Goal
    <2>1. /\ line[x]["client"] # <<>> /\ Unpacked("server", x)
          /\ Head(line[x]["client"]).flag = "OPEN" /\ Peer("server") = "client"
          /\ \/ Len(acptQueue[given[x]]) < AcceptCap /\ GoesOn
             \/ ~(Len(acptQueue[given[x]]) < AcceptCap) /\ Fail("server", x)
      BY <1>1 DEF RecvOpen, Receiving, Peer
    <2>2. e = "server" /\ x = w /\ ~GoesOn
      BY <2>1, Ends, FailsAlone
    <2>3. line[w][Peer(e)] # <<>> /\ Head(line[w][Peer(e)]) = seg
      BY <2>1, <2>2, TakenSegment
    <2>4. PICK s : Takes(e, w, s)
      BY <1>1, <2>2, RecvOpenStep
    <2>5. s = seg
      BY <2>4, Zenon DEF Takes
    <2> QED
      BY <2>1, <2>2, <2>3, <2>4, <2>5 DEF Owner
  <1>2. ASSUME NEW f \in End, NEW x \in Wire, RecvIcwd(f, x) PROVE Goal
    <2>1. /\ line[x][Peer(f)] # <<>> /\ Unpacked(f, x)
          /\ Head(line[x][Peer(f)]).flag = "ICWD" /\ (GoesOn \/ Fail(f, x))
      BY <1>2, Zenon DEF RecvIcwd, Receiving
    <2>2. f = e /\ x = w /\ ~GoesOn
      BY <2>1, FailsAlone
    <2>3. line[w][Peer(e)] # <<>> /\ Head(line[w][Peer(e)]) = seg
      BY <2>1, <2>2, TakenSegment
    <2>4. ~(dest[2] # 0 /\ sok[dest].sendwind >= Count)
      BY <1>2, <2>2, <2>3, Zenon DEF RecvIcwd
    <2>5. PICK s : Takes(e, w, s)
      BY <1>2, <2>2, RecvIcwdStep
    <2>6. s = seg
      BY <2>5, Zenon DEF Takes
    <2> QED
      BY <2>1, <2>2, <2>3, <2>4, <2>5, <2>6
  <1>3. ASSUME NEW f \in End, NEW x \in Wire, RecvSegment(f, x) PROVE Goal
    <2>1. /\ line[x][Peer(f)] # <<>> /\ Unpacked(f, x)
          /\ Head(line[x][Peer(f)]).flag \in {"DATA", "CLOS"} /\ (GoesOn \/ Fail(f, x))
      BY <1>3, Zenon DEF RecvSegment, Receiving
    <2>2. f = e /\ x = w /\ ~GoesOn
      BY <2>1, FailsAlone
    <2>3. line[w][Peer(e)] # <<>> /\ Head(line[w][Peer(e)]) = seg
      BY <2>1, <2>2, TakenSegment
    <2>4. ~(dest[2] # 0 /\ Len(sok[dest].incoming) < Window)
      BY <1>3, <2>2, <2>3, Zenon DEF RecvSegment, HasRoom
    <2>5. PICK s : Takes(e, w, s)
      BY <1>3, <2>2, RecvSegmentStep
    <2>6. s = seg
      BY <2>5 DEF Takes
    <2> QED
      BY <2>1, <2>2, <2>3, <2>4, <2>5, <2>6
  <1>4. ASSUME sub' = sub \/ line' = line PROVE FALSE
    BY <1>4
  <1>5. ASSUME \/ \E f \in End, x \in Wire : ReadError(f, x) \/ Watchdog(f, x) \/ CloseWire(f, x)
               \/ \E x \in Wire : AbsorbClient(x) \/ HandOver(x) \/ ReadSubid(x) \/ Cut(x)
               \/ Forget \/ Kill
        PROVE  line' = line
    BY <1>5, Zenon
    DEF ReadError, Watchdog, CloseWire, AbsorbClient, HandOver, ReadSubid, Cut, Forget, Kill,
        contextOnly, absorbing
  <1>6. ASSUME NEW s \in Sockets, Application(s) \/ Goroutine(s) PROVE sub' = sub
    BY <1>6, Zenon
    DEF Application, Goroutine, Write, Close, ReadData, ReadClos, ReadDying, SocketTimeout,
        SendIcwd, TieUp, socketOnly
  <1>7. ASSUME \/ \E i \in Ids, x \in Wire : Tunnel(i, x)
               \/ \E c \in Context : Accept(c)
               \/ UNCHANGED vars
        PROVE  sub' = sub
    BY <1>7 DEF Tunnel, Accept, vars
  <1> HIDE DEF Goal
  <1>8. Goal
    BY <1>1, <1>2, <1>3, <1>4, <1>5, <1>6, <1>7 DEF Next, Duty, Admission, SubCtx
  <1> QED
    BY <1>8 DEF Goal

\* For every window, credit and number of ids, wires and tunnels: over a wire
\* that works mainThread fails, and costs the session, only for an id that Tunnel
\* has drawn too early, a full accept queue, or a CLOS behind a window of DATA
\* that the application has not read; never for credits, and never for DATA.
THEOREM Niaucchi2FailuresExplained == Spec => FailuresExplained
  <1> DEFINE A == \A e \in End, w \in Wire :
               sub[e][w].main /\ ~sub'[e][w].main /\ line'[w] # line[w] =>
                 LET seg == Head(line[w][Peer(e)])
                 IN  \/ seg.num \in crossed
                     \/ seg.flag = "OPEN" /\ Len(acptQueue[Owner(e, w)]) = AcceptCap
                     \/ seg.flag = "CLOS" /\ Len(sok[<<e, seg.num>>].incoming) = Window
  <1>1. CreditInv /\ [Next]_vars => A
    <2> SUFFICES ASSUME CreditInv, [Next]_vars, NEW e \in End, NEW w \in Wire,
                        sub[e][w].main, ~sub'[e][w].main, line'[w] # line[w],
                        NEW seg, seg = Head(line[w][Peer(e)]), seg.num \notin crossed
                 PROVE  \/ seg.flag = "OPEN" /\ Len(acptQueue[Owner(e, w)]) = AcceptCap
                        \/ seg.flag = "CLOS" /\ Len(sok[<<e, seg.num>>].incoming) = Window
      OBVIOUS
    <2>1. RoutingInv /\ TypeInv
      BY DEF CreditInv, StreamInv, RoutingInv
    <2>2. seg = line[w][Peer(e)][1]
      <3>1. PICK s : s = line[w][Peer(e)][1]
        OBVIOUS
      <3>2. Head(line[w][Peer(e)]) = s
        BY <2>1, <3>1, FailingStep
      <3> QED
        BY <3>1, <3>2
    <2> DEFINE dest == <<e, table[Owner(e, w)][seg.id]>>
    <2>3. /\ line[w][Peer(e)] # <<>> /\ Takes(e, w, seg)
          /\ \/ seg.flag = "OPEN" /\ ~(Len(acptQueue[Owner(e, w)]) < AcceptCap)
             \/ seg.flag = "ICWD" /\ ~(dest[2] # 0 /\ sok[dest].sendwind >= Count)
             \/ seg.flag \in {"DATA", "CLOS"}
                /\ ~(dest[2] # 0 /\ Len(sok[dest].incoming) < Window)
      BY <2>1, <2>2, FailingStep
    <2>4. seg.num \in 1..Len(idOf) /\ seg.num # 0
      <3>1. seg.num \in 1..Len(idOf)
        BY <2>1, <2>2, <2>3, TakenSegment, Zenon
      <3>2. \A n \in 1..Len(idOf) : n # 0
        BY <2>1, NumFacts, Ranges
      <3> QED
        BY <3>1, <3>2
    <2>5. seg.flag # "OPEN" => dest = <<e, seg.num>> /\ dest[2] # 0
      BY <2>1, <2>2, <2>3, <2>4, Routed
    <2>6. CASE seg.flag = "OPEN" /\ ~(Len(acptQueue[Owner(e, w)]) < AcceptCap)
      <3>1. PICK c \in Context : c = Owner(e, w)
        BY <2>1, ContextTypes
      <3>2. Len(acptQueue[c]) <= AcceptCap /\ acptQueue[c] \in Seq(1..Len(idOf))
        BY <2>1 DEF TypeInv, Types, Bounds
      <3>3. Len(acptQueue[c]) \in Nat
        BY <3>2
      <3> QED
        BY <2>6, <3>1, <3>2, <3>3, Numbers
    <2>7. CASE seg.flag = "ICWD" /\ ~(dest[2] # 0 /\ sok[dest].sendwind >= Count)
      <3>1. dest = <<e, seg.num>> /\ dest[2] # 0
        BY <2>5, <2>7
      <3>2. sok[<<e, seg.num>>].sendwind >= Count
        BY <2>2, <2>3, <2>7, IcwdServed, Zenon
      <3> QED
        BY <2>7, <3>1, <3>2
    <2>8. CASE /\ seg.flag \in {"DATA", "CLOS"}
               /\ ~(dest[2] # 0 /\ Len(sok[dest].incoming) < Window)
      <3>1. dest = <<e, seg.num>> /\ dest[2] # 0
        BY <2>5, <2>8
      <3>2. ~(Len(sok[<<e, seg.num>>].incoming) < Window)
        BY <2>8, <3>1
      <3> QED
        BY <2>2, <2>3, <2>8, <3>2, SegmentServed, Zenon
    <2> HIDE DEF dest
    <2> QED
      BY <2>3, <2>6, <2>7, <2>8
  <1>2. FailuresExplained <=> [][A]_vars
    BY DEF FailuresExplained
  <1>3. CreditInv /\ [Next]_vars => CreditInv'
    BY CreditStep
  <1> HIDE DEF A
  <1> QED
    BY <1>1, <1>2, <1>3, InitCreditInv, PTL DEF Spec
=============================================================================
