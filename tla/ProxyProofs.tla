---------------------------- MODULE ProxyProofs ----------------------------
(* What the client and the exit keep between them for any tables, any       *)
(* whitelist, any capacity of the connections, any number of pieces and any *)
(* number of faults: the exit never dials a local address, requests go the  *)
(* way filterDest is for, each user reads what the other has written, and   *)
(* nobody is cut off without a cause.                                       *)
(*                                                                          *)
(* Four layers, each proved from the one before: the control (who is in     *)
(* which phase), the shape of the queues (what may be on its way in these   *)
(* phases), the flow (the numbers of the pieces in the queues, in the loops *)
(* and at the users fit together), and the ends (who has closed which, and  *)
(* that nothing was left to copy when he did).                              *)
EXTENDS Proxy, SequenceTheorems, TLAPS

-----------------------------------------------------------------------------
(* GetCountry finds the country of every address in every ascending table.  *)
\* The loop invariant: the bounds keep at least one row between them, lie in
\* the table, and no row outside them holds the address (rows lo+1..hi of the
\* sequence are lo..hi-1 of the slice).
GeoInv ==
    /\ slice \in Seq(Row) /\ Ascending(slice)
    /\ ipint \in Nat
    /\ lo \in Nat /\ hi \in Nat /\ lo < hi /\ hi <= Len(slice)
    /\ \A k \in 1..Len(slice) : Within(k) => lo < k /\ k <= hi
    /\ CountryIsRight

\* A row of the table is a row, its fields have their types.
LEMMA RowType ==
  ASSUME GeoInv, NEW k \in 1..Len(slice)
  PROVE  /\ slice[k] \in Row
         /\ slice[k].from \in Nat /\ slice[k].to \in Nat
         /\ slice[k].ctry \in Countries
         /\ slice[k].from <= slice[k].to
<1>1. slice[k] \in Row
  BY DEF GeoInv
<1>2. slice[k].from <= slice[k].to
  BY DEF GeoInv, Ascending
<1> QED
  BY <1>1, <1>2 DEF Row

\* A search starts with the whole table.
LEMMA GeoStart == ASSUME NEW ip \in Nat, GeoInit(ip) PROVE GeoInv
<1>1. slice \in Seq(Row) /\ Ascending(slice)
  BY GeoAssumption DEF GeoInit
<1>2. Len(slice) \in Nat /\ Len(slice) > 0
  BY <1>1 DEF Ascending
<1>3. lo = 0 /\ hi = Len(slice) /\ ipint = ip /\ ctry = "none"
  BY DEF GeoInit
<1>4. CountryIsRight
  BY <1>3 DEF CountryIsRight
<1>5. \A k \in 1..Len(slice) : Within(k) => lo < k /\ k <= hi
  BY <1>2, <1>3
<1> QED
  BY <1>1, <1>2, <1>3, <1>4, <1>5 DEF GeoInv

\* The row in the middle lies in the table and strictly below the upper bound.
LEMMA Middle ==
  ASSUME GeoInv
  PROVE  LET mid == (lo + hi) \div 2
         IN  mid \in Nat /\ lo <= mid /\ mid < hi /\ mid + 1 \in 1..Len(slice)
  BY DEF GeoInv

\* One turn of the loop keeps the invariant: what it cuts off lies wholly above
\* or wholly below the row in the middle, and so does the address not.
LEMMA GeoStep == ASSUME GeoInv, Probe PROVE GeoInv'
<1>1. PICK mid \in Nat : mid = (lo + hi) \div 2
  BY Middle
<1>2. lo <= mid /\ mid < hi /\ mid + 1 \in 1..Len(slice)
  BY <1>1, Middle
<1> DEFINE row == slice[mid + 1]
<1>3. UNCHANGED <<slice, ipint>> /\ ctry = "none"
  BY DEF Probe
<1>4. \A k \in 1..Len(slice) :
        slice[k].from \in Nat /\ slice[k].to \in Nat /\ slice[k].from <= slice[k].to
  BY RowType
<1>5. CASE Holds(row) /\ ctry' = row.ctry /\ UNCHANGED <<lo, hi>>
  <2>1. Within(mid + 1)'
    BY <1>3, <1>5 DEF Within, Holds
  <2>2. CountryIsRight'
    BY <1>2, <1>3, <1>5, <2>1 DEF CountryIsRight
  <2> QED
    BY <1>3, <1>5, <2>2 DEF GeoInv, Within
<1>6. CASE ~Holds(row) /\ (lo = mid \/ mid = hi) /\ ctry' = "UN" /\ UNCHANGED <<lo, hi>>
  <2>1. hi = lo + 1 /\ lo = mid
    BY <1>1, <1>2, <1>6 DEF GeoInv
  <2>2. \A k \in 1..Len(slice) : ~Within(k)
    BY <1>2, <1>6, <2>1 DEF GeoInv, Within, Holds
  <2>3. CountryIsRight'
    BY <1>3, <1>6, <2>2 DEF CountryIsRight, Within
  <2> QED
    BY <1>3, <1>6, <2>3 DEF GeoInv, Within
<1>7. CASE ~Holds(row) /\ lo # mid /\ ipint < row.from /\ hi' = mid /\ lo' = lo /\ ctry' = ctry
  <2>1. ASSUME NEW k \in 1..Len(slice), Within(k) PROVE k <= mid
    <3>1. CASE k = mid + 1
      BY <1>2, <1>4, <1>7, <2>1, <3>1 DEF Within, GeoInv
    <3>2. CASE k > mid + 1
      BY <1>2, <1>4, <1>7, <2>1, <3>2 DEF Within, GeoInv, Ascending
    <3> QED
      BY <3>1, <3>2
  <2>2. CountryIsRight'
    BY <1>3, <1>7 DEF CountryIsRight
  <2> QED
    BY <1>2, <1>3, <1>7, <2>1, <2>2 DEF GeoInv, Within
<1>8. CASE ~Holds(row) /\ lo # mid /\ ~(ipint < row.from) /\ lo' = mid /\ hi' = hi /\ ctry' = ctry
  <2>1. ASSUME NEW k \in 1..Len(slice), Within(k) PROVE mid < k
    <3>1. row.to < ipint
      BY <1>2, <1>4, <1>8 DEF Holds, GeoInv
    <3>2. CASE k < mid + 1
      BY <1>2, <1>4, <2>1, <3>1, <3>2 DEF Within, GeoInv, Ascending
    <3> QED
      BY <1>2, <3>2
  <2>2. CountryIsRight'
    BY <1>3, <1>8 DEF CountryIsRight
  <2> QED
    BY <1>2, <1>3, <1>8, <2>1, <2>2 DEF GeoInv, Within
<1> QED
  BY <1>1, <1>5, <1>6, <1>7, <1>8 DEF Probe

\* Steps that leave the search alone keep the invariant.
LEMMA GeoStutter == ASSUME GeoInv, UNCHANGED geoVars PROVE GeoInv'
  BY DEF GeoInv, geoVars, Within, CountryIsRight

\* The loop invariant of GetCountry holds throughout every search.
THEOREM GeoSafe == GeoSpec => []GeoInv
<1>1. (\E ip \in Nat : GeoInit(ip)) => GeoInv
  BY GeoStart
<1>2. GeoInv /\ [Probe]_geoVars => GeoInv'
  BY GeoStep, GeoStutter
<1> QED
  BY <1>1, <1>2, PTL DEF GeoSpec

\* What GetCountry returns is the country of the row that holds the address.
THEOREM GeoCountryIsRight == GeoSpec => []CountryIsRight
<1>1. GeoInv => CountryIsRight
  BY DEF GeoInv
<1> QED
  BY <1>1, GeoSafe, PTL

\* Every turn of the loop returns or leaves fewer rows, so that the loop ends.
THEOREM GeoNarrows == GeoSpec => [][ctry' # "none" \/ hi' - lo' < hi - lo]_geoVars
<1>1. GeoInv /\ Probe => ctry' # "none" \/ hi' - lo' < hi - lo
  <2> SUFFICES ASSUME GeoInv, Probe PROVE ctry' # "none" \/ hi' - lo' < hi - lo
    OBVIOUS
  <2>1. PICK mid \in Nat : mid = (lo + hi) \div 2
    BY Middle
  <2>2. lo <= mid /\ mid < hi /\ mid + 1 \in 1..Len(slice)
    BY <2>1, Middle
  <2>3. slice[mid + 1].ctry # "none"
    BY <2>2, RowType, GeoAssumption
  <2> QED
    BY <2>1, <2>2, <2>3 DEF Probe, GeoInv
<1> QED
  BY <1>1, GeoSafe, PTL DEF GeoSpec

-----------------------------------------------------------------------------
(* The shape of connections and channels.                                   *)

Tag == {"hello", "connect", "junk", "long", "method", "code", "name", "addrs", "dest", "data"}
Item == Tag \X Nat
ConnRec == [up : Seq(Item), down : Seq(Item), left : BOOLEAN, right : BOOLEAN]
Conns == [Conn -> ConnRec]
Dir == {"up", "down"}
Channel == Conn \X Dir

\* The queue of a channel in connections cn
Q(cn, ch) == cn[ch[1]][ch[2]]

LEMMA Names ==
    /\ \A ch \in Channel : ch[1] \in Conn /\ ch[2] \in Dir /\ ch = <<ch[1], ch[2]>>
    /\ \A c \in Conn : Up(c) \in Channel /\ Down(c) \in Channel
    /\ \A c \in Conn : Up(c)[1] = c /\ Up(c)[2] = "up" /\ Down(c)[1] = c /\ Down(c)[2] = "down"
    /\ \A ch \in Channel : Writer(ch) \in Side /\ Reader(ch) \in Side
    /\ \A ch \in Channel : ch = Up(ch[1]) \/ ch = Down(ch[1])
  BY DEF Channel, Dir, Up, Down, Writer, Reader, Side

LEMMA QueueType ==
    ASSUME NEW cn \in Conns, NEW ch \in Channel
    PROVE  Q(cn, ch) \in Seq(Item)
  <1>1. cn[ch[1]] \in ConnRec
    BY Names DEF Conns
  <1>2. ch[2] = "up" \/ ch[2] = "down"
    BY DEF Channel, Dir
  <1> QED
    BY <1>1, <1>2 DEF Q, ConnRec

LEMMA EndType ==
    ASSUME NEW cn \in Conns, NEW c \in Conn, NEW s \in Side
    PROVE  cn[c][s] \in BOOLEAN
  <1>1. cn[c] \in ConnRec
    BY DEF Conns
  <1> QED
    BY <1>1 DEF Side, ConnRec

\* Connections cn with another queue in a channel
With(cn, ch, q) == [cn EXCEPT ![ch[1]][ch[2]] = q]

LEMMA QueueSet ==
    ASSUME NEW cn \in Conns, NEW ch \in Channel, NEW q \in Seq(Item)
    PROVE  /\ With(cn, ch, q) \in Conns
           /\ \A a \in Channel : Q(With(cn, ch, q), a) = IF a = ch THEN q ELSE Q(cn, a)
           /\ \A c \in Conn, s \in Side : With(cn, ch, q)[c][s] = cn[c][s]
  <1> DEFINE new == With(cn, ch, q)
             r == [cn[ch[1]] EXCEPT ![ch[2]] = q]
  <1>1. cn[ch[1]] \in ConnRec /\ ch[1] \in Conn
    BY Names DEF Conns
  <1>2. CASE ch[2] = "up"
    <2>1. r \in ConnRec /\ r.up = q /\ r.down = cn[ch[1]].down /\ r.left = cn[ch[1]].left
          /\ r.right = cn[ch[1]].right
      BY <1>1, <1>2 DEF ConnRec
    <2>2. new \in Conns /\ new[ch[1]] = r /\ \A c \in Conn : c # ch[1] => new[c] = cn[c]
      BY <1>1, <2>1 DEF Conns, With
    <2> HIDE DEF r
    <2>3. ASSUME NEW a \in Channel PROVE Q(new, a) = IF a = ch THEN q ELSE Q(cn, a)
      <3>1. a[1] \in Conn /\ a[2] \in Dir /\ (a = ch <=> a[1] = ch[1] /\ a[2] = ch[2])
        BY Names
      <3> QED
        BY <1>2, <2>1, <2>2, <3>1 DEF Q, Dir
    <2>4. ASSUME NEW c \in Conn, NEW s \in Side PROVE new[c][s] = cn[c][s]
      BY <2>1, <2>2 DEF Side
    <2> QED
      BY <2>2, <2>3, <2>4
  <1>3. CASE ch[2] = "down"
    <2>1. r \in ConnRec /\ r.down = q /\ r.up = cn[ch[1]].up /\ r.left = cn[ch[1]].left
          /\ r.right = cn[ch[1]].right
      BY <1>1, <1>3 DEF ConnRec
    <2>2. new \in Conns /\ new[ch[1]] = r /\ \A c \in Conn : c # ch[1] => new[c] = cn[c]
      BY <1>1, <2>1 DEF Conns, With
    <2> HIDE DEF r
    <2>3. ASSUME NEW a \in Channel PROVE Q(new, a) = IF a = ch THEN q ELSE Q(cn, a)
      <3>1. a[1] \in Conn /\ a[2] \in Dir /\ (a = ch <=> a[1] = ch[1] /\ a[2] = ch[2])
        BY Names
      <3> QED
        BY <1>3, <2>1, <2>2, <3>1 DEF Q, Dir
    <2>4. ASSUME NEW c \in Conn, NEW s \in Side PROVE new[c][s] = cn[c][s]
      BY <2>1, <2>2 DEF Side
    <2> QED
      BY <2>2, <2>3, <2>4
  <1> QED
    BY <1>2, <1>3, Names DEF Dir

LEMMA TakenIs ==
    ASSUME conn \in Conns, NEW ch \in Channel, Queue(ch) # <<>>
    PROVE  /\ Taken(ch) \in Conns
           /\ \A a \in Channel : Q(Taken(ch), a) = IF a = ch THEN Tail(Queue(ch)) ELSE Queue(a)
           /\ \A c \in Conn, s \in Side : Taken(ch)[c][s] = conn[c][s]
  <1>1. Queue(ch) \in Seq(Item)
    BY QueueType DEF Queue, Q
  <1>2. Tail(Queue(ch)) \in Seq(Item)
    BY <1>1
  <1>3. Taken(ch) = With(conn, ch, Tail(Queue(ch)))
    BY DEF Taken, Queue, With
  <1>4. /\ Taken(ch) \in Conns
        /\ \A a \in Channel : Q(Taken(ch), a) = IF a = ch THEN Tail(Queue(ch)) ELSE Q(conn, a)
        /\ \A c \in Conn, s \in Side : Taken(ch)[c][s] = conn[c][s]
    <2> DEFINE q == Tail(Queue(ch))
    <2>1. q \in Seq(Item)
      BY <1>2
    <2> HIDE DEF q
    <2>2. /\ With(conn, ch, q) \in Conns
          /\ \A a \in Channel : Q(With(conn, ch, q), a) = IF a = ch THEN q ELSE Q(conn, a)
          /\ \A c \in Conn, s \in Side : With(conn, ch, q)[c][s] = conn[c][s]
      BY <2>1, QueueSet
    <2>3. Taken(ch) = With(conn, ch, q)
      BY <1>3 DEF q
    <2> QED
      BY <2>2, <2>3 DEF q
  <1> QED
    BY <1>4 DEF Q, Queue

LEMMA PutIs ==
    ASSUME NEW cn \in Conns, NEW ch \in Channel, NEW item \in Item
    PROVE  /\ Put(cn, ch, item) \in Conns
           /\ \A a \in Channel : Q(Put(cn, ch, item), a) =
                IF a = ch /\ Arrives(ch) THEN Append(Q(cn, a), item) ELSE Q(cn, a)
           /\ \A c \in Conn, s \in Side : Put(cn, ch, item)[c][s] = cn[c][s]
  <1>1. Append(Q(cn, ch), item) \in Seq(Item)
    BY QueueType
  <1>2. CASE Arrives(ch)
    <2>1. Put(cn, ch, item) = With(cn, ch, Append(Q(cn, ch), item))
      BY <1>2 DEF Put, Q, With
    <2> DEFINE q == Append(Q(cn, ch), item)
    <2>2. q \in Seq(Item)
      BY <1>1
    <2> HIDE DEF q
    <2>3. /\ With(cn, ch, q) \in Conns
          /\ \A a \in Channel : Q(With(cn, ch, q), a) = IF a = ch THEN q ELSE Q(cn, a)
          /\ \A c \in Conn, s \in Side : With(cn, ch, q)[c][s] = cn[c][s]
      BY <2>2, QueueSet
    <2>4. Put(cn, ch, item) = With(cn, ch, q)
      BY <2>1 DEF q
    <2>5. \A a \in Channel : Q(Put(cn, ch, item), a) =
            IF a = ch /\ Arrives(ch) THEN Append(Q(cn, a), item) ELSE Q(cn, a)
      BY <1>2, <2>3, <2>4 DEF q
    <2> QED
      BY <2>3, <2>4, <2>5
  <1>3. CASE ~Arrives(ch)
    BY <1>3 DEF Put
  <1> QED
    BY <1>2, <1>3

LEMMA ShutIs ==
    ASSUME NEW cn \in Conns, NEW ends
    PROVE  /\ Shut(cn, ends) \in Conns
           /\ \A a \in Channel : Q(Shut(cn, ends), a) = Q(cn, a)
           /\ \A c \in Conn, s \in Side :
                Shut(cn, ends)[c][s] <=> cn[c][s] /\ <<c, s>> \notin ends
  <1> DEFINE new == Shut(cn, ends)
  <1>1. ASSUME NEW c \in Conn
        PROVE  /\ new[c] \in ConnRec /\ new[c].up = cn[c].up /\ new[c].down = cn[c].down
               /\ new[c].left <=> cn[c].left /\ <<c, "left">> \notin ends
               /\ new[c].right <=> cn[c].right /\ <<c, "right">> \notin ends
    <2>1. cn[c] \in ConnRec
      BY DEF Conns
    <2>2. new[c] = [cn[c] EXCEPT !.left = @ /\ <<c, "left">> \notin ends,
                                 !.right = @ /\ <<c, "right">> \notin ends]
      BY DEF Shut
    <2> HIDE DEF new
    <2> QED
      BY <2>1, <2>2 DEF ConnRec
  <1>2. new \in Conns
    BY <1>1 DEF Shut, Conns
  <1> HIDE DEF new
  <1>3. ASSUME NEW a \in Channel PROVE Q(new, a) = Q(cn, a)
    <2>1. a[1] \in Conn /\ (a[2] = "up" \/ a[2] = "down")
      BY Names DEF Dir
    <2>2. new[a[1]].up = cn[a[1]].up /\ new[a[1]].down = cn[a[1]].down
      BY <1>1, <2>1
    <2> QED
      BY <2>1, <2>2 DEF Q
  <1>4. ASSUME NEW c \in Conn, NEW s \in Side
        PROVE  new[c][s] <=> cn[c][s] /\ <<c, s>> \notin ends
    BY <1>1 DEF Side
  <1> QED
    BY <1>2, <1>3, <1>4 DEF new

\* Connections cn with connection c replaced
Replaced(cn, c, r) == [cn EXCEPT ![c] = r]

LEMMA OpenIs ==
    ASSUME NEW cn \in Conns, NEW c \in Conn, NEW r \in ConnRec
    PROVE  /\ Replaced(cn, c, r) \in Conns
           /\ \A a \in Channel : Q(Replaced(cn, c, r), a) =
                IF a[1] = c THEN r[a[2]] ELSE Q(cn, a)
           /\ \A d \in Conn, s \in Side :
                Replaced(cn, c, r)[d][s] = IF d = c THEN r[s] ELSE cn[d][s]
  BY Names DEF Conns, Q, Replaced

LEMMA NewConnIs ==
    /\ NewConn \in ConnRec /\ NewConn.up = <<>> /\ NewConn.down = <<>>
    /\ NewConn.left = FALSE /\ NewConn.right = FALSE
  BY DEF NewConn, ConnRec

LEMMA OpenConnIs ==
    /\ OpenConn \in ConnRec /\ OpenConn.up = <<>> /\ OpenConn.down = <<>>
    /\ OpenConn.left = TRUE /\ OpenConn.right = TRUE
  BY NewConnIs DEF OpenConn, ConnRec

-----------------------------------------------------------------------------
(* What a step does to the connections *)

\* Connections cn come from conn by taking the first item of the channels tk,
\* putting an item into the channels pt, where it arrives, emptying the
\* channels lost and closing ends.
Made(cn, tk, pt, item, ends, lost) ==
    /\ cn \in Conns
    /\ \A ch \in tk : Queue(ch) # <<>>
    /\ \A ch \in Channel :
         Q(cn, ch) = IF ch \in lost THEN <<>>
                     ELSE IF ch \in tk THEN Tail(Queue(ch))
                     ELSE IF ch \in pt /\ Arrives(ch) THEN Append(Queue(ch), item)
                     ELSE Queue(ch)
    /\ \A c \in Conn, s \in Side : cn[c][s] <=> conn[c][s] /\ <<c, s>> \notin ends
Moves(tk, pt, item, ends, lost) == Made(conn', tk, pt, item, ends, lost)

LEMMA MadeSame ==
    ASSUME conn \in Conns, NEW i
    PROVE  Made(conn, {}, {}, i, {}, {})
  BY DEF Made, Q, Queue

LEMMA MadeTaken ==
    ASSUME conn \in Conns, NEW ch \in Channel, Queue(ch) # <<>>, NEW i
    PROVE  Made(Taken(ch), {ch}, {}, i, {}, {})
  BY TakenIs DEF Made

LEMMA MadePut ==
    ASSUME NEW cn, NEW tk, NEW i, NEW ends, Made(cn, tk, {}, i, ends, {}),
           NEW ch \in Channel, ch \notin tk, NEW item \in Item
    PROVE  Made(Put(cn, ch, item), tk, {ch}, item, ends, {})
  <1>1. /\ cn \in Conns
        /\ Put(cn, ch, item) \in Conns
        /\ \A a \in Channel : Q(Put(cn, ch, item), a) =
             IF a = ch /\ Arrives(ch) THEN Append(Q(cn, a), item) ELSE Q(cn, a)
        /\ \A c \in Conn, s \in Side : Put(cn, ch, item)[c][s] = cn[c][s]
    BY PutIs DEF Made
  <1>2. ASSUME NEW a \in Channel
        PROVE  Q(Put(cn, ch, item), a) =
                 IF a \in tk THEN Tail(Queue(a))
                 ELSE IF a \in {ch} /\ Arrives(a) THEN Append(Queue(a), item)
                 ELSE Queue(a)
    BY <1>1 DEF Made
  <1>3. \A c \in Conn, s \in Side :
          Put(cn, ch, item)[c][s] <=> conn[c][s] /\ <<c, s>> \notin ends
    BY <1>1 DEF Made
  <1> QED
    BY <1>1, <1>2, <1>3 DEF Made

LEMMA MadeShut ==
    ASSUME NEW cn, NEW tk, NEW pt, NEW i, NEW ends, NEW lost, NEW more,
           Made(cn, tk, pt, i, ends, lost)
    PROVE  Made(Shut(cn, more), tk, pt, i, ends \cup more, lost)
  <1>1. /\ cn \in Conns
        /\ Shut(cn, more) \in Conns
        /\ \A a \in Channel : Q(Shut(cn, more), a) = Q(cn, a)
        /\ \A c \in Conn, s \in Side :
             Shut(cn, more)[c][s] <=> cn[c][s] /\ <<c, s>> \notin more
    BY ShutIs DEF Made
  <1>2. \A c \in Conn, s \in Side :
          Shut(cn, more)[c][s] <=> conn[c][s] /\ <<c, s>> \notin ends \cup more
    BY <1>1 DEF Made
  <1> QED
    BY <1>1, <1>2 DEF Made

LEMMA MadeShutOnce ==
    ASSUME NEW cn, NEW tk, NEW pt, NEW i, NEW lost, NEW more,
           Made(cn, tk, pt, i, {}, lost)
    PROVE  Made(Shut(cn, more), tk, pt, i, more, lost)
  <1>1. {} \cup more = more
    OBVIOUS
  <1> QED
    BY <1>1, MadeShut

\* A Close of ends empties nothing but channels that the closed ends write,
\* and what it empties gives a cause.
Closes(ends) ==
    \E lost \in SUBSET Resets(ends) :
      Moves({}, {}, <<"junk", 0>>, ends, lost) /\ (lost # {} => causes' # {})

LEMMA CloseEndsCloses ==
    ASSUME conn \in Conns, NEW ends, NEW why, CloseEnds(ends, why)
    PROVE  Closes(ends) /\ causes \cup why \subseteq causes'
           /\ causes' \subseteq causes \cup why \cup {"late"}
  <1>1. PICK lost \in SUBSET Resets(ends) :
          LET cut == [c \in Conn |-> [conn[c] EXCEPT
                        !.up = IF Up(c) \in lost THEN <<>> ELSE @,
                        !.down = IF Down(c) \in lost THEN <<>> ELSE @]]
          IN  /\ conn' = Shut(cut, ends)
              /\ causes' = causes \cup why \cup (IF lost = {} THEN {} ELSE {"late"})
    BY DEF CloseEnds
  <1> DEFINE cut == [c \in Conn |-> [conn[c] EXCEPT
                      !.up = IF Up(c) \in lost THEN <<>> ELSE @,
                      !.down = IF Down(c) \in lost THEN <<>> ELSE @]]
  <1>2. ASSUME NEW c \in Conn
        PROVE  /\ cut[c] \in ConnRec
               /\ cut[c].up = IF Up(c) \in lost THEN <<>> ELSE conn[c].up
               /\ cut[c].down = IF Down(c) \in lost THEN <<>> ELSE conn[c].down
               /\ cut[c].left = conn[c].left /\ cut[c].right = conn[c].right
    <2>1. conn[c] \in ConnRec /\ <<>> \in Seq(Item)
      BY DEF Conns
    <2>2. cut[c] = [conn[c] EXCEPT !.up = IF Up(c) \in lost THEN <<>> ELSE @,
                                   !.down = IF Down(c) \in lost THEN <<>> ELSE @]
      OBVIOUS
    <2> HIDE DEF cut
    <2> QED
      BY <2>1, <2>2 DEF ConnRec
  <1>3. cut \in Conns
    BY <1>2 DEF Conns
  <1>4. conn' = Shut(cut, ends) /\ causes' = causes \cup why \cup (IF lost = {} THEN {} ELSE {"late"})
    BY <1>1
  <1> HIDE DEF cut
  <1>5. ASSUME NEW a \in Channel
        PROVE  Q(cut, a) = IF a \in lost THEN <<>> ELSE Queue(a)
    <2>1. a[1] \in Conn /\ a[2] \in Dir /\ (a = Up(a[1]) \/ a = Down(a[1]))
      BY Names
    <2>2. Up(a[1])[2] = "up" /\ Down(a[1])[2] = "down"
      BY <2>1, Names
    <2>3. CASE a = Up(a[1])
      BY <1>2, <2>1, <2>2, <2>3 DEF Q, Queue
    <2>4. CASE a = Down(a[1])
      BY <1>2, <2>1, <2>2, <2>4 DEF Q, Queue
    <2> QED
      BY <2>1, <2>3, <2>4
  <1>6. ASSUME NEW c \in Conn, NEW s \in Side PROVE cut[c][s] = conn[c][s]
    BY <1>2 DEF Side
  <1>7. Made(cut, {}, {}, <<"junk", 0>>, {}, lost)
    BY <1>3, <1>5, <1>6 DEF Made
  <1>8. Moves({}, {}, <<"junk", 0>>, ends, lost)
    BY <1>4, <1>7, MadeShutOnce DEF Moves
  <1> QED
    BY <1>4, <1>8 DEF Closes

\* Connection c is opened, with these queues; an item is put into channels pt.
Opens(c, up, pt, item) ==
    /\ conn' \in Conns
    /\ \A ch \in Channel :
         Q(conn', ch) = IF ch[1] = c THEN (IF ch[2] = "up" THEN up ELSE <<>>)
                        ELSE IF ch \in pt /\ Arrives(ch) THEN Append(Queue(ch), item)
                        ELSE Queue(ch)
    /\ \A d \in Conn, s \in Side : conn'[d][s] <=> d = c \/ conn[d][s]

LEMMA OpensPut ==
    ASSUME conn \in Conns, NEW c \in Conn, NEW ch \in Channel, ch[1] # c, NEW item \in Item,
           conn' = Put([conn EXCEPT ![c] = OpenConn], ch, item)
    PROVE  Opens(c, <<>>, {ch}, item)
  <1> DEFINE cn == Replaced(conn, c, OpenConn)
  <1>1. /\ OpenConn \in ConnRec /\ OpenConn.up = <<>> /\ OpenConn.down = <<>>
        /\ OpenConn.left = TRUE /\ OpenConn.right = TRUE
    BY OpenConnIs
  <1>2. /\ cn \in Conns
        /\ \A a \in Channel : Q(cn, a) = IF a[1] = c THEN OpenConn[a[2]] ELSE Q(conn, a)
        /\ \A d \in Conn, s \in Side : cn[d][s] = IF d = c THEN OpenConn[s] ELSE conn[d][s]
    BY <1>1, OpenIs
  <1> HIDE DEF cn
  <1>3. /\ conn' \in Conns
        /\ \A a \in Channel : Q(conn', a) =
             IF a = ch /\ Arrives(ch) THEN Append(Q(cn, a), item) ELSE Q(cn, a)
        /\ \A d \in Conn, s \in Side : conn'[d][s] = cn[d][s]
    <2>1. conn' = Put(cn, ch, item)
      BY DEF cn, Replaced
    <2>2. cn \in Conns
      BY <1>2
    <2>3. /\ Put(cn, ch, item) \in Conns
          /\ \A a \in Channel : Q(Put(cn, ch, item), a) =
               IF a = ch /\ Arrives(ch) THEN Append(Q(cn, a), item) ELSE Q(cn, a)
          /\ \A d \in Conn, s \in Side : Put(cn, ch, item)[d][s] = cn[d][s]
      BY <2>2, PutIs
    <2> QED
      BY <2>1, <2>3
  <1>4. ASSUME NEW a \in Channel
        PROVE  Q(conn', a) = IF a[1] = c THEN (IF a[2] = "up" THEN <<>> ELSE <<>>)
                             ELSE IF a \in {ch} /\ Arrives(a) THEN Append(Queue(a), item)
                             ELSE Queue(a)
    <2>1. a[2] = "up" \/ a[2] = "down"
      BY Names DEF Dir
    <2>2. Q(conn, a) = Queue(a)
      BY DEF Q, Queue
    <2>3. OpenConn[a[2]] = <<>>
      BY <1>1, <2>1
    <2> QED
      BY <1>2, <1>3, <2>1, <2>2, <2>3
  <1>5. \A d \in Conn, s \in Side : conn'[d][s] <=> d = c \/ conn[d][s]
    BY <1>1, <1>2, <1>3 DEF Side
  <1> QED
    BY <1>3, <1>4, <1>5 DEF Opens

LEMMA OpensWith ==
    ASSUME conn \in Conns, NEW c \in Conn, NEW q \in Seq(Item), NEW i,
           conn' = [conn EXCEPT ![c] = [OpenConn EXCEPT !.up = q]]
    PROVE  Opens(c, q, {}, i)
  <1> DEFINE r == [OpenConn EXCEPT !.up = q]
  <1>1. r \in ConnRec /\ r.up = q /\ r.down = <<>> /\ r.left = TRUE /\ r.right = TRUE
    BY OpenConnIs DEF ConnRec
  <1> HIDE DEF r
  <1>2. /\ conn' \in Conns
        /\ \A a \in Channel : Q(conn', a) = IF a[1] = c THEN r[a[2]] ELSE Q(conn, a)
        /\ \A d \in Conn, s \in Side : conn'[d][s] = IF d = c THEN r[s] ELSE conn[d][s]
    <2>1. conn' = Replaced(conn, c, r)
      BY DEF r, Replaced
    <2>2. r \in ConnRec
      BY <1>1
    <2>3. /\ Replaced(conn, c, r) \in Conns
          /\ \A a \in Channel : Q(Replaced(conn, c, r), a) =
               IF a[1] = c THEN r[a[2]] ELSE Q(conn, a)
          /\ \A d \in Conn, s \in Side :
               Replaced(conn, c, r)[d][s] = IF d = c THEN r[s] ELSE conn[d][s]
      BY <2>2, OpenIs
    <2> QED
      BY ONLY <2>1, <2>3
  <1>3. ASSUME NEW a \in Channel
        PROVE  Q(conn', a) = IF a[1] = c THEN (IF a[2] = "up" THEN q ELSE <<>>) ELSE Queue(a)
    <2>1. a[2] = "up" \/ a[2] = "down"
      BY Names DEF Dir
    <2>2. Q(conn, a) = Queue(a)
      BY DEF Q, Queue
    <2>3. r[a[2]] = IF a[2] = "up" THEN q ELSE <<>>
      BY <1>1, <2>1
    <2> QED
      BY <1>2, <2>2, <2>3
  <1>4. \A d \in Conn, s \in Side : conn'[d][s] <=> d = c \/ conn[d][s]
    BY <1>1, <1>2 DEF Side
  <1> QED
    BY <1>2, <1>3, <1>4 DEF Opens

LEMMA OpenConnPlain == OpenConn = [OpenConn EXCEPT !.up = <<>>]
  BY OpenConnIs DEF ConnRec

-----------------------------------------------------------------------------
(* Types *)

CopierRec == [pc : {"off", "read", "write", "done"}, piece : Nat]
Types ==
    /\ dest \in Dests /\ geodb \in BOOLEAN /\ cached \in Addrs \cup {NoAddr} /\ wire \in BOOLEAN
    /\ dead \in [Side -> BOOLEAN] /\ conn \in Conns
    /\ h \in {"greet", "connect", "filter", "search", "lookup", "dns", "direct", "tunnel",
              "code", "copy", "over"}
    /\ far \in {"app", "tun", "srv"}
    /\ x \in [Tunnel -> {"off", "addr", "resolve", "dial", "copy", "over"}]
    /\ copier \in [Copier -> CopierRec]
    /\ app \in {"greet", "method", "code", "told", "talk"} /\ hushed \subseteq User
    /\ sent \in [User -> Nat] /\ got \in [User -> Seq(Nat)]
    /\ causes \subseteq {"late", "refused", "idle", "context"} /\ faults \in 0..Faults[dest]

LEMMA Ways ==
    /\ "app" \in Conn /\ "srv" \in Conn /\ "tun" \in Conn /\ "dns" \in Conn
    /\ "app" \in User /\ "srv" \in User /\ "tun" \in Tunnel /\ "dns" \in Tunnel
    /\ "tun" \notin User /\ "dns" \notin User
    /\ "left" \in Side /\ "right" \in Side
    /\ "H" \in Copier /\ "D" \in Copier /\ "E" \in Copier /\ "B" \in Copier
    /\ \A u \in User : /\ Mouth(u) \in Channel /\ Ear(u) \in Channel /\ u \in Conn
                       /\ Mouth(u)[1] = u /\ Ear(u)[1] = u /\ Mouth(u) # Ear(u)
                       /\ Writer(Mouth(u)) = Reader(Ear(u))
    /\ \A t \in Tunnel : t \in Conn
  BY DEF Conn, User, Tunnel, Side, Copier, Mouth, Ear, Channel, Dir, Up, Down, Writer, Reader

LEMMA EarNoMouth == \A u, v \in User : Ear(u) # Mouth(v)
  BY DEF User, Ear, Mouth, Up, Down

LEMMA LoopChannels ==
    ASSUME far \in {"app", "tun", "srv"}, NEW k \in Copier
    PROVE  /\ In(k) \in Channel /\ OutOf(k) \in Channel
           /\ <<OutOf(k)[1], Writer(OutOf(k))>> \in Ends(k)
           /\ <<In(k)[1], Reader(In(k))>> \in Ends(k)
           /\ OutOf(k)[2] = In(k)[2]
           /\ In(k)[2] = "up" <=> k \in {"H", "E"}
  <1>1. CASE k = "H"
    BY <1>1, Ways DEF In, OutOf, Ends, Channel, Dir, Up, Down, Writer, Reader
  <1>2. CASE k = "D"
    BY <1>2, Ways DEF In, OutOf, Ends, Channel, Dir, Up, Down, Writer, Reader
  <1>3. CASE k = "E"
    BY <1>3, Ways DEF In, OutOf, Ends, Channel, Dir, Up, Down, Writer, Reader
  <1>4. CASE k = "B"
    BY <1>4, Ways DEF In, OutOf, Ends, Channel, Dir, Up, Down, Writer, Reader
  <1> QED
    BY <1>1, <1>2, <1>3, <1>4 DEF Copier

\* The first item of a queue that is not empty
LEMMA FirstType ==
    ASSUME conn \in Conns, NEW ch \in Channel, Queue(ch) # <<>>
    PROVE  /\ Queue(ch) \in Seq(Item) /\ First(ch) = Queue(ch)[1]
           /\ First(ch) \in Item /\ First(ch)[1] \in Tag /\ First(ch)[2] \in Nat
           /\ First(ch) = <<First(ch)[1], First(ch)[2]>>
  <1>1. Queue(ch) \in Seq(Item)
    BY QueueType DEF Queue, Q
  <1>2. First(ch) = Queue(ch)[1] /\ First(ch) \in Item
    BY <1>1 DEF First
  <1> QED
    BY <1>1, <1>2 DEF Item

-----------------------------------------------------------------------------
(* The four things that a loop does *)

Nothing == <<"junk", 0>>

LoopReads(k) ==
    /\ copier[k].pc = "read" /\ Queue(In(k)) # <<>>
    /\ copier' = [copier EXCEPT ![k] = [pc |-> "write", piece |-> First(In(k))[2]]]
    /\ Moves({In(k)}, {}, Nothing, {}, {})
    /\ UNCHANGED <<causes, faults>>
LoopWrites(k) ==
    /\ copier[k].pc = "write" /\ Arrives(OutOf(k)) /\ ~Full(OutOf(k))
    /\ copier' = [copier EXCEPT ![k] = [pc |-> "read", piece |-> 0]]
    /\ Moves({}, {OutOf(k)}, <<"data", copier[k].piece>>, {}, {})
    /\ UNCHANGED <<causes, faults>>
LoopLoses(k) ==
    /\ copier[k].pc = "write" /\ ~Arrives(OutOf(k))
    /\ copier' = [copier EXCEPT ![k] = [pc |-> "read", piece |-> 0]]
    /\ causes' = causes \cup {"late"} /\ UNCHANGED <<conn, faults>>
\* A loop stops without a cause at the end of what it reads, or where it
\* cannot write any more.
Cleanly(k) ==
    \/ copier[k].pc = "read" /\ Ended(In(k))
    \/ copier[k].pc = "write" /\ ~Usable(OutOf(k)[1], Writer(OutOf(k)))
LoopStops(k) ==
    /\ copier[k].pc \in {"read", "write"}
    /\ causes' = {} => Cleanly(k)
    /\ copier' = [copier EXCEPT ![k] = [pc |-> "done", piece |-> 0]]
    /\ Closes(Ends(k))
    /\ causes \subseteq causes' /\ causes' \subseteq causes \cup {"late", "refused", "idle"}
    /\ faults' \in {faults, faults - 1} /\ (faults' # faults => faults > 0)
Loops(k) ==
    /\ LoopReads(k) \/ LoopWrites(k) \/ LoopLoses(k) \/ LoopStops(k)
    /\ UNCHANGED <<request, client, exit, user, wire, dead>>

LEMMA LoopSteps ==
    ASSUME Types, NEW k \in Copier, Copies(k) \/ Refused(k) \/ Idle(k)
    PROVE  Loops(k)
  <1>1. conn \in Conns /\ In(k) \in Channel /\ OutOf(k) \in Channel
    BY LoopChannels DEF Types
  <1>2. ASSUME NEW why, why \subseteq {"late", "refused", "idle"}, Stop(k, why),
               copier[k].pc \in {"read", "write"}, UNCHANGED copying,
               faults' = faults \/ (faults > 0 /\ faults' = faults - 1),
               why # {} \/ Cleanly(k)
        PROVE  Loops(k)
    <2>1. CloseEnds(Ends(k), why)
          /\ copier' = [copier EXCEPT ![k] = [pc |-> "done", piece |-> 0]]
      BY <1>2 DEF Stop
    <2>2. Closes(Ends(k)) /\ causes' \subseteq causes \cup why \cup {"late"}
          /\ causes \cup why \subseteq causes'
      BY <1>1, <2>1, CloseEndsCloses
    <2> QED
      BY <1>2, <2>1, <2>2 DEF Loops, LoopStops, copying
  <1>3. CASE CopyRead(k)
    <2>1. Queue(In(k)) # <<>> /\ conn' = Taken(In(k))
      BY <1>3 DEF CopyRead, Ready
    <2>2. Moves({In(k)}, {}, Nothing, {}, {})
      BY <1>1, <2>1, MadeTaken DEF Moves
    <2> QED
      BY <1>3, <2>1, <2>2 DEF CopyRead, Loops, LoopReads, copying
  <1>4. CASE CopyWrite(k)
    <2>1. conn' = Put(conn, OutOf(k), <<"data", copier[k].piece>>)
          /\ <<"data", copier[k].piece>> \in Item
      BY <1>4 DEF CopyWrite, Types, CopierRec, Item, Tag
    <2>2. Moves({}, {OutOf(k)}, <<"data", copier[k].piece>>, {}, {})
      BY <1>1, <2>1, MadeSame, MadePut DEF Moves
    <2> QED
      BY <1>4, <2>2 DEF CopyWrite, Loops, LoopWrites, copying, RunningOn
  <1>5. CASE CopyLost(k)
    <2>1. CASE Stop(k, {"late"})
      BY <1>2, <1>5, <2>1 DEF CopyLost
    <2>2. CASE copier' = RunningOn(k) /\ causes' = causes \cup {"late"} /\ UNCHANGED conn
      BY <1>5, <2>2 DEF CopyLost, Loops, LoopLoses, copying, RunningOn
    <2> QED
      BY <1>5, <2>1, <2>2 DEF CopyLost
  <1>6. CASE CopyEnds(k)
    BY <1>2, <1>6 DEF CopyEnds, Cleanly
  <1>7. CASE CopyFails(k)
    BY <1>2, <1>7 DEF CopyFails, Cleanly
  <1>8. CASE Stuck(k)
    BY <1>2, <1>8 DEF Stuck
  <1>9. CASE Refused(k)
    BY <1>2, <1>9 DEF Refused
  <1>10. CASE Idle(k)
    BY <1>2, <1>10 DEF Idle
  <1> QED
    BY <1>3, <1>4, <1>5, <1>6, <1>7, <1>8, <1>9, <1>10 DEF Copies

-----------------------------------------------------------------------------
(* What the other steps do to the connections *)

appEnd == {<<"app", "right">>}
Yes == <<"code", 0>>

LEMMA AppChannels ==
    /\ Up("app") \in Channel /\ Down("app") \in Channel /\ Up("app") # Down("app")
    /\ Up("tun") \in Channel /\ Down("tun") \in Channel /\ Down("tun") # Down("app")
    /\ Up("dns") \in Channel /\ Down("dns") \in Channel /\ Up("dns") # Down("dns")
    /\ Down("app")[1] = "app" /\ Down("tun")[1] = "tun"
  BY Ways, Names DEF Up, Down

LEMMA ItemType == ASSUME NEW t \in Tag, NEW n \in Nat PROVE <<t, n>> \in Item
  BY DEF Item

\* Take, put; put, shut; take, put, shut
LEMMA TakesPuts ==
    ASSUME conn \in Conns, NEW a \in Channel, NEW b \in Channel, a # b, Queue(a) # <<>>,
           NEW item \in Item, conn' = Put(Taken(a), b, item)
    PROVE  Moves({a}, {b}, item, {}, {})
  <1>1. Made(Taken(a), {a}, {}, item, {}, {})
    BY MadeTaken
  <1>2. Made(Put(Taken(a), b, item), {a}, {b}, item, {}, {})
    BY <1>1, MadePut
  <1> QED
    BY <1>2 DEF Moves

LEMMA PutsShuts ==
    ASSUME conn \in Conns, NEW b \in Channel, NEW item \in Item, NEW ends,
           conn' = Shut(Put(conn, b, item), ends)
    PROVE  Moves({}, {b}, item, ends, {})
  <1>1. Made(conn, {}, {}, item, {}, {})
    BY MadeSame
  <1>2. Made(Put(conn, b, item), {}, {b}, item, {}, {})
    BY <1>1, MadePut
  <1>3. Made(Shut(Put(conn, b, item), ends), {}, {b}, item, ends, {})
    BY <1>2, MadeShutOnce
  <1> QED
    BY <1>3 DEF Moves

LEMMA TakesPutsShuts ==
    ASSUME conn \in Conns, NEW a \in Channel, NEW b \in Channel, a # b, Queue(a) # <<>>,
           NEW item \in Item, NEW ends, conn' = Shut(Put(Taken(a), b, item), ends)
    PROVE  Moves({a}, {b}, item, ends, {})
  <1>1. Made(Taken(a), {a}, {}, item, {}, {})
    BY MadeTaken
  <1>2. Made(Put(Taken(a), b, item), {a}, {b}, item, {}, {})
    BY <1>1, MadePut
  <1>3. Made(Shut(Put(Taken(a), b, item), ends), {a}, {b}, item, ends, {})
    BY <1>2, MadeShutOnce
  <1> QED
    BY <1>3 DEF Moves

LEMMA TakesShuts ==
    ASSUME conn \in Conns, NEW a \in Channel, Queue(a) # <<>>, NEW ends,
           conn' = Shut(Taken(a), ends)
    PROVE  Moves({a}, {}, Nothing, ends, {})
  <1>1. Made(Taken(a), {a}, {}, Nothing, {}, {})
    BY MadeTaken
  <1>2. Made(Shut(Taken(a), ends), {a}, {}, Nothing, ends, {})
    BY <1>1, MadeShutOnce
  <1> QED
    BY <1>2 DEF Moves

LEMMA Takes ==
    ASSUME conn \in Conns, NEW a \in Channel, Queue(a) # <<>>, conn' = Taken(a)
    PROVE  Moves({a}, {}, Nothing, {}, {})
  BY MadeTaken DEF Moves

LEMMA Puts ==
    ASSUME conn \in Conns, NEW b \in Channel, NEW item \in Item, conn' = Put(conn, b, item)
    PROVE  Moves({}, {b}, item, {}, {})
  <1>1. Made(conn, {}, {}, item, {}, {})
    BY MadeSame
  <1>2. Made(Put(conn, b, item), {}, {b}, item, {}, {})
    BY <1>1, MadePut
  <1> QED
    BY <1>2 DEF Moves

LEMMA Shuts ==
    ASSUME conn \in Conns, NEW ends, conn' = Shut(conn, ends)
    PROVE  Moves({}, {}, Nothing, ends, {})
  <1>1. Made(conn, {}, {}, Nothing, {}, {})
    BY MadeSame
  <1> QED
    BY <1>1, MadeShutOnce DEF Moves

\* A refusal: an answer and the Close behind it
LEMMA Refuses ==
    ASSUME conn \in Conns, NEW c \in Nat, conn' = Refuse(conn, c)
    PROVE  Moves({}, {Down("app")}, <<"code", c>>, appEnd, {})
  <1>1. <<"code", c>> \in Item
    BY ItemType DEF Tag
  <1>2. conn' = Shut(Put(conn, Down("app"), <<"code", c>>), appEnd)
    BY DEF Refuse, Answer, appEnd
  <1> QED
    BY <1>1, <1>2, AppChannels, PutsShuts

bothEnds == appEnd \cup {<<"tun", "left">>}

LEMMA RefusesBoth ==
    ASSUME conn \in Conns, NEW c \in Nat,
           conn' = Shut(Refuse(conn, c), {<<"tun", "left">>})
    PROVE  Moves({}, {Down("app")}, <<"code", c>>, bothEnds, {})
  <1> DEFINE item == <<"code", c>>
  <1>1. item \in Item
    BY ItemType DEF Tag
  <1> HIDE DEF item
  <1>2. Made(conn, {}, {}, item, {}, {})
    BY MadeSame
  <1>3. Made(Put(conn, Down("app"), item), {}, {Down("app")}, item, {}, {})
    BY <1>1, <1>2, AppChannels, MadePut
  <1>4. Made(Shut(Put(conn, Down("app"), item), appEnd), {}, {Down("app")}, item, appEnd, {})
    BY <1>3, MadeShutOnce
  <1>5. Made(Shut(Shut(Put(conn, Down("app"), item), appEnd), {<<"tun", "left">>}),
             {}, {Down("app")}, item, appEnd \cup {<<"tun", "left">>}, {})
    BY <1>4, MadeShut
  <1> QED
    BY <1>5 DEF Moves, Refuse, Answer, appEnd, bothEnds, item

LEMMA TakesRefusesBoth ==
    ASSUME conn \in Conns, NEW c \in Nat, Queue(Down("tun")) # <<>>,
           conn' = Shut(Refuse(Taken(Down("tun")), c), {<<"tun", "left">>})
    PROVE  Moves({Down("tun")}, {Down("app")}, <<"code", c>>, bothEnds, {})
  <1> DEFINE item == <<"code", c>>
             cn == Taken(Down("tun"))
  <1>1. item \in Item
    BY ItemType DEF Tag
  <1> HIDE DEF item
  <1>2. Made(cn, {Down("tun")}, {}, item, {}, {})
    BY AppChannels, MadeTaken
  <1> HIDE DEF cn
  <1>3. Made(Put(cn, Down("app"), item), {Down("tun")}, {Down("app")}, item, {}, {})
    BY <1>1, <1>2, AppChannels, MadePut
  <1>4. Made(Shut(Put(cn, Down("app"), item), appEnd),
             {Down("tun")}, {Down("app")}, item, appEnd, {})
    BY <1>3, MadeShutOnce
  <1>5. Made(Shut(Shut(Put(cn, Down("app"), item), appEnd), {<<"tun", "left">>}),
             {Down("tun")}, {Down("app")}, item, appEnd \cup {<<"tun", "left">>}, {})
    BY <1>4, MadeShut
  <1> QED
    BY <1>5 DEF Moves, Refuse, Answer, appEnd, bothEnds, item, cn

\* The request ends before it is read: it fails, or the whole client does.
EndsRequest == ReadRequestFails \/ ReadRequestPanics

LEMMA ClientMoves ==
    ASSUME Types
    PROVE  /\ ReadGreeting => Moves({Up("app")}, {Down("app")}, <<"method", 0>>, {}, {})
           /\ ReadConnect => Moves({Up("app")}, {}, Nothing, {}, {})
           /\ EndsRequest => Closes(appEnd)
           /\ NameKnown => Moves({Down("dns")}, {}, Nothing, {}, {})
           /\ NameUnknown => Moves({}, {}, Nothing, {<<"dns", "left">>}, {})
           /\ NoTunnel => Moves({}, {Down("app")}, <<"code", 3>>, appEnd, {})
           /\ ReadCodeFails => Moves({}, {Down("app")}, <<"code", 3>>, bothEnds, {})
  <1>1. conn \in Conns
    BY DEF Types
  <1>2. ASSUME ReadGreeting
        PROVE  Moves({Up("app")}, {Down("app")}, <<"method", 0>>, {}, {})
    <2>1. Queue(Up("app")) # <<>> /\ conn' = Put(Taken(Up("app")), Down("app"), <<"method", 0>>)
      BY <1>2 DEF ReadGreeting, Ready
    <2>2. <<"method", 0>> \in Item
      BY ItemType DEF Tag
    <2> QED
      BY <1>1, <2>1, <2>2, AppChannels, TakesPuts
  <1>3. ASSUME ReadConnect PROVE Moves({Up("app")}, {}, Nothing, {}, {})
    <2>1. Queue(Up("app")) # <<>> /\ conn' = Taken(Up("app"))
      BY <1>3 DEF ReadConnect, Ready
    <2> QED
      BY <1>1, <2>1, AppChannels, Takes
  <1>4. ASSUME EndsRequest PROVE Closes(appEnd)
    BY <1>1, <1>4, CloseEndsCloses DEF EndsRequest, ReadRequestFails, ReadRequestPanics, appEnd
  <1>5. ASSUME NameKnown PROVE Moves({Down("dns")}, {}, Nothing, {}, {})
    <2>1. Queue(Down("dns")) # <<>> /\ conn' = Taken(Down("dns"))
      BY <1>5 DEF NameKnown, Ready
    <2> QED
      BY <1>1, <2>1, AppChannels, Takes
  <1>6. ASSUME NameUnknown PROVE Moves({}, {}, Nothing, {<<"dns", "left">>}, {})
    BY <1>1, <1>6, Shuts DEF NameUnknown
  <1>7. ASSUME NoTunnel PROVE Moves({}, {Down("app")}, <<"code", 3>>, appEnd, {})
    BY <1>1, <1>7, Refuses DEF NoTunnel
  <1>8. ASSUME ReadCodeFails PROVE Moves({}, {Down("app")}, <<"code", 3>>, bothEnds, {})
    BY <1>1, <1>8, RefusesBoth DEF ReadCodeFails
  <1> QED
    BY <1>2, <1>3, <1>4, <1>5, <1>6, <1>7, <1>8

\* The connection to the other side that the client opens
LEMMA DialDirectMoves ==
    ASSUME Types, DialDirect
    PROVE  \/ /\ far' = "srv" /\ h' = "copy" /\ Opens("srv", <<>>, {Down("app")}, Yes)
              /\ copier' = RunningBoth("H", "D")
              /\ addr' \in IF dest.form = "ip" THEN {dest.ip} ELSE Addrs
           \/ /\ h' = "over" /\ Moves({}, {Down("app")}, <<"code", 3>>, appEnd, {})
              /\ UNCHANGED <<far, addr, copier>>
  <1>1. conn \in Conns /\ Yes \in Item
    BY ItemType DEF Types, Yes, Tag
  <1>2. CASE /\ far' = "srv" /\ h' = "copy"
             /\ addr' \in IF dest.form = "ip" THEN {dest.ip} ELSE Addrs
             /\ conn' = Answer([conn EXCEPT !["srv"] = OpenConn], 0)
             /\ copier' = RunningBoth("H", "D")
    <2>1. conn' = Put([conn EXCEPT !["srv"] = OpenConn], Down("app"), Yes)
      BY <1>2 DEF Answer, Yes
    <2>2. Opens("srv", <<>>, {Down("app")}, Yes)
      BY <1>1, <2>1, Ways, AppChannels, OpensPut
    <2> QED
      BY <1>2, <2>2
  <1>3. CASE h' = "over" /\ conn' = Refuse(conn, 3) /\ UNCHANGED <<far, addr, copier>>
    BY <1>1, <1>3, Refuses
  <1> QED
    BY <1>2, <1>3 DEF DialDirect

LEMMA AskMoves ==
    ASSUME Types
    PROVE  /\ AskName => \/ Opens("dns", <<<<"name", 0>>>>, {}, Nothing)
                         \/ Opens("dns", <<>>, {}, Nothing)
           /\ AskExit => \/ Opens("tun", <<<<"dest", 0>>>>, {}, Nothing)
                         \/ Opens("tun", <<>>, {}, Nothing)
  <1>1. conn \in Conns
    BY DEF Types
  <1>2. ASSUME NEW c \in Conn, NEW item \in Item,
               conn' = [conn EXCEPT ![c] =
                          IF wire /\ ~dead["left"] THEN [OpenConn EXCEPT !.up = <<item>>]
                          ELSE OpenConn]
        PROVE  Opens(c, <<item>>, {}, Nothing) \/ Opens(c, <<>>, {}, Nothing)
    <2>1. <<item>> \in Seq(Item) /\ <<>> \in Seq(Item)
      OBVIOUS
    <2>2. CASE conn' = [conn EXCEPT ![c] = [OpenConn EXCEPT !.up = <<item>>]]
      BY <1>1, <2>1, <2>2, OpensWith
    <2>3. CASE conn' = [conn EXCEPT ![c] = OpenConn]
      <3>1. conn' = [conn EXCEPT ![c] = [OpenConn EXCEPT !.up = <<>>]]
        BY <2>3, OpenConnPlain
      <3> QED
        BY <1>1, <2>1, <3>1, OpensWith
    <2> QED
      BY <1>2, <2>2, <2>3
  <1>3. <<"name", 0>> \in Item /\ <<"dest", 0>> \in Item
    BY ItemType DEF Tag
  <1>4. ASSUME AskName
        PROVE  Opens("dns", <<<<"name", 0>>>>, {}, Nothing) \/ Opens("dns", <<>>, {}, Nothing)
    BY <1>2, <1>3, <1>4, Ways DEF AskName
  <1>5. ASSUME AskExit
        PROVE  Opens("tun", <<<<"dest", 0>>>>, {}, Nothing) \/ Opens("tun", <<>>, {}, Nothing)
    BY <1>2, <1>3, <1>5, Ways DEF AskExit
  <1> QED
    BY <1>4, <1>5

LEMMA ReadCodeMoves ==
    ASSUME Types, ReadCode
    PROVE  LET c == First(Down("tun"))[2]
           IN  /\ c \in Nat /\ Queue(Down("tun")) # <<>>
               /\ \/ /\ c = 0 /\ h' = "copy" /\ copier' = RunningBoth("H", "D")
                     /\ Moves({Down("tun")}, {Down("app")}, Yes, {}, {})
                  \/ /\ c # 0 /\ h' = "over" /\ copier' = copier
                     /\ Moves({Down("tun")}, {Down("app")}, <<"code", c>>, bothEnds, {})
  <1> DEFINE c == First(Down("tun"))[2]
  <1>1. conn \in Conns /\ Queue(Down("tun")) # <<>> /\ Yes \in Item
    BY ItemType DEF Types, ReadCode, Ready, Yes, Tag
  <1>2. c \in Nat
    BY <1>1, AppChannels, FirstType
  <1>3. CASE c = 0
    <2>1. conn' = Put(Taken(Down("tun")), Down("app"), Yes)
          /\ h' = "copy" /\ copier' = RunningBoth("H", "D")
      BY <1>3 DEF ReadCode, Answer, Yes
    <2>2. Moves({Down("tun")}, {Down("app")}, Yes, {}, {})
      BY <1>1, <2>1, AppChannels, TakesPuts
    <2> QED
      BY <1>1, <1>2, <1>3, <2>1, <2>2
  <1>4. CASE c # 0
    <2>1. conn' = Shut(Refuse(Taken(Down("tun")), c), {<<"tun", "left">>})
          /\ h' = "over" /\ copier' = copier
      BY <1>4 DEF ReadCode
    <2> HIDE DEF c
    <2>2. Moves({Down("tun")}, {Down("app")}, <<"code", c>>, bothEnds, {})
      BY <1>1, <1>2, <2>1, TakesRefusesBoth
    <2> QED
      BY <1>1, <1>2, <1>4, <2>1, <2>2 DEF c
  <1> QED
    BY <1>3, <1>4

LEMMA ExitMoves ==
    ASSUME Types
    PROVE  /\ ResolveForClient =>
                \/ Moves({Up("dns")}, {Down("dns")}, <<"addrs", 0>>, tunEnd("dns"), {})
                \/ Moves({Up("dns")}, {}, Nothing, tunEnd("dns"), {})
           /\ ReadAddr => Moves({Up("tun")}, {}, Nothing, {}, {})
           /\ \A t \in Tunnel : ReadAddrFails(t) => Moves({}, {}, Nothing, tunEnd(t), {})
           /\ \A c \in Nat : ExitRefuses(c) =>
                Moves({}, {Down("tun")}, <<"code", c>>, tunEnd("tun"), {})
  <1>1. conn \in Conns
    BY DEF Types
  <1>2. ASSUME ResolveForClient
        PROVE  \/ Moves({Up("dns")}, {Down("dns")}, <<"addrs", 0>>, tunEnd("dns"), {})
               \/ Moves({Up("dns")}, {}, Nothing, tunEnd("dns"), {})
    <2>1. Queue(Up("dns")) # <<>> /\ <<"addrs", 0>> \in Item
      BY <1>2, ItemType DEF ResolveForClient, Ready, Tag
    <2>2. CASE conn' = Shut(Put(Taken(Up("dns")), Down("dns"), <<"addrs", 0>>), tunEnd("dns"))
      BY <1>1, <2>1, <2>2, AppChannels, TakesPutsShuts
    <2>3. CASE conn' = Shut(Taken(Up("dns")), tunEnd("dns"))
      BY <1>1, <2>1, <2>3, AppChannels, TakesShuts
    <2> QED
      BY <1>2, <2>2, <2>3 DEF ResolveForClient
  <1>3. ASSUME ReadAddr PROVE Moves({Up("tun")}, {}, Nothing, {}, {})
    <2>1. Queue(Up("tun")) # <<>> /\ conn' = Taken(Up("tun"))
      BY <1>3 DEF ReadAddr, Ready
    <2> QED
      BY <1>1, <2>1, AppChannels, Takes
  <1>4. ASSUME NEW t \in Tunnel, ReadAddrFails(t)
        PROVE  Moves({}, {}, Nothing, tunEnd(t), {})
    BY <1>1, <1>4, Shuts DEF ReadAddrFails
  <1>5. ASSUME NEW c \in Nat, ExitRefuses(c)
        PROVE  Moves({}, {Down("tun")}, <<"code", c>>, tunEnd("tun"), {})
    <2>1. <<"code", c>> \in Item
      BY ItemType DEF Tag
    <2> QED
      BY <1>1, <1>5, <2>1, AppChannels, PutsShuts DEF ExitRefuses
  <1> QED
    BY <1>2, <1>3, <1>4, <1>5

LEMMA DialMoves ==
    ASSUME Types, Dial
    PROVE  \/ UNCHANGED addr /\ ExitRefuses(5)
           \/ /\ addr' \in {addr} /\ x' = [x EXCEPT !["tun"] = "copy"]
              /\ Opens("srv", <<>>, {Down("tun")}, Yes)
              /\ copier' = RunningBoth("E", "B") /\ UNCHANGED exiting
  <1>1. CASE /\ addr' \in Dialed(addr) /\ x' = [x EXCEPT !["tun"] = "copy"]
             /\ conn' = Put([conn EXCEPT !["srv"] = OpenConn], Down("tun"), <<"code", 0>>)
             /\ copier' = RunningBoth("E", "B") /\ UNCHANGED exiting
    <2>1. conn \in Conns /\ Yes \in Item
      BY ItemType DEF Types, Yes, Tag
    <2>2. conn' = Put([conn EXCEPT !["srv"] = OpenConn], Down("tun"), Yes)
      BY <1>1 DEF Yes
    <2>3. Opens("srv", <<>>, {Down("tun")}, Yes)
      BY <2>1, <2>2, Ways, AppChannels, OpensPut
    <2> QED
      BY <1>1, <2>3 DEF Dialed
  <1>2. CASE UNCHANGED addr /\ ExitRefuses(5)
    BY <1>2
  <1> QED
    BY <1>1, <1>2 DEF Dial

LEMMA UserMoves ==
    ASSUME Types
    PROVE  /\ Greet => \E t \in {"hello", "junk", "long"} : Moves({}, {Up("app")}, <<t, 0>>, {}, {})
           /\ Request => \E t \in {"connect", "junk", "long"} :
                Moves({Down("app")}, {Up("app")}, <<t, 0>>, {}, {})
           /\ Answered => Moves({Down("app")}, {}, Nothing, {}, {})
           /\ \A u \in User :
                /\ Write(u) => Moves({}, {Mouth(u)}, <<"data", sent[u] + 1>>, {}, {})
                /\ Read(u) => Moves({Ear(u)}, {}, Nothing, {}, {})
                /\ Leave(u) => Closes({<<u, Writer(Mouth(u))>>})
  <1>1. conn \in Conns
    BY DEF Types
  <1>2. ASSUME Greet PROVE \E t \in {"hello", "junk", "long"} : Moves({}, {Up("app")}, <<t, 0>>, {}, {})
    <2>1. PICK t \in {"hello", "junk", "long"} : conn' = Put(conn, Up("app"), <<t, 0>>)
      BY <1>2 DEF Greet
    <2>2. <<t, 0>> \in Item
      BY ItemType DEF Tag
    <2> QED
      BY <1>1, <2>1, <2>2, AppChannels, Puts
  <1>3. ASSUME Request
        PROVE  \E t \in {"connect", "junk", "long"} :
                 Moves({Down("app")}, {Up("app")}, <<t, 0>>, {}, {})
    <2>1. PICK t \in {"connect", "junk", "long"} :
            conn' = Put(Taken(Down("app")), Up("app"), <<t, 0>>)
      BY <1>3 DEF Request
    <2>2. <<t, 0>> \in Item /\ Queue(Down("app")) # <<>>
      BY <1>3, ItemType DEF Tag, Request, Ready
    <2>3. Moves({Down("app")}, {Up("app")}, <<t, 0>>, {}, {})
      BY <1>1, <2>1, <2>2, AppChannels, TakesPuts
    <2> QED
      BY <2>3
  <1>4. ASSUME Answered PROVE Moves({Down("app")}, {}, Nothing, {}, {})
    <2>1. Queue(Down("app")) # <<>> /\ conn' = Taken(Down("app"))
      BY <1>4 DEF Answered, Ready
    <2> QED
      BY <1>1, <2>1, AppChannels, Takes
  <1>5. ASSUME NEW u \in User, Write(u)
        PROVE  Moves({}, {Mouth(u)}, <<"data", sent[u] + 1>>, {}, {})
    <2>1. conn' = Put(conn, Mouth(u), <<"data", sent[u] + 1>>)
      BY <1>5 DEF Write
    <2>2. sent[u] + 1 \in Nat
      BY DEF Types
    <2>3. <<"data", sent[u] + 1>> \in Item
      BY <2>2, ItemType DEF Tag
    <2> QED
      BY <1>1, <2>1, <2>3, Ways, Puts
  <1>6. ASSUME NEW u \in User, Read(u) PROVE Moves({Ear(u)}, {}, Nothing, {}, {})
    <2>1. Queue(Ear(u)) # <<>> /\ conn' = Taken(Ear(u))
      BY <1>6 DEF Read, Ready
    <2> QED
      BY <1>1, <2>1, Ways, Takes
  <1>7. ASSUME NEW u \in User, Leave(u) PROVE Closes({<<u, Writer(Mouth(u))>>})
    BY <1>1, <1>7, CloseEndsCloses DEF Leave
  <1> QED
    BY <1>2, <1>3, <1>4, <1>5, <1>6, <1>7

-----------------------------------------------------------------------------
\* The types are kept.
LEMMA MovesType ==
    ASSUME NEW tk, NEW pt, NEW item, NEW ends, NEW lost, Moves(tk, pt, item, ends, lost)
    PROVE  conn' \in Conns
  BY DEF Moves, Made

LEMMA RunningType ==
    ASSUME copier \in [Copier -> CopierRec], NEW j \in Copier, NEW k \in Copier, j # k
    PROVE  /\ RunningBoth(j, k) \in [Copier -> CopierRec]
           /\ \A i \in Copier : /\ RunningBoth(j, k)[i].piece = copier[i].piece
                               /\ RunningBoth(j, k)[i].pc =
                                    IF i \in {j, k} THEN "read" ELSE copier[i].pc
  <1>1. copier[j] \in CopierRec /\ copier[k] \in CopierRec
    OBVIOUS
  <1> DEFINE r == [copier[j] EXCEPT !.pc = "read"]
             q == [copier[k] EXCEPT !.pc = "read"]
  <1>2. /\ r \in CopierRec /\ r.pc = "read" /\ r.piece = copier[j].piece
        /\ q \in CopierRec /\ q.pc = "read" /\ q.piece = copier[k].piece
    BY <1>1 DEF CopierRec
  <1>3. RunningBoth(j, k) = [copier EXCEPT ![j] = r, ![k] = q]
    BY DEF RunningBoth
  <1> HIDE DEF r, q
  <1> QED
    BY <1>2, <1>3

LEMMA TypesInit == Init => Types
  <1> SUFFICES ASSUME Init PROVE Types
    OBVIOUS
  <1>1. conn \in Conns
    BY NewConnIs, OpenConnIs DEF Init, Conns
  <1>2. copier \in [Copier -> CopierRec]
    BY DEF Init, CopierRec
  <1>3. got \in [User -> Seq(Nat)]
    BY DEF Init
  <1>4. dead \in [Side -> BOOLEAN] /\ sent \in [User -> Nat]
    BY DEF Init
  <1>5. x \in [Tunnel -> {"off", "addr", "resolve", "dial", "copy", "over"}]
    BY DEF Init
  <1>6. dest \in Dests /\ geodb \in BOOLEAN /\ cached \in Addrs \cup {NoAddr} /\ wire \in BOOLEAN
    BY DEF Init
  <1>7. h = "greet" /\ far = "app" /\ app = "greet" /\ hushed = {} /\ causes = {} /\ faults \in 0..Faults[dest]
    BY ProxyAssumption DEF Init
  <1> QED
    BY <1>1, <1>2, <1>3, <1>4, <1>5, <1>6, <1>7 DEF Types

LEMMA TypesClient ==
    ASSUME Types, Client
    PROVE  Types'
  <1> USE DEF Types, request, search, client, exit, user, world, deciding
  <1>1. CASE ReadGreeting
    BY <1>1, ClientMoves, MovesType DEF ReadGreeting
  <1>2. CASE ReadConnect
    BY <1>2, ClientMoves, MovesType DEF ReadConnect
  <1>3. CASE EndsRequest
    <2>1. CloseEnds(appEnd, {})
      BY <1>3 DEF EndsRequest, ReadRequestFails, ReadRequestPanics, appEnd
    <2>2. causes' \subseteq causes \cup {} \cup {"late"} /\ Closes(appEnd)
      BY <2>1, CloseEndsCloses
    <2>3. conn' \in Conns
      BY <2>2, MovesType DEF Closes
    <2>4. dead' \in [Side -> BOOLEAN]
      BY <1>3 DEF EndsRequest, ReadRequestFails, ReadRequestPanics
    <2> QED
      BY <1>3, <2>2, <2>3, <2>4 DEF EndsRequest, ReadRequestFails, ReadRequestPanics
  <1>4. CASE Filter
    BY <1>4 DEF Filter
  <1>5. CASE Search
    BY <1>5 DEF Search, Probe
  <1>6. CASE Searched
    BY <1>6 DEF Searched
  <1>7. CASE Lookup
    BY <1>7 DEF Lookup
  <1>8. CASE AskName
    <2>1. conn' \in Conns
      BY <1>8, AskMoves DEF Opens
    <2> QED
      BY <1>8, <2>1 DEF AskName
  <1>9. CASE NameKnown
    BY <1>9, ClientMoves, MovesType DEF NameKnown
  <1>10. CASE NameUnknown
    BY <1>10, ClientMoves, MovesType DEF NameUnknown
  <1>11. CASE DialDirect
    <2>1. conn' \in Conns /\ copier' \in [Copier -> CopierRec]
          /\ h' \in {"copy", "over"} /\ far' \in {"srv", far}
      <3>1. RunningBoth("H", "D") \in [Copier -> CopierRec]
        BY Ways, RunningType
      <3>2. CASE far' = "srv" /\ h' = "copy" /\ Opens("srv", <<>>, {Down("app")}, Yes)
                 /\ copier' = RunningBoth("H", "D")
        BY <3>1, <3>2 DEF Opens
      <3>3. CASE h' = "over" /\ Moves({}, {Down("app")}, <<"code", 3>>, appEnd, {})
                 /\ UNCHANGED <<far, addr, copier>>
        BY <3>3, MovesType
      <3> QED
        BY <1>11, <3>2, <3>3, DialDirectMoves
    <2> QED
      BY <1>11, <2>1 DEF DialDirect
  <1>12. CASE AskExit
    <2>1. conn' \in Conns
      BY <1>12, AskMoves DEF Opens
    <2> QED
      BY <1>12, <2>1 DEF AskExit
  <1>13. CASE NoTunnel
    BY <1>13, ClientMoves, MovesType DEF NoTunnel
  <1>14. CASE ReadCode
    <2>1. conn' \in Conns /\ copier' \in [Copier -> CopierRec] /\ h' \in {"copy", "over"}
      <3>1. RunningBoth("H", "D") \in [Copier -> CopierRec]
        BY Ways, RunningType
      <3>2. (h' = "copy" /\ copier' = RunningBoth("H", "D")) \/ (h' = "over" /\ copier' = copier)
        BY <1>14, ReadCodeMoves
      <3>3. conn' \in Conns
        BY <1>14, ReadCodeMoves, MovesType
      <3> QED
        BY <3>1, <3>2, <3>3
    <2> QED
      BY <1>14, <2>1 DEF ReadCode
  <1>15. CASE ReadCodeFails
    BY <1>15, ClientMoves, MovesType DEF ReadCodeFails
  <1>16. CASE TimerFires
    BY <1>16 DEF TimerFires
  <1> QED
    BY <1>1, <1>2, <1>3, <1>4, <1>5, <1>6, <1>7, <1>8, <1>9, <1>10, <1>11, <1>12, <1>13,
       <1>14, <1>15, <1>16 DEF Client, EndsRequest

LEMMA TypesExiting ==
    ASSUME Types, UNCHANGED exiting, conn' \in Conns, copier' \in [Copier -> CopierRec],
           NEW t \in Tunnel, NEW pc \in {"resolve", "dial", "copy", "over"},
           x' = [x EXCEPT ![t] = pc]
    PROVE  Types'
  <1>1. x' \in [Tunnel -> {"off", "addr", "resolve", "dial", "copy", "over"}]
    BY DEF Types
  <1>2. UNCHANGED <<dest, geodb, cached, wire, dead, h, far, app, hushed, sent, got, causes, faults>>
    BY DEF exiting, request, client, user, world
  <1> QED
    BY <1>1, <1>2 DEF Types

LEMMA TypesExit ==
    ASSUME Types, Exit
    PROVE  Types'
  <1>0. copier \in [Copier -> CopierRec]
    BY DEF Types
  <1>1. CASE ResolveForClient
    <2>1. conn' \in Conns
      BY <1>1, ExitMoves, MovesType
    <2>2. UNCHANGED exiting /\ copier' = copier /\ x' = [x EXCEPT !["dns"] = "over"]
      BY <1>1 DEF ResolveForClient
    <2> QED
      BY <1>0, <2>1, <2>2, TypesExiting, Ways
  <1>2. CASE ReadAddr
    <2>1. conn' \in Conns
      BY <1>2, ExitMoves, MovesType
    <2>2. UNCHANGED exiting /\ copier' = copier /\ x' = [x EXCEPT !["tun"] = "resolve"]
      BY <1>2 DEF ReadAddr
    <2> QED
      BY <1>0, <2>1, <2>2, TypesExiting, Ways
  <1>3. CASE \E t \in Tunnel : ReadAddrFails(t)
    <2>1. PICK t \in Tunnel : ReadAddrFails(t)
      BY <1>3
    <2>2. conn' \in Conns
      BY <2>1, ExitMoves, MovesType
    <2>3. UNCHANGED exiting /\ copier' = copier /\ x' = [x EXCEPT ![t] = "over"]
      BY <2>1 DEF ReadAddrFails
    <2> QED
      BY <1>0, <2>2, <2>3, TypesExiting
  <1>4. ASSUME NEW c \in Nat, ExitRefuses(c) PROVE Types'
    <2>1. conn' \in Conns
      BY <1>4, ExitMoves, MovesType
    <2>2. UNCHANGED exiting /\ copier' = copier /\ x' = [x EXCEPT !["tun"] = "over"]
      BY <1>4 DEF ExitRefuses
    <2> QED
      BY <1>0, <2>1, <2>2, TypesExiting, Ways
  <1>5. CASE Resolve
    <2>1. CASE ExitRefuses(4)
      BY <1>4, <2>1
    <2>2. CASE ExitRefuses(2)
      BY <1>4, <2>2
    <2>3. CASE x' = [x EXCEPT !["tun"] = "dial"] /\ UNCHANGED <<conn, copier, exiting>>
      <3>1. conn' \in Conns
        BY <2>3 DEF Types
      <3> QED
        BY <1>0, <2>3, <3>1, TypesExiting, Ways
    <2> QED
      BY <1>5, <2>1, <2>2, <2>3 DEF Resolve
  <1>6. CASE Dial
    <2>1. CASE ExitRefuses(5)
      BY <1>4, <2>1
    <2>2. CASE /\ addr' \in {addr} /\ x' = [x EXCEPT !["tun"] = "copy"]
               /\ Opens("srv", <<>>, {Down("tun")}, Yes)
               /\ copier' = RunningBoth("E", "B") /\ UNCHANGED exiting
      <3>1. RunningBoth("E", "B") \in [Copier -> CopierRec]
        BY <1>0, Ways, RunningType
      <3>2. conn' \in Conns
        BY <2>2 DEF Opens
      <3> QED
        BY <2>2, <3>1, <3>2, TypesExiting, Ways
    <2> QED
      BY <1>6, <2>1, <2>2, DialMoves
  <1> QED
    BY <1>1, <1>2, <1>3, <1>5, <1>6 DEF Exit

LEMMA ClosesType == ASSUME NEW ends, Closes(ends) PROVE conn' \in Conns
  BY MovesType DEF Closes

LEMMA TypesLoop ==
    ASSUME Types, NEW k \in Copier, Loops(k)
    PROVE  Types'
  <1> USE DEF request, search, client, exit, user
  <1>1. copier[k] \in CopierRec
    BY DEF Types
  <1>2. CASE LoopReads(k)
    <2>1. First(In(k))[2] \in Nat
      BY <1>2, LoopChannels, FirstType DEF LoopReads, Types
    <2>2. conn' \in Conns /\ copier' \in [Copier -> CopierRec]
      BY <1>2, <2>1, MovesType DEF LoopReads, Types, CopierRec
    <2> QED
      BY <1>2, <2>2 DEF LoopReads, Loops, Types
  <1>3. CASE LoopWrites(k)
    <2>1. conn' \in Conns /\ copier' \in [Copier -> CopierRec]
      BY <1>3, MovesType DEF LoopWrites, Types, CopierRec
    <2> QED
      BY <1>3, <2>1 DEF LoopWrites, Loops, Types
  <1>4. CASE LoopLoses(k)
    <2>1. copier' \in [Copier -> CopierRec]
      BY <1>4 DEF LoopLoses, Types, CopierRec
    <2> QED
      BY <1>4, <2>1 DEF LoopLoses, Loops, Types
  <1>5. CASE LoopStops(k)
    <2>1. conn' \in Conns /\ copier' \in [Copier -> CopierRec]
      BY <1>5, ClosesType DEF LoopStops, Types, CopierRec
    <2>2. faults' \in 0..Faults[dest]
      BY <1>5, ProxyAssumption DEF LoopStops, Types
    <2> QED
      BY <1>5, <2>1, <2>2 DEF LoopStops, Loops, Types
  <1> QED
    BY <1>2, <1>3, <1>4, <1>5 DEF Loops

Uses == Greet \/ Request \/ Answered \/ \E u \in User : Write(u) \/ Read(u) \/ ReadEnd(u) \/ Leave(u)
Breaks ==
    \/ WireBreaks \/ Killed
    \/ \E s \in Side : Notice(s)
    \/ \E u \in User : HalfClose(u)

LEMMA TypesUse ==
    ASSUME Types, Uses
    PROVE  Types'
  <1> USE DEF request, search, client, exit, user, world, talkOnly
  <1>1. CASE Greet
    <2>1. conn' \in Conns
      BY <1>1, UserMoves, MovesType
    <2> QED
      BY <1>1, <2>1 DEF Greet, Types
  <1>2. CASE Request
    <2>1. conn' \in Conns
      BY <1>2, UserMoves, MovesType
    <2> QED
      BY <1>2, <2>1 DEF Request, Types
  <1>3. CASE Answered
    <2>1. conn' \in Conns
      BY <1>3, UserMoves, MovesType
    <2> QED
      BY <1>3, <2>1 DEF Answered, Types
  <1>4. ASSUME NEW u \in User, Write(u) PROVE Types'
    <2>1. conn' \in Conns
      BY <1>4, UserMoves, MovesType
    <2>2. sent' \in [User -> Nat]
      BY <1>4 DEF Write, Types
    <2> QED
      BY <1>4, <2>1, <2>2 DEF Write, Types
  <1>5. ASSUME NEW u \in User, Read(u) PROVE Types'
    <2>1. conn' \in Conns
      BY <1>5, UserMoves, MovesType
    <2>2. First(Ear(u))[2] \in Nat
      BY <1>5, Ways, FirstType DEF Read, Ready, Types
    <2>3. got' \in [User -> Seq(Nat)]
      BY <1>5, <2>2 DEF Read, Types
    <2> QED
      BY <1>5, <2>1, <2>3 DEF Read, Types
  <1>6. ASSUME NEW u \in User, ReadEnd(u) PROVE Types'
    <2>1. got' \in [User -> Seq(Nat)]
      BY <1>6 DEF ReadEnd, Types
    <2> QED
      BY <1>6, <2>1 DEF ReadEnd, Types
  <1>7. ASSUME NEW u \in User, Leave(u) PROVE Types'
    <2>1. CloseEnds({<<u, Writer(Mouth(u))>>}, {})
      BY <1>7 DEF Leave
    <2>2. causes' \subseteq causes \cup {} \cup {"late"} /\ Closes({<<u, Writer(Mouth(u))>>})
      BY <2>1, CloseEndsCloses DEF Types
    <2>3. conn' \in Conns
      BY <2>2, ClosesType
    <2> QED
      BY <1>7, <2>2, <2>3 DEF Leave, Types
  <1> QED
    BY <1>1, <1>2, <1>3, <1>4, <1>5, <1>6, <1>7 DEF Uses

LEMMA TypesBreak ==
    ASSUME Types, Breaks
    PROVE  Types'
  <1> USE DEF request, search, client, exit, user, world
  <1>1. CASE WireBreaks
    <2>1. dest' = dest /\ faults' \in 0..Faults[dest]
      BY <1>1, ProxyAssumption DEF WireBreaks, Types
    <2> QED
      BY <1>1, <2>1 DEF WireBreaks, Types
  <1>2. CASE Killed
    <2>1. dest' = dest /\ faults' \in 0..Faults[dest]
      BY <1>2, ProxyAssumption DEF Killed, Types
    <2>2. dead' \in [Side -> BOOLEAN]
      BY <1>2 DEF Killed, Types
    <2> QED
      BY <1>2, <2>1, <2>2 DEF Killed, Types
  <1>3. CASE \E s \in Side : Notice(s)
    <2>1. dead' \in [Side -> BOOLEAN]
      BY <1>3 DEF Notice, Types
    <2> QED
      BY <1>3, <2>1 DEF Notice, Types
  <1>4. CASE \E u \in User : HalfClose(u)
    BY <1>4 DEF HalfClose, Types
  <1> QED
    BY <1>1, <1>2, <1>3, <1>4 DEF Breaks

LEMMA NextCases ==
    ASSUME Types, [Next]_vars
    PROVE  Client \/ Exit \/ (\E k \in Copier : Loops(k)) \/ Uses \/ Breaks \/ UNCHANGED vars
  BY LoopSteps DEF Next, Uses, Breaks

LEMMA TypesStep == ASSUME Types, [Next]_vars PROVE Types'
  <1>1. CASE UNCHANGED vars
    BY <1>1 DEF vars, Types, request, search, client, exit, user, world
  <1> QED
    BY <1>1, NextCases, TypesClient, TypesExit, TypesLoop, TypesUse, TypesBreak

-----------------------------------------------------------------------------
(* The phases of a request *)

\* Which way a request has gone, and which loops run.  The exit is in play from
\* the moment that the client has asked it, and never along with a connection
\* of the client's own; a connection that is dialled stays.
Control ==
    /\ x["tun"] = "off" <=> far # "tun"
    /\ far = "tun" => h \in {"code", "copy", "over"}
    /\ far = "srv" => h = "copy"
    /\ h \in {"code", "copy"} => far # "app"
    /\ h = "code" => far = "tun"
    /\ \A k \in {"H", "D"} : copier[k].pc # "off" => h = "copy"
    /\ \A k \in {"E", "B"} : copier[k].pc # "off" => x["tun"] = "copy"

\* The address that the exit has checked is the one it dials.
Checked ==
    /\ x["tun"] \in {"dial", "copy"} => addr \notin Local
    /\ x["tun"] \in {"dial", "copy"} \/ far = "srv" => (dest.form = "ip" => addr = dest.ip)

\* A destination that bypasses the exit whatever the cache has
Straight == dest.form # "name" /\ Bypasses

\* What the phases of filterDest mean for the way
Judged ==
    /\ ipint = dest.ip
    /\ h = "search" => dest.form = "ip" /\ geodb /\ dest.ip \notin Local
    /\ h = "direct" \/ far = "srv" => Straight
    /\ h \in {"lookup", "dns", "tunnel"} \/ far = "tun" => ~Straight

LEMMA StraightStays == ASSUME UNCHANGED request PROVE Straight' <=> Straight
  BY DEF Straight, Bypasses, Whitelisted, request

ControlInv == Types /\ GeoInv /\ Control /\ Checked /\ Judged

LEMMA ControlInit == Init => GeoInv /\ Control /\ Checked /\ Judged
  <1> SUFFICES ASSUME Init PROVE GeoInv /\ Control /\ Checked /\ Judged
    OBVIOUS
  <1>1. dest.ip \in Nat /\ GeoInit(dest.ip)
    BY ProxyAssumption DEF Init
  <1>2. GeoInv
    BY <1>1, GeoStart
  <1>3. h = "greet" /\ far = "app" /\ x["tun"] = "off" /\ \A k \in Copier : copier[k].pc = "off"
    BY DEF Init, Tunnel
  <1>4. ipint = dest.ip
    BY <1>1 DEF GeoInit
  <1> QED
    BY <1>2, <1>3, <1>4, Ways DEF Control, Checked, Judged

LEMMA ControlLoop ==
    ASSUME ControlInv, NEW k \in Copier, Loops(k)
    PROVE  GeoInv' /\ Control' /\ Checked' /\ Judged'
  <1>1. UNCHANGED <<request, client, exit>>
    BY DEF Loops
  <1>2. \A i \in Copier : copier'[i].pc # "off" => copier[i].pc # "off"
    <2>1. copier[k].pc # "off"
      BY DEF Loops, LoopReads, LoopWrites, LoopLoses, LoopStops
    <2>2. \A i \in Copier : i # k => copier'[i] = copier[i]
      BY DEF Loops, LoopReads, LoopWrites, LoopLoses, LoopStops, ControlInv, Types
    <2> QED
      BY <2>1, <2>2
  <1>3. GeoInv'
    BY <1>1, GeoStutter DEF ControlInv, request, client, search, geoVars
  <1>4. Control'
    BY <1>1, <1>2, Ways DEF ControlInv, Control, client, exit
  <1> QED
    BY <1>1, <1>3, <1>4, StraightStays
       DEF ControlInv, Checked, Judged, request, client, exit

LEMMA ControlUse ==
    ASSUME ControlInv, Uses \/ Breaks \/ UNCHANGED vars
    PROVE  GeoInv' /\ Control' /\ Checked' /\ Judged'
  <1>1. UNCHANGED <<request, client, exit, copier>>
    BY DEF Uses, Breaks, Greet, Request, Answered, Write, Read, ReadEnd, Leave, WireBreaks,
           Killed, Notice, HalfClose, talkOnly, vars, client, request, exit
  <1>2. GeoInv'
    BY <1>1, GeoStutter DEF ControlInv, request, client, search, geoVars
  <1> QED
    BY <1>1, <1>2, StraightStays
       DEF ControlInv, Control, Checked, Judged, request, client, exit

LEMMA ControlExit ==
    ASSUME ControlInv, Exit
    PROVE  GeoInv' /\ Control' /\ Checked' /\ Judged'
  <1>1. UNCHANGED <<request, client>>
    BY DEF Exit, ResolveForClient, ReadAddr, ReadAddrFails, Resolve, Dial, ExitRefuses, exiting
  <1>2. GeoInv'
    BY <1>1, GeoStutter DEF ControlInv, request, client, search, geoVars
  <1>3. Judged'
    BY <1>1, StraightStays DEF ControlInv, Judged, request, client
  <1> USE DEF ControlInv, Types, Control, Checked, request, client
  <1>4. CASE ResolveForClient
    BY <1>1, <1>2, <1>3, <1>4, Ways DEF ResolveForClient
  <1>5. CASE ReadAddr
    BY <1>1, <1>2, <1>3, <1>5, Ways DEF ReadAddr
  <1>6. CASE \E t \in Tunnel : ReadAddrFails(t)
    <2>1. PICK t \in Tunnel : ReadAddrFails(t)
      BY <1>6
    <2> QED
      BY <1>1, <1>2, <1>3, <2>1, Ways DEF ReadAddrFails
  <1>7. CASE Resolve
    <2>1. CASE x' = [x EXCEPT !["tun"] = "over"] /\ UNCHANGED copier
      BY <1>1, <1>2, <1>3, <1>7, <2>1, Ways DEF Resolve
    <2>2. CASE /\ x' = [x EXCEPT !["tun"] = "dial"] /\ UNCHANGED copier
               /\ ~IsBlack(addr') /\ (dest.form = "ip" => addr' = dest.ip)
      BY <1>1, <1>2, <1>3, <1>7, <2>2, Ways DEF Resolve, IsBlack
    <2> QED
      BY <1>7, <2>1, <2>2 DEF Resolve, ExitRefuses
  <1>8. CASE Dial
    <2>1. CASE x' = [x EXCEPT !["tun"] = "over"] /\ UNCHANGED copier
      BY <1>1, <1>2, <1>3, <1>8, <2>1, Ways DEF Dial
    <2>2. CASE /\ addr' \in {addr} /\ x' = [x EXCEPT !["tun"] = "copy"]
               /\ copier' = RunningBoth("E", "B")
      <3>1. \A i \in Copier : RunningBoth("E", "B")[i].pc =
                               IF i \in {"E", "B"} THEN "read" ELSE copier[i].pc
        BY Ways, RunningType
      <3>2. /\ copier'["H"].pc = copier["H"].pc
            /\ copier'["D"].pc = copier["D"].pc
        BY <2>2, <3>1, Ways
      <3> QED
        BY <1>1, <1>2, <1>3, <1>8, <2>2, <3>2, Ways DEF Dial
    <2> QED
      BY <1>8, <2>1, <2>2, DialMoves DEF ExitRefuses
  <1> QED
    BY <1>4, <1>5, <1>6, <1>7, <1>8 DEF Exit

\* The rows of an ascending table that hold an address are one row at most.
LEMMA RowOnce ==
    ASSUME GeoInv, NEW j \in 1..Len(slice), NEW k \in 1..Len(slice), Within(j), Within(k)
    PROVE  j = k
  <1>1. \A i \in 1..Len(slice) : slice[i].from \in Nat /\ slice[i].to \in Nat
    BY RowType
  <1>2. Len(slice) \in Nat /\ ipint \in Nat
    BY DEF GeoInv
  <1>3. ASSUME NEW a \in 1..Len(slice), NEW b \in 1..Len(slice), Within(a), Within(b), a < b
        PROVE  FALSE
    <2>1. slice[a].to < slice[b].from
      BY <1>3 DEF GeoInv, Ascending
    <2> QED
      BY <1>1, <1>2, <1>3, <2>1 DEF Within
  <1> QED
    BY <1>3

\* The country decides as Bypasses does.
LEMMA CountryDecides ==
    ASSUME GeoInv, ctry # "none", dest.form = "ip", geodb, dest.ip \notin Local,
           ipint = dest.ip
    PROVE  Straight <=> ctry \in Whitelist
  <1>1. CountryIsRight /\ "UN" \notin Countries
    BY GeoAssumption DEF GeoInv
  <1>2. Straight <=> \/ \E k \in 1..Len(slice) : Within(k) /\ slice[k].ctry \in Whitelist
                     \/ "UN" \in Whitelist /\ \A k \in 1..Len(slice) : ~Within(k)
    BY DEF Straight, Bypasses, Whitelisted, Within
  <1>3. ASSUME NEW k \in 1..Len(slice), Within(k), ctry = slice[k].ctry
        PROVE  Straight <=> ctry \in Whitelist
    <2>1. \A j \in 1..Len(slice) : Within(j) => j = k
      BY <1>3, RowOnce
    <2> QED
      BY <1>2, <1>3, <2>1
  <1>4. ASSUME ctry = "UN", \A k \in 1..Len(slice) : ~Within(k)
        PROVE  Straight <=> ctry \in Whitelist
    BY <1>2, <1>4
  <1> QED
    BY <1>1, <1>3, <1>4 DEF CountryIsRight

LEMMA ControlClient ==
    ASSUME ControlInv, Client
    PROVE  GeoInv' /\ Control' /\ Checked' /\ Judged'
  <1>1. UNCHANGED request
    BY DEF Client, EndsRequest, ReadRequestFails, ReadRequestPanics,
           ReadGreeting, ReadConnect, Filter, Search, Searched, Lookup,
           AskName, NameKnown, NameUnknown, DialDirect, AskExit, NoTunnel, ReadCode,
           ReadCodeFails, TimerFires, Probe, deciding, request
  <1>2. GeoInv'
    <2>1. CASE Search
      BY <2>1, GeoStep DEF Search, ControlInv
    <2>2. CASE UNCHANGED search
      BY <1>1, <2>2, GeoStutter DEF ControlInv, request, search, geoVars
    <2> QED
      BY <2>1, <2>2
         DEF Client, EndsRequest, ReadRequestFails, ReadRequestPanics,
             ReadGreeting, ReadConnect, Filter, Searched, Lookup,
             AskName, NameKnown, NameUnknown, DialDirect, AskExit, NoTunnel, ReadCode,
             ReadCodeFails, TimerFires, client
  <1>3. Straight' <=> Straight
    BY <1>1, StraightStays
  <1>4. UNCHANGED <<dest, geodb, ipint>>
    BY <1>1 DEF request
  <1> SUFFICES Control' /\ Checked' /\ Judged'
    BY <1>2
  <1>22. copier' = RunningBoth("H", "D") =>
           copier'["E"].pc = copier["E"].pc /\ copier'["B"].pc = copier["B"].pc
    <2>1. copier \in [Copier -> CopierRec]
      BY DEF ControlInv, Types
    <2>2. \A i \in Copier : RunningBoth("H", "D")[i].pc =
                              IF i \in {"H", "D"} THEN "read" ELSE copier[i].pc
      BY <2>1, Ways, RunningType
    <2> QED
      BY <2>2, Ways
  <1> USE DEF Types, Control, Checked, Judged, ControlInv
  <1>5. ASSUME UNCHANGED <<far, exit, copier>>,
               h \notin {"code", "copy", "over"}, h' \notin {"search", "lookup", "dns", "direct",
                                                            "tunnel", "code", "copy"}
        PROVE  Control' /\ Checked' /\ Judged'
    BY <1>3, <1>4, <1>5, Ways DEF exit
  <1>6. CASE ReadGreeting
    BY <1>5, <1>6 DEF ReadGreeting
  <1>7. CASE ReadConnect
    BY <1>5, <1>7 DEF ReadConnect
  <1>8. CASE EndsRequest
    BY <1>5, <1>8 DEF EndsRequest, ReadRequestFails, ReadRequestPanics
  <1>9. CASE Filter
    <2>1. h' = "direct" => Straight
      BY <1>9 DEF Filter, Straight, Bypasses, Plain, IsBlack
    <2>2. h' \in {"lookup", "tunnel"} => ~Straight
      BY <1>9 DEF Filter, Straight, Bypasses, Plain, IsBlack
    <2>3. /\ h = "filter" /\ h' \in {"tunnel", "direct", "lookup", "search"}
          /\ h' = "search" => dest.form = "ip" /\ geodb /\ dest.ip \notin Local
      BY <1>9 DEF Filter, IsBlack
    <2> QED
      BY <1>3, <1>4, <1>9, <2>1, <2>2, <2>3, Ways DEF Filter, deciding, exit
  <1>10. CASE Search
    BY <1>3, <1>4, <1>10, Ways DEF Search, deciding, exit
  <1>11. CASE Searched
    <2>1. IF ctry \in Whitelist THEN h' = "direct" /\ Straight ELSE h' = "tunnel" /\ ~Straight
      BY <1>11, CountryDecides DEF Searched
    <2> QED
      BY <1>3, <1>4, <1>11, <2>1, Ways DEF Searched, deciding, exit
  <1>12. CASE Lookup
    BY <1>3, <1>4, <1>12, Ways DEF Lookup, deciding, exit
  <1>13. CASE AskName
    BY <1>3, <1>4, <1>13, Ways DEF AskName
  <1>14. CASE NameKnown
    BY <1>3, <1>4, <1>14, Ways DEF NameKnown, deciding, exit
  <1>15. CASE NameUnknown
    BY <1>3, <1>4, <1>15, Ways DEF NameUnknown, deciding, exit
  <1>16. CASE DialDirect
    <2>2. h = "direct" /\ Straight /\ UNCHANGED x
      BY <1>16 DEF DialDirect
    <2>3. CASE /\ far' = "srv" /\ h' = "copy" /\ copier' = RunningBoth("H", "D")
               /\ addr' \in IF dest.form = "ip" THEN {dest.ip} ELSE Addrs
      BY <1>3, <1>4, <1>22, <2>2, <2>3
    <2>4. CASE h' = "over" /\ UNCHANGED <<far, addr, copier>>
      BY <1>3, <1>4, <2>2, <2>4, Ways
    <2> QED
      BY <1>16, <2>3, <2>4, DialDirectMoves
  <1>17. CASE AskExit
    BY <1>3, <1>4, <1>17, Ways DEF AskExit
  <1>18. CASE NoTunnel
    BY <1>3, <1>4, <1>18, Ways DEF NoTunnel, exit
  <1>19. CASE ReadCode
    <2>2. (h' = "copy" /\ copier' = RunningBoth("H", "D")) \/ (h' = "over" /\ copier' = copier)
      BY <1>19, ReadCodeMoves
    <2>3. h = "code" /\ UNCHANGED <<far, x, addr>>
      BY <1>19 DEF ReadCode, exit
    <2>5. CASE h' = "copy" /\ copier' = RunningBoth("H", "D")
      BY <1>3, <1>4, <1>22, <2>3, <2>5
    <2>6. CASE h' = "over" /\ copier' = copier
      BY <1>3, <1>4, <2>3, <2>6
    <2> QED
      BY <2>2, <2>5, <2>6
  <1>20. CASE ReadCodeFails
    BY <1>3, <1>4, <1>20, Ways DEF ReadCodeFails, exit
  <1>21. CASE TimerFires
    BY <1>3, <1>4, <1>21, Ways DEF TimerFires, client, exit
  <1> QED
    BY <1>2, <1>6, <1>7, <1>8, <1>9, <1>10, <1>11, <1>12, <1>13, <1>14, <1>15, <1>16, <1>17,
       <1>18, <1>19, <1>20, <1>21 DEF Client, EndsRequest

LEMMA ControlStep == ASSUME ControlInv, [Next]_vars PROVE ControlInv'
  <1>1. Types'
    BY TypesStep DEF ControlInv
  <1>2. GeoInv' /\ Control' /\ Checked' /\ Judged'
    BY NextCases, ControlClient, ControlExit, ControlLoop, ControlUse DEF ControlInv
  <1> QED
    BY <1>1, <1>2 DEF ControlInv

\* The phases of the client, of the exit and of the four loops fit together: who
\* is connected to whom, and why the request went that way.
THEOREM ControlSafe == Spec => []ControlInv
  <1>1. Init => ControlInv
    BY TypesInit, ControlInit DEF ControlInv
  <1>2. ControlInv /\ [Next]_vars => ControlInv'
    BY ControlStep
  <1> QED
    BY <1>1, <1>2, PTL DEF Spec

\* The exit never connects to a local address, whatever names resolve to and
\* however often that changes.
THEOREM ProxyLocalStaysLocal == Spec => []LocalStaysLocal
  <1>1. ControlInv => LocalStaysLocal
    BY DEF ControlInv, Checked, LocalStaysLocal
  <1> QED
    BY <1>1, ControlSafe, PTL

\* The country that the client decides by is the right one.
THEOREM ProxyCountryIsRight == Spec => []CountryIsRight
  <1>1. ControlInv => CountryIsRight
    BY DEF ControlInv, GeoInv
  <1> QED
    BY <1>1, ControlSafe, PTL

-----------------------------------------------------------------------------
(* Connections from one step to the next *)

Fading == (wire' => wire) /\ \A s \in Side : dead[s] => dead'[s]

\* What kills the Context at the client's side
KillsLeft == wire' = wire /\ dead' = [dead EXCEPT !["left"] = TRUE]

LEMMA FadingStep == ASSUME Types, [Next]_vars PROVE Fading
  <1>1. ASSUME UNCHANGED <<wire, dead>> PROVE Fading
    BY <1>1 DEF Fading
  <1>2. dead \in [Side -> BOOLEAN]
    BY DEF Types
  <1>3. ASSUME KillsLeft PROVE Fading
    BY <1>2, <1>3 DEF Fading, KillsLeft, Side
  <1>4. CASE Client
    <2>1. NoTunnel \/ ReadCodeFails \/ TimerFires => KillsLeft
      BY DEF NoTunnel, ReadCodeFails, TimerFires, KillsLeft, world
    <2>4. EndsRequest => KillsLeft \/ UNCHANGED <<wire, dead>>
      BY DEF EndsRequest, ReadRequestFails, ReadRequestPanics, KillsLeft, world
    <2>2. ReadGreeting \/ ReadConnect \/ AskName \/ DialDirect \/ AskExit
            \/ ReadCode => UNCHANGED <<wire, dead>>
      BY DEF ReadGreeting, ReadConnect, AskName, DialDirect, AskExit, ReadCode,
             world
    <2>3. Filter \/ Search \/ Searched \/ Lookup \/ NameKnown \/ NameUnknown
            => UNCHANGED <<wire, dead>>
      BY DEF Filter, Search, Searched, Lookup, NameKnown, NameUnknown, deciding, world
    <2> QED
      BY <1>1, <1>3, <1>4, <2>1, <2>2, <2>3, <2>4 DEF Client, EndsRequest
  <1>5. CASE Exit
    <2>1. UNCHANGED exiting
      BY <1>5 DEF Exit, ResolveForClient, ReadAddr, ReadAddrFails, Resolve, Dial, ExitRefuses
    <2> QED
      BY <1>1, <2>1 DEF exiting, world
  <1>6. CASE \E k \in Copier : Loops(k)
    BY <1>1, <1>6 DEF Loops
  <1>7. CASE Uses
    BY <1>1, <1>7 DEF Uses, Greet, Request, Answered, Write, Read, ReadEnd, Leave, talkOnly, world
  <1>8. CASE Breaks
    <2>1. CASE WireBreaks
      BY <2>1 DEF WireBreaks, Fading
    <2>2. CASE Killed
      BY <1>3, <2>2 DEF Killed, KillsLeft
    <2>3. ASSUME NEW s \in Side, Notice(s) PROVE Fading
      BY <1>2, <2>3 DEF Notice, Fading, world
    <2>4. ASSUME NEW u \in User, HalfClose(u) PROVE Fading
      BY <1>1, <2>4 DEF HalfClose, world
    <2> QED
      BY <1>8, <2>1, <2>2, <2>3, <2>4 DEF Breaks
  <1>9. CASE UNCHANGED vars
    BY <1>1, <1>9 DEF vars, world
  <1> QED
    BY <1>4, <1>5, <1>6, <1>7, <1>8, <1>9, NextCases

\* The queues and ends of one connection
LEMMA MovesAt ==
    ASSUME NEW tk, NEW pt, NEW item, NEW ends, NEW lost, Moves(tk, pt, item, ends, lost),
           NEW c \in Conn
    PROVE  /\ Up(c) \in tk => conn[c].up # <<>>
           /\ Down(c) \in tk => conn[c].down # <<>>
           /\ conn'[c].up = IF Up(c) \in lost THEN <<>>
                            ELSE IF Up(c) \in tk THEN Tail(conn[c].up)
                            ELSE IF Up(c) \in pt /\ Arrives(Up(c)) THEN Append(conn[c].up, item)
                            ELSE conn[c].up
           /\ conn'[c].down = IF Down(c) \in lost THEN <<>>
                            ELSE IF Down(c) \in tk THEN Tail(conn[c].down)
                            ELSE IF Down(c) \in pt /\ Arrives(Down(c)) THEN Append(conn[c].down, item)
                            ELSE conn[c].down
           /\ conn'[c].left <=> conn[c].left /\ <<c, "left">> \notin ends
           /\ conn'[c].right <=> conn[c].right /\ <<c, "right">> \notin ends
  <1>1. /\ \A ch \in tk : Queue(ch) # <<>>
        /\ \A ch \in Channel :
             Q(conn', ch) = IF ch \in lost THEN <<>>
                            ELSE IF ch \in tk THEN Tail(Queue(ch))
                            ELSE IF ch \in pt /\ Arrives(ch) THEN Append(Queue(ch), item)
                            ELSE Queue(ch)
        /\ \A d \in Conn, s \in Side : conn'[d][s] <=> conn[d][s] /\ <<d, s>> \notin ends
    BY DEF Moves, Made
  <1>2. Up(c) \in Channel /\ Down(c) \in Channel
    BY Names
  <1>3. /\ Queue(Up(c)) = conn[c].up /\ Queue(Down(c)) = conn[c].down
        /\ Q(conn', Up(c)) = conn'[c].up /\ Q(conn', Down(c)) = conn'[c].down
    BY DEF Queue, Q, Up, Down
  <1>4. /\ conn'[c].left <=> conn[c].left /\ <<c, "left">> \notin ends
        /\ conn'[c].right <=> conn[c].right /\ <<c, "right">> \notin ends
    BY <1>1 DEF Side
  <1>5. /\ Up(c) \in tk => conn[c].up # <<>>
        /\ Down(c) \in tk => conn[c].down # <<>>
    BY <1>1, <1>3
  <1>6. /\ Q(conn', Up(c)) = IF Up(c) \in lost THEN <<>>
                            ELSE IF Up(c) \in tk THEN Tail(Queue(Up(c)))
                            ELSE IF Up(c) \in pt /\ Arrives(Up(c)) THEN Append(Queue(Up(c)), item)
                            ELSE Queue(Up(c))
        /\ Q(conn', Down(c)) = IF Down(c) \in lost THEN <<>>
                            ELSE IF Down(c) \in tk THEN Tail(Queue(Down(c)))
                            ELSE IF Down(c) \in pt /\ Arrives(Down(c)) THEN Append(Queue(Down(c)), item)
                            ELSE Queue(Down(c))
    BY <1>1, <1>2
  <1> QED
    BY <1>3, <1>4, <1>5, <1>6

LEMMA OpensAt ==
    ASSUME NEW d, NEW up, NEW pt, NEW item, Opens(d, up, pt, item), NEW c \in Conn
    PROVE  /\ c = d => /\ conn'[c].up = up /\ conn'[c].down = <<>>
                       /\ conn'[c].left /\ conn'[c].right
           /\ c # d => /\ conn'[c].up = IF Up(c) \in pt /\ Arrives(Up(c))
                                        THEN Append(conn[c].up, item) ELSE conn[c].up
                       /\ conn'[c].down = IF Down(c) \in pt /\ Arrives(Down(c))
                                          THEN Append(conn[c].down, item) ELSE conn[c].down
                       /\ conn'[c].left <=> conn[c].left
                       /\ conn'[c].right <=> conn[c].right
  <1>1. /\ \A ch \in Channel :
             Q(conn', ch) = IF ch[1] = d THEN (IF ch[2] = "up" THEN up ELSE <<>>)
                            ELSE IF ch \in pt /\ Arrives(ch) THEN Append(Queue(ch), item)
                            ELSE Queue(ch)
        /\ \A e \in Conn, s \in Side : conn'[e][s] <=> e = d \/ conn[e][s]
    BY DEF Opens
  <1>2. /\ Up(c) \in Channel /\ Down(c) \in Channel
        /\ Up(c)[1] = c /\ Up(c)[2] = "up" /\ Down(c)[1] = c /\ Down(c)[2] = "down"
    BY Names
  <1>3. /\ Queue(Up(c)) = conn[c].up /\ Queue(Down(c)) = conn[c].down
        /\ Q(conn', Up(c)) = conn'[c].up /\ Q(conn', Down(c)) = conn'[c].down
    BY DEF Queue, Q, Up, Down
  <1>4. (conn'[c].left <=> c = d \/ conn[c].left) /\ (conn'[c].right <=> c = d \/ conn[c].right)
    BY <1>1 DEF Side
  <1>5. /\ Q(conn', Up(c)) = IF c = d THEN up
                             ELSE IF Up(c) \in pt /\ Arrives(Up(c)) THEN Append(Queue(Up(c)), item)
                             ELSE Queue(Up(c))
        /\ Q(conn', Down(c)) = IF c = d THEN <<>>
                             ELSE IF Down(c) \in pt /\ Arrives(Down(c)) THEN Append(Queue(Down(c)), item)
                             ELSE Queue(Down(c))
    BY <1>1, <1>2
  <1> QED
    BY <1>3, <1>4, <1>5

\* Nothing arrives where nothing arrived, unless the connection is new.
LEMMA ArrivesFades ==
    ASSUME Types, Fading, NEW c \in Conn,
           conn'[c].left => conn[c].left, conn'[c].right => conn[c].right
    PROVE  (Arrives(Up(c))' => Arrives(Up(c))) /\ (Arrives(Down(c))' => Arrives(Down(c)))
  BY Ways DEF Fading, Arrives, Usable, Up, Down, Writer, Reader

\* After a Close of ends, what they wrote is not written any more.
LEMMA ClosedArrives ==
    ASSUME Types, NEW c \in Conn
    PROVE  /\ ~conn'[c].left => ~Arrives(Up(c))' /\ ~Arrives(Down(c))'
           /\ ~conn'[c].right => ~Arrives(Up(c))' /\ ~Arrives(Down(c))'
  BY DEF Arrives, Usable, Up, Down, Writer, Reader

LEMMA ClosesAt ==
    ASSUME Types, NEW ends, Closes(ends), NEW c \in Conn
    PROVE  /\ conn'[c].up \in {conn[c].up, <<>>} /\ conn'[c].down \in {conn[c].down, <<>>}
           /\ c \notin User => conn'[c].up = conn[c].up /\ conn'[c].down = conn[c].down
           /\ conn'[c].up # conn[c].up => ~Arrives(Up(c))'
           /\ conn'[c].down # conn[c].down => ~Arrives(Down(c))'
           /\ conn'[c].left <=> conn[c].left /\ <<c, "left">> \notin ends
           /\ conn'[c].right <=> conn[c].right /\ <<c, "right">> \notin ends
  <1>1. PICK lost \in SUBSET Resets(ends) : Moves({}, {}, <<"junk", 0>>, ends, lost)
    BY DEF Closes
  <1>2. /\ conn'[c].up = IF Up(c) \in lost THEN <<>> ELSE conn[c].up
        /\ conn'[c].down = IF Down(c) \in lost THEN <<>> ELSE conn[c].down
        /\ conn'[c].left <=> conn[c].left /\ <<c, "left">> \notin ends
        /\ conn'[c].right <=> conn[c].right /\ <<c, "right">> \notin ends
    BY <1>1, MovesAt
  <1>3. Up(c)[1] = c /\ Down(c)[1] = c /\ Writer(Up(c)) = "left" /\ Writer(Down(c)) = "right"
    BY DEF Up, Down, Writer
  <1>4. Up(c) \in lost => c \in User /\ <<c, "left">> \in ends
    BY <1>1, <1>3 DEF Resets
  <1>5. Down(c) \in lost => c \in User /\ <<c, "right">> \in ends
    BY <1>1, <1>3 DEF Resets
  <1> QED
    BY <1>2, <1>4, <1>5, ClosedArrives

-----------------------------------------------------------------------------
(* Queues that hold one answer or address at most, and that first *)

Tidy(q) == \A k \in 2..Len(q) : q[k][1] = "data"
Pure(q) == q # <<>> => q[1][1] = "data"
NeatQueue(q) == Tidy(q) /\ Len(q) <= Cap
Neat == \A c \in Conn : NeatQueue(conn[c].up) /\ NeatQueue(conn[c].down)

LEMMA NeatEmpty == NeatQueue(<<>>) /\ Pure(<<>>)
  BY ProxyAssumption DEF NeatQueue, Tidy, Pure

LEMMA NeatTail ==
    ASSUME NEW q \in Seq(Item), q # <<>>, NeatQueue(q)
    PROVE  /\ NeatQueue(Tail(q)) /\ Pure(Tail(q)) /\ Tail(q) \in Seq(Item)
           /\ Len(q) <= 1 => Tail(q) = <<>> /\ Len(Tail(q)) <= 1
           /\ Len(Tail(q)) = Len(q) - 1
  <1>1. /\ Tail(q) \in Seq(Item) /\ Len(Tail(q)) = Len(q) - 1 /\ Len(q) \in Nat
        /\ \A k \in 1..Len(Tail(q)) : Tail(q)[k] = q[k + 1]
    OBVIOUS
  <1>2. \A k \in 1..Len(Tail(q)) : Tail(q)[k][1] = "data"
    BY <1>1 DEF NeatQueue, Tidy
  <1>3. Tail(q) # <<>> => Len(Tail(q)) >= 1
    BY <1>1
  <1> QED
    BY <1>1, <1>2, <1>3, ProxyAssumption DEF NeatQueue, Tidy, Pure

LEMMA NeatFirst ==
    ASSUME NEW item \in Item
    PROVE  NeatQueue(Append(<<>>, item)) /\ NeatQueue(<<item>>)
  BY ProxyAssumption DEF NeatQueue, Tidy

LEMMA AppendIs ==
    ASSUME NEW q \in Seq(Item), NEW item \in Item
    PROVE  /\ Append(q, item) # <<>> /\ Len(Append(q, item)) = Len(q) + 1
           /\ q # <<>> => Append(q, item)[1] = q[1]
           /\ q = <<>> => Append(q, item)[1] = item
           /\ Len(Append(q, item)) <= 1 <=> q = <<>>
  <1>1. Len(q) \in Nat /\ (q = <<>> <=> Len(q) = 0)
    OBVIOUS
  <1>2. Append(q, item) \in Seq(Item) /\ Len(Append(q, item)) = Len(q) + 1
    OBVIOUS
  <1> QED
    BY <1>1, <1>2

LEMMA NeatAppend ==
    ASSUME NEW q \in Seq(Item), NeatQueue(q), NEW n \in Nat, Len(q) < Cap
    PROVE  NeatQueue(Append(q, <<"data", n>>)) /\ (Pure(q) => Pure(Append(q, <<"data", n>>)))
  <1> DEFINE item == <<"data", n>>
  <1>1. item \in Item /\ item[1] = "data"
    BY ItemType DEF Tag
  <1> HIDE DEF item
  <1>2. /\ Len(Append(q, item)) = Len(q) + 1 /\ Len(q) \in Nat
        /\ \A k \in 1..Len(q) : Append(q, item)[k] = q[k]
        /\ Append(q, item)[Len(q) + 1] = item
    BY <1>1
  <1>3. NeatQueue(Append(q, item))
    <2>1. \A k \in 2..Len(Append(q, item)) : k \in 2..Len(q) \/ k = Len(q) + 1
      BY <1>2
    <2> QED
      BY <1>1, <1>2, <2>1, ProxyAssumption DEF NeatQueue, Tidy
  <1>4. Pure(q) => Pure(Append(q, item))
    BY <1>1, AppendIs DEF Pure
  <1> QED
    BY <1>3, <1>4 DEF item

LEMMA ChannelNames ==
    ASSUME NEW c, NEW d
    PROVE  /\ Up(c) = Up(d) <=> c = d
           /\ Down(c) = Down(d) <=> c = d
           /\ Up(c) # Down(d) /\ Down(c) # Up(d)
           /\ Queue(Up(c)) = conn[c].up /\ Queue(Down(c)) = conn[c].down
  BY DEF Up, Down, Queue

LEMMA ConnType ==
    ASSUME Types, NEW c \in Conn
    PROVE  /\ conn[c].up \in Seq(Item) /\ conn[c].down \in Seq(Item)
           /\ conn[c].left \in BOOLEAN /\ conn[c].right \in BOOLEAN
  <1>1. conn[c] \in ConnRec
    BY DEF Types, Conns
  <1> QED
    BY <1>1 DEF ConnRec

\* An item may be put into the channel.
Room(ch, item) == Queue(ch) = <<>> \/ (~Full(ch) /\ item[1] = "data" /\ item = <<item[1], item[2]>>)

LEMMA NeatAdd ==
    ASSUME Types, Neat, NEW ch \in Channel, NEW item \in Item, Room(ch, item)
    PROVE  NeatQueue(Append(Queue(ch), item))
  <1>1. Queue(ch) \in Seq(Item) /\ Len(Queue(ch)) \in Nat
    BY QueueType DEF Types, Queue, Q
  <1>2. NeatQueue(Queue(ch))
    <2>1. ch[1] \in Conn /\ (ch[2] = "up" \/ ch[2] = "down")
      BY Names DEF Dir
    <2> QED
      BY <2>1 DEF Neat, Queue
  <1>3. item[2] \in Nat
    BY DEF Item
  <1>4. CASE Queue(ch) = <<>>
    BY <1>4, NeatFirst
  <1>5. CASE ~Full(ch) /\ item = <<"data", item[2]>>
    <2>1. Len(Queue(ch)) < Cap
      BY <1>1, <1>5, ProxyAssumption DEF Full
    <2> HIDE DEF Queue
    <2>2. NeatQueue(Append(Queue(ch), <<"data", item[2]>>))
      BY <1>1, <1>2, <1>3, <2>1, NeatAppend
    <2> QED
      BY <1>5, <2>2
  <1> QED
    BY <1>4, <1>5 DEF Room

LEMMA NeatMoves ==
    ASSUME Types, Neat, NEW tk, NEW pt, NEW item \in Item, NEW ends, NEW lost,
           Moves(tk, pt, item, ends, lost),
           \A ch \in Channel : ch \in pt => Room(ch, item) \/ ~Arrives(ch)
    PROVE  Neat'
  <1>1. ASSUME NEW ch \in Channel PROVE NeatQueue(Q(conn', ch))
    <2>1. Queue(ch) \in Seq(Item)
      BY QueueType DEF Types, Queue, Q
    <2>2. NeatQueue(Queue(ch))
      <3>1. ch[1] \in Conn /\ (ch[2] = "up" \/ ch[2] = "down")
        BY Names DEF Dir
      <3> QED
        BY <3>1 DEF Neat, Queue
    <2>3. /\ ch \in tk => Queue(ch) # <<>>
          /\ Q(conn', ch) = IF ch \in lost THEN <<>>
                            ELSE IF ch \in tk THEN Tail(Queue(ch))
                            ELSE IF ch \in pt /\ Arrives(ch) THEN Append(Queue(ch), item)
                            ELSE Queue(ch)
      BY DEF Moves, Made
    <2>4. Queue(ch) # <<>> => NeatQueue(Tail(Queue(ch)))
      BY <2>1, <2>2, NeatTail
    <2>5. ch \in pt /\ Arrives(ch) => NeatQueue(Append(Queue(ch), item))
      BY NeatAdd
    <2> QED
      BY <2>2, <2>3, <2>4, <2>5, NeatEmpty
  <1>2. ASSUME NEW c \in Conn PROVE NeatQueue(conn'[c].up) /\ NeatQueue(conn'[c].down)
    <2>1. Q(conn', Up(c)) = conn'[c].up /\ Q(conn', Down(c)) = conn'[c].down
      BY DEF Q, Up, Down
    <2> QED
      BY <1>1, <2>1, Names
  <1> QED
    BY <1>2 DEF Neat, NeatQueue, Tidy

LEMMA NeatOpens ==
    ASSUME Types, Neat, NEW d \in Conn, NEW up, NeatQueue(up), NEW pt, NEW item \in Item,
           Opens(d, up, pt, item),
           \A ch \in Channel : ch \in pt => Room(ch, item) \/ ~Arrives(ch)
    PROVE  Neat'
  <1>1. ASSUME NEW ch \in Channel PROVE NeatQueue(Q(conn', ch))
    <2>2. NeatQueue(Queue(ch))
      <3>1. ch[1] \in Conn /\ (ch[2] = "up" \/ ch[2] = "down")
        BY Names DEF Dir
      <3> QED
        BY <3>1 DEF Neat, Queue
    <2>3. Q(conn', ch) = IF ch[1] = d THEN (IF ch[2] = "up" THEN up ELSE <<>>)
                         ELSE IF ch \in pt /\ Arrives(ch) THEN Append(Queue(ch), item)
                         ELSE Queue(ch)
      BY DEF Opens
    <2>5. ch \in pt /\ Arrives(ch) => NeatQueue(Append(Queue(ch), item))
      BY NeatAdd
    <2> QED
      BY <2>2, <2>3, <2>5, NeatEmpty
  <1>2. ASSUME NEW c \in Conn PROVE NeatQueue(conn'[c].up) /\ NeatQueue(conn'[c].down)
    <2>1. Q(conn', Up(c)) = conn'[c].up /\ Q(conn', Down(c)) = conn'[c].down
      BY DEF Q, Up, Down
    <2> QED
      BY <1>1, <2>1, Names
  <1> QED
    BY <1>2 DEF Neat, NeatQueue, Tidy

\* Connections that a step leaves alone, or at most empties under a Close
Same(c) == conn'[c].up = conn[c].up /\ conn'[c].down = conn[c].down
Cut(c) ==
    /\ conn'[c].up \in {conn[c].up, <<>>} /\ conn'[c].down \in {conn[c].down, <<>>}
    /\ conn'[c].up # conn[c].up => ~Arrives(Up(c))'
    /\ conn'[c].down # conn[c].down => ~Arrives(Down(c))'
Fades(c) ==
    /\ Arrives(Up(c))' => Arrives(Up(c))
    /\ Arrives(Down(c))' => Arrives(Down(c))
    /\ conn'[c].left => conn[c].left
    /\ conn'[c].right => conn[c].right

LEMMA SameCut == ASSUME NEW c, Same(c) PROVE Cut(c)
  BY DEF Same, Cut

LEMMA NeatCut == ASSUME Neat, \A c \in Conn : Cut(c) PROVE Neat'
  <1>1. ASSUME NEW c \in Conn PROVE NeatQueue(conn'[c].up) /\ NeatQueue(conn'[c].down)
    BY NeatEmpty DEF Neat, Cut
  <1> QED
    BY <1>1 DEF Neat, NeatQueue, Tidy

LEMMA StillFades ==
    ASSUME Types, Fading, conn' = conn
    PROVE  \A c \in Conn : Same(c) /\ Fades(c)
  BY ArrivesFades DEF Same, Fades

LEMMA MovesFade ==
    ASSUME Types, Fading, NEW tk, NEW pt, NEW item, NEW ends, NEW lost,
           Moves(tk, pt, item, ends, lost), NEW c \in Conn
    PROVE  Fades(c)
  <1>1. (conn'[c].left => conn[c].left) /\ (conn'[c].right => conn[c].right)
    BY MovesAt
  <1> QED
    BY <1>1, ArrivesFades DEF Fades

LEMMA ClosesCut ==
    ASSUME Types, Fading, NEW ends, Closes(ends)
    PROVE  \A c \in Conn : Cut(c) /\ Fades(c)
  <1> TAKE c \in Conn
  <1>1. /\ conn'[c].up \in {conn[c].up, <<>>} /\ conn'[c].down \in {conn[c].down, <<>>}
        /\ conn'[c].up # conn[c].up => ~Arrives(Up(c))'
        /\ conn'[c].down # conn[c].down => ~Arrives(Down(c))'
        /\ conn'[c].left => conn[c].left
        /\ conn'[c].right => conn[c].right
    BY ClosesAt
  <1> QED
    BY <1>1, ArrivesFades DEF Fades, Cut

LEMMA OpensFade ==
    ASSUME Types, Fading, NEW d, NEW up, NEW pt, NEW item, Opens(d, up, pt, item),
           NEW c \in Conn, c # d
    PROVE  Fades(c)
  <1>1. (conn'[c].left => conn[c].left) /\ (conn'[c].right => conn[c].right)
    BY OpensAt
  <1> QED
    BY <1>1, ArrivesFades DEF Fades

-----------------------------------------------------------------------------
(* What the queues hold in each phase *)

Connected == far = "srv" \/ x["tun"] = "copy"
AppUp == conn["app"].up
AppDown == conn["app"].down
TunUp == conn["tun"].up
TunDown == conn["tun"].down
AppHears == Arrives(Down("app"))
TunHears == Arrives(Down("tun"))

\* An answer in front of a queue, which says yes just if that is so
Says(q, yes) == q # <<>> => q[1][1] = "code" /\ q[1][2] \in 0..5 /\ (q[1][2] = 0 <=> yes)

\* Between the application and doSocks: one greeting or request at most until
\* the application has its answer, only data afterwards, and a yes in front
\* of the data while the application has not read it.
Asking == {"filter", "search", "lookup", "dns", "direct", "tunnel", "code"}
AppShape ==
    /\ h = "greet" => app \in {"greet", "method"} /\ AppDown = <<>>
    /\ app = "greet" => AppUp = <<>> /\ AppDown = <<>> /\ h \in {"greet", "over"}
    /\ app = "method" => /\ AppUp = <<>> \/ AppDown = <<>>
                         /\ h \in {"greet", "connect", "over"} /\ Len(AppDown) <= 1
    /\ h = "connect" => app \in {"method", "code"} /\ (app = "method" => AppUp = <<>>)
    /\ h \in Asking => app = "code" /\ AppUp = <<>>
    /\ app # "talk" => sent["app"] = 0 /\ got["app"] = <<>>
    /\ app = "code" /\ h \notin {"copy", "over"} => AppDown = <<>>
    /\ app = "code" => Says(AppDown, h = "copy")
    /\ h = "copy" => app \in {"code", "talk"} /\ Pure(AppUp)
    /\ app = "talk" => h = "copy" /\ Pure(AppDown)
    /\ app # "talk" => Len(AppUp) <= 1
    /\ h = "copy" /\ app = "code" /\ AppHears => AppDown # <<>>
    /\ code = 0 => h = "copy"
    /\ code \in -1..5

\* Between dialTunRaw and proxyCommon, in either tunnel
TunShape ==
    /\ x["tun"] \notin {"copy", "over"} => TunDown = <<>>
    /\ x["tun"] \in {"resolve", "dial", "copy"} => Pure(TunUp)
    /\ far = "tun" /\ h = "copy" => x["tun"] = "copy" /\ Pure(TunDown)
    /\ h = "code" => Says(TunDown, x["tun"] = "copy")
    /\ h = "code" /\ x["tun"] = "copy" /\ TunHears => TunDown # <<>>
    /\ x["dns"] = "addr" => conn["dns"].down = <<>>

\* The connection to the server carries data only, and nothing before it is there.
SrvShape ==
    /\ Pure(conn["srv"].up) /\ Pure(conn["srv"].down)
    /\ ~Connected => /\ ~conn["srv"].left /\ ~conn["srv"].right
                     /\ sent["srv"] = 0 /\ got["srv"] = <<>>

Shape == Neat /\ AppShape /\ TunShape /\ SrvShape
ShapeInv == ControlInv /\ Shape

\* What no step does to one of the three
LEMMA AppKept ==
    ASSUME AppShape, Cut("app"), Fades("app"), UNCHANGED <<app, code>>,
           \/ h' = h
           \/ h' = "over" /\ h # "copy"
           \/ h \in Asking /\ h' \in Asking,
           app = "talk" \/ (sent'["app"] = sent["app"] /\ got'["app"] = got["app"])
    PROVE  AppShape'
  <1>1. /\ AppUp' \in {AppUp, <<>>} /\ AppDown' \in {AppDown, <<>>}
        /\ AppDown' # AppDown => ~AppHears'
        /\ AppHears' => AppHears
    BY DEF Cut, Fades, AppUp, AppDown, AppHears
  <1>2. Len(<<>>) = 0
    OBVIOUS
  <1> HIDE DEF AppUp, AppDown, AppHears
  <1>3. AppDown' = AppDown \/ AppDown' = <<>>
    BY <1>1
  <1> QED
    BY <1>1, <1>2, <1>3 DEF AppShape, Asking, Says, Pure

LEMMA TunKept ==
    ASSUME TunShape, Same("tun"), Same("dns"), Fades("tun"), UNCHANGED x,
           \/ h' = h /\ far' = far
           \/ h' \notin {"code", "copy"}
           \/ h' = "copy" /\ far' # "tun"
    PROVE  TunShape'
  <1>1. /\ TunUp' = TunUp /\ TunDown' = TunDown /\ conn'["dns"].down = conn["dns"].down
        /\ TunHears' => TunHears
    BY DEF Same, Fades, TunUp, TunDown, TunHears
  <1> QED
    BY <1>1 DEF TunShape, Says, Pure

LEMMA SrvKept ==
    ASSUME SrvShape, Cut("srv"), Fades("srv"), Connected' <=> Connected,
           Connected \/ (sent'["srv"] = sent["srv"] /\ got'["srv"] = got["srv"])
    PROVE  SrvShape'
  BY NeatEmpty DEF SrvShape, Cut, Fades, Pure

LEMMA ShapeInit == Init => Shape
  <1> SUFFICES ASSUME Init PROVE Shape
    OBVIOUS
  <1>1. /\ conn["app"] = OpenConn /\ conn["srv"] = NewConn /\ conn["tun"] = NewConn
        /\ conn["dns"] = NewConn
    BY Ways DEF Init
  <1>2. /\ h = "greet" /\ far = "app" /\ x["tun"] = "off" /\ x["dns"] = "off"
        /\ app = "greet" /\ code = -1 /\ sent["app"] = 0 /\ got["app"] = <<>>
        /\ sent["srv"] = 0 /\ got["srv"] = <<>>
    BY Ways DEF Init
  <1>3. Neat
    BY NewConnIs, OpenConnIs, NeatEmpty DEF Init, Neat
  <1>4. AppShape
    BY <1>1, <1>2, NewConnIs, OpenConnIs DEF AppShape, AppUp, AppDown, Asking
  <1>5. TunShape
    BY <1>1, <1>2, NewConnIs DEF TunShape, TunDown
  <1>6. SrvShape
    BY <1>1, <1>2, NewConnIs, NeatEmpty DEF SrvShape, Connected
  <1> QED
    BY <1>3, <1>4, <1>5, <1>6 DEF Shape

\* The other connections of a step
LEMMA MovesQueues ==
    ASSUME NEW tk, NEW pt, NEW item, NEW ends, Moves(tk, pt, item, ends, {}), NEW c \in Conn
    PROVE  /\ Up(c) \in tk => conn[c].up # <<>> /\ conn'[c].up = Tail(conn[c].up)
           /\ Up(c) \notin tk /\ Up(c) \in pt =>
                conn'[c].up = IF Arrives(Up(c)) THEN Append(conn[c].up, item) ELSE conn[c].up
           /\ Up(c) \notin tk /\ Up(c) \notin pt => conn'[c].up = conn[c].up
           /\ Down(c) \in tk => conn[c].down # <<>> /\ conn'[c].down = Tail(conn[c].down)
           /\ Down(c) \notin tk /\ Down(c) \in pt =>
                conn'[c].down =
                  IF Arrives(Down(c)) THEN Append(conn[c].down, item) ELSE conn[c].down
           /\ Down(c) \notin tk /\ Down(c) \notin pt => conn'[c].down = conn[c].down
  <1>1. /\ \A ch \in tk : Queue(ch) # <<>>
        /\ \A ch \in Channel :
             Q(conn', ch) = IF ch \in tk THEN Tail(Queue(ch))
                            ELSE IF ch \in pt /\ Arrives(ch) THEN Append(Queue(ch), item)
                            ELSE Queue(ch)
    BY DEF Moves, Made
  <1>2. Up(c) \in Channel /\ Down(c) \in Channel
    BY Names
  <1>3. /\ Queue(Up(c)) = conn[c].up /\ Queue(Down(c)) = conn[c].down
        /\ Q(conn', Up(c)) = conn'[c].up /\ Q(conn', Down(c)) = conn'[c].down
    BY DEF Queue, Q, Up, Down
  <1>4. /\ Up(c) \in tk => Queue(Up(c)) # <<>> /\ Q(conn', Up(c)) = Tail(Queue(Up(c)))
        /\ Up(c) \notin tk /\ Up(c) \in pt =>
             Q(conn', Up(c)) = IF Arrives(Up(c)) THEN Append(Queue(Up(c)), item) ELSE Queue(Up(c))
        /\ Up(c) \notin tk /\ Up(c) \notin pt => Q(conn', Up(c)) = Queue(Up(c))
    BY <1>1, <1>2
  <1>5. /\ Down(c) \in tk => Queue(Down(c)) # <<>> /\ Q(conn', Down(c)) = Tail(Queue(Down(c)))
        /\ Down(c) \notin tk /\ Down(c) \in pt =>
             Q(conn', Down(c)) =
               IF Arrives(Down(c)) THEN Append(Queue(Down(c)), item) ELSE Queue(Down(c))
        /\ Down(c) \notin tk /\ Down(c) \notin pt => Q(conn', Down(c)) = Queue(Down(c))
    BY <1>1, <1>2
  <1> QED
    BY <1>3, <1>4, <1>5

LEMMA MovesSame ==
    ASSUME NEW tk, NEW pt, NEW item, NEW ends, Moves(tk, pt, item, ends, {}), NEW c \in Conn,
           Up(c) \notin tk \cup pt, Down(c) \notin tk \cup pt
    PROVE  Same(c)
  BY MovesQueues DEF Same

LEMMA OpensSame ==
    ASSUME NEW d, NEW up, NEW pt, NEW item, Opens(d, up, pt, item), NEW c \in Conn, c # d,
           Up(c) \notin pt, Down(c) \notin pt
    PROVE  Same(c)
  BY OpensAt DEF Same

\* A step that changes queues of one connection only
LEMMA OneMoves ==
    ASSUME Types, Fading, NEW d \in Conn, NEW tk, NEW pt, NEW item, NEW ends,
           Moves(tk, pt, item, ends, {}), tk \subseteq {Up(d), Down(d)},
           pt \subseteq {Up(d), Down(d)}
    PROVE  /\ \A c \in Conn : Fades(c)
           /\ \A c \in Conn : c # d => Same(c) /\ Cut(c)
  <1>1. ASSUME NEW c \in Conn, c # d PROVE Same(c)
    BY <1>1, MovesSame, ChannelNames
  <1> QED
    BY <1>1, MovesFade, SameCut

\* The queues of the application's connection after a step that takes from one
\* and puts into the other
LEMMA AppAfter ==
    ASSUME NEW item, NEW ends
    PROVE  /\ Moves({Up("app")}, {Down("app")}, item, ends, {}) =>
                /\ AppUp # <<>> /\ AppUp' = Tail(AppUp)
                /\ AppDown' = IF AppHears THEN Append(AppDown, item) ELSE AppDown
           /\ Moves({Up("app")}, {}, item, ends, {}) =>
                AppUp # <<>> /\ AppUp' = Tail(AppUp) /\ AppDown' = AppDown
           /\ Moves({}, {Down("app")}, item, ends, {}) =>
                /\ AppUp' = AppUp
                /\ AppDown' = IF AppHears THEN Append(AppDown, item) ELSE AppDown
           /\ Moves({Down("app")}, {Up("app")}, item, ends, {}) =>
                /\ AppDown # <<>> /\ AppDown' = Tail(AppDown)
                /\ AppUp' = IF Arrives(Up("app")) THEN Append(AppUp, item) ELSE AppUp
           /\ Moves({Down("app")}, {}, item, ends, {}) =>
                AppDown # <<>> /\ AppDown' = Tail(AppDown) /\ AppUp' = AppUp
           /\ Moves({}, {Up("app")}, item, ends, {}) =>
                /\ AppDown' = AppDown
                /\ AppUp' = IF Arrives(Up("app")) THEN Append(AppUp, item) ELSE AppUp
  <1> DEFINE up == Up("app")
             down == Down("app")
  <1>1. up # down /\ "app" \in Conn
    BY AppChannels, Ways
  <1>2. ASSUME NEW tk, NEW pt, Moves(tk, pt, item, ends, {})
        PROVE  /\ up \in tk => AppUp # <<>> /\ AppUp' = Tail(AppUp)
               /\ up \notin tk /\ up \in pt =>
                    AppUp' = IF Arrives(up) THEN Append(AppUp, item) ELSE AppUp
               /\ up \notin tk /\ up \notin pt => AppUp' = AppUp
               /\ down \in tk => AppDown # <<>> /\ AppDown' = Tail(AppDown)
               /\ down \notin tk /\ down \in pt =>
                    AppDown' = IF AppHears THEN Append(AppDown, item) ELSE AppDown
               /\ down \notin tk /\ down \notin pt => AppDown' = AppDown
    BY <1>1, <1>2, MovesQueues DEF AppUp, AppDown, AppHears
  <1> HIDE DEF up, down
  <1>3. Moves({up}, {down}, item, ends, {}) =>
          /\ AppUp # <<>> /\ AppUp' = Tail(AppUp)
          /\ AppDown' = IF AppHears THEN Append(AppDown, item) ELSE AppDown
    BY <1>1, <1>2
  <1>4. Moves({up}, {}, item, ends, {}) =>
          AppUp # <<>> /\ AppUp' = Tail(AppUp) /\ AppDown' = AppDown
    BY <1>1, <1>2
  <1>5. Moves({}, {down}, item, ends, {}) =>
          /\ AppUp' = AppUp
          /\ AppDown' = IF AppHears THEN Append(AppDown, item) ELSE AppDown
    BY <1>1, <1>2
  <1>6. Moves({down}, {up}, item, ends, {}) =>
          /\ AppDown # <<>> /\ AppDown' = Tail(AppDown)
          /\ AppUp' = IF Arrives(up) THEN Append(AppUp, item) ELSE AppUp
    BY <1>1, <1>2
  <1>7. Moves({down}, {}, item, ends, {}) =>
          AppDown # <<>> /\ AppDown' = Tail(AppDown) /\ AppUp' = AppUp
    BY <1>1, <1>2
  <1>8. Moves({}, {up}, item, ends, {}) =>
          /\ AppDown' = AppDown
          /\ AppUp' = IF Arrives(up) THEN Append(AppUp, item) ELSE AppUp
    BY <1>1, <1>2
  <1> QED
    BY <1>3, <1>4, <1>5, <1>6, <1>7, <1>8 DEF up, down

\* The application's queues have their types.
LEMMA AppType ==
    ASSUME Types
    PROVE  AppUp \in Seq(Item) /\ AppDown \in Seq(Item) /\ Len(AppUp) \in Nat
           /\ Queue(Up("app")) = AppUp /\ Queue(Down("app")) = AppDown
  <1>1. AppUp \in Seq(Item) /\ AppDown \in Seq(Item)
    BY ConnType, Ways DEF AppUp, AppDown
  <1>2. Queue(Up("app")) = AppUp /\ Queue(Down("app")) = AppDown
    BY ChannelNames DEF AppUp, AppDown
  <1> HIDE DEF AppUp, AppDown
  <1> QED
    BY <1>1, <1>2

LEMMA ShapeReadGreeting ==
    ASSUME ShapeInv, Fading, ReadGreeting
    PROVE  Shape'
  <1> DEFINE item == <<"method", 0>>
  <1>1. Types /\ Neat /\ AppShape /\ TunShape /\ SrvShape
    BY DEF ShapeInv, Shape, ControlInv
  <1>2. /\ h = "greet" /\ h' = "connect" /\ UNCHANGED <<far, x, app, code, sent, got>>
    BY DEF ReadGreeting, exit, user
  <1>3. Moves({Up("app")}, {Down("app")}, item, {}, {}) /\ item \in Item
    BY <1>1, ClientMoves, ItemType DEF Tag
  <1>4. AppDown = <<>>
    BY <1>1, <1>2 DEF AppShape
  <1>5. /\ \A c \in Conn : Fades(c)
        /\ \A c \in Conn : c # "app" => Same(c) /\ Cut(c)
    BY <1>1, <1>3, OneMoves, Ways
  <1>6. Neat'
    <2>1. Room(Down("app"), item)
      BY <1>1, <1>4, AppType DEF Room
    <2> QED
      BY <1>1, <1>3, <2>1, NeatMoves
  <1>7. AppShape'
    <2>1. /\ AppUp # <<>> /\ AppUp' = Tail(AppUp)
          /\ AppDown' = IF AppHears THEN Append(AppDown, item) ELSE AppDown
      BY <1>3, AppAfter
    <2>2. app = "method" /\ Len(AppUp) <= 1
      BY <1>1, <1>2, <2>1 DEF AppShape
    <2>3. AppUp' = <<>>
      <3>1. NeatQueue(AppUp) /\ AppUp \in Seq(Item)
        BY <1>1, AppType, Ways DEF Neat, AppUp
      <3> QED
        BY <2>1, <2>2, <3>1, NeatTail
    <2>4. Len(AppUp') <= 1
      BY <2>3
    <2>5. Len(AppDown') <= 1
      <3>1. <<>> \in Seq(Item) /\ Len(<<>>) = 0
        OBVIOUS
      <3>2. Len(Append(<<>>, item)) <= 1
        BY <1>3, <3>1, AppendIs
      <3> HIDE DEF item, AppDown
      <3> QED
        BY <1>4, <2>1, <3>1, <3>2
    <2> QED
      BY <1>1, <1>2, <2>2, <2>3, <2>4, <2>5 DEF AppShape, Asking
  <1>8. TunShape'
    BY <1>1, <1>2, <1>5, TunKept, Ways
  <1>9. SrvShape'
    BY <1>1, <1>2, <1>5, SrvKept, Ways DEF Connected
  <1> QED
    BY <1>6, <1>7, <1>8, <1>9 DEF Shape

LEMMA ShapeReadConnect ==
    ASSUME ShapeInv, Fading, ReadConnect
    PROVE  Shape'
  <1>1. Types /\ Neat /\ AppShape /\ TunShape /\ SrvShape
    BY DEF ShapeInv, Shape, ControlInv
  <1>2. /\ h = "connect" /\ h' = "filter" /\ UNCHANGED <<far, x, app, code, sent, got>>
    BY DEF ReadConnect, exit, user
  <1>3. Moves({Up("app")}, {}, Nothing, {}, {}) /\ Nothing \in Item
    BY <1>1, ClientMoves, ItemType DEF Tag, Nothing
  <1>5. /\ \A c \in Conn : Fades(c)
        /\ \A c \in Conn : c # "app" => Same(c) /\ Cut(c)
    BY <1>1, <1>3, OneMoves, Ways
  <1>6. Neat'
    BY <1>1, <1>3, NeatMoves
  <1>7. AppShape'
    <2>1. /\ AppUp # <<>> /\ AppUp' = Tail(AppUp) /\ AppDown' = AppDown
      BY <1>3, AppAfter
    <2>2. app = "code" /\ Len(AppUp) <= 1
      BY <1>1, <1>2, <2>1 DEF AppShape
    <2>3. AppUp' = <<>>
      <3>1. NeatQueue(AppUp) /\ AppUp \in Seq(Item)
        BY <1>1, AppType, Ways DEF Neat, AppUp
      <3> QED
        BY <2>1, <2>2, <3>1, NeatTail
    <2>4. Len(AppUp') <= 1
      BY <2>3
    <2> QED
      BY <1>1, <1>2, <2>1, <2>2, <2>3, <2>4 DEF AppShape, Asking, Says
  <1>8. TunShape'
    BY <1>1, <1>2, <1>5, TunKept, Ways
  <1>9. SrvShape'
    BY <1>1, <1>2, <1>5, SrvKept, Ways DEF Connected
  <1> QED
    BY <1>6, <1>7, <1>8, <1>9 DEF Shape

LEMMA ShapeEndsRequest ==
    ASSUME ShapeInv, Fading, EndsRequest
    PROVE  Shape'
  <1>1. Types /\ Neat /\ AppShape /\ TunShape /\ SrvShape
    BY DEF ShapeInv, Shape, ControlInv
  <1>2. /\ h \in {"greet", "connect"} /\ h' = "over"
        /\ UNCHANGED <<far, x, app, code, sent, got>>
    BY DEF EndsRequest, ReadRequestFails, ReadRequestPanics, exit, user
  <1>3. \A c \in Conn : Cut(c) /\ Fades(c)
    BY <1>1, ClientMoves, ClosesCut
  <1>4. Same("tun") /\ Same("dns")
    BY <1>1, ClientMoves, ClosesAt, Ways DEF Same
  <1>5. Neat'
    BY <1>1, <1>3, NeatCut
  <1>6. AppShape'
    BY <1>1, <1>2, <1>3, AppKept, Ways
  <1>7. TunShape'
    BY <1>1, <1>2, <1>3, <1>4, TunKept, Ways
  <1>8. SrvShape'
    BY <1>1, <1>2, <1>3, SrvKept, Ways DEF Connected
  <1> QED
    BY <1>5, <1>6, <1>7, <1>8 DEF Shape

\* Steps that leave every connection alone
LEMMA ShapeStill ==
    ASSUME ShapeInv, Fading, conn' = conn, UNCHANGED <<far, app, code, sent, got>>, x' = x,
           h' = h \/ (h \in Asking \ {"code"} /\ h' \in Asking \ {"code"})
    PROVE  Shape'
  <1>1. Types /\ Neat /\ AppShape /\ TunShape /\ SrvShape
    BY DEF ShapeInv, Shape, ControlInv
  <1>2. \A c \in Conn : Same(c) /\ Cut(c) /\ Fades(c)
    BY <1>1, StillFades, SameCut
  <1>3. Neat'
    BY <1>1, <1>2, NeatCut
  <1>4. AppShape'
    BY <1>1, <1>2, AppKept, Ways
  <1>5. TunShape'
    BY <1>1, <1>2, TunKept, Ways DEF Asking
  <1>6. SrvShape'
    BY <1>1, <1>2, SrvKept, Ways DEF Connected
  <1> QED
    BY <1>3, <1>4, <1>5, <1>6 DEF Shape

LEMMA ShapeFilter ==
    ASSUME ShapeInv, Fading, Filter \/ Search \/ Searched \/ Lookup \/ TimerFires
    PROVE  Shape'
  <1>1. /\ conn' = conn /\ UNCHANGED <<far, app, code, sent, got>> /\ x' = x
        /\ h' = h \/ (h \in Asking \ {"code"} /\ h' \in Asking \ {"code"})
    <2>1. Filter \/ Searched \/ Lookup \/ Search => UNCHANGED <<conn, deciding>>
      BY DEF Filter, Search, Searched, Lookup, Probe
    <2>2. UNCHANGED <<conn, deciding>> =>
            conn' = conn /\ UNCHANGED <<far, app, code, sent, got>> /\ x' = x
      BY DEF deciding, exit, user
    <2>3. TimerFires => /\ conn' = conn /\ UNCHANGED <<far, app, code, sent, got>> /\ x' = x
                        /\ h' = h
      BY DEF TimerFires, client, exit, user
    <2>4. Filter \/ Searched \/ Lookup \/ Search =>
            h' = h \/ (h \in Asking \ {"code"} /\ h' \in Asking \ {"code"})
      BY DEF Filter, Search, Searched, Lookup, Asking
    <2> QED
      BY <2>1, <2>2, <2>3, <2>4
  <1> QED
    BY <1>1, ShapeStill

\* The answer to the application
LEMMA AppAnswered ==
    ASSUME Types, AppShape, h \in {"direct", "tunnel", "code"}, NEW c \in 0..5,
           h' = IF c = 0 THEN "copy" ELSE "over", UNCHANGED <<app, code, sent, got>>,
           AppUp' = AppUp, AppHears' => AppHears,
           AppDown' = IF AppHears THEN Append(AppDown, <<"code", c>>) ELSE AppDown
    PROVE  AppShape'
  <1>1. app = "code" /\ AppUp = <<>> /\ AppDown = <<>> /\ code # 0 /\ Len(AppUp) <= 1
    BY DEF AppShape, Asking
  <1>2. AppHears => AppDown' # <<>> /\ AppDown'[1] = <<"code", c>>
    <2>1. <<"code", c>> \in Item
      BY ItemType DEF Tag
    <2> QED
      BY <1>1, <2>1, AppendIs
  <1>3. Says(AppDown', c = 0)
    BY <1>1, <1>2 DEF Says
  <1>4. c = 0 <=> h' = "copy"
    OBVIOUS
  <1> HIDE DEF AppUp, AppDown, AppHears
  <1>5. (app = "code" => Says(AppDown, h = "copy"))'
    BY <1>3, <1>4 DEF Says
  <1> QED
    BY <1>1, <1>2, <1>5 DEF AppShape, Asking, Pure

LEMMA AppRoom ==
    ASSUME Types, AppShape, h \in {"direct", "tunnel", "code"}, NEW item
    PROVE  Room(Down("app"), item)
  BY AppType DEF AppShape, Asking, Room

LEMMA ShapeAskName ==
    ASSUME ShapeInv, Fading, AskName
    PROVE  Shape'
  <1>1. Types /\ Neat /\ AppShape /\ TunShape /\ SrvShape
    BY DEF ShapeInv, Shape, ControlInv
  <1>2. /\ h = "lookup" /\ h' = "dns" /\ UNCHANGED <<far, app, code, sent, got>>
        /\ x'["tun"] = x["tun"]
    BY <1>1, Ways DEF AskName, user, Types
  <1>3. PICK up \in {<<<<"name", 0>>>>, <<>>} : Opens("dns", up, {}, Nothing)
    BY <1>1, AskMoves
  <1>4. NeatQueue(up)
    <2>1. <<"name", 0>> \in Item
      BY ItemType DEF Tag
    <2> QED
      BY <2>1, NeatFirst, NeatEmpty
  <1>5. Neat'
    <2>1. Nothing \in Item
      BY ItemType DEF Tag, Nothing
    <2> QED
      BY <1>1, <1>3, <1>4, <2>1, NeatOpens, Ways
  <1>6. \A c \in Conn : c # "dns" => Same(c) /\ Cut(c) /\ Fades(c)
    BY <1>1, <1>3, OpensSame, OpensFade, SameCut
  <1>7. AppShape'
    BY <1>1, <1>2, <1>6, AppKept, Ways DEF Asking
  <1>8. TunShape'
    <2>1. conn'["dns"].down = <<>>
      BY <1>3, OpensAt, Ways
    <2>2. TunUp' = TunUp /\ TunDown' = TunDown
      BY <1>6, Ways DEF Same, TunUp, TunDown
    <2> QED
      BY <1>1, <1>2, <2>1, <2>2 DEF TunShape
  <1>9. SrvShape'
    BY <1>1, <1>2, <1>6, SrvKept, Ways DEF Connected
  <1> QED
    BY <1>5, <1>7, <1>8, <1>9 DEF Shape

\* The answer about a name, or none
LEMMA ShapeName ==
    ASSUME ShapeInv, Fading, NameKnown \/ NameUnknown
    PROVE  Shape'
  <1>1. Types /\ Neat /\ AppShape /\ TunShape /\ SrvShape
    BY DEF ShapeInv, Shape, ControlInv
  <1>2. /\ h = "dns" /\ h' = "tunnel" /\ UNCHANGED <<far, x, app, code, sent, got>>
    BY DEF NameKnown, NameUnknown, deciding, exit, user
  <1>3. PICK tk, ends : tk \in {{Down("dns")}, {}} /\ Moves(tk, {}, Nothing, ends, {})
    BY <1>1, ClientMoves
  <1>4. /\ \A c \in Conn : Fades(c)
        /\ \A c \in Conn : c # "dns" => Same(c) /\ Cut(c)
    BY <1>1, <1>3, OneMoves, Ways
  <1>5. Neat'
    <2>1. Nothing \in Item
      BY ItemType DEF Tag, Nothing
    <2> QED
      BY <1>1, <1>3, <2>1, NeatMoves
  <1>6. AppShape'
    BY <1>1, <1>2, <1>4, AppKept, Ways DEF Asking
  <1>7. TunShape'
    <2>2. conn["dns"].down = <<>> => conn'["dns"].down = <<>>
      BY <1>3, MovesQueues, Ways
    <2>3. TunUp' = TunUp /\ TunDown' = TunDown
      BY <1>4, Ways DEF Same, TunUp, TunDown
    <2> QED
      BY <1>1, <1>2, <2>2, <2>3 DEF TunShape
  <1>8. SrvShape'
    BY <1>1, <1>2, <1>4, SrvKept, Ways DEF Connected
  <1> QED
    BY <1>5, <1>6, <1>7, <1>8 DEF Shape

LEMMA ShapeDialDirect ==
    ASSUME ShapeInv, Fading, DialDirect
    PROVE  Shape'
  <1>1. Types /\ Neat /\ AppShape /\ TunShape /\ SrvShape
    BY DEF ShapeInv, Shape, ControlInv
  <1>2. h = "direct" /\ UNCHANGED <<x, app, code, sent, got>>
    BY DEF DialDirect, user
  <1>3. CASE far' = "srv" /\ h' = "copy" /\ Opens("srv", <<>>, {Down("app")}, Yes)
    <2>1. Yes \in Item /\ Yes = <<"code", 0>>
      BY ItemType DEF Tag, Yes
    <2>2. Neat'
      <3>1. Room(Down("app"), Yes)
        BY <1>1, <1>2, AppRoom
      <3> QED
        BY <1>1, <1>3, <2>1, <3>1, NeatOpens, NeatEmpty, Ways
    <2>3. /\ \A c \in Conn : c # "srv" => Fades(c)
          /\ Same("tun") /\ Same("dns")
      BY <1>1, <1>3, OpensFade, OpensSame, ChannelNames, Ways
    <2>4. /\ AppUp' = AppUp /\ (AppHears' => AppHears)
          /\ AppDown' = IF AppHears THEN Append(AppDown, Yes) ELSE AppDown
      <3>1. AppHears' => AppHears
        BY <2>3, Ways DEF Fades, AppHears
      <3> QED
        BY <1>3, <3>1, OpensAt, ChannelNames, Ways DEF AppUp, AppDown, AppHears
    <2>5. AppShape'
      <3>1. h' = IF 0 = 0 THEN "copy" ELSE "over"
        BY <1>3
      <3> QED
        BY <1>1, <1>2, <2>1, <2>4, <3>1, AppAnswered
    <2>6. TunShape'
      BY <1>1, <1>2, <1>3, <2>3, TunKept, Ways
    <2>7. SrvShape'
      <3>1. conn'["srv"].up = <<>> /\ conn'["srv"].down = <<>>
        BY <1>3, OpensAt, Ways
      <3> QED
        BY <1>3, <3>1, NeatEmpty DEF SrvShape, Connected
    <2> QED
      BY <2>2, <2>5, <2>6, <2>7 DEF Shape
  <1>4. CASE h' = "over" /\ Moves({}, {Down("app")}, <<"code", 3>>, appEnd, {})
             /\ UNCHANGED far
    <2>1. <<"code", 3>> \in Item
      BY ItemType DEF Tag
    <2>2. Neat'
      <3>1. Room(Down("app"), <<"code", 3>>)
        BY <1>1, <1>2, AppRoom
      <3> QED
        BY <1>1, <1>4, <2>1, <3>1, NeatMoves
    <2>3. /\ \A c \in Conn : Fades(c)
          /\ \A c \in Conn : c # "app" => Same(c) /\ Cut(c)
      BY <1>1, <1>4, OneMoves, Ways
    <2>4. /\ AppUp' = AppUp /\ (AppHears' => AppHears)
          /\ AppDown' = IF AppHears THEN Append(AppDown, <<"code", 3>>) ELSE AppDown
      <3>1. AppHears' => AppHears
        BY <2>3, Ways DEF Fades, AppHears
      <3> QED
        BY <1>4, <3>1, AppAfter
    <2>5. AppShape'
      <3>1. h' = IF 3 = 0 THEN "copy" ELSE "over"
        BY <1>4
      <3> QED
        BY <1>1, <1>2, <2>4, <3>1, AppAnswered
    <2>6. TunShape'
      BY <1>1, <1>2, <1>4, <2>3, TunKept, Ways
    <2>7. SrvShape'
      BY <1>1, <1>2, <1>4, <2>3, SrvKept, Ways DEF Connected
    <2> QED
      BY <2>2, <2>5, <2>6, <2>7 DEF Shape
  <1> QED
    BY <1>1, <1>3, <1>4, DialDirectMoves

LEMMA ShapeAskExit ==
    ASSUME ShapeInv, Fading, AskExit
    PROVE  Shape'
  <1>1. Types /\ Control /\ Neat /\ AppShape /\ TunShape /\ SrvShape
    BY DEF ShapeInv, Shape, ControlInv
  <1>2. /\ h = "tunnel" /\ h' = "code" /\ far' = "tun" /\ UNCHANGED <<app, code, sent, got>>
        /\ x'["tun"] = "addr" /\ x'["dns"] = x["dns"]
    BY <1>1, Ways DEF AskExit, user, Types
  <1>3. PICK up \in {<<<<"dest", 0>>>>, <<>>} : Opens("tun", up, {}, Nothing)
    BY <1>1, AskMoves
  <1>4. NeatQueue(up)
    <2>1. <<"dest", 0>> \in Item
      BY ItemType DEF Tag
    <2> QED
      BY <2>1, NeatFirst, NeatEmpty
  <1>5. Neat'
    <2>1. Nothing \in Item
      BY ItemType DEF Tag, Nothing
    <2> QED
      BY <1>1, <1>3, <1>4, <2>1, NeatOpens, Ways
  <1>6. \A c \in Conn : c # "tun" => Same(c) /\ Cut(c) /\ Fades(c)
    BY <1>1, <1>3, OpensSame, OpensFade, SameCut
  <1>7. AppShape'
    BY <1>1, <1>2, <1>6, AppKept, Ways DEF Asking
  <1>8. TunShape'
    <2>1. conn'["dns"].down = conn["dns"].down
      BY <1>6, Ways DEF Same
    <2>2. TunDown' = <<>>
      BY <1>3, OpensAt, Ways DEF TunDown
    <2> QED
      BY <1>1, <1>2, <2>1, <2>2 DEF TunShape, Says
  <1>9. SrvShape'
    <2>1. ~Connected /\ ~Connected'
      BY <1>1, <1>2 DEF Control, Connected
    <2> QED
      BY <1>1, <1>2, <1>6, <2>1, SrvKept, Ways
  <1> QED
    BY <1>5, <1>7, <1>8, <1>9 DEF Shape

\* dialTunRaw fails.
LEMMA ShapeNoCode ==
    ASSUME ShapeInv, Fading, NoTunnel \/ ReadCodeFails
    PROVE  Shape'
  <1>1. Types /\ Neat /\ AppShape /\ TunShape /\ SrvShape
    BY DEF ShapeInv, Shape, ControlInv
  <1>2. h \in {"tunnel", "code"} /\ h' = "over" /\ UNCHANGED <<far, x, app, code, sent, got>>
    BY DEF NoTunnel, ReadCodeFails, exit, user
  <1>3. PICK ends : Moves({}, {Down("app")}, <<"code", 3>>, ends, {})
    BY <1>1, ClientMoves
  <1>4. <<"code", 3>> \in Item
    BY ItemType DEF Tag
  <1>5. Neat'
    <2>1. Room(Down("app"), <<"code", 3>>)
      BY <1>1, <1>2, AppRoom
    <2> QED
      BY <1>1, <1>3, <1>4, <2>1, NeatMoves
  <1>6. /\ \A c \in Conn : Fades(c)
        /\ \A c \in Conn : c # "app" => Same(c) /\ Cut(c)
    BY <1>1, <1>3, OneMoves, Ways
  <1>7. AppShape'
    <2>1. AppHears' => AppHears
      BY <1>6, Ways DEF Fades, AppHears
    <2>2. /\ AppUp' = AppUp
          /\ AppDown' = IF AppHears THEN Append(AppDown, <<"code", 3>>) ELSE AppDown
      BY <1>3, AppAfter
    <2>3. h' = IF 3 = 0 THEN "copy" ELSE "over"
      BY <1>2
    <2> QED
      BY <1>1, <1>2, <2>1, <2>2, <2>3, AppAnswered
  <1>8. TunShape'
    BY <1>1, <1>2, <1>6, TunKept, Ways
  <1>9. SrvShape'
    BY <1>1, <1>2, <1>6, SrvKept, Ways DEF Connected
  <1> QED
    BY <1>5, <1>7, <1>8, <1>9 DEF Shape

\* The exit's answer is passed on.
LEMMA ShapeReadCode ==
    ASSUME ShapeInv, Fading, ReadCode
    PROVE  Shape'
  <1> DEFINE c == First(Down("tun"))[2]
  <1>1. Types /\ Control /\ Neat /\ AppShape /\ TunShape /\ SrvShape
    BY DEF ShapeInv, Shape, ControlInv
  <1>2. h = "code" /\ far = "tun" /\ UNCHANGED <<far, x, app, code, sent, got>>
    BY <1>1 DEF ReadCode, Control, exit, user
  <1>3. /\ Queue(Down("tun")) # <<>> /\ h' = IF c = 0 THEN "copy" ELSE "over"
        /\ \E ends : Moves({Down("tun")}, {Down("app")}, <<"code", c>>, ends, {})
    BY <1>1, ReadCodeMoves DEF Yes
  <1>4. PICK ends : Moves({Down("tun")}, {Down("app")}, <<"code", c>>, ends, {})
    BY <1>3
  <1>5. TunDown # <<>> /\ c = TunDown[1][2] /\ TunDown \in Seq(Item) /\ NeatQueue(TunDown)
    <2>1. Queue(Down("tun")) = TunDown
      BY ChannelNames DEF TunDown
    <2>2. First(Down("tun")) = Queue(Down("tun"))[1]
      BY <1>1, <1>3, AppChannels, FirstType DEF Types
    <2> QED
      BY <1>1, <1>3, <2>1, <2>2, ConnType, Ways DEF Neat, TunDown
  <1>6. c \in 0..5 /\ (c = 0 <=> x["tun"] = "copy") /\ x["tun"] \in {"copy", "over"}
    BY <1>1, <1>2, <1>5 DEF TunShape, Says
  <1> HIDE DEF c
  <1>7. <<"code", c>> \in Item
    BY <1>6, ItemType DEF Tag
  <1>8. Neat'
    <2>1. Room(Down("app"), <<"code", c>>)
      BY <1>1, <1>2, AppRoom
    <2> QED
      BY <1>1, <1>4, <1>7, <2>1, NeatMoves
  <1>9. /\ \A d \in Conn : Fades(d)
        /\ Same("dns") /\ Same("srv") /\ Cut("srv")
    BY <1>1, <1>4, MovesFade, MovesSame, SameCut, ChannelNames, Ways
  <1>10. AppShape'
    <2>1. AppHears' => AppHears
      BY <1>9, Ways DEF Fades, AppHears
    <2>2. /\ AppUp' = AppUp
          /\ AppDown' = IF AppHears THEN Append(AppDown, <<"code", c>>) ELSE AppDown
      <3>1. /\ Up("app") \notin {Down("tun")} /\ Up("app") \notin {Down("app")}
            /\ Down("app") \notin {Down("tun")} /\ Down("app") \in {Down("app")}
        BY ChannelNames
      <3> QED
        BY <1>4, <3>1, MovesQueues, Ways DEF AppUp, AppDown, AppHears
    <2> QED
      BY <1>1, <1>2, <1>3, <1>6, <2>1, <2>2, AppAnswered
  <1>11. TunShape'
    <2>1. TunUp' = TunUp /\ TunDown' = Tail(TunDown) /\ conn'["dns"].down = conn["dns"].down
      <3>1. /\ Up("tun") \notin {Down("tun")} /\ Up("tun") \notin {Down("app")}
            /\ Down("tun") \in {Down("tun")}
        BY ChannelNames
      <3> QED
        BY <1>4, <1>9, <3>1, MovesQueues, Ways DEF TunUp, TunDown, Same
    <2>2. Pure(TunDown')
      BY <1>5, <2>1, NeatTail
    <2> QED
      BY <1>1, <1>2, <1>3, <1>6, <2>1, <2>2 DEF TunShape
  <1>12. SrvShape'
    BY <1>1, <1>2, <1>9, SrvKept, Ways DEF Connected
  <1> QED
    BY <1>8, <1>10, <1>11, <1>12 DEF Shape

LEMMA ShapeClient == ASSUME ShapeInv, Fading, Client PROVE Shape'
  BY ShapeReadGreeting, ShapeReadConnect, ShapeEndsRequest, ShapeFilter, ShapeAskName,
     ShapeName, ShapeDialDirect, ShapeAskExit, ShapeNoCode, ShapeReadCode DEF Client, EndsRequest

\* Steps of the exit leave the application's connection alone.
LEMMA ShapeResolveForClient ==
    ASSUME ShapeInv, Fading, ResolveForClient
    PROVE  Shape'
  <1>1. Types /\ Neat /\ AppShape /\ TunShape /\ SrvShape
    BY DEF ShapeInv, Shape, ControlInv
  <1>2. /\ x["dns"] = "addr" /\ x'["dns"] = "over" /\ x'["tun"] = x["tun"]
        /\ UNCHANGED <<h, far, app, code, sent, got>>
    BY <1>1, Ways DEF ResolveForClient, exiting, client, user, Types
  <1>3. PICK pt \in {{Down("dns")}, {}}, item \in Item :
          Moves({Up("dns")}, pt, item, tunEnd("dns"), {})
    <2>1. <<"addrs", 0>> \in Item /\ Nothing \in Item
      BY ItemType DEF Tag, Nothing
    <2> QED
      BY <1>1, <2>1, ExitMoves
  <1>4. /\ \A c \in Conn : Fades(c)
        /\ \A c \in Conn : c # "dns" => Same(c) /\ Cut(c)
    BY <1>1, <1>3, OneMoves, Ways
  <1>5. Neat'
    <2>1. Room(Down("dns"), item)
      BY <1>1, <1>2, ChannelNames DEF TunShape, Room
    <2> QED
      BY <1>1, <1>3, <2>1, NeatMoves
  <1>6. AppShape'
    BY <1>1, <1>2, <1>4, AppKept, Ways
  <1>7. TunShape'
    <2>1. TunUp' = TunUp /\ TunDown' = TunDown /\ (TunHears' => TunHears)
      BY <1>4, Ways DEF Same, Fades, TunUp, TunDown, TunHears
    <2> QED
      BY <1>1, <1>2, <2>1 DEF TunShape, Says
  <1>8. SrvShape'
    BY <1>1, <1>2, <1>4, SrvKept, Ways DEF Connected
  <1> QED
    BY <1>5, <1>6, <1>7, <1>8 DEF Shape

LEMMA ShapeReadAddr ==
    ASSUME ShapeInv, Fading, ReadAddr
    PROVE  Shape'
  <1>1. Types /\ Neat /\ AppShape /\ TunShape /\ SrvShape
    BY DEF ShapeInv, Shape, ControlInv
  <1>2. /\ x["tun"] = "addr" /\ x'["tun"] = "resolve" /\ x'["dns"] = x["dns"]
        /\ UNCHANGED <<h, far, app, code, sent, got>>
    BY <1>1, Ways DEF ReadAddr, exiting, client, user, Types
  <1>3. Moves({Up("tun")}, {}, Nothing, {}, {}) /\ Nothing \in Item
    BY <1>1, ExitMoves, ItemType DEF Tag, Nothing
  <1>4. /\ \A c \in Conn : Fades(c)
        /\ \A c \in Conn : c # "tun" => Same(c) /\ Cut(c)
    BY <1>1, <1>3, OneMoves, Ways
  <1>5. Neat'
    BY <1>1, <1>3, NeatMoves
  <1>6. AppShape'
    BY <1>1, <1>2, <1>4, AppKept, Ways
  <1>7. TunShape'
    <2>1. TunUp # <<>> /\ TunUp' = Tail(TunUp) /\ TunDown' = TunDown
          /\ conn'["dns"].down = conn["dns"].down
      <3>1. Up("tun") \in {Up("tun")} /\ Down("tun") \notin {Up("tun")}
        BY ChannelNames
      <3> QED
        BY <1>3, <1>4, <3>1, MovesQueues, Ways DEF TunUp, TunDown, Same
    <2>2. TunUp \in Seq(Item) /\ NeatQueue(TunUp)
      BY <1>1, ConnType, Ways DEF TunUp, Neat
    <2>3. Pure(TunUp')
      BY <2>1, <2>2, NeatTail
    <2> QED
      BY <1>1, <1>2, <2>1, <2>3 DEF TunShape, Says
  <1>8. SrvShape'
    BY <1>1, <1>2, <1>4, SrvKept, Ways DEF Connected
  <1> QED
    BY <1>5, <1>6, <1>7, <1>8 DEF Shape

\* proxyCommon ends: nothing or a refusal is put into its tunnel.
LEMMA ShapeExitEnds ==
    ASSUME ShapeInv, Fading, NEW t \in Tunnel, NEW c \in 1..5, NEW pt \in {{}, {Down("tun")}},
           NEW ends, Moves({}, pt, <<"code", c>>, ends, {}),
           x[t] \in {"addr", "resolve", "dial"}, x' = [x EXCEPT ![t] = "over"],
           pt # {} => t = "tun",
           UNCHANGED <<h, far, app, code, sent, got>>
    PROVE  Shape'
  <1>1. Types /\ Neat /\ AppShape /\ TunShape /\ SrvShape
    BY DEF ShapeInv, Shape, ControlInv
  <1>2. <<"code", c>> \in Item
    BY ItemType DEF Tag
  <1>3. t = "tun" => TunDown = <<>> /\ x["tun"] # "copy"
    BY <1>1 DEF TunShape
  <1>4. /\ \A d \in Conn : Fades(d)
        /\ \A d \in Conn : d # "tun" => Same(d) /\ Cut(d)
    BY <1>1, OneMoves, Ways
  <1>5. Neat'
    <2>1. pt # {} => Room(Down("tun"), <<"code", c>>)
      BY <1>3, ChannelNames DEF Room, TunDown
    <2> QED
      BY <1>1, <1>2, <2>1, NeatMoves
  <1>6. AppShape'
    BY <1>1, <1>4, AppKept, Ways
  <1>7. TunShape'
    <2>1. TunUp' = TunUp /\ conn'["dns"].down = conn["dns"].down /\ (TunHears' => TunHears)
      <3>1. Up("tun") \notin {} /\ Up("tun") \notin pt
        BY ChannelNames
      <3>2. TunUp' = TunUp
        BY <3>1, MovesQueues, Ways DEF TunUp
      <3>3. conn'["dns"].down = conn["dns"].down
        BY <1>4, Ways DEF Same
      <3> QED
        BY <1>4, <3>2, <3>3, Ways DEF Fades, TunHears
    <2>2. \/ TunDown' = TunDown
          \/ t = "tun" /\ TunDown' = Append(<<>>, <<"code", c>>)
      <3>1. Down("tun") \notin {} /\ (Down("tun") \in pt => t = "tun")
        OBVIOUS
      <3>2. /\ Down("tun") \in pt =>
                 TunDown' = IF Arrives(Down("tun")) THEN Append(TunDown, <<"code", c>>) ELSE TunDown
            /\ Down("tun") \notin pt => TunDown' = TunDown
        BY <3>1, MovesQueues, Ways DEF TunDown
      <3> QED
        BY <1>3, <3>1, <3>2
    <2>3. CASE t = "tun"
      <3>1. x'["tun"] = "over" /\ x'["dns"] = x["dns"]
        BY <1>1, <2>3, Ways DEF Types
      <3>2. TunDown' = <<>> \/ (TunDown' # <<>> /\ TunDown'[1] = <<"code", c>>)
        <4>1. <<>> \in Seq(Item)
          OBVIOUS
        <4>2. Append(<<>>, <<"code", c>>) # <<>> /\ Append(<<>>, <<"code", c>>)[1] = <<"code", c>>
          BY <1>2, <4>1, AppendIs
        <4> QED
          BY <1>3, <2>2, <2>3, <4>2
      <3>3. Says(TunDown', FALSE)
        BY <3>2 DEF Says
      <3>4. ~(far = "tun" /\ h = "copy")
        BY <1>1, <1>3, <2>3 DEF TunShape
      <3> QED
        BY <1>1, <2>1, <3>1, <3>3, <3>4 DEF TunShape, Says
    <2>4. CASE t = "dns"
      <3>1. x'["tun"] = x["tun"] /\ x'["dns"] = "over" /\ TunDown' = TunDown
        BY <1>1, <2>2, <2>4, Ways DEF Types
      <3> QED
        BY <1>1, <2>1, <3>1 DEF TunShape, Says
    <2> QED
      BY <2>3, <2>4 DEF Tunnel
  <1>8. SrvShape'
    <2>1. Connected' <=> Connected
      BY <1>1, <1>3, Ways DEF Connected, Types, Tunnel
    <2> QED
      BY <1>1, <1>4, <2>1, SrvKept, Ways
  <1> QED
    BY <1>5, <1>6, <1>7, <1>8 DEF Shape

LEMMA ShapeDial ==
    ASSUME ShapeInv, Fading, x["tun"] = "dial", x' = [x EXCEPT !["tun"] = "copy"],
           Opens("srv", <<>>, {Down("tun")}, Yes), UNCHANGED <<h, far, app, code, sent, got>>
    PROVE  Shape'
  <1>1. Types /\ Control /\ Neat /\ AppShape /\ TunShape /\ SrvShape
    BY DEF ShapeInv, Shape, ControlInv
  <1>2. Yes \in Item /\ Yes[1] = "code" /\ Yes[2] = 0 /\ TunDown = <<>>
        /\ x'["tun"] = "copy" /\ x'["dns"] = x["dns"]
    BY <1>1, ItemType, Ways DEF Tag, Yes, TunShape, Types
  <1>3. Neat'
    <2>1. Room(Down("tun"), Yes)
      BY <1>2, ChannelNames DEF Room, TunDown
    <2> QED
      BY <1>1, <1>2, <2>1, NeatOpens, NeatEmpty, Ways
  <1>4. /\ \A c \in Conn : c # "srv" => Fades(c)
        /\ Same("app") /\ Cut("app") /\ Same("dns")
    BY <1>1, OpensFade, OpensSame, SameCut, ChannelNames, Ways
  <1>5. AppShape'
    BY <1>1, <1>4, AppKept, Ways
  <1>6. TunShape'
    <2>1. /\ TunUp' = TunUp /\ conn'["dns"].down = conn["dns"].down /\ (TunHears' => TunHears)
          /\ TunDown' = IF TunHears THEN Append(<<>>, Yes) ELSE <<>>
      <3>1. Up("tun") \notin {Down("tun")} /\ Down("tun") \in {Down("tun")}
        BY ChannelNames
      <3>2. TunUp' = TunUp /\ TunDown' = IF TunHears THEN Append(TunDown, Yes) ELSE TunDown
        BY <3>1, OpensAt, Ways DEF TunUp, TunDown, TunHears
      <3>3. conn'["dns"].down = conn["dns"].down /\ (TunHears' => TunHears)
        BY <1>4, Ways DEF Same, Fades, TunHears
      <3> QED
        BY <1>2, <3>2, <3>3
    <2>2. TunHears => TunDown' # <<>> /\ TunDown'[1] = Yes
      BY <1>2, <2>1, AppendIs
    <2>3. Says(TunDown', TRUE) /\ (TunHears' => TunDown' # <<>>)
      BY <1>2, <2>1, <2>2 DEF Says
    <2>4. ~(far = "tun" /\ h = "copy")
      BY <1>1 DEF TunShape
    <2> QED
      BY <1>1, <1>2, <2>1, <2>3, <2>4 DEF TunShape, Says
  <1>7. SrvShape'
    <2>1. conn'["srv"].up = <<>> /\ conn'["srv"].down = <<>>
      BY OpensAt, Ways
    <2> QED
      BY <1>2, <2>1, NeatEmpty DEF SrvShape, Connected
  <1> QED
    BY <1>3, <1>5, <1>6, <1>7 DEF Shape

LEMMA MovesNothing ==
    ASSUME NEW ends, NEW item, Moves({}, {}, Nothing, ends, {})
    PROVE  Moves({}, {}, item, ends, {})
  BY DEF Moves, Made

LEMMA ShapeExit ==
    ASSUME ShapeInv, Fading, Exit
    PROVE  Shape'
  <1>1. Types
    BY DEF ShapeInv, ControlInv
  <1>2. UNCHANGED <<h, far, app, code, sent, got>>
    <2>1. UNCHANGED exiting
      BY DEF Exit, ResolveForClient, ReadAddr, ReadAddrFails, Resolve, Dial, ExitRefuses
    <2> QED
      BY <2>1 DEF exiting, client, user
  <1>3. ASSUME NEW t \in Tunnel, ReadAddrFails(t) PROVE Shape'
    <2>1. Moves({}, {}, <<"code", 1>>, tunEnd(t), {})
      BY <1>1, <1>3, ExitMoves, MovesNothing
    <2>2. x[t] \in {"addr", "resolve", "dial"} /\ x' = [x EXCEPT ![t] = "over"]
      BY <1>3 DEF ReadAddrFails
    <2> DEFINE pt == {}
               c == 1
    <2>3. /\ c \in 1..5 /\ pt \in {{}, {Down("tun")}} /\ (pt # {} => t = "tun")
          /\ Moves({}, pt, <<"code", c>>, tunEnd(t), {})
      BY <2>1
    <2> HIDE DEF pt, c
    <2> QED
      BY <1>2, <2>2, <2>3, ShapeExitEnds
  <1>4. ASSUME NEW c \in 1..5, ExitRefuses(c), x["tun"] \in {"resolve", "dial"} PROVE Shape'
    <2>1. Moves({}, {Down("tun")}, <<"code", c>>, tunEnd("tun"), {})
      BY <1>1, <1>4, ExitMoves
    <2>2. x' = [x EXCEPT !["tun"] = "over"]
      BY <1>4 DEF ExitRefuses
    <2> QED
      BY <1>2, <1>4, <2>1, <2>2, ShapeExitEnds, Ways
  <1>5. CASE Resolve
    <2>1. \/ ExitRefuses(4) \/ ExitRefuses(2)
          \/ x' = [x EXCEPT !["tun"] = "dial"] /\ conn' = conn
      BY <1>5 DEF Resolve
    <2>2. CASE x' = [x EXCEPT !["tun"] = "dial"] /\ conn' = conn
      <3>1. Types /\ Neat /\ AppShape /\ TunShape /\ SrvShape
        BY DEF ShapeInv, Shape, ControlInv
      <3>2. x["tun"] = "resolve" /\ x'["tun"] = "dial" /\ x'["dns"] = x["dns"]
        BY <1>1, <1>5, <2>2, Ways DEF Resolve, Types
      <3>3. \A c \in Conn : Same(c) /\ Cut(c) /\ Fades(c)
        BY <2>2, <3>1, StillFades, SameCut
      <3>4. Neat' /\ AppShape'
        BY <1>2, <3>1, <3>3, NeatCut, AppKept, Ways
      <3>5. TunShape'
        <4>1. TunUp' = TunUp /\ TunDown' = TunDown /\ conn'["dns"].down = conn["dns"].down
          BY <2>2 DEF TunUp, TunDown
        <4> QED
          BY <1>2, <3>1, <3>2, <4>1 DEF TunShape, Says
      <3>6. SrvShape'
        <4>1. Connected' <=> Connected
          BY <1>2, <3>2 DEF Connected
        <4> QED
          BY <1>2, <3>1, <3>3, <4>1, SrvKept, Ways
      <3> QED
        BY <3>4, <3>5, <3>6 DEF Shape
    <2> QED
      BY <1>4, <1>5, <2>1, <2>2 DEF Resolve
  <1>6. CASE Dial
    <2>1. x["tun"] = "dial"
      BY <1>6 DEF Dial
    <2>2. ExitRefuses(5) \/ (x' = [x EXCEPT !["tun"] = "copy"] /\ Opens("srv", <<>>, {Down("tun")}, Yes))
      BY <1>1, <1>6, DialMoves
    <2> QED
      BY <1>2, <1>4, <2>1, <2>2, ShapeDial
  <1> QED
    BY <1>3, <1>5, <1>6, ShapeResolveForClient, ShapeReadAddr DEF Exit

-----------------------------------------------------------------------------
\* Which channels the loops read and write
LEMMA LoopEnds ==
    ASSUME Types, Control, TunShape, NEW k \in Copier, copier[k].pc # "off"
    PROVE  /\ In(k) \in Channel /\ OutOf(k) \in Channel
           /\ \/ k = "H" /\ In(k) = Up("app") /\ OutOf(k) = Up(far)
              \/ k = "D" /\ In(k) = Down(far) /\ OutOf(k) = Down("app")
              \/ k = "E" /\ In(k) = Up("tun") /\ OutOf(k) = Up("srv")
              \/ k = "B" /\ In(k) = Down("srv") /\ OutOf(k) = Down("tun")
           /\ k \in {"H", "D"} => h = "copy" /\ far \in {"tun", "srv"}
           /\ k \in {"E", "B"} => x["tun"] = "copy"
           /\ Connected
  <1>1. In(k) \in Channel /\ OutOf(k) \in Channel
    BY LoopChannels DEF Types
  <1>2. k \in {"H", "D"} => h = "copy" /\ far \in {"tun", "srv"}
    BY DEF Control, Types
  <1>3. k \in {"E", "B"} => x["tun"] = "copy"
    BY DEF Control
  <1>4. \/ k = "H" /\ In(k) = Up("app") /\ OutOf(k) = Up(far)
        \/ k = "D" /\ In(k) = Down(far) /\ OutOf(k) = Down("app")
        \/ k = "E" /\ In(k) = Up("tun") /\ OutOf(k) = Up("srv")
        \/ k = "B" /\ In(k) = Down("srv") /\ OutOf(k) = Down("tun")
    BY DEF In, OutOf, Copier
  <1>5. Connected
    BY <1>2, <1>3 DEF Connected, TunShape, Copier
  <1> QED
    BY <1>1, <1>2, <1>3, <1>4, <1>5

\* A Close that changes no phase
LEMMA ShapeCloses ==
    ASSUME ShapeInv, Fading, NEW ends, Closes(ends), UNCHANGED <<h, far, app, code, sent, got>>,
           x' = x
    PROVE  Shape'
  <1>1. Types /\ Neat /\ AppShape /\ TunShape /\ SrvShape
    BY DEF ShapeInv, Shape, ControlInv
  <1>2. \A c \in Conn : Cut(c) /\ Fades(c)
    BY <1>1, ClosesCut
  <1>3. Same("tun") /\ Same("dns")
    BY <1>1, ClosesAt, Ways DEF Same
  <1>4. Neat'
    BY <1>1, <1>2, NeatCut
  <1>5. AppShape'
    BY <1>1, <1>2, AppKept, Ways
  <1>6. TunShape'
    BY <1>1, <1>2, <1>3, TunKept, Ways
  <1>7. SrvShape'
    BY <1>1, <1>2, SrvKept, Ways DEF Connected
  <1> QED
    BY <1>4, <1>5, <1>6, <1>7 DEF Shape

\* What a piece read or written does to a queue
Dropped(q, r) == r = q \/ (q # <<>> /\ r = Tail(q))
Grown(q, r) == r = q \/ \E n \in Nat : r = Append(q, <<"data", n>>)

LEMMA DroppedPure ==
    ASSUME NEW q \in Seq(Item), NeatQueue(q), Pure(q), NEW r, Dropped(q, r)
    PROVE  Pure(r)
  BY NeatTail DEF Dropped

LEMMA GrownIs ==
    ASSUME NEW q \in Seq(Item), NEW r, Grown(q, r)
    PROVE  (Pure(q) => Pure(r)) /\ (q # <<>> => r # <<>> /\ r[1] = q[1])
  <1>1. CASE r = q
    BY <1>1
  <1>2. ASSUME NEW n \in Nat, r = Append(q, <<"data", n>>)
        PROVE  (Pure(q) => Pure(r)) /\ (q # <<>> => r # <<>> /\ r[1] = q[1])
    <2> DEFINE item == <<"data", n>>
    <2>1. item \in Item /\ item[1] = "data"
      BY ItemType DEF Tag
    <2> HIDE DEF item
    <2>2. r = Append(q, item)
      BY <1>2 DEF item
    <2>3. /\ Append(q, item) # <<>>
          /\ q # <<>> => Append(q, item)[1] = q[1]
          /\ q = <<>> => Append(q, item)[1] = item
      BY <2>1, AppendIs
    <2> QED
      BY <2>1, <2>2, <2>3 DEF Pure
  <1> QED
    BY <1>1, <1>2 DEF Grown

\* A piece is taken from one channel.
LEMMA TakesDrop ==
    ASSUME NEW ch, Moves({ch}, {}, Nothing, {}, {}), NEW c \in Conn
    PROVE  /\ conn'[c].up = IF ch = Up(c) THEN Tail(conn[c].up) ELSE conn[c].up
           /\ conn'[c].down = IF ch = Down(c) THEN Tail(conn[c].down) ELSE conn[c].down
           /\ ch = Up(c) => conn[c].up # <<>>
           /\ ch = Down(c) => conn[c].down # <<>>
           /\ Dropped(conn[c].up, conn'[c].up) /\ Dropped(conn[c].down, conn'[c].down)
  <1>1. /\ Up(c) \in {ch} => conn[c].up # <<>> /\ conn'[c].up = Tail(conn[c].up)
        /\ Up(c) \notin {ch} /\ Up(c) \notin {} => conn'[c].up = conn[c].up
        /\ Down(c) \in {ch} => conn[c].down # <<>> /\ conn'[c].down = Tail(conn[c].down)
        /\ Down(c) \notin {ch} /\ Down(c) \notin {} => conn'[c].down = conn[c].down
    BY MovesQueues
  <1> QED
    BY <1>1 DEF Dropped

\* A piece is put into one channel.
LEMMA PutsGrow ==
    ASSUME NEW ch, NEW n \in Nat, Moves({}, {ch}, <<"data", n>>, {}, {}), Arrives(ch),
           NEW c \in Conn
    PROVE  /\ conn'[c].up = IF ch = Up(c) THEN Append(conn[c].up, <<"data", n>>) ELSE conn[c].up
           /\ conn'[c].down = IF ch = Down(c) THEN Append(conn[c].down, <<"data", n>>)
                              ELSE conn[c].down
           /\ Grown(conn[c].up, conn'[c].up) /\ Grown(conn[c].down, conn'[c].down)
  <1> DEFINE item == <<"data", n>>
  <1>1. Moves({}, {ch}, item, {}, {})
    OBVIOUS
  <1> HIDE DEF item
  <1>2. /\ Up(c) \notin {} /\ Up(c) \in {ch} =>
             conn'[c].up = IF Arrives(Up(c)) THEN Append(conn[c].up, item) ELSE conn[c].up
        /\ Up(c) \notin {} /\ Up(c) \notin {ch} => conn'[c].up = conn[c].up
        /\ Down(c) \notin {} /\ Down(c) \in {ch} =>
             conn'[c].down = IF Arrives(Down(c)) THEN Append(conn[c].down, item) ELSE conn[c].down
        /\ Down(c) \notin {} /\ Down(c) \notin {ch} => conn'[c].down = conn[c].down
    BY <1>1, MovesQueues
  <1> QED
    BY <1>2 DEF Grown, item

LEMMA NeatTakes ==
    ASSUME Types, Neat, NEW ch, Moves({ch}, {}, Nothing, {}, {})
    PROVE  Neat'
  <1>1. Nothing \in Item
    BY ItemType DEF Tag, Nothing
  <1> QED
    BY <1>1, NeatMoves

LEMMA NeatPuts ==
    ASSUME Types, Neat, NEW ch \in Channel, ~Full(ch), NEW n \in Nat,
           Moves({}, {ch}, <<"data", n>>, {}, {})
    PROVE  Neat'
  <1> DEFINE item == <<"data", n>>
  <1>1. item \in Item /\ Room(ch, item)
    BY ItemType DEF Tag, Room
  <1>2. Moves({}, {ch}, item, {}, {})
    OBVIOUS
  <1> HIDE DEF item
  <1> QED
    BY <1>1, <1>2, NeatMoves

\* Queues of all kinds, with their types
LEMMA QueueTypes ==
    ASSUME Types, Neat
    PROVE  /\ AppUp \in Seq(Item) /\ NeatQueue(AppUp) /\ AppDown \in Seq(Item)
           /\ NeatQueue(AppDown) /\ TunUp \in Seq(Item) /\ NeatQueue(TunUp)
           /\ TunDown \in Seq(Item) /\ NeatQueue(TunDown)
           /\ conn["srv"].up \in Seq(Item) /\ NeatQueue(conn["srv"].up)
           /\ conn["srv"].down \in Seq(Item) /\ NeatQueue(conn["srv"].down)
  BY ConnType, Ways DEF Neat, AppUp, AppDown, TunUp, TunDown

LEMMA ShapeLoopReads ==
    ASSUME ShapeInv, Fading, NEW k \in Copier, LoopReads(k),
           UNCHANGED <<h, far, app, code, sent, got>>, x' = x
    PROVE  Shape'
  <1>1. Types /\ Control /\ Neat /\ AppShape /\ TunShape /\ SrvShape
    BY DEF ShapeInv, Shape, ControlInv
  <1>2. copier[k].pc # "off" /\ Moves({In(k)}, {}, Nothing, {}, {})
    BY DEF LoopReads
  <1>3. /\ \/ k = "H" /\ In(k) = Up("app")
           \/ k = "D" /\ In(k) = Down(far)
           \/ k = "E" /\ In(k) = Up("tun")
           \/ k = "B" /\ In(k) = Down("srv")
        /\ k \in {"H", "D"} => h = "copy" /\ far \in {"tun", "srv"}
        /\ k \in {"E", "B"} => x["tun"] = "copy"
        /\ Connected
    BY <1>1, <1>2, LoopEnds
  <1>4. \A c \in Conn : Fades(c)
    BY <1>1, <1>2, MovesFade
  <1>5. /\ (AppUp' = AppUp \/ (h = "copy" /\ AppUp # <<>> /\ AppUp' = Tail(AppUp)))
        /\ AppDown' = AppDown
        /\ TunUp' = TunUp \/ (x["tun"] = "copy" /\ Dropped(TunUp, TunUp'))
        /\ TunDown' = TunDown \/ (h = "copy" /\ far = "tun" /\ Dropped(TunDown, TunDown'))
        /\ conn'["dns"].down = conn["dns"].down
        /\ Dropped(conn["srv"].up, conn'["srv"].up) /\ Dropped(conn["srv"].down, conn'["srv"].down)
    <2>1. \A c \in Conn :
            /\ conn'[c].up = IF In(k) = Up(c) THEN Tail(conn[c].up) ELSE conn[c].up
            /\ conn'[c].down = IF In(k) = Down(c) THEN Tail(conn[c].down) ELSE conn[c].down
            /\ In(k) = Up(c) => conn[c].up # <<>>
            /\ Dropped(conn[c].up, conn'[c].up) /\ Dropped(conn[c].down, conn'[c].down)
      BY <1>2, TakesDrop
    <2>2. /\ In(k) = Up("app") => h = "copy"
          /\ In(k) # Down("app")
          /\ In(k) = Up("tun") => x["tun"] = "copy"
          /\ In(k) = Down("tun") => h = "copy" /\ far = "tun"
          /\ In(k) # Down("dns")
      BY <1>3, ChannelNames
    <2> QED
      BY <2>1, <2>2, Ways DEF AppUp, AppDown, TunUp, TunDown
  <1>6. /\ AppUp \in Seq(Item) /\ NeatQueue(AppUp) /\ TunUp \in Seq(Item) /\ NeatQueue(TunUp)
        /\ TunDown \in Seq(Item) /\ NeatQueue(TunDown)
        /\ conn["srv"].up \in Seq(Item) /\ NeatQueue(conn["srv"].up)
        /\ conn["srv"].down \in Seq(Item) /\ NeatQueue(conn["srv"].down)
    BY <1>1, QueueTypes
  <1>7. Neat'
    BY <1>1, <1>2, NeatTakes
  <1>8. AppShape'
    <2>1. AppHears' => AppHears
      BY <1>4, Ways DEF Fades, AppHears
    <2>2. AppUp' = AppUp \/ (h = "copy" /\ Pure(AppUp') /\ (Len(AppUp) <= 1 => Len(AppUp') <= 1))
      <3>1. CASE AppUp # <<>> /\ AppUp' = Tail(AppUp) /\ h = "copy"
        <4>1. Pure(Tail(AppUp)) /\ (Len(AppUp) <= 1 => Len(Tail(AppUp)) <= 1)
          BY <1>6, <3>1, NeatTail
        <4>2. Pure(AppUp')
          BY <3>1, <4>1 DEF Pure
        <4> QED
          BY <3>1, <4>1, <4>2
      <3> QED
        BY <1>5, <3>1
    <2> HIDE DEF AppUp, AppDown, AppHears
    <2>3. AppDown' = AppDown
      BY <1>5
    <2> QED
      BY <1>1, <2>1, <2>2, <2>3 DEF AppShape, Asking, Says, Pure
  <1>9. TunShape'
    <2>1. TunHears' => TunHears
      BY <1>4, Ways DEF Fades, TunHears
    <2>2. x["tun"] = "copy" /\ TunUp' # TunUp => Pure(TunUp')
      BY <1>1, <1>5, <1>6, DroppedPure DEF TunShape
    <2>3. h = "copy" /\ far = "tun" => Pure(TunDown')
      <3>1. h = "copy" /\ far = "tun" => Pure(TunDown)
        BY <1>1 DEF TunShape
      <3> QED
        BY <1>5, <1>6, <3>1, DroppedPure
    <2> HIDE DEF TunUp, TunDown, TunHears
    <2> QED
      BY <1>1, <1>5, <2>1, <2>2, <2>3 DEF TunShape, Says, Pure
  <1>10. SrvShape'
    <2>1. Pure(conn'["srv"].up) /\ Pure(conn'["srv"].down)
      BY <1>1, <1>5, <1>6, DroppedPure DEF SrvShape
    <2>2. Connected'
      BY <1>3 DEF Connected
    <2> QED
      BY <2>1, <2>2 DEF SrvShape, Pure
  <1> QED
    BY <1>7, <1>8, <1>9, <1>10 DEF Shape

LEMMA ShapeLoopWrites ==
    ASSUME ShapeInv, Fading, NEW k \in Copier, LoopWrites(k),
           UNCHANGED <<h, far, app, code, sent, got>>, x' = x
    PROVE  Shape'
  <1> DEFINE n == copier[k].piece
  <1>1. Types /\ Control /\ Neat /\ AppShape /\ TunShape /\ SrvShape
    BY DEF ShapeInv, Shape, ControlInv
  <1>2. /\ copier[k].pc # "off" /\ Moves({}, {OutOf(k)}, <<"data", n>>, {}, {})
        /\ Arrives(OutOf(k)) /\ ~Full(OutOf(k)) /\ n \in Nat
    BY <1>1 DEF LoopWrites, Types, CopierRec
  <1> HIDE DEF n
  <1>3. /\ \/ k = "H" /\ OutOf(k) = Up(far)
           \/ k = "D" /\ OutOf(k) = Down("app")
           \/ k = "E" /\ OutOf(k) = Up("srv")
           \/ k = "B" /\ OutOf(k) = Down("tun")
        /\ k \in {"H", "D"} => h = "copy" /\ far \in {"tun", "srv"}
        /\ k \in {"E", "B"} => x["tun"] = "copy"
        /\ Connected /\ OutOf(k) \in Channel
    BY <1>1, <1>2, LoopEnds
  <1>4. \A c \in Conn : Fades(c)
    BY <1>1, <1>2, MovesFade
  <1>5. /\ AppUp' = AppUp
        /\ AppDown' = AppDown \/ (h = "copy" /\ AppHears /\ Grown(AppDown, AppDown'))
        /\ TunUp' = TunUp \/ (h = "copy" /\ far = "tun" /\ Grown(TunUp, TunUp'))
        /\ TunDown' = TunDown \/ (x["tun"] = "copy" /\ TunHears /\ Grown(TunDown, TunDown'))
        /\ conn'["dns"].down = conn["dns"].down
        /\ Grown(conn["srv"].up, conn'["srv"].up) /\ Grown(conn["srv"].down, conn'["srv"].down)
    <2>1. \A c \in Conn :
            /\ OutOf(k) # Up(c) => conn'[c].up = conn[c].up
            /\ OutOf(k) # Down(c) => conn'[c].down = conn[c].down
            /\ Grown(conn[c].up, conn'[c].up) /\ Grown(conn[c].down, conn'[c].down)
      BY <1>2, PutsGrow
    <2>2. /\ OutOf(k) # Up("app")
          /\ OutOf(k) = Down("app") => h = "copy" /\ AppHears
          /\ OutOf(k) = Up("tun") => h = "copy" /\ far = "tun"
          /\ OutOf(k) = Down("tun") => x["tun"] = "copy" /\ TunHears
          /\ OutOf(k) # Down("dns")
      BY <1>2, <1>3, ChannelNames DEF AppHears, TunHears
    <2> QED
      BY <2>1, <2>2, Ways DEF AppUp, AppDown, TunUp, TunDown
  <1>6. /\ AppDown \in Seq(Item) /\ TunUp \in Seq(Item) /\ TunDown \in Seq(Item)
        /\ conn["srv"].up \in Seq(Item) /\ conn["srv"].down \in Seq(Item)
    BY <1>1, QueueTypes
  <1>7. Neat'
    BY <1>1, <1>2, <1>3, NeatPuts
  <1>8. AppShape'
    <2>1. AppHears' => AppHears
      BY <1>4, Ways DEF Fades, AppHears
    <2>2. \/ AppDown' = AppDown
          \/ /\ h = "copy" /\ AppHears /\ (Pure(AppDown) => Pure(AppDown'))
             /\ AppDown # <<>> => AppDown' # <<>> /\ AppDown'[1] = AppDown[1]
      BY <1>5, <1>6, GrownIs
    <2> HIDE DEF AppUp, AppDown, AppHears
    <2>3. AppUp' = AppUp
      BY <1>5
    <2>4. CASE AppDown' = AppDown
      BY <1>1, <2>1, <2>3, <2>4 DEF AppShape, Asking, Says, Pure
    <2>5. CASE /\ h = "copy" /\ AppHears /\ (Pure(AppDown) => Pure(AppDown'))
               /\ AppDown # <<>> => AppDown' # <<>> /\ AppDown'[1] = AppDown[1]
      BY <1>1, <2>1, <2>3, <2>5 DEF AppShape, Asking, Says, Pure
    <2> QED
      BY <2>2, <2>4, <2>5
  <1>9. TunShape'
    <2>1. TunHears' => TunHears
      BY <1>4, Ways DEF Fades, TunHears
    <2>2. Pure(TunUp) => Pure(TunUp')
      BY <1>5, <1>6, GrownIs
    <2>3. \/ TunDown' = TunDown
          \/ /\ x["tun"] = "copy" /\ TunHears /\ (Pure(TunDown) => Pure(TunDown'))
             /\ TunDown # <<>> => TunDown' # <<>> /\ TunDown'[1] = TunDown[1]
      BY <1>5, <1>6, GrownIs
    <2> HIDE DEF TunUp, TunDown, TunHears
    <2>4. CASE TunDown' = TunDown
      BY <1>1, <1>5, <2>1, <2>2, <2>4 DEF TunShape, Says, Pure
    <2>5. CASE /\ x["tun"] = "copy" /\ TunHears /\ (Pure(TunDown) => Pure(TunDown'))
               /\ TunDown # <<>> => TunDown' # <<>> /\ TunDown'[1] = TunDown[1]
      BY <1>1, <1>5, <2>1, <2>2, <2>5 DEF TunShape, Says, Pure
    <2> QED
      BY <2>3, <2>4, <2>5
  <1>10. SrvShape'
    <2>1. Pure(conn'["srv"].up) /\ Pure(conn'["srv"].down)
      BY <1>1, <1>5, <1>6, GrownIs DEF SrvShape
    <2>2. Connected'
      BY <1>3 DEF Connected
    <2> QED
      BY <2>1, <2>2 DEF SrvShape, Pure
  <1> QED
    BY <1>7, <1>8, <1>9, <1>10 DEF Shape

LEMMA ShapeLoop ==
    ASSUME ShapeInv, Fading, NEW k \in Copier, Loops(k)
    PROVE  Shape'
  <1>1. UNCHANGED <<h, far, app, code, sent, got>> /\ x' = x
    BY DEF Loops, client, exit, user
  <1>2. CASE LoopLoses(k)
    BY <1>1, <1>2, ShapeStill DEF LoopLoses
  <1>3. CASE LoopStops(k)
    BY <1>1, <1>3, ShapeCloses DEF LoopStops
  <1> QED
    BY <1>1, <1>2, <1>3, ShapeLoopReads, ShapeLoopWrites DEF Loops

-----------------------------------------------------------------------------
LEMMA ShapeGreet ==
    ASSUME ShapeInv, Fading, Greet
    PROVE  Shape'
  <1>1. Types /\ Neat /\ AppShape /\ TunShape /\ SrvShape
    BY DEF ShapeInv, Shape, ControlInv
  <1>2. /\ app = "greet" /\ app' = "method" /\ UNCHANGED <<h, far, code, sent, got>> /\ x' = x
    BY DEF Greet, client, exit
  <1>3. PICK item \in Item : Moves({}, {Up("app")}, item, {}, {})
    BY <1>1, UserMoves, ItemType DEF Tag
  <1>4. AppUp = <<>> /\ AppDown = <<>> /\ h \in {"greet", "over"} /\ code # 0
    BY <1>1, <1>2 DEF AppShape
  <1>5. /\ \A c \in Conn : Fades(c)
        /\ \A c \in Conn : c # "app" => Same(c) /\ Cut(c)
    BY <1>1, <1>3, OneMoves, Ways
  <1>6. Neat'
    <2>1. Room(Up("app"), item)
      BY <1>1, <1>4, AppType DEF Room
    <2> QED
      BY <1>1, <1>3, <2>1, NeatMoves
  <1>7. AppShape'
    <2>1. /\ AppDown' = AppDown
          /\ AppUp' = IF Arrives(Up("app")) THEN Append(AppUp, item) ELSE AppUp
      BY <1>3, AppAfter
    <2>2. AppUp' = <<>> \/ AppUp' = Append(<<>>, item)
      BY <1>4, <2>1
    <2>3. <<>> \in Seq(Item) /\ Len(<<>>) = 0
      OBVIOUS
    <2>4. Len(Append(<<>>, item)) <= 1
      BY <2>3, AppendIs
    <2> HIDE DEF AppUp, AppDown
    <2>5. Len(AppUp') <= 1 /\ Len(AppDown') <= 1 /\ AppDown' = <<>>
      BY <1>4, <2>1, <2>2, <2>3, <2>4
    <2> QED
      BY <1>1, <1>2, <1>4, <2>5 DEF AppShape, Asking
  <1>8. TunShape'
    BY <1>1, <1>2, <1>5, TunKept, Ways
  <1>9. SrvShape'
    BY <1>1, <1>2, <1>5, SrvKept, Ways DEF Connected
  <1> QED
    BY <1>6, <1>7, <1>8, <1>9 DEF Shape

LEMMA ShapeRequest ==
    ASSUME ShapeInv, Fading, Request
    PROVE  Shape'
  <1>1. Types /\ Neat /\ AppShape /\ TunShape /\ SrvShape
    BY DEF ShapeInv, Shape, ControlInv
  <1>2. /\ app = "method" /\ app' = "code" /\ UNCHANGED <<h, far, code, sent, got>> /\ x' = x
    BY DEF Request, client, exit
  <1>3. PICK item \in Item : Moves({Down("app")}, {Up("app")}, item, {}, {})
    BY <1>1, UserMoves, ItemType DEF Tag
  <1>4. /\ AppDown # <<>> /\ AppDown' = Tail(AppDown)
        /\ AppUp' = IF Arrives(Up("app")) THEN Append(AppUp, item) ELSE AppUp
    BY <1>3, AppAfter
  <1>5. AppUp = <<>> /\ h \in {"connect", "over"} /\ Len(AppDown) <= 1
    BY <1>1, <1>2, <1>4 DEF AppShape
  <1>6. /\ \A c \in Conn : Fades(c)
        /\ \A c \in Conn : c # "app" => Same(c) /\ Cut(c)
    BY <1>1, <1>3, OneMoves, Ways
  <1>7. Neat'
    <2>1. Room(Up("app"), item)
      BY <1>1, <1>5, AppType DEF Room
    <2> QED
      BY <1>1, <1>3, <2>1, NeatMoves
  <1>8. AppShape'
    <2>1. AppDown' = <<>>
      <3>1. AppDown \in Seq(Item) /\ NeatQueue(AppDown)
        BY <1>1, QueueTypes
      <3> QED
        BY <1>4, <1>5, <3>1, NeatTail
    <2>2. AppUp' = <<>> \/ AppUp' = Append(<<>>, item)
      BY <1>4, <1>5
    <2>3. <<>> \in Seq(Item) /\ Len(<<>>) = 0
      OBVIOUS
    <2>4. Len(Append(<<>>, item)) <= 1
      BY <2>3, AppendIs
    <2> HIDE DEF AppUp, AppDown
    <2>5. Len(AppUp') <= 1
      <3>1. CASE AppUp' = <<>>
        BY <2>3, <3>1
      <3>2. CASE AppUp' = Append(<<>>, item)
        BY <2>4, <3>2
      <3> QED
        BY <2>2, <3>1, <3>2
    <2> QED
      BY <1>1, <1>2, <1>5, <2>1, <2>5 DEF AppShape, Asking, Says
  <1>9. TunShape'
    BY <1>1, <1>2, <1>6, TunKept, Ways
  <1>10. SrvShape'
    BY <1>1, <1>2, <1>6, SrvKept, Ways DEF Connected
  <1> QED
    BY <1>7, <1>8, <1>9, <1>10 DEF Shape

LEMMA ShapeAnswered ==
    ASSUME ShapeInv, Fading, Answered
    PROVE  Shape'
  <1>1. Types /\ Neat /\ AppShape /\ TunShape /\ SrvShape
    BY DEF ShapeInv, Shape, ControlInv
  <1>2. /\ app = "code" /\ code' = First(Down("app"))[2] /\ Queue(Down("app")) # <<>>
        /\ app' = IF code' = 0 THEN "talk" ELSE "told"
        /\ UNCHANGED <<h, far, sent, got>> /\ x' = x
    BY DEF Answered, Ready, client, exit
  <1>3. Moves({Down("app")}, {}, Nothing, {}, {}) /\ Nothing \in Item
    BY <1>1, UserMoves, ItemType DEF Tag, Nothing
  <1>4. AppDown # <<>> /\ AppDown' = Tail(AppDown) /\ AppUp' = AppUp
    BY <1>3, AppAfter
  <1>5. code' = AppDown[1][2]
    <2>1. First(Down("app")) = Queue(Down("app"))[1]
      BY <1>1, <1>2, AppChannels, FirstType DEF Types
    <2> QED
      BY <1>1, <1>2, <2>1, AppType
  <1>6. code' \in 0..5 /\ (code' = 0 <=> h = "copy") /\ h \in {"copy", "over"}
    BY <1>1, <1>2, <1>4, <1>5 DEF AppShape, Says
  <1>7. /\ \A c \in Conn : Fades(c)
        /\ \A c \in Conn : c # "app" => Same(c) /\ Cut(c)
    BY <1>1, <1>3, OneMoves, Ways
  <1>8. Neat'
    BY <1>1, <1>3, NeatMoves
  <1>9. AppShape'
    <2>1. Pure(AppDown')
      <3>1. AppDown \in Seq(Item) /\ NeatQueue(AppDown)
        BY <1>1, QueueTypes
      <3>2. Pure(Tail(AppDown))
        BY <1>4, <3>1, NeatTail
      <3> QED
        BY <1>4, <3>2
    <2> HIDE DEF AppUp, AppDown
    <2> QED
      BY <1>1, <1>2, <1>4, <1>6, <2>1 DEF AppShape, Asking, Pure
  <1>10. TunShape'
    BY <1>1, <1>2, <1>7, TunKept, Ways
  <1>11. SrvShape'
    BY <1>1, <1>2, <1>7, SrvKept, Ways DEF Connected
  <1> QED
    BY <1>8, <1>9, <1>10, <1>11 DEF Shape

\* The two users, once they talk
LEMMA TalkingIs ==
    ASSUME ShapeInv, NEW u \in User, Talking(u)
    PROVE  /\ u = "app" => app = "talk" /\ h = "copy"
           /\ Connected
           /\ u = "app" => Mouth(u) = Up("app") /\ Ear(u) = Down("app")
           /\ u = "srv" => Mouth(u) = Down("srv") /\ Ear(u) = Up("srv")
  <1>1. u = "app" => Mouth(u) = Up("app") /\ Ear(u) = Down("app")
    BY DEF Mouth, Ear
  <1>2. u = "srv" => Mouth(u) = Down("srv") /\ Ear(u) = Up("srv")
    BY DEF Mouth, Ear
  <1>3. u = "app" => app = "talk" /\ h = "copy"
    BY DEF Talking, ShapeInv, Shape, AppShape
  <1>4. u = "app" => Connected
    BY <1>3 DEF ShapeInv, Shape, TunShape, ControlInv, Control, Types, Connected
  <1>5. u = "srv" => conn["srv"].right
    BY <1>2 DEF Talking, Down, Writer
  <1>6. u = "srv" => Connected
    BY <1>5 DEF ShapeInv, Shape, SrvShape
  <1> QED
    BY <1>1, <1>2, <1>3, <1>4, <1>6 DEF User

LEMMA ShapeWrite ==
    ASSUME ShapeInv, Fading, NEW u \in User, Write(u)
    PROVE  Shape'
  <1> DEFINE n == sent[u] + 1
  <1>1. Types /\ Neat /\ AppShape /\ TunShape /\ SrvShape
    BY DEF ShapeInv, Shape, ControlInv
  <1>2. /\ Talking(u) /\ Arrives(Mouth(u)) /\ ~Full(Mouth(u)) /\ n \in Nat
        /\ Moves({}, {Mouth(u)}, <<"data", n>>, {}, {}) /\ Mouth(u) \in Channel
        /\ UNCHANGED <<h, far, app, code, got>> /\ x' = x
        /\ u # "app" => sent'["app"] = sent["app"]
    <2>1. Moves({}, {Mouth(u)}, <<"data", n>>, {}, {})
      BY <1>1, UserMoves
    <2>2. n \in Nat /\ Mouth(u) \in Channel
      BY <1>1, Ways DEF Types
    <2>3. /\ Talking(u) /\ Arrives(Mouth(u)) /\ ~Full(Mouth(u))
          /\ UNCHANGED <<h, far, app, code, got>> /\ x' = x
      BY DEF Write, talkOnly, client, exit
    <2>4. u # "app" => sent'["app"] = sent["app"]
      BY <1>1, Ways DEF Write, Types
    <2> QED
      BY <2>1, <2>2, <2>3, <2>4
  <1> HIDE DEF n
  <1>3. /\ u = "app" => app = "talk" /\ h = "copy" /\ Mouth(u) = Up("app")
        /\ u # "app" => Mouth(u) = Down("srv")
        /\ Connected
    BY <1>2, TalkingIs DEF User
  <1>4. \A c \in Conn : Fades(c)
    BY <1>1, <1>2, MovesFade
  <1>5. /\ AppUp' = AppUp \/ (u = "app" /\ Grown(AppUp, AppUp'))
        /\ AppDown' = AppDown
        /\ Same("tun") /\ Same("dns")
        /\ Grown(conn["srv"].up, conn'["srv"].up) /\ Grown(conn["srv"].down, conn'["srv"].down)
    <2>1. \A c \in Conn :
            /\ Mouth(u) # Up(c) => conn'[c].up = conn[c].up
            /\ Mouth(u) # Down(c) => conn'[c].down = conn[c].down
            /\ Grown(conn[c].up, conn'[c].up) /\ Grown(conn[c].down, conn'[c].down)
      BY <1>2, PutsGrow
    <2>2. /\ u # "app" => Mouth(u) # Up("app")
          /\ Mouth(u) # Down("app")
          /\ Mouth(u) # Up("tun") /\ Mouth(u) # Down("tun")
          /\ Mouth(u) # Up("dns") /\ Mouth(u) # Down("dns")
      BY <1>3, ChannelNames
    <2> QED
      BY <2>1, <2>2, Ways DEF AppUp, AppDown, Same
  <1>6. AppUp \in Seq(Item) /\ conn["srv"].up \in Seq(Item) /\ conn["srv"].down \in Seq(Item)
    BY <1>1, QueueTypes
  <1>7. Neat'
    BY <1>1, <1>2, NeatPuts
  <1>8. AppShape'
    <2>1. AppHears' => AppHears
      BY <1>4, Ways DEF Fades, AppHears
    <2>2. AppUp' = AppUp \/ (u = "app" /\ (Pure(AppUp) => Pure(AppUp')))
      BY <1>5, <1>6, GrownIs
    <2> HIDE DEF AppUp, AppDown, AppHears
    <2>3. AppDown' = AppDown
      BY <1>5
    <2>4. CASE u = "app"
      <3>1. app = "talk" /\ h = "copy"
        BY <1>3, <2>4
      <3> QED
        BY <1>1, <1>2, <2>1, <2>2, <2>3, <3>1 DEF AppShape, Asking, Says, Pure
    <2>5. CASE u # "app" /\ AppUp' = AppUp
      <3>1. sent'["app"] = sent["app"] /\ got'["app"] = got["app"]
        BY <1>2, <2>5
      <3> QED
        BY <1>1, <1>2, <2>1, <2>3, <2>5, <3>1 DEF AppShape, Asking, Says, Pure
    <2> QED
      BY <2>2, <2>4, <2>5
  <1>9. TunShape'
    BY <1>1, <1>2, <1>4, <1>5, TunKept, Ways
  <1>10. SrvShape'
    <2>1. Pure(conn'["srv"].up) /\ Pure(conn'["srv"].down)
      BY <1>1, <1>5, <1>6, GrownIs DEF SrvShape
    <2>2. Connected'
      BY <1>2, <1>3 DEF Connected
    <2> QED
      BY <2>1, <2>2 DEF SrvShape, Pure
  <1> QED
    BY <1>7, <1>8, <1>9, <1>10 DEF Shape

LEMMA ShapeRead ==
    ASSUME ShapeInv, Fading, NEW u \in User, Read(u)
    PROVE  Shape'
  <1>1. Types /\ Neat /\ AppShape /\ TunShape /\ SrvShape
    BY DEF ShapeInv, Shape, ControlInv
  <1>2. /\ Talking(u) /\ Moves({Ear(u)}, {}, Nothing, {}, {})
        /\ UNCHANGED <<h, far, app, code, sent>> /\ x' = x
        /\ u # "app" => got'["app"] = got["app"]
    BY <1>1, UserMoves, Ways DEF Read, Types, talkOnly, client, exit
  <1>3. /\ u = "app" => app = "talk" /\ h = "copy" /\ Ear(u) = Down("app")
        /\ u # "app" => Ear(u) = Up("srv")
        /\ Connected
    BY <1>2, TalkingIs DEF User
  <1>4. \A c \in Conn : Fades(c)
    BY <1>1, <1>2, MovesFade
  <1>5. /\ AppDown' = AppDown \/ (u = "app" /\ Dropped(AppDown, AppDown'))
        /\ AppUp' = AppUp
        /\ Same("tun") /\ Same("dns")
        /\ Dropped(conn["srv"].up, conn'["srv"].up) /\ Dropped(conn["srv"].down, conn'["srv"].down)
    <2>1. \A c \in Conn :
            /\ Ear(u) # Up(c) => conn'[c].up = conn[c].up
            /\ Ear(u) # Down(c) => conn'[c].down = conn[c].down
            /\ Dropped(conn[c].up, conn'[c].up) /\ Dropped(conn[c].down, conn'[c].down)
      BY <1>2, TakesDrop
    <2>2. /\ u # "app" => Ear(u) # Down("app")
          /\ Ear(u) # Up("app")
          /\ Ear(u) # Up("tun") /\ Ear(u) # Down("tun")
          /\ Ear(u) # Up("dns") /\ Ear(u) # Down("dns")
      BY <1>3, ChannelNames
    <2> QED
      BY <2>1, <2>2, Ways DEF AppUp, AppDown, Same
  <1>6. /\ AppDown \in Seq(Item) /\ NeatQueue(AppDown)
        /\ conn["srv"].up \in Seq(Item) /\ NeatQueue(conn["srv"].up)
        /\ conn["srv"].down \in Seq(Item) /\ NeatQueue(conn["srv"].down)
    BY <1>1, QueueTypes
  <1>7. Neat'
    BY <1>1, <1>2, NeatTakes
  <1>8. AppShape'
    <2>1. AppHears' => AppHears
      BY <1>4, Ways DEF Fades, AppHears
    <2>2. AppDown' = AppDown \/ (u = "app" /\ (Pure(AppDown) => Pure(AppDown')))
      BY <1>5, <1>6, DroppedPure
    <2> HIDE DEF AppUp, AppDown, AppHears
    <2>3. AppUp' = AppUp
      BY <1>5
    <2>4. CASE u = "app"
      <3>1. app = "talk" /\ h = "copy"
        BY <1>3, <2>4
      <3> QED
        BY <1>1, <1>2, <2>1, <2>2, <2>3, <3>1 DEF AppShape, Asking, Says, Pure
    <2>5. CASE u # "app" /\ AppDown' = AppDown
      <3>1. sent'["app"] = sent["app"] /\ got'["app"] = got["app"]
        BY <1>2, <2>5
      <3> QED
        BY <1>1, <1>2, <2>1, <2>3, <2>5, <3>1 DEF AppShape, Asking, Says, Pure
    <2> QED
      BY <2>2, <2>4, <2>5
  <1>9. TunShape'
    BY <1>1, <1>2, <1>4, <1>5, TunKept, Ways
  <1>10. SrvShape'
    <2>1. Pure(conn'["srv"].up) /\ Pure(conn'["srv"].down)
      BY <1>1, <1>5, <1>6, DroppedPure DEF SrvShape
    <2>2. Connected'
      BY <1>2, <1>3 DEF Connected
    <2> QED
      BY <2>1, <2>2 DEF SrvShape, Pure
  <1> QED
    BY <1>7, <1>8, <1>9, <1>10 DEF Shape

LEMMA ShapeReadEnd ==
    ASSUME ShapeInv, Fading, NEW u \in User, ReadEnd(u)
    PROVE  Shape'
  <1>1. Types /\ Neat /\ AppShape /\ TunShape /\ SrvShape
    BY DEF ShapeInv, Shape, ControlInv
  <1>2. /\ Talking(u) /\ conn' = conn /\ UNCHANGED <<h, far, app, code, sent>> /\ x' = x
        /\ u # "app" => got'["app"] = got["app"]
        /\ u = "app" => got'["srv"] = got["srv"]
    BY <1>1, Ways DEF ReadEnd, Types, talkOnly, client, exit
  <1>3. Connected /\ (u = "app" => app = "talk")
    BY <1>2, TalkingIs
  <1>4. \A c \in Conn : Same(c) /\ Cut(c) /\ Fades(c)
    BY <1>1, <1>2, StillFades, SameCut
  <1>5. Neat'
    BY <1>1, <1>4, NeatCut
  <1>6. AppShape'
    BY <1>1, <1>2, <1>3, <1>4, AppKept, Ways
  <1>7. TunShape'
    BY <1>1, <1>2, <1>4, TunKept, Ways
  <1>8. SrvShape'
    <2>1. Connected' <=> Connected
      BY <1>2 DEF Connected
    <2> QED
      BY <1>1, <1>3, <1>4, <2>1, SrvKept, Ways
  <1> QED
    BY <1>5, <1>6, <1>7, <1>8 DEF Shape

LEMMA ShapeUse ==
    ASSUME ShapeInv, Fading, Uses
    PROVE  Shape'
  <1>1. ASSUME NEW u \in User, Leave(u) PROVE Shape'
    <2>1. Closes({<<u, Writer(Mouth(u))>>})
      BY <1>1, UserMoves DEF ShapeInv, ControlInv
    <2>2. UNCHANGED <<h, far, app, code, sent, got>> /\ x' = x
      BY <1>1 DEF Leave, talkOnly, client, exit
    <2> QED
      BY <2>1, <2>2, ShapeCloses
  <1> QED
    BY <1>1, ShapeGreet, ShapeRequest, ShapeAnswered, ShapeWrite, ShapeRead, ShapeReadEnd DEF Uses

LEMMA ShapeBreak ==
    ASSUME ShapeInv, Fading, Breaks \/ UNCHANGED vars
    PROVE  Shape'
  <1>1. UNCHANGED <<conn, client, exit, app, code, sent, got>>
    BY DEF Breaks, WireBreaks, Killed, Notice, HalfClose, vars, user
  <1> QED
    BY <1>1, ShapeStill DEF client, exit

LEMMA ShapeStep == ASSUME ShapeInv, [Next]_vars PROVE ShapeInv'
  <1>1. ControlInv'
    BY ControlStep DEF ShapeInv
  <1>2. Types /\ Fading
    BY FadingStep DEF ShapeInv, ControlInv
  <1>3. Shape'
    BY <1>2, NextCases, ShapeClient, ShapeExit, ShapeLoop, ShapeUse, ShapeBreak
  <1> QED
    BY <1>1, <1>3 DEF ShapeInv

\* Each connection carries what the phases of its two sides allow: a greeting,
\* a request, an answer or an address at most, and before any data.
THEOREM ShapeSafe == Spec => []ShapeInv
  <1>1. Init => ShapeInv
    BY TypesInit, ControlInit, ShapeInit DEF ShapeInv, ControlInv
  <1>2. ShapeInv /\ [Next]_vars => ShapeInv'
    BY ShapeStep
  <1> QED
    BY <1>1, <1>2, PTL DEF Spec

\* Nothing goes directly that is to be proxied, and of what is to go directly only
\* a name is proxied; an application that is told yes is connected to what it
\* asked for.
THEOREM ProxyRoutedRight == Spec => []RoutedRight
  <1>1. ShapeInv => RoutedRight
    <2> SUFFICES ASSUME ShapeInv PROVE RoutedRight
      OBVIOUS
    <2>1. Control /\ Checked /\ Judged /\ far \in {"app", "tun", "srv"}
      BY DEF ShapeInv, ControlInv, Types
    <2>2. /\ code = 0 => h = "copy"
          /\ far = "tun" /\ h = "copy" => x["tun"] = "copy"
      BY DEF ShapeInv, Shape, AppShape, TunShape
    <2> QED
      BY <2>1, <2>2 DEF Control, Checked, Judged, Straight, RoutedRight
  <1> QED
    BY <1>1, ShapeSafe, PTL

LEMMA ItemsType == ASSUME NEW q \in Seq(Item) PROVE Items(q)
  <1>1. \A k \in DOMAIN q : q[k] \in Item
    OBVIOUS
  <1> QED
    BY <1>1 DEF Items, Item, Tag

\* Every queue holds at most what a connection holds.
THEOREM ProxyTypeOK == Spec => []TypeOK
  <1>1. ShapeInv => TypeOK
    <2> SUFFICES ASSUME ShapeInv PROVE TypeOK
      OBVIOUS
    <2>1. Types /\ Neat /\ code \in -1..5
      BY DEF ShapeInv, ControlInv, Shape, AppShape
    <2>2. ASSUME NEW c \in Conn
          PROVE  /\ Items(conn[c].up) /\ Items(conn[c].down)
                 /\ Len(conn[c].up) <= Cap /\ Len(conn[c].down) <= Cap + 1
      <3>1. conn[c].up \in Seq(Item) /\ conn[c].down \in Seq(Item)
        BY <2>1, ConnType
      <3>2. Items(conn[c].up) /\ Items(conn[c].down)
        BY <3>1, ItemsType
      <3>3. Len(conn[c].up) <= Cap /\ Len(conn[c].down) <= Cap
        BY <2>1 DEF Neat, NeatQueue
      <3>4. Len(conn[c].down) \in Nat /\ Cap \in Nat
        BY <3>1, ProxyAssumption
      <3> QED
        BY <3>2, <3>3, <3>4
    <2>3. \A k \in Copier : copier[k].pc \in {"off", "read", "write", "done"}
      BY <2>1 DEF Types, CopierRec
    <2> QED
      BY <2>1, <2>2, <2>3 DEF TypeOK, Types
  <1> QED
    BY <1>1, ShapeSafe, PTL

-----------------------------------------------------------------------------
(* The data in a queue *)

\* Of a queue: its answer or address in front, its pieces, and that they are
\* those after n, in order
Lead(q) == IF q # <<>> /\ q[1][1] # "data" THEN 1 ELSE 0
Held(q) == Len(q) - Lead(q)
Chain(q, n) == \A k \in 1..Len(q) : k > Lead(q) => q[k] = <<"data", n + k - Lead(q)>>
SameData(q, r) == Held(r) = Held(q) /\ \A n \in Nat : Chain(q, n) => Chain(r, n)

LEMMA HeldType == ASSUME NEW q \in Seq(Item) PROVE Held(q) \in Nat
  BY DEF Held, Lead

LEMMA EmptyData == Held(<<>>) = 0 /\ \A n \in Nat : Chain(<<>>, n)
  BY DEF Held, Lead, Chain

LEMMA SameSelf == ASSUME NEW q PROVE SameData(q, q)
  BY DEF SameData

LEMMA SameTail ==
    ASSUME NEW q \in Seq(Item), NeatQueue(q), q # <<>>, q[1][1] # "data"
    PROVE  SameData(q, Tail(q))
  <1>1. /\ Len(Tail(q)) = Len(q) - 1 /\ Len(q) \in Nat /\ Len(q) >= 1
        /\ \A k \in 1..Len(Tail(q)) : Tail(q)[k] = q[k + 1]
    OBVIOUS
  <1>2. Pure(Tail(q))
    BY NeatTail
  <1>3. Lead(q) = 1 /\ Lead(Tail(q)) = 0
    BY <1>2 DEF Lead, Pure
  <1>4. Held(Tail(q)) = Held(q)
    BY <1>1, <1>3 DEF Held
  <1>5. ASSUME NEW n \in Nat, Chain(q, n) PROVE Chain(Tail(q), n)
    <2>1. ASSUME NEW k \in 1..Len(Tail(q)) PROVE Tail(q)[k] = <<"data", n + k>>
      <3>1. k + 1 \in 1..Len(q) /\ k + 1 > Lead(q) /\ n + (k + 1) - Lead(q) = n + k
        BY <1>1, <1>3
      <3>2. q[k + 1] = <<"data", n + (k + 1) - Lead(q)>>
        BY <1>5, <3>1 DEF Chain
      <3> QED
        BY <1>1, <3>1, <3>2
    <2>2. \A k \in 1..Len(Tail(q)) : n + k - Lead(Tail(q)) = n + k
      BY <1>3
    <2> QED
      BY <2>1, <2>2 DEF Chain
  <1> QED
    BY <1>4, <1>5 DEF SameData

LEMMA SameFirst ==
    ASSUME NEW item \in Item, item[1] # "data"
    PROVE  SameData(<<>>, Append(<<>>, item)) /\ Held(<<item>>) = 0
  <1> DEFINE r == Append(<<>>, item)
  <1>1. Len(r) = 1 /\ r # <<>> /\ r[1] = item /\ <<item>> = r
    OBVIOUS
  <1> HIDE DEF r
  <1>2. Lead(r) = 1
    BY <1>1 DEF Lead
  <1>3. Held(r) = 0
    BY <1>1, <1>2 DEF Held
  <1>4. \A n \in Nat : Chain(r, n)
    BY <1>1, <1>2 DEF Chain
  <1>5. SameData(<<>>, r)
    BY <1>3, <1>4, EmptyData DEF SameData
  <1> QED
    BY <1>1, <1>3, <1>5 DEF r

\* Without pieces, any start will do.
LEMMA NoPieces ==
    ASSUME NEW q \in Seq(Item), Held(q) = 0, NEW n \in Nat
    PROVE  Chain(q, n)
  <1>1. Len(q) \in Nat /\ Lead(q) \in {0, 1} /\ Len(q) = Lead(q)
    BY DEF Held, Lead
  <1> QED
    BY <1>1 DEF Chain

LEMMA TakeData ==
    ASSUME NEW q \in Seq(Item), NeatQueue(q), q # <<>>, Pure(q), NEW n \in Nat, Chain(q, n)
    PROVE  q[1] = <<"data", n + 1>> /\ Chain(Tail(q), n + 1) /\ Held(Tail(q)) = Held(q) - 1
  <1>1. /\ Len(Tail(q)) = Len(q) - 1 /\ Len(q) \in Nat /\ Len(q) >= 1
        /\ \A k \in 1..Len(Tail(q)) : Tail(q)[k] = q[k + 1]
    OBVIOUS
  <1>2. Pure(Tail(q))
    BY NeatTail
  <1>3. Lead(q) = 0 /\ Lead(Tail(q)) = 0
    BY <1>2 DEF Lead, Pure
  <1>4. ASSUME NEW k \in 1..Len(q) PROVE q[k] = <<"data", n + k>>
    <2>1. k > Lead(q) /\ n + k - Lead(q) = n + k
      BY <1>3
    <2> QED
      BY <2>1 DEF Chain
  <1>5. ASSUME NEW k \in 1..Len(Tail(q)) PROVE Tail(q)[k] = <<"data", n + 1 + k>>
    <2>1. k + 1 \in 1..Len(q) /\ n + (k + 1) = n + 1 + k
      BY <1>1
    <2>2. q[k + 1] = <<"data", n + (k + 1)>>
      BY <1>4, <2>1
    <2> QED
      BY <1>1, <2>1, <2>2
  <1>6. \A k \in 1..Len(Tail(q)) : n + 1 + k - Lead(Tail(q)) = n + 1 + k
    BY <1>3
  <1>7. Chain(Tail(q), n + 1)
    BY <1>5, <1>6 DEF Chain
  <1>8. Held(Tail(q)) = Held(q) - 1
    BY <1>1, <1>3 DEF Held
  <1> QED
    BY <1>1, <1>4, <1>7, <1>8

LEMMA PutData ==
    ASSUME NEW q \in Seq(Item), NEW n \in Nat, Chain(q, n), NEW m \in Nat, m = n + Held(q) + 1
    PROVE  /\ Chain(Append(q, <<"data", m>>), n)
           /\ Held(Append(q, <<"data", m>>)) = Held(q) + 1
  <1> DEFINE item == <<"data", m>>
             r == Append(q, item)
  <1>1. item \in Item /\ item[1] = "data"
    BY ItemType DEF Tag
  <1>2. item = <<"data", m>>
    OBVIOUS
  <1> HIDE DEF item
  <1>3. /\ Len(r) = Len(q) + 1 /\ Len(q) \in Nat /\ r[Len(q) + 1] = item /\ r # <<>>
        /\ \A k \in 1..Len(q) : r[k] = q[k]
    BY <1>1
  <1>4. /\ q # <<>> => r[1] = q[1]
        /\ q = <<>> => r[1] = item
    BY <1>1, AppendIs
  <1> HIDE DEF r
  <1>5. Lead(r) = Lead(q) /\ Lead(q) \in {0, 1} /\ Lead(q) <= Len(q)
    <2>1. q # <<>> => Len(q) >= 1
      OBVIOUS
    <2> QED
      BY <1>1, <1>3, <1>4, <2>1 DEF Lead
  <1>6. Held(r) = Held(q) + 1
    BY <1>3, <1>5 DEF Held
  <1>7. ASSUME NEW k \in 1..Len(r), k > Lead(r) PROVE r[k] = <<"data", n + k - Lead(r)>>
    <2>1. CASE k \in 1..Len(q)
      <3>1. q[k] = <<"data", n + k - Lead(q)>>
        BY <1>5, <1>7, <2>1 DEF Chain
      <3> QED
        BY <1>3, <1>5, <2>1, <3>1
    <2>2. CASE k = Len(q) + 1
      <3>1. n + k - Lead(r) = m
        BY <1>3, <1>5, <2>2 DEF Held
      <3> QED
        BY <1>2, <1>3, <2>2, <3>1
    <2> QED
      BY <1>3, <2>1, <2>2
  <1>8. Chain(r, n)
    BY <1>7 DEF Chain
  <1> QED
    BY <1>6, <1>8 DEF r, item

-----------------------------------------------------------------------------
(* The data on its way *)

Way == {"app", "tun", "srv"} \X Dir
Starting == [Way -> Nat]
Origin(ch) == IF ch[2] = "up" THEN "app" ELSE "srv"

\* The last piece that was put into a channel, if the pieces after s[ch] are in it
Past(s, ch) == s[ch] + Held(Queue(ch))

\* Pieces that a user has read, and that a loop has in its hands
Heard(u) == IF SawEnd(u) THEN Len(got[u]) - 1 ELSE Len(got[u])
Hand(k) == IF copier[k].pc = "write" THEN 1 ELSE 0
Runs(k) == copier[k].pc \in {"read", "write"}

\* Each channel holds the pieces after some start, in order.  A user has read
\* up to where his channel starts; a loop takes the piece after the last it put;
\* a user puts what he writes; as long as they are not lost on a dead channel.
Chains(s) == \A ch \in Way : Chain(Queue(ch), s[ch]) /\ Past(s, ch) <= sent[Origin(ch)]
Hears(s) == \A u \in User : s[Ear(u)] = Heard(u)
Links(s) == \A k \in Copier :
    /\ copier[k].pc = "write" => copier[k].piece = s[In(k)]
    /\ Runs(k) /\ Arrives(OutOf(k)) => s[In(k)] = Past(s, OutOf(k)) + Hand(k)
Speaks(s) == \A u \in User : Arrives(Mouth(u)) => sent[u] = Past(s, Mouth(u))
Starts(s) == copier["D"].pc = "off" => s[Down("tun")] = 0
FlowFrom(s) == Chains(s) /\ Hears(s) /\ Links(s) /\ Speaks(s) /\ Starts(s)
Flow == \E s \in Starting : FlowFrom(s)

LEMMA WayNames ==
    /\ \A ch \in Way : ch \in Channel /\ ch[1] \in Conn /\ ch[1] # "dns" /\ Origin(ch) \in User
    /\ \A c \in {"app", "tun", "srv"} : Up(c) \in Way /\ Down(c) \in Way
    /\ Up("dns") \notin Way /\ Down("dns") \notin Way
    /\ \A u \in User : /\ Ear(u) \in Way /\ Mouth(u) \in Way
                       /\ Origin(Mouth(u)) = u /\ Origin(Ear(u)) = Other(u)
                       /\ \A v \in User : /\ Ear(u) # Mouth(v)
                                          /\ u # v => Ear(u) # Ear(v) /\ Mouth(u) # Mouth(v)
  BY DEF Way, Channel, Conn, User, Tunnel, Dir, Origin, Up, Down, Ear, Mouth, Other

LEMMA InWay ==
    ASSUME far \in {"app", "tun", "srv"}, NEW k \in Copier
    PROVE  In(k) \in Way /\ OutOf(k) \in Way
  BY DEF In, OutOf, Copier, Way, Dir, Up, Down

\* Where the loops that run read and write
LEMMA LoopWay ==
    ASSUME Types, Control, NEW k \in Copier, copier[k].pc # "off"
    PROVE  /\ In(k) \in Way /\ OutOf(k) \in Way /\ Origin(In(k)) = Origin(OutOf(k))
           /\ In(k) # OutOf(k)
           /\ \A u \in User : In(k) # Ear(u) /\ OutOf(k) # Mouth(u)
           /\ In(k) = Down("tun") => k = "D"
           /\ \A j \in Copier : j # k /\ copier[j].pc # "off" =>
                In(j) # In(k) /\ OutOf(j) # OutOf(k)
  <1>1. /\ k \in {"H", "D"} => far \in {"tun", "srv"}
        /\ k \in {"E", "B"} => far = "tun"
    BY DEF Control, Types
  <1>2. ASSUME NEW j \in Copier, j # k, copier[j].pc # "off"
        PROVE  In(j) # In(k) /\ OutOf(j) # OutOf(k)
    <2>1. /\ j \in {"H", "D"} => far \in {"tun", "srv"}
          /\ j \in {"E", "B"} => far = "tun"
      BY <1>2 DEF Control, Types
    <2> QED
      BY <1>1, <1>2, <2>1 DEF In, OutOf, Copier, Up, Down
  <1>3. /\ In(k) \in Way /\ OutOf(k) \in Way /\ Origin(In(k)) = Origin(OutOf(k))
        /\ In(k) # OutOf(k)
        /\ In(k) = Down("tun") => k = "D"
    BY <1>1 DEF In, OutOf, Copier, Way, Dir, Up, Down, Origin
  <1>4. ASSUME NEW u \in User PROVE In(k) # Ear(u) /\ OutOf(k) # Mouth(u)
    BY <1>1 DEF In, OutOf, Copier, Up, Down, User, Ear, Mouth
  <1> QED
    BY <1>2, <1>3, <1>4

LEMMA WayType ==
    ASSUME Types, Neat, NEW s \in Starting, NEW ch \in Way
    PROVE  /\ s[ch] \in Nat /\ Queue(ch) \in Seq(Item) /\ NeatQueue(Queue(ch))
           /\ Held(Queue(ch)) \in Nat /\ Past(s, ch) \in Nat
  <1>1. ch \in Channel /\ ch[1] \in Conn /\ (ch[2] = "up" \/ ch[2] = "down")
    BY WayNames, Names DEF Dir
  <1>2. Queue(ch) \in Seq(Item)
    BY <1>1, QueueType DEF Types, Queue, Q
  <1>3. NeatQueue(Queue(ch))
    BY <1>1 DEF Neat, Queue
  <1>4. s[ch] \in Nat
    BY DEF Starting
  <1>5. Held(Queue(ch)) \in Nat
    BY <1>2, HeldType
  <1> QED
    BY <1>2, <1>3, <1>4, <1>5 DEF Past

\* A channel whose pieces stay, or are lost with what would have followed
Still(ch) == SameData(Queue(ch), Queue(ch)') \/ (Queue(ch)' = <<>> /\ ~Arrives(ch)')
Calm == \A ch \in Way : Still(ch) /\ (Arrives(ch)' => Arrives(ch))

LEMMA StillPast ==
    ASSUME Types, Neat, NEW s \in Starting, NEW ch \in Way, Still(ch), Chain(Queue(ch), s[ch])
    PROVE  /\ Chain(Queue(ch), s[ch])' /\ Past(s, ch)' <= Past(s, ch)
           /\ Arrives(ch)' => Past(s, ch)' = Past(s, ch)
  <1>1. s[ch] \in Nat /\ Held(Queue(ch)) \in Nat
    BY WayType
  <1>2. CASE SameData(Queue(ch), Queue(ch)')
    <2>1. Chain(Queue(ch)', s[ch]) /\ Held(Queue(ch)') = Held(Queue(ch))
      BY <1>1, <1>2 DEF SameData
    <2>2. Past(s, ch)' = Past(s, ch) /\ Past(s, ch) \in Nat
      BY <1>1, <2>1 DEF Past
    <2> QED
      BY <2>1, <2>2 DEF Chain, Lead
  <1>3. CASE Queue(ch)' = <<>> /\ ~Arrives(ch)'
    <2>1. Chain(Queue(ch)', s[ch]) /\ Held(Queue(ch)') = 0
      BY <1>1, <1>3, EmptyData
    <2>2. Past(s, ch)' = s[ch] /\ Past(s, ch) = s[ch] + Held(Queue(ch))
      BY <1>1, <2>1 DEF Past
    <2> QED
      BY <1>1, <1>3, <2>1, <2>2 DEF Chain, Lead
  <1> QED
    BY <1>2, <1>3 DEF Still

\* Steps that take no piece and put none
LEMMA FlowStill ==
    ASSUME Types, Control, Neat, NEW s \in Starting, FlowFrom(s), Calm,
           far' = far, sent' = sent, \A u \in User : Heard(u)' = Heard(u),
           \A k \in Copier : \/ copier'[k] = copier[k]
                             \/ copier'[k].pc \in {"off", "done"}
                             \/ /\ copier'[k].pc = "read"
                                /\ Arrives(OutOf(k)) => s[In(k)] = Past(s, OutOf(k)),
           copier'["D"].pc = "off" => copier["D"].pc = "off"
    PROVE  FlowFrom(s)'
  <1>1. ASSUME NEW ch \in Way
        PROVE  /\ Chain(Queue(ch), s[ch])' /\ Past(s, ch)' <= Past(s, ch)
               /\ Arrives(ch)' => Past(s, ch)' = Past(s, ch) /\ Arrives(ch)
               /\ Past(s, ch) \in Nat /\ Past(s, ch)' \in Int /\ Past(s, ch) <= sent[Origin(ch)]
    <2>1. Still(ch) /\ Chain(Queue(ch), s[ch]) /\ Past(s, ch) <= sent[Origin(ch)]
          /\ (Arrives(ch)' => Arrives(ch))
      BY DEF Calm, FlowFrom, Chains
    <2>2. Past(s, ch) \in Nat
      BY WayType
    <2>3. Past(s, ch)' \in Int
      <3>1. s[ch] \in Nat /\ Held(Queue(ch)) \in Nat
        BY WayType
      <3>2. Held(Queue(ch)') = Held(Queue(ch)) \/ Held(Queue(ch)') = 0
        BY <2>1, EmptyData DEF Still, SameData
      <3> QED
        BY <3>1, <3>2 DEF Past
    <2> QED
      BY <2>1, <2>2, <2>3, StillPast
  <1>2. Chains(s)'
    <2>1. ASSUME NEW ch \in Way PROVE Past(s, ch)' <= sent[Origin(ch)]'
      <3>1. Origin(ch) \in User /\ sent[Origin(ch)] \in Nat
        BY WayNames DEF Types
      <3>2. sent'[Origin(ch)] = sent[Origin(ch)]
        OBVIOUS
      <3> QED
        BY <1>1, <3>1, <3>2
    <2> QED
      BY <1>1, <2>1 DEF Chains
  <1>3. Hears(s)'
    BY DEF FlowFrom, Hears
  <1>4. Speaks(s)'
    <2>1. ASSUME NEW u \in User, Arrives(Mouth(u))' PROVE sent'[u] = Past(s, Mouth(u))'
      <3>1. Mouth(u) \in Way
        BY WayNames
      <3>2. Past(s, Mouth(u))' = Past(s, Mouth(u)) /\ Arrives(Mouth(u))
        BY <1>1, <2>1, <3>1
      <3> QED
        BY <3>2 DEF FlowFrom, Speaks
    <2> QED
      BY <2>1 DEF Speaks
  <1>5. Starts(s)'
    BY DEF FlowFrom, Starts
  <1>6. ASSUME NEW k \in Copier
        PROVE  /\ copier'[k].pc = "write" => copier'[k].piece = s[In(k)']
               /\ Runs(k)' /\ Arrives(OutOf(k))' => s[In(k)'] = Past(s, OutOf(k))' + Hand(k)'
    <2>1. In(k)' = In(k) /\ OutOf(k)' = OutOf(k)
      BY DEF In, OutOf
    <2>2. /\ copier[k].pc = "write" => copier[k].piece = s[In(k)]
          /\ Runs(k) /\ Arrives(OutOf(k)) => s[In(k)] = Past(s, OutOf(k)) + Hand(k)
      BY DEF FlowFrom, Links
    <2>3. OutOf(k) \in Way
      BY InWay DEF Types
    <2>4. CASE copier'[k] = copier[k]
      <3>1. copier'[k].pc = "write" => copier'[k].piece = s[In(k)']
        BY <2>1, <2>2, <2>4
      <3>2. Hand(k)' = Hand(k) /\ Runs(k)' = Runs(k)
        BY <2>4 DEF Hand, Runs
      <3>3. ASSUME Runs(k)', Arrives(OutOf(k))'
            PROVE  s[In(k)'] = Past(s, OutOf(k))' + Hand(k)'
        <4>1. Runs(k)
          BY <3>2, <3>3
        <4>2. Arrives(OutOf(k))' => Past(s, OutOf(k))' = Past(s, OutOf(k)) /\ Arrives(OutOf(k))
          BY <1>1, <2>1, <2>3
        <4> QED
          BY <2>1, <2>2, <3>2, <3>3, <4>1, <4>2
      <3> QED
        BY <3>1, <3>3
    <2>5. CASE copier'[k].pc \in {"off", "done"}
      BY <2>5 DEF Runs
    <2>6. CASE /\ copier'[k].pc = "read"
               /\ Arrives(OutOf(k)) => s[In(k)] = Past(s, OutOf(k))
      <3>1. Arrives(OutOf(k))' => Past(s, OutOf(k))' = Past(s, OutOf(k)) /\ Arrives(OutOf(k))
        BY <1>1, <2>1, <2>3
      <3>2. Hand(k)' = 0 /\ Past(s, OutOf(k)) \in Nat
        BY <1>1, <2>3, <2>6 DEF Hand
      <3> QED
        BY <2>1, <2>6, <3>1, <3>2
    <2> QED
      BY <2>4, <2>5, <2>6
  <1>7. Links(s)'
    BY <1>6 DEF Links
  <1> QED
    BY <1>2, <1>3, <1>4, <1>5, <1>7 DEF FlowFrom

\* A piece is taken from a channel.
TakesPiece(s, a, r) ==
    /\ r \in Starting /\ r[a] = s[a] + 1 /\ First(a)[2] = s[a] + 1
    /\ Queue(a) # <<>>
    /\ \A ch \in Way : /\ ch # a => r[ch] = s[ch]
                       /\ Chain(Queue(ch)', r[ch]) /\ Past(r, ch)' = Past(s, ch)

LEMMA FlowTakes ==
    ASSUME Types, Neat, NEW s \in Starting, Chains(s), NEW a \in Way, Pure(Queue(a)),
           Moves({a}, {}, Nothing, {}, {}), NEW r, r = [s EXCEPT ![a] = @ + 1]
    PROVE  TakesPiece(s, a, r)
  <1>1. /\ r \in Starting /\ r[a] = s[a] + 1 /\ s[a] \in Nat
        /\ \A ch \in Way : ch # a => r[ch] = s[ch]
    BY DEF Starting
  <1>2. /\ Queue(a) # <<>>
        /\ \A ch \in Way : Queue(ch)' = IF ch = a THEN Tail(Queue(ch)) ELSE Queue(ch)
    BY WayNames DEF Moves, Made, Q, Queue
  <1>3. /\ Queue(a) \in Seq(Item) /\ NeatQueue(Queue(a)) /\ Held(Queue(a)) \in Nat
        /\ Chain(Queue(a), s[a])
    BY WayType DEF Chains
  <1> DEFINE q == Queue(a)
  <1>4. /\ q[1] = <<"data", s[a] + 1>> /\ Chain(Tail(q), s[a] + 1)
        /\ Held(Tail(q)) = Held(q) - 1
    <2>1. q \in Seq(Item) /\ NeatQueue(q) /\ q # <<>> /\ Pure(q) /\ Chain(q, s[a])
      BY <1>2, <1>3
    <2> HIDE DEF q
    <2> QED
      BY <1>1, <2>1, TakeData
  <1>5. First(a)[2] = s[a] + 1
    <2>1. First(a) = q[1]
      BY <1>2, <1>3 DEF First
    <2> QED
      BY <1>1, <1>4, <2>1
  <1>6. ASSUME NEW ch \in Way
        PROVE  Chain(Queue(ch)', r[ch]) /\ Past(r, ch)' = Past(s, ch)
    <2>1. CASE ch = a
      <3>1. Queue(ch)' = Tail(q) /\ r[ch] = s[a] + 1
        BY <1>1, <1>2, <2>1
      <3> HIDE DEF q
      <3>2. Chain(Queue(ch)', r[ch]) /\ Held(Queue(ch)') = Held(q) - 1
        BY <1>4, <3>1
      <3>3. Held(q) \in Nat /\ Past(s, ch) = s[a] + Held(q)
        BY <1>3, <2>1 DEF Past, q
      <3> QED
        BY <1>1, <3>1, <3>2, <3>3 DEF Past
    <2>2. CASE ch # a
      <3>1. Queue(ch)' = Queue(ch) /\ r[ch] = s[ch]
        BY <1>1, <1>2, <2>2
      <3> QED
        BY <3>1 DEF Chains, Past
    <2> QED
      BY <2>1, <2>2
  <1> QED
    BY <1>1, <1>2, <1>5, <1>6 DEF TakesPiece

\* The next piece is put into a channel.
LEMMA FlowPuts ==
    ASSUME Types, Neat, NEW s \in Starting, Chains(s), NEW a \in Way, NEW n \in Nat,
           n = Past(s, a) + 1, Arrives(a), Moves({}, {a}, <<"data", n>>, {}, {})
    PROVE  \A ch \in Way : /\ Chain(Queue(ch), s[ch])'
                           /\ Past(s, ch)' = IF ch = a THEN n ELSE Past(s, ch)
  <1>1. \A ch \in Way :
          Queue(ch)' = IF ch = a THEN Append(Queue(ch), <<"data", n>>) ELSE Queue(ch)
    BY WayNames DEF Moves, Made, Q, Queue
  <1>2. s[a] \in Nat /\ Queue(a) \in Seq(Item) /\ Held(Queue(a)) \in Nat /\ Chain(Queue(a), s[a])
    BY WayType DEF Chains
  <1> DEFINE q == Queue(a)
             r == Append(q, <<"data", n>>)
  <1>3. Chain(r, s[a]) /\ Held(r) = Held(q) + 1
    <2>1. q \in Seq(Item) /\ Chain(q, s[a]) /\ n = s[a] + Held(q) + 1
      BY <1>2 DEF Past
    <2> HIDE DEF q
    <2> QED
      BY <1>2, <2>1, PutData
  <1> TAKE ch \in Way
  <1>4. CASE ch = a
    <2>1. Queue(ch)' = r
      BY <1>1, <1>4
    <2> HIDE DEF r
    <2>2. Chain(Queue(ch)', s[ch]) /\ Past(s, ch)' = s[a] + (Held(q) + 1)
      BY <1>3, <1>4, <2>1 DEF Past
    <2>3. Chain(Queue(ch), s[ch])'
      BY <2>2 DEF Chain, Lead
    <2>4. n = s[a] + Held(q) + 1 /\ Held(q) \in Nat /\ s[a] \in Nat
      BY <1>2 DEF Past
    <2> HIDE DEF q
    <2>5. Past(s, ch)' = n
      BY <2>2, <2>4
    <2> QED
      BY <1>4, <2>3, <2>5
  <1>5. CASE ch # a
    <2>1. Queue(ch)' = Queue(ch)
      BY <1>1, <1>5
    <2> QED
      BY <1>5, <2>1 DEF Chains, Past, Chain, Lead
  <1> QED
    BY <1>4, <1>5


\* A loop reads nothing but pieces.
LEMMA LoopPure ==
    ASSUME ShapeInv, NEW k \in Copier, copier[k].pc # "off"
    PROVE  Pure(Queue(In(k)))
  <1>1. Types /\ Control /\ AppShape /\ TunShape /\ SrvShape
    BY DEF ShapeInv, Shape, ControlInv
  <1>2. /\ \/ k = "H" /\ In(k) = Up("app")
           \/ k = "D" /\ In(k) = Down(far)
           \/ k = "E" /\ In(k) = Up("tun")
           \/ k = "B" /\ In(k) = Down("srv")
        /\ k \in {"H", "D"} => h = "copy" /\ far \in {"tun", "srv"}
        /\ k \in {"E", "B"} => x["tun"] = "copy"
    BY <1>1, LoopEnds
  <1>3. /\ h = "copy" => Pure(Queue(Up("app")))
        /\ h = "copy" /\ far = "tun" => Pure(Queue(Down("tun")))
        /\ x["tun"] = "copy" => Pure(Queue(Up("tun")))
        /\ Pure(Queue(Down("srv")))
    BY <1>1, ChannelNames DEF AppShape, TunShape, SrvShape, AppUp, TunUp, TunDown
  <1> QED
    BY <1>2, <1>3

LEMMA FadesArrive ==
    ASSUME \A c \in Conn : Fades(c), NEW ch \in Way
    PROVE  Arrives(ch)' => Arrives(ch)
  <1>1. ch[1] \in Conn /\ (ch = Up(ch[1]) \/ ch = Down(ch[1]))
    BY WayNames, Names
  <1> QED
    BY <1>1 DEF Fades

LEMMA FlowReads ==
    ASSUME ShapeInv, Fading, NEW s \in Starting, FlowFrom(s), NEW k \in Copier, LoopReads(k),
           UNCHANGED <<far, sent, got>>
    PROVE  Flow'
  <1> SUFFICES ASSUME NEW a, a = In(k), NEW r, r = [s EXCEPT ![a] = @ + 1]
               PROVE  Flow'
    OBVIOUS
  <1>1. Types /\ Control /\ Neat /\ copier[k].pc = "read" /\ Moves({a}, {}, Nothing, {}, {})
    BY DEF ShapeInv, Shape, ControlInv, LoopReads
  <1>2. /\ a \in Way /\ OutOf(k) \in Way /\ a # OutOf(k)
        /\ \A u \in User : a # Ear(u)
        /\ a = Down("tun") => k = "D"
        /\ \A j \in Copier : j # k /\ copier[j].pc # "off" => In(j) # a
    BY <1>1, LoopWay
  <1>3. Pure(Queue(a)) /\ Chains(s)
    BY <1>1, LoopPure DEF FlowFrom
  <1>4. copier' = [copier EXCEPT ![k] = [pc |-> "write", piece |-> First(a)[2]]]
    BY DEF LoopReads
  <1>5. \A j \in Copier : In(j)' = In(j) /\ OutOf(j)' = OutOf(j)
    BY DEF In, OutOf
  <1>6. /\ r \in Starting /\ r[a] = s[a] + 1 /\ First(a)[2] = s[a] + 1
        /\ Queue(a) # <<>>
        /\ \A ch \in Way : /\ ch # a => r[ch] = s[ch]
                           /\ Chain(Queue(ch)', r[ch]) /\ Past(r, ch)' = Past(s, ch)
    <2>1. Types /\ Neat /\ Chains(s) /\ a \in Way /\ Pure(Queue(a)) /\ Moves({a}, {}, Nothing, {}, {})
      BY <1>1, <1>2, <1>3
    <2>2. TakesPiece(s, a, r)
      BY <2>1, FlowTakes
    <2> QED
      BY <2>2 DEF TakesPiece
  <1>7. \A ch \in Way : Arrives(ch)' => Arrives(ch)
    BY <1>1, MovesFade, FadesArrive
  <1>8. Chains(r)'
    <2>1. \A ch \in Way : Chain(Queue(ch), r[ch])'
      BY <1>6 DEF Chain, Lead
    <2> QED
      BY <1>3, <1>6, <2>1 DEF Chains
  <1>9. Hears(r)'
    <2>1. ASSUME NEW u \in User PROVE r[Ear(u)] = Heard(u)'
      <3>1. r[Ear(u)] = s[Ear(u)]
        BY <1>2, <1>6, WayNames
      <3> QED
        BY <3>1 DEF FlowFrom, Hears, Heard, SawEnd
    <2> QED
      BY <2>1 DEF Hears
  <1>10. Speaks(r)'
    <2>1. ASSUME NEW u \in User, Arrives(Mouth(u))' PROVE sent'[u] = Past(r, Mouth(u))'
      <3>1. Mouth(u) \in Way
        BY WayNames
      <3>2. Past(r, Mouth(u))' = Past(s, Mouth(u)) /\ Arrives(Mouth(u))
        BY <1>6, <1>7, <2>1, <3>1
      <3> QED
        BY <3>2 DEF FlowFrom, Speaks
    <2> QED
      BY <2>1 DEF Speaks
  <1>11. Starts(r)'
    <2>1. CASE k = "D"
      BY <1>1, <1>4, <2>1 DEF Starts, Types
    <2>2. CASE k # "D"
      <3>1. r[Down("tun")] = s[Down("tun")]
        BY <1>2, <1>6, <2>2, WayNames
      <3>2. copier'["D"] = copier["D"]
        BY <1>1, <1>4, <2>2, Ways DEF Types
      <3> QED
        BY <3>1, <3>2 DEF Starts, FlowFrom
    <2> QED
      BY <2>1, <2>2
  <1>12. ASSUME NEW j \in Copier
        PROVE  /\ copier'[j].pc = "write" => copier'[j].piece = r[In(j)']
               /\ Runs(j)' /\ Arrives(OutOf(j))' => r[In(j)'] = Past(r, OutOf(j))' + Hand(j)'
    <2>1. In(j)' = In(j) /\ OutOf(j)' = OutOf(j)
      BY <1>5
    <2>2. /\ copier[j].pc = "write" => copier[j].piece = s[In(j)]
          /\ Runs(j) /\ Arrives(OutOf(j)) => s[In(j)] = Past(s, OutOf(j)) + Hand(j)
      BY DEF FlowFrom, Links
    <2>3. copier[j].pc # "off" => In(j) \in Way /\ OutOf(j) \in Way
      BY <1>1, LoopWay
    <2>4. CASE j = k
      <3>1. copier'[j].pc = "write" /\ copier'[j].piece = First(a)[2]
        BY <1>1, <1>4, <2>4 DEF Types
      <3>2. copier'[j].piece = r[In(j)'] /\ r[In(j)'] = s[a] + 1
        BY <1>6, <2>1, <2>4, <3>1
      <3>3. ASSUME Arrives(OutOf(j))' PROVE r[In(j)'] = Past(r, OutOf(j))' + Hand(j)'
        <4>1. Arrives(OutOf(j))' => Arrives(OutOf(j)) /\ Past(r, OutOf(j))' = Past(s, OutOf(j))
          BY <1>2, <1>6, <1>7, <2>1, <2>4
        <4>2. Hand(j)' = 1 /\ Hand(j) = 0 /\ Runs(j)
          BY <1>1, <2>4, <3>1 DEF Hand, Runs
        <4>3. s[a] = Past(s, OutOf(j)) + 0
          BY <2>2, <2>4, <3>3, <4>1, <4>2
        <4>4. Past(s, OutOf(j)) \in Nat
          BY <1>1, <1>2, <2>4, WayType
        <4> QED
          BY <3>2, <3>3, <4>1, <4>2, <4>3, <4>4
      <3> QED
        BY <3>1, <3>2, <3>3
    <2>5. CASE j # k
      <3>1. copier'[j] = copier[j]
        BY <1>1, <1>4, <2>5 DEF Types
      <3>2. Hand(j)' = Hand(j) /\ Runs(j)' = Runs(j)
        BY <3>1 DEF Hand, Runs
      <3>3. copier[j].pc # "off" => r[In(j)] = s[In(j)]
        BY <1>2, <1>6, <2>3, <2>5
      <3>4. copier'[j].pc = "write" => copier'[j].piece = r[In(j)']
        BY <2>1, <2>2, <3>1, <3>3
      <3>5. ASSUME Runs(j)', Arrives(OutOf(j))'
            PROVE  r[In(j)'] = Past(r, OutOf(j))' + Hand(j)'
        <4>1. Runs(j) /\ OutOf(j) \in Way /\ r[In(j)] = s[In(j)]
          BY <2>3, <3>2, <3>3, <3>5 DEF Runs
        <4>2. Arrives(OutOf(j))' => Arrives(OutOf(j)) /\ Past(r, OutOf(j))' = Past(s, OutOf(j))
          BY <1>6, <1>7, <2>1, <4>1
        <4> QED
          BY <2>1, <2>2, <3>2, <3>5, <4>1, <4>2
      <3> QED
        BY <3>4, <3>5
    <2> QED
      BY <2>4, <2>5
  <1>13. Links(r)'
    BY <1>12 DEF Links
  <1> QED
    BY <1>6, <1>8, <1>9, <1>10, <1>11, <1>13 DEF FlowFrom, Flow


LEMMA FlowWrites ==
    ASSUME ShapeInv, Fading, NEW s \in Starting, FlowFrom(s), NEW k \in Copier, LoopWrites(k),
           UNCHANGED <<far, sent, got>>
    PROVE  FlowFrom(s)'
  <1> SUFFICES ASSUME NEW a, a = OutOf(k), NEW n, n = copier[k].piece
               PROVE  FlowFrom(s)'
    OBVIOUS
  <1>1. /\ Types /\ Control /\ Neat /\ copier[k].pc = "write" /\ Arrives(a)
        /\ Moves({}, {a}, <<"data", n>>, {}, {})
    BY DEF ShapeInv, Shape, ControlInv, LoopWrites
  <1>2. /\ a \in Way /\ In(k) \in Way /\ Origin(a) = Origin(In(k)) /\ a # In(k)
        /\ \A u \in User : a # Mouth(u)
        /\ \A j \in Copier : j # k /\ copier[j].pc # "off" => OutOf(j) # a
    BY <1>1, LoopWay
  <1>3. /\ n = s[In(k)] /\ s[In(k)] = Past(s, a) + 1 /\ Past(s, a) \in Nat /\ n \in Nat
        /\ n <= sent[Origin(a)]
    <2>1. n = s[In(k)] /\ s[In(k)] = Past(s, a) + Hand(k) /\ Hand(k) = 1
      BY <1>1 DEF FlowFrom, Links, Runs, Hand
    <2>2. Past(s, a) \in Nat /\ Held(Queue(In(k))) \in Nat /\ s[In(k)] \in Nat
      BY <1>1, <1>2, WayType
    <2>3. Past(s, In(k)) <= sent[Origin(a)] /\ sent[Origin(a)] \in Nat
      BY <1>1, <1>2, WayNames DEF FlowFrom, Chains, Types
    <2> QED
      BY <2>1, <2>2, <2>3 DEF Past
  <1>4. copier' = [copier EXCEPT ![k] = [pc |-> "read", piece |-> 0]]
    BY DEF LoopWrites
  <1>5. \A j \in Copier : In(j)' = In(j) /\ OutOf(j)' = OutOf(j)
    BY DEF In, OutOf
  <1>6. \A ch \in Way : /\ Chain(Queue(ch), s[ch])'
                        /\ Past(s, ch)' = IF ch = a THEN n ELSE Past(s, ch)
    <2>1. Chains(s)
      BY DEF FlowFrom
    <2> QED
      BY <1>1, <1>2, <1>3, <2>1, FlowPuts
  <1>7. \A ch \in Way : Arrives(ch)' => Arrives(ch)
    BY <1>1, MovesFade, FadesArrive
  <1>8. Chains(s)'
    <2>1. \A ch \in Way : Past(s, ch)' <= sent[Origin(ch)]
      BY <1>3, <1>6 DEF FlowFrom, Chains
    <2> QED
      BY <1>6, <2>1 DEF Chains
  <1>9. Hears(s)'
    BY DEF FlowFrom, Hears, Heard, SawEnd
  <1>10. Speaks(s)'
    <2>1. ASSUME NEW u \in User, Arrives(Mouth(u))' PROVE sent'[u] = Past(s, Mouth(u))'
      <3>1. Mouth(u) \in Way /\ Mouth(u) # a
        BY <1>2, WayNames
      <3>2. Past(s, Mouth(u))' = Past(s, Mouth(u)) /\ Arrives(Mouth(u))
        BY <1>6, <1>7, <2>1, <3>1
      <3> QED
        BY <3>2 DEF FlowFrom, Speaks
    <2> QED
      BY <2>1 DEF Speaks
  <1>11. Starts(s)'
    BY <1>1, <1>4, Ways DEF FlowFrom, Starts, Types
  <1>12. ASSUME NEW j \in Copier
        PROVE  /\ copier'[j].pc = "write" => copier'[j].piece = s[In(j)']
               /\ Runs(j)' /\ Arrives(OutOf(j))' => s[In(j)'] = Past(s, OutOf(j))' + Hand(j)'
    <2>1. In(j)' = In(j) /\ OutOf(j)' = OutOf(j)
      BY <1>5
    <2>2. /\ copier[j].pc = "write" => copier[j].piece = s[In(j)]
          /\ Runs(j) /\ Arrives(OutOf(j)) => s[In(j)] = Past(s, OutOf(j)) + Hand(j)
      BY DEF FlowFrom, Links
    <2>3. copier[j].pc # "off" => In(j) \in Way /\ OutOf(j) \in Way
      BY <1>1, LoopWay
    <2>4. CASE j = k
      <3>1. copier'[j].pc = "read"
        BY <1>1, <1>4, <2>4 DEF Types
      <3>2. Hand(j)' = 0 /\ Past(s, OutOf(j))' = n
        BY <1>2, <1>6, <2>1, <2>4, <3>1 DEF Hand
      <3> QED
        BY <1>3, <2>1, <2>4, <3>1, <3>2
    <2>5. CASE j # k
      <3>1. copier'[j] = copier[j]
        BY <1>1, <1>4, <2>5 DEF Types
      <3>2. Hand(j)' = Hand(j) /\ Runs(j)' = Runs(j)
        BY <3>1 DEF Hand, Runs
      <3>3. ASSUME Runs(j)', Arrives(OutOf(j))'
            PROVE  s[In(j)'] = Past(s, OutOf(j))' + Hand(j)'
        <4>1. Runs(j) /\ OutOf(j) \in Way /\ OutOf(j) # a
          BY <1>2, <2>3, <2>5, <3>2, <3>3 DEF Runs
        <4>2. Arrives(OutOf(j))' => Arrives(OutOf(j)) /\ Past(s, OutOf(j))' = Past(s, OutOf(j))
          BY <1>6, <1>7, <2>1, <4>1
        <4> QED
          BY <2>1, <2>2, <3>2, <3>3, <4>1, <4>2
      <3> QED
        BY <2>1, <2>2, <3>1, <3>3
    <2> QED
      BY <2>4, <2>5
  <1>13. Links(s)'
    BY <1>12 DEF Links
  <1> QED
    BY <1>8, <1>9, <1>10, <1>11, <1>13 DEF FlowFrom


\* The loops stand as they stood.
LEMMA LinksKept ==
    ASSUME Types, Control, NEW s \in Starting, NEW r \in Starting, Links(s), copier' = copier,
           far' = far, \A ch \in Way : Arrives(ch)' => Arrives(ch),
           \A k \in Copier : copier[k].pc # "off" =>
             r[In(k)] = s[In(k)] /\ \A ch \in Way : ch = OutOf(k) => Past(r, ch)' = Past(s, ch)
    PROVE  Links(r)'
  <1>1. ASSUME NEW k \in Copier
        PROVE  /\ copier'[k].pc = "write" => copier'[k].piece = r[In(k)']
               /\ Runs(k)' /\ Arrives(OutOf(k))' => r[In(k)'] = Past(r, OutOf(k))' + Hand(k)'
    <2>1. In(k)' = In(k) /\ OutOf(k)' = OutOf(k) /\ Hand(k)' = Hand(k) /\ Runs(k)' = Runs(k)
      BY DEF In, OutOf, Hand, Runs
    <2>2. /\ copier[k].pc = "write" => copier[k].piece = s[In(k)]
          /\ Runs(k) /\ Arrives(OutOf(k)) => s[In(k)] = Past(s, OutOf(k)) + Hand(k)
      BY DEF Links
    <2>3. ASSUME Runs(k)', Arrives(OutOf(k))'
          PROVE  r[In(k)'] = Past(r, OutOf(k))' + Hand(k)'
      <3>1. Runs(k) /\ copier[k].pc # "off" /\ OutOf(k) \in Way
        BY <2>1, <2>3, LoopWay DEF Runs
      <3>2. Arrives(OutOf(k))' => Arrives(OutOf(k)) /\ Past(r, OutOf(k))' = Past(s, OutOf(k))
        BY <2>1, <3>1
      <3> QED
        BY <2>1, <2>2, <2>3, <3>1, <3>2
    <2> QED
      BY <2>1, <2>2, <2>3
  <1> QED
    BY <1>1 DEF Links

LEMMA FlowWrite ==
    ASSUME ShapeInv, Fading, NEW s \in Starting, FlowFrom(s), NEW u \in User, Write(u)
    PROVE  FlowFrom(s)'
  <1> SUFFICES ASSUME NEW a, a = Mouth(u), NEW n, n = sent[u] + 1
               PROVE  FlowFrom(s)'
    OBVIOUS
  <1>1. /\ Types /\ Control /\ Neat /\ Arrives(a) /\ Moves({}, {a}, <<"data", n>>, {}, {})
        /\ UNCHANGED <<far, copier, got>> /\ sent' = [sent EXCEPT ![u] = n]
    <2>1. Types /\ Control /\ Neat
      BY DEF ShapeInv, Shape, ControlInv
    <2>2. Moves({}, {a}, <<"data", n>>, {}, {})
      BY <2>1, UserMoves
    <2> QED
      BY <2>1, <2>2 DEF Write, talkOnly, client
  <1>2. a \in Way /\ Origin(a) = u /\ (\A v \in User : Ear(v) # a /\ (Mouth(v) = a => v = u))
    BY WayNames
  <1>3. Past(s, a) \in Nat /\ n = Past(s, a) + 1 /\ n \in Nat
    BY <1>1, <1>2, WayType DEF FlowFrom, Speaks
  <1>4. \A ch \in Way : /\ Chain(Queue(ch), s[ch])'
                        /\ Past(s, ch)' = IF ch = a THEN n ELSE Past(s, ch)
    <2>1. Chains(s)
      BY DEF FlowFrom
    <2> QED
      BY <1>1, <1>2, <1>3, <2>1, FlowPuts
  <1>5. \A ch \in Way : Arrives(ch)' => Arrives(ch)
    BY <1>1, MovesFade, FadesArrive
  <1>6. sent'[u] = n /\ \A v \in User : v # u => sent'[v] = sent[v]
    BY <1>1 DEF Types
  <1>7. Chains(s)'
    <2>1. ASSUME NEW ch \in Way PROVE Past(s, ch)' <= sent'[Origin(ch)]
      <3>1. Past(s, ch) <= sent[Origin(ch)] /\ Past(s, ch) \in Nat
            /\ Origin(ch) \in User /\ sent[Origin(ch)] \in Nat /\ sent[u] \in Nat
        BY <1>1, WayType, WayNames DEF FlowFrom, Chains, Types
      <3>2. CASE ch = a
        BY <1>2, <1>3, <1>4, <1>6, <3>2
      <3>3. CASE ch # a /\ Origin(ch) = u
        BY <1>4, <1>6, <3>1, <3>3
      <3>4. CASE ch # a /\ Origin(ch) # u
        BY <1>4, <1>6, <3>1, <3>4
      <3> QED
        BY <3>2, <3>3, <3>4
    <2> QED
      BY <1>4, <2>1 DEF Chains
  <1>8. Hears(s)'
    BY <1>1 DEF FlowFrom, Hears, Heard, SawEnd
  <1>9. Speaks(s)'
    <2>1. ASSUME NEW v \in User, Arrives(Mouth(v))' PROVE sent'[v] = Past(s, Mouth(v))'
      <3>1. Mouth(v) \in Way
        BY WayNames
      <3>2. CASE v = u
        BY <1>4, <1>6, <3>1, <3>2
      <3>3. CASE v # u
        <4>1. Past(s, Mouth(v))' = Past(s, Mouth(v)) /\ Arrives(Mouth(v))
          BY <1>2, <1>4, <1>5, <2>1, <3>1, <3>3
        <4> QED
          BY <1>6, <3>3, <4>1 DEF FlowFrom, Speaks
      <3> QED
        BY <3>2, <3>3
    <2> QED
      BY <2>1 DEF Speaks
  <1>10. Starts(s)'
    BY <1>1 DEF FlowFrom, Starts
  <1>11. Links(s)'
    <2>1. \A k \in Copier : copier[k].pc # "off" => OutOf(k) # a /\ OutOf(k) \in Way
      BY <1>1, LoopWay
    <2>2. \A k \in Copier : copier[k].pc # "off" =>
            s[In(k)] = s[In(k)] /\ \A ch \in Way : ch = OutOf(k) => Past(s, ch)' = Past(s, ch)
      BY <1>4, <2>1
    <2>3. Links(s) /\ copier' = copier /\ far' = far
      BY <1>1 DEF FlowFrom
    <2> QED
      BY <1>1, <1>5, <2>2, <2>3, LinksKept
  <1> QED
    BY <1>7, <1>8, <1>9, <1>10, <1>11 DEF FlowFrom


\* What a user has read: the pieces from the first, and then the end at most,
\* which is there only if nothing follows.
Heads(u) == \A k \in 1..Len(got[u]) : got[u][k] = k \/ (k = Len(got[u]) /\ got[u][k] = 0)
Finished(u) == SawEnd(u) => Queue(Ear(u)) = <<>> /\ ~conn[u][Writer(Ear(u))]
Users == \A u \in User : Heads(u) /\ Finished(u)

LEMMA UserPure ==
    ASSUME ShapeInv, NEW u \in User, Talking(u)
    PROVE  Pure(Queue(Ear(u)))
  <1>1. /\ u = "app" => app = "talk" /\ Ear(u) = Down("app")
        /\ u = "srv" => Ear(u) = Up("srv")
    BY TalkingIs
  <1>2. (app = "talk" => Pure(Queue(Down("app")))) /\ Pure(Queue(Up("srv")))
    BY ChannelNames DEF ShapeInv, Shape, AppShape, SrvShape, AppDown
  <1> QED
    BY <1>1, <1>2 DEF User

LEMMA ReadMore ==
    ASSUME NEW q \in Seq(Nat), NEW n \in Nat
    PROVE  /\ Append(q, n) # <<>> /\ Len(Append(q, n)) = Len(q) + 1
           /\ Append(q, n)[Len(Append(q, n))] = n /\ Len(q) \in Nat
           /\ \A k \in 1..Len(q) : Append(q, n)[k] = q[k]
  OBVIOUS

LEMMA FlowRead ==
    ASSUME ShapeInv, Fading, Users, NEW s \in Starting, FlowFrom(s), NEW u \in User, Read(u)
    PROVE  /\ Flow' /\ Heads(u)' /\ ~SawEnd(u)' /\ ~SawEnd(u)
           /\ Heard(u)' = Heard(u) + 1
  <1> SUFFICES ASSUME NEW a, a = Ear(u), NEW r, r = [s EXCEPT ![a] = @ + 1]
               PROVE  /\ Flow' /\ Heads(u)' /\ ~SawEnd(u)' /\ ~SawEnd(u)
                      /\ Heard(u)' = Heard(u) + 1
    OBVIOUS
  <1>1. /\ Types /\ Control /\ Neat /\ Moves({a}, {}, Nothing, {}, {})
        /\ Talking(u) /\ got' = [got EXCEPT ![u] = Append(@, First(a)[2])]
        /\ UNCHANGED <<far, copier, sent>>
    <2>1. Types /\ Control /\ Neat
      BY DEF ShapeInv, Shape, ControlInv
    <2>2. Moves({a}, {}, Nothing, {}, {})
      BY <2>1, UserMoves
    <2> QED
      BY <2>1, <2>2 DEF Read, talkOnly, client
  <1>2. a \in Way /\ \A v \in User : Mouth(v) # a /\ (Ear(v) = a => v = u)
    BY WayNames
  <1>3. TakesPiece(s, a, r)
    <2>1. Chains(s) /\ Pure(Queue(a))
      BY <1>1, UserPure DEF FlowFrom
    <2> QED
      BY <1>1, <1>2, <2>1, FlowTakes
  <1>4. /\ r \in Starting /\ r[a] = s[a] + 1 /\ First(a)[2] = s[a] + 1 /\ s[a] \in Nat
        /\ Queue(a) # <<>>
        /\ \A ch \in Way : /\ ch # a => r[ch] = s[ch]
                           /\ Chain(Queue(ch)', r[ch]) /\ Past(r, ch)' = Past(s, ch)
    BY <1>2, <1>3 DEF TakesPiece, Starting
  <1>5. \A ch \in Way : Arrives(ch)' => Arrives(ch)
    BY <1>1, MovesFade, FadesArrive
  <1>6. ~SawEnd(u) /\ Heard(u) = Len(got[u]) /\ s[a] = Heard(u) /\ got[u] \in Seq(Nat)
    BY <1>1, <1>4 DEF Users, Finished, Heard, FlowFrom, Hears, Types
  <1>7. got'[u] = Append(got[u], s[a] + 1) /\ \A v \in User : v # u => got'[v] = got[v]
    BY <1>1, <1>4 DEF Types
  <1>8. /\ got'[u] # <<>> /\ Len(got'[u]) = s[a] + 1 /\ got'[u][Len(got'[u])] = s[a] + 1
        /\ \A k \in 1..Len(got[u]) : got'[u][k] = got[u][k]
    BY <1>4, <1>6, <1>7, ReadMore
  <1>9. ~SawEnd(u)' /\ Heard(u)' = s[a] + 1
    <2>1. ~SawEnd(u)'
      BY <1>4, <1>8 DEF SawEnd
    <2> QED
      BY <1>8, <2>1 DEF Heard
  <1>10. Heads(u)'
    <2>1. ASSUME NEW k \in 1..Len(got'[u]) PROVE got'[u][k] = k
      <3>1. CASE k \in 1..Len(got[u])
        <4>1. got[u][k] = k \/ (k = Len(got[u]) /\ got[u][k] = 0)
          BY <3>1 DEF Users, Heads
        <4>2. ~(k = Len(got[u]) /\ got[u][k] = 0)
          BY <1>6, <3>1 DEF SawEnd
        <4> QED
          BY <1>8, <3>1, <4>1, <4>2
      <3>2. CASE k = Len(got'[u])
        BY <1>8, <3>2
      <3> QED
        BY <1>4, <1>6, <1>8, <3>1, <3>2
    <2> QED
      BY <2>1 DEF Heads
  <1>11. Chains(r)'
    <2>1. \A ch \in Way : Chain(Queue(ch), r[ch])'
      BY <1>4 DEF Chain, Lead
    <2> QED
      BY <1>1, <1>4, <2>1 DEF Chains, FlowFrom
  <1>12. Hears(r)'
    <2>1. ASSUME NEW v \in User PROVE r[Ear(v)] = Heard(v)'
      <3>1. CASE v = u
        BY <1>4, <1>9, <3>1
      <3>2. CASE v # u
        <4>1. r[Ear(v)] = s[Ear(v)]
          BY <1>2, <1>4, <3>2, WayNames
        <4>2. Heard(v)' = Heard(v)
          BY <1>7, <3>2 DEF Heard, SawEnd
        <4> QED
          BY <4>1, <4>2 DEF FlowFrom, Hears
      <3> QED
        BY <3>1, <3>2
    <2> QED
      BY <2>1 DEF Hears
  <1>13. Speaks(r)'
    <2>1. ASSUME NEW v \in User, Arrives(Mouth(v))' PROVE sent'[v] = Past(r, Mouth(v))'
      <3>1. Mouth(v) \in Way
        BY WayNames
      <3>2. Past(r, Mouth(v))' = Past(s, Mouth(v)) /\ Arrives(Mouth(v))
        BY <1>4, <1>5, <2>1, <3>1
      <3> QED
        BY <1>1, <3>2 DEF FlowFrom, Speaks
    <2> QED
      BY <2>1 DEF Speaks
  <1>14. Starts(r)'
    <2>1. Down("tun") # a /\ Down("tun") \in Way
      BY WayNames DEF Ear, Up, Down
    <2> QED
      BY <1>1, <1>4, <2>1 DEF FlowFrom, Starts
  <1>15. Links(r)'
    <2>1. \A k \in Copier : copier[k].pc # "off" =>
            In(k) # a /\ In(k) \in Way /\ OutOf(k) \in Way
      BY <1>1, LoopWay
    <2>2. \A k \in Copier : copier[k].pc # "off" =>
            r[In(k)] = s[In(k)] /\ \A ch \in Way : ch = OutOf(k) => Past(r, ch)' = Past(s, ch)
      BY <1>4, <2>1
    <2>3. Links(s) /\ copier' = copier /\ far' = far
      BY <1>1 DEF FlowFrom
    <2> QED
      BY <1>1, <1>4, <1>5, <2>2, <2>3, LinksKept
  <1>16. FlowFrom(r)'
    BY <1>11, <1>12, <1>13, <1>14, <1>15 DEF FlowFrom
  <1> QED
    BY <1>4, <1>6, <1>9, <1>10, <1>16 DEF Flow


-----------------------------------------------------------------------------
\* A closed end stays so, and nothing more is put into an empty queue behind it.
Stays == \A ch \in Way : Queue(ch) = <<>> /\ ~conn[ch[1]][Writer(ch)] =>
                           Queue(ch)' = <<>> /\ ~conn'[ch[1]][Writer(ch)]

\* As long as nothing is a cause, every channel keeps the number of its pieces.
Even == causes' = {} => \A ch \in Way : Held(Queue(ch)') = Held(Queue(ch))

\* A step that moves no piece, and one that starts with no piece on its way
Rests ==
    /\ Even /\ UNCHANGED <<far, sent, got>>
    /\ \A k \in Copier : \/ copier'[k] = copier[k]
                         \/ copier[k].pc = "off" /\ copier'[k].pc = "read"
Fresh ==
    /\ \A ch \in Way : Held(Queue(ch)') = 0
    /\ \A u \in User : sent[u] = 0 /\ got[u] = <<>>
    /\ UNCHANGED <<sent, got>>
    /\ \A k \in Copier : copier[k].pc = "off" /\ copier'[k].pc \in {"off", "read"}
Ripple == Rests \/ Fresh

LEMMA CalmStill ==
    ASSUME Types, Fading, conn' = conn
    PROVE  Calm /\ Stays /\ Even
  <1>1. \A c \in Conn : Fades(c)
    BY StillFades
  <1>2. \A ch \in Way : Arrives(ch)' => Arrives(ch)
    BY <1>1, FadesArrive
  <1>3. \A ch \in Way : Queue(ch)' = Queue(ch)
    BY DEF Queue
  <1>4. \A ch \in Way : Still(ch)
    BY <1>3, SameSelf DEF Still
  <1> QED
    BY <1>2, <1>3, <1>4 DEF Calm, Stays, Even

LEMMA MovesStays ==
    ASSUME NEW tk, NEW pt, NEW item, NEW ends, NEW lost, Moves(tk, pt, item, ends, lost)
    PROVE  Stays
  <1> SUFFICES ASSUME NEW ch \in Way, Queue(ch) = <<>>, ~conn[ch[1]][Writer(ch)]
               PROVE  Queue(ch)' = <<>> /\ ~conn'[ch[1]][Writer(ch)]
    BY DEF Stays
  <1>1. ch \in Channel /\ ch[1] \in Conn /\ Writer(ch) \in Side
    BY WayNames, Names
  <1>2. ~Arrives(ch)
    BY DEF Arrives, Usable
  <1>3. Queue(ch)' = Q(conn', ch)
    BY DEF Queue, Q
  <1>4. Q(conn', ch) = <<>>
    BY <1>1, <1>2 DEF Moves, Made
  <1>5. ~conn'[ch[1]][Writer(ch)]
    BY <1>1 DEF Moves, Made
  <1> QED
    BY <1>3, <1>4, <1>5

LEMMA CalmCloses ==
    ASSUME Types, Fading, NEW ends, Closes(ends)
    PROVE  Calm /\ Stays /\ Even
  <1>1. Stays
    BY MovesStays DEF Closes
  <1>2. \A c \in Conn : Cut(c) /\ Fades(c)
    BY ClosesCut
  <1>3. ASSUME NEW ch \in Way PROVE Still(ch) /\ (Arrives(ch)' => Arrives(ch))
    <2>1. ch[1] \in Conn /\ (ch = Up(ch[1]) \/ ch = Down(ch[1]))
      BY WayNames, Names
    <2>2. Arrives(ch)' => Arrives(ch)
      BY <1>2, FadesArrive
    <2>3. /\ Queue(ch)' = Queue(ch) \/ Queue(ch)' = <<>>
          /\ Queue(ch)' # Queue(ch) => ~Arrives(ch)'
      <3>1. CASE ch = Up(ch[1])
        <4>1. Queue(ch) = conn[ch[1]].up
          BY <3>1, ChannelNames
        <4>2. Queue(ch)' = conn'[ch[1]].up
          BY <3>1 DEF Queue, Up
        <4> QED
          BY <1>2, <2>1, <3>1, <4>1, <4>2 DEF Cut
      <3>2. CASE ch = Down(ch[1])
        <4>1. Queue(ch) = conn[ch[1]].down
          BY <3>2, ChannelNames
        <4>2. Queue(ch)' = conn'[ch[1]].down
          BY <3>2 DEF Queue, Down
        <4> QED
          BY <1>2, <2>1, <3>2, <4>1, <4>2 DEF Cut
      <3> QED
        BY <2>1, <3>1, <3>2
    <2> QED
      BY <2>2, <2>3, SameSelf DEF Still
  <1>4. ASSUME causes' = {}, NEW ch \in Way PROVE Queue(ch)' = Queue(ch)
    <2>1. Moves({}, {}, <<"junk", 0>>, ends, {})
      BY <1>4 DEF Closes
    <2>2. ch \in Channel /\ Queue(ch)' = Q(conn', ch)
      BY WayNames DEF Queue, Q
    <2> QED
      BY <2>1, <2>2 DEF Moves, Made
  <1>5. Even
    BY <1>4 DEF Even
  <1> QED
    BY <1>1, <1>3, <1>5 DEF Calm

\* Greetings, requests, answers and addresses come and go where no piece is
\* in front of them.
LEMMA CalmMoves ==
    ASSUME Types, Neat, Fading, NEW tk, NEW pt, NEW item \in Item, NEW ends,
           Moves(tk, pt, item, ends, {}),
           \A ch \in Way : ch \in tk => Queue(ch)[1][1] # "data",
           \A ch \in Way : ch \in pt => item[1] # "data" /\ Queue(ch) = <<>>
    PROVE  Calm /\ Stays /\ Even
  <1>1. Stays
    BY MovesStays
  <1>2. \A c \in Conn : Fades(c)
    BY MovesFade
  <1>3. ASSUME NEW ch \in Way PROVE Still(ch) /\ Held(Queue(ch)') = Held(Queue(ch))
    <2>1. Queue(ch) \in Seq(Item) /\ NeatQueue(Queue(ch))
      <3>1. ch \in Channel /\ ch[1] \in Conn /\ (ch[2] = "up" \/ ch[2] = "down")
        BY WayNames, Names DEF Dir
      <3>2. Queue(ch) \in Seq(Item)
        BY <3>1, QueueType DEF Types, Queue, Q
      <3> QED
        BY <3>1, <3>2 DEF Neat, Queue
    <2>2. ch \in tk => Queue(ch) # <<>>
      BY WayNames DEF Moves, Made
    <2>3. Queue(ch)' = IF ch \in tk THEN Tail(Queue(ch))
                       ELSE IF ch \in pt /\ Arrives(ch) THEN Append(Queue(ch), item)
                       ELSE Queue(ch)
      BY WayNames DEF Moves, Made, Q, Queue
    <2>4. ch \in tk => SameData(Queue(ch), Tail(Queue(ch)))
      BY <2>1, <2>2, SameTail
    <2>5. ch \in pt => SameData(Queue(ch), Append(Queue(ch), item))
      BY SameFirst
    <2> QED
      BY <2>3, <2>4, <2>5, SameSelf DEF Still, SameData
  <1>4. \A ch \in Way : Arrives(ch)' => Arrives(ch)
    BY <1>2, FadesArrive
  <1> QED
    BY <1>1, <1>3, <1>4 DEF Calm, Even

\* Nothing of a tunnel that only resolves a name is on the way.
LEMMA CalmAsks ==
    ASSUME Types, Fading, NEW up, Opens("dns", up, {}, Nothing)
    PROVE  Calm /\ Stays /\ Even
  <1>1. ASSUME NEW ch \in Way
        PROVE  /\ Still(ch) /\ (Arrives(ch)' => Arrives(ch)) /\ Queue(ch)' = Queue(ch)
               /\ conn'[ch[1]][Writer(ch)] <=> conn[ch[1]][Writer(ch)]
    <2>1. /\ ch \in Channel /\ ch[1] \in Conn /\ ch[1] # "dns" /\ Writer(ch) \in Side
          /\ ch = Up(ch[1]) \/ ch = Down(ch[1])
      BY WayNames, Names
    <2>2. Queue(ch)' = Queue(ch)
      BY <2>1 DEF Opens, Q, Queue
    <2>3. conn'[ch[1]][Writer(ch)] <=> conn[ch[1]][Writer(ch)]
      BY <2>1 DEF Opens
    <2>4. Fades(ch[1])
      BY <2>1, OpensFade
    <2> QED
      BY <2>1, <2>2, <2>3, <2>4, SameSelf DEF Fades, Still
  <1> QED
    BY <1>1 DEF Calm, Stays, Even


\* An application that has not asked yet
Begins == app \in {"greet", "method"} => far = "app"
FlowInv == ShapeInv /\ Flow /\ Users /\ Begins

LEMMA UsersKept ==
    ASSUME Types, Users, Stays, got' = got
    PROVE  Users'
  <1>1. ASSUME NEW u \in User PROVE Heads(u)' /\ Finished(u)'
    <2>1. Heads(u) /\ Finished(u)
      BY DEF Users
    <2>2. Heads(u)' /\ SawEnd(u)' = SawEnd(u)
      BY <2>1 DEF Heads, SawEnd
    <2>3. Ear(u) \in Way /\ Ear(u)[1] = u
      BY WayNames, Ways
    <2>4. Finished(u)'
      BY <2>1, <2>2, <2>3 DEF Finished, Stays
    <2> QED
      BY <2>2, <2>4
  <1> QED
    BY <1>1 DEF Users

\* A step that moves no piece and starts no loop
LEMMA FlowCalm ==
    ASSUME FlowInv, Calm, Stays, UNCHANGED <<far, sent, got>>,
           \A k \in Copier : \/ copier'[k] = copier[k]
                             \/ copier'[k].pc = "done"
                             \/ copier'[k].pc = "read" /\ ~Arrives(OutOf(k)) /\ Runs(k)
    PROVE  Flow' /\ Users'
  <1>1. Types /\ Control /\ Neat /\ Users
    BY DEF FlowInv, ShapeInv, Shape, ControlInv
  <1>2. PICK s \in Starting : FlowFrom(s)
    BY DEF FlowInv, Flow
  <1>3. \A u \in User : Heard(u)' = Heard(u)
    BY DEF Heard, SawEnd
  <1>4. copier'["D"].pc = "off" => copier["D"].pc = "off"
    BY Ways
  <1>5. \A k \in Copier : \/ copier'[k] = copier[k]
                          \/ copier'[k].pc \in {"off", "done"}
                          \/ /\ copier'[k].pc = "read"
                             /\ Arrives(OutOf(k)) => s[In(k)] = Past(s, OutOf(k))
    OBVIOUS
  <1>6. FlowFrom(s)'
    BY <1>1, <1>2, <1>3, <1>4, <1>5, FlowStill
  <1> QED
    BY <1>1, <1>2, <1>6, UsersKept DEF Flow

\* The server is dialled, or the exit asked, before any data.
LEMMA FlowFresh ==
    ASSUME FlowInv, Types', \A u \in User : sent[u] = 0 /\ got[u] = <<>>,
           UNCHANGED <<sent, got>>,
           \A k \in Copier : copier[k].pc = "off" /\ copier'[k].pc \in {"off", "read"},
           NEW c \in {"tun", "srv"}, NEW up \in Seq(Item), Held(up) = 0,
           NEW pt, NEW item \in Item, Opens(c, up, pt, item),
           \A ch \in Way : ch \in pt => item[1] # "data" /\ Queue(ch) = <<>>
    PROVE  Flow' /\ Users' /\ Ripple
  <1>1. Types /\ Neat
    BY DEF FlowInv, ShapeInv, Shape, ControlInv
  <1>2. PICK s \in Starting : FlowFrom(s)
    BY DEF FlowInv, Flow
  <1>3. ASSUME NEW ch \in Way
        PROVE  /\ s[ch] = 0 /\ Chain(Queue(ch), s[ch])' /\ Past(s, ch)' = 0
               /\ Held(Queue(ch)') = 0
    <2>1. /\ s[ch] \in Nat /\ Queue(ch) \in Seq(Item) /\ Held(Queue(ch)) \in Nat
          /\ Past(s, ch) <= 0
      BY <1>1, <1>2, WayType, WayNames DEF FlowFrom, Chains
    <2>2. s[ch] = 0 /\ Held(Queue(ch)) = 0
      BY <2>1 DEF Past
    <2>3. Queue(ch)' = IF ch[1] = c THEN (IF ch[2] = "up" THEN up ELSE <<>>)
                       ELSE IF ch \in pt /\ Arrives(ch) THEN Append(Queue(ch), item)
                       ELSE Queue(ch)
      BY WayNames DEF Opens, Q, Queue
    <2>4. ch \in pt => Held(Append(Queue(ch), item)) = 0 /\ Append(Queue(ch), item) \in Seq(Item)
      <3>1. SameData(<<>>, Append(<<>>, item)) => Held(Append(<<>>, item)) = 0
        BY EmptyData DEF SameData
      <3>2. item[1] # "data" => Held(Append(<<>>, item)) = 0
        BY <3>1, SameFirst
      <3>3. Append(<<>>, item) \in Seq(Item)
        OBVIOUS
      <3>4. ch \in pt => item[1] # "data" /\ Queue(ch) = <<>>
        OBVIOUS
      <3> QED
        BY <3>2, <3>3, <3>4
    <2>5. Held(Queue(ch)') = 0 /\ Queue(ch)' \in Seq(Item)
      <3>1. <<>> \in Seq(Item)
        OBVIOUS
      <3> QED
        BY <2>1, <2>2, <2>3, <2>4, <3>1, EmptyData
    <2>6. Chain(Queue(ch)', 0)
      BY <2>5, NoPieces
    <2>7. Chain(Queue(ch), s[ch])'
      BY <2>2, <2>6 DEF Chain, Lead
    <2>8. Past(s, ch)' = s[ch] + Held(Queue(ch)')
      BY DEF Past
    <2> QED
      BY <2>2, <2>5, <2>7, <2>8
  <1>4. Chains(s)'
    <2>1. \A ch \in Way : Past(s, ch)' <= sent[Origin(ch)]
      BY <1>3, WayNames
    <2> QED
      BY <1>3, <2>1 DEF Chains
  <1>5. Hears(s)'
    <2>1. \A u \in User : Heard(u)' = 0
      BY DEF Heard, SawEnd
    <2> QED
      BY <1>3, <2>1, WayNames DEF Hears
  <1>6. Speaks(s)'
    <2>1. ASSUME NEW u \in User PROVE sent'[u] = Past(s, Mouth(u))'
      BY <1>3, WayNames
    <2> QED
      BY <2>1 DEF Speaks
  <1>7. Starts(s)'
    BY <1>3, WayNames DEF Starts
  <1>8. Links(s)'
    <2>1. ASSUME NEW k \in Copier PROVE s[In(k)'] = Past(s, OutOf(k))' + Hand(k)'
      <3>1. In(k)' \in Way /\ OutOf(k)' \in Way
        BY DEF Types, In, OutOf, Copier, Way, Dir, Up, Down
      <3>2. Hand(k)' = 0
        BY DEF Hand
      <3>3. Past(s, OutOf(k))' = 0
        BY <1>3, <3>1
      <3> QED
        BY <1>3, <3>1, <3>2, <3>3
    <2> QED
      BY <2>1 DEF Links
  <1>9. Users'
    BY DEF Users, Heads, Finished, SawEnd
  <1>10. Ripple
    BY <1>3 DEF Ripple, Fresh
  <1> QED
    BY <1>2, <1>4, <1>5, <1>6, <1>7, <1>8, <1>9, <1>10 DEF FlowFrom, Flow


LEMMA FlowMoves ==
    ASSUME FlowInv, Fading, UNCHANGED <<far, sent, got, copier>>,
           NEW tk, NEW pt, NEW item \in Item, NEW ends, Moves(tk, pt, item, ends, {}),
           \A ch \in Way : ch \in tk => Queue(ch)[1][1] # "data",
           \A ch \in Way : ch \in pt => item[1] # "data" /\ Queue(ch) = <<>>
    PROVE  Flow' /\ Users' /\ Ripple
  <1>1. Types /\ Neat
    BY DEF FlowInv, ShapeInv, Shape, ControlInv
  <1>2. Calm /\ Stays /\ Even
    BY <1>1, CalmMoves
  <1>3. Ripple
    BY <1>2 DEF Ripple, Rests
  <1> QED
    BY <1>2, <1>3, FlowCalm

LEMMA FlowRests ==
    ASSUME FlowInv, Fading, UNCHANGED <<far, sent, got, copier>>,
           conn' = conn \/ (\E ends : Closes(ends)) \/ (\E up : Opens("dns", up, {}, Nothing))
    PROVE  Flow' /\ Users' /\ Ripple
  <1>1. Types
    BY DEF FlowInv, ShapeInv, ControlInv
  <1>2. Calm /\ Stays /\ Even
    BY <1>1, CalmStill, CalmCloses, CalmAsks
  <1>3. Ripple
    BY <1>2 DEF Ripple, Rests
  <1> QED
    BY <1>2, <1>3, FlowCalm

\* One channel is taken from, at most one put into.
LEMMA FlowMovesOne ==
    ASSUME FlowInv, Fading, UNCHANGED <<far, sent, got, copier>>,
           NEW tk, NEW pt, NEW item \in Item, NEW ends, Moves(tk, pt, item, ends, {}),
           NEW a \in Way, NEW b \in Way, tk \subseteq {a}, pt \subseteq {b},
           tk = {} \/ Queue(a)[1][1] # "data",
           pt = {} \/ (item[1] # "data" /\ Queue(b) = <<>>)
    PROVE  Flow' /\ Users' /\ Ripple
  <1>1. \A ch \in Way : ch \in tk => Queue(ch)[1][1] # "data"
    OBVIOUS
  <1>2. \A ch \in Way : ch \in pt => item[1] # "data" /\ Queue(ch) = <<>>
    OBVIOUS
  <1> QED
    BY <1>1, <1>2, FlowMoves

LEMMA AppWay ==
    /\ Up("app") \in Way /\ Down("app") \in Way /\ Up("tun") \in Way /\ Down("tun") \in Way
    /\ Up("srv") \in Way /\ Down("srv") \in Way
    /\ Queue(Up("app")) = AppUp /\ Queue(Down("app")) = AppDown
    /\ Queue(Up("tun")) = TunUp /\ Queue(Down("tun")) = TunDown
  BY WayNames DEF Queue, Up, Down, AppUp, AppDown, TunUp, TunDown

\* Before any data, what is in a channel is no data.
LEMMA NoData ==
    ASSUME FlowInv, NEW ch \in Way, sent[Origin(ch)] = 0, Queue(ch) # <<>>
    PROVE  Queue(ch)[1][1] # "data"
  <1>1. Types /\ Neat
    BY DEF FlowInv, ShapeInv, Shape, ControlInv
  <1>2. PICK s \in Starting : FlowFrom(s)
    BY DEF FlowInv, Flow
  <1>3. s[ch] \in Nat /\ Queue(ch) \in Seq(Item) /\ Held(Queue(ch)) \in Nat /\ Past(s, ch) <= 0
    BY <1>1, <1>2, WayType DEF FlowFrom, Chains
  <1>4. Held(Queue(ch)) = 0
    BY <1>3 DEF Past
  <1>5. Len(Queue(ch)) \in Nat /\ Len(Queue(ch)) # 0
    BY <1>3
  <1> QED
    BY <1>4, <1>5 DEF Held, Lead

\* Before the application talks, the server is not connected, or has been by the exit.
LEMMA NotTalking ==
    ASSUME ShapeInv, app # "talk"
    PROVE  sent["app"] = 0 /\ got["app"] = <<>>
  BY DEF ShapeInv, Shape, AppShape

LEMMA NotConnected ==
    ASSUME ShapeInv, ~Connected
    PROVE  sent["srv"] = 0 /\ got["srv"] = <<>>
  BY DEF ShapeInv, Shape, SrvShape


LEMMA FlowRequests ==
    ASSUME FlowInv, Fading, ReadGreeting \/ ReadConnect \/ EndsRequest
    PROVE  Flow' /\ Users' /\ Begins' /\ Ripple
  <1>1. Types /\ Neat /\ AppShape
    BY DEF FlowInv, ShapeInv, Shape, ControlInv
  <1>2. UNCHANGED <<far, app, sent, got, copier>>
    BY DEF ReadGreeting, ReadConnect, EndsRequest, ReadRequestFails, ReadRequestPanics, user
  <1>3. Begins'
    BY <1>2 DEF FlowInv, Begins
  <1>4. CASE ReadGreeting
    <2>1. Moves({Up("app")}, {Down("app")}, <<"method", 0>>, {}, {})
      BY <1>1, <1>4, ClientMoves
    <2>2. /\ Queue(Up("app"))[1][1] # "data" /\ Queue(Down("app")) = <<>>
          /\ <<"method", 0>> \in Item /\ <<"method", 0>>[1] # "data"
      <3>1. Queue(Up("app")) # <<>> /\ First(Up("app"))[1] = "hello" /\ h = "greet"
        BY <1>4 DEF ReadGreeting, Ready
      <3>2. Queue(Up("app"))[1][1] = "hello"
        BY <1>1, <3>1, AppChannels, FirstType DEF Types
      <3>3. Queue(Down("app")) = <<>>
        BY <1>1, <3>1, AppWay DEF AppShape
      <3> QED
        BY <3>2, <3>3, ItemType DEF Tag
    <2> QED
      BY <1>2, <1>3, <2>1, <2>2, AppWay, FlowMovesOne
  <1>5. CASE ReadConnect
    <2>1. Moves({Up("app")}, {}, Nothing, {}, {})
      BY <1>1, <1>5, ClientMoves
    <2>2. Queue(Up("app"))[1][1] # "data" /\ Nothing \in Item
      <3>1. Queue(Up("app")) # <<>> /\ First(Up("app"))[1] = "connect"
        BY <1>5 DEF ReadConnect, Ready
      <3>2. Queue(Up("app"))[1][1] = "connect"
        BY <1>1, <3>1, AppChannels, FirstType DEF Types
      <3> QED
        BY <3>2, ItemType DEF Tag, Nothing
    <2> QED
      BY <1>2, <1>3, <2>1, <2>2, AppWay, FlowMovesOne
  <1>6. CASE EndsRequest
    <2>1. Closes(appEnd)
      BY <1>1, <1>6, ClientMoves
    <2> QED
      BY <1>2, <1>3, <2>1, FlowRests
  <1> QED
    BY <1>4, <1>5, <1>6

\* A refusal: there is nothing yet on the way to the application.
LEMMA FlowAnswers ==
    ASSUME FlowInv, Fading, UNCHANGED <<far, sent, got, copier>>, app = "code",
           h \in {"direct", "tunnel", "code"}, NEW c \in Nat, NEW ends,
           \/ Moves({}, {Down("app")}, <<"code", c>>, ends, {})
           \/ /\ h = "code" /\ Queue(Down("tun")) # <<>>
              /\ Moves({Down("tun")}, {Down("app")}, <<"code", c>>, ends, {})
    PROVE  Flow' /\ Users' /\ Ripple
  <1> DEFINE item == <<"code", c>>
  <1>1. item \in Item /\ item[1] # "data"
    BY ItemType DEF Tag
  <1>2. \/ Moves({}, {Down("app")}, item, ends, {})
        \/ /\ h = "code" /\ Queue(Down("tun")) # <<>>
           /\ Moves({Down("tun")}, {Down("app")}, item, ends, {})
    OBVIOUS
  <1> HIDE DEF item
  <1>3. Queue(Down("app")) = <<>>
    BY AppWay DEF FlowInv, ShapeInv, Shape, AppShape
  <1>4. CASE Moves({}, {Down("app")}, item, ends, {})
    BY <1>1, <1>3, <1>4, AppWay, FlowMovesOne
  <1>5. CASE /\ h = "code" /\ Queue(Down("tun")) # <<>>
             /\ Moves({Down("tun")}, {Down("app")}, item, ends, {})
    <2>1. Queue(Down("tun"))[1][1] # "data"
      <3>1. TunDown # <<>>
        BY <1>5, AppWay
      <3>2. TunDown[1][1] = "code"
        BY <1>5, <3>1 DEF FlowInv, ShapeInv, Shape, TunShape, Says
      <3> QED
        BY <3>2, AppWay
    <2> QED
      BY <1>1, <1>3, <1>5, <2>1, AppWay, FlowMovesOne
  <1> QED
    BY <1>2, <1>4, <1>5


LEMMA FlowNames ==
    ASSUME FlowInv, Fading, NameKnown \/ NameUnknown \/ ResolveForClient
    PROVE  Flow' /\ Users' /\ Begins' /\ Ripple
  <1>1. Types /\ Neat
    BY DEF FlowInv, ShapeInv, Shape, ControlInv
  <1>2. UNCHANGED <<far, app, sent, got, copier>>
    BY DEF NameKnown, NameUnknown, ResolveForClient, deciding, exiting, client, user
  <1>3. Begins'
    BY <1>2 DEF FlowInv, Begins
  <1>4. PICK tk \in {{}, {Up("dns")}, {Down("dns")}}, pt \in {{}, {Down("dns")}},
             item \in Item, ends \in {{<<"dns", "left">>}, {}, tunEnd("dns")} :
          Moves(tk, pt, item, ends, {})
    <2>1. Nothing \in Item /\ <<"addrs", 0>> \in Item
      BY ItemType DEF Tag, Nothing
    <2>2. CASE NameKnown
      <3>1. Moves({Down("dns")}, {}, Nothing, {}, {})
        BY <1>1, <2>2, ClientMoves
      <3> QED
        BY <2>1, <3>1
    <2>3. CASE NameUnknown
      <3>1. Moves({}, {}, Nothing, {<<"dns", "left">>}, {})
        BY <1>1, <2>3, ClientMoves
      <3> QED
        BY <2>1, <3>1
    <2>4. CASE ResolveForClient
      <3>1. \/ Moves({Up("dns")}, {Down("dns")}, <<"addrs", 0>>, tunEnd("dns"), {})
            \/ Moves({Up("dns")}, {}, Nothing, tunEnd("dns"), {})
        BY <1>1, <2>4, ExitMoves
      <3> QED
        BY <2>1, <3>1
    <2> QED
      BY <2>2, <2>3, <2>4
  <1>5. \A ch \in Way : ch \notin tk /\ ch \notin pt
    BY WayNames
  <1> QED
    BY <1>2, <1>3, <1>4, <1>5, FlowMoves

\* Before the loops of either side run, and before the exit has connected
LEMMA Idles ==
    ASSUME FlowInv, h \in {"direct", "tunnel"} \/ x["tun"] = "dial"
    PROVE  /\ \A k \in Copier : copier[k].pc = "off"
           /\ \A u \in User : sent[u] = 0 /\ got[u] = <<>>
  <1>1. Types /\ Control /\ AppShape /\ TunShape
    BY DEF FlowInv, ShapeInv, Shape, ControlInv
  <1>2. h # "copy" /\ ~Connected
    BY <1>1 DEF Control, TunShape, Connected
  <1>3. \A k \in Copier : copier[k].pc = "off"
    BY <1>1, <1>2 DEF Control, Copier, Connected
  <1>4. app # "talk"
    BY <1>1, <1>2 DEF AppShape
  <1>5. \A u \in User : sent[u] = 0 /\ got[u] = <<>>
    BY <1>2, <1>4, NotTalking, NotConnected DEF FlowInv, User
  <1> QED
    BY <1>3, <1>5

LEMMA FlowOpens ==
    ASSUME FlowInv, Types', Fading, DialDirect \/ AskExit
    PROVE  Flow' /\ Users' /\ Begins' /\ Ripple
  <1>1. Types /\ copier \in [Copier -> CopierRec]
    BY DEF FlowInv, ShapeInv, ControlInv, Types
  <1>2. UNCHANGED <<app, sent, got>> /\ h \in {"direct", "tunnel"}
    BY DEF DialDirect, AskExit, user
  <1>3. /\ \A k \in Copier : copier[k].pc = "off"
        /\ \A u \in User : sent[u] = 0 /\ got[u] = <<>>
        /\ app = "code" /\ Queue(Down("app")) = <<>>
    <2>1. app = "code" /\ Queue(Down("app")) = <<>>
      BY <1>2, AppWay DEF FlowInv, ShapeInv, Shape, AppShape, Asking
    <2> QED
      BY <1>2, <2>1, Idles
  <1>4. Begins'
    BY <1>2, <1>3 DEF Begins
  <1>5. Yes \in Item /\ Yes[1] # "data" /\ Nothing \in Item
    BY ItemType DEF Tag, Yes, Nothing
  <1>6. CASE DialDirect /\ Opens("srv", <<>>, {Down("app")}, Yes) /\ copier' = RunningBoth("H", "D")
    <2>1. \A k \in Copier : copier[k].pc = "off" /\ copier'[k].pc \in {"off", "read"}
      BY <1>1, <1>3, <1>6, RunningType DEF RunningBoth, CopierRec
    <2>2. \A ch \in Way : ch \in {Down("app")} => Yes[1] # "data" /\ Queue(ch) = <<>>
      BY <1>3, <1>5
    <2>3. <<>> \in Seq(Item) /\ Held(<<>>) = 0
      BY EmptyData
    <2> DEFINE pt == {Down("app")}
    <2>4. Opens("srv", <<>>, pt, Yes) /\ \A ch \in Way : ch \in pt => Yes[1] # "data" /\ Queue(ch) = <<>>
      BY <1>6, <2>2
    <2> HIDE DEF pt
    <2> QED
      BY <1>2, <1>3, <1>4, <1>5, <2>1, <2>3, <2>4, FlowFresh
  <1>7. CASE DialDirect /\ Moves({}, {Down("app")}, <<"code", 3>>, appEnd, {})
              /\ UNCHANGED <<far, addr, copier>>
    <2>1. h = "direct"
      BY <1>7 DEF DialDirect
    <2> QED
      BY <1>2, <1>3, <1>4, <1>7, <2>1, FlowAnswers
  <1>8. CASE AskExit
    <2>1. copier' = copier
      BY <1>8 DEF AskExit
    <2>2. PICK up \in {<<>>, <<<<"dest", 0>>>>} : Opens("tun", up, {}, Nothing)
      BY <1>1, <1>8, AskMoves
    <2>3. up \in Seq(Item) /\ Held(up) = 0
      <3> DEFINE item == <<"dest", 0>>
      <3>1. item \in Item /\ item[1] # "data"
        BY ItemType DEF Tag
      <3>2. up = <<>> \/ up = <<item>>
        OBVIOUS
      <3> HIDE DEF item
      <3>3. <<item>> \in Seq(Item) /\ <<>> \in Seq(Item)
        BY <3>1
      <3>4. Held(<<item>>) = 0
        BY <3>1, SameFirst
      <3> QED
        BY <3>2, <3>3, <3>4, EmptyData
    <2>4. \A k \in Copier : copier[k].pc = "off" /\ copier'[k].pc \in {"off", "read"}
      BY <1>3, <2>1
    <2> DEFINE pt == {}
    <2>5. Opens("tun", up, pt, Nothing) /\ \A ch \in Way : ch \in pt => Nothing[1] # "data" /\ Queue(ch) = <<>>
      BY <2>2
    <2> HIDE DEF pt
    <2>6. Flow' /\ Users' /\ Ripple
      BY <1>2, <1>3, <1>5, <2>3, <2>4, <2>5, FlowFresh
    <2> QED
      BY <1>4, <2>6
  <1> QED
    BY <1>1, <1>6, <1>7, <1>8, DialDirectMoves


LEMMA FlowReadCode ==
    ASSUME FlowInv, Fading, ReadCode
    PROVE  Flow' /\ Users' /\ Begins' /\ Ripple
  <1> DEFINE c == First(Down("tun"))[2]
  <1>1. /\ Types /\ Control /\ Neat /\ AppShape /\ TunShape /\ Users
        /\ copier \in [Copier -> CopierRec]
    BY DEF FlowInv, ShapeInv, Shape, ControlInv, Types
  <1>2. /\ UNCHANGED <<far, app, sent, got>> /\ h = "code" /\ far = "tun" /\ app = "code"
        /\ Queue(Down("tun")) # <<>>
    <2>1. h = "code" /\ UNCHANGED <<far, app, sent, got>> /\ Queue(Down("tun")) # <<>>
      BY DEF ReadCode, Ready, user
    <2> QED
      BY <1>1, <2>1 DEF Control, AppShape, Asking
  <1>3. Begins'
    BY <1>2 DEF Begins
  <1>4. /\ c \in Nat
        /\ \/ copier' = RunningBoth("H", "D") /\ Moves({Down("tun")}, {Down("app")}, Yes, {}, {})
           \/ /\ copier' = copier
              /\ Moves({Down("tun")}, {Down("app")}, <<"code", c>>, bothEnds, {})
    BY <1>1, ReadCodeMoves
  <1> HIDE DEF c
  <1>5. CASE copier' = copier /\ Moves({Down("tun")}, {Down("app")}, <<"code", c>>, bothEnds, {})
    BY <1>2, <1>3, <1>4, <1>5, FlowAnswers
  <1>6. CASE copier' = RunningBoth("H", "D") /\ Moves({Down("tun")}, {Down("app")}, Yes, {}, {})
    <2>1. Queue(Down("app")) = <<>> /\ Queue(Down("tun"))[1][1] # "data"
      <3>1. TunDown # <<>> /\ AppDown = <<>>
        BY <1>1, <1>2, AppWay DEF AppShape
      <3>2. TunDown[1][1] = "code"
        BY <1>1, <1>2, <3>1 DEF TunShape, Says
      <3> QED
        BY <3>1, <3>2, AppWay
    <2>2. Yes \in Item /\ Yes[1] # "data"
      BY ItemType DEF Tag, Yes
    <2>3. Calm /\ Stays /\ Even
      <3>1. \A ch \in Way : ch \in {Down("tun")} => Queue(ch)[1][1] # "data"
        BY <2>1
      <3>2. \A ch \in Way : ch \in {Down("app")} => Yes[1] # "data" /\ Queue(ch) = <<>>
        BY <2>1, <2>2
      <3> HIDE DEF Yes
      <3> QED
        BY <1>1, <1>6, <2>2, <3>1, <3>2, CalmMoves
    <2>4. PICK s \in Starting : FlowFrom(s)
      BY DEF FlowInv, Flow
    <2>5. sent["app"] = 0 /\ got["app"] = <<>> /\ copier["D"].pc = "off"
      BY <1>1, <1>2, NotTalking, Ways DEF FlowInv, Control
    <2>6. /\ copier'["H"].pc = "read" /\ copier'["D"].pc = "read"
          /\ copier'["E"] = copier["E"] /\ copier'["B"] = copier["B"]
      BY <1>1, <1>6, Ways DEF RunningBoth, CopierRec
    <2>7. s[In("H")] = Past(s, OutOf("H"))
      <3>1. In("H") = Up("app") /\ OutOf("H") = Up("tun")
        BY <1>2 DEF In, OutOf
      <3>2. ASSUME NEW ch \in Way, Origin(ch) = "app" PROVE s[ch] = 0 /\ Past(s, ch) = 0
        <4>1. s[ch] \in Nat /\ Held(Queue(ch)) \in Nat /\ Past(s, ch) <= 0
          BY <1>1, <2>4, <2>5, <3>2, WayType DEF FlowFrom, Chains
        <4> QED
          BY <4>1 DEF Past
      <3>3. Origin(Up("app")) = "app" /\ Origin(Up("tun")) = "app"
        BY DEF Origin, Up
      <3> QED
        BY <3>1, <3>2, <3>3, AppWay
    <2>8. s[In("D")] = Past(s, OutOf("D"))
      <3>1. In("D") = Down("tun") /\ OutOf("D") = Down("app")
        BY <1>2 DEF In, OutOf
      <3>2. s[Down("tun")] = 0
        BY <2>4, <2>5 DEF FlowFrom, Starts
      <3>3. s[Down("app")] = 0
        <4>1. Ear("app") = Down("app") /\ Heard("app") = 0
          BY <2>5 DEF Ear, Heard, SawEnd
        <4> QED
          BY <2>4, <4>1, Ways DEF FlowFrom, Hears
      <3> QED
        BY <2>1, <3>1, <3>2, <3>3, EmptyData DEF Past
    <2>9. FlowFrom(s)'
      <3>1. \A u \in User : Heard(u)' = Heard(u)
        BY <1>2 DEF Heard, SawEnd
      <3>2. ASSUME NEW k \in Copier
            PROVE  \/ copier'[k] = copier[k]
                   \/ copier'[k].pc \in {"off", "done"}
                   \/ /\ copier'[k].pc = "read"
                      /\ Arrives(OutOf(k)) => s[In(k)] = Past(s, OutOf(k))
        BY <2>6, <2>7, <2>8 DEF Copier
      <3>3. copier'["D"].pc = "off" => copier["D"].pc = "off"
        BY <2>6
      <3> QED
        BY <1>1, <1>2, <2>3, <2>4, <3>1, <3>2, <3>3, FlowStill
    <2>10. Rests
      <3>1. copier["H"].pc = "off" /\ copier["D"].pc = "off"
        BY <1>1, <1>2, Ways DEF Control
      <3>2. \A k \in Copier : \/ copier'[k] = copier[k]
                              \/ copier[k].pc = "off" /\ copier'[k].pc = "read"
        BY <2>6, <3>1 DEF Copier
      <3>3. UNCHANGED <<far, sent, got>>
        BY <1>2
      <3> QED
        BY <2>3, <3>2, <3>3 DEF Rests
    <2> QED
      BY <1>1, <1>2, <1>3, <2>3, <2>4, <2>9, <2>10, UsersKept DEF Flow, Ripple
  <1> QED
    BY <1>4, <1>5, <1>6

LEMMA FlowClient ==
    ASSUME FlowInv, Types', Fading, Client
    PROVE  Flow' /\ Users' /\ Begins' /\ Ripple
  <1>1. Types /\ AppShape
    BY DEF FlowInv, ShapeInv, Shape, ControlInv
  <1>2. ASSUME UNCHANGED <<far, app>> PROVE Begins'
    BY <1>2 DEF FlowInv, Begins
  <1>3. CASE Filter \/ Search \/ Searched \/ Lookup \/ TimerFires
    <2>1. UNCHANGED <<far, app, sent, got, copier, conn>>
      BY <1>3 DEF Filter, Search, Searched, Lookup, TimerFires, deciding, client, user
    <2> QED
      BY <1>2, <2>1, FlowRests
  <1>4. CASE AskName
    <2>1. UNCHANGED <<far, app, sent, got, copier>>
      BY <1>4 DEF AskName, user
    <2> QED
      BY <1>1, <1>2, <1>4, <2>1, AskMoves, FlowRests
  <1>5. CASE NoTunnel \/ ReadCodeFails
    <2>1. UNCHANGED <<far, app, sent, got, copier>> /\ h \in {"tunnel", "code"}
      BY <1>5 DEF NoTunnel, ReadCodeFails, exit, user
    <2>2. app = "code"
      BY <1>1, <2>1 DEF AppShape, Asking
    <2>3. PICK ends : Moves({}, {Down("app")}, <<"code", 3>>, ends, {})
      BY <1>1, <1>5, ClientMoves
    <2> QED
      BY <1>2, <2>1, <2>2, <2>3, FlowAnswers
  <1> QED
    BY <1>3, <1>4, <1>5, FlowRequests, FlowNames, FlowOpens, FlowReadCode DEF Client, EndsRequest


LEMMA FlowDial ==
    ASSUME FlowInv, Types', Fading, x["tun"] = "dial", UNCHANGED exiting,
           Opens("srv", <<>>, {Down("tun")}, Yes), copier' = RunningBoth("E", "B")
    PROVE  Flow' /\ Users' /\ Begins' /\ Ripple
  <1>1. Types /\ TunShape /\ copier \in [Copier -> CopierRec]
    BY DEF FlowInv, ShapeInv, Shape, ControlInv, Types
  <1>2. UNCHANGED <<far, app, sent, got>>
    BY DEF exiting, client, user
  <1>3. Begins'
    BY <1>2 DEF FlowInv, Begins
  <1>4. Yes \in Item /\ Yes[1] # "data"
    BY ItemType DEF Tag, Yes
  <1>5. Queue(Down("tun")) = <<>>
    BY <1>1, AppWay DEF TunShape
  <1>6. /\ \A k \in Copier : copier[k].pc = "off"
        /\ \A u \in User : sent[u] = 0 /\ got[u] = <<>>
    BY Idles
  <1>7. \A k \in Copier : copier[k].pc = "off" /\ copier'[k].pc \in {"off", "read"}
    BY <1>1, <1>6, RunningType DEF RunningBoth, CopierRec
  <1>8. <<>> \in Seq(Item) /\ Held(<<>>) = 0
    BY EmptyData
  <1> DEFINE pt == {Down("tun")}
  <1>9. Opens("srv", <<>>, pt, Yes) /\ \A ch \in Way : ch \in pt => Yes[1] # "data" /\ Queue(ch) = <<>>
    BY <1>4, <1>5
  <1> HIDE DEF pt
  <1>10. Flow' /\ Users' /\ Ripple
    BY <1>2, <1>4, <1>6, <1>7, <1>8, <1>9, FlowFresh
  <1> QED
    BY <1>3, <1>10

LEMMA FlowExit ==
    ASSUME FlowInv, Types', Fading, Exit
    PROVE  Flow' /\ Users' /\ Begins' /\ Ripple
  <1>1. Types /\ Control /\ AppShape /\ TunShape
    BY DEF FlowInv, ShapeInv, Shape, ControlInv
  <1>2. UNCHANGED <<far, app, sent, got>>
    <2>1. UNCHANGED exiting
      BY DEF Exit, ResolveForClient, ReadAddr, ReadAddrFails, Resolve, Dial, ExitRefuses
    <2> QED
      BY <2>1 DEF exiting, client, user
  <1>3. Begins'
    BY <1>2 DEF FlowInv, Begins
  <1>4. CASE ReadAddr
    <2>1. copier' = copier /\ x["tun"] = "addr" /\ Queue(Up("tun")) # <<>>
      BY <1>4 DEF ReadAddr, Ready
    <2>2. app # "talk"
      BY <1>1, <2>1 DEF Control, AppShape, TunShape
    <2>3. sent["app"] = 0 /\ Origin(Up("tun")) = "app"
      BY <2>2, NotTalking DEF FlowInv, Origin, Up
    <2>4. Queue(Up("tun"))[1][1] # "data"
      BY <2>1, <2>3, AppWay, NoData
    <2>5. Moves({Up("tun")}, {}, Nothing, {}, {}) /\ Nothing \in Item
      BY <1>1, <1>4, ExitMoves, ItemType DEF Tag, Nothing
    <2> QED
      BY <1>2, <1>3, <2>1, <2>4, <2>5, AppWay, FlowMovesOne
  <1>5. ASSUME NEW t \in Tunnel, ReadAddrFails(t) PROVE Flow' /\ Users' /\ Ripple
    <2>1. copier' = copier
      BY <1>5 DEF ReadAddrFails
    <2>2. Moves({}, {}, Nothing, tunEnd(t), {}) /\ Nothing \in Item
      BY <1>1, <1>5, ExitMoves, ItemType DEF Tag, Nothing
    <2> QED
      BY <1>2, <2>1, <2>2, FlowMoves
  <1>6. ASSUME NEW c \in Nat, ExitRefuses(c), x["tun"] \in {"resolve", "dial"}
        PROVE  Flow' /\ Users' /\ Ripple
    <2>1. copier' = copier
      BY <1>6 DEF ExitRefuses
    <2> DEFINE item == <<"code", c>>
    <2>2. Moves({}, {Down("tun")}, item, tunEnd("tun"), {})
      BY <1>1, <1>6, ExitMoves
    <2>3. item \in Item /\ item[1] # "data"
      BY ItemType DEF Tag
    <2>4. Queue(Down("tun")) = <<>>
      BY <1>1, <1>6, AppWay DEF TunShape
    <2> HIDE DEF item
    <2> QED
      BY <1>2, <2>1, <2>2, <2>3, <2>4, AppWay, FlowMovesOne
  <1>7. CASE Resolve
    <2>1. x["tun"] = "resolve"
          /\ (ExitRefuses(4) \/ ExitRefuses(2) \/ UNCHANGED <<conn, copier>>)
      BY <1>7 DEF Resolve
    <2> QED
      BY <1>2, <1>3, <1>6, <2>1, FlowRests
  <1>8. CASE Dial
    <2>1. x["tun"] = "dial"
      BY <1>8 DEF Dial
    <2>2. \/ ExitRefuses(5)
          \/ /\ Opens("srv", <<>>, {Down("tun")}, Yes)
             /\ copier' = RunningBoth("E", "B") /\ UNCHANGED exiting
      BY <1>1, <1>8, DialMoves
    <2> QED
      BY <1>3, <1>6, <2>1, <2>2, FlowDial
  <1> QED
    BY <1>3, <1>4, <1>5, <1>7, <1>8, FlowNames DEF Exit


LEMMA FlowLoop ==
    ASSUME FlowInv, Fading, NEW k \in Copier, Loops(k)
    PROVE  Flow' /\ Users' /\ Begins'
  <1>1. Types /\ Control /\ Neat /\ Users /\ ShapeInv /\ copier \in [Copier -> CopierRec]
    BY DEF FlowInv, ShapeInv, Shape, ControlInv, Types
  <1>2. UNCHANGED <<far, app, sent, got>>
    BY DEF Loops, client, user
  <1>3. Begins'
    BY <1>2 DEF FlowInv, Begins
  <1>4. PICK s \in Starting : FlowFrom(s)
    BY DEF FlowInv, Flow
  <1>5. CASE LoopReads(k)
    <2>1. Stays
      BY <1>5, MovesStays DEF LoopReads
    <2>2. Users'
      BY <1>1, <1>2, <2>1, UsersKept
    <2> QED
      BY <1>1, <1>2, <1>3, <1>4, <1>5, <2>2, FlowReads
  <1>6. CASE LoopWrites(k)
    <2>1. Stays
      BY <1>6, MovesStays DEF LoopWrites
    <2>2. Users'
      BY <1>1, <1>2, <2>1, UsersKept
    <2>3. FlowFrom(s)'
      BY <1>1, <1>2, <1>4, <1>6, FlowWrites
    <2> QED
      BY <1>3, <1>4, <2>2, <2>3 DEF Flow
  <1>7. CASE LoopLoses(k)
    <2>1. /\ copier[k].pc = "write" /\ ~Arrives(OutOf(k)) /\ conn' = conn
          /\ copier' = [copier EXCEPT ![k] = [pc |-> "read", piece |-> 0]]
      BY <1>7 DEF LoopLoses
    <2>2. Calm /\ Stays
      BY <1>1, <2>1, CalmStill
    <2>3. \A j \in Copier : \/ copier'[j] = copier[j]
                            \/ copier'[j].pc = "done"
                            \/ copier'[j].pc = "read" /\ ~Arrives(OutOf(j)) /\ Runs(j)
      BY <1>1, <2>1 DEF Runs
    <2> QED
      BY <1>2, <1>3, <2>2, <2>3, FlowCalm
  <1>8. CASE LoopStops(k)
    <2>1. /\ Closes(Ends(k))
          /\ copier' = [copier EXCEPT ![k] = [pc |-> "done", piece |-> 0]]
      BY <1>8 DEF LoopStops
    <2>2. Calm /\ Stays
      BY <1>1, <2>1, CalmCloses
    <2>3. \A j \in Copier : copier'[j] = copier[j] \/ copier'[j].pc = "done"
      BY <1>1, <2>1
    <2> QED
      BY <1>2, <1>3, <2>2, <2>3, FlowCalm
  <1> QED
    BY <1>5, <1>6, <1>7, <1>8 DEF Loops

LEMMA FlowAsks ==
    ASSUME FlowInv, Fading, Greet \/ Request \/ Answered
    PROVE  Flow' /\ Users' /\ Begins' /\ Ripple
  <1>1. Types /\ Control /\ AppShape
    BY DEF FlowInv, ShapeInv, Shape, ControlInv
  <1>2. UNCHANGED <<far, sent, got, copier>>
    BY DEF Greet, Request, Answered, client
  <1>3. CASE Greet
    <2>1. app = "greet" /\ app' = "method"
      BY <1>3 DEF Greet
    <2>2. PICK t \in {"hello", "junk", "long"} : Moves({}, {Up("app")}, <<t, 0>>, {}, {})
      BY <1>1, <1>3, UserMoves
    <2> DEFINE item == <<t, 0>>
    <2>3. item \in Item /\ item[1] # "data" /\ Moves({}, {Up("app")}, item, {}, {})
      BY <2>2, ItemType DEF Tag
    <2> HIDE DEF item
    <2>4. Queue(Up("app")) = <<>>
      BY <1>1, <2>1, AppWay DEF AppShape
    <2>5. Flow' /\ Users' /\ Ripple
      BY <1>2, <2>3, <2>4, AppWay, FlowMovesOne
    <2> QED
      BY <1>2, <2>1, <2>5 DEF FlowInv, Begins
  <1>4. CASE Request
    <2>1. app = "method" /\ app' = "code" /\ Queue(Down("app")) # <<>>
      BY <1>4 DEF Request, Ready
    <2>2. PICK t \in {"connect", "junk", "long"} : Moves({Down("app")}, {Up("app")}, <<t, 0>>, {}, {})
      BY <1>1, <1>4, UserMoves
    <2> DEFINE item == <<t, 0>>
    <2>3. item \in Item /\ item[1] # "data" /\ Moves({Down("app")}, {Up("app")}, item, {}, {})
      BY <2>2, ItemType DEF Tag
    <2> HIDE DEF item
    <2>4. Queue(Up("app")) = <<>>
      <3>1. AppDown # <<>>
        BY <2>1, AppWay
      <3>2. AppUp = <<>>
        BY <1>1, <2>1, <3>1 DEF AppShape
      <3> QED
        BY <3>2, AppWay
    <2>5. Queue(Down("app"))[1][1] # "data"
      <3>1. ~Connected
        BY <1>1, <2>1 DEF FlowInv, Begins, Control, Connected
      <3>2. sent["srv"] = 0 /\ Origin(Down("app")) = "srv"
        BY <3>1, NotConnected DEF FlowInv, Origin, Down
      <3> QED
        BY <2>1, <3>2, AppWay, NoData
    <2>6. Flow' /\ Users' /\ Ripple
      BY <1>2, <2>3, <2>4, <2>5, AppWay, FlowMovesOne
    <2> QED
      BY <2>1, <2>6 DEF Begins
  <1>5. CASE Answered
    <2>1. app = "code" /\ app' \in {"talk", "told"} /\ Queue(Down("app")) # <<>>
      BY <1>5 DEF Answered, Ready
    <2>2. Moves({Down("app")}, {}, Nothing, {}, {}) /\ Nothing \in Item
      BY <1>1, <1>5, UserMoves, ItemType DEF Tag, Nothing
    <2>3. Queue(Down("app"))[1][1] # "data"
      <3>1. AppDown # <<>>
        BY <2>1, AppWay
      <3>2. AppDown[1][1] = "code"
        BY <1>1, <2>1, <3>1 DEF AppShape, Says
      <3> QED
        BY <3>2, AppWay
    <2>4. Flow' /\ Users' /\ Ripple
      BY <1>2, <2>2, <2>3, AppWay, FlowMovesOne
    <2> QED
      BY <2>1, <2>4 DEF Begins
  <1> QED
    BY <1>3, <1>4, <1>5


\* A user reads the end where nothing follows.
LEMMA FlowReadEnd ==
    ASSUME FlowInv, Fading, NEW u \in User, ReadEnd(u)
    PROVE  /\ Flow' /\ Users'
           /\ Queue(Ear(u)) = <<>> /\ ~conn[u][Writer(Ear(u))]
           /\ \A v \in User : Heard(v)' = Heard(v) /\ (v # u => SawEnd(v)' = SawEnd(v))
  <1>1. Types /\ Control /\ Neat /\ Users
    BY DEF FlowInv, ShapeInv, Shape, ControlInv
  <1>2. /\ ~SawEnd(u) /\ got' = [got EXCEPT ![u] = Append(@, 0)] /\ conn' = conn
        /\ UNCHANGED <<far, sent, copier>>
    BY DEF ReadEnd, talkOnly, client
  <1>3. got[u] \in Seq(Nat)
    BY <1>1 DEF Types
  <1>4. got'[u] = Append(got[u], 0) /\ \A v \in User : v # u => got'[v] = got[v]
    BY <1>1, <1>2 DEF Types
  <1>5. /\ got'[u] # <<>> /\ Len(got'[u]) = Len(got[u]) + 1 /\ got'[u][Len(got'[u])] = 0
        /\ Len(got[u]) \in Nat /\ \A k \in 1..Len(got[u]) : got'[u][k] = got[u][k]
    BY <1>3, <1>4, ReadMore
  <1>6. SawEnd(u)' /\ Heard(u)' = Heard(u)
    <2>1. SawEnd(u)'
      BY <1>5 DEF SawEnd
    <2> QED
      BY <1>2, <1>5, <2>1 DEF Heard
  <1>7. Calm /\ Stays
    BY <1>1, <1>2, CalmStill
  <1>8. Queue(Ear(u)) = <<>> /\ ~conn[u][Writer(Ear(u))]
    <2>1. /\ Ear(u)[1] = u /\ Writer(Mouth(u)) = Reader(Ear(u)) /\ u \notin Tunnel
      BY Ways DEF User, Tunnel
    <2>2. conn[u][Reader(Ear(u))] /\ Ended(Ear(u))
      BY <2>1 DEF ReadEnd, Talking
    <2>3. \A v \in hushed : Ear(u) # Mouth(v)
      BY <1>1, EarNoMouth DEF Types
    <2> QED
      BY <2>1, <2>2, <2>3 DEF Ended, Usable
  <1>9. Users'
    <2>1. ASSUME NEW v \in User PROVE Heads(v)' /\ Finished(v)'
      <3>1. Heads(v) /\ Finished(v)
        BY <1>1 DEF Users
      <3>2. CASE v # u
        <4>1. Ear(v) \in Way /\ Ear(v)[1] = v
          BY WayNames, Ways
        <4>2. Heads(v)' /\ SawEnd(v)' = SawEnd(v)
          BY <1>4, <3>1, <3>2 DEF Heads, SawEnd
        <4> QED
          BY <1>7, <3>1, <4>1, <4>2 DEF Finished, Stays
      <3>3. CASE v = u
        <4>1. Heads(u)'
          <5>1. ASSUME NEW k \in 1..Len(got'[u])
                PROVE  got'[u][k] = k \/ (k = Len(got'[u]) /\ got'[u][k] = 0)
            <6>1. CASE k \in 1..Len(got[u])
              <7>1. got[u][k] = k \/ (k = Len(got[u]) /\ got[u][k] = 0)
                BY <3>1, <3>3, <6>1 DEF Heads
              <7>2. ~(k = Len(got[u]) /\ got[u][k] = 0)
                BY <1>2, <6>1 DEF SawEnd
              <7> QED
                BY <1>5, <6>1, <7>1, <7>2
            <6>2. CASE k = Len(got'[u])
              BY <1>5, <6>2
            <6> QED
              BY <1>5, <6>1, <6>2
          <5> QED
            BY <5>1 DEF Heads
        <4>2. Finished(u)'
          <5>1. Queue(Ear(u))' = <<>> /\ ~conn'[u][Writer(Ear(u))]
            BY <1>2, <1>8 DEF Queue
          <5> QED
            BY <5>1 DEF Finished
        <4> QED
          BY <3>3, <4>1, <4>2
      <3> QED
        BY <3>2, <3>3
    <2> QED
      BY <2>1 DEF Users
  <1>10. \A v \in User : Heard(v)' = Heard(v) /\ (v # u => SawEnd(v)' = SawEnd(v))
    <2>1. ASSUME NEW v \in User, v # u PROVE Heard(v)' = Heard(v) /\ SawEnd(v)' = SawEnd(v)
      BY <1>4, <2>1 DEF Heard, SawEnd
    <2> QED
      BY <1>6, <2>1
  <1>11. Flow'
    <2>1. PICK s \in Starting : FlowFrom(s)
      BY DEF FlowInv, Flow
    <2>2. FlowFrom(s)'
      BY <1>1, <1>2, <1>7, <1>10, <2>1, FlowStill
    <2> QED
      BY <2>1, <2>2 DEF Flow
  <1> QED
    BY <1>8, <1>9, <1>10, <1>11

LEMMA FlowUse ==
    ASSUME FlowInv, Fading, Uses
    PROVE  Flow' /\ Users' /\ Begins'
  <1>1. Types /\ Control /\ Neat /\ Users /\ ShapeInv
    BY DEF FlowInv, ShapeInv, Shape, ControlInv
  <1>2. PICK s \in Starting : FlowFrom(s)
    BY DEF FlowInv, Flow
  <1>3. ASSUME UNCHANGED <<far, app>> PROVE Begins'
    BY <1>3 DEF FlowInv, Begins
  <1>4. ASSUME NEW u \in User, Write(u) PROVE Flow' /\ Users' /\ Begins'
    <2>1. UNCHANGED <<far, app, got>> /\ Stays
      <3>1. Stays
        BY <1>1, <1>4, UserMoves, MovesStays
      <3> QED
        BY <1>4, <3>1 DEF Write, talkOnly, client
    <2>2. FlowFrom(s)'
      BY <1>1, <1>2, <1>4, FlowWrite
    <2>3. Users'
      BY <1>1, <2>1, UsersKept
    <2> QED
      BY <1>2, <1>3, <2>1, <2>2, <2>3 DEF Flow
  <1>5. ASSUME NEW u \in User, Read(u) PROVE Flow' /\ Users' /\ Begins'
    <2>1. UNCHANGED <<far, app>> /\ Stays
      <3>1. Stays
        BY <1>1, <1>5, UserMoves, MovesStays
      <3> QED
        BY <1>5, <3>1 DEF Read, talkOnly, client
    <2>2. Flow' /\ Heads(u)' /\ ~SawEnd(u)'
      BY <1>1, <1>2, <1>5, FlowRead
    <2>3. ASSUME NEW v \in User PROVE Heads(v)' /\ Finished(v)'
      <3>1. CASE v = u
        BY <2>2, <3>1 DEF Finished
      <3>2. CASE v # u
        <4>1. got'[v] = got[v]
          BY <1>1, <1>5, <3>2 DEF Read, Types
        <4>2. Heads(v) /\ Finished(v) /\ Ear(v) \in Way /\ Ear(v)[1] = v
          BY <1>1, WayNames, Ways DEF Users
        <4>3. Heads(v)' /\ SawEnd(v)' = SawEnd(v)
          BY <4>1, <4>2 DEF Heads, SawEnd
        <4> QED
          BY <2>1, <4>2, <4>3 DEF Finished, Stays
      <3> QED
        BY <3>1, <3>2
    <2> QED
      BY <1>3, <2>1, <2>2, <2>3 DEF Users
  <1>6. ASSUME NEW u \in User, Leave(u) PROVE Flow' /\ Users' /\ Begins'
    <2>1. UNCHANGED <<far, app, sent, got, copier>>
      BY <1>6 DEF Leave, talkOnly, client
    <2>2. \E ends : Closes(ends)
      BY <1>1, <1>6, UserMoves
    <2> QED
      BY <1>3, <2>1, <2>2, FlowRests
  <1>7. ASSUME NEW u \in User, ReadEnd(u) PROVE Begins'
    BY <1>3, <1>7 DEF ReadEnd, talkOnly, client
  <1> QED
    BY <1>4, <1>5, <1>6, <1>7, FlowAsks, FlowReadEnd DEF Uses

LEMMA FlowBreak ==
    ASSUME FlowInv, Fading, Breaks \/ UNCHANGED vars
    PROVE  Flow' /\ Users' /\ Begins' /\ Ripple
  <1>1. UNCHANGED <<conn, client, copier, app, sent, got>>
    BY DEF Breaks, WireBreaks, Killed, Notice, HalfClose, vars, user
  <1>2. UNCHANGED <<conn, far, app, sent, got, copier>>
    BY <1>1 DEF client
  <1> QED
    BY <1>2, FlowRests DEF FlowInv, Begins

LEMMA FlowInit == Init => Flow /\ Users /\ Begins
  <1> SUFFICES ASSUME Init PROVE Flow /\ Users /\ Begins
    OBVIOUS
  <1> DEFINE s == [ch \in Way |-> 0]
  <1>1. s \in Starting /\ \A ch \in Way : s[ch] = 0
    BY DEF Starting
  <1> HIDE DEF s
  <1>2. \A ch \in Way : Queue(ch) = <<>>
    <2>1. ASSUME NEW c \in Conn PROVE conn[c].up = <<>> /\ conn[c].down = <<>>
      BY NewConnIs, OpenConnIs DEF Init
    <2>2. ASSUME NEW ch \in Way PROVE Queue(ch) = <<>>
      <3>1. ch[1] \in Conn /\ (ch[2] = "up" \/ ch[2] = "down")
        BY WayNames, Names DEF Dir
      <3> QED
        BY <2>1, <3>1 DEF Queue
    <2> QED
      BY <2>2
  <1>3. /\ \A k \in Copier : copier[k].pc = "off"
        /\ \A u \in User : sent[u] = 0 /\ got[u] = <<>>
        /\ far = "app"
    BY DEF Init
  <1>4. \A ch \in Way : Past(s, ch) = 0 /\ Chain(Queue(ch), s[ch])
    BY <1>1, <1>2, EmptyData DEF Past
  <1>5. Chains(s)
    BY <1>3, <1>4, WayNames DEF Chains
  <1>6. Hears(s)
    BY <1>1, <1>3, WayNames DEF Hears, Heard, SawEnd
  <1>7. Links(s)
    BY <1>3 DEF Links, Runs
  <1>8. Speaks(s)
    BY <1>3, <1>4, WayNames DEF Speaks
  <1>9. Starts(s)
    BY <1>1, WayNames DEF Starts
  <1>10. Users
    BY <1>3 DEF Users, Heads, Finished, SawEnd
  <1> QED
    BY <1>1, <1>3, <1>5, <1>6, <1>7, <1>8, <1>9, <1>10 DEF FlowFrom, Flow, Begins

LEMMA FlowStep ==
    ASSUME FlowInv, [Next]_vars
    PROVE  FlowInv'
  <1>1. ShapeInv /\ ControlInv /\ Types
    BY DEF FlowInv, ShapeInv, ControlInv
  <1>2. ShapeInv'
    BY <1>1, ShapeStep
  <1>3. Types' /\ Fading
    BY <1>1, TypesStep, FadingStep
  <1>4. Flow' /\ Users' /\ Begins'
    BY <1>1, <1>3, NextCases, FlowClient, FlowExit, FlowLoop, FlowUse, FlowBreak
  <1> QED
    BY <1>2, <1>4 DEF FlowInv

\* At any time there is a start for each channel from which its pieces run on
\* without a gap, and what is read, carried and written fits to those starts.
THEOREM FlowSafe == Spec => []FlowInv
  <1>1. Init => FlowInv
    BY TypesInit, ControlInit, ShapeInit, FlowInit DEF FlowInv, ShapeInv, ControlInv
  <1>2. FlowInv /\ [Next]_vars => FlowInv'
    BY FlowStep
  <1> QED
    BY <1>1, <1>2, PTL DEF Spec

\* Each user reads what the other has written, in order and without a gap, through
\* two or four loops, and nothing else.
THEOREM ProxyFaithful == Spec => []Faithful
  <1>1. FlowInv => Faithful
    <2> SUFFICES ASSUME FlowInv, NEW u \in User, NEW k \in DOMAIN got[u], got[u][k] # 0
                 PROVE  got[u][k] = k /\ k <= sent[Other(u)]
      BY DEF Faithful
    <2>1. Types /\ Neat
      BY DEF FlowInv, ShapeInv, Shape, ControlInv
    <2>2. got[u] \in Seq(Nat) /\ k \in 1..Len(got[u]) /\ Len(got[u]) \in Nat
      BY <2>1 DEF Types
    <2>3. got[u][k] = k
      BY <2>2 DEF FlowInv, Users, Heads
    <2>4. k <= Heard(u) /\ Heard(u) \in Int
      BY <2>2 DEF Heard, SawEnd
    <2>5. PICK s \in Starting : FlowFrom(s)
      BY DEF FlowInv, Flow
    <2>6. /\ s[Ear(u)] = Heard(u) /\ Past(s, Ear(u)) <= sent[Other(u)]
          /\ Past(s, Ear(u)) = s[Ear(u)] + Held(Queue(Ear(u)))
      BY <2>5, WayNames DEF FlowFrom, Hears, Chains, Past
    <2>7. Held(Queue(Ear(u))) \in Nat /\ s[Ear(u)] \in Nat /\ sent[Other(u)] \in Nat
      BY <2>1, WayType, WayNames DEF Types, Other, User
    <2> QED
      BY <2>2, <2>3, <2>4, <2>6, <2>7
  <1> QED
    BY <1>1, FlowSafe, PTL

-----------------------------------------------------------------------------
(* No end without a cause *)

\* Pieces in a channel of the way that the request goes; those that have yet to
\* be written by a loop, and by the last loop or read by the other user
Load(ch) == IF ch[1] = "tun" /\ far # "tun" THEN 0 ELSE Held(Queue(ch))
Before(k) ==
    CASE k = "H" -> Load(Up("app")) + Hand("H")
      [] k = "E" -> Load(Up("app")) + Hand("H") + Load(Up("tun")) + Hand("E")
      [] k = "B" -> Load(Down("srv")) + Hand("B")
      [] k = "D" -> Load(Down("srv")) + Hand("B") + Load(Down("tun")) + Hand("D")
Afoot(u) == IF u = "app" THEN Before("E") + Load(Up("srv"))
            ELSE Before("D") + Load(Down("app"))

\* A user who says no more, or to whom doSocks does not listen any more
Silent(u) == ~conn[u][Writer(Mouth(u))] \/ (u = "app" /\ h = "over")
Mute(u) == Silent(u) \/ u \in hushed
Speaker(k) == IF k \in {"H", "E"} THEN "app" ELSE "srv"
\* The two loops of one program, which close the same ends
Hop(k) == IF k \in {"H", "D"} THEN {"H", "D"} ELSE {"E", "B"}
Drained(k) == Mute(Speaker(k)) /\ Before(k) = 0
Stopped(k) == \E j \in Hop(k) : copier[j].pc = "done"

\* As long as there is no cause for it, no piece is lost on its way to a user
\* who has not left; a loop has stopped only if it or the other one of its
\* program had nothing more to copy; and a user who sees the end has read all.
Alive == wire /\ ~dead["right"] /\ (dead["left"] => h = "over")
Kept == \A u \in User : Mute(Other(u)) \/ sent[u] = Afoot(u) + Heard(Other(u))
Hops == \A k \in Copier : copier[k].pc = "done" => \E j \in Hop(k) : Drained(j)
Whole == \A u \in User :
    SawEnd(u) => u \in hushed \/ (Mute(Other(u)) /\ Heard(u) = sent[Other(u)])
Clean == causes = {} => Alive /\ Kept /\ Hops /\ Whole

\* The programs close no end of theirs as long as their loops run.
Doors ==
    /\ h # "over" /\ ~Stopped("H") => conn["app"].right
    /\ far = "tun" /\ h # "over" /\ ~Stopped("H") => conn["tun"].left
    /\ far = "srv" /\ ~Stopped("H") => conn["srv"].left
    /\ x["tun"] \notin {"off", "over"} /\ ~Stopped("E") => conn["tun"].right
    /\ x["tun"] = "copy" /\ ~Stopped("E") => conn["srv"].left
CauseInv == FlowInv /\ Doors /\ Clean

LEMMA Sums ==
    /\ Before("H") = Load(Up("app")) + Hand("H")
    /\ Before("E") = Load(Up("app")) + Hand("H") + Load(Up("tun")) + Hand("E")
    /\ Before("B") = Load(Down("srv")) + Hand("B")
    /\ Before("D") = Load(Down("srv")) + Hand("B") + Load(Down("tun")) + Hand("D")
    /\ Afoot("app") = Before("E") + Load(Up("srv"))
    /\ Afoot("srv") = Before("D") + Load(Down("app"))
  BY DEF Before, Afoot

LEMMA SumsNext ==
    /\ Before("H")' = Load(Up("app"))' + Hand("H")'
    /\ Before("E")' = Load(Up("app"))' + Hand("H")' + Load(Up("tun"))' + Hand("E")'
    /\ Before("B")' = Load(Down("srv"))' + Hand("B")'
    /\ Before("D")' = Load(Down("srv"))' + Hand("B")' + Load(Down("tun"))' + Hand("D")'
    /\ Afoot("app")' = Before("E")' + Load(Up("srv"))'
    /\ Afoot("srv")' = Before("D")' + Load(Down("app"))'
  BY DEF Before, Afoot

LEMMA Counts ==
    ASSUME FlowInv
    PROVE  /\ \A ch \in Way : Load(ch) \in Nat
           /\ \A k \in Copier : Hand(k) \in {0, 1} /\ Before(k) \in Nat
           /\ \A u \in User : sent[u] \in Nat /\ Heard(u) \in Nat /\ Afoot(u) \in Nat
  <1>1. Types /\ Neat
    BY DEF FlowInv, ShapeInv, Shape, ControlInv
  <1>2. PICK s \in Starting : FlowFrom(s)
    BY DEF FlowInv, Flow
  <1>3. ASSUME NEW ch \in Way PROVE Load(ch) \in Nat
    <2>1. Held(Queue(ch)) \in Nat
      BY <1>1, <1>2, WayType
    <2> QED
      BY <2>1 DEF Load
  <1>4. \A k \in Copier : Hand(k) \in {0, 1}
    BY DEF Hand
  <1>5. ASSUME NEW u \in User PROVE sent[u] \in Nat /\ Heard(u) \in Nat
    <2>1. s[Ear(u)] \in Nat /\ s[Ear(u)] = Heard(u)
      BY <1>2, WayNames DEF FlowFrom, Hears, Starting
    <2> QED
      BY <1>1, <2>1 DEF Types
  <1>6. /\ Load(Up("app")) \in Nat /\ Load(Up("tun")) \in Nat /\ Load(Up("srv")) \in Nat
        /\ Load(Down("app")) \in Nat /\ Load(Down("tun")) \in Nat /\ Load(Down("srv")) \in Nat
        /\ Hand("H") \in Nat /\ Hand("D") \in Nat /\ Hand("E") \in Nat /\ Hand("B") \in Nat
    BY <1>3, <1>4, AppWay, Ways
  <1>7. /\ Before("H") \in Nat /\ Before("D") \in Nat /\ Before("E") \in Nat /\ Before("B") \in Nat
        /\ Afoot("app") \in Nat /\ Afoot("srv") \in Nat
    BY <1>6, Sums
  <1> QED
    BY <1>3, <1>4, <1>5, <1>7 DEF Copier, User

\* What a step makes of the numbers: before a loop there is less and less once
\* the one who speaks there is mute, and nothing gets lost.
Ebbs == \A k \in Copier : Before(k)' \in Nat /\ (Mute(Speaker(k)) => Before(k)' <= Before(k))
Balanced(u) == sent'[u] + Afoot(u) + Heard(Other(u)) = sent[u] + Afoot(u)' + Heard(Other(u))'

LEMMA CountsRest ==
    ASSUME FlowInv, Rests, causes' = {}
    PROVE  Ebbs /\ \A u \in User : Balanced(u)
  <1>1. \A ch \in Way : Load(ch)' = Load(ch)
    BY DEF Rests, Even, Load
  <1>2. \A k \in Copier : Hand(k)' = Hand(k)
    BY DEF Rests, Hand
  <1>3. \A u \in User : Heard(u)' = Heard(u) /\ sent'[u] = sent[u]
    BY DEF Rests, Heard, SawEnd
  <1>4. \A k \in Copier : Before(k)' = Before(k)
    BY <1>1, <1>2, AppWay, Ways DEF Before
  <1>5. \A u \in User : Afoot(u)' = Afoot(u)
    BY <1>1, <1>4, AppWay, Ways DEF Afoot
  <1>6. \A k \in Copier : Before(k) \in Nat
    BY Counts
  <1>7. Ebbs
    BY <1>4, <1>6 DEF Ebbs
  <1>8. \A u \in User : Other(u) \in User
    BY DEF Other, User
  <1> QED
    BY <1>3, <1>5, <1>7, <1>8 DEF Balanced

LEMMA HeldTakes ==
    ASSUME NEW q \in Seq(Item), NeatQueue(q), Pure(q), q # <<>>
    PROVE  Held(Tail(q)) = Held(q) - 1 /\ Held(q) >= 1
  <1>1. Len(Tail(q)) = Len(q) - 1 /\ Len(q) \in Nat /\ Len(q) >= 1
    OBVIOUS
  <1>2. Pure(Tail(q))
    BY NeatTail
  <1>3. Lead(q) = 0 /\ Lead(Tail(q)) = 0
    BY <1>2 DEF Lead, Pure
  <1> QED
    BY <1>1, <1>3 DEF Held

LEMMA HeldPuts ==
    ASSUME NEW q \in Seq(Item), NEW m \in Nat
    PROVE  Held(Append(q, <<"data", m>>)) = Held(q) + 1
  <1> SUFFICES ASSUME NEW item, item = <<"data", m>> PROVE Held(Append(q, item)) = Held(q) + 1
    OBVIOUS
  <1>1. item \in Item /\ item[1] = "data"
    BY ItemType DEF Tag
  <1> DEFINE r == Append(q, item)
  <1>2. /\ Len(r) = Len(q) + 1 /\ Len(q) \in Nat /\ r # <<>>
        /\ q # <<>> => r[1] = q[1]
        /\ q = <<>> => r[1] = item
    BY <1>1, AppendIs
  <1> HIDE DEF r
  <1>3. Lead(r) = Lead(q)
    BY <1>1, <1>2 DEF Lead
  <1>4. Held(r) = Held(q) + 1
    BY <1>2, <1>3 DEF Held, Lead
  <1> QED
    BY <1>4 DEF r

\* A piece is taken from one channel, or put into one.
LEMMA LoadTakes ==
    ASSUME FlowInv, far' = far, NEW a \in Way, Pure(Queue(a)), Moves({a}, {}, Nothing, {}, {}),
           a[1] = "tun" => far = "tun"
    PROVE  /\ Load(a) >= 1
           /\ \A ch \in Way : Load(ch)' = IF ch = a THEN Load(ch) - 1 ELSE Load(ch)
  <1>1. Types /\ Neat
    BY DEF FlowInv, ShapeInv, Shape, ControlInv
  <1>2. /\ Queue(a) # <<>>
        /\ \A ch \in Way : Queue(ch)' = IF ch = a THEN Tail(Queue(ch)) ELSE Queue(ch)
    BY WayNames DEF Moves, Made, Q, Queue
  <1>3. PICK s \in Starting : FlowFrom(s)
    BY DEF FlowInv, Flow
  <1>4. Queue(a) \in Seq(Item) /\ NeatQueue(Queue(a))
    BY <1>1, <1>3, WayType
  <1>5. Held(Tail(Queue(a))) = Held(Queue(a)) - 1 /\ Held(Queue(a)) >= 1
    BY <1>2, <1>4, HeldTakes
  <1> QED
    BY <1>2, <1>5 DEF Load

LEMMA LoadPuts ==
    ASSUME FlowInv, far' = far, NEW a \in Way, NEW m \in Nat, Arrives(a),
           Moves({}, {a}, <<"data", m>>, {}, {}),
           a[1] = "tun" => far = "tun"
    PROVE  \A ch \in Way : Load(ch)' = IF ch = a THEN Load(ch) + 1 ELSE Load(ch)
  <1>1. Types /\ Neat
    BY DEF FlowInv, ShapeInv, Shape, ControlInv
  <1>2. \A ch \in Way :
          Queue(ch)' = IF ch = a THEN Append(Queue(ch), <<"data", m>>) ELSE Queue(ch)
    BY WayNames DEF Moves, Made, Q, Queue
  <1>3. PICK s \in Starting : FlowFrom(s)
    BY DEF FlowInv, Flow
  <1>4. Queue(a) \in Seq(Item)
    BY <1>1, <1>3, WayType
  <1>5. Held(Append(Queue(a), <<"data", m>>)) = Held(Queue(a)) + 1
    BY <1>4, HeldPuts
  <1> QED
    BY <1>2, <1>5 DEF Load

LEMMA Apart ==
    /\ Up("app") # Up("tun") /\ Up("app") # Up("srv") /\ Up("tun") # Up("srv")
    /\ Down("app") # Down("tun") /\ Down("app") # Down("srv") /\ Down("tun") # Down("srv")
    /\ \A c, d \in {"app", "tun", "srv"} : Up(c) # Down(d)
  BY DEF Up, Down

\* Where the numbers come from: the pieces in the six channels and in four hands
LEMMA Parts ==
    ASSUME FlowInv
    PROVE  /\ Load(Up("app")) \in Nat /\ Load(Up("tun")) \in Nat /\ Load(Up("srv")) \in Nat
           /\ Load(Down("app")) \in Nat /\ Load(Down("tun")) \in Nat /\ Load(Down("srv")) \in Nat
           /\ Hand("H") \in Nat /\ Hand("D") \in Nat /\ Hand("E") \in Nat /\ Hand("B") \in Nat
  BY Counts, AppWay, Ways

LEMMA LoopHands ==
    ASSUME Types, NEW k \in Copier, NEW r \in CopierRec, copier' = [copier EXCEPT ![k] = r]
    PROVE  /\ \A j \in Copier : j # k => Hand(j)' = Hand(j)
           /\ Hand(k)' = IF r.pc = "write" THEN 1 ELSE 0
  BY DEF Types, Hand

LEMMA LoopGoes ==
    ASSUME FlowInv, NEW k \in Copier, copier[k].pc # "off"
    PROVE  /\ In(k) \in Way /\ OutOf(k) \in Way
           /\ In(k)[1] = "tun" => far = "tun"
           /\ OutOf(k)[1] = "tun" => far = "tun"
           /\ k = "H" => In(k) = Up("app") /\ OutOf(k) \in {Up("tun"), Up("srv")}
           /\ k = "D" => In(k) \in {Down("tun"), Down("srv")} /\ OutOf(k) = Down("app")
           /\ k = "E" => In(k) = Up("tun") /\ OutOf(k) = Up("srv")
           /\ k = "B" => In(k) = Down("srv") /\ OutOf(k) = Down("tun")
  <1>1. Types /\ Control /\ TunShape
    BY DEF FlowInv, ShapeInv, Shape, ControlInv
  <1>2. In(k) \in Way /\ OutOf(k) \in Way
    BY <1>1, LoopWay
  <1>3. /\ \/ k = "H" /\ In(k) = Up("app") /\ OutOf(k) = Up(far)
           \/ k = "D" /\ In(k) = Down(far) /\ OutOf(k) = Down("app")
           \/ k = "E" /\ In(k) = Up("tun") /\ OutOf(k) = Up("srv")
           \/ k = "B" /\ In(k) = Down("srv") /\ OutOf(k) = Down("tun")
        /\ k \in {"H", "D"} => far \in {"tun", "srv"}
        /\ k \in {"E", "B"} => x["tun"] = "copy"
    BY <1>1, LoopEnds
  <1>4. x["tun"] = "copy" => far = "tun"
    BY <1>1 DEF Control
  <1>5. (In(k)[1] = "tun" => far = "tun") /\ (OutOf(k)[1] = "tun" => far = "tun")
    BY <1>3, <1>4 DEF Up, Down
  <1> QED
    BY <1>2, <1>3, <1>5

LEMMA CountsEven ==
    ASSUME Before("H")' \in Nat, Before("D")' \in Nat, Before("E")' \in Nat, Before("B")' \in Nat,
           Before("H")' <= Before("H"), Before("D")' <= Before("D"),
           Before("E")' <= Before("E"), Before("B")' <= Before("B"),
           Afoot("app")' = Afoot("app"), Afoot("srv")' = Afoot("srv"),
           sent' = sent, got' = got
    PROVE  Ebbs /\ \A u \in User : Balanced(u)
  <1>1. Ebbs
    BY DEF Ebbs, Copier
  <1>2. \A u \in User : Heard(Other(u))' = Heard(Other(u))
    BY DEF Heard, SawEnd, Other
  <1>3. \A u \in User : Afoot(u)' = Afoot(u)
    BY DEF User
  <1> QED
    BY <1>1, <1>2, <1>3 DEF Balanced

LEMMA CountsReads ==
    ASSUME FlowInv, UNCHANGED <<far, sent, got>>, NEW k \in Copier, LoopReads(k)
    PROVE  Ebbs /\ \A u \in User : Balanced(u)
  <1>1. Types /\ copier[k].pc = "read" /\ ShapeInv
    BY DEF FlowInv, ShapeInv, Shape, ControlInv, LoopReads
  <1> DEFINE r == [pc |-> "write", piece |-> First(In(k))[2]]
  <1>2. r \in CopierRec /\ r.pc = "write" /\ copier' = [copier EXCEPT ![k] = r]
    BY <1>1, LoopChannels, FirstType DEF LoopReads, Types, CopierRec
  <1> HIDE DEF r
  <1>3. Hand(k) = 0 /\ Hand(k)' = 1 /\ \A j \in Copier : j # k => Hand(j)' = Hand(j)
    BY <1>1, <1>2, LoopHands DEF Hand
  <1>4. /\ Load(In(k)) >= 1
        /\ \A ch \in Way : Load(ch)' = IF ch = In(k) THEN Load(ch) - 1 ELSE Load(ch)
    <2> SUFFICES ASSUME NEW a, a = In(k)
                 PROVE  /\ Load(a) >= 1
                        /\ \A ch \in Way : Load(ch)' = IF ch = a THEN Load(ch) - 1 ELSE Load(ch)
      OBVIOUS
    <2>1. a \in Way /\ (a[1] = "tun" => far = "tun") /\ Pure(Queue(a))
      BY <1>1, LoopGoes, LoopPure
    <2>2. Moves({a}, {}, Nothing, {}, {})
      BY DEF LoopReads
    <2> QED
      BY <2>1, <2>2, LoadTakes
  <1>5. /\ Load(Up("app"))' = IF Up("app") = In(k) THEN Load(Up("app")) - 1 ELSE Load(Up("app"))
        /\ Load(Up("tun"))' = IF Up("tun") = In(k) THEN Load(Up("tun")) - 1 ELSE Load(Up("tun"))
        /\ Load(Up("srv"))' = IF Up("srv") = In(k) THEN Load(Up("srv")) - 1 ELSE Load(Up("srv"))
        /\ Load(Down("app"))' = IF Down("app") = In(k) THEN Load(Down("app")) - 1 ELSE Load(Down("app"))
        /\ Load(Down("tun"))' = IF Down("tun") = In(k) THEN Load(Down("tun")) - 1 ELSE Load(Down("tun"))
        /\ Load(Down("srv"))' = IF Down("srv") = In(k) THEN Load(Down("srv")) - 1 ELSE Load(Down("srv"))
    BY <1>4, AppWay
  <1>6. /\ Before("H")' \in Nat /\ Before("D")' \in Nat /\ Before("E")' \in Nat /\ Before("B")' \in Nat
        /\ Before("H")' <= Before("H") /\ Before("D")' <= Before("D")
        /\ Before("E")' <= Before("E") /\ Before("B")' <= Before("B")
        /\ Afoot("app")' = Afoot("app") /\ Afoot("srv")' = Afoot("srv")
    <2>1. \/ k = "H" /\ In(k) = Up("app")
          \/ k = "D" /\ In(k) = Down("tun")
          \/ k = "D" /\ In(k) = Down("srv")
          \/ k = "E" /\ In(k) = Up("tun")
          \/ k = "B" /\ In(k) = Down("srv")
      BY <1>1, LoopGoes DEF Copier
    <2>2. /\ k # "H" => Hand("H")' = Hand("H")
          /\ k # "D" => Hand("D")' = Hand("D")
          /\ k # "E" => Hand("E")' = Hand("E")
          /\ k # "B" => Hand("B")' = Hand("B")
      BY <1>3, Ways
    <2>3. CASE k = "H" /\ In(k) = Up("app")
      BY <1>3, <1>4, <1>5, <2>2, <2>3, Parts, Apart, Sums, SumsNext
    <2>4. CASE k = "D" /\ In(k) = Down("tun")
      BY <1>3, <1>4, <1>5, <2>2, <2>4, Parts, Apart, Sums, SumsNext
    <2>5. CASE k = "D" /\ In(k) = Down("srv")
      BY <1>3, <1>4, <1>5, <2>2, <2>5, Parts, Apart, Sums, SumsNext
    <2>6. CASE k = "E" /\ In(k) = Up("tun")
      BY <1>3, <1>4, <1>5, <2>2, <2>6, Parts, Apart, Sums, SumsNext
    <2>7. CASE k = "B" /\ In(k) = Down("srv")
      BY <1>3, <1>4, <1>5, <2>2, <2>7, Parts, Apart, Sums, SumsNext
    <2> QED
      BY <2>1, <2>3, <2>4, <2>5, <2>6, <2>7
  <1> QED
    BY <1>6, CountsEven

LEMMA CountsWrites ==
    ASSUME FlowInv, UNCHANGED <<far, sent, got>>, NEW k \in Copier, LoopWrites(k)
    PROVE  Ebbs /\ \A u \in User : Balanced(u)
  <1>1. Types /\ copier[k].pc = "write" /\ ShapeInv
    BY DEF FlowInv, ShapeInv, Shape, ControlInv, LoopWrites
  <1> DEFINE r == [pc |-> "read", piece |-> 0]
  <1>2. r \in CopierRec /\ r.pc = "read" /\ copier' = [copier EXCEPT ![k] = r]
    BY DEF LoopWrites, CopierRec
  <1> HIDE DEF r
  <1>3. Hand(k) = 1 /\ Hand(k)' = 0 /\ \A j \in Copier : j # k => Hand(j)' = Hand(j)
    BY <1>1, <1>2, LoopHands DEF Hand
  <1>4. \A ch \in Way : Load(ch)' = IF ch = OutOf(k) THEN Load(ch) + 1 ELSE Load(ch)
    <2> SUFFICES ASSUME NEW a, a = OutOf(k), NEW m, m = copier[k].piece
                 PROVE  \A ch \in Way : Load(ch)' = IF ch = a THEN Load(ch) + 1 ELSE Load(ch)
      OBVIOUS
    <2>1. a \in Way /\ (a[1] = "tun" => far = "tun") /\ m \in Nat
      BY <1>1, LoopGoes DEF Types, CopierRec
    <2>2. Moves({}, {a}, <<"data", m>>, {}, {}) /\ Arrives(a)
      BY DEF LoopWrites
    <2> QED
      BY <2>1, <2>2, LoadPuts
  <1>5. /\ Load(Up("app"))' = IF Up("app") = OutOf(k) THEN Load(Up("app")) + 1 ELSE Load(Up("app"))
        /\ Load(Up("tun"))' = IF Up("tun") = OutOf(k) THEN Load(Up("tun")) + 1 ELSE Load(Up("tun"))
        /\ Load(Up("srv"))' = IF Up("srv") = OutOf(k) THEN Load(Up("srv")) + 1 ELSE Load(Up("srv"))
        /\ Load(Down("app"))' = IF Down("app") = OutOf(k) THEN Load(Down("app")) + 1 ELSE Load(Down("app"))
        /\ Load(Down("tun"))' = IF Down("tun") = OutOf(k) THEN Load(Down("tun")) + 1 ELSE Load(Down("tun"))
        /\ Load(Down("srv"))' = IF Down("srv") = OutOf(k) THEN Load(Down("srv")) + 1 ELSE Load(Down("srv"))
    BY <1>4, AppWay
  <1>6. /\ Before("H")' \in Nat /\ Before("D")' \in Nat /\ Before("E")' \in Nat /\ Before("B")' \in Nat
        /\ Before("H")' <= Before("H") /\ Before("D")' <= Before("D")
        /\ Before("E")' <= Before("E") /\ Before("B")' <= Before("B")
        /\ Afoot("app")' = Afoot("app") /\ Afoot("srv")' = Afoot("srv")
    <2>1. \/ k = "H" /\ OutOf(k) = Up("tun")
          \/ k = "H" /\ OutOf(k) = Up("srv")
          \/ k = "D" /\ OutOf(k) = Down("app")
          \/ k = "E" /\ OutOf(k) = Up("srv")
          \/ k = "B" /\ OutOf(k) = Down("tun")
      BY <1>1, LoopGoes DEF Copier
    <2>2. /\ k # "H" => Hand("H")' = Hand("H")
          /\ k # "D" => Hand("D")' = Hand("D")
          /\ k # "E" => Hand("E")' = Hand("E")
          /\ k # "B" => Hand("B")' = Hand("B")
      BY <1>3, Ways
    <2>3. CASE k = "H" /\ OutOf(k) = Up("tun")
      BY <1>3, <1>5, <2>2, <2>3, Parts, Apart, Sums, SumsNext
    <2>4. CASE k = "H" /\ OutOf(k) = Up("srv")
      BY <1>3, <1>5, <2>2, <2>4, Parts, Apart, Sums, SumsNext
    <2>5. CASE k = "D" /\ OutOf(k) = Down("app")
      BY <1>3, <1>5, <2>2, <2>5, Parts, Apart, Sums, SumsNext
    <2>6. CASE k = "E" /\ OutOf(k) = Up("srv")
      BY <1>3, <1>5, <2>2, <2>6, Parts, Apart, Sums, SumsNext
    <2>7. CASE k = "B" /\ OutOf(k) = Down("tun")
      BY <1>3, <1>5, <2>2, <2>7, Parts, Apart, Sums, SumsNext
    <2> QED
      BY <2>1, <2>3, <2>4, <2>5, <2>6, <2>7
  <1> QED
    BY <1>6, CountsEven

\* What a loop that stops has in its hands is lost, to the one who listens.
LEMMA CountsStops ==
    ASSUME FlowInv, Even, causes' = {}, UNCHANGED <<far, sent, got>>, NEW k \in Copier,
           copier' = [copier EXCEPT ![k] = [pc |-> "done", piece |-> 0]]
    PROVE  Ebbs /\ \A u \in User : Balanced(u) \/ (u = Speaker(k) /\ Hand(k) = 1)
  <1>1. Types
    BY DEF FlowInv, ShapeInv, ControlInv
  <1>2. Hand(k)' = 0 /\ \A j \in Copier : j # k => Hand(j)' = Hand(j)
    <2> DEFINE r == [pc |-> "done", piece |-> 0]
    <2>1. r \in CopierRec /\ r.pc = "done" /\ copier' = [copier EXCEPT ![k] = r]
      BY DEF CopierRec
    <2> HIDE DEF r
    <2> QED
      BY <1>1, <2>1, LoopHands
  <1>3. \A ch \in Way : Load(ch)' = Load(ch)
    BY DEF Even, Load
  <1>4. /\ Load(Up("app"))' = Load(Up("app")) /\ Load(Up("tun"))' = Load(Up("tun"))
        /\ Load(Up("srv"))' = Load(Up("srv")) /\ Load(Down("app"))' = Load(Down("app"))
        /\ Load(Down("tun"))' = Load(Down("tun")) /\ Load(Down("srv"))' = Load(Down("srv"))
    BY <1>3, AppWay
  <1>5. /\ Hand("H")' = IF k = "H" THEN 0 ELSE Hand("H")
        /\ Hand("D")' = IF k = "D" THEN 0 ELSE Hand("D")
        /\ Hand("E")' = IF k = "E" THEN 0 ELSE Hand("E")
        /\ Hand("B")' = IF k = "B" THEN 0 ELSE Hand("B")
    BY <1>2, Ways
  <1>6. /\ Before("H")' \in Nat /\ Before("D")' \in Nat /\ Before("E")' \in Nat /\ Before("B")' \in Nat
        /\ Before("H")' <= Before("H") /\ Before("D")' <= Before("D")
        /\ Before("E")' <= Before("E") /\ Before("B")' <= Before("B")
    BY <1>4, <1>5, Parts, Sums, SumsNext
  <1>7. Ebbs
    BY <1>6 DEF Ebbs, Copier
  <1>8. /\ Afoot("app")' = Afoot("app") \/ (k \in {"H", "E"} /\ Hand(k) = 1)
        /\ Afoot("srv")' = Afoot("srv") \/ (k \in {"B", "D"} /\ Hand(k) = 1)
    <2>1. Hand(k) \in {0, 1}
      BY Counts
    <2>2. k = "H" \/ k = "E" \/ k = "B" \/ k = "D"
      BY DEF Copier
    <2> QED
      BY <1>4, <1>5, <2>1, <2>2, Parts, Sums, SumsNext
  <1>9. \A u \in User : Afoot(u)' = Afoot(u) \/ (u = Speaker(k) /\ Hand(k) = 1)
    BY <1>8 DEF User, Speaker, Copier
  <1>10. \A u \in User : Heard(Other(u))' = Heard(Other(u))
    BY DEF Heard, SawEnd, Other
  <1> QED
    BY <1>7, <1>9, <1>10 DEF Balanced

\* A user writes at one end and reads at the other.
LEMMA CountsWrite ==
    ASSUME FlowInv, NEW u \in User, Write(u)
    PROVE  Ebbs /\ \A v \in User : Balanced(v)
  <1>1. Types
    BY DEF FlowInv, ShapeInv, ControlInv
  <1>2. /\ UNCHANGED <<far, got, copier, h>> /\ sent' = [sent EXCEPT ![u] = @ + 1]
        /\ Arrives(Mouth(u)) /\ Talking(u)
    BY DEF Write, talkOnly, client
  <1>3. \A ch \in Way : Load(ch)' = IF ch = Mouth(u) THEN Load(ch) + 1 ELSE Load(ch)
    <2> SUFFICES ASSUME NEW a, a = Mouth(u), NEW m, m = sent[u] + 1
                 PROVE  \A ch \in Way : Load(ch)' = IF ch = a THEN Load(ch) + 1 ELSE Load(ch)
      OBVIOUS
    <2>1. a \in Way /\ a[1] # "tun" /\ m \in Nat
      <3>1. a \in Way /\ a[1] = u /\ u # "tun"
        BY WayNames, Ways
      <3> QED
        BY <1>1, <3>1 DEF Types
    <2>2. Moves({}, {a}, <<"data", m>>, {}, {})
      BY <1>1, UserMoves
    <2> QED
      BY <1>2, <2>1, <2>2, LoadPuts
  <1>4. \A k \in Copier : Hand(k)' = Hand(k)
    BY <1>2 DEF Hand
  <1>5. \A v \in User : Heard(v)' = Heard(v)
    BY <1>2 DEF Heard, SawEnd
  <1>6. Hand("H")' = Hand("H") /\ Hand("D")' = Hand("D") /\ Hand("E")' = Hand("E") /\ Hand("B")' = Hand("B")
    BY <1>4, Ways
  <1>7. ~Mute(u)
    BY <1>1, <1>2, TalkingIs DEF Mute, Silent, Write, Talking, FlowInv
  <1>8. sent["app"] \in Nat /\ sent["srv"] \in Nat /\ Heard("app") \in Nat /\ Heard("srv") \in Nat
    BY Counts, Ways
  <1>9. /\ Load(Up("app"))' = IF Up("app") = Mouth(u) THEN Load(Up("app")) + 1 ELSE Load(Up("app"))
        /\ Load(Up("tun"))' = IF Up("tun") = Mouth(u) THEN Load(Up("tun")) + 1 ELSE Load(Up("tun"))
        /\ Load(Up("srv"))' = IF Up("srv") = Mouth(u) THEN Load(Up("srv")) + 1 ELSE Load(Up("srv"))
        /\ Load(Down("app"))' = IF Down("app") = Mouth(u) THEN Load(Down("app")) + 1 ELSE Load(Down("app"))
        /\ Load(Down("tun"))' = IF Down("tun") = Mouth(u) THEN Load(Down("tun")) + 1 ELSE Load(Down("tun"))
        /\ Load(Down("srv"))' = IF Down("srv") = Mouth(u) THEN Load(Down("srv")) + 1 ELSE Load(Down("srv"))
    BY <1>3, AppWay
  <1>10. CASE u = "app"
    <2>1. Mouth(u) = Up("app") /\ sent'["app"] = sent["app"] + 1 /\ sent'["srv"] = sent["srv"]
      BY <1>1, <1>2, <1>10 DEF Mouth, Types, User
    <2>2. /\ Before("H")' \in Nat /\ Before("D")' \in Nat /\ Before("E")' \in Nat /\ Before("B")' \in Nat
          /\ Before("D")' = Before("D") /\ Before("B")' = Before("B")
          /\ Afoot("app")' = Afoot("app") + 1 /\ Afoot("srv")' = Afoot("srv")
      BY <1>6, <1>9, <2>1, Parts, Apart, Sums, SumsNext
    <2>3. Ebbs
      BY <1>7, <1>10, <2>2, Counts DEF Ebbs, Copier, Speaker
    <2>4. Balanced("app") /\ Balanced("srv")
      <3>1. Afoot("app") \in Nat /\ Afoot("srv") \in Nat
        BY Counts, Ways
      <3>2. Heard("app")' = Heard("app") /\ Heard("srv")' = Heard("srv")
        BY <1>5, Ways
      <3> QED
        BY <1>8, <2>1, <2>2, <3>1, <3>2 DEF Balanced, Other
    <2> QED
      BY <2>3, <2>4 DEF User
  <1>11. CASE u = "srv"
    <2>1. Mouth(u) = Down("srv") /\ sent'["srv"] = sent["srv"] + 1 /\ sent'["app"] = sent["app"]
      BY <1>1, <1>2, <1>11 DEF Mouth, Types, User
    <2>2. /\ Before("H")' \in Nat /\ Before("D")' \in Nat /\ Before("E")' \in Nat /\ Before("B")' \in Nat
          /\ Before("H")' = Before("H") /\ Before("E")' = Before("E")
          /\ Afoot("srv")' = Afoot("srv") + 1 /\ Afoot("app")' = Afoot("app")
      BY <1>6, <1>9, <2>1, Parts, Apart, Sums, SumsNext
    <2>3. Ebbs
      BY <1>7, <1>11, <2>2, Counts DEF Ebbs, Copier, Speaker
    <2>4. Balanced("app") /\ Balanced("srv")
      <3>1. Afoot("app") \in Nat /\ Afoot("srv") \in Nat
        BY Counts, Ways
      <3>2. Heard("app")' = Heard("app") /\ Heard("srv")' = Heard("srv")
        BY <1>5, Ways
      <3> QED
        BY <1>8, <2>1, <2>2, <3>1, <3>2 DEF Balanced, Other
    <2> QED
      BY <2>3, <2>4 DEF User
  <1> QED
    BY <1>10, <1>11 DEF User

LEMMA CountsRead ==
    ASSUME FlowInv, Fading, NEW u \in User, Read(u)
    PROVE  Ebbs /\ (\A v \in User : Balanced(v)) /\ ~SawEnd(u) /\ ~SawEnd(u)'
  <1>1. Types /\ ShapeInv
    BY DEF FlowInv, ShapeInv, ControlInv
  <1>2. /\ UNCHANGED <<far, sent, copier>> /\ Talking(u) /\ got' = [got EXCEPT ![u] = Append(@, First(Ear(u))[2])]
    BY DEF Read, talkOnly, client
  <1>3. \A ch \in Way : Load(ch)' = IF ch = Ear(u) THEN Load(ch) - 1 ELSE Load(ch)
    <2> SUFFICES ASSUME NEW a, a = Ear(u)
                 PROVE  \A ch \in Way : Load(ch)' = IF ch = a THEN Load(ch) - 1 ELSE Load(ch)
      OBVIOUS
    <2>1. a \in Way /\ a[1] # "tun"
      <3>1. a \in Way /\ a[1] = u /\ u # "tun"
        BY WayNames, Ways
      <3> QED
        BY <3>1
    <2>2. Moves({a}, {}, Nothing, {}, {}) /\ Pure(Queue(a))
      BY <1>1, <1>2, UserMoves, UserPure
    <2> QED
      BY <1>2, <2>1, <2>2, LoadTakes
  <1>4. \A k \in Copier : Hand(k)' = Hand(k)
    BY <1>2 DEF Hand
  <1>5. ~SawEnd(u)' /\ ~SawEnd(u) /\ Heard(u)' = Heard(u) + 1
    <2>1. PICK s \in Starting : FlowFrom(s)
      BY DEF FlowInv, Flow
    <2> QED
      BY <1>1, <2>1, FlowRead DEF FlowInv
  <1>6. \A v \in User : v # u => Heard(v)' = Heard(v)
    BY <1>1, <1>2 DEF Types, Heard, SawEnd
  <1>7. Hand("H")' = Hand("H") /\ Hand("D")' = Hand("D") /\ Hand("E")' = Hand("E") /\ Hand("B")' = Hand("B")
    BY <1>4, Ways
  <1>8. /\ Load(Up("app"))' = IF Up("app") = Ear(u) THEN Load(Up("app")) - 1 ELSE Load(Up("app"))
        /\ Load(Up("tun"))' = IF Up("tun") = Ear(u) THEN Load(Up("tun")) - 1 ELSE Load(Up("tun"))
        /\ Load(Up("srv"))' = IF Up("srv") = Ear(u) THEN Load(Up("srv")) - 1 ELSE Load(Up("srv"))
        /\ Load(Down("app"))' = IF Down("app") = Ear(u) THEN Load(Down("app")) - 1 ELSE Load(Down("app"))
        /\ Load(Down("tun"))' = IF Down("tun") = Ear(u) THEN Load(Down("tun")) - 1 ELSE Load(Down("tun"))
        /\ Load(Down("srv"))' = IF Down("srv") = Ear(u) THEN Load(Down("srv")) - 1 ELSE Load(Down("srv"))
    BY <1>3, AppWay
  <1>9. Ear(u) = Down("app") \/ Ear(u) = Up("srv")
    BY DEF Ear
  <1>10. /\ Before("H")' = Before("H") /\ Before("D")' = Before("D")
         /\ Before("E")' = Before("E") /\ Before("B")' = Before("B")
         /\ Afoot("app")' = IF Ear(u) = Up("srv") THEN Afoot("app") - 1 ELSE Afoot("app")
         /\ Afoot("srv")' = IF Ear(u) = Down("app") THEN Afoot("srv") - 1 ELSE Afoot("srv")
    BY <1>7, <1>8, <1>9, Parts, Apart, Sums, SumsNext
  <1>11. Ebbs
    BY <1>10, Counts DEF Ebbs, Copier
  <1>12. \A v \in User : Afoot(v)' = IF Other(v) = u THEN Afoot(v) - 1 ELSE Afoot(v)
    <2>1. (u = "srv" <=> Ear(u) = Up("srv")) /\ (u = "app" <=> Ear(u) = Down("app"))
      BY Apart DEF Ear, User
    <2> QED
      BY <1>10, <2>1 DEF User, Other
  <1>13. ASSUME NEW v \in User PROVE Balanced(v)
    <2>1. Other(v) \in User
      BY DEF Other, User
    <2>2. sent[v] \in Nat /\ Heard(Other(v)) \in Nat /\ Afoot(v) \in Nat
      BY <2>1, Counts
    <2>3. Heard(Other(v))' = IF Other(v) = u THEN Heard(Other(v)) + 1 ELSE Heard(Other(v))
      <3>1. CASE Other(v) = u
        <4>1. (v = "app" /\ u = "srv") \/ (v = "srv" /\ u = "app")
          BY <3>1 DEF Other, User
        <4> QED
          BY <1>5, <3>1, <4>1 DEF Other
      <3>2. CASE Other(v) # u
        <4>1. (v = "app" /\ u = "app") \/ (v = "srv" /\ u = "srv")
          BY <3>2 DEF Other, User
        <4>2. Heard("srv")' = Heard("srv") \/ u = "srv"
          BY <1>6, Ways
        <4>3. Heard("app")' = Heard("app") \/ u = "app"
          BY <1>6, Ways
        <4> QED
          BY <3>2, <4>1, <4>2, <4>3 DEF Other
      <3> QED
        BY <3>1, <3>2
    <2>4. sent'[v] = sent[v] /\ Afoot(v)' = IF Other(v) = u THEN Afoot(v) - 1 ELSE Afoot(v)
      BY <1>2, <1>12
    <2> QED
      BY <2>2, <2>3, <2>4 DEF Balanced
  <1> QED
    BY <1>5, <1>11, <1>13

LEMMA CountsReadEnd ==
    ASSUME FlowInv, Fading, NEW u \in User, ReadEnd(u)
    PROVE  Ebbs /\ \A v \in User : Balanced(v)
  <1>1. UNCHANGED <<conn, far, sent, copier>>
    BY DEF ReadEnd, talkOnly, client
  <1>2. \A v \in User : Heard(v)' = Heard(v)
    BY FlowReadEnd
  <1>3. /\ \A ch \in Way : Load(ch)' = Load(ch)
        /\ \A k \in Copier : Hand(k)' = Hand(k)
    BY <1>1 DEF Load, Hand, Queue
  <1>4. \A k \in Copier : Before(k)' = Before(k)
    BY <1>3, AppWay, Ways DEF Before
  <1>5. \A v \in User : Afoot(v)' = Afoot(v)
    BY <1>3, <1>4, AppWay, Ways DEF Afoot
  <1>6. \A k \in Copier : Before(k) \in Nat
    BY Counts
  <1>7. Ebbs
    BY <1>4, <1>6 DEF Ebbs
  <1>8. \A v \in User : Heard(Other(v))' = Heard(Other(v))
    <2>1. Heard("app")' = Heard("app") /\ Heard("srv")' = Heard("srv")
      BY <1>2, Ways
    <2> QED
      BY <2>1 DEF Other
  <1> QED
    BY <1>1, <1>5, <1>7, <1>8 DEF Balanced

-----------------------------------------------------------------------------
\* Nothing is on its way of what has not been sent.
LEMMA NothingSent ==
    ASSUME FlowInv, NEW ch \in Way, sent[Origin(ch)] = 0
    PROVE  Held(Queue(ch)) = 0 /\ Load(ch) = 0
  <1>1. Types /\ Neat
    BY DEF FlowInv, ShapeInv, Shape, ControlInv
  <1>2. PICK s \in Starting : FlowFrom(s)
    BY DEF FlowInv, Flow
  <1>3. s[ch] \in Nat /\ Held(Queue(ch)) \in Nat /\ Past(s, ch) <= 0
    BY <1>1, <1>2, WayType DEF FlowFrom, Chains
  <1>4. Held(Queue(ch)) = 0
    BY <1>3 DEF Past
  <1> QED
    BY <1>4 DEF Load

LEMMA EmptyLoad == ASSUME NEW ch, Queue(ch) = <<>> PROVE Load(ch) = 0
  BY EmptyData DEF Load

LEMMA NothingTogether ==
    ASSUME NEW a \in Nat, NEW b \in Nat, NEW c \in Nat, NEW d \in Nat, a + b + c + d = 0
    PROVE  a = 0 /\ b = 0 /\ c = 0 /\ d = 0
  OBVIOUS

\* What is drained is so for the loops before.
LEMMA DrainedBefore ==
    ASSUME FlowInv
    PROVE  /\ Before("E") = 0 => Before("H") = 0 /\ Load(Up("tun")) = 0 /\ Hand("E") = 0
           /\ Before("D") = 0 => Before("B") = 0 /\ Load(Down("tun")) = 0 /\ Hand("D") = 0
           /\ Drained("E") => Drained("H")
           /\ Drained("D") => Drained("B")
  <1>1. /\ Load(Up("app")) \in Nat /\ Load(Up("tun")) \in Nat
        /\ Load(Down("srv")) \in Nat /\ Load(Down("tun")) \in Nat
        /\ Hand("H") \in Nat /\ Hand("E") \in Nat /\ Hand("B") \in Nat /\ Hand("D") \in Nat
    BY Parts
  <1>2. ASSUME Before("E") = 0 PROVE Before("H") = 0 /\ Load(Up("tun")) = 0 /\ Hand("E") = 0
    <2>1. Load(Up("app")) + Hand("H") + Load(Up("tun")) + Hand("E") = 0
      BY <1>2, Sums
    <2>2. Load(Up("app")) = 0 /\ Hand("H") = 0 /\ Load(Up("tun")) = 0 /\ Hand("E") = 0
      BY <1>1, <2>1, NothingTogether
    <2> QED
      BY <2>2, Sums
  <1>3. ASSUME Before("D") = 0 PROVE Before("B") = 0 /\ Load(Down("tun")) = 0 /\ Hand("D") = 0
    <2>1. Load(Down("srv")) + Hand("B") + Load(Down("tun")) + Hand("D") = 0
      BY <1>3, Sums
    <2>2. Load(Down("srv")) = 0 /\ Hand("B") = 0 /\ Load(Down("tun")) = 0 /\ Hand("D") = 0
      BY <1>1, <2>1, NothingTogether
    <2> QED
      BY <2>2, Sums
  <1> QED
    BY <1>2, <1>3 DEF Drained, Speaker

LEMMA MouthOf ==
    /\ \A v \in User : Up("app") = Mouth(v) => v = "app"
    /\ \A v \in User, c \in Conn : Down(c) = Mouth(v) => v = "srv" /\ c = "srv"
    /\ \A v \in User : Up("tun") # Mouth(v)
    /\ "tun" \in Conn /\ "srv" \in Conn
  BY Ways DEF Mouth, Up, Down

\* The channel of a loop is at its end, or closed on it: then the loops of its
\* program have stopped, or there is nothing more to come.
LEMMA StopsClient ==
    ASSUME FlowInv, Doors, Alive, Hops, NEW k \in {"H", "D"}, Runs(k), Cleanly(k)
    PROVE  Drained("H") \/ Drained("D")
  <1>1. Types /\ Control /\ TunShape
    BY DEF FlowInv, ShapeInv, Shape, ControlInv
  <1>2. k \in Copier /\ copier[k].pc # "off" /\ h = "copy" /\ far \in {"tun", "srv"}
    BY <1>1, LoopEnds DEF Runs, Copier
  <1>3. (conn["app"].right /\ conn[far].left) \/ Stopped("H")
    BY <1>2 DEF Doors
  <1>4. Stopped("H") => Drained("H") \/ Drained("D")
    <2>1. ASSUME NEW j \in {"H", "D"}, copier[j].pc = "done" PROVE Drained("H") \/ Drained("D")
      BY <2>1 DEF Hops, Hop, Copier
    <2> QED
      BY <2>1 DEF Stopped, Hop
  <1>5. ~dead["left"]
    BY <1>2 DEF Alive
  <1>6. ASSUME copier[k].pc = "write", ~Usable(OutOf(k)[1], Writer(OutOf(k)))
        PROVE  Stopped("H")
    <2>1. CASE k = "H"
      <3>1. OutOf(k)[1] = far /\ Writer(OutOf(k)) = "left"
        BY <2>1 DEF OutOf, Up, Writer
      <3> QED
        BY <1>3, <1>5, <1>6, <3>1 DEF Usable
    <2>2. CASE k = "D"
      <3>1. OutOf(k)[1] = "app" /\ Writer(OutOf(k)) = "right" /\ "app" \notin Tunnel
        BY <2>2 DEF OutOf, Down, Writer, Tunnel
      <3> QED
        BY <1>3, <1>6, <3>1 DEF Usable
    <2> QED
      BY <2>1, <2>2
  <1>7. ASSUME copier[k].pc = "read", Ended(In(k))
        PROVE  Stopped("H") \/ Drained("H") \/ Drained("D")
    <2>1. Hand(k) = 0
      BY <1>7 DEF Hand
    <2>2. CASE k = "H"
      <3>1. In(k) = Up("app") /\ Up("app")[1] = "app" /\ Reader(Up("app")) = "right"
            /\ Writer(Up("app")) = "left" /\ "app" \notin Tunnel
        BY <2>2 DEF In, Up, Reader, Writer, Tunnel
      <3>2. CASE ~Usable("app", "right")
        BY <1>3, <3>1, <3>2 DEF Usable
      <3>3. CASE Queue(Up("app")) = <<>> /\ (~conn["app"].left \/ "app" \in hushed)
        <4>1. Before("H") = 0
          BY <2>1, <2>2, <3>3, EmptyLoad, Sums
        <4>2. Mute("app")
          BY <3>1, <3>3 DEF Mute, Silent, Mouth
        <4> QED
          BY <4>1, <4>2 DEF Drained, Speaker
      <3>4. \A v \in hushed : Up("app") = Mouth(v) => v = "app"
        BY <1>1, MouthOf DEF Types
      <3> QED
        BY <1>7, <3>1, <3>2, <3>3, <3>4 DEF Ended
    <2>3. CASE k = "D"
      <3>1. In(k) = Down(far) /\ Down(far)[1] = far /\ Reader(Down(far)) = "left"
            /\ Writer(Down(far)) = "right"
        BY <2>3 DEF In, Down, Reader, Writer
      <3>2. CASE ~Usable(far, "left")
        BY <1>3, <1>5, <3>1, <3>2 DEF Usable
      <3>3. CASE Queue(Down(far)) = <<>> /\ (~conn[far].right \/ "srv" \in hushed) /\ far = "srv"
        <4>1. Mute("srv")
          BY <3>1, <3>3 DEF Mute, Silent, Mouth
        <4>2. Load(Down("srv")) = 0 /\ Load(Down("tun")) = 0
          BY <3>3, EmptyLoad DEF Load, Down
        <4>3. Hand("B") = 0
          BY <1>1, <3>3, Ways DEF Control, Hand
        <4>4. Before("D") = 0
          BY <2>1, <2>3, <4>2, <4>3, Sums
        <4> QED
          BY <4>1, <4>4 DEF Drained, Speaker
      <3>4. CASE Queue(Down(far)) = <<>> /\ ~conn[far].right /\ far = "tun"
        <4>1. x["tun"] = "copy"
          BY <1>1, <1>2, <3>4 DEF TunShape
        <4>2. Stopped("E")
          BY <3>4, <4>1 DEF Doors
        <4>3. Drained("E") \/ Drained("B")
          BY <4>2 DEF Stopped, Hops, Hop, Copier
        <4>4. Load(Down("tun")) = 0 /\ Hand("D") = 0
          BY <2>1, <2>3, <3>4, EmptyLoad
        <4>5. Before("D") = Before("B")
          BY <4>4, Parts, Sums
        <4> QED
          BY <4>3, <4>5, DrainedBefore DEF Drained, Speaker
      <3>5. \A v \in hushed : Down(far) = Mouth(v) => v = "srv" /\ far = "srv"
        BY <1>1, <1>2, MouthOf DEF Types
      <3> QED
        BY <1>2, <1>7, <3>1, <3>2, <3>3, <3>4, <3>5 DEF Ended
    <2> QED
      BY <2>2, <2>3
  <1> QED
    BY <1>4, <1>6, <1>7 DEF Cleanly

LEMMA StopsExit ==
    ASSUME FlowInv, Doors, Alive, Hops, NEW k \in {"E", "B"}, Runs(k), Cleanly(k)
    PROVE  Drained("E") \/ Drained("B")
  <1>1. Types /\ Control /\ TunShape
    BY DEF FlowInv, ShapeInv, Shape, ControlInv
  <1>2. k \in Copier /\ copier[k].pc # "off" /\ x["tun"] = "copy" /\ far = "tun"
    BY <1>1, LoopEnds DEF Runs, Copier, Control
  <1>3. (conn["tun"].right /\ conn["srv"].left) \/ Stopped("E")
    BY <1>2 DEF Doors
  <1>4. Stopped("E") => Drained("E") \/ Drained("B")
    BY DEF Stopped, Hops, Hop, Copier
  <1>5. ~dead["right"] /\ "srv" \notin Tunnel
    BY DEF Alive, Tunnel
  <1>6. ASSUME copier[k].pc = "write", ~Usable(OutOf(k)[1], Writer(OutOf(k)))
        PROVE  Stopped("E")
    <2>1. CASE k = "E"
      <3>1. OutOf(k)[1] = "srv" /\ Writer(OutOf(k)) = "left"
        BY <2>1 DEF OutOf, Up, Writer
      <3> QED
        BY <1>3, <1>5, <1>6, <3>1 DEF Usable
    <2>2. CASE k = "B"
      <3>1. OutOf(k)[1] = "tun" /\ Writer(OutOf(k)) = "right"
        BY <2>2 DEF OutOf, Down, Writer
      <3> QED
        BY <1>3, <1>5, <1>6, <3>1 DEF Usable
    <2> QED
      BY <2>1, <2>2
  <1>7. ASSUME copier[k].pc = "read", Ended(In(k))
        PROVE  Stopped("E") \/ Drained("E") \/ Drained("B")
    <2>1. Hand(k) = 0
      BY <1>7 DEF Hand
    <2>2. CASE k = "B"
      <3>1. In(k) = Down("srv") /\ Down("srv")[1] = "srv" /\ Reader(Down("srv")) = "left"
            /\ Writer(Down("srv")) = "right"
        BY <2>2 DEF In, Down, Reader, Writer
      <3>2. CASE ~Usable("srv", "left")
        BY <1>3, <1>5, <3>2 DEF Usable
      <3>3. CASE Queue(Down("srv")) = <<>> /\ (~conn["srv"].right \/ "srv" \in hushed)
        <4>1. Before("B") = 0
          BY <2>1, <2>2, <3>3, EmptyLoad, Sums
        <4>2. Mute("srv")
          BY <3>1, <3>3 DEF Mute, Silent, Mouth
        <4> QED
          BY <4>1, <4>2 DEF Drained, Speaker
      <3>4. \A v \in hushed : Down("srv") = Mouth(v) => v = "srv"
        BY <1>1, MouthOf DEF Types
      <3> QED
        BY <1>7, <3>1, <3>2, <3>3, <3>4 DEF Ended
    <2>3. CASE k = "E"
      <3>1. In(k) = Up("tun") /\ Up("tun")[1] = "tun" /\ Reader(Up("tun")) = "right"
            /\ Writer(Up("tun")) = "left"
        BY <2>3 DEF In, Up, Reader, Writer
      <3>2. CASE ~Usable("tun", "right")
        BY <1>3, <1>5, <3>2 DEF Usable
      <3>3. CASE Queue(Up("tun")) = <<>> /\ ~conn["tun"].left
        <4>1. Load(Up("tun")) = 0 /\ Hand("E") = 0
          BY <2>1, <2>3, <3>3, EmptyLoad
        <4>2. Before("E") = Before("H")
          BY <4>1, Parts, Sums
        <4>3. CASE h = "over"
          <5>1. Mute("app")
            BY <4>3 DEF Mute, Silent
          <5>2. sent["app"] = 0 /\ Origin(Up("app")) = "app"
            <6>1. app # "talk"
              BY <4>3 DEF FlowInv, ShapeInv, Shape, AppShape
            <6> QED
              BY <6>1, NotTalking DEF FlowInv, Origin, Up
          <5>3. Load(Up("app")) = 0 /\ Hand("H") = 0
            BY <1>1, <4>3, <5>2, AppWay, NothingSent, Ways DEF Control, Hand
          <5>4. Before("E") = 0
            BY <4>2, <5>3, Sums
          <5> QED
            BY <5>1, <5>4 DEF Drained, Speaker
        <4>4. CASE Stopped("H")
          <5>1. Drained("H") \/ Drained("D")
            BY <4>4 DEF Stopped, Hops, Hop, Copier
          <5> QED
            BY <4>2, <5>1, DrainedBefore DEF Drained, Speaker
        <4> QED
          BY <1>2, <3>3, <4>3, <4>4 DEF Doors
      <3>4. \A v \in hushed : Up("tun") # Mouth(v)
        BY <1>1, MouthOf DEF Types
      <3> QED
        BY <1>7, <3>1, <3>2, <3>3, <3>4 DEF Ended
    <2> QED
      BY <2>2, <2>3
  <1> QED
    BY <1>4, <1>6, <1>7 DEF Cleanly

LEMMA StopDrains ==
    ASSUME FlowInv, Doors, Alive, Hops, NEW k \in Copier, Runs(k), Cleanly(k)
    PROVE  \E j \in Hop(k) : Drained(j)
  <1>1. CASE k \in {"H", "D"}
    BY <1>1, StopsClient DEF Hop
  <1>2. CASE k \in {"E", "B"}
    BY <1>2, StopsExit DEF Hop
  <1> QED
    BY <1>1, <1>2 DEF Copier

\* The program at the other side has closed its end: all is there.
LEMMA EndIsWhole ==
    ASSUME FlowInv, Doors, Alive, Kept, Hops, NEW u \in User, Talking(u),
           Queue(Ear(u)) = <<>>, ~conn[u][Writer(Ear(u))], u \notin hushed
    PROVE  Mute(Other(u)) /\ Heard(u) = sent[Other(u)]
  <1>1. Types /\ Control /\ TunShape /\ ShapeInv
    BY DEF FlowInv, ShapeInv, Shape, ControlInv
  <1>2. ~Mute(u)
    BY <1>1, TalkingIs DEF Mute, Silent, Talking
  <1>3. Connected /\ (u = "app" => h = "copy")
    BY <1>1, TalkingIs
  <1>4. CASE u = "app"
    <2>1. Ear(u) = Down("app") /\ Other(u) = "srv" /\ Other("srv") = "app" /\ ~conn["app"].right
      BY <1>4 DEF Ear, Other, Down, Writer
    <2>2. Drained("H") \/ Drained("D")
      <3>1. Stopped("H")
        BY <1>3, <1>4, <2>1 DEF Doors
      <3> QED
        BY <3>1 DEF Stopped, Hops, Hop, Copier
    <2>3. Mute("srv") /\ Before("D") = 0
      BY <1>2, <1>4, <2>2 DEF Drained, Speaker
    <2>4. Afoot("srv") = 0
      BY <2>1, <2>3, EmptyLoad, Sums
    <2>5. sent["srv"] = Afoot("srv") + Heard("app")
      BY <1>2, <1>4, <2>1, Ways DEF Kept
    <2>6. Heard("app") \in Nat
      BY Counts, Ways
    <2> QED
      BY <1>4, <2>1, <2>3, <2>4, <2>5, <2>6
  <1>5. CASE u = "srv"
    <2>1. Ear(u) = Up("srv") /\ Other(u) = "app" /\ Other("app") = "srv" /\ ~conn["srv"].left
      BY <1>5 DEF Ear, Other, Up, Writer
    <2>2. Mute("app") /\ Before("E") = 0
      <3>1. CASE far = "srv"
        <4>1. Drained("H") \/ Drained("D")
          <5>1. Stopped("H")
            BY <2>1, <3>1 DEF Doors
          <5> QED
            BY <5>1 DEF Stopped, Hops, Hop, Copier
        <4>2. Mute("app") /\ Before("H") = 0
          BY <1>2, <1>5, <4>1 DEF Drained, Speaker
        <4>3. Load(Up("tun")) = 0 /\ Hand("E") = 0
          BY <1>1, <3>1, Ways DEF Load, Up, Control, Hand
        <4> QED
          BY <4>2, <4>3, Sums, Parts
      <3>2. CASE x["tun"] = "copy"
        <4>1. Drained("E") \/ Drained("B")
          <5>1. Stopped("E")
            BY <2>1, <3>2 DEF Doors
          <5> QED
            BY <5>1 DEF Stopped, Hops, Hop, Copier
        <4> QED
          BY <1>2, <1>5, <4>1 DEF Drained, Speaker
      <3> QED
        BY <1>3, <3>1, <3>2 DEF Connected
    <2>3. Afoot("app") = 0
      BY <2>1, <2>2, EmptyLoad, Sums
    <2>4. sent["app"] = Afoot("app") + Heard("srv")
      BY <1>2, <1>5, <2>1, Ways DEF Kept
    <2>5. Heard("srv") \in Nat
      BY Counts, Ways
    <2> QED
      BY <1>5, <2>1, <2>2, <2>3, <2>4, <2>5
  <1> QED
    BY <1>4, <1>5 DEF User

-----------------------------------------------------------------------------
\* Causes are not forgotten, doSocks does not come back, and without a cause no
\* Context dies but one that doSocks has killed on its way out.
Lasts == causes \subseteq causes' /\ (h = "over" => h' = "over") /\ (Alive /\ causes' = {} => Alive')

LEMMA LastsClient == ASSUME Types, Client PROVE Lasts
  <1>1. CASE EndsRequest
    <2>1. CloseEnds(appEnd, {})
      BY <1>1 DEF EndsRequest, ReadRequestFails, ReadRequestPanics, appEnd
    <2>2. causes \cup {} \subseteq causes'
      BY <2>1, CloseEndsCloses DEF Types
    <2>3. h' = "over" /\ wire' = wire /\ dead' \in {dead, [dead EXCEPT !["left"] = TRUE]}
      BY <1>1 DEF EndsRequest, ReadRequestFails, ReadRequestPanics, world
    <2>4. dead'["right"] = dead["right"]
      BY <2>3 DEF Types, Side
    <2> QED
      BY <2>2, <2>3, <2>4 DEF Lasts, Alive
  <1>2. CASE TimerFires
    BY <1>2 DEF TimerFires, Lasts, client
  <1>3. CASE NoTunnel \/ ReadCodeFails
    <2>1. /\ h' = "over" /\ causes' = causes /\ wire' = wire
          /\ dead' = [dead EXCEPT !["left"] = TRUE]
      BY <1>3 DEF NoTunnel, ReadCodeFails, world
    <2>2. dead'["right"] = dead["right"]
      BY <2>1 DEF Types, Side
    <2> QED
      BY <2>1, <2>2 DEF Lasts, Alive
  <1>4. ASSUME UNCHANGED <<wire, dead, causes>>, h # "over" PROVE Lasts
    BY <1>4 DEF Lasts, Alive
  <1>5. CASE ReadGreeting \/ ReadConnect \/ AskName \/ DialDirect \/ AskExit \/ ReadCode
    <2>1. UNCHANGED <<wire, dead, causes>> /\ h # "over"
      BY <1>5 DEF ReadGreeting, ReadConnect, AskName, DialDirect, AskExit, ReadCode, world
    <2> QED
      BY <1>4, <2>1
  <1>6. CASE Filter \/ Search \/ Searched \/ Lookup \/ NameKnown \/ NameUnknown
    <2>1. UNCHANGED <<wire, dead, causes>> /\ h # "over"
      BY <1>6 DEF Filter, Search, Searched, Lookup, NameKnown, NameUnknown, deciding, world
    <2> QED
      BY <1>4, <2>1
  <1> QED
    BY <1>1, <1>2, <1>3, <1>5, <1>6 DEF Client, EndsRequest

LEMMA LastsStep == ASSUME Types, [Next]_vars PROVE Lasts
  <1>1. ASSUME UNCHANGED <<h, wire, dead>>, causes \subseteq causes' PROVE Lasts
    BY <1>1 DEF Lasts, Alive
  <1>2. CASE Exit
    <2>1. UNCHANGED exiting
      BY <1>2 DEF Exit, ResolveForClient, ReadAddr, ReadAddrFails, Resolve, Dial, ExitRefuses
    <2> QED
      BY <1>1, <2>1 DEF exiting, client, world
  <1>3. ASSUME NEW k \in Copier, Loops(k) PROVE Lasts
    <2>1. causes \subseteq causes'
      BY <1>3 DEF Loops, LoopReads, LoopWrites, LoopLoses, LoopStops
    <2> QED
      BY <1>1, <1>3, <2>1 DEF Loops, client
  <1>4. CASE Uses
    <2>1. UNCHANGED <<h, wire, dead>>
      BY <1>4 DEF Uses, Greet, Request, Answered, Write, Read, ReadEnd, Leave, talkOnly, world, client
    <2>2. ASSUME NEW u \in User, Leave(u) PROVE causes \subseteq causes'
      <3>1. CloseEnds({<<u, Writer(Mouth(u))>>}, {})
        BY <2>2 DEF Leave
      <3>2. causes \cup {} \subseteq causes'
        BY <3>1, CloseEndsCloses DEF Types
      <3> QED
        BY <3>2
    <2>3. causes \subseteq causes'
      BY <1>4, <2>2 DEF Uses, Greet, Request, Answered, Write, Read, ReadEnd
    <2> QED
      BY <1>1, <2>1, <2>3
  <1>5. CASE Breaks
    <2>1. CASE WireBreaks \/ Killed
      BY <2>1 DEF WireBreaks, Killed, Lasts, client
    <2>2. ASSUME NEW s \in Side, Notice(s) PROVE Lasts
      BY <2>2 DEF Notice, Lasts, Alive, client
    <2>3. ASSUME NEW u \in User, HalfClose(u) PROVE Lasts
      BY <1>1, <2>3 DEF HalfClose, client, world
    <2> QED
      BY <1>5, <2>1, <2>2, <2>3 DEF Breaks
  <1>6. CASE UNCHANGED vars
    BY <1>1, <1>6 DEF vars, client, world
  <1> QED
    BY <1>2, <1>3, <1>4, <1>5, <1>6, LastsClient, NextCases

-----------------------------------------------------------------------------
\* A step closes ends of a program only as the loops of that program stop, or
\* its part of the request is over.
Leaves(ends) ==
    /\ \A c \in {"app", "tun", "srv"}, s \in Side :
         conn'[c][s] <=> conn[c][s] /\ <<c, s>> \notin ends
    /\ <<"app", "right">> \in ends => h' = "over" \/ Stopped("H")'
    /\ <<"tun", "left">> \in ends => h' = "over" \/ Stopped("H")'
    /\ <<"srv", "left">> \in ends => (far = "srv" => Stopped("H")')
    /\ <<"tun", "right">> \in ends => x'["tun"] = "over" \/ Stopped("E")'
    /\ <<"srv", "left">> \in ends => (x'["tun"] = "copy" => Stopped("E")')
Paces ==
    /\ far' = far /\ (h = "over" => h' = "over")
    /\ x["tun"] \in {"off", "over"} => x'["tun"] \in {"off", "over"}
    /\ x'["tun"] = "copy" => x["tun"] = "copy"
    /\ \A k \in Copier : copier[k].pc = "done" => copier'[k].pc = "done"
Silences == \A u \in User : Silent(u) => Silent(u)'
Quiet == hushed \subseteq hushed' /\ \A u \in User : Mute(u) => Mute(u)'

LEMMA DoorsKept ==
    ASSUME Doors, NEW ends, Leaves(ends), Paces
    PROVE  Doors' /\ Silences
  <1>1. ASSUME NEW j \in Copier PROVE Stopped(j) => Stopped(j)'
    <2>1. \A i \in Hop(j) : i \in Copier
      BY DEF Hop, Copier
    <2> QED
      BY <2>1 DEF Stopped, Paces
  <1>2. (Stopped("H") => Stopped("H")') /\ (Stopped("E") => Stopped("E")')
    BY <1>1, Ways
  <1>3. /\ conn'["app"].right <=> conn["app"].right /\ <<"app", "right">> \notin ends
        /\ conn'["app"].left => conn["app"].left
        /\ conn'["tun"].left <=> conn["tun"].left /\ <<"tun", "left">> \notin ends
        /\ conn'["tun"].right <=> conn["tun"].right /\ <<"tun", "right">> \notin ends
        /\ conn'["srv"].left <=> conn["srv"].left /\ <<"srv", "left">> \notin ends
        /\ conn'["srv"].right => conn["srv"].right
    BY DEF Leaves, Side
  <1>4. Doors'
    BY <1>2, <1>3 DEF Doors, Leaves, Paces
  <1>5. Silences
    <2>1. Silent("app") => Silent("app")'
      BY <1>3 DEF Silent, Mouth, Up, Writer, Paces
    <2>2. Silent("srv") => Silent("srv")'
      BY <1>3 DEF Silent, Mouth, Down, Writer
    <2> QED
      BY <2>1, <2>2 DEF Silences, User
  <1> QED
    BY <1>4, <1>5

\* The forms in which the steps close ends
LEMMA MovesLeaves ==
    ASSUME NEW tk, NEW pt, NEW item, NEW ends, NEW lost, Moves(tk, pt, item, ends, lost)
    PROVE  \A c \in {"app", "tun", "srv"}, s \in Side :
             conn'[c][s] <=> conn[c][s] /\ <<c, s>> \notin ends
  BY Ways DEF Moves, Made

LEMMA ClosesLeaves ==
    ASSUME NEW ends, Closes(ends)
    PROVE  \A c \in {"app", "tun", "srv"}, s \in Side :
             conn'[c][s] <=> conn[c][s] /\ <<c, s>> \notin ends
  BY MovesLeaves DEF Closes

\* Ends that a program closes as it is over with the request, or none
LEMMA DoorsOver ==
    ASSUME Doors, Paces, NEW ends,
           \A c \in {"app", "tun", "srv"}, s \in Side :
             conn'[c][s] <=> conn[c][s] /\ <<c, s>> \notin ends,
           \/ ends \subseteq {<<"app", "left">>, <<"srv", "right">>, <<"dns", "left">>, <<"dns", "right">>}
           \/ ends \subseteq bothEnds /\ h' = "over"
           \/ ends \subseteq tunEnd("tun") /\ x'["tun"] = "over"
    PROVE  Doors' /\ Silences
  <1>1. Leaves(ends)
    BY DEF Leaves, bothEnds, appEnd, tunEnd
  <1> QED
    BY <1>1, DoorsKept

LEMMA DoorsStill ==
    ASSUME Doors, Paces,
           \A c \in {"app", "tun", "srv"}, s \in Side : conn'[c][s] <=> conn[c][s]
    PROVE  Doors' /\ Silences
  <1> SUFFICES ASSUME NEW ends, ends = {} PROVE Doors' /\ Silences
    OBVIOUS
  <1>1. \A c \in {"app", "tun", "srv"}, s \in Side :
          conn'[c][s] <=> conn[c][s] /\ <<c, s>> \notin ends
    OBVIOUS
  <1>2. ends \subseteq bothEnds
    OBVIOUS
  <1>3. Leaves(ends)
    BY <1>1 DEF Leaves
  <1> QED
    BY <1>3, DoorsKept

LEMMA DoorsMoves ==
    ASSUME Doors, Paces, NEW tk, NEW pt, NEW item, NEW ends, Moves(tk, pt, item, ends, {}),
           \/ ends \subseteq {<<"app", "left">>, <<"srv", "right">>, <<"dns", "left">>, <<"dns", "right">>}
           \/ ends \subseteq bothEnds /\ h' = "over"
           \/ ends \subseteq tunEnd("tun") /\ x'["tun"] = "over"
    PROVE  Doors' /\ Silences
  <1>1. \A c \in {"app", "tun", "srv"}, s \in Side :
          conn'[c][s] <=> conn[c][s] /\ <<c, s>> \notin ends
    BY MovesLeaves
  <1> QED
    BY <1>1, DoorsOver

LEMMA DoorsTakes ==
    ASSUME Doors, Paces, NEW tk, NEW pt, NEW item, Moves(tk, pt, item, {}, {})
    PROVE  Doors' /\ Silences
  <1> SUFFICES ASSUME NEW ends, ends = {}, Moves(tk, pt, item, ends, {}) PROVE Doors' /\ Silences
    OBVIOUS
  <1>1. ends \subseteq {<<"app", "left">>, <<"srv", "right">>, <<"dns", "left">>, <<"dns", "right">>}
    OBVIOUS
  <1> QED
    BY <1>1, DoorsMoves

LEMMA PacesSame ==
    ASSUME far' = far, h = "over" => h' = "over", x'["tun"] = x["tun"], copier' = copier
    PROVE  Paces
  BY DEF Paces

\* Before a connection to the server nobody has written.
Unstarted ==
    /\ \A k \in Copier : copier[k].pc = "off"
    /\ \A u \in User : sent[u] = 0 /\ got[u] = <<>>

LEMMA OpensLeaves ==
    ASSUME NEW d, NEW up, NEW pt, NEW item, Opens(d, up, pt, item)
    PROVE  /\ \A c \in {"app", "tun", "srv"}, s \in Side :
                c # d => (conn'[c][s] <=> conn[c][s])
           /\ d \in Conn => conn'[d].left /\ conn'[d].right
  <1>1. \A c \in {"app", "tun", "srv"} : c \in Conn
    BY Ways
  <1> QED
    BY <1>1, Ways DEF Opens, Side

LEMMA DoorsDialDirect ==
    ASSUME FlowInv, Doors, DialDirect
    PROVE  Doors' /\ (Silences \/ Unstarted)
  <1>1. Types /\ Control
    BY DEF FlowInv, ShapeInv, ControlInv
  <1>2. h = "direct" /\ x' = x
    BY DEF DialDirect
  <1>3. CASE h' = "over" /\ Moves({}, {Down("app")}, <<"code", 3>>, appEnd, {})
             /\ UNCHANGED <<far, addr, copier>>
    <2>1. Paces
      BY <1>2, <1>3, PacesSame
    <2>2. appEnd \subseteq bothEnds
      BY DEF bothEnds
    <2> QED
      BY <1>3, <2>1, <2>2, DoorsMoves
  <1>4. CASE /\ far' = "srv" /\ h' = "copy" /\ Opens("srv", <<>>, {Down("app")}, Yes)
             /\ copier' = RunningBoth("H", "D")
    <2>1. Unstarted
      BY <1>2, Idles DEF Unstarted
    <2>2. conn'["srv"].left /\ (conn'["app"].right <=> conn["app"].right)
      BY <1>4, OpensLeaves, Ways
    <2>3. ~Stopped("H")
      BY <2>1, Ways DEF Stopped, Unstarted, Hop
    <2>4. conn'["app"].right
      BY <1>2, <2>2, <2>3 DEF Doors
    <2>5. x["tun"] = "off"
      BY <1>1, <1>2 DEF Control
    <2>6. Doors'
      BY <1>2, <1>4, <2>2, <2>4, <2>5 DEF Doors
    <2> QED
      BY <2>1, <2>6
  <1> QED
    BY <1>1, <1>3, <1>4, DialDirectMoves

LEMMA DoorsAskExit ==
    ASSUME FlowInv, Doors, AskExit
    PROVE  Doors' /\ (Silences \/ Unstarted)
  <1>1. Types /\ Control
    BY DEF FlowInv, ShapeInv, ControlInv
  <1>2. h = "tunnel" /\ h' = "code" /\ far' = "tun" /\ copier' = copier
        /\ x' = [x EXCEPT !["tun"] = "addr"]
    BY DEF AskExit
  <1>3. x'["tun"] = "addr"
    BY <1>1, <1>2, Ways DEF Types
  <1>4. Unstarted
    BY <1>2, Idles DEF Unstarted
  <1>5. PICK up : Opens("tun", up, {}, Nothing)
    BY <1>1, AskMoves
  <1>6. conn'["tun"].left /\ conn'["tun"].right /\ (conn'["app"].right <=> conn["app"].right)
    BY <1>5, OpensLeaves, Ways
  <1>7. ~Stopped("H")
    BY <1>4, Ways DEF Stopped, Unstarted, Hop
  <1>8. conn'["app"].right
    BY <1>2, <1>6, <1>7 DEF Doors
  <1>9. Doors'
    BY <1>2, <1>3, <1>6, <1>8 DEF Doors
  <1> QED
    BY <1>4, <1>9

LEMMA DoorsReadCode ==
    ASSUME FlowInv, Doors, ReadCode
    PROVE  Doors' /\ Silences
  <1>1. Types /\ Control /\ copier \in [Copier -> CopierRec]
    BY DEF FlowInv, ShapeInv, ControlInv, Types
  <1>2. h = "code" /\ x' = x /\ far' = far
    BY DEF ReadCode, exit
  <1>3. PICK c : \/ /\ h' = "copy" /\ copier' = RunningBoth("H", "D")
                    /\ Moves({Down("tun")}, {Down("app")}, Yes, {}, {})
                 \/ /\ h' = "over" /\ copier' = copier
                    /\ Moves({Down("tun")}, {Down("app")}, <<"code", c>>, bothEnds, {})
    BY <1>1, ReadCodeMoves
  <1>4. CASE h' = "copy" /\ copier' = RunningBoth("H", "D")
             /\ Moves({Down("tun")}, {Down("app")}, Yes, {}, {})
    <2>1. copier["H"].pc = "off" /\ copier["D"].pc = "off"
      BY <1>1, <1>2 DEF Control
    <2>2. \A k \in Copier : copier[k].pc = "done" => copier'[k].pc = "done"
      BY <1>1, <1>4, <2>1, RunningType, Ways
    <2>3. Paces
      BY <1>2, <2>2 DEF Paces
    <2> QED
      BY <1>4, <2>3, DoorsTakes
  <1>5. CASE h' = "over" /\ copier' = copier
             /\ Moves({Down("tun")}, {Down("app")}, <<"code", c>>, bothEnds, {})
    <2>1. Paces
      BY <1>2, <1>5, PacesSame
    <2> QED
      BY <1>5, <2>1, DoorsMoves
  <1> QED
    BY <1>3, <1>4, <1>5

LEMMA DoorsClient ==
    ASSUME FlowInv, Doors, Client
    PROVE  Doors' /\ (Silences \/ Unstarted)
  <1>1. Types
    BY DEF FlowInv, ShapeInv, ControlInv
  <1>2. CASE Filter \/ Search \/ Searched \/ Lookup \/ TimerFires
    <2>1. UNCHANGED <<far, x, copier, conn>> /\ (h = "over" => h' = "over")
      BY <1>2 DEF Filter, Search, Searched, Lookup, TimerFires, deciding, client, exit
    <2>2. Paces
      BY <2>1, PacesSame
    <2> QED
      BY <2>1, <2>2, DoorsStill
  <1>3. CASE AskName
    <2>1. UNCHANGED <<far, copier>> /\ h # "over" /\ x' = [x EXCEPT !["dns"] = "addr"]
      BY <1>3 DEF AskName
    <2>2. x'["tun"] = x["tun"]
      BY <1>1, <2>1 DEF Types
    <2>3. Paces
      BY <2>1, <2>2, PacesSame
    <2>4. PICK up : Opens("dns", up, {}, Nothing)
      BY <1>1, <1>3, AskMoves
    <2>5. \A c \in {"app", "tun", "srv"}, s \in Side : conn'[c][s] <=> conn[c][s]
      BY <2>4, OpensLeaves
    <2> QED
      BY <2>3, <2>5, DoorsStill
  <1>4. ASSUME UNCHANGED <<far, x, copier>>, h # "over" PROVE Paces
    BY <1>4, PacesSame
  <1>5. CASE ReadGreeting \/ ReadConnect \/ NameKnown \/ NameUnknown
    <2>1. UNCHANGED <<far, x, copier>> /\ h # "over"
      BY <1>5 DEF ReadGreeting, ReadConnect, NameKnown, NameUnknown, deciding, exit
    <2>2. Paces
      BY <1>4, <2>1
    <2>3. CASE Moves({}, {}, Nothing, {<<"dns", "left">>}, {})
      BY <2>2, <2>3, DoorsMoves
    <2>4. CASE \E tk, pt, item : Moves(tk, pt, item, {}, {})
      BY <2>2, <2>4, DoorsTakes
    <2> QED
      BY <1>1, <1>5, <2>3, <2>4, ClientMoves
  <1>6. CASE EndsRequest
    <2>1. UNCHANGED <<far, x, copier>> /\ h # "over" /\ h' = "over"
      BY <1>6 DEF EndsRequest, ReadRequestFails, ReadRequestPanics, exit
    <2>2. \A c \in {"app", "tun", "srv"}, s \in Side :
            conn'[c][s] <=> conn[c][s] /\ <<c, s>> \notin appEnd
      BY <1>1, <1>6, ClientMoves, ClosesLeaves
    <2>3. appEnd \subseteq bothEnds
      BY DEF bothEnds
    <2> QED
      BY <1>4, <2>1, <2>2, <2>3, DoorsOver
  <1>7. CASE NoTunnel \/ ReadCodeFails
    <2>1. UNCHANGED <<far, x, copier>> /\ h # "over" /\ h' = "over"
      BY <1>7 DEF NoTunnel, ReadCodeFails, exit
    <2>2. PICK ends \in {appEnd, bothEnds} : Moves({}, {Down("app")}, <<"code", 3>>, ends, {})
      BY <1>1, <1>7, ClientMoves
    <2>3. ends \subseteq bothEnds
      BY DEF bothEnds
    <2> QED
      BY <1>4, <2>1, <2>2, <2>3, DoorsMoves
  <1> QED
    BY <1>2, <1>3, <1>5, <1>6, <1>7, DoorsDialDirect, DoorsAskExit, DoorsReadCode 
       DEF Client, EndsRequest

LEMMA DoorsExit ==
    ASSUME FlowInv, Doors, Exit
    PROVE  Doors' /\ (Silences \/ Unstarted)
  <1>1. Types /\ Control
    BY DEF FlowInv, ShapeInv, ControlInv
  <1>2. UNCHANGED <<far, h>>
    <2>1. UNCHANGED exiting
      BY DEF Exit, ResolveForClient, ReadAddr, ReadAddrFails, Resolve, Dial, ExitRefuses
    <2> QED
      BY <2>1 DEF exiting, client
  <1>3. x \in [Tunnel -> {"off", "addr", "resolve", "dial", "copy", "over"}]
    BY <1>1 DEF Types
  <1>4. ASSUME copier' = copier, NEW t \in Tunnel, NEW p \in {"resolve", "dial", "over"},
               x' = [x EXCEPT ![t] = p], x[t] \in {"addr", "resolve", "dial"}
        PROVE  Paces /\ x'[t] = p
    <2>1. x'["tun"] = (IF t = "tun" THEN p ELSE x["tun"]) /\ x'[t] = p
      BY <1>3, <1>4, Ways
    <2> QED
      BY <1>2, <1>4, <2>1 DEF Paces
  <1>5. CASE ResolveForClient
    <2>1. copier' = copier /\ x' = [x EXCEPT !["dns"] = "over"] /\ x["dns"] = "addr"
      BY <1>5 DEF ResolveForClient
    <2>2. Paces
      BY <1>4, <2>1, Ways
    <2>3. PICK tk, pt, item : Moves(tk, pt, item, tunEnd("dns"), {})
      BY <1>1, <1>5, ExitMoves
    <2>4. tunEnd("dns") \subseteq {<<"app", "left">>, <<"srv", "right">>, <<"dns", "left">>, <<"dns", "right">>}
      BY DEF tunEnd
    <2> QED
      BY <2>2, <2>3, <2>4, DoorsMoves
  <1>6. CASE ReadAddr
    <2>1. copier' = copier /\ x' = [x EXCEPT !["tun"] = "resolve"] /\ x["tun"] = "addr"
      BY <1>6 DEF ReadAddr
    <2>2. Paces
      BY <1>4, <2>1, Ways
    <2> QED
      BY <1>1, <1>6, <2>2, ExitMoves, DoorsTakes
  <1>7. ASSUME NEW t \in Tunnel, ReadAddrFails(t) PROVE Doors' /\ Silences
    <2>1. copier' = copier /\ x' = [x EXCEPT ![t] = "over"] /\ x[t] = "addr"
      BY <1>7 DEF ReadAddrFails
    <2>2. Paces /\ x'[t] = "over"
      BY <1>4, <2>1
    <2>3. Moves({}, {}, Nothing, tunEnd(t), {})
      BY <1>1, <1>7, ExitMoves
    <2>4. \/ t = "tun"
          \/ tunEnd(t) \subseteq {<<"app", "left">>, <<"srv", "right">>, <<"dns", "left">>, <<"dns", "right">>}
      BY DEF tunEnd, Tunnel
    <2> QED
      BY <2>2, <2>3, <2>4, DoorsMoves
  <1>8. ASSUME NEW c \in Nat, ExitRefuses(c), x["tun"] \in {"resolve", "dial"}
        PROVE  Doors' /\ Silences
    <2>1. copier' = copier /\ x' = [x EXCEPT !["tun"] = "over"]
      BY <1>8 DEF ExitRefuses
    <2>2. Paces /\ x'["tun"] = "over"
      BY <1>4, <1>8, <2>1, Ways
    <2>3. Moves({}, {Down("tun")}, <<"code", c>>, tunEnd("tun"), {})
      BY <1>1, <1>8, ExitMoves
    <2> QED
      BY <2>2, <2>3, DoorsMoves
  <1>9. CASE Resolve
    <2>1. /\ x["tun"] = "resolve"
          /\ \/ ExitRefuses(4) \/ ExitRefuses(2)
             \/ UNCHANGED <<conn, copier>> /\ x' = [x EXCEPT !["tun"] = "dial"]
      BY <1>9 DEF Resolve
    <2>2. CASE UNCHANGED <<conn, copier>> /\ x' = [x EXCEPT !["tun"] = "dial"]
      <3>1. Paces
        BY <1>4, <2>1, <2>2, Ways
      <3> QED
        BY <2>2, <3>1, DoorsStill
    <2> QED
      BY <1>8, <2>1, <2>2
  <1>10. CASE Dial
    <2>1. x["tun"] = "dial" /\ (ExitRefuses(5) \/ UNCHANGED exiting)
      BY <1>10 DEF Dial, ExitRefuses
    <2>2. CASE /\ x' = [x EXCEPT !["tun"] = "copy"] /\ copier' = RunningBoth("E", "B")
               /\ Opens("srv", <<>>, {Down("tun")}, Yes)
      <3>1. Unstarted
        BY <2>1, Idles DEF Unstarted
      <3>2. x'["tun"] = "copy" /\ far = "tun"
        BY <1>1, <1>3, <2>1, <2>2, Ways DEF Control
      <3>3. /\ conn'["srv"].left
            /\ conn'["app"].right <=> conn["app"].right
            /\ conn'["tun"].left <=> conn["tun"].left
            /\ conn'["tun"].right <=> conn["tun"].right
        BY <2>2, OpensLeaves, Ways
      <3>4. ~Stopped("H") /\ ~Stopped("E")
        BY <3>1, Ways DEF Stopped, Unstarted, Hop
      <3>5. Doors'
        BY <1>2, <2>1, <3>2, <3>3, <3>4 DEF Doors
      <3> QED
        BY <3>1, <3>5
    <2> QED
      BY <1>1, <1>8, <1>10, <2>1, <2>2, DialMoves
  <1> QED
    BY <1>5, <1>6, <1>7, <1>9, <1>10 DEF Exit

LEMMA DoorsLoop ==
    ASSUME FlowInv, Doors, NEW k \in Copier, Loops(k)
    PROVE  Doors' /\ Silences
  <1>1. Types /\ Control /\ TunShape /\ copier \in [Copier -> CopierRec]
    BY DEF FlowInv, ShapeInv, Shape, ControlInv, Types
  <1>2. UNCHANGED <<far, h, x>>
    BY DEF Loops, client, exit
  <1>3. ASSUME NEW r, copier' = [copier EXCEPT ![k] = r], copier[k].pc # "done" PROVE Paces
    BY <1>1, <1>2, <1>3 DEF Paces
  <1>4. CASE LoopReads(k)
    <2>1. Paces
      BY <1>3, <1>4 DEF LoopReads
    <2> QED
      BY <1>4, <2>1, DoorsTakes DEF LoopReads
  <1>5. CASE LoopWrites(k)
    <2>1. Paces
      BY <1>3, <1>5 DEF LoopWrites
    <2> QED
      BY <1>5, <2>1, DoorsTakes DEF LoopWrites
  <1>6. CASE LoopLoses(k)
    <2>1. Paces
      BY <1>3, <1>6 DEF LoopLoses
    <2> QED
      BY <1>6, <2>1, DoorsStill DEF LoopLoses
  <1>7. CASE LoopStops(k)
    <2>1. Paces
      BY <1>3, <1>7 DEF LoopStops
    <2>2. copier'[k].pc = "done"
      BY <1>1, <1>7 DEF LoopStops
    <2>3. \A c \in {"app", "tun", "srv"}, s \in Side :
            conn'[c][s] <=> conn[c][s] /\ <<c, s>> \notin Ends(k)
      BY <1>7, ClosesLeaves DEF LoopStops
    <2>4. /\ k \in {"H", "D"} => h = "copy" /\ Stopped("H")'
          /\ k \in {"E", "B"} => far = "tun" /\ Stopped("E")'
      <3>1. /\ k \in {"H", "D"} => h = "copy"
            /\ k \in {"E", "B"} => far = "tun"
        BY <1>1, <1>7, LoopEnds DEF LoopStops, Control
      <3> QED
        BY <2>2, <3>1 DEF Stopped, Hop
    <2>5. x["tun"] = "copy" => far = "tun"
      BY <1>1 DEF Control
    <2>6. Leaves(Ends(k))
      <3>1. CASE k \in {"H", "D"}
        <4>1. Ends(k) = {<<"app", "right">>, <<far, "left">>}
          BY <3>1 DEF Ends
        <4> QED
          BY <1>2, <2>3, <2>4, <2>5, <3>1, <4>1 DEF Leaves
      <3>2. CASE k \in {"E", "B"}
        <4>1. Ends(k) = {<<"tun", "right">>, <<"srv", "left">>}
          BY <3>2 DEF Ends
        <4> QED
          BY <1>2, <2>3, <2>4, <2>5, <3>2, <4>1 DEF Leaves
      <3> QED
        BY <3>1, <3>2 DEF Copier
    <2> QED
      BY <2>1, <2>6, DoorsKept
  <1> QED
    BY <1>4, <1>5, <1>6, <1>7 DEF Loops

LEMMA DoorsUse ==
    ASSUME FlowInv, Doors, Uses
    PROVE  Doors' /\ Silences
  <1>1. Types
    BY DEF FlowInv, ShapeInv, ControlInv
  <1>2. Paces
    <2>1. UNCHANGED <<far, h, x, copier>>
      BY DEF Uses, Greet, Request, Answered, Write, Read, ReadEnd, Leave, talkOnly, client, exit
    <2> QED
      BY <2>1, PacesSame
  <1>3. CASE Greet \/ Request \/ Answered \/ \E u \in User : Write(u) \/ Read(u)
    <2>1. \E tk, pt, item : Moves(tk, pt, item, {}, {})
      BY <1>1, <1>3, UserMoves
    <2> QED
      BY <1>2, <2>1, DoorsTakes
  <1>4. ASSUME NEW u \in User, ReadEnd(u) PROVE Doors' /\ Silences
    BY <1>2, <1>4, DoorsStill DEF ReadEnd
  <1>5. ASSUME NEW u \in User, Leave(u) PROVE Doors' /\ Silences
    <2> DEFINE ends == {<<u, Writer(Mouth(u))>>}
    <2>1. ends \subseteq {<<"app", "left">>, <<"srv", "right">>, <<"dns", "left">>, <<"dns", "right">>}
      BY DEF User, Mouth, Up, Down, Writer
    <2>2. Closes(ends)
      BY <1>1, <1>5, UserMoves
    <2> HIDE DEF ends
    <2>3. \A c \in {"app", "tun", "srv"}, s \in Side :
            conn'[c][s] <=> conn[c][s] /\ <<c, s>> \notin ends
      BY <2>2, ClosesLeaves
    <2> QED
      BY <1>2, <2>1, <2>3, DoorsOver
  <1> QED
    BY <1>3, <1>4, <1>5 DEF Uses

LEMMA DoorsBreak ==
    ASSUME Doors, Breaks \/ UNCHANGED vars
    PROVE  Doors' /\ Silences
  <1>1. UNCHANGED <<conn, far, h, x, copier>>
    BY DEF Breaks, WireBreaks, Killed, Notice, HalfClose, vars, client, exit
  <1>2. Paces
    BY <1>1, PacesSame
  <1> QED
    BY <1>1, <1>2, DoorsStill

\* Who has shut down its writing side does not write again.
LEMMA HushedStays == ASSUME Types, [Next]_vars PROVE hushed \subseteq hushed'
  <1>1. ASSUME hushed' = hushed PROVE hushed \subseteq hushed'
    BY <1>1
  <1>2. CASE Client
    <2>1. CASE Filter \/ Search \/ Searched \/ Lookup \/ NameKnown \/ NameUnknown
      BY <2>1 DEF Filter, Search, Searched, Lookup, NameKnown, NameUnknown, deciding, user
    <2>2. CASE EndsRequest \/ ReadGreeting \/ ReadConnect \/ AskName \/ DialDirect \/ AskExit
               \/ NoTunnel \/ ReadCode \/ ReadCodeFails \/ TimerFires
      BY <2>2 DEF EndsRequest, ReadRequestFails, ReadRequestPanics, ReadGreeting, ReadConnect,
             AskName, DialDirect, AskExit, NoTunnel, ReadCode, ReadCodeFails, TimerFires, user
    <2> QED
      BY <1>2, <2>1, <2>2 DEF Client, EndsRequest
  <1>3. CASE Exit
    <2>1. UNCHANGED exiting
      BY <1>3 DEF Exit, ResolveForClient, ReadAddr, ReadAddrFails, Resolve, Dial, ExitRefuses
    <2> QED
      BY <1>1, <2>1 DEF exiting, user
  <1>4. CASE \E k \in Copier : Loops(k)
    BY <1>1, <1>4 DEF Loops, user
  <1>5. CASE Uses
    BY <1>1, <1>5 DEF Uses, Greet, Request, Answered, Write, Read, ReadEnd, Leave, talkOnly
  <1>6. CASE Breaks \/ UNCHANGED vars
    BY <1>6 DEF Breaks, WireBreaks, Killed, Notice, HalfClose, vars, user
  <1> QED
    BY <1>2, <1>3, <1>4, <1>5, <1>6, NextCases

LEMMA SilencesQuiet ==
    ASSUME Silences, Types, [Next]_vars
    PROVE  Quiet
  BY HushedStays DEF Silences, Quiet, Mute

LEMMA DoorsStep ==
    ASSUME FlowInv, Doors, [Next]_vars
    PROVE  Doors' /\ (Quiet \/ Unstarted)
  <1>1. Types
    BY DEF FlowInv, ShapeInv, ControlInv
  <1> QED
    BY <1>1, NextCases, DoorsClient, DoorsExit, DoorsLoop, DoorsUse, DoorsBreak, SilencesQuiet

-----------------------------------------------------------------------------
Numbers ==
    /\ \A k \in Copier : Before(k) \in Nat
    /\ \A u \in User : sent[u] \in Nat /\ Heard(u) \in Nat /\ Afoot(u) \in Nat

LEMMA CountsAll == FlowInv => Numbers
  BY Counts DEF Numbers

LEMMA CountsNext == FlowInv' => Numbers'
  BY CountsAll, PTL

LEMMA OtherIs ==
    /\ \A u \in User : Other(u) \in User /\ Other(Other(u)) = u
    /\ \A k \in Copier : Speaker(k) \in User /\ \A j \in Hop(k) : j \in Copier
  BY DEF User, Other, Speaker, Hop, Copier

LEMMA Evens ==
    ASSUME NEW s \in Nat, NEW a \in Nat, NEW e \in Nat, NEW t \in Nat, NEW b \in Nat, NEW f \in Nat,
           s = a + e, t + a + e = s + b + f
    PROVE  t = b + f
  OBVIOUS

\* What a step without a cause has to see to
LEMMA CleanGoes ==
    ASSUME FlowInv, FlowInv', Kept, Hops, Whole, Quiet, Ebbs,
           \A u \in User : Balanced(u) \/ Mute(Other(u)),
           \A k \in Copier : copier'[k].pc = "done" =>
             copier[k].pc = "done" \/ \E j \in Hop(k) : Drained(j),
           \A u \in User : SawEnd(u)' =>
             /\ SawEnd(u) \/ u \in hushed \/ (Mute(Other(u)) /\ Heard(u) = sent[Other(u)])
             /\ Heard(u)' = Heard(u),
           \A u \in User : Mute(u) => sent'[u] = sent[u]
    PROVE  Kept' /\ Hops' /\ Whole'
  <1>1. Numbers /\ Numbers'
    BY CountsAll, CountsNext
  <1>2. ASSUME NEW u \in User, ~Mute(Other(u))
        PROVE  sent'[u] = Afoot(u)' + Heard(Other(u))'
    <2>1. Balanced(u) /\ sent[u] = Afoot(u) + Heard(Other(u))
      BY <1>2 DEF Kept
    <2>2. /\ sent[u] \in Nat /\ Afoot(u) \in Nat /\ Heard(Other(u)) \in Nat
          /\ sent'[u] \in Nat /\ Afoot(u)' \in Nat
      BY <1>1, OtherIs DEF Numbers
    <2>3. Heard(Other(u))' \in Nat
      <3> SUFFICES ASSUME NEW v \in User, v = Other(u) PROVE Heard(v)' \in Nat
        BY OtherIs
      <3> QED
        BY <1>1 DEF Numbers
    <2>4. sent'[u] + Afoot(u) + Heard(Other(u)) = sent[u] + Afoot(u)' + Heard(Other(u))'
      BY <2>1 DEF Balanced
    <2>5. sent[u] = Afoot(u) + Heard(Other(u))
      BY <2>1
    <2> QED
      BY <2>2, <2>3, <2>4, <2>5, Evens
  <1>3. Kept'
    <2>1. ASSUME NEW u \in User
          PROVE  Mute(Other(u))' \/ sent'[u] = Afoot(u)' + Heard(Other(u))'
      <3>1. CASE Mute(Other(u))
        <4> SUFFICES ASSUME NEW v \in User, v = Other(u), Mute(v) PROVE Mute(v)'
          BY <3>1, OtherIs
        <4> QED
          BY DEF Quiet
      <3> QED
        BY <1>2, <3>1
    <2> QED
      BY <2>1 DEF Kept
  <1>4. ASSUME NEW j \in Copier, Drained(j) PROVE Drained(j)'
    <2>1. Before(j)' <= 0 /\ Before(j)' \in Nat
      BY <1>4 DEF Ebbs, Drained
    <2>2. Mute(Speaker(j))'
      <3> SUFFICES ASSUME NEW v \in User, v = Speaker(j), Mute(v) PROVE Mute(v)'
        BY <1>4, OtherIs DEF Drained
      <3> QED
        BY DEF Quiet
    <2> QED
      BY <2>1, <2>2 DEF Drained
  <1>5. Hops'
    <2> SUFFICES ASSUME NEW k \in Copier, copier'[k].pc = "done" PROVE \E j \in Hop(k) : Drained(j)'
      BY DEF Hops
    <2>1. PICK j \in Hop(k) : Drained(j)
      BY DEF Hops
    <2> QED
      BY <1>4, <2>1, OtherIs
  <1>6. Whole'
    <2> SUFFICES ASSUME NEW u \in User, SawEnd(u)', u \notin hushed
                 PROVE  Mute(Other(u))' /\ Heard(u)' = sent'[Other(u)]
      BY DEF Whole, Quiet
    <2>1. Mute(Other(u)) /\ Heard(u) = sent[Other(u)] /\ Heard(u)' = Heard(u)
      BY DEF Whole
    <2>2. sent'[Other(u)] = sent[Other(u)]
      BY <2>1, OtherIs
    <2>3. Mute(Other(u))'
      <3> SUFFICES ASSUME NEW v \in User, v = Other(u), Mute(v) PROVE Mute(v)'
        BY <2>1, OtherIs
      <3> QED
        BY DEF Quiet
    <2> QED
      BY <2>1, <2>2, <2>3
  <1> QED
    BY <1>3, <1>5, <1>6


LEMMA CleanFresh ==
    ASSUME Fresh
    PROVE  Kept' /\ Hops' /\ Whole'
  <1>1. \A ch \in Way : Load(ch)' = 0
    BY DEF Fresh, Load
  <1>2. \A k \in Copier : Hand(k)' = 0 /\ copier'[k].pc # "done"
    BY DEF Fresh, Hand
  <1>3. \A u \in User : ~SawEnd(u)' /\ Heard(u)' = 0 /\ sent'[u] = 0
    BY DEF Fresh, SawEnd, Heard
  <1>4. /\ Load(Up("app"))' = 0 /\ Load(Up("tun"))' = 0 /\ Load(Up("srv"))' = 0
        /\ Load(Down("app"))' = 0 /\ Load(Down("tun"))' = 0 /\ Load(Down("srv"))' = 0
        /\ Hand("H")' = 0 /\ Hand("D")' = 0 /\ Hand("E")' = 0 /\ Hand("B")' = 0
    BY <1>1, <1>2, AppWay, Ways
  <1>5. Afoot("app")' = 0 /\ Afoot("srv")' = 0
    BY <1>4, SumsNext
  <1>6. Heard("app")' = 0 /\ Heard("srv")' = 0 /\ sent'["app"] = 0 /\ sent'["srv"] = 0
    BY <1>3, Ways
  <1>7. Kept'
    BY <1>5, <1>6 DEF Kept, User, Other
  <1> QED
    BY <1>2, <1>3, <1>7 DEF Hops, Whole

LEMMA CleanRipple ==
    ASSUME FlowInv, FlowInv', Kept, Hops, Whole, Ripple, Quiet \/ Unstarted, causes' = {}
    PROVE  Kept' /\ Hops' /\ Whole'
  <1>1. CASE Rests /\ Quiet
    <2>1. Ebbs /\ \A u \in User : Balanced(u)
      BY <1>1, CountsRest
    <2>2. /\ UNCHANGED <<sent, got>>
          /\ \A k \in Copier : copier'[k].pc = "done" => copier[k].pc = "done"
      BY <1>1 DEF Rests
    <2>3. \A u \in User : SawEnd(u)' = SawEnd(u) /\ Heard(u)' = Heard(u)
      BY <2>2 DEF SawEnd, Heard
    <2> QED
      BY <1>1, <2>1, <2>2, <2>3, CleanGoes
  <1>2. CASE Rests /\ Unstarted
    <2>1. ASSUME NEW ch \in Way PROVE Held(Queue(ch)') = 0
      <3>1. Origin(ch) \in User
        BY WayNames
      <3>2. Held(Queue(ch)) = 0
        BY <1>2, <3>1, NothingSent DEF Unstarted
      <3> QED
        BY <1>2, <3>2 DEF Rests, Even
    <2>2. Fresh
      BY <1>2, <2>1 DEF Fresh, Rests, Unstarted
    <2> QED
      BY <2>2, CleanFresh
  <1> QED
    BY <1>1, <1>2, CleanFresh DEF Ripple

\* A loop that stops loses nothing of one who still speaks.
LEMMA HandBefore ==
    ASSUME FlowInv, NEW k \in Copier, Hand(k) = 1
    PROVE  Before(k) # 0 /\ \A j \in Hop(k) : Drained(j) => Mute(Other(Speaker(k)))
  <1>1. Before(k) # 0
    BY Parts, Sums DEF Copier
  <1>2. ASSUME NEW j \in Hop(k), j # k PROVE Speaker(j) = Other(Speaker(k))
    BY <1>2 DEF Hop, Copier, Speaker, Other
  <1> QED
    BY <1>1, <1>2 DEF Drained

LEMMA CleanLoop ==
    ASSUME FlowInv, FlowInv', Fading, Doors, Alive, Kept, Hops, Whole, Quiet, causes' = {},
           NEW k \in Copier, Loops(k)
    PROVE  Kept' /\ Hops' /\ Whole'
  <1>1. Types /\ copier \in [Copier -> CopierRec]
    BY DEF FlowInv, ShapeInv, ControlInv, Types
  <1>2. UNCHANGED <<far, sent, got>>
    BY DEF Loops, client, user
  <1>3. \A u \in User : SawEnd(u)' = SawEnd(u) /\ Heard(u)' = Heard(u) /\ sent'[u] = sent[u]
    BY <1>2 DEF SawEnd, Heard
  <1>4. ASSUME NEW r, copier' = [copier EXCEPT ![k] = r], r.pc # "done",
               Ebbs, \A u \in User : Balanced(u)
        PROVE  Kept' /\ Hops' /\ Whole'
    <2>1. \A j \in Copier : copier'[j].pc = "done" => copier[j].pc = "done"
      BY <1>1, <1>4
    <2> QED
      BY <1>3, <1>4, <2>1, CleanGoes
  <1>5. CASE LoopReads(k)
    <2>1. Ebbs /\ \A u \in User : Balanced(u)
      BY <1>2, <1>5, CountsReads
    <2> DEFINE r == [pc |-> "write", piece |-> First(In(k))[2]]
    <2>2. copier' = [copier EXCEPT ![k] = r] /\ r.pc # "done"
      BY <1>5 DEF LoopReads
    <2> HIDE DEF r
    <2> QED
      BY <1>4, <2>1, <2>2
  <1>6. CASE LoopWrites(k)
    <2>1. Ebbs /\ \A u \in User : Balanced(u)
      BY <1>2, <1>6, CountsWrites
    <2> DEFINE r == [pc |-> "read", piece |-> 0]
    <2>2. copier' = [copier EXCEPT ![k] = r] /\ r.pc # "done"
      BY <1>6 DEF LoopWrites
    <2> HIDE DEF r
    <2> QED
      BY <1>4, <2>1, <2>2
  <1>7. CASE LoopStops(k)
    <2>1. /\ Runs(k) /\ Cleanly(k) /\ Closes(Ends(k))
          /\ copier' = [copier EXCEPT ![k] = [pc |-> "done", piece |-> 0]]
      BY <1>7 DEF LoopStops, Runs
    <2>2. PICK j \in Hop(k) : Drained(j)
      BY <2>1, StopDrains
    <2>3. Even
      BY <1>1, <2>1, CalmCloses
    <2>4. Ebbs /\ \A u \in User : Balanced(u) \/ (u = Speaker(k) /\ Hand(k) = 1)
      BY <1>2, <2>1, <2>3, CountsStops
    <2>5. \A u \in User : Balanced(u) \/ Mute(Other(u))
      BY <2>2, <2>4, HandBefore
    <2>6. \A i \in Copier : copier'[i].pc = "done" =>
            copier[i].pc = "done" \/ \E l \in Hop(i) : Drained(l)
      <3> SUFFICES ASSUME NEW i \in Copier, copier'[i].pc = "done"
                   PROVE  copier[i].pc = "done" \/ \E l \in Hop(i) : Drained(l)
        OBVIOUS
      <3>1. i = k \/ copier'[i] = copier[i]
        BY <1>1, <2>1
      <3> QED
        BY <2>2, <3>1
    <2> QED
      BY <1>3, <2>4, <2>5, <2>6, CleanGoes
  <1>8. ~LoopLoses(k)
    BY DEF LoopLoses
  <1> QED
    BY <1>5, <1>6, <1>7, <1>8 DEF Loops

LEMMA CleanWrite ==
    ASSUME FlowInv, FlowInv', Kept, Hops, Whole, Quiet, NEW u \in User, Write(u)
    PROVE  Kept' /\ Hops' /\ Whole'
  <1>1. Types /\ ShapeInv
    BY DEF FlowInv, ShapeInv, ControlInv
  <1>2. UNCHANGED <<got, copier>> /\ sent' = [sent EXCEPT ![u] = @ + 1] /\ Talking(u)
    <2>1. UNCHANGED <<got, copier>> /\ sent' = [sent EXCEPT ![u] = @ + 1]
      BY DEF Write, talkOnly
    <2>2. Talking(u)
      BY DEF Write
    <2> QED
      BY <2>1, <2>2
  <1>3. Ebbs /\ \A v \in User : Balanced(v)
    BY CountsWrite
  <1>4. \A v \in User : SawEnd(v)' = SawEnd(v) /\ Heard(v)' = Heard(v)
    BY <1>2 DEF SawEnd, Heard
  <1>5. ~Mute(u)
    BY <1>1, <1>2, TalkingIs DEF Mute, Silent, Talking, Write
  <1>6. \A v \in User : Mute(v) => sent'[v] = sent[v]
    BY <1>1, <1>2, <1>5 DEF Types
  <1>7. \A k \in Copier : copier'[k].pc = "done" => copier[k].pc = "done"
    BY <1>2
  <1> QED
    BY <1>3, <1>4, <1>6, <1>7, CleanGoes

LEMMA CleanRead ==
    ASSUME FlowInv, FlowInv', Fading, Kept, Hops, Whole, Quiet, NEW u \in User, Read(u)
    PROVE  Kept' /\ Hops' /\ Whole'
  <1>1. Types
    BY DEF FlowInv, ShapeInv, ControlInv
  <1>2. UNCHANGED <<sent, copier>> /\ got' = [got EXCEPT ![u] = Append(@, First(Ear(u))[2])]
    BY DEF Read, talkOnly
  <1>3. Ebbs /\ (\A v \in User : Balanced(v)) /\ ~SawEnd(u)'
    BY CountsRead
  <1>4. \A v \in User : v # u => SawEnd(v)' = SawEnd(v) /\ Heard(v)' = Heard(v)
    BY <1>1, <1>2 DEF Types, SawEnd, Heard
  <1>5. \A v \in User : SawEnd(v)' => SawEnd(v) /\ Heard(v)' = Heard(v)
    BY <1>3, <1>4
  <1>6. /\ \A v \in User : Mute(v) => sent'[v] = sent[v]
        /\ \A k \in Copier : copier'[k].pc = "done" => copier[k].pc = "done"
    BY <1>2
  <1> QED
    BY <1>3, <1>5, <1>6, CleanGoes

LEMMA CleanReadEnd ==
    ASSUME FlowInv, FlowInv', Fading, Doors, Alive, Kept, Hops, Whole, Quiet,
           NEW u \in User, ReadEnd(u)
    PROVE  Kept' /\ Hops' /\ Whole'
  <1>1. UNCHANGED <<sent, copier>> /\ Talking(u)
    BY DEF ReadEnd, talkOnly
  <1>2. Ebbs /\ \A v \in User : Balanced(v)
    BY CountsReadEnd
  <1>3. /\ Queue(Ear(u)) = <<>> /\ ~conn[u][Writer(Ear(u))]
        /\ \A v \in User : Heard(v)' = Heard(v) /\ (v # u => SawEnd(v)' = SawEnd(v))
    BY FlowReadEnd
  <1>4. u \in hushed \/ (Mute(Other(u)) /\ Heard(u) = sent[Other(u)])
    BY <1>1, <1>3, EndIsWhole
  <1>5. \A v \in User : SawEnd(v)' =>
          /\ SawEnd(v) \/ v \in hushed \/ (Mute(Other(v)) /\ Heard(v) = sent[Other(v)])
          /\ Heard(v)' = Heard(v)
    BY <1>3, <1>4
  <1>6. /\ \A v \in User : Mute(v) => sent'[v] = sent[v]
        /\ \A k \in Copier : copier'[k].pc = "done" => copier[k].pc = "done"
    BY <1>1
  <1> QED
    BY <1>2, <1>5, <1>6, CleanGoes


LEMMA CleanUse ==
    ASSUME FlowInv, FlowInv', Fading, Doors, Alive, Kept, Hops, Whole, Quiet, causes' = {}, Uses
    PROVE  Kept' /\ Hops' /\ Whole'
  <1>1. Types
    BY DEF FlowInv, ShapeInv, ControlInv
  <1>2. ASSUME NEW u \in User, Leave(u) PROVE Ripple
    <2>1. UNCHANGED <<far, sent, got, copier>>
      BY <1>2 DEF Leave, talkOnly, client
    <2>2. \E ends : Closes(ends)
      BY <1>1, <1>2, UserMoves
    <2> QED
      BY <2>1, <2>2, FlowRests
  <1>3. CASE Greet \/ Request \/ Answered
    BY <1>3, FlowAsks, CleanRipple
  <1> QED
    BY <1>2, <1>3, CleanRipple, CleanWrite, CleanRead, CleanReadEnd DEF Uses

LEMMA CauseStep ==
    ASSUME CauseInv, [Next]_vars
    PROVE  CauseInv'
  <1>1. FlowInv /\ Doors /\ Clean /\ Types
    BY DEF CauseInv, FlowInv, ShapeInv, ControlInv
  <1>2. FlowInv' /\ Types' /\ Fading /\ Lasts
    BY <1>1, FlowStep, TypesStep, FadingStep, LastsStep
  <1>3. Doors' /\ (Quiet \/ Unstarted)
    BY <1>1, DoorsStep
  <1>4. ASSUME causes' = {} PROVE Alive' /\ Kept' /\ Hops' /\ Whole'
    <2>1. Alive /\ Kept /\ Hops /\ Whole /\ Alive'
      BY <1>1, <1>2, <1>4 DEF Clean, Lasts
    <2>2. CASE Client \/ Exit \/ Breaks \/ UNCHANGED vars
      <3>1. Ripple
        BY <1>1, <1>2, <2>2, FlowClient, FlowExit, FlowBreak
      <3> QED
        BY <1>1, <1>2, <1>3, <1>4, <2>1, <3>1, CleanRipple
    <2>3. ASSUME NEW k \in Copier, Loops(k) PROVE Kept' /\ Hops' /\ Whole'
      <3>1. Quiet
        BY <1>1, <2>3, DoorsLoop, SilencesQuiet
      <3> QED
        BY <1>1, <1>2, <1>4, <2>1, <2>3, <3>1, CleanLoop
    <2>4. CASE Uses
      <3>1. Quiet
        BY <1>1, <2>4, DoorsUse, SilencesQuiet
      <3> QED
        BY <1>1, <1>2, <1>4, <2>1, <2>4, <3>1, CleanUse
    <2> QED
      BY <1>1, <2>1, <2>2, <2>3, <2>4, NextCases
  <1> QED
    BY <1>2, <1>3, <1>4 DEF CauseInv, Clean

LEMMA CauseInit == Init => Doors /\ Clean
  <1> SUFFICES ASSUME Init PROVE Doors /\ Clean
    OBVIOUS
  <1>1. /\ \A ch \in Way : Queue(ch) = <<>>
        /\ conn["app"].right
    <2>1. ASSUME NEW c \in Conn PROVE conn[c].up = <<>> /\ conn[c].down = <<>>
      BY NewConnIs, OpenConnIs DEF Init
    <2>2. ASSUME NEW ch \in Way PROVE Queue(ch) = <<>>
      <3>1. ch[1] \in Conn /\ (ch[2] = "up" \/ ch[2] = "down")
        BY WayNames, Names DEF Dir
      <3> QED
        BY <2>1, <3>1 DEF Queue
    <2> QED
      BY <2>2, Ways, OpenConnIs DEF Init
  <1>2. /\ \A k \in Copier : copier[k].pc = "off"
        /\ \A u \in User : sent[u] = 0 /\ got[u] = <<>>
        /\ far = "app" /\ x["tun"] = "off" /\ wire /\ \A s \in Side : ~dead[s]
    BY Ways DEF Init
  <1>3. Doors
    BY <1>1, <1>2 DEF Doors
  <1>4. Alive
    BY <1>2, Ways DEF Alive
  <1>5. Kept
    <2>1. \A ch \in Way : Load(ch) = 0
      BY <1>1, EmptyLoad
    <2>2. \A k \in Copier : Hand(k) = 0
      BY <1>2 DEF Hand
    <2>3. /\ Load(Up("app")) = 0 /\ Load(Up("tun")) = 0 /\ Load(Up("srv")) = 0
          /\ Load(Down("app")) = 0 /\ Load(Down("tun")) = 0 /\ Load(Down("srv")) = 0
          /\ Hand("H") = 0 /\ Hand("D") = 0 /\ Hand("E") = 0 /\ Hand("B") = 0
      BY <2>1, <2>2, AppWay, Ways
    <2>4. Afoot("app") = 0 /\ Afoot("srv") = 0
      BY <2>3, Sums
    <2>5. \A u \in User : sent[u] = 0 /\ Heard(u) = 0
      BY <1>2 DEF Heard, SawEnd
    <2> QED
      BY <2>4, <2>5 DEF Kept, User, Other
  <1>6. Hops /\ Whole
    BY <1>2 DEF Hops, Whole, SawEnd
  <1> QED
    BY <1>3, <1>4, <1>5, <1>6 DEF Clean

\* As long as no cause has come up, every piece is in a queue, in the hands of a
\* loop or read, a loop has stopped only where nothing was left to copy, and a
\* program has closed an end only after a loop of its own had stopped.
THEOREM CauseSafe == Spec => []CauseInv
  <1>1. Init => CauseInv
    BY TypesInit, ControlInit, ShapeInit, FlowInit, CauseInit DEF CauseInv, FlowInv, ShapeInv, ControlInv
  <1>2. CauseInv /\ [Next]_vars => CauseInv'
    BY CauseStep
  <1> QED
    BY <1>1, <1>2, PTL DEF Spec

\* A user who has not shut down its own writing side and reads the end has read all
\* that the other wrote, unless the exit has refused, a deadline has passed, a
\* Context has died or somebody wrote to one who had left: the Closes of the four
\* loops by themselves cut off nobody else.
THEOREM ProxyCutForACause == Spec => []CutForACause
  <1>1. CauseInv => CutForACause
    <2> SUFFICES ASSUME CauseInv, NEW u \in User, SawEnd(u), causes = {}, u \notin hushed
                 PROVE  Len(got[u]) = sent[Other(u)] + 1
      BY DEF CutForACause
    <2>1. Heard(u) = sent[Other(u)]
      BY DEF CauseInv, Clean, Whole
    <2>2. Types
      BY DEF CauseInv, FlowInv, ShapeInv, ControlInv
    <2>3. got[u] \in Seq(Nat)
      BY <2>2 DEF Types
    <2>4. Heard(u) = Len(got[u]) - 1 /\ Len(got[u]) \in Nat
      BY <2>3 DEF Heard
    <2> QED
      BY <2>1, <2>4
  <1> QED
    BY <1>1, CauseSafe, PTL
=============================================================================
