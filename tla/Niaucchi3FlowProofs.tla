------------------------ MODULE Niaucchi3FlowProofs ------------------------
(* A lone tunnel of Niaucchi3 is the flow control of two streams, whatever  *)
(* its windows, its credits and what it carries.                            *)
(*                                                                          *)
(* Each action is followed in the eyes of FlowControl, for the stream that  *)
(* starts at end e: a socket takes a token, dies, sends, opens, closes or   *)
(* reads; mainThread unpacks a segment; a Context goes.  What the mapping   *)
(* counts is counted by CarriedAppend and CarriedTail.  The last part says  *)
(* what a lone tunnel has beyond CreditInv, LoneInv.                        *)
EXTENDS Niaucchi3Flow, Niaucchi3Proofs
-----------------------------------------------------------------------------
(* What a lone tunnel has beyond the account of its windows.                *)

\* OPEN is the first segment of the client and finds the accept queue empty.
Opening ==
    /\ sok[<<"client", 1>>].stage = "reserved" => wire["client"] = <<>> /\ acptQueue = <<>>
    /\ \A k \in 1..Len(wire["client"]) :
         wire["client"][k].flag = "OPEN" => k = 1 /\ acptQueue = <<>>

\* A mainThread that has failed takes no more segments.
FailedStops == \A e \in End : ctx[e].failed => ~ctx[e].main

\* A reader that has been handed CLOS has none to come, even on a wire that
\* nobody unpacks any longer.
ClosOnce == \A e \in End : Ended(Reader(e)) => ~Closes(wire[e])

Lone == crossed = {} /\ Opening /\ FailedStops /\ ClosOnce
LoneInv == CreditInv /\ Lone

CarriedAt(flag, q) == {k \in DOMAIN q : q[k].flag = flag}

-----------------------------------------------------------------------------
(* Segments of a flag in a queue.                                           *)

LEMMA CarriedFinite ==
    ASSUME NEW q \in Seq(SegmentRec), NEW flag
    PROVE  /\ IsFiniteSet(CarriedAt(flag, q)) /\ Carried(flag, q) \in Nat
           /\ Carried(flag, q) = Cardinality(CarriedAt(flag, q))
           /\ \A k : k \in CarriedAt(flag, q) <=> k \in 1..Len(q) /\ q[k].flag = flag
  <1>1. Len(q) \in Int /\ 1 \in Int /\ DOMAIN q = 1..Len(q)
    OBVIOUS
  <1>2. IsFiniteSet(1..Len(q))
    BY <1>1, FS_Interval
  <1>3. CarriedAt(flag, q) \in SUBSET (1..Len(q))
    BY <1>1 DEF CarriedAt
  <1>4. IsFiniteSet(CarriedAt(flag, q))
    BY <1>2, <1>3, FS_Subset
  <1>5. Carried(flag, q) = Cardinality(CarriedAt(flag, q))
    BY DEF Carried, CarriedAt
  <1>6. Carried(flag, q) \in Nat
    BY <1>4, <1>5, FS_CardinalityType
  <1> QED
    BY <1>1, <1>4, <1>5, <1>6 DEF CarriedAt

\* A queue of DATA only, and one without any segment of a kind
LEMMA CarriedEnds ==
    ASSUME NEW q \in Seq(SegmentRec), NEW flag
    PROVE  /\ (\A k \in 1..Len(q) : q[k].flag = flag) => Carried(flag, q) = Len(q)
           /\ (\A k \in 1..Len(q) : q[k].flag # flag) => Carried(flag, q) = 0
  <1>1. /\ Carried(flag, q) = Cardinality(CarriedAt(flag, q))
        /\ \A k : k \in CarriedAt(flag, q) <=> k \in 1..Len(q) /\ q[k].flag = flag
    BY CarriedFinite
  <1>2. ASSUME \A k \in 1..Len(q) : q[k].flag = flag PROVE Carried(flag, q) = Len(q)
    <2>1. CarriedAt(flag, q) = 1..Len(q)
      BY <1>1, <1>2
    <2>2. Len(q) \in Nat /\ Len(q) \in Int /\ 1 \in Int
      OBVIOUS
    <2>3. Cardinality(1..Len(q)) = IF 1 > Len(q) THEN 0 ELSE Len(q) - 1 + 1
      BY <2>2, FS_Interval
    <2> QED
      BY <1>1, <2>1, <2>2, <2>3
  <1>3. ASSUME \A k \in 1..Len(q) : q[k].flag # flag PROVE Carried(flag, q) = 0
    <2>1. CarriedAt(flag, q) = {}
      BY <1>1, <1>3
    <2> QED
      BY <1>1, <2>1, FS_EmptySet
  <1> QED
    BY <1>2, <1>3

\* A segment more at the end of a queue
LEMMA CarriedAppend ==
    ASSUME NEW q \in Seq(SegmentRec), NEW x \in SegmentRec, NEW flag
    PROVE  /\ Carried(flag, Append(q, x))
                = IF x.flag = flag THEN Carried(flag, q) + 1 ELSE Carried(flag, q)
           /\ Closes(Append(q, x)) <=> Closes(q) \/ x.flag = "CLOS"
  <1> DEFINE v == Append(q, x)
             L == Len(q) + 1
  <1>1. /\ Len(v) = L /\ v[L] = x /\ (\A k \in 1..Len(q) : v[k] = q[k]) /\ Len(q) \in Nat
        /\ v \in Seq(SegmentRec) /\ DOMAIN v = 1..L /\ DOMAIN q = 1..Len(q)
    BY AppendProperties
  <1> HIDE DEF v
  <1>2. \A k : k \in 1..L <=> k \in 1..Len(q) \/ k = L
    BY <1>1
  <1>3. /\ \A k : k \in CarriedAt(flag, q) <=> k \in 1..Len(q) /\ q[k].flag = flag
        /\ \A k : k \in CarriedAt(flag, v) <=> k \in 1..Len(v) /\ v[k].flag = flag
        /\ Carried(flag, q) = Cardinality(CarriedAt(flag, q))
        /\ Carried(flag, v) = Cardinality(CarriedAt(flag, v))
        /\ IsFiniteSet(CarriedAt(flag, q))
    BY <1>1, CarriedFinite
  <1>4. L \notin CarriedAt(flag, q)
    BY <1>1, <1>3
  <1>5. ASSUME x.flag = flag PROVE Carried(flag, v) = Carried(flag, q) + 1
    <2>1. CarriedAt(flag, v) = CarriedAt(flag, q) \cup {L}
      BY <1>1, <1>2, <1>3, <1>5
    <2>2. Cardinality(CarriedAt(flag, q) \cup {L}) = Cardinality(CarriedAt(flag, q)) + 1
      BY <1>3, <1>4, FS_AddElement
    <2> QED
      BY <1>3, <2>1, <2>2
  <1>6. ASSUME x.flag # flag PROVE Carried(flag, v) = Carried(flag, q)
    <2>1. CarriedAt(flag, v) = CarriedAt(flag, q)
      BY <1>1, <1>2, <1>3, <1>6
    <2> QED
      BY <1>3, <2>1
  <1>7. Closes(v) <=> Closes(q) \/ x.flag = "CLOS"
    BY <1>1, <1>2 DEF Closes
  <1>8. Carried(flag, v) = IF x.flag = flag THEN Carried(flag, q) + 1 ELSE Carried(flag, q)
    BY <1>5, <1>6
  <1> QED
    BY <1>7, <1>8 DEF v

\* The first segment off a queue
LEMMA CarriedTail ==
    ASSUME NEW q \in Seq(SegmentRec), q # <<>>, NEW flag
    PROVE  /\ Carried(flag, q) = IF q[1].flag = flag THEN Carried(flag, Tail(q)) + 1
                                                     ELSE Carried(flag, Tail(q))
           /\ Closes(q) <=> Closes(Tail(q)) \/ q[1].flag = "CLOS"
  <1> DEFINE v == Tail(q)
             f == [k \in CarriedAt(flag, v) |-> k + 1]
             later == CarriedAt(flag, q) \ {1}
  <1>1. /\ v \in Seq(SegmentRec) /\ Len(q) \in Nat /\ Len(q) > 0 /\ Len(v) = Len(q) - 1
        /\ \A k \in 1..Len(v) : v[k] = q[k + 1]
        /\ DOMAIN v = 1..Len(v) /\ DOMAIN q = 1..Len(q)
    BY HeadTailProperties
  <1> HIDE DEF v
  <1>2. /\ \A k : k \in CarriedAt(flag, q) <=> k \in 1..Len(q) /\ q[k].flag = flag
        /\ \A k : k \in CarriedAt(flag, v) <=> k \in 1..Len(v) /\ v[k].flag = flag
        /\ Carried(flag, q) = Cardinality(CarriedAt(flag, q)) /\ Carried(flag, q) \in Nat
        /\ Carried(flag, v) = Cardinality(CarriedAt(flag, v))
        /\ IsFiniteSet(CarriedAt(flag, q)) /\ IsFiniteSet(CarriedAt(flag, v))
    BY <1>1, CarriedFinite
  <1>3. \A k : k \in CarriedAt(flag, v) => k \in Nat /\ k + 1 \in later
    BY <1>1, <1>2
  <1>4. \A k \in later : k - 1 \in CarriedAt(flag, v) /\ (k - 1) + 1 = k
    BY <1>1, <1>2
  <1>5. f \in [CarriedAt(flag, v) -> later]
    BY <1>3
  <1>6. \A a, b \in CarriedAt(flag, v) : f[a] = f[b] => a = b
    BY <1>3
  <1>7. \A t \in later : \E s \in CarriedAt(flag, v) : f[s] = t
    BY <1>4
  <1> HIDE DEF f
  <1>8. f \in Bijection(CarriedAt(flag, v), later)
    BY <1>5, <1>6, <1>7, Fun_IsBij
  <1>9. ExistsBijection(CarriedAt(flag, v), later)
    BY <1>8, Fun_ExistsBij
  <1>10. Cardinality(later) = Carried(flag, v)
    BY <1>2, <1>9, FS_Bijection
  <1>11. Cardinality(later)
           = IF 1 \in CarriedAt(flag, q) THEN Carried(flag, q) - 1 ELSE Carried(flag, q)
    BY <1>2, FS_RemoveElement
  <1>12. 1 \in CarriedAt(flag, q) <=> q[1].flag = flag
    BY <1>1, <1>2
  <1>13. Carried(flag, q) = IF q[1].flag = flag THEN Carried(flag, v) + 1 ELSE Carried(flag, v)
    BY <1>2, <1>10, <1>11, <1>12
  <1>14. Closes(q) <=> Closes(v) \/ q[1].flag = "CLOS"
    <2>1. \A k \in 1..Len(q) : k = 1 \/ (k - 1 \in 1..Len(v) /\ v[k - 1] = q[k])
      BY <1>1
    <2>2. 1 \in 1..Len(q) /\ \A k \in 1..Len(v) : k + 1 \in 1..Len(q) /\ v[k] = q[k + 1]
      BY <1>1
    <2> QED
      <3>1. ASSUME NEW k \in 1..Len(q), q[k].flag = "CLOS"
            PROVE  Closes(v) \/ q[1].flag = "CLOS"
        BY <1>1, <2>1, <3>1 DEF Closes
      <3>2. ASSUME NEW k \in 1..Len(v), v[k].flag = "CLOS" PROVE Closes(q)
        BY <1>1, <2>2, <3>2 DEF Closes
      <3>3. q[1].flag = "CLOS" => Closes(q)
        BY <1>1, <2>2 DEF Closes
      <3> QED
        BY <1>1, <3>1, <3>2, <3>3 DEF Closes
  <1> QED
    BY <1>13, <1>14 DEF v

-----------------------------------------------------------------------------
(* The two sockets of a lone tunnel, and what FlowControl sees of them.     *)

\* What a lone tunnel is made of
LEMMA LoneFacts ==
    ASSUME Tunnels = 1, TypeInv, NEW e \in End
    PROVE  /\ Peer(e) \in End /\ Peer(e) # e /\ Peer(Peer(e)) = e
           /\ <<e, 1>> \in Sockets /\ <<Peer(e), 1>> \in Sockets
           /\ \A s \in Sockets : s = <<e, 1>> \/ s = <<Peer(e), 1>>
           /\ sok \in [Sockets -> SocketRec] /\ ctx \in [End -> CtxRec]
           /\ Writer(e) = sok[<<e, 1>>] /\ Reader(e) = sok[<<Peer(e), 1>>]
           /\ Writer(e) \in SocketRec /\ Reader(e) \in SocketRec
           /\ wire \in [End -> Seq(SegmentRec)]
           /\ \A f \in End : wire[f] \in Seq(SegmentRec)
           /\ \A f \in End : \A k \in 1..Len(wire[f]) : wire[f][k].num = 1
  <1>1. Nums = {1}
    BY DEF Nums
  <1>2. /\ Peer(e) \in End /\ Peer(e) # e /\ Peer(Peer(e)) = e
        /\ \A f \in End : f = e \/ f = Peer(e)
    BY DEF End, Peer
  <1>3. <<e, 1>> \in Sockets /\ <<Peer(e), 1>> \in Sockets
    BY <1>1, <1>2 DEF Sockets
  <1>4. \A s \in Sockets : s = <<e, 1>> \/ s = <<Peer(e), 1>>
    BY <1>1, <1>2 DEF Sockets
  <1>5. /\ sok \in [Sockets -> SocketRec] /\ ctx \in [End -> CtxRec]
        /\ wire \in [End -> Seq(SegmentRec)]
    BY DEF TypeInv, Types
  <1>6. \A f \in End : wire[f] \in Seq(SegmentRec)
    BY <1>5
  <1>7. ASSUME NEW f \in End, NEW k \in 1..Len(wire[f]) PROVE wire[f][k].num = 1
    <2>1. wire[f][k] \in SegmentRec
      BY <1>6
    <2> QED
      BY <1>1, <2>1 DEF SegmentRec
  <1> QED
    BY <1>2, <1>3, <1>4, <1>5, <1>6, <1>7 DEF Writer, Reader

\* The parts of FlowControl's state that a step leaves alone
WriterKept(e) ==
    /\ Writer(e)'.sendwind = Writer(e).sendwind /\ Writer(e)'.holding = Writer(e).holding
    /\ Writer(e)'.dead = Writer(e).dead
ReaderKept(e) ==
    /\ Reader(e)'.recvcount = Reader(e).recvcount /\ Reader(e)'.owed = Reader(e).owed
    /\ Reader(e)'.dead = Reader(e).dead /\ Reader(e)'.reading = Reader(e).reading
SentKept(e) == Carried("DATA", wire'[e]) = Carried("DATA", wire[e])
QueueKept(e) == Carried("DATA", Reader(e)'.incoming) = Carried("DATA", Reader(e).incoming)
CreditKept(e) == Carried("ICWD", wire'[Peer(e)]) = Carried("ICWD", wire[Peer(e)])
ClosKept(e) == ClosAt(e)' = ClosAt(e)
NetKept(e) == Carries(e)' = Carries(e) /\ ctx'[Peer(e)].failed = ctx[Peer(e)].failed

Flows(e) == Flow(e)!Next \/ UNCHANGED Flow(e)!vars

LEMMA FlowsBy ==
    ASSUME NEW e \in End,
           \/ Flow(e)!TakeToken \/ Flow(e)!WriteTimeout \/ Flow(e)!SendData
           \/ Flow(e)!Close \/ Flow(e)!KillWriter \/ Flow(e)!DeliverIcwd
           \/ Flow(e)!DeliverData \/ Flow(e)!DeliverClos \/ Flow(e)!EnterRead
           \/ Flow(e)!ReadData \/ Flow(e)!ReadClos \/ Flow(e)!ReadDying
           \/ Flow(e)!ReadTimeout \/ Flow(e)!SendIcwd \/ Flow(e)!KillReader
           \/ Flow(e)!WireFails \/ UNCHANGED Flow(e)!vars
    PROVE  Flows(e)
  BY DEF Flows, Flow!Next, Flow!Writer, Flow!Reader

\* Nothing of the stream, or the connection under it only
LEMMA FlowKept ==
    ASSUME NEW e \in End, WriterKept(e), ReaderKept(e), SentKept(e), QueueKept(e),
           CreditKept(e), ClosKept(e), ctx'[Peer(e)].failed = ctx[Peer(e)].failed,
           Carries(e)' => Carries(e)
    PROVE  Flows(e)
  <1>1. CASE Carries(e)' = Carries(e)
    <2>1. UNCHANGED Flow(e)!vars
      BY <1>1 DEF Flow!vars, WriterKept, ReaderKept, SentKept, QueueKept, CreditKept,
         ClosKept
    <2> QED
      BY <2>1, FlowsBy
  <1>2. CASE Carries(e) /\ ~Carries(e)'
    <2>1. Flow(e)!WireFails
      BY <1>2 DEF Flow!WireFails, Flow!writerVars, Flow!readerVars,
         WriterKept, ReaderKept, SentKept, QueueKept, CreditKept, ClosKept
    <2> QED
      BY <2>1, FlowsBy
  <1>3. (Carries(e)' = Carries(e)) \/ (Carries(e) /\ ~Carries(e)')
    BY DEF Carries
  <1> QED
    BY <1>1, <1>2, <1>3

\* A step of a socket that neither sends nor takes a segment
LEMMA QuietStream ==
    ASSUME Tunnels = 1, TypeInv, NEW e \in End, NEW s \in Sockets, NEW new,
           sok' = [sok EXCEPT ![s] = new], UNCHANGED <<wire, ctx, cut>>,
           new.closed = sok[s].closed, new.got = sok[s].got, new.incoming = sok[s].incoming
    PROVE  /\ SentKept(e) /\ QueueKept(e) /\ CreditKept(e) /\ ClosKept(e) /\ NetKept(e)
           /\ s = <<e, 1>> => Writer(e)' = new /\ Writer(e) = sok[s] /\ ReaderKept(e)
           /\ s = <<Peer(e), 1>> => Reader(e)' = new /\ Reader(e) = sok[s] /\ WriterKept(e)
  <1>1. sok'[s] = new /\ \A t \in Sockets \ {s} : sok'[t] = sok[t]
    BY LoneFacts
  <1>2. /\ Writer(e)' = sok'[<<e, 1>>] /\ Reader(e)' = sok'[<<Peer(e), 1>>]
        /\ Writer(e) = sok[<<e, 1>>] /\ Reader(e) = sok[<<Peer(e), 1>>]
        /\ <<e, 1>> \in Sockets /\ <<Peer(e), 1>> \in Sockets /\ <<e, 1>> # <<Peer(e), 1>>
    BY LoneFacts DEF Writer, Reader
  <1>3. /\ Writer(e)'.closed = Writer(e).closed /\ Reader(e)'.got = Reader(e).got
        /\ Reader(e)'.incoming = Reader(e).incoming
    BY <1>1, <1>2
  <1>4. SentKept(e) /\ QueueKept(e) /\ CreditKept(e) /\ ClosKept(e)
    BY <1>3 DEF SentKept, QueueKept, CreditKept, ClosKept, ClosAt
  <1>5. NetKept(e)
    BY DEF NetKept, Carries
  <1>6. s = <<e, 1>> => Writer(e)' = new /\ Writer(e) = sok[s] /\ ReaderKept(e)
    BY <1>1, <1>2 DEF ReaderKept
  <1>7. s = <<Peer(e), 1>> => Reader(e)' = new /\ Reader(e) = sok[s] /\ WriterKept(e)
    BY <1>1, <1>2 DEF WriterKept
  <1> QED
    BY <1>4, <1>5, <1>6, <1>7

\* A step of a socket that sends a segment
LEMMA SentStream ==
    ASSUME Tunnels = 1, TypeInv, NEW e \in End, NEW s \in Sockets, NEW new,
           sok' = [sok EXCEPT ![s] = new], UNCHANGED <<ctx, cut>>,
           NEW seg \in SegmentRec, Pack(s[1], seg),
           new.got = sok[s].got, new.incoming = sok[s].incoming
    PROVE  /\ QueueKept(e) /\ NetKept(e)
           /\ s = <<e, 1>> => Writer(e)' = new /\ Writer(e) = sok[s] /\ ReaderKept(e)
           /\ s = <<Peer(e), 1>> => Reader(e)' = new /\ Reader(e) = sok[s] /\ WriterKept(e)
           /\ IF s = <<e, 1>> /\ seg.flag = "DATA" /\ Carries(e)
                THEN Carried("DATA", wire'[e]) = Carried("DATA", wire[e]) + 1
                ELSE SentKept(e)
           /\ IF s = <<Peer(e), 1>> /\ seg.flag = "ICWD" /\ Carries(e)
                THEN Carried("ICWD", wire'[Peer(e)]) = Carried("ICWD", wire[Peer(e)]) + 1
                ELSE CreditKept(e)
           /\ IF s = <<e, 1>> /\ seg.flag = "CLOS"
                THEN Closes(wire'[e]) <=> Closes(wire[e]) \/ Carries(e)
                ELSE new.closed = sok[s].closed => ClosKept(e)
  <1>1. sok'[s] = new /\ \A t \in Sockets \ {s} : sok'[t] = sok[t]
    BY LoneFacts
  <1>2. /\ Writer(e)' = sok'[<<e, 1>>] /\ Reader(e)' = sok'[<<Peer(e), 1>>]
        /\ Writer(e) = sok[<<e, 1>>] /\ Reader(e) = sok[<<Peer(e), 1>>]
        /\ <<e, 1>> \in Sockets /\ <<Peer(e), 1>> \in Sockets /\ <<e, 1>> # <<Peer(e), 1>>
        /\ s = <<e, 1>> \/ s = <<Peer(e), 1>>
        /\ Peer(e) \in End /\ Peer(e) # e /\ Peer(Peer(e)) = e
    BY LoneFacts DEF Writer, Reader
  <1>3. /\ Reader(e)'.got = Reader(e).got /\ Reader(e)'.incoming = Reader(e).incoming
        /\ new.closed = sok[s].closed => Writer(e)'.closed = Writer(e).closed
    BY <1>1, <1>2
  <1>4. QueueKept(e) /\ NetKept(e)
    BY <1>3 DEF QueueKept, NetKept, Carries
  <1>5. s = <<e, 1>> => Writer(e)' = new /\ Writer(e) = sok[s] /\ ReaderKept(e)
    BY <1>1, <1>2 DEF ReaderKept
  <1>6. s = <<Peer(e), 1>> => Reader(e)' = new /\ Reader(e) = sok[s] /\ WriterKept(e)
    BY <1>1, <1>2 DEF WriterKept
  <1>7. Carries(Peer(e)) <=> Carries(e)
    BY <1>2 DEF Carries
  <1>8. \A f \in End :
          wire'[f] = IF f = s[1] /\ Carries(e) THEN Append(wire[f], seg) ELSE wire[f]
    <2>1. s[1] \in End /\ (Carries(s[1]) <=> Carries(e))
      BY <1>2, <1>7
    <2>2. wire \in [End -> Seq(SegmentRec)]
      BY LoneFacts
    <2> QED
      BY <2>1, <2>2 DEF Pack
  <1>9. \A f \in End :
          /\ wire[f] \in Seq(SegmentRec)
          /\ \A flag : Carried(flag, Append(wire[f], seg))
               = IF seg.flag = flag THEN Carried(flag, wire[f]) + 1 ELSE Carried(flag, wire[f])
          /\ Closes(Append(wire[f], seg)) <=> Closes(wire[f]) \/ seg.flag = "CLOS"
    BY LoneFacts, CarriedAppend
  <1>10. IF s = <<e, 1>> /\ seg.flag = "DATA" /\ Carries(e)
           THEN Carried("DATA", wire'[e]) = Carried("DATA", wire[e]) + 1
           ELSE SentKept(e)
    <2>1. /\ e \in End
          /\ Carried("DATA", Append(wire[e], seg))
               = IF seg.flag = "DATA" THEN Carried("DATA", wire[e]) + 1 ELSE Carried("DATA", wire[e])
      BY <1>9
    <2>2. wire'[e] = IF s = <<e, 1>> /\ Carries(e) THEN Append(wire[e], seg) ELSE wire[e]
      BY <1>2, <1>8
    <2> QED
      BY <2>1, <2>2 DEF SentKept
  <1>11. IF s = <<Peer(e), 1>> /\ seg.flag = "ICWD" /\ Carries(e)
           THEN Carried("ICWD", wire'[Peer(e)]) = Carried("ICWD", wire[Peer(e)]) + 1
           ELSE CreditKept(e)
    <2>1. Carried("ICWD", Append(wire[Peer(e)], seg))
            = IF seg.flag = "ICWD" THEN Carried("ICWD", wire[Peer(e)]) + 1
                                   ELSE Carried("ICWD", wire[Peer(e)])
      BY <1>2, <1>9
    <2>2. wire'[Peer(e)] = IF s = <<Peer(e), 1>> /\ Carries(e)
                             THEN Append(wire[Peer(e)], seg) ELSE wire[Peer(e)]
      BY <1>2, <1>8
    <2> QED
      BY <2>1, <2>2 DEF CreditKept
  <1>12. IF s = <<e, 1>> /\ seg.flag = "CLOS"
           THEN Closes(wire'[e]) <=> Closes(wire[e]) \/ Carries(e)
           ELSE Closes(wire'[e]) <=> Closes(wire[e])
    BY <1>2, <1>8, <1>9
  <1>13. ~(s = <<e, 1>> /\ seg.flag = "CLOS") /\ new.closed = sok[s].closed => ClosKept(e)
    BY <1>3, <1>12 DEF ClosKept, ClosAt
  <1> QED
    BY <1>4, <1>5, <1>6, <1>10, <1>11, <1>12, <1>13

-----------------------------------------------------------------------------
(* The steps of a socket.                                                   *)

LEMMA TakeTokenFlows ==
    ASSUME Tunnels = 1, TypeInv, NEW e \in End, NEW s \in Sockets, TakeToken(s)
    PROVE  Flows(e)
  <1> DEFINE new == [sok[s] EXCEPT !.sendwind = @ + 1, !.holding = TRUE]
  <1>1. /\ sok' = [sok EXCEPT ![s] = new] /\ UNCHANGED <<wire, ctx, cut>>
        /\ sok[s].sendwind < Window /\ ~sok[s].holding
    BY DEF TakeToken, socketOnly
  <1>2. /\ new.sendwind = sok[s].sendwind + 1 /\ new.holding = TRUE /\ new.dead = sok[s].dead
        /\ new.recvcount = sok[s].recvcount /\ new.owed = sok[s].owed
        /\ new.reading = sok[s].reading /\ new.closed = sok[s].closed
        /\ new.got = sok[s].got /\ new.incoming = sok[s].incoming
    BY LoneFacts DEF SocketRec
  <1> HIDE DEF new
  <1>3. SentKept(e) /\ QueueKept(e) /\ CreditKept(e) /\ ClosKept(e) /\ NetKept(e)
    BY <1>1, <1>2, QuietStream
  <1>4. CASE s = <<e, 1>>
    <2>1. Writer(e)' = new /\ Writer(e) = sok[s] /\ ReaderKept(e)
      BY <1>1, <1>2, <1>4, QuietStream
    <2>2. Flow(e)!TakeToken
      BY <1>1, <1>2, <1>3, <2>1 DEF Flow!TakeToken, Flow!readerVars, ReaderKept, SentKept,
         QueueKept, CreditKept, ClosKept, NetKept
    <2> QED
      BY <2>2, FlowsBy
  <1>5. CASE s = <<Peer(e), 1>>
    <2>1. Reader(e)' = new /\ Reader(e) = sok[s] /\ WriterKept(e)
      BY <1>1, <1>2, <1>5, QuietStream
    <2>2. ReaderKept(e)
      BY <1>2, <2>1 DEF ReaderKept
    <2> QED
      BY <1>3, <2>1, <2>2, FlowKept DEF NetKept
  <1> QED
    BY <1>4, <1>5, LoneFacts

\* The deaths of a socket that no segment tells of
LEMMA DyingFlows ==
    ASSUME Tunnels = 1, TypeInv, NEW e \in End, NEW s \in Sockets,
           ReadDying(s) \/ ReadTimeout(s) \/ WriteTimeout(s) \/ TieUp(s)
    PROVE  Flows(e)
  <1>1. PICK dead \in BOOLEAN, reading \in BOOLEAN :
          /\ sok' = [sok EXCEPT ![s] = [sok[s] EXCEPT !.dead = dead, !.reading = reading]]
          /\ \/ sok[s].dead /\ dead /\ sok[s].reading /\ ~reading
             \/ /\ ~sok[s].dead /\ dead /\ sok[s].reading /\ ~reading
                /\ sok[s].incoming = <<>>
             \/ ~sok[s].dead /\ dead /\ reading = sok[s].reading
    <2>1. sok[s].dead \in BOOLEAN /\ sok[s].reading \in BOOLEAN
      BY LoneFacts DEF SocketRec
    <2>2. CASE ReadDying(s)
      <3>1. sok' = [sok EXCEPT ![s] = [sok[s] EXCEPT !.dead = TRUE, !.reading = FALSE]]
        <4>1. sok[s] = [sok[s] EXCEPT !.dead = TRUE]
          BY <2>2, LoneFacts DEF ReadDying, SocketRec
        <4> QED
          BY <2>2, <4>1 DEF ReadDying
      <3> QED
        BY <2>2, <3>1 DEF ReadDying
    <2>3. CASE ReadTimeout(s)
      BY <2>3 DEF ReadTimeout
    <2>4. CASE WriteTimeout(s) \/ TieUp(s)
      <3>1. /\ sok' = [sok EXCEPT ![s] = [sok[s] EXCEPT !.dead = TRUE, !.reading = sok[s].reading]]
            /\ ~sok[s].dead
        BY <2>4, LoneFacts DEF WriteTimeout, TieUp, SocketRec
      <3> QED
        BY <2>1, <3>1
    <2> QED
      BY <2>2, <2>3, <2>4
  <1> DEFINE new == [sok[s] EXCEPT !.dead = dead, !.reading = reading]
  <1>2. UNCHANGED <<wire, ctx, cut>> /\ sok' = [sok EXCEPT ![s] = new]
    BY <1>1 DEF ReadDying, ReadTimeout, WriteTimeout, TieUp, socketOnly
  <1>3. /\ new.sendwind = sok[s].sendwind /\ new.holding = sok[s].holding /\ new.dead = dead
        /\ new.recvcount = sok[s].recvcount /\ new.owed = sok[s].owed
        /\ new.reading = reading /\ new.closed = sok[s].closed
        /\ new.got = sok[s].got /\ new.incoming = sok[s].incoming
    BY LoneFacts DEF SocketRec
  <1> HIDE DEF new
  <1>4. SentKept(e) /\ QueueKept(e) /\ CreditKept(e) /\ ClosKept(e) /\ NetKept(e)
    BY <1>2, <1>3, QuietStream
  <1>5. CASE s = <<e, 1>>
    <2>1. Writer(e)' = new /\ Writer(e) = sok[s] /\ ReaderKept(e)
      BY <1>2, <1>3, <1>5, QuietStream
    <2>2. CASE sok[s].dead
      <3>1. WriterKept(e)
        BY <1>1, <1>3, <2>1, <2>2, LoneFacts DEF WriterKept, SocketRec
      <3> QED
        BY <1>4, <2>1, <3>1, FlowKept DEF NetKept
    <2>3. CASE ~sok[s].dead
      <3>1. Flow(e)!KillWriter
        BY <1>1, <1>3, <1>4, <2>1, <2>3 DEF Flow!KillWriter, Flow!readerVars, ReaderKept,
           SentKept, QueueKept, CreditKept, ClosKept, NetKept
      <3> QED
        BY <3>1, FlowsBy
    <2> QED
      BY <2>2, <2>3
  <1>6. CASE s = <<Peer(e), 1>>
    <2>1. Reader(e)' = new /\ Reader(e) = sok[s] /\ WriterKept(e)
      BY <1>2, <1>3, <1>6, QuietStream
    <2>2. CASE sok[s].dead /\ dead /\ sok[s].reading /\ ~reading
      <3>1. sok[s].dead \in BOOLEAN /\ dead = sok[s].dead /\ reading = FALSE
        BY <2>2, LoneFacts DEF SocketRec
      <3>2. Flow(e)!ReadDying
        BY <1>3, <1>4, <2>1, <2>2, <3>1 DEF Flow!ReadDying, Flow!writerVars, WriterKept,
           SentKept, QueueKept, CreditKept, ClosKept, NetKept
      <3> QED
        BY <3>2, FlowsBy
    <2>3. CASE ~sok[s].dead /\ dead /\ reading = sok[s].reading
      <3>1. Flow(e)!KillReader
        BY <1>3, <1>4, <2>1, <2>3 DEF Flow!KillReader, Flow!writerVars, WriterKept,
           SentKept, QueueKept, CreditKept, ClosKept, NetKept
      <3> QED
        BY <3>1, FlowsBy
    <2>4. CASE ~sok[s].dead /\ dead /\ sok[s].reading /\ ~reading /\ sok[s].incoming = <<>>
      <3>1. Carried("DATA", Reader(e).incoming) = 0 /\ ~Closes(Reader(e).incoming)
        <4>1. \A k \in 1..Len(Reader(e).incoming) : Reader(e).incoming[k].flag # "DATA"
          BY <2>1, <2>4
        <4>2. Reader(e).incoming \in Seq(SegmentRec)
          BY LoneFacts DEF SocketRec
        <4>3. DOMAIN Reader(e).incoming = {}
          BY <2>1, <2>4
        <4>4. ~Closes(Reader(e).incoming)
          BY <4>3 DEF Closes
        <4>5. Carried("DATA", Reader(e).incoming) = 0
          BY <4>1, <4>2, CarriedEnds
        <4> QED
          BY <4>4, <4>5
      <3>2. ClosAt(e) # "queued"
        BY <3>1 DEF ClosAt
      <3>3. Flow(e)!ReadTimeout
        BY <1>3, <1>4, <2>1, <2>4, <3>1, <3>2 DEF Flow!ReadTimeout, Flow!writerVars, WriterKept,
           SentKept, QueueKept, CreditKept, ClosKept, NetKept
      <3> QED
        BY <3>3, FlowsBy
    <2> QED
      BY <1>1, <2>2, <2>3, <2>4
  <1> QED
    BY <1>5, <1>6, LoneFacts

LEMMA SendDataFlows ==
    ASSUME Tunnels = 1, TypeInv, NEW e \in End, NEW s \in Sockets, SendData(s)
    PROVE  Flows(e)
  <1>1. /\ sok[s] \in SocketRec /\ sok[s].sent \in Nat /\ sok[s].dead \in BOOLEAN
        /\ sok[s].holding /\ s[2] <= Len(idOf) /\ UNCHANGED <<ctx, cut>>
    <2>1. sok[s].holding /\ UNCHANGED <<ctx, cut>>
      BY DEF SendData, socketOnly
    <2>2. sok[s] \in SocketRec
      BY LoneFacts
    <2>3. s[2] <= Len(idOf)
      BY <2>1, Drawn DEF TypeInv, Types
    <2> QED
      BY <2>1, <2>2, <2>3 DEF SocketRec
  <1>2. PICK k \in Nat, seg \in SegmentRec :
          /\ IF sok[s].dead THEN k = sok[s].sent ELSE k = sok[s].sent + 1
          /\ seg = Segment("DATA", s[2], sok[s].sent + 1) /\ seg.flag = "DATA"
    BY <1>1, SegmentFacts
  <1> DEFINE new == [sok[s] EXCEPT !.holding = FALSE, !.sent = k]
  <1>3. /\ sok' = [sok EXCEPT ![s] = new]
        /\ IF sok[s].dead THEN wire' = wire ELSE Pack(s[1], seg)
    <2>1. CASE ~sok[s].dead
      BY <1>1, <1>2, <2>1 DEF SendData, MayWrite
    <2>2. CASE sok[s].dead
      <3>1. new = [sok[s] EXCEPT !.holding = FALSE]
        BY <1>1, <1>2, <2>2 DEF SocketRec
      <3> QED
        BY <2>2, <3>1 DEF SendData, MayWrite
    <2> QED
      BY <2>1, <2>2
  <1>4. /\ new.sendwind = sok[s].sendwind /\ new.holding = FALSE /\ new.dead = sok[s].dead
        /\ new.recvcount = sok[s].recvcount /\ new.owed = sok[s].owed
        /\ new.reading = sok[s].reading /\ new.closed = sok[s].closed
        /\ new.got = sok[s].got /\ new.incoming = sok[s].incoming
    BY <1>1 DEF SocketRec
  <1> HIDE DEF new
  <1>5. /\ QueueKept(e) /\ CreditKept(e) /\ ClosKept(e) /\ NetKept(e)
        /\ s = <<e, 1>> => Writer(e)' = new /\ Writer(e) = sok[s] /\ ReaderKept(e)
        /\ s = <<Peer(e), 1>> => Reader(e)' = new /\ Reader(e) = sok[s] /\ WriterKept(e)
        /\ IF s = <<e, 1>> /\ ~sok[s].dead /\ Carries(e)
             THEN Carried("DATA", wire'[e]) = Carried("DATA", wire[e]) + 1
             ELSE SentKept(e)
    <2>1. CASE sok[s].dead
      BY <1>1, <1>3, <1>4, <2>1, QuietStream
    <2>2. CASE ~sok[s].dead
      <3>1. Pack(s[1], seg) /\ new.got = sok[s].got /\ new.incoming = sok[s].incoming
        BY <1>3, <1>4, <2>2
      <3>2. /\ QueueKept(e) /\ NetKept(e)
            /\ s = <<e, 1>> => Writer(e)' = new /\ Writer(e) = sok[s] /\ ReaderKept(e)
            /\ s = <<Peer(e), 1>> => Reader(e)' = new /\ Reader(e) = sok[s] /\ WriterKept(e)
            /\ IF s = <<e, 1>> /\ seg.flag = "DATA" /\ Carries(e)
                 THEN Carried("DATA", wire'[e]) = Carried("DATA", wire[e]) + 1
                 ELSE SentKept(e)
        BY <1>1, <1>3, <3>1, SentStream
      <3>3. CreditKept(e) /\ ClosKept(e)
        BY <1>1, <1>2, <1>3, <1>4, <3>1, SentStream
      <3> QED
        BY <1>2, <2>2, <3>2, <3>3
    <2> QED
      BY <2>1, <2>2
  <1>6. CASE s = <<e, 1>>
    <2>1. Writer(e)' = new /\ Writer(e) = sok[s] /\ ReaderKept(e)
      BY <1>5, <1>6
    <2>2. Carried("DATA", wire'[e]) = IF Flow(e)!MayWrite(Writer(e).dead) /\ Carries(e)
                                        THEN Carried("DATA", wire[e]) + 1
                                        ELSE Carried("DATA", wire[e])
      BY <1>5, <1>6, <2>1 DEF SentKept, Flow!MayWrite
    <2>3. Flow(e)!SendData
      BY <1>1, <1>4, <1>5, <2>1, <2>2 DEF Flow!SendData, Flow!readerVars, ReaderKept,
         QueueKept, CreditKept, ClosKept, NetKept
    <2> QED
      BY <2>3, FlowsBy
  <1>7. CASE s = <<Peer(e), 1>>
    <2>1. Reader(e)' = new /\ Reader(e) = sok[s] /\ WriterKept(e) /\ SentKept(e)
      BY <1>5, <1>7, LoneFacts
    <2>2. ReaderKept(e)
      BY <1>4, <2>1 DEF ReaderKept
    <2> QED
      BY <1>5, <2>1, <2>2, FlowKept DEF NetKept
  <1> QED
    BY <1>6, <1>7, LoneFacts

LEMMA SendIcwdFlows ==
    ASSUME Tunnels = 1, TypeInv, NEW e \in End, NEW s \in Sockets, SendIcwd(s)
    PROVE  Flows(e)
  <1>1. /\ sok[s] \in SocketRec /\ sok[s].owed \in Nat /\ sok[s].dead \in BOOLEAN
        /\ sok[s].owed > 0 /\ s[2] <= Len(idOf) /\ UNCHANGED <<ctx, cut>>
    <2>1. sok[s].owed > 0 /\ UNCHANGED <<ctx, cut>>
      BY DEF SendIcwd, socketOnly
    <2>2. sok[s] \in SocketRec
      BY LoneFacts
    <2>3. s[2] <= Len(idOf)
      BY <2>1, Drawn DEF TypeInv, Types
    <2> QED
      BY <2>1, <2>2, <2>3 DEF SocketRec
  <1>2. PICK seg \in SegmentRec : seg = Segment("ICWD", s[2], 0) /\ seg.flag = "ICWD"
    BY <1>1, SegmentFacts
  <1> DEFINE new == [sok[s] EXCEPT !.owed = @ - 1]
  <1>3. /\ sok' = [sok EXCEPT ![s] = new]
        /\ IF sok[s].dead THEN wire' = wire ELSE Pack(s[1], seg)
    BY <1>1, <1>2 DEF SendIcwd, MayCredit
  <1>4. /\ new.sendwind = sok[s].sendwind /\ new.holding = sok[s].holding
        /\ new.dead = sok[s].dead
        /\ new.recvcount = sok[s].recvcount /\ new.owed = sok[s].owed - 1
        /\ new.reading = sok[s].reading /\ new.closed = sok[s].closed
        /\ new.got = sok[s].got /\ new.incoming = sok[s].incoming
    BY <1>1 DEF SocketRec
  <1> HIDE DEF new
  <1>5. /\ SentKept(e) /\ QueueKept(e) /\ ClosKept(e) /\ NetKept(e)
        /\ s = <<e, 1>> => Writer(e)' = new /\ Writer(e) = sok[s] /\ ReaderKept(e)
        /\ s = <<Peer(e), 1>> => Reader(e)' = new /\ Reader(e) = sok[s] /\ WriterKept(e)
        /\ IF s = <<Peer(e), 1>> /\ ~sok[s].dead /\ Carries(e)
             THEN Carried("ICWD", wire'[Peer(e)]) = Carried("ICWD", wire[Peer(e)]) + 1
             ELSE CreditKept(e)
    <2>1. CASE sok[s].dead
      BY <1>1, <1>3, <1>4, <2>1, QuietStream
    <2>2. CASE ~sok[s].dead
      BY <1>1, <1>2, <1>3, <1>4, <2>2, SentStream
    <2> QED
      BY <2>1, <2>2
  <1>6. CASE s = <<Peer(e), 1>>
    <2>1. Reader(e)' = new /\ Reader(e) = sok[s] /\ WriterKept(e)
      BY <1>5, <1>6
    <2>2. Carried("ICWD", wire'[Peer(e)])
            = IF Flow(e)!MayCredit(Reader(e).dead) /\ Carries(e)
                THEN Carried("ICWD", wire[Peer(e)]) + 1 ELSE Carried("ICWD", wire[Peer(e)])
      BY <1>5, <1>6, <2>1 DEF CreditKept, Flow!MayCredit
    <2>3. Flow(e)!SendIcwd
      BY <1>1, <1>4, <1>5, <2>1, <2>2 DEF Flow!SendIcwd, Flow!writerVars, WriterKept,
         SentKept, QueueKept, ClosKept, NetKept
    <2> QED
      BY <2>3, FlowsBy
  <1>7. CASE s = <<e, 1>>
    <2>1. Writer(e)' = new /\ Writer(e) = sok[s] /\ ReaderKept(e) /\ CreditKept(e)
      BY <1>5, <1>7, LoneFacts
    <2>2. WriterKept(e)
      BY <1>4, <2>1 DEF WriterKept
    <2> QED
      BY <1>5, <2>1, <2>2, FlowKept DEF NetKept
  <1> QED
    BY <1>6, <1>7, LoneFacts

\* A reader has seen the end of its stream only after the writer's Close, and
\* until then its queue is all DATA.
LEMMA EndFacts ==
    ASSUME Tunnels = 1, LoneInv, NEW e \in End
    PROVE  /\ Ended(Reader(e)) => Writer(e).closed /\ ~Closes(wire[e])
           /\ ~Ended(Reader(e)) =>
                /\ ~Closes(Reader(e).incoming) /\ ~SawEnd(Reader(e).got)
                /\ Carried("DATA", Reader(e).incoming) = Len(Reader(e).incoming)
           /\ Closes(Reader(e).incoming) => Ended(Reader(e))
           /\ \A k \in 1..Len(Reader(e).incoming) :
                LET seg == Reader(e).incoming[k]
                IN  \/ seg.flag = "DATA" /\ seg.pos # 0
                    \/ seg.flag = "CLOS" /\ k = Len(Reader(e).incoming)
           /\ SawEnd(Reader(e).got) => Len(Reader(e).incoming) = 0
  <1> DEFINE r == Reader(e)
             p == Writer(e)
             q == r.incoming
             g == r.got
  <1>1. TypeInv /\ StreamInv /\ r \in SocketRec /\ crossed = {} /\ ClosOnce
    <2>1. TypeInv
      BY DEF LoneInv, CreditInv, StreamInv, RoutingInv
    <2> QED
      BY <2>1, LoneFacts DEF LoneInv, CreditInv, Lone
  <1>2. /\ q \in Seq(SegmentRec) /\ g \in Seq(Nums \X Nat)
        /\ Len(q) \in Nat /\ Len(g) \in Nat /\ DOMAIN q = 1..Len(q) /\ DOMAIN g = 1..Len(g)
    <2>1. q \in Seq(SegmentRec) /\ g \in Seq(Nums \X Nat)
      BY <1>1 DEF SocketRec
    <2> QED
      BY <2>1
  <1>3. \/ Len(g) = 0 /\ Len(q) = 0
        \/ Received(r, p, 1)
    <2>1. CASE Len(idOf) < 1
      <3>1. r = NewSocket
        BY <1>1, <2>1, LoneFacts DEF TypeInv, Known, KnownSockets
      <3> QED
        BY <3>1 DEF NewSocket
    <2>2. CASE ~(Len(idOf) < 1)
      <3>1. 1 \in 1..Len(idOf) /\ Peer(e) \in End /\ Peer(Peer(e)) = e
        <4>1. Len(idOf) \in Nat
          BY <1>1, NumFacts
        <4>2. 1 \in 1..Len(idOf)
          BY <2>2, <4>1
        <4> QED
          BY <4>2, Ends
      <3>2. Stream(Peer(e), 1)
        BY <1>1, <3>1, StreamTypes
      <3> QED
        BY <1>1, <3>1, <3>2, LoneFacts DEF Stream
    <2> QED
      BY <2>1, <2>2
  <1>4. PICK G \in Nat, I \in Nat : Len(g) = G /\ Len(q) = I
    BY <1>2
  <1>5. Ended(r) <=> \/ G > 0 /\ g[G][2] = 0
                     \/ I > 0 /\ q[I].flag = "CLOS"
    BY <1>4 DEF Ended
  <1>6. Received(r, p, 1) =>
          /\ \A k \in 1..G : g[k] = <<1, k>> \/ (g[k] = <<1, 0>> /\ k = G /\ I = 0)
          /\ \A k \in 1..I : \/ q[k].flag = "DATA" /\ q[k].pos = G + k
                             \/ q[k].flag = "CLOS" /\ k = I
          /\ Ended(r) => p.closed
    <2> SUFFICES ASSUME Received(r, p, 1)
                 PROVE  /\ \A k \in 1..G : g[k] = <<1, k>> \/ (g[k] = <<1, 0>> /\ k = G /\ I = 0)
                        /\ \A k \in 1..I : \/ q[k].flag = "DATA" /\ q[k].pos = G + k
                                           \/ q[k].flag = "CLOS" /\ k = I
                        /\ Ended(r) => p.closed
      OBVIOUS
    <2>1. \A k \in 1..Len(r.got) :
            \/ r.got[k] = <<1, k>>
            \/ r.got[k] = <<1, 0>> /\ k = Len(r.got) /\ Len(r.incoming) = 0
      BY DEF Received
    <2>2. \A k \in 1..Len(r.incoming) :
            \/ r.incoming[k].flag = "DATA" /\ r.incoming[k].pos = Len(r.got) + k
            \/ r.incoming[k].flag = "CLOS" /\ k = Len(r.incoming)
      BY DEF Received
    <2>3. Ended(r) => p.closed
      BY DEF Received
    <2>4. Len(r.got) = G /\ Len(r.incoming) = I
      BY <1>4
    <2> HIDE DEF r, p
    <2>5. \A k \in 1..G : g[k] = <<1, k>> \/ (g[k] = <<1, 0>> /\ k = G /\ I = 0)
      BY <2>1, <2>4
    <2>6. \A k \in 1..I : \/ q[k].flag = "DATA" /\ q[k].pos = G + k
                          \/ q[k].flag = "CLOS" /\ k = I
      BY <2>2, <2>4
    <2> QED
      BY <2>3, <2>5, <2>6
  <1>domains. DOMAIN q = 1..I /\ DOMAIN g = 1..G
    BY <1>2, <1>4
  <1>7. Ended(r) => ~Closes(wire[e])
    BY <1>1 DEF ClosOnce
  <1>8. (G = 0 /\ I = 0) \/ Received(r, p, 1)
    BY <1>3, <1>4
  <1> HIDE DEF r, p, q, g
  <1>9. /\ \A k \in 1..G : g[k] = <<1, k>> \/ (g[k] = <<1, 0>> /\ k = G /\ I = 0)
        /\ \A k \in 1..I : \/ q[k].flag = "DATA" /\ q[k].pos = G + k
                           \/ q[k].flag = "CLOS" /\ k = I
        /\ Ended(r) => p.closed
    <2>1. CASE G = 0 /\ I = 0
      BY <1>5, <2>1
    <2> QED
      BY <1>6, <1>8, <2>1
  <1>10. Closes(q) => Ended(r)
    <2>1. ASSUME NEW k \in 1..I, q[k].flag = "CLOS" PROVE Ended(r)
      BY <1>5, <1>9, <2>1
    <2> QED
      BY <1>domains, <2>1 DEF Closes
  <1>11. SawEnd(g) => Ended(r) /\ I = 0
    <2>1. ASSUME NEW k \in 1..G, g[k][2] = 0 PROVE k = G /\ I = 0
      <3>1. g[k] # <<1, k>>
        BY <2>1
      <3> QED
        BY <1>9, <3>1
    <2>2. ASSUME NEW k \in 1..G, g[k][2] = 0 PROVE Ended(r) /\ I = 0
      BY <1>5, <2>1, <2>2
    <2> QED
      BY <1>domains, <2>2 DEF SawEnd
  <1>12. \A k \in 1..I : \/ q[k].flag = "DATA" /\ q[k].pos # 0
                         \/ q[k].flag = "CLOS" /\ k = I
    BY <1>9
  <1>13. ~Ended(r) => Carried("DATA", q) = I
    <2>1. ~Ended(r) => \A k \in 1..I : q[k].flag = "DATA"
      BY <1>5, <1>9
    <2>2. (\A k \in 1..I : q[k].flag = "DATA") => Carried("DATA", q) = I
      BY <1>2, <1>4, CarriedEnds
    <2> QED
      BY <2>1, <2>2
  <1>14. /\ Ended(r) => p.closed /\ ~Closes(wire[e])
         /\ ~Ended(r) => ~Closes(q) /\ ~SawEnd(g) /\ Carried("DATA", q) = Len(q)
         /\ Closes(q) => Ended(r)
         /\ \A k \in 1..Len(q) : \/ q[k].flag = "DATA" /\ q[k].pos # 0
                                 \/ q[k].flag = "CLOS" /\ k = Len(q)
         /\ SawEnd(g) => Len(q) = 0
    BY <1>4, <1>7, <1>9, <1>10, <1>11, <1>12, <1>13
  <1> QED
    BY <1>14 DEF r, p, q, g

LEMMA CloseFlows ==
    ASSUME Tunnels = 1, LoneInv, NEW e \in End, NEW s \in Sockets, Close(s)
    PROVE  Flows(e)
  <1>1. TypeInv /\ Silence
    BY DEF LoneInv, CreditInv, StreamInv, RoutingInv
  <1>2. /\ sok[s] \in SocketRec /\ ~sok[s].closed /\ s[2] <= Len(idOf)
        /\ sok[s].stage = "open" /\ UNCHANGED <<ctx, cut>>
    <2>1. sok[s].stage = "open" /\ ~sok[s].closed /\ UNCHANGED <<ctx, cut>>
      BY DEF Close, socketOnly
    <2> QED
      BY <1>1, <2>1, Drawn, LoneFacts DEF TypeInv, Types
  <1>3. PICK seg \in SegmentRec : seg = Segment("CLOS", s[2], 0) /\ seg.flag = "CLOS"
    BY <1>1, <1>2, SegmentFacts
  <1> DEFINE new == [sok[s] EXCEPT !.closed = TRUE, !.dead = TRUE]
  <1>4. sok' = [sok EXCEPT ![s] = new] /\ Pack(s[1], seg)
    BY <1>3 DEF Close
  <1>5. /\ new.sendwind = sok[s].sendwind /\ new.holding = sok[s].holding /\ new.dead = TRUE
        /\ new.recvcount = sok[s].recvcount /\ new.owed = sok[s].owed
        /\ new.reading = sok[s].reading /\ new.closed = TRUE
        /\ new.got = sok[s].got /\ new.incoming = sok[s].incoming
    BY <1>2 DEF SocketRec
  <1> HIDE DEF new
  <1>6. /\ SentKept(e) /\ QueueKept(e) /\ CreditKept(e) /\ NetKept(e)
        /\ s = <<e, 1>> => Writer(e)' = new /\ Writer(e) = sok[s] /\ ReaderKept(e)
        /\ s = <<Peer(e), 1>> => Reader(e)' = new /\ Reader(e) = sok[s] /\ WriterKept(e)
        /\ s = <<e, 1>> => (Closes(wire'[e]) <=> Closes(wire[e]) \/ Carries(e))
    <2>1. Pack(s[1], seg) /\ new.got = sok[s].got /\ new.incoming = sok[s].incoming
      BY <1>4, <1>5
    <2>2. /\ QueueKept(e) /\ NetKept(e)
          /\ s = <<e, 1>> => Writer(e)' = new /\ Writer(e) = sok[s] /\ ReaderKept(e)
          /\ s = <<Peer(e), 1>> => Reader(e)' = new /\ Reader(e) = sok[s] /\ WriterKept(e)
      BY <1>1, <1>2, <1>4, <2>1, SentStream
    <2>3. SentKept(e) /\ CreditKept(e)
      BY <1>1, <1>2, <1>3, <1>4, <2>1, SentStream
    <2>4. s = <<e, 1>> => (Closes(wire'[e]) <=> Closes(wire[e]) \/ Carries(e))
      BY <1>1, <1>2, <1>3, <1>4, <2>1, SentStream
    <2> QED
      BY <2>2, <2>3, <2>4
  <1>7. CASE s = <<e, 1>>
    <2>1. Writer(e)' = new /\ Writer(e) = sok[s] /\ ReaderKept(e)
      BY <1>6, <1>7
    <2>2. ~Ended(Reader(e)) /\ ~Closes(Reader(e).incoming) /\ ~SawEnd(Reader(e).got)
      BY <1>2, <2>1, EndFacts
    <2>3. ~Closes(wire[e])
      <3>1. \A k \in 1..Len(wire[e]) : wire[e][k].flag # "CLOS"
        BY <1>1, <1>2, <1>7, LoneFacts DEF Silence, ClosOfClosed
      <3>2. DOMAIN wire[e] = 1..Len(wire[e])
        BY <1>1, LoneFacts
      <3> QED
        BY <3>1, <3>2 DEF Closes
    <2>4. Reader(e)'.incoming = Reader(e).incoming /\ Reader(e)'.got = Reader(e).got
      <3>1. sok'[<<Peer(e), 1>>] = sok[<<Peer(e), 1>>]
        BY <1>1, <1>4, <1>7, LoneFacts
      <3> QED
        BY <3>1 DEF Reader
    <2>5. ClosAt(e) = "none"
      BY <1>2, <2>1 DEF ClosAt
    <2>6. ClosAt(e)' = IF Carries(e) THEN "wire" ELSE "lost"
      BY <1>5, <1>6, <1>7, <2>1, <2>2, <2>3, <2>4 DEF ClosAt
    <2>7. Flow(e)!Close
      BY <1>5, <1>6, <2>1, <2>5, <2>6 DEF Flow!Close, Flow!readerVars, ReaderKept,
         SentKept, QueueKept, CreditKept, NetKept
    <2> QED
      BY <2>7, FlowsBy
  <1>8. CASE s = <<Peer(e), 1>>
    <2>1. Reader(e)' = new /\ Reader(e) = sok[s] /\ WriterKept(e)
      BY <1>6, <1>8
    <2>2. ClosKept(e)
      <3>1. /\ Reader(e)'.incoming = Reader(e).incoming /\ Reader(e)'.got = Reader(e).got
            /\ Writer(e)'.closed = Writer(e).closed /\ wire'[e] = wire[e]
        <4>1. sok'[<<e, 1>>] = sok[<<e, 1>>]
          BY <1>1, <1>4, <1>8, LoneFacts
        <4>2. wire'[e] = wire[e]
          <5>1. s[1] # e /\ wire \in [End -> Seq(SegmentRec)]
            BY <1>1, <1>8, LoneFacts
          <5> QED
            BY <1>4, <5>1 DEF Pack
        <4> QED
          BY <1>5, <2>1, <4>1, <4>2 DEF Writer
      <3> QED
        BY <3>1 DEF ClosKept, ClosAt
    <2>3. CASE sok[s].dead
      <3>1. ReaderKept(e)
        <4>1. sok[s].dead = TRUE
          BY <1>2, <2>3 DEF SocketRec
        <4> QED
          BY <1>5, <2>1, <4>1 DEF ReaderKept
      <3> QED
        BY <1>6, <2>1, <2>2, <3>1, FlowKept DEF NetKept
    <2>4. CASE ~sok[s].dead
      <3>1. Flow(e)!KillReader
        BY <1>5, <1>6, <2>1, <2>2, <2>4 DEF Flow!KillReader, Flow!writerVars, WriterKept,
           SentKept, QueueKept, CreditKept, ClosKept, NetKept
      <3> QED
        BY <3>1, FlowsBy
    <2> QED
      BY <2>3, <2>4
  <1> QED
    BY <1>1, <1>7, <1>8, LoneFacts

\* A socket in its user's hands: its Read enters the select, or leaves it.
LEMMA OpenedFlows ==
    ASSUME Tunnels = 1, TypeInv, NEW e \in End, NEW s \in Sockets, NEW new,
           new = Opened(sok[s]),
           SentKept(e), QueueKept(e), CreditKept(e), ClosKept(e), NetKept(e),
           s = <<e, 1>> => Writer(e)' = new /\ Writer(e) = sok[s] /\ ReaderKept(e),
           s = <<Peer(e), 1>> => Reader(e)' = new /\ Reader(e) = sok[s] /\ WriterKept(e)
    PROVE  Flows(e)
  <1>1. sok[s] \in SocketRec /\ sok[s].dead \in BOOLEAN /\ sok[s].reading \in BOOLEAN
    BY LoneFacts DEF SocketRec
  <1>2. /\ new.sendwind = sok[s].sendwind /\ new.holding = sok[s].holding
        /\ new.dead = sok[s].dead /\ new.recvcount = sok[s].recvcount
        /\ new.owed = sok[s].owed /\ new.reading = ~sok[s].dead
    BY <1>1 DEF Opened, SocketRec
  <1>3. CASE s = <<e, 1>>
    <2>1. WriterKept(e) /\ ReaderKept(e)
      BY <1>2, <1>3 DEF WriterKept
    <2> QED
      BY <2>1, FlowKept DEF NetKept
  <1>4. CASE s = <<Peer(e), 1>>
    <2>1. Reader(e)' = new /\ Reader(e) = sok[s] /\ WriterKept(e)
      BY <1>4
    <2>2. CASE sok[s].reading = ~sok[s].dead
      <3>1. ReaderKept(e)
        BY <1>2, <2>1, <2>2 DEF ReaderKept
      <3> QED
        BY <2>1, <3>1, FlowKept DEF NetKept
    <2>3. CASE sok[s].reading = TRUE /\ sok[s].dead = TRUE
      <3>1. Flow(e)!ReadDying
        BY <1>2, <2>1, <2>3 DEF Flow!ReadDying, Flow!writerVars, WriterKept,
           SentKept, QueueKept, CreditKept, ClosKept, NetKept
      <3> QED
        BY <3>1, FlowsBy
    <2>4. CASE sok[s].reading = FALSE /\ sok[s].dead = FALSE
      <3>1. Flow(e)!EnterRead
        BY <1>2, <2>1, <2>4 DEF Flow!EnterRead, Flow!writerVars, WriterKept,
           SentKept, QueueKept, CreditKept, ClosKept, NetKept
      <3> QED
        BY <3>1, FlowsBy
    <2> QED
      BY <1>1, <2>2, <2>3, <2>4
  <1> QED
    BY <1>3, <1>4, LoneFacts

LEMMA OpenTunnelFlows ==
    ASSUME Tunnels = 1, TypeInv, NEW e \in End, NEW n \in Nums, OpenTunnel(n)
    PROVE  Flows(e)
  <1> DEFINE s == <<"client", n>>
             new == Opened(sok[s])
  <1>1. s \in Sockets /\ s[1] = "client" /\ s[2] = n
    BY Ends
  <1>2. sok[s] \in SocketRec /\ sok[s].stage = "reserved" /\ UNCHANGED <<ctx, cut>>
    BY <1>1, LoneFacts DEF OpenTunnel
  <1>3. s[2] <= Len(idOf)
    <2>1. s[2] \in 1..Len(idOf)
      BY <1>1, <1>2, Drawn
    <2> QED
      BY <2>1, NumFacts
  <1>4. sok' = [sok EXCEPT ![s] = new]
    BY DEF OpenTunnel
  <1>5. new.got = sok[s].got /\ new.incoming = sok[s].incoming /\ new.closed = sok[s].closed
    BY <1>2 DEF Opened, SocketRec
  <1> HIDE DEF s, new
  <1>6. PICK seg \in SegmentRec : seg = Segment("OPEN", s[2], 0) /\ seg.flag = "OPEN"
    BY <1>1, <1>3, SegmentFacts
  <1>7. Pack(s[1], seg)
    BY <1>1, <1>6 DEF OpenTunnel
  <1>8. /\ QueueKept(e) /\ NetKept(e)
        /\ s = <<e, 1>> => Writer(e)' = new /\ Writer(e) = sok[s] /\ ReaderKept(e)
        /\ s = <<Peer(e), 1>> => Reader(e)' = new /\ Reader(e) = sok[s] /\ WriterKept(e)
    BY <1>1, <1>2, <1>4, <1>5, <1>7, SentStream
  <1>9. SentKept(e) /\ CreditKept(e) /\ ClosKept(e)
    BY <1>1, <1>2, <1>4, <1>5, <1>6, <1>7, SentStream
  <1>10. new = Opened(sok[s])
    BY DEF new
  <1> QED
    BY <1>1, <1>8, <1>9, <1>10, OpenedFlows

LEMMA AcceptFlows ==
    ASSUME Tunnels = 1, TypeInv, NEW e \in End, Accept
    PROVE  Flows(e)
  <1> DEFINE s == <<"server", Head(acptQueue)>>
             new == Opened(sok[s])
  <1>1. s \in Sockets
    <2>1. acptQueue \in Seq(1..Len(idOf)) /\ acptQueue # <<>>
      BY DEF TypeInv, Types, Accept
    <2>2. Head(acptQueue) \in 1..Len(idOf)
      BY <2>1
    <2> QED
      BY <2>2, NumFacts, Ends
  <1>2. sok[s] \in SocketRec /\ UNCHANGED <<wire, ctx, cut>>
    BY <1>1, LoneFacts DEF Accept
  <1>3. sok' = [sok EXCEPT ![s] = new]
    BY DEF Accept
  <1>4. new.got = sok[s].got /\ new.incoming = sok[s].incoming /\ new.closed = sok[s].closed
    BY <1>2 DEF Opened, SocketRec
  <1>5. new = Opened(sok[s])
    OBVIOUS
  <1> HIDE DEF s, new
  <1>6. /\ SentKept(e) /\ QueueKept(e) /\ CreditKept(e) /\ ClosKept(e) /\ NetKept(e)
        /\ s = <<e, 1>> => Writer(e)' = new /\ Writer(e) = sok[s] /\ ReaderKept(e)
        /\ s = <<Peer(e), 1>> => Reader(e)' = new /\ Reader(e) = sok[s] /\ WriterKept(e)
    BY <1>1, <1>2, <1>3, <1>4, QuietStream
  <1> QED
    BY <1>1, <1>5, <1>6, OpenedFlows

-----------------------------------------------------------------------------
(* A read of a segment, and of the end.                                     *)

\* A step of a socket that reads, seen by the peer that has it for a writer
LEMMA OtherReads ==
    ASSUME Tunnels = 1, TypeInv, NEW e \in End, NEW new,
           sok' = [sok EXCEPT ![<<e, 1>>] = new], UNCHANGED <<wire, ctx, cut>>,
           new.closed = Writer(e).closed
    PROVE  /\ ReaderKept(e) /\ SentKept(e) /\ QueueKept(e) /\ CreditKept(e)
           /\ ClosKept(e) /\ NetKept(e) /\ Writer(e)' = new
  <1>1. Writer(e)' = new /\ Reader(e)' = Reader(e)
    BY LoneFacts DEF Writer, Reader
  <1> QED
    BY <1>1 DEF ReaderKept, SentKept, QueueKept, CreditKept, ClosKept, ClosAt, NetKept, Carries

LEMMA SawEndAppend ==
    ASSUME NEW g \in Seq(Nums \X Nat), NEW x \in Nums \X Nat
    PROVE  SawEnd(Append(g, x)) <=> SawEnd(g) \/ x[2] = 0
  <1> DEFINE v == Append(g, x)
             L == Len(g) + 1
  <1>1. /\ v[L] = x /\ (\A k \in 1..Len(g) : v[k] = g[k]) /\ Len(g) \in Nat
        /\ DOMAIN v = 1..L /\ DOMAIN g = 1..Len(g)
    BY AppendProperties
  <1> HIDE DEF v
  <1>2. \A k : k \in 1..L <=> k \in 1..Len(g) \/ k = L
    BY <1>1
  <1>3. SawEnd(v) <=> SawEnd(g) \/ x[2] = 0
    BY <1>1, <1>2 DEF SawEnd
  <1> QED
    BY <1>3 DEF v

LEMMA ReadDataFlows ==
    ASSUME Tunnels = 1, LoneInv, NEW e \in End, NEW s \in Sockets, ReadData(s)
    PROVE  Flows(e)
  <1> DEFINE q == sok[s].incoming
             left == Uint8Dec(sok[s].recvcount)
             x == <<Head(q).num, Head(q).pos>>
  <1>1. TypeInv /\ sok[s] \in SocketRec
    <2>1. TypeInv
      BY DEF LoneInv, CreditInv, StreamInv, RoutingInv
    <2> QED
      BY <2>1, LoneFacts
  <1>2. PICK mark \in LowMark..HighMark :
          sok' = [sok EXCEPT
                   ![s].reading = ~sok[s].dead, ![s].incoming = Tail(@), ![s].got = Append(@, x),
                   ![s].recvcount = IF left < mark THEN Uint8Add(left, Count) ELSE left,
                   ![s].owed = IF left < mark THEN @ + 1 ELSE @]
    BY DEF ReadData
  <1>3. /\ q \in Seq(SegmentRec) /\ q # <<>> /\ Head(q) = q[1] /\ q[1].flag = "DATA"
        /\ q[1] \in SegmentRec /\ 1 \in 1..Len(q) /\ sok[s].reading
        /\ UNCHANGED <<wire, ctx, cut>>
    <2>1. q \in Seq(SegmentRec) /\ q # <<>>
      BY <1>1 DEF ReadData, SocketRec
    <2>2. Head(q) = q[1] /\ q[1] \in SegmentRec /\ 1 \in 1..Len(q)
      BY <2>1
    <2> QED
      BY <2>1, <2>2 DEF ReadData, socketOnly
  <1> DEFINE new == [sok[s] EXCEPT
                   !.reading = ~sok[s].dead, !.incoming = Tail(q), !.got = Append(@, x),
                   !.recvcount = IF left < mark THEN Uint8Add(left, Count) ELSE left,
                   !.owed = IF left < mark THEN @ + 1 ELSE @]
  <1>4. /\ new.sendwind = sok[s].sendwind /\ new.holding = sok[s].holding
        /\ new.dead = sok[s].dead /\ new.closed = sok[s].closed
        /\ new.reading = ~sok[s].dead
        /\ new.incoming = Tail(q) /\ new.got = Append(sok[s].got, x)
        /\ new.recvcount = IF left < mark THEN Uint8Add(left, Count) ELSE left
        /\ new.owed = IF left < mark THEN sok[s].owed + 1 ELSE sok[s].owed
    BY <1>1 DEF SocketRec
  <1>5. sok' = [sok EXCEPT ![s] = new]
    BY <1>2
  <1>6. x \in Nums \X Nat /\ x[2] = q[1].pos
    BY <1>3 DEF SegmentRec
  <1>7. left = Uint8Dec(sok[s].recvcount)
    OBVIOUS
  <1> HIDE DEF new, x, left
  <1>8. CASE s = <<e, 1>>
    <2>1. Writer(e) = sok[s]
      BY <1>8 DEF Writer
    <2>2. /\ ReaderKept(e) /\ SentKept(e) /\ QueueKept(e) /\ CreditKept(e)
          /\ ClosKept(e) /\ NetKept(e) /\ Writer(e)' = new
      BY <1>1, <1>3, <1>4, <1>5, <1>8, <2>1, OtherReads
    <2>3. WriterKept(e)
      BY <1>4, <2>1, <2>2 DEF WriterKept
    <2> QED
      BY <2>2, <2>3, FlowKept DEF NetKept
  <1>9. CASE s = <<Peer(e), 1>>
    <2>1. Reader(e) = sok[s] /\ Reader(e)' = new /\ Writer(e)' = Writer(e)
      BY <1>1, <1>5, <1>9, LoneFacts DEF Reader, Writer
    <2>2. /\ Carried("DATA", q) = Carried("DATA", Tail(q)) + 1
          /\ Carried("DATA", Tail(q)) \in Nat
          /\ Closes(q) <=> Closes(Tail(q))
      <3>1. Tail(q) \in Seq(SegmentRec)
        BY <1>3
      <3>2. Carried("DATA", Tail(q)) \in Nat
        BY <3>1, CarriedFinite
      <3> QED
        BY <1>3, <3>2, CarriedTail
    <2>3. SawEnd(new.got) <=> SawEnd(sok[s].got)
      <3>1. q[1].pos # 0
        <4>1. \/ q[1].flag = "DATA" /\ q[1].pos # 0
              \/ q[1].flag = "CLOS"
          BY <1>3, <2>1, EndFacts
        <4> QED
          BY <1>3, <4>1
      <3>2. sok[s].got \in Seq(Nums \X Nat)
        BY <1>1 DEF SocketRec
      <3>3. SawEnd(Append(sok[s].got, x)) <=> SawEnd(sok[s].got) \/ x[2] = 0
        BY <1>6, <3>2, SawEndAppend
      <3> QED
        BY <1>4, <1>6, <3>1, <3>3
    <2>4. ClosKept(e)
      BY <1>3, <1>4, <2>1, <2>2, <2>3 DEF ClosKept, ClosAt
    <2>5. WriterKept(e) /\ SentKept(e) /\ CreditKept(e) /\ NetKept(e)
      BY <1>3, <2>1 DEF WriterKept, SentKept, CreditKept, NetKept, Carries
    <2>6. /\ Reader(e).reading /\ Reader(e)'.reading = ~Reader(e).dead
          /\ Reader(e)'.dead = Reader(e).dead
      BY <1>3, <1>4, <2>1
    <2>7. IF Flow(e)!MustCredit(Flow(e)!Uint8Dec(Reader(e).recvcount), mark)
            THEN /\ Reader(e)'.recvcount
                      = Flow(e)!Uint8Add(Flow(e)!Uint8Dec(Reader(e).recvcount), Count)
                 /\ Reader(e)'.owed = Reader(e).owed + 1
            ELSE /\ Reader(e)'.recvcount = Flow(e)!Uint8Dec(Reader(e).recvcount)
                 /\ Reader(e)'.owed = Reader(e).owed
      BY <1>4, <1>7, <2>1 DEF Flow!MustCredit, Flow!Uint8Dec, Flow!Uint8Add, Uint8Dec, Uint8Add
    <2>8. /\ Carried("DATA", Reader(e).incoming) > 0
          /\ Carried("DATA", Reader(e)'.incoming) = Carried("DATA", Reader(e).incoming) - 1
      BY <1>4, <2>1, <2>2
    <2>9. Flow(e)!ReadData
      BY <2>4, <2>5, <2>6, <2>7, <2>8 DEF Flow!ReadData, Flow!writerVars, WriterKept,
         SentKept, CreditKept, ClosKept, NetKept
    <2> QED
      BY <2>9, FlowsBy
  <1> QED
    BY <1>1, <1>8, <1>9, LoneFacts

LEMMA ReadClosFlows ==
    ASSUME Tunnels = 1, LoneInv, NEW e \in End, NEW s \in Sockets, ReadClos(s)
    PROVE  Flows(e)
  <1> DEFINE q == sok[s].incoming
             x == <<Head(q).num, 0>>
             new == [sok[s] EXCEPT !.reading = FALSE, !.incoming = Tail(q), !.dead = TRUE,
                                   !.got = Append(@, x)]
  <1>1. TypeInv /\ sok[s] \in SocketRec
    <2>1. TypeInv
      BY DEF LoneInv, CreditInv, StreamInv, RoutingInv
    <2> QED
      BY <2>1, LoneFacts
  <1>2. sok' = [sok EXCEPT ![s] = new]
    BY DEF ReadClos
  <1>3. /\ q \in Seq(SegmentRec) /\ q # <<>> /\ Head(q) = q[1] /\ q[1].flag = "CLOS"
        /\ q[1] \in SegmentRec /\ 1 \in 1..Len(q) /\ sok[s].reading
        /\ UNCHANGED <<wire, ctx, cut>>
    <2>1. q \in Seq(SegmentRec) /\ q # <<>>
      BY <1>1 DEF ReadClos, SocketRec
    <2>2. Head(q) = q[1] /\ q[1] \in SegmentRec /\ 1 \in 1..Len(q)
      BY <2>1
    <2> QED
      BY <2>1, <2>2 DEF ReadClos, socketOnly
  <1>4. /\ new.sendwind = sok[s].sendwind /\ new.holding = sok[s].holding
        /\ new.dead = TRUE /\ new.closed = sok[s].closed /\ new.reading = FALSE
        /\ new.incoming = Tail(q) /\ new.got = Append(sok[s].got, x)
        /\ new.recvcount = sok[s].recvcount /\ new.owed = sok[s].owed
    BY <1>1 DEF SocketRec
  <1>5. x \in Nums \X Nat /\ x[2] = 0
    BY <1>3 DEF SegmentRec
  <1> HIDE DEF new, x
  <1>6. CASE s = <<e, 1>>
    <2>1. Writer(e) = sok[s]
      BY <1>6 DEF Writer
    <2>2. /\ ReaderKept(e) /\ SentKept(e) /\ QueueKept(e) /\ CreditKept(e)
          /\ ClosKept(e) /\ NetKept(e) /\ Writer(e)' = new
      BY <1>1, <1>2, <1>3, <1>4, <1>6, <2>1, OtherReads
    <2>3. CASE sok[s].dead
      <3>1. sok[s].dead = TRUE
        BY <1>1, <2>3 DEF SocketRec
      <3>2. WriterKept(e)
        BY <1>4, <2>1, <2>2, <3>1 DEF WriterKept
      <3> QED
        BY <2>2, <3>2, FlowKept DEF NetKept
    <2>4. CASE ~sok[s].dead
      <3>1. Flow(e)!KillWriter
        BY <1>4, <2>1, <2>2, <2>4 DEF Flow!KillWriter, Flow!readerVars, ReaderKept,
           SentKept, QueueKept, CreditKept, ClosKept, NetKept
      <3> QED
        BY <3>1, FlowsBy
    <2> QED
      BY <2>3, <2>4
  <1>7. CASE s = <<Peer(e), 1>>
    <2>1. Reader(e) = sok[s] /\ Reader(e)' = new /\ Writer(e)' = Writer(e)
      BY <1>1, <1>2, <1>7, LoneFacts DEF Reader, Writer
    <2>2. /\ Len(q) = 1 /\ Closes(q) /\ Carried("DATA", q) = 0
          /\ ~Closes(Tail(q)) /\ Carried("DATA", Tail(q)) = 0
      <3>1. Len(q) = 1
        <4>1. \/ q[1].flag = "DATA"
              \/ q[1].flag = "CLOS" /\ 1 = Len(q)
          BY <1>3, <2>1, EndFacts
        <4> QED
          BY <1>3, <4>1
      <3>2. Tail(q) \in Seq(SegmentRec) /\ Len(Tail(q)) = 0
        BY <1>3, <3>1
      <3>3. DOMAIN Tail(q) = {} /\ DOMAIN q = 1..Len(q)
        <4>1. DOMAIN Tail(q) = 1..Len(Tail(q))
          BY <3>2
        <4>2. 1..0 = {}
          OBVIOUS
        <4>3. DOMAIN Tail(q) = {}
          BY <3>2, <4>1, <4>2, Zenon
        <4> QED
          BY <1>3, <4>3
      <3>4. Closes(q) /\ ~Closes(Tail(q))
        BY <1>3, <3>3 DEF Closes
      <3>5. Carried("DATA", Tail(q)) = 0
        <4>1. \A k \in 1..Len(Tail(q)) : Tail(q)[k].flag # "DATA"
          BY <3>2
        <4> QED
          BY <3>2, <4>1, CarriedEnds
      <3>6. Carried("DATA", q) = 0
        <4>1. \A k \in 1..Len(q) : q[k].flag # "DATA"
          BY <1>3, <3>1
        <4> QED
          BY <1>3, <4>1, CarriedEnds
      <3> QED
        BY <3>1, <3>4, <3>5, <3>6
    <2>3. Ended(Reader(e)) /\ Writer(e).closed /\ ~Closes(wire[e])
      BY <2>1, <2>2, EndFacts
    <2>4. SawEnd(new.got)
      <3>1. sok[s].got \in Seq(Nums \X Nat)
        BY <1>1 DEF SocketRec
      <3>2. SawEnd(Append(sok[s].got, x))
        BY <1>5, <3>1, SawEndAppend
      <3> QED
        BY <1>4, <3>2
    <2>5. ClosAt(e) = "queued" /\ ClosAt(e)' = "read"
      BY <1>3, <1>4, <2>1, <2>2, <2>3, <2>4 DEF ClosAt
    <2>6. WriterKept(e) /\ SentKept(e) /\ QueueKept(e) /\ CreditKept(e) /\ NetKept(e)
      BY <1>3, <1>4, <2>1, <2>2 DEF WriterKept, SentKept, QueueKept, CreditKept, NetKept, Carries
    <2>7. Flow(e)!ReadClos
      BY <1>3, <1>4, <2>1, <2>2, <2>5, <2>6 DEF Flow!ReadClos, Flow!writerVars, WriterKept,
         SentKept, QueueKept, CreditKept, NetKept
    <2> QED
      BY <2>7, FlowsBy
  <1> QED
    BY <1>1, <1>6, <1>7, LoneFacts

\* A socket in which a step changes nothing of the stream
Alike(t) ==
    /\ sok'[t].sendwind = sok[t].sendwind /\ sok'[t].holding = sok[t].holding
    /\ sok'[t].dead = sok[t].dead /\ sok'[t].closed = sok[t].closed
    /\ sok'[t].recvcount = sok[t].recvcount /\ sok'[t].owed = sok[t].owed
    /\ sok'[t].reading = sok[t].reading
    /\ sok'[t].got = sok[t].got /\ sok'[t].incoming = sok[t].incoming

-----------------------------------------------------------------------------
(* The steps of mainThread.                                                 *)

LEMMA AlikeStream ==
    ASSUME Tunnels = 1, TypeInv, NEW e \in End
    PROVE  /\ Alike(<<e, 1>>) => WriterKept(e)
           /\ Alike(<<Peer(e), 1>>) => ReaderKept(e) /\ QueueKept(e)
           /\ Alike(<<e, 1>>) /\ Alike(<<Peer(e), 1>>) /\ (Closes(wire'[e]) <=> Closes(wire[e]))
                => ClosKept(e)
  <1>1. Alike(<<e, 1>>) => WriterKept(e)
    BY DEF Alike, WriterKept, Writer
  <1>2. Alike(<<Peer(e), 1>>) => ReaderKept(e) /\ QueueKept(e)
    BY DEF Alike, ReaderKept, QueueKept, Reader
  <1>3. Alike(<<e, 1>>) /\ Alike(<<Peer(e), 1>>) /\ (Closes(wire'[e]) <=> Closes(wire[e]))
          => ClosKept(e)
    BY DEF Alike, ClosKept, ClosAt, Writer, Reader
  <1> QED
    BY <1>1, <1>2, <1>3

\* What mainThread of end g takes off the wire
LEMMA UnpackFlow ==
    ASSUME Tunnels = 1, TypeInv, NEW g \in End, wire[Peer(g)] # <<>>, Unpacked(g),
           NEW x, x = wire[Peer(g)][1]
    PROVE  /\ wire'[g] = wire[g] /\ wire'[Peer(g)] \in Seq(SegmentRec)
           /\ \A flag :
                /\ Carried(flag, wire'[Peer(g)]) \in Nat
                /\ Carried(flag, wire[Peer(g)])
                     = IF x.flag = flag THEN Carried(flag, wire'[Peer(g)]) + 1
                                        ELSE Carried(flag, wire'[Peer(g)])
           /\ Closes(wire[Peer(g)]) <=> Closes(wire'[Peer(g)]) \/ x.flag = "CLOS"
  <1> DEFINE w == wire[Peer(g)]
             v == wire'[Peer(g)]
  <1>1. /\ Peer(g) \in End /\ Peer(g) # g /\ wire \in [End -> Seq(SegmentRec)]
        /\ w \in Seq(SegmentRec) /\ w # <<>>
    BY LoneFacts
  <1>2. wire'[g] = wire[g] /\ v = Tail(w)
    BY <1>1 DEF Unpacked
  <1>3. v \in Seq(SegmentRec)
    BY <1>1, <1>2
  <1> HIDE DEF w, v
  <1>4. \A flag : /\ Carried(flag, v) \in Nat
                  /\ Carried(flag, w)
                       = IF w[1].flag = flag THEN Carried(flag, v) + 1 ELSE Carried(flag, v)
    BY <1>1, <1>2, <1>3, CarriedFinite, CarriedTail
  <1>5. Closes(w) <=> Closes(v) \/ w[1].flag = "CLOS"
    BY <1>1, <1>2, CarriedTail
  <1> QED
    BY <1>2, <1>3, <1>4, <1>5 DEF w, v

\* Of a segment off the wire to end g, the stream from end g sees the credit only ...
LEMMA TakenAtWriter ==
    ASSUME Tunnels = 1, TypeInv, NEW e \in End, wire[Peer(e)] # <<>>, Unpacked(e),
           NEW x, x = wire[Peer(e)][1], x.flag # "ICWD", Alike(<<Peer(e), 1>>),
           sok'[<<e, 1>>].closed = sok[<<e, 1>>].closed
    PROVE  SentKept(e) /\ CreditKept(e) /\ ClosKept(e) /\ QueueKept(e) /\ ReaderKept(e)
  <1>1. wire'[e] = wire[e] /\ Carried("ICWD", wire[Peer(e)]) = Carried("ICWD", wire'[Peer(e)])
    <2>1. \A flag : Carried(flag, wire[Peer(e)])
                      = IF x.flag = flag THEN Carried(flag, wire'[Peer(e)]) + 1
                                         ELSE Carried(flag, wire'[Peer(e)])
      BY UnpackFlow
    <2>2. wire'[e] = wire[e]
      BY UnpackFlow
    <2> QED
      BY <2>1, <2>2
  <1>2. ClosKept(e)
    BY <1>1 DEF ClosKept, ClosAt, Alike, Writer, Reader
  <1> QED
    BY <1>1, <1>2, AlikeStream DEF SentKept, CreditKept

\* ... and the stream to it DATA and CLOS only.
LEMMA TakenAtReader ==
    ASSUME Tunnels = 1, TypeInv, NEW e \in End, wire[e] # <<>>, Unpacked(Peer(e)),
           NEW x, x = wire[e][1]
    PROVE  /\ CreditKept(e)
           /\ x.flag # "DATA" => SentKept(e)
           /\ x.flag = "DATA" => Carried("DATA", wire[e]) = Carried("DATA", wire'[e]) + 1
           /\ Carried("DATA", wire'[e]) \in Nat
           /\ Closes(wire[e]) <=> Closes(wire'[e]) \/ x.flag = "CLOS"
  <1>1. Peer(e) \in End /\ Peer(Peer(e)) = e
    BY LoneFacts
  <1>2. /\ wire'[Peer(e)] = wire[Peer(e)]
        /\ Carried("DATA", wire'[e]) \in Nat
        /\ Carried("DATA", wire[e])
             = IF x.flag = "DATA" THEN Carried("DATA", wire'[e]) + 1
                                  ELSE Carried("DATA", wire'[e])
        /\ Closes(wire[e]) <=> Closes(wire'[e]) \/ x.flag = "CLOS"
    BY <1>1, UnpackFlow
  <1> QED
    BY <1>2 DEF CreditKept, SentKept

LEMMA RecvOpenFlows ==
    ASSUME Tunnels = 1, LoneInv, NEW e \in End, RecvOpen
    PROVE  Flows(e)
  <1> DEFINE x == wire["client"][1]
  <1>1. TypeInv /\ Opening
    BY DEF LoneInv, CreditInv, StreamInv, RoutingInv, Lone
  <1>2. /\ wire["client"] # <<>> /\ Head(wire["client"]) = x /\ x.flag = "OPEN"
        /\ 1 \in 1..Len(wire["client"]) /\ x.num = 1
        /\ Peer("server") = "client" /\ Peer("client") = "server" /\ e \in {"client", "server"}
    <2>1. /\ wire["client"] # <<>> /\ Head(wire["client"]).flag = "OPEN"
          /\ Peer("server") = "client" /\ Peer("client") = "server" /\ e \in {"client", "server"}
      BY DEF RecvOpen, Receiving, Peer, End
    <2>2. "client" \in End /\ wire["client"] \in Seq(SegmentRec)
      BY <1>1, LoneFacts, Ends
    <2>3. Head(wire["client"]) = x /\ 1 \in 1..Len(wire["client"])
      BY <2>1, <2>2
    <2> QED
      BY <1>1, <2>1, <2>2, <2>3, LoneFacts
  <1>3. acptQueue = <<>> /\ Len(acptQueue) < AcceptCap
    BY <1>1, <1>2, NiaucchiAssumption DEF Opening
  <1>4. UNCHANGED <<ctx, cut>> /\ Unpacked("server")
    BY <1>3 DEF RecvOpen
  <1>5. sok' = [sok EXCEPT ![<<"server", 1>>].stage = "queued"]
    BY <1>2 DEF RecvOpen
  <1> HIDE DEF x
  <1>6. \A t \in Sockets : Alike(t)
    <2>1. ASSUME NEW t \in Sockets PROVE Alike(t)
      <3>1. sok[t] \in SocketRec /\ sok \in [Sockets -> SocketRec]
        BY <1>1, LoneFacts
      <3>2. sok'[t] = sok[t] \/ sok'[t] = [sok[t] EXCEPT !.stage = "queued"]
        BY <1>5, <3>1
      <3> QED
        BY <3>1, <3>2 DEF Alike, SocketRec
    <2> QED
      BY <2>1
  <1>7. Alike(<<e, 1>>) /\ Alike(<<Peer(e), 1>>)
    BY <1>1, <1>6, LoneFacts
  <1>8. WriterKept(e) /\ ReaderKept(e) /\ QueueKept(e)
    BY <1>1, <1>7, AlikeStream
  <1>9. SentKept(e) /\ CreditKept(e) /\ ClosKept(e)
    <2>1. CASE e = "server"
      <3>1. sok'[<<e, 1>>].closed = sok[<<e, 1>>].closed
        BY <1>7 DEF Alike
      <3>2. Unpacked(e) /\ wire[Peer(e)] # <<>> /\ x = wire[Peer(e)][1] /\ x.flag # "ICWD"
        BY <1>2, <1>4, <2>1 DEF x
      <3> QED
        BY <1>1, <1>7, <3>1, <3>2, TakenAtWriter
    <2>2. CASE e = "client"
      <3>1. Unpacked(Peer(e)) /\ wire[e] # <<>> /\ x = wire[e][1]
        BY <1>2, <1>4, <2>2 DEF x
      <3>2. /\ CreditKept(e) /\ SentKept(e) /\ (Closes(wire[e]) <=> Closes(wire'[e]))
        BY <1>1, <1>2, <3>1, TakenAtReader
      <3> QED
        BY <1>1, <1>7, <3>2, AlikeStream
    <2> QED
      BY <1>2, <2>1, <2>2
  <1>10. Carries(e)' = Carries(e) /\ ctx'[Peer(e)].failed = ctx[Peer(e)].failed
    BY <1>4 DEF Carries
  <1> QED
    BY <1>8, <1>9, <1>10, FlowKept

\* Whatever but OPEN comes to an end is for its only socket.
LEMMA RoutedHere ==
    ASSUME Tunnels = 1, LoneInv, NEW g \in End, wire[Peer(g)] # <<>>,
           RecvIcwd(g) \/ RecvSegment(g)
    PROVE  LET x == wire[Peer(g)][1]
           IN  /\ Head(wire[Peer(g)]) = x /\ x \in SegmentRec /\ 1 \in 1..Len(wire[Peer(g)])
               /\ x.num = 1 /\ table[g][x.id] = 1 /\ x.id \notin crossed
               /\ x.flag \in (IF RecvIcwd(g) THEN {"ICWD"} ELSE {"DATA", "CLOS"})
               /\ Fading /\ Unpacked(g) /\ ctx[g].main
  <1> DEFINE x == wire[Peer(g)][1]
  <1>1. TypeInv /\ RoutingInv /\ crossed = {} /\ Peer(g) \in End
    <2>1. TypeInv /\ RoutingInv /\ crossed = {}
      BY DEF LoneInv, CreditInv, StreamInv, RoutingInv, Lone
    <2> QED
      BY <2>1, LoneFacts
  <1>2. Head(wire[Peer(g)]) = x /\ x \in SegmentRec /\ 1 \in 1..Len(wire[Peer(g)])
    BY <1>1, TakenSegment
  <1>3. x.num = 1
    BY <1>1, <1>2, LoneFacts
  <1>4. /\ RecvIcwd(g) => x.flag = "ICWD"
        /\ RecvSegment(g) => x.flag \in {"DATA", "CLOS"}
    BY <1>2 DEF RecvIcwd, RecvSegment, Receiving
  <1>5. PICK seg : Takes(g, seg)
    BY <1>1, RecvIcwdStep, RecvSegmentStep
  <1>6. seg = x /\ Fading /\ Unpacked(g) /\ ctx[g].main
    BY <1>5 DEF Takes
  <1>7. table[g][x.id] = x.num
    <2>1. x.id \notin crossed /\ x.flag # "OPEN"
      BY <1>1, <1>4
    <2> QED
      BY <1>1, <1>5, <1>6, <2>1, Routed
  <1> HIDE DEF x
  <1>8. x.flag \in (IF RecvIcwd(g) THEN {"ICWD"} ELSE {"DATA", "CLOS"})
    BY <1>4
  <1>9. /\ Head(wire[Peer(g)]) = x /\ x \in SegmentRec /\ 1 \in 1..Len(wire[Peer(g)])
        /\ x.num = 1 /\ table[g][x.id] = 1 /\ x.id \notin crossed
        /\ Fading /\ Unpacked(g) /\ ctx[g].main
    BY <1>1, <1>2, <1>3, <1>6, <1>7
  <1> QED
    BY <1>8, <1>9 DEF x

LEMMA RecvIcwdFlows ==
    ASSUME Tunnels = 1, LoneInv, NEW e \in End, NEW g \in End, RecvIcwd(g)
    PROVE  Flows(e)
  <1> DEFINE x == wire[Peer(g)][1]
             s == <<g, 1>>
  <1>1. TypeInv /\ CreditInv
    BY DEF LoneInv, CreditInv, StreamInv, RoutingInv
  <1>2. wire[Peer(g)] # <<>>
    BY DEF RecvIcwd, Receiving
  <1>3. /\ Head(wire[Peer(g)]) = x /\ x.num = 1 /\ table[g][x.id] = 1 /\ x.id \notin crossed
        /\ x.flag = "ICWD" /\ Unpacked(g)
    <2>1. x.flag \in (IF RecvIcwd(g) THEN {"ICWD"} ELSE {"DATA", "CLOS"})
      BY <1>2, RoutedHere
    <2>2. /\ Head(wire[Peer(g)]) = x /\ x.num = 1 /\ table[g][x.id] = 1 /\ x.id \notin crossed
          /\ Unpacked(g)
      BY <1>2, RoutedHere
    <2> QED
      BY <2>1, <2>2
  <1>4. sok[s].sendwind >= Count
    <2>1. sok[<<g, x.num>>].sendwind >= Count
      BY <1>1, <1>2, <1>3, IcwdServed
    <2> QED
      BY <1>3, <2>1
  <1> HIDE DEF x
  <1>5. sok' = [sok EXCEPT ![s].sendwind = @ - Count] /\ UNCHANGED <<ctx, cut>>
    <2>1. /\ LET dest == <<g, table[g][x.id]>>
             IN  IF dest[2] # 0 /\ sok[dest].sendwind >= Count
                   THEN sok' = [sok EXCEPT ![dest].sendwind = @ - Count] /\ UNCHANGED ctx
                   ELSE ctx' = [ctx EXCEPT ![g] = Failed(@)] /\ UNCHANGED sok
          /\ UNCHANGED cut
      BY <1>3 DEF RecvIcwd
    <2>2. table[g][x.id] = 1
      BY <1>3
    <2> QED
      BY <1>4, <2>1, <2>2
  <1> DEFINE new == [sok[s] EXCEPT !.sendwind = @ - Count]
  <1>6. sok \in [Sockets -> SocketRec] /\ s \in Sockets /\ sok[s] \in SocketRec
    BY <1>1, LoneFacts
  <1>7. sok'[s] = new /\ \A t \in Sockets \ {s} : sok'[t] = sok[t]
    BY <1>5, <1>6
  <1>8. /\ new.sendwind = sok[s].sendwind - Count /\ new.holding = sok[s].holding
        /\ new.dead = sok[s].dead /\ new.closed = sok[s].closed
        /\ new.recvcount = sok[s].recvcount /\ new.owed = sok[s].owed
        /\ new.reading = sok[s].reading
        /\ new.got = sok[s].got /\ new.incoming = sok[s].incoming
    BY <1>6 DEF SocketRec
  <1> HIDE DEF new, s
  <1>9. Carries(e)' = Carries(e) /\ ctx'[Peer(e)].failed = ctx[Peer(e)].failed
    BY <1>5 DEF Carries
  <1>10. CASE e = g
    <2>1. <<e, 1>> = s /\ <<Peer(e), 1>> \in Sockets \ {s}
      BY <1>1, <1>10, LoneFacts DEF s
    <2>2. Alike(<<Peer(e), 1>>)
      BY <1>7, <2>1 DEF Alike
    <2>3. ReaderKept(e) /\ QueueKept(e)
      BY <1>1, <2>2, AlikeStream
    <2>4. /\ wire'[e] = wire[e]
          /\ Carried("ICWD", wire[Peer(e)]) = Carried("ICWD", wire'[Peer(e)]) + 1
          /\ Carried("ICWD", wire'[Peer(e)]) \in Nat
      <3>1. \A flag : /\ Carried(flag, wire'[Peer(g)]) \in Nat
                      /\ Carried(flag, wire[Peer(g)])
                           = IF x.flag = flag THEN Carried(flag, wire'[Peer(g)]) + 1
                                              ELSE Carried(flag, wire'[Peer(g)])
        BY <1>1, <1>2, <1>3, UnpackFlow DEF x
      <3>2. wire'[g] = wire[g]
        BY <1>1, <1>2, <1>3, UnpackFlow DEF x
      <3> QED
        BY <1>3, <1>10, <3>1, <3>2
    <2>5. /\ Writer(e)'.sendwind = Writer(e).sendwind - Count /\ Writer(e).sendwind >= Count
          /\ Writer(e)'.holding = Writer(e).holding /\ Writer(e)'.dead = Writer(e).dead
          /\ Writer(e)'.closed = Writer(e).closed
      BY <1>4, <1>7, <1>8, <2>1 DEF Writer
    <2>6. SentKept(e) /\ ClosKept(e)
      BY <2>2, <2>4, <2>5 DEF SentKept, ClosKept, ClosAt, Alike, Reader
    <2>7. /\ Carried("ICWD", wire[Peer(e)]) > 0
          /\ Carried("ICWD", wire'[Peer(e)]) = Carried("ICWD", wire[Peer(e)]) - 1
      BY <2>4
    <2>8. Flow(e)!DeliverIcwd
      BY <1>9, <2>3, <2>5, <2>6, <2>7 DEF Flow!DeliverIcwd, Flow!readerVars, ReaderKept,
         QueueKept, SentKept, ClosKept
    <2> QED
      BY <2>8, FlowsBy
  <1>11. CASE e = Peer(g)
    <2>1. <<Peer(e), 1>> = s /\ <<e, 1>> \in Sockets \ {s} /\ Peer(e) = g
      BY <1>1, <1>11, LoneFacts DEF s
    <2>2. Alike(<<e, 1>>)
      BY <1>7, <2>1 DEF Alike
    <2>3. WriterKept(e)
      BY <1>1, <2>2, AlikeStream
    <2>4. ReaderKept(e) /\ QueueKept(e) /\ Reader(e)'.got = Reader(e).got
          /\ Reader(e)'.incoming = Reader(e).incoming
      BY <1>7, <1>8, <2>1 DEF ReaderKept, QueueKept, Reader
    <2>5. CreditKept(e) /\ SentKept(e) /\ (Closes(wire[e]) <=> Closes(wire'[e]))
      <3>1. Unpacked(Peer(e)) /\ wire[e] # <<>> /\ x = wire[e][1]
        BY <1>2, <1>3, <1>11, <2>1 DEF x
      <3> QED
        BY <1>1, <1>3, <3>1, TakenAtReader
    <2>6. ClosKept(e)
      BY <2>2, <2>4, <2>5 DEF ClosKept, ClosAt, Alike, Writer
    <2> QED
      BY <1>9, <2>3, <2>4, <2>5, <2>6, FlowKept
  <1> QED
    BY <1>1, <1>10, <1>11, LoneFacts DEF End

\* What mainThread does with DATA or CLOS for its only socket
LEMMA SegmentTaken ==
    ASSUME Tunnels = 1, LoneInv, NEW g \in End, RecvSegment(g)
    PROVE  LET x == wire[Peer(g)][1]
               r == sok[<<g, 1>>]
           IN  /\ wire[Peer(g)] # <<>> /\ x \in SegmentRec /\ x.flag \in {"DATA", "CLOS"}
               /\ Fading /\ Unpacked(g) /\ ctx[g].main /\ cut' = cut
               /\ r \in SocketRec /\ Len(r.incoming) \in Nat /\ Len(r.incoming) <= Window
               /\ \/ /\ Len(r.incoming) < Window /\ ctx' = ctx
                     /\ sok' = [sok EXCEPT ![<<g, 1>>]
                                  = [r EXCEPT !.incoming = Append(@, x)]]
                  \/ /\ x.flag = "CLOS" /\ Len(r.incoming) = Window
                     /\ ctx' = [ctx EXCEPT ![g] = Failed(@)] /\ sok' = sok
  <1> DEFINE x == wire[Peer(g)][1]
             s == <<g, 1>>
             r == sok[s]
  <1>1. TypeInv /\ CreditInv
    BY DEF LoneInv, CreditInv, StreamInv, RoutingInv
  <1>2. wire[Peer(g)] # <<>> /\ cut' = cut
    BY DEF RecvSegment, Receiving
  <1>3. /\ Head(wire[Peer(g)]) = x /\ x \in SegmentRec /\ x.num = 1
        /\ table[g][x.id] = 1 /\ x.id \notin crossed
        /\ x.flag \in {"DATA", "CLOS"} /\ Fading /\ Unpacked(g) /\ ctx[g].main
    <2>1. x.flag \in {"DATA", "CLOS"}
      <3>1. Head(wire[Peer(g)]) = x
        BY <1>2, RoutedHere
      <3> QED
        BY <3>1 DEF RecvSegment, Receiving
    <2>2. /\ Head(wire[Peer(g)]) = x /\ x \in SegmentRec /\ x.num = 1
          /\ table[g][x.id] = 1 /\ x.id \notin crossed
          /\ Fading /\ Unpacked(g) /\ ctx[g].main
      BY <1>2, RoutedHere
    <2> QED
      BY <2>1, <2>2
  <1>4. ~(Len(r.incoming) < Window) => x.flag = "CLOS" /\ Len(r.incoming) = Window
    <2>1. x = wire[Peer(g)][1] /\ r = sok[<<g, x.num>>]
      BY <1>3
    <2> HIDE DEF x, r
    <2> QED
      BY <1>1, <1>2, <1>3, <2>1, SegmentServed
  <1>5. s \in Sockets /\ r \in SocketRec
    BY <1>1, LoneFacts
  <1>6. Len(r.incoming) \in Nat /\ Len(r.incoming) <= Window
    <2>1. Len(r.incoming) <= Window
      BY <1>1, <1>5 DEF TypeInv, Bounds
    <2> QED
      BY <1>5, <2>1, SocketLengths
  <1> HIDE DEF x
  <1>7. IF Len(r.incoming) < Window
          THEN sok' = [sok EXCEPT ![s].incoming = Append(@, x)] /\ UNCHANGED ctx
          ELSE ctx' = [ctx EXCEPT ![g] = Failed(@)] /\ UNCHANGED sok
    <2>1. LET dest == <<g, table[g][x.id]>>
          IN  IF dest[2] = 0
                THEN ctx' = [ctx EXCEPT ![g] = Failed(@)] /\ UNCHANGED <<sok, table>>
                ELSE IF HasRoom(sok[dest].incoming)
                       THEN /\ sok' = [sok EXCEPT ![dest].incoming = Queued(@, x)]
                            /\ UNCHANGED ctx
                       ELSE ctx' = [ctx EXCEPT ![g] = Failed(@)] /\ UNCHANGED sok
      BY <1>3 DEF RecvSegment
    <2>2. table[g][x.id] = 1
      BY <1>3
    <2> QED
      BY <2>1, <2>2 DEF HasRoom, Queued
  <1>8. \/ /\ Len(r.incoming) < Window /\ ctx' = ctx
           /\ sok' = [sok EXCEPT ![s] = [r EXCEPT !.incoming = Append(@, x)]]
        \/ /\ x.flag = "CLOS" /\ Len(r.incoming) = Window
           /\ ctx' = [ctx EXCEPT ![g] = Failed(@)] /\ sok' = sok
    BY <1>4, <1>7
  <1> QED
    BY <1>2, <1>3, <1>5, <1>6, <1>8 DEF x

\* CLOS is the last of a stream: nothing of it is behind, or was handed out.
LEMMA ClosTaken ==
    ASSUME Tunnels = 1, LoneInv, NEW e \in End, RecvSegment(Peer(e)),
           wire[e][1].flag = "CLOS"
    PROVE  /\ ClosAt(e) = "wire" /\ Carried("DATA", wire[e]) = 0 /\ ~Closes(wire'[e])
           /\ Writer(e).closed
  <1>1. /\ TypeInv /\ Silence /\ Peer(e) \in End /\ Peer(Peer(e)) = e
        /\ wire[e] \in Seq(SegmentRec) /\ \A k \in 1..Len(wire[e]) : wire[e][k].num = 1
    <2>1. TypeInv /\ Silence
      BY DEF LoneInv, CreditInv, StreamInv, RoutingInv
    <2> QED
      BY <2>1, LoneFacts
  <1>2. wire[e] # <<>> /\ Unpacked(Peer(e))
    BY <1>1, SegmentTaken
  <1>3. /\ 1 \in 1..Len(wire[e]) /\ Len(wire[e]) \in Nat /\ DOMAIN wire[e] = 1..Len(wire[e])
        /\ \A k \in 1..Len(wire[e]) : k = 1 \/ 1 < k
    BY <1>1, <1>2
  <1>4. Writer(e).closed
    <2>1. sok[<<e, wire[e][1].num>>].closed
      BY <1>1, <1>3 DEF Silence, ClosOfClosed
    <2>2. wire[e][1].num = 1
      BY <1>1, <1>3
    <2> QED
      BY <2>1, <2>2 DEF Writer
  <1>5. \A k \in 1..Len(wire[e]) : k = 1
    <2>1. ASSUME NEW k \in 1..Len(wire[e]), 1 < k PROVE FALSE
      <3>1. wire[e][k].num # wire[e][1].num
        BY <1>1, <1>3, <2>1 DEF Silence, ClosLast
      <3>2. wire[e][k].num = 1 /\ wire[e][1].num = 1
        BY <1>1, <1>3
      <3> QED
        BY <3>1, <3>2
    <2> QED
      BY <1>3, <2>1
  <1>6. Carried("DATA", wire[e]) = 0
    <2>1. \A k \in 1..Len(wire[e]) : wire[e][k].flag # "DATA"
      BY <1>5
    <2> QED
      BY <1>1, <2>1, CarriedEnds
  <1>7. Closes(wire[e])
    BY <1>3 DEF Closes
  <1>8. ~Closes(wire'[e])
    <2>1. wire'[e] = Tail(wire[e])
      <3>1. wire \in [End -> Seq(SegmentRec)]
        BY <1>1, LoneFacts
      <3>2. wire' = [wire EXCEPT ![e] = Tail(wire[e])]
        BY <1>1, <1>2 DEF Unpacked
      <3> QED
        BY <3>1, <3>2
    <2>2. Len(wire[e]) = 1
      <3>1. PICK L \in Nat : Len(wire[e]) = L
        BY <1>3
      <3>2. L \in 1..L
        BY <1>3, <3>1
      <3> QED
        BY <1>5, <3>1, <3>2
    <2>3. Tail(wire[e]) \in Seq(SegmentRec) /\ Len(Tail(wire[e])) = 0
      BY <1>1, <1>2, <2>2, HeadTailProperties
    <2>4. DOMAIN Tail(wire[e]) = 1..Len(Tail(wire[e]))
      BY <2>3
    <2>5. 1..0 = {}
      OBVIOUS
    <2>6. DOMAIN wire'[e] = {}
      BY <2>1, <2>3, <2>4, <2>5, Zenon
    <2> QED
      BY <2>6 DEF Closes
  <1> QED
    BY <1>4, <1>6, <1>7, <1>8 DEF ClosAt

\* ... for the socket that writes, mainThread may only stop.
LEMMA SegmentAtWriter ==
    ASSUME Tunnels = 1, LoneInv, NEW e \in End, RecvSegment(e)
    PROVE  Flows(e)
  <1> DEFINE x == wire[Peer(e)][1]
             s == <<e, 1>>
  <1>1. TypeInv /\ Peer(e) # e /\ Peer(e) \in End /\ s \in Sockets /\ <<Peer(e), 1>> \in Sockets \ {s}
    <2>1. TypeInv
      BY DEF LoneInv, CreditInv, StreamInv, RoutingInv
    <2> QED
      BY <2>1, LoneFacts
  <1>2. sok \in [Sockets -> SocketRec] /\ ctx \in [End -> CtxRec] /\ sok[s] \in SocketRec
    BY <1>1, LoneFacts
  <1>3. /\ wire[Peer(e)] # <<>> /\ x.flag # "ICWD" /\ Fading /\ Unpacked(e)
        /\ \/ /\ ctx' = ctx
              /\ sok' = [sok EXCEPT ![s] = [sok[s] EXCEPT !.incoming = Append(@, x)]]
           \/ ctx' = [ctx EXCEPT ![e] = Failed(@)] /\ sok' = sok
    BY SegmentTaken
  <1> HIDE DEF x, s
  <1>4. sok'[s] = sok[s] \/ sok'[s] = [sok[s] EXCEPT !.incoming = Append(@, x)]
    BY <1>1, <1>2, <1>3
  <1>5. /\ sok'[s].sendwind = sok[s].sendwind /\ sok'[s].holding = sok[s].holding
        /\ sok'[s].dead = sok[s].dead /\ sok'[s].closed = sok[s].closed
    BY <1>2, <1>4 DEF SocketRec
  <1>6. Alike(<<Peer(e), 1>>)
    <2>1. sok'[<<Peer(e), 1>>] = sok[<<Peer(e), 1>>]
      BY <1>1, <1>2, <1>3
    <2> QED
      BY <2>1 DEF Alike
  <1>7. WriterKept(e)
    BY <1>5 DEF WriterKept, Writer, s
  <1>8. SentKept(e) /\ CreditKept(e) /\ ClosKept(e) /\ QueueKept(e) /\ ReaderKept(e)
    <2>1. sok'[<<e, 1>>].closed = sok[<<e, 1>>].closed
      BY <1>5 DEF s
    <2> QED
      BY <1>1, <1>3, <1>6, <2>1, TakenAtWriter DEF x
  <1>9. ctx'[Peer(e)].failed = ctx[Peer(e)].failed
    BY <1>1, <1>2, <1>3
  <1>10. Carries(e)' => Carries(e)
    BY <1>3 DEF Fading
  <1> QED
    BY <1>7, <1>8, <1>9, <1>10, FlowKept

LEMMA ReaderWaits ==
    ASSUME Tunnels = 1, LoneInv, NEW e \in End, RecvSegment(Peer(e))
    PROVE  ~Ended(Reader(e))
  <1>1. /\ StreamInv /\ TypeInv /\ crossed = {} /\ Peer(e) \in End /\ Peer(Peer(e)) = e
        /\ Reader(e) = sok[<<Peer(e), 1>>]
    <2>1. StreamInv /\ TypeInv /\ crossed = {}
      BY DEF LoneInv, CreditInv, StreamInv, RoutingInv, Lone
    <2> QED
      BY <2>1, LoneFacts
  <1>2. /\ wire[e] # <<>> /\ ctx[Peer(e)].main /\ wire[e][1].flag \in {"DATA", "CLOS"}
    BY <1>1, SegmentTaken
  <1>3. 1 \in 1..Len(idOf) /\ wire[e][1].num = 1 /\ 1 \in 1..Len(wire[e])
    <2>1. wire[e][1].num \in 1..Len(idOf) /\ 1 \in 1..Len(wire[e])
      BY <1>1, <1>2, TakenSegment
    <2>2. wire[e][1].num = 1
      BY <1>1, <2>1, LoneFacts
    <2> QED
      BY <2>1, <2>2
  <1>4. Coming(Reader(e), Writer(e).sent, wire[e], 1, Carries(e))
    <2>1. Stream(Peer(e), 1)
      BY <1>1, <1>3, StreamTypes
    <2> QED
      BY <1>1, <1>2, <2>1 DEF Stream, Writer
  <1>5. Ended(Reader(e)) =>
          \A k \in 1..Len(wire[e]) : wire[e][k].num = 1 => wire[e][k].flag \notin {"DATA", "CLOS"}
    BY <1>4 DEF Coming
  <1> QED
    BY <1>2, <1>3, <1>5

LEMMA SegmentAtReader ==
    ASSUME Tunnels = 1, LoneInv, NEW e \in End, RecvSegment(Peer(e))
    PROVE  Flows(e)
  <1> DEFINE x == wire[e][1]
             s == <<Peer(e), 1>>
             r == sok[s]
             q == r.incoming
  <1>1. /\ TypeInv /\ FailedStops /\ Peer(e) \in End /\ Peer(Peer(e)) = e
        /\ s \in Sockets /\ <<e, 1>> \in Sockets \ {s}
        /\ sok \in [Sockets -> SocketRec] /\ ctx \in [End -> CtxRec] /\ r \in SocketRec
        /\ Reader(e) = r
    <2>1. TypeInv /\ FailedStops
      BY DEF LoneInv, CreditInv, StreamInv, RoutingInv, Lone
    <2> QED
      BY <2>1, LoneFacts
  <1>2. /\ wire[e] # <<>> /\ x \in SegmentRec /\ x.flag \in {"DATA", "CLOS"}
        /\ Unpacked(Peer(e)) /\ ctx[Peer(e)].main /\ cut' = cut
        /\ Len(q) \in Nat /\ Len(q) <= Window
        /\ \/ /\ Len(q) < Window /\ ctx' = ctx
              /\ sok' = [sok EXCEPT ![s] = [r EXCEPT !.incoming = Append(@, x)]]
           \/ /\ x.flag = "CLOS" /\ Len(q) = Window
              /\ ctx' = [ctx EXCEPT ![Peer(e)] = Failed(@)] /\ sok' = sok
    BY <1>1, SegmentTaken
  <1>3. ctx[Peer(e)].failed = FALSE
    BY <1>1, <1>2 DEF FailedStops, CtxRec
  <1>4. ~Closes(q) /\ ~SawEnd(r.got) /\ Carried("DATA", q) = Len(q)
    BY <1>1, ReaderWaits, EndFacts
  <1>5. q \in Seq(SegmentRec)
    BY <1>1 DEF SocketRec
  <1>6. /\ CreditKept(e)
        /\ x.flag # "DATA" => SentKept(e)
        /\ x.flag = "DATA" => Carried("DATA", wire[e]) = Carried("DATA", wire'[e]) + 1
        /\ Carried("DATA", wire'[e]) \in Nat
        /\ Closes(wire[e]) <=> Closes(wire'[e]) \/ x.flag = "CLOS"
    BY <1>1, <1>2, TakenAtReader
  <1>7. WriterKept(e) /\ Writer(e)'.closed = Writer(e).closed
    <2>1. sok'[<<e, 1>>] = sok[<<e, 1>>]
      BY <1>1, <1>2
    <2> QED
      BY <2>1 DEF WriterKept, Writer
  <1> HIDE DEF x, s, r, q
  <1>8. ASSUME Len(q) < Window, ctx' = ctx,
               sok' = [sok EXCEPT ![s] = [r EXCEPT !.incoming = Append(@, x)]]
        PROVE  Flows(e)
    <2>1. Reader(e)' = [r EXCEPT !.incoming = Append(@, x)]
      BY <1>1, <1>8 DEF Reader, s
    <2>2. /\ Reader(e)'.incoming = Append(q, x) /\ Reader(e)'.got = r.got
          /\ ReaderKept(e) /\ Reader(e).incoming = q
      BY <1>1, <2>1 DEF SocketRec, ReaderKept, q
    <2>3. /\ Carried("DATA", Append(q, x))
               = IF x.flag = "DATA" THEN Carried("DATA", q) + 1 ELSE Carried("DATA", q)
          /\ Closes(Append(q, x)) <=> Closes(q) \/ x.flag = "CLOS"
      BY <1>2, <1>5, CarriedAppend
    <2>4. Carries(e)' = Carries(e) /\ ctx'[Peer(e)].failed = ctx[Peer(e)].failed
      BY <1>2, <1>8 DEF Carries
    <2>5. ASSUME x.flag = "DATA" PROVE Flow(e)!DeliverData
      <3>1. ClosKept(e)
        BY <1>1, <1>4, <1>6, <1>7, <2>2, <2>3, <2>5 DEF ClosKept, ClosAt
      <3>2. /\ Carried("DATA", wire[e]) > 0
            /\ Carried("DATA", wire'[e]) = Carried("DATA", wire[e]) - 1
        BY <1>6, <2>5
      <3>3. /\ Carried("DATA", Reader(e).incoming) < Window
            /\ Carried("DATA", Reader(e)'.incoming) = Carried("DATA", Reader(e).incoming) + 1
        BY <1>4, <1>8, <2>2, <2>3, <2>5
      <3> QED
        BY <1>3, <1>6, <1>7, <2>2, <2>4, <3>1, <3>2, <3>3 DEF Flow!DeliverData,
           Flow!writerVars, Flow!readerVars, WriterKept, ReaderKept, CreditKept, ClosKept
    <2>6. ASSUME x.flag = "CLOS" PROVE Flow(e)!DeliverClos
      <3>1. /\ ClosAt(e) = "wire" /\ Carried("DATA", wire[e]) = 0 /\ ~Closes(wire'[e])
            /\ Writer(e).closed
        BY <2>6, ClosTaken DEF x
      <3>2. ClosAt(e)' = "queued"
        BY <1>7, <2>2, <2>3, <2>6, <3>1 DEF ClosAt
      <3>3. /\ Carried("DATA", Reader(e).incoming) < Window /\ QueueKept(e) /\ SentKept(e)
        BY <1>4, <1>6, <1>8, <2>2, <2>3, <2>6 DEF QueueKept
      <3> QED
        BY <1>3, <1>6, <1>7, <2>2, <2>4, <3>1, <3>2, <3>3 DEF Flow!DeliverClos,
           Flow!writerVars, Flow!readerVars, WriterKept, ReaderKept, CreditKept, QueueKept,
           SentKept
    <2> QED
      BY <1>2, <2>5, <2>6, FlowsBy
  <1>9. ASSUME x.flag = "CLOS", Len(q) = Window,
               ctx' = [ctx EXCEPT ![Peer(e)] = Failed(@)], sok' = sok
        PROVE  Flows(e)
    <2>1. /\ ClosAt(e) = "wire" /\ Carried("DATA", wire[e]) = 0 /\ ~Closes(wire'[e])
          /\ Writer(e).closed
      BY <1>9, ClosTaken DEF x
    <2>2. Reader(e)' = Reader(e) /\ Reader(e) = r /\ Reader(e).incoming = q
      BY <1>1, <1>9 DEF Reader, q
    <2>3. ReaderKept(e) /\ QueueKept(e) /\ SentKept(e)
      BY <1>6, <1>9, <2>2 DEF ReaderKept, QueueKept
    <2>4. ClosAt(e)' = "lost"
      BY <1>4, <1>7, <2>1, <2>2 DEF ClosAt
    <2>5. ctx'[Peer(e)].failed = TRUE /\ Carries(e)' = FALSE
      <3>1. ctx'[Peer(e)] = Failed(ctx[Peer(e)]) /\ ctx[Peer(e)] \in CtxRec
        BY <1>1, <1>9
      <3>2. ctx'[Peer(e)].failed = TRUE /\ ctx'[Peer(e)].open = FALSE
        BY <3>1 DEF Failed, CtxRec
      <3> QED
        BY <3>2 DEF Carries
    <2>6. ~(Carried("DATA", Reader(e).incoming) < Window)
      BY <1>2, <1>4, <1>9, <2>2
    <2>7. Flow(e)!DeliverClos
      BY <1>3, <1>6, <1>7, <2>1, <2>3, <2>4, <2>5, <2>6 DEF Flow!DeliverClos,
         Flow!writerVars, Flow!readerVars, WriterKept, ReaderKept, CreditKept, QueueKept,
         SentKept
    <2> QED
      BY <2>7, FlowsBy
  <1> QED
    BY <1>2, <1>8, <1>9

-----------------------------------------------------------------------------
(* The steps of the Contexts, and all steps together.                       *)

\* A step that leaves the wires alone, and of the sockets all but a stage
LEMMA ApartFlows ==
    ASSUME Tunnels = 1, TypeInv, NEW e \in End, \A t \in Sockets : Alike(t), wire' = wire,
           ctx'[Peer(e)].failed = ctx[Peer(e)].failed, Carries(e)' => Carries(e)
    PROVE  Flows(e)
  <1>1. Alike(<<e, 1>>) /\ Alike(<<Peer(e), 1>>)
    BY LoneFacts
  <1>2. WriterKept(e) /\ ReaderKept(e) /\ QueueKept(e) /\ ClosKept(e)
    BY <1>1, AlikeStream
  <1>3. SentKept(e) /\ CreditKept(e)
    BY DEF SentKept, CreditKept
  <1> QED
    BY <1>2, <1>3, FlowKept

LEMMA ContextFlows ==
    ASSUME Tunnels = 1, TypeInv, NEW e \in End, NEW g \in End,
           ReadError(g) \/ AlivFails(g) \/ Kill \/ Cut
    PROVE  Flows(e)
  <1>1. wire' = wire /\ \A t \in Sockets : Alike(t)
    BY DEF ReadError, AlivFails, Kill, Cut, contextOnly, Alike
  <1>2. Fading
    BY ContextStep DEF Quiet
  <1>3. ctx'[Peer(e)].failed = ctx[Peer(e)].failed
    <2>1. ctx \in [End -> CtxRec] /\ Peer(e) \in End
      BY LoneFacts
    <2>2. ASSUME NEW f \in End PROVE ctx'[f].failed = ctx[f].failed
      <3>1. ctx[f] \in CtxRec
        BY <2>1
      <3>2. CASE ReadError(g)
        BY <2>1, <3>1, <3>2 DEF ReadError, CtxRec
      <3>3. CASE AlivFails(g)
        <4>1. ctx' = [ctx EXCEPT ![g] = [ctx[g] EXCEPT !.sdead = TRUE, !.open = FALSE]]
          BY <2>1, <3>3 DEF AlivFails
        <4> QED
          BY <2>1, <3>1, <4>1 DEF CtxRec
      <3>4. CASE Kill
        BY <2>1, <3>1, <3>4 DEF Kill, CtxRec
      <3>5. CASE Cut
        BY <3>5 DEF Cut
      <3> QED
        BY <3>2, <3>3, <3>4, <3>5
    <2> QED
      BY <2>1, <2>2
  <1> QED
    BY <1>1, <1>2, <1>3, ApartFlows DEF Fading

LEMMA ReserveFlows ==
    ASSUME Tunnels = 1, TypeInv, NEW e \in End, NEW i \in Ids, Reserve(i)
    PROVE  Flows(e)
  <1>1. Reserves(i)
    BY ReserveStep
  <1>2. \A t \in Sockets : Alike(t)
    <2> DEFINE c == <<"client", Len(idOf) + 1>>
    <2>1. /\ sok[c] = NewSocket /\ sok'[c] = [NewSocket EXCEPT !.stage = "reserved"]
          /\ \A t \in Sockets \ {c} : sok'[t] = sok[t]
      BY <1>1 DEF Reserves
    <2> HIDE DEF c
    <2>2. Alike(c)
      BY <2>1 DEF Alike, NewSocket
    <2>3. \A t \in Sockets \ {c} : Alike(t)
      BY <2>1 DEF Alike
    <2> QED
      BY <2>2, <2>3
  <1>3. UNCHANGED <<wire, ctx, cut>>
    BY <1>1 DEF Reserves
  <1>4. Carries(e)' => Carries(e)
    BY <1>3 DEF Carries
  <1> QED
    BY <1>2, <1>3, <1>4, ApartFlows

\* Every step of the multiplexer is a step of the stream from end e, or none.
LEMMA NextFlows ==
    ASSUME Tunnels = 1, LoneInv, [Next]_vars, NEW e \in End
    PROVE  Flows(e)
  <1>1. TypeInv
    BY DEF LoneInv, CreditInv, StreamInv, RoutingInv
  <1>2. ASSUME NEW i \in Ids, Reserve(i) PROVE Flows(e)
    BY <1>1, <1>2, ReserveFlows
  <1>3. ASSUME NEW n \in Nums, OpenTunnel(n) PROVE Flows(e)
    BY <1>1, <1>3, OpenTunnelFlows
  <1>4. ASSUME Accept \/ RecvOpen PROVE Flows(e)
    BY <1>1, <1>4, AcceptFlows, RecvOpenFlows
  <1>5. ASSUME NEW s \in Sockets, Application(s) PROVE Flows(e)
    <2>1. CASE TakeToken(s) \/ SendData(s) \/ SendIcwd(s)
      BY <1>1, <2>1, TakeTokenFlows, SendDataFlows, SendIcwdFlows
    <2>2. CASE Close(s) \/ ReadData(s) \/ ReadClos(s)
      BY <2>2, CloseFlows, ReadDataFlows, ReadClosFlows
    <2>3. CASE ReadDying(s) \/ ReadTimeout(s) \/ WriteTimeout(s) \/ TieUp(s)
      BY <1>1, <2>3, DyingFlows
    <2> QED
      BY <1>5, <2>1, <2>2, <2>3 DEF Application
  <1>6. ASSUME NEW g \in End, Network(g) PROVE Flows(e)
    <2>1. CASE RecvIcwd(g)
      BY <2>1, RecvIcwdFlows
    <2>2. CASE RecvSegment(g)
      <3>1. g = e \/ g = Peer(e)
        BY DEF End, Peer
      <3> QED
        BY <2>2, <3>1, SegmentAtWriter, SegmentAtReader
    <2>3. CASE ReadError(g) \/ AlivFails(g)
      BY <1>1, <2>3, ContextFlows
    <2> QED
      BY <1>6, <2>1, <2>2, <2>3 DEF Network
  <1>7. ASSUME Kill \/ Cut PROVE Flows(e)
    BY <1>1, <1>7, ContextFlows
  <1>8. ASSUME UNCHANGED vars PROVE Flows(e)
    <2>1. \A t \in Sockets : Alike(t)
      BY <1>8 DEF Alike, vars
    <2>2. UNCHANGED <<wire, ctx, cut>>
      BY <1>8 DEF vars
    <2>3. Carries(e)' => Carries(e)
      BY <2>2 DEF Carries
    <2> QED
      BY <1>1, <2>1, <2>2, <2>3, ApartFlows
  <1> QED
    BY <1>2, <1>3, <1>4, <1>5, <1>6, <1>7, <1>8 DEF Next

LEMMA InitFlow ==
    ASSUME Tunnels = 1, Init, NEW e \in End
    PROVE  Flow(e)!Init
  <1>1. TypeInv
    BY InitTypeInv
  <1>2. /\ Writer(e) = NewSocket /\ Reader(e) = NewSocket
        /\ wire[e] = <<>> /\ wire[Peer(e)] = <<>> /\ ctx[e] = NewCtx /\ ctx[Peer(e)] = NewCtx
        /\ cut = FALSE
    <2>1. /\ <<e, 1>> \in Sockets /\ <<Peer(e), 1>> \in Sockets /\ Peer(e) \in End
          /\ Writer(e) = sok[<<e, 1>>] /\ Reader(e) = sok[<<Peer(e), 1>>]
      BY <1>1, LoneFacts
    <2> QED
      BY <2>1 DEF Init
  <1>3. \A flag : Carried(flag, <<>>) = 0
    <2>1. <<>> \in Seq(SegmentRec) /\ Len(<<>>) = 0
      OBVIOUS
    <2> DEFINE q == <<>>
    <2>2. q \in Seq(SegmentRec) /\ Len(q) = 0
      BY <2>1
    <2> HIDE DEF q
    <2>3. \A flag : Carried(flag, q) = 0
      <3>1. ASSUME NEW flag PROVE Carried(flag, q) = 0
        <4>1. \A k \in 1..Len(q) : q[k].flag # flag
          BY <2>2
        <4> QED
          BY <2>2, <4>1, CarriedEnds
      <3> QED
        BY <3>1
    <2> QED
      BY <2>3 DEF q
  <1>4. ClosAt(e) = "none"
    BY <1>2 DEF ClosAt, NewSocket
  <1>5. Carries(e) = TRUE /\ ctx[Peer(e)].failed = FALSE
    BY <1>2 DEF Carries, NewCtx
  <1>6. /\ Writer(e).sendwind = 0 /\ Writer(e).holding = FALSE /\ Writer(e).dead = FALSE
        /\ Reader(e).recvcount = 0 /\ Reader(e).owed = 0 /\ Reader(e).dead = FALSE
        /\ Reader(e).reading = FALSE /\ Reader(e).incoming = <<>>
    BY <1>2 DEF NewSocket
  <1> QED
    BY <1>2, <1>3, <1>4, <1>5, <1>6 DEF Flow!Init

(* Lone is kept by every step. *)

-----------------------------------------------------------------------------
(* LoneInv is inductive.                                                    *)

LEMMA LoneTypes ==
    ASSUME Tunnels = 1, LoneInv
    PROVE  /\ TypeInv /\ Silence /\ AtWork /\ RoutingInv /\ StreamInv /\ CreditInv
           /\ crossed = {} /\ Opening /\ FailedStops /\ ClosOnce
           /\ "client" \in End /\ "server" \in End /\ Peer("client") = "server"
           /\ Peer("server") = "client" /\ <<"client", 1>> \in Sockets
           /\ \A s \in Sockets : s[2] = 1 /\ (s = <<"client", 1>> \/ s = <<"server", 1>>)
           /\ wire["client"] \in Seq(SegmentRec)
  <1>1. /\ TypeInv /\ Silence /\ AtWork /\ RoutingInv /\ StreamInv /\ CreditInv
        /\ crossed = {} /\ Opening /\ FailedStops /\ ClosOnce
    BY DEF LoneInv, CreditInv, StreamInv, RoutingInv, Lone
  <1>2. /\ "client" \in End /\ "server" \in End /\ Peer("client") = "server"
        /\ Peer("server") = "client"
    BY DEF End, Peer
  <1>3. /\ <<"client", 1>> \in Sockets /\ wire["client"] \in Seq(SegmentRec)
        /\ \A s \in Sockets : s = <<"client", 1>> \/ s = <<"server", 1>>
    BY <1>1, <1>2, LoneFacts
  <1> QED
    BY <1>1, <1>2, <1>3

\* The tunnel is drawn once.
LEMMA NeverCrossed ==
    ASSUME Tunnels = 1, LoneInv, [Next]_vars
    PROVE  crossed' = {}
  <1>1. TypeInv /\ crossed = {}
    BY LoneTypes
  <1>2. ASSUME NEW i \in Ids, Reserve(i) PROVE crossed' = crossed
    <2>1. Len(idOf) < 1 /\ idOf \in Seq(Ids)
      BY <1>1, <1>2 DEF Reserve, TypeInv, Types
    <2>2. DOMAIN idOf = 1..Len(idOf) /\ Len(idOf) \in Nat
      BY <2>1
    <2>3. \A k \in DOMAIN idOf : FALSE
      BY <2>1, <2>2
    <2> QED
      BY <1>2, <2>3 DEF Reserve
  <1>3. ASSUME NEW s \in Sockets, Application(s) PROVE crossed' = crossed
    BY <1>3 DEF Application, TakeToken, SendData, Close, ReadData, ReadClos, ReadDying,
       SendIcwd, ReadTimeout, WriteTimeout, TieUp, socketOnly
  <1>4. ASSUME NEW e \in End, Network(e) PROVE crossed' = crossed
    BY <1>4 DEF Network, RecvIcwd, RecvSegment, ReadError, AlivFails, contextOnly
  <1>5. ASSUME \/ \E n \in Nums : OpenTunnel(n)
               \/ Accept \/ RecvOpen \/ Kill \/ Cut \/ UNCHANGED vars
        PROVE  crossed' = crossed
    BY <1>5 DEF OpenTunnel, Accept, RecvOpen, Kill, Cut, contextOnly, vars
  <1> QED
    BY <1>1, <1>2, <1>3, <1>4, <1>5 DEF Next

\* How a step may change the Contexts
LEMMA CtxSteps ==
    ASSUME [Next]_vars
    PROVE  \/ ctx' = ctx
           \/ \E g \in End : \/ ctx' = [ctx EXCEPT ![g] = Failed(@)]
                             \/ ReadError(g) \/ AlivFails(g) \/ Kill
  <1>1. ASSUME NEW g \in End, Network(g)
        PROVE  \/ ctx' = ctx \/ ctx' = [ctx EXCEPT ![g] = Failed(@)]
               \/ ReadError(g) \/ AlivFails(g)
    BY <1>1 DEF Network, RecvIcwd, RecvSegment
  <1>2. ASSUME RecvOpen
        PROVE  ctx' = ctx \/ ctx' = [ctx EXCEPT !["server"] = Failed(@)]
    BY <1>2 DEF RecvOpen
  <1>3. ASSUME NEW s \in Sockets, Application(s) PROVE ctx' = ctx
    BY <1>3 DEF Application, TakeToken, SendData, Close, ReadData, ReadClos, ReadDying,
       SendIcwd, ReadTimeout, WriteTimeout, TieUp, socketOnly
  <1>4. ASSUME \/ \E i \in Ids : Reserve(i)
               \/ \E n \in Nums : OpenTunnel(n)
               \/ Accept \/ Cut \/ UNCHANGED vars
        PROVE  ctx' = ctx
    BY <1>4 DEF Reserve, OpenTunnel, Accept, Cut, contextOnly, vars
  <1> QED
    BY <1>1, <1>2, <1>3, <1>4, Ends DEF Next

LEMMA FailedStopsStep ==
    ASSUME TypeInv, FailedStops, [Next]_vars
    PROVE  FailedStops'
  <1>1. ctx \in [End -> CtxRec]
    BY DEF TypeInv, Types
  <1> SUFFICES ASSUME NEW e \in End, ctx'[e].failed PROVE ~ctx'[e].main
    BY DEF FailedStops
  <1>2. ctx[e] \in CtxRec /\ (ctx[e].failed => ~ctx[e].main)
    BY <1>1 DEF FailedStops
  <1>3. ASSUME NEW g \in End, ctx' = [ctx EXCEPT ![g] = Failed(@)] PROVE ~ctx'[e].main
    <2>1. ctx'[e] = ctx[e] \/ ctx'[e] = Failed(ctx[e])
      BY <1>1, <1>3
    <2>2. ~Failed(ctx[e]).main
      BY <1>2 DEF Failed, CtxRec
    <2> QED
      BY <1>2, <2>1, <2>2
  <1>4. ASSUME NEW g \in End, ReadError(g) PROVE ~ctx'[e].main
    BY <1>1, <1>2, <1>4 DEF ReadError, CtxRec
  <1>5. ASSUME NEW g \in End, AlivFails(g) PROVE ~ctx'[e].main
    <2>1. ctx' = [ctx EXCEPT ![g] = [ctx[g] EXCEPT !.sdead = TRUE, !.open = FALSE]]
      BY <1>1, <1>5 DEF AlivFails
    <2>2. ctx'[e] = ctx[e] \/ ctx'[e] = [ctx[e] EXCEPT !.sdead = TRUE, !.open = FALSE]
      BY <1>1, <2>1
    <2> QED
      BY <1>2, <2>2 DEF CtxRec
  <1>6. ASSUME Kill PROVE ~ctx'[e].main
    <2>1. ctx'[e] = ctx[e] \/ ctx'[e] = [ctx[e] EXCEPT !.dead = TRUE]
      BY <1>1, <1>6 DEF Kill
    <2> QED
      BY <1>2, <2>1 DEF CtxRec
  <1> QED
    BY <1>2, <1>3, <1>4, <1>5, <1>6, CtxSteps

\* Who changes the accept queue
LEMMA QueueSteps ==
    ASSUME [Next]_vars
    PROVE  acptQueue' = acptQueue \/ Accept \/ RecvOpen
  <1>1. ASSUME NEW s \in Sockets, Application(s) PROVE acptQueue' = acptQueue
    BY <1>1 DEF Application, TakeToken, SendData, Close, ReadData, ReadClos, ReadDying,
       SendIcwd, ReadTimeout, WriteTimeout, TieUp, socketOnly
  <1>2. ASSUME NEW e \in End, Network(e) PROVE acptQueue' = acptQueue
    BY <1>2 DEF Network, RecvIcwd, RecvSegment, ReadError, AlivFails, contextOnly
  <1>3. ASSUME \/ \E i \in Ids : Reserve(i)
               \/ \E n \in Nums : OpenTunnel(n)
               \/ Kill \/ Cut \/ UNCHANGED vars
        PROVE  acptQueue' = acptQueue
    BY <1>3 DEF Reserve, OpenTunnel, Kill, Cut, contextOnly, vars
  <1> QED
    BY <1>1, <1>2, <1>3 DEF Next

LEMMA OpeningQuiet ==
    ASSUME Tunnels = 1, LoneInv, wire'["client"] = wire["client"],
           sok'[<<"client", 1>>].stage = sok[<<"client", 1>>].stage,
           acptQueue' = acptQueue \/ acptQueue # <<>>
    PROVE  Opening'
  <1>1. Opening
    BY LoneTypes
  <1> QED
    BY <1>1 DEF Opening

LEMMA OpeningSends ==
    ASSUME Tunnels = 1, LoneInv, NEW s \in Sockets, NEW seg, Sends(s, seg),
           acptQueue' = acptQueue
    PROVE  Opening'
  <1> DEFINE c == <<"client", 1>>
  <1>1. /\ TypeInv /\ Types /\ Opening /\ AtWork /\ c \in Sockets
        /\ s = c \/ s = <<"server", 1>>
        /\ wire \in [End -> Seq(SegmentRec)] /\ wire["client"] \in Seq(SegmentRec)
    <2>1. TypeInv /\ Opening /\ AtWork
      BY LoneTypes
    <2>2. Types /\ wire \in [End -> Seq(SegmentRec)]
      BY <2>1 DEF TypeInv, Types
    <2> QED
      BY <2>1, <2>2, LoneTypes
  <1>2. seg \in SegmentRec /\ Pack(s[1], seg) /\ \A t \in Sockets \ {s} : Still(t)
    BY DEF Sends
  <1>3. CASE s = <<"server", 1>>
    <2>1. wire'["client"] = wire["client"]
      BY <1>1, <1>2, <1>3 DEF Pack
    <2>2. sok'[c].stage = sok[c].stage
      BY <1>1, <1>2, <1>3 DEF Still
    <2> QED
      BY <2>1, <2>2, OpeningQuiet
  <1>4. CASE s = c
    <2>1. sok'[c].stage = "open"
      <3>1. seg.flag = "OPEN" => sok'[c].stage = "open"
        BY <1>4 DEF Sends
      <3>2. seg.flag = "CLOS" => sok'[c].stage = "open"
        BY <1>4 DEF Sends
      <3>3. seg.flag = "DATA" => sok'[c].stage = "open"
        BY <1>1, <1>4 DEF Sends, AtWork, Busy
      <3>4. seg.flag = "ICWD" => sok'[c].stage = "open"
        BY <1>1, <1>4 DEF Sends, AtWork, Busy, Still
      <3> QED
        BY <1>2, <3>1, <3>2, <3>3, <3>4 DEF SegmentRec
    <2>2. seg.flag = "OPEN" => wire["client"] = <<>> /\ acptQueue = <<>>
      BY <1>1, <1>4 DEF Sends, Opening
    <2>3. \A k \in 1..Len(wire'["client"]) :
            \/ k \in 1..Len(wire["client"]) /\ wire'["client"][k] = wire["client"][k]
            \/ k = Len(wire["client"]) + 1 /\ wire'["client"][k] = seg
      <3>1. s[1] = "client" /\ "client" \in End
        BY <1>4, Ends
      <3> QED
        BY <1>1, <1>2, <3>1, PackFacts
    <2>4. ASSUME NEW k \in 1..Len(wire'["client"]), wire'["client"][k].flag = "OPEN"
          PROVE  k = 1 /\ acptQueue' = <<>>
      <3>1. CASE k \in 1..Len(wire["client"]) /\ wire'["client"][k] = wire["client"][k]
        BY <1>1, <2>4, <3>1 DEF Opening
      <3>2. CASE k = Len(wire["client"]) + 1 /\ wire'["client"][k] = seg
        <4>1. Len(wire["client"]) = 0
          BY <2>2, <2>4, <3>2
        <4> QED
          BY <2>2, <2>4, <3>2, <4>1
      <3> QED
        BY <2>3, <3>1, <3>2
    <2> QED
      BY <2>1, <2>4 DEF Opening
  <1> QED
    BY <1>1, <1>3, <1>4

LEMMA OpeningTakes ==
    ASSUME Tunnels = 1, LoneInv, NEW g \in End, NEW seg, Takes(g, seg),
           acptQueue' = acptQueue \/ g = "server"
    PROVE  Opening'
  <1> DEFINE c == <<"client", 1>>
  <1>1. /\ TypeInv /\ RoutingInv /\ Opening /\ c \in Sockets /\ g \in {"client", "server"}
        /\ "client" \in End /\ "server" \in End /\ Peer("client") = "server"
        /\ Peer("server") = "client"
    BY LoneTypes DEF End
  <1>2. \A t \in Sockets : t[1] = "client" => sok'[t].stage = sok[t].stage
    BY <1>1, TakesFacts DEF Delivered
  <1>3. sok'[c].stage = sok[c].stage
    BY <1>1, <1>2
  <1>4. CASE g = "client"
    <2>1. wire'["client"] = wire["client"] /\ acptQueue' = acptQueue
      BY <1>1, <1>4, TakesFacts DEF Delivered
    <2> QED
      BY <1>3, <2>1, OpeningQuiet
  <1>5. CASE g = "server"
    <2>1. /\ wire["client"] # <<>>
          /\ \A k \in 1..Len(wire'["client"]) :
               k + 1 \in 1..Len(wire["client"]) /\ wire'["client"][k] = wire["client"][k + 1]
      <3>1. wire[Peer(g)] # <<>>
        BY DEF Takes
      <3>2. \A k \in 1..Len(wire'[Peer(g)]) :
               k + 1 \in 1..Len(wire[Peer(g)]) /\ wire'[Peer(g)][k] = wire[Peer(g)][k + 1]
        BY <1>1, TakesFacts DEF Delivered
      <3> QED
        BY <1>1, <1>5, <3>1, <3>2
    <2>2. sok'[c].stage # "reserved"
      BY <1>1, <1>3, <2>1 DEF Opening
    <2>3. ASSUME NEW k \in 1..Len(wire'["client"]) PROVE wire'["client"][k].flag # "OPEN"
      BY <1>1, <2>1, <2>3 DEF Opening
    <2> QED
      BY <2>2, <2>3 DEF Opening
  <1> QED
    BY <1>1, <1>4, <1>5

LEMMA OpeningReserves ==
    ASSUME Tunnels = 1, LoneInv, NEW i \in Ids, Reserves(i), acptQueue' = acptQueue
    PROVE  Opening'
  <1>1. TypeInv /\ wire["client"] \in Seq(SegmentRec) /\ "client" \in End
    BY LoneTypes
  <1>2. Len(idOf) = 0
    <2>1. Len(idOf) + 1 \in 1..1 /\ Len(idOf) \in Nat
      BY <1>1, NumFacts DEF Reserves, Nums
    <2> QED
      BY <2>1
  <1>3. wire["client"] = <<>>
    <2>1. ASSUME NEW k \in 1..Len(wire["client"]) PROVE FALSE
      <3>1. wire["client"][k].num <= Len(idOf) /\ wire["client"][k].num = 1
        BY <1>1, LoneFacts DEF TypeInv, Known, KnownSegments
      <3> QED
        BY <1>2, <3>1
    <2>2. wire["client"] # <<>> => 1 \in 1..Len(wire["client"])
      BY <1>1
    <2> QED
      BY <2>1, <2>2
  <1>4. acptQueue = <<>>
    <2>1. acptQueue \in Seq(1..Len(idOf))
      BY <1>1 DEF TypeInv, Types
    <2>2. acptQueue # <<>> => Head(acptQueue) \in 1..Len(idOf)
      BY <2>1
    <2> QED
      BY <1>2, <2>2
  <1>5. wire'["client"] = <<>> /\ acptQueue' = <<>>
    BY <1>3, <1>4 DEF Reserves
  <1> QED
    BY <1>5 DEF Opening

LEMMA OpeningStep ==
    ASSUME Tunnels = 1, LoneInv, [Next]_vars
    PROVE  Opening'
  <1> DEFINE c == <<"client", 1>>
  <1>1. TypeInv /\ c \in Sockets /\ c[1] = "client"
    BY LoneTypes
  <1>2. CASE Accept
    <2>1. Quiet /\ acptQueue # <<>>
      BY <1>1, <1>2, AcceptStep DEF Accept
    <2> QED
      BY <1>1, <2>1, OpeningQuiet DEF Quiet, Still
  <1>3. CASE RecvOpen
    BY <1>1, <1>3, RecvOpenStep, OpeningTakes, Ends
  <1>4. CASE acptQueue' = acptQueue
    <2>1. CASE Quiet
      BY <1>1, <1>4, <2>1, OpeningQuiet DEF Quiet, Still
    <2>2. ASSUME NEW s \in Sockets, Reads(s) PROVE Opening'
      <3>1. wire' = wire /\ sok'[c].stage = sok[c].stage
        BY <1>1, <2>2 DEF Reads, Still
      <3> QED
        BY <1>4, <3>1, OpeningQuiet
    <2>3. ASSUME NEW s \in Sockets, NEW seg, Sends(s, seg) PROVE Opening'
      BY <1>4, <2>3, OpeningSends
    <2>4. ASSUME NEW g \in End, NEW seg, Takes(g, seg) PROVE Opening'
      BY <1>4, <2>4, OpeningTakes
    <2>5. ASSUME NEW i \in Ids, Reserves(i) PROVE Opening'
      BY <1>4, <2>5, OpeningReserves
    <2> QED
      BY <1>1, <2>1, <2>2, <2>3, <2>4, <2>5, Steps
  <1> QED
    BY <1>2, <1>3, <1>4, QueueSteps

LEMMA ClosOnceReads ==
    ASSUME Tunnels = 1, LoneInv, TypeInv', NEW s \in Sockets, Reads(s), NEW e \in End
    PROVE  Ended(Reader(e))' => ~Closes(wire'[e])
  <1>1. /\ TypeInv /\ StreamInv /\ crossed = {} /\ ClosOnce
        /\ Peer(e) \in End /\ Peer(Peer(e)) = e
        /\ <<e, 1>> \in Sockets /\ <<Peer(e), 1>> \in Sockets
        /\ s = <<e, 1>> \/ s = <<Peer(e), 1>>
    BY LoneTypes, LoneFacts
  <1>2. wire' = wire /\ \A t \in Sockets \ {s} : Still(t)
    BY DEF Reads
  <1>4. CASE s = <<Peer(e), 1>>
    <2> DEFINE r == sok[s]
               q == sok'[s]
    <2>1. 1 \in 1..Len(idOf)
      <3>1. ~(s[2] > Len(idOf))
        <4>1. s[2] > Len(idOf) => sok[s] = NewSocket
          BY <1>1 DEF TypeInv, Known, KnownSockets
        <4>2. sok[s] # NewSocket
          BY DEF Reads, NewSocket
        <4> QED
          BY <4>1, <4>2
      <3>2. Len(idOf) \in Nat /\ s[2] = 1
        BY <1>1, <1>4, NumFacts
      <3> QED
        BY <3>1, <3>2
    <2>2. Stream(Peer(e), 1)
      BY <1>1, <2>1, StreamTypes
    <2>3. Received(r, sok[<<e, 1>>], 1)
      BY <1>1, <1>4, <2>2 DEF Stream
    <2>4. r \in SocketRec /\ q \in SocketRec /\ sok[<<e, 1>>] \in SocketRec
      BY <1>1 DEF TypeInv, Types
    <2>5. ReadOff(r, q)
      BY DEF Reads, ReadOff
    <2>6. Ended(q) <=> Ended(r)
      <3> HIDE DEF r, q
      <3> QED
        BY <2>3, <2>4, <2>5, ReadKeeps
    <2>7. Reader(e) = r /\ Reader(e)' = q
      BY <1>4 DEF Reader
    <2>8. Ended(Reader(e))' <=> Ended(q)
      BY <2>7 DEF Ended
    <2> HIDE DEF r, q
    <2> QED
      BY <1>1, <1>2, <2>6, <2>7, <2>8 DEF ClosOnce
  <1>5. CASE s = <<e, 1>>
    <2>1. Still(<<Peer(e), 1>>)
      <3>1. <<Peer(e), 1>> # s
        BY <1>5, LoneTypes, LoneFacts
      <3> QED
        BY <1>1, <1>2, <3>1
    <2>2. Reader(e)'.got = Reader(e).got /\ Reader(e)'.incoming = Reader(e).incoming
      BY <2>1 DEF Still, Reader
    <2>3. Ended(Reader(e))' <=> Ended(Reader(e))
      BY <2>2 DEF Ended
    <2> QED
      BY <1>1, <1>2, <2>3 DEF ClosOnce
  <1> QED
    BY <1>1, <1>4, <1>5

\* Whatever a step does to the wire: a reader at which nothing has come
LEMMA ClosOnceStill ==
    ASSUME ClosOnce, NEW e \in End,
           LET t == <<Peer(e), 1>>
           IN  sok'[t].got = sok[t].got /\ sok'[t].incoming = sok[t].incoming,
           Ended(Reader(e)) /\ Closes(wire'[e]) => Closes(wire[e])
    PROVE  Ended(Reader(e))' => ~Closes(wire'[e])
  <1>1. Reader(e)'.got = Reader(e).got /\ Reader(e)'.incoming = Reader(e).incoming
    BY DEF Reader
  <1>2. Ended(Reader(e))' <=> Ended(Reader(e))
    BY <1>1 DEF Ended
  <1> QED
    BY <1>2 DEF ClosOnce

LEMMA ClosOnceSends ==
    ASSUME Tunnels = 1, LoneInv, NEW s \in Sockets, NEW seg, Sends(s, seg), NEW e \in End
    PROVE  Ended(Reader(e))' => ~Closes(wire'[e])
  <1>1. /\ TypeInv /\ Silence /\ ClosOnce /\ Peer(e) # e
        /\ <<e, 1>> \in Sockets /\ <<Peer(e), 1>> \in Sockets
        /\ s = <<e, 1>> \/ s = <<Peer(e), 1>>
        /\ wire \in [End -> Seq(SegmentRec)] /\ wire[e] \in Seq(SegmentRec)
    BY LoneTypes, LoneFacts
  <1>2. /\ seg \in SegmentRec /\ Pack(s[1], seg) /\ \A t \in Sockets \ {s} : Still(t)
        /\ sok'[s].got = sok[s].got /\ sok'[s].incoming = sok[s].incoming
    BY DEF Sends
  <1>3. LET t == <<Peer(e), 1>>
        IN  sok'[t].got = sok[t].got /\ sok'[t].incoming = sok[t].incoming
    BY <1>1, <1>2 DEF Still
  <1>4. wire'[e] = IF s = <<e, 1>> /\ Carries(e) THEN Append(wire[e], seg) ELSE wire[e]
    BY <1>1, <1>2 DEF Pack
  <1>5. Closes(Append(wire[e], seg)) <=> Closes(wire[e]) \/ seg.flag = "CLOS"
    BY <1>1, <1>2, CarriedAppend
  <1>6. s = <<e, 1>> => ~Writer(e).closed
    BY <1>1, SenderOpen DEF Writer
  <1>7. Ended(Reader(e)) => Writer(e).closed
    BY EndFacts
  <1>8. Ended(Reader(e)) /\ Closes(wire'[e]) => Closes(wire[e])
    BY <1>4, <1>6, <1>7
  <1> QED
    BY <1>1, <1>3, <1>8, ClosOnceStill

LEMMA ClosOnceTakes ==
    ASSUME Tunnels = 1, LoneInv, NEW g \in End, NEW seg, Takes(g, seg), NEW e \in End
    PROVE  Ended(Reader(e))' => ~Closes(wire'[e])
  <1>1. /\ TypeInv /\ RoutingInv /\ ClosOnce /\ (e = g \/ e = Peer(g))
        /\ Peer(g) \in End /\ Peer(g) # g /\ Peer(Peer(g)) = g
        /\ <<g, 1>> \in Sockets /\ <<Peer(g), 1>> \in Sockets
        /\ sok \in [Sockets -> SocketRec]
    <2>1. e = g \/ e = Peer(g)
      BY DEF End, Peer
    <2>2. TypeInv /\ RoutingInv /\ ClosOnce
      BY LoneTypes
    <2> QED
      BY <2>1, <2>2, LoneFacts
  <1>2. /\ wire[Peer(g)] # <<>> /\ seg = wire[Peer(g)][1] /\ Unpacked(g)
    BY DEF Takes
  <1>3. /\ wire'[g] = wire[g]
        /\ Closes(wire[Peer(g)]) <=> Closes(wire'[Peer(g)]) \/ seg.flag = "CLOS"
        /\ wire'[Peer(g)] \in Seq(SegmentRec)
    BY <1>1, <1>2, UnpackFlow
  <1>4. CASE e = g
    <2> DEFINE dest == <<g, table[g][seg.id]>>
    <2>1. <<Peer(g), 1>> \in Sockets \ {dest}
      BY <1>1
    <2>2. Still(<<Peer(g), 1>>)
      BY <2>1 DEF Takes
    <2> QED
      BY <1>1, <1>3, <1>4, <2>2, ClosOnceStill DEF Still
  <1>5. CASE e = Peer(g)
    <2> DEFINE t == <<g, 1>>
    <2>1. CASE \A u \in Sockets : Still(u)
      <3>1. Still(<<Peer(e), 1>>)
        BY <1>1, <1>5, <2>1
      <3> QED
        BY <1>1, <1>3, <1>5, <3>1, ClosOnceStill DEF Still
    <2>2. CASE /\ seg.flag \in {"DATA", "CLOS"} /\ <<g, table[g][seg.id]>> \in Sockets
               /\ sok'[<<g, table[g][seg.id]>>]
                    = [sok[<<g, table[g][seg.id]>>] EXCEPT !.incoming = Append(@, seg)]
      <3>1. <<g, table[g][seg.id]>> = t
        BY <2>2, LoneTypes
      <3>2. sok'[t] = [sok[t] EXCEPT !.incoming = Append(@, seg)] /\ sok[t] \in SocketRec
        BY <1>1, <2>2, <3>1
      <3>3. Reader(e) = sok[t] /\ Reader(e)' = sok'[t]
        BY <1>1, <1>5 DEF Reader
      <3>4. seg.flag = "CLOS" => ~Closes(wire'[e])
        <4>1. seg.flag = "CLOS" => \A k \in 1..Len(wire'[Peer(g)]) : wire'[Peer(g)][k].num # seg.num
          <5>1. Delivered(g, Peer(g), seg)
            BY <1>1, TakesFacts
          <5> HIDE DEF t
          <5> QED
            BY <5>1 DEF Delivered
        <4>2. \A k \in 1..Len(wire'[Peer(g)]) : wire'[Peer(g)][k].num = 1
          <5>1. ASSUME NEW k \in 1..Len(wire'[Peer(g)]) PROVE wire'[Peer(g)][k].num = 1
            <6>1. wire'[Peer(g)][k] \in SegmentRec
              BY <1>3
            <6> QED
              BY <6>1 DEF SegmentRec, Nums
          <5> QED
            BY <5>1
        <4>3. seg.num = 1
          <5>1. seg \in SegmentRec
            BY <1>1, TakesFacts DEF Delivered
          <5> QED
            BY <5>1 DEF SegmentRec, Nums
        <4>4. DOMAIN wire'[Peer(g)] = 1..Len(wire'[Peer(g)])
          BY <1>3
        <4> QED
          BY <1>5, <4>1, <4>2, <4>3, <4>4 DEF Closes
      <3>5. seg.flag = "DATA" /\ Ended(Reader(e))' => Ended(Reader(e))
        <4> DEFINE q == sok[t].incoming
        <4>1. sok'[t].got = sok[t].got /\ sok'[t].incoming = Append(q, seg) /\ Len(q) \in Nat
          BY <3>2, SocketLengths DEF SocketRec
        <4>2. Append(q, seg)[Len(Append(q, seg))] = seg
          <5>1. q \in Seq(SegmentRec)
            BY <3>2 DEF SocketRec
          <5>2. seg \in SegmentRec
            BY <1>1, TakesFacts DEF Delivered
          <5> QED
            BY <5>1, <5>2, AppendProperties
        <4> HIDE DEF q, t
        <4> QED
          BY <3>3, <4>1, <4>2 DEF Ended
      <3>6. ~Closes(wire[e]) => ~Closes(wire'[e])
        BY <1>3, <1>5
      <3> QED
        BY <1>1, <2>2, <3>4, <3>5, <3>6 DEF ClosOnce
    <2>3. \/ \A u \in Sockets : Still(u)
          \/ /\ seg.flag \in {"DATA", "CLOS"} /\ <<g, table[g][seg.id]>> \in Sockets
             /\ sok'[<<g, table[g][seg.id]>>]
                  = [sok[<<g, table[g][seg.id]>>] EXCEPT !.incoming = Append(@, seg)]
      BY DEF Takes
    <2> QED
      BY <2>1, <2>2, <2>3
  <1> QED
    BY <1>1, <1>4, <1>5

LEMMA ClosOnceStep ==
    ASSUME Tunnels = 1, LoneInv, [Next]_vars
    PROVE  ClosOnce'
  <1>1. TypeInv /\ TypeInv' /\ ClosOnce
    BY LoneTypes, Steps
  <1> SUFFICES ASSUME NEW e \in End
               PROVE  Ended(Reader(e))' => ~Closes(wire'[e])
    BY DEF ClosOnce
  <1>2. <<Peer(e), 1>> \in Sockets
    BY <1>1, LoneFacts
  <1>3. CASE Quiet
    BY <1>1, <1>2, <1>3, ClosOnceStill DEF Quiet, Still
  <1>4. ASSUME NEW s \in Sockets, Reads(s)
        PROVE  Ended(Reader(e))' => ~Closes(wire'[e])
    BY <1>1, <1>4, ClosOnceReads
  <1>5. ASSUME NEW s \in Sockets, NEW seg, Sends(s, seg)
        PROVE  Ended(Reader(e))' => ~Closes(wire'[e])
    BY <1>5, ClosOnceSends
  <1>6. ASSUME NEW g \in End, NEW seg, Takes(g, seg)
        PROVE  Ended(Reader(e))' => ~Closes(wire'[e])
    BY <1>6, ClosOnceTakes
  <1>7. ASSUME NEW i \in Ids, Reserves(i)
        PROVE  Ended(Reader(e))' => ~Closes(wire'[e])
    <2> DEFINE c == <<"client", Len(idOf) + 1>>
               t == <<Peer(e), 1>>
    <2>1. /\ sok[c] = NewSocket /\ sok'[c] = [NewSocket EXCEPT !.stage = "reserved"]
          /\ \A u \in Sockets \ {c} : sok'[u] = sok[u]
      BY <1>7 DEF Reserves
    <2> HIDE DEF c
    <2>2. sok'[c].got = sok[c].got /\ sok'[c].incoming = sok[c].incoming
      BY <2>1 DEF NewSocket
    <2>3. sok'[t].got = sok[t].got /\ sok'[t].incoming = sok[t].incoming
      BY <1>2, <2>1, <2>2
    <2>4. wire' = wire
      BY <1>7 DEF Reserves
    <2> QED
      BY <1>1, <2>3, <2>4, ClosOnceStill
  <1> QED
    BY <1>1, <1>3, <1>4, <1>5, <1>6, <1>7, Steps

-----------------------------------------------------------------------------
(* The theorems.                                                            *)

LEMMA InitLoneInv ==
    ASSUME Tunnels = 1, Init
    PROVE  LoneInv
  <1>1. CreditInv /\ TypeInv
    BY InitCreditInv, InitTypeInv
  <1>2. crossed = {} /\ FailedStops
    BY DEF Init, FailedStops, NewCtx
  <1>3. Opening
    <2>1. wire["client"] = <<>> /\ acptQueue = <<>> /\ Len(wire["client"]) = 0
      BY Ends DEF Init
    <2> QED
      BY <2>1 DEF Opening
  <1>4. ClosOnce
    <2>1. ASSUME NEW e \in End PROVE ~Ended(Reader(e))
      <3>1. Reader(e) = NewSocket
        BY <1>1, LoneFacts DEF Init
      <3> QED
        BY <3>1 DEF Ended, NewSocket
    <2> QED
      BY <2>1 DEF ClosOnce
  <1> QED
    BY <1>1, <1>2, <1>3, <1>4 DEF LoneInv, Lone

LEMMA LoneStep ==
    ASSUME Tunnels = 1, LoneInv, [Next]_vars
    PROVE  LoneInv'
  <1>1. CreditInv' /\ crossed' = {} /\ Opening' /\ FailedStops' /\ ClosOnce'
    BY LoneTypes, CreditStep, NeverCrossed, OpeningStep, FailedStopsStep, ClosOnceStep
  <1> QED
    BY <1>1 DEF LoneInv, Lone

\* For every window, credit and amount of data, and whatever is closed, cut or
\* killed: what the client of a lone tunnel writes moves as FlowControl says.
\* All that Context, Tunnel, Accept and mainThread do to it is a step of one
\* writer, one reader and their window, or no step at all.
THEOREM NiaucchiUploadImplementsFlow ==
    ASSUME Tunnels = 1
    PROVE  Spec => UploadImplementsFlow
  <1>1. Init => LoneInv /\ Flow("client")!Init
    BY InitLoneInv, InitFlow, Ends
  <1>2. LoneInv /\ [Next]_vars => LoneInv' /\ [Flow("client")!Next]_(Flow("client")!vars)
    BY LoneStep, NextFlows, Ends DEF Flows
  <1> QED
    BY <1>1, <1>2, PTL DEF Spec, UploadImplementsFlow

\* The same of what the server writes back, over the same wire and with the
\* same Contexts.
THEOREM NiaucchiDownloadImplementsFlow ==
    ASSUME Tunnels = 1
    PROVE  Spec => DownloadImplementsFlow
  <1>1. Init => LoneInv /\ Flow("server")!Init
    BY InitLoneInv, InitFlow, Ends
  <1>2. LoneInv /\ [Next]_vars => LoneInv' /\ [Flow("server")!Next]_(Flow("server")!vars)
    BY LoneStep, NextFlows, Ends DEF Flows
  <1> QED
    BY <1>1, <1>2, PTL DEF Spec, DownloadImplementsFlow

=============================================================================
