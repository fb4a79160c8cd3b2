---------------------------- MODULE FlowControl ----------------------------
(* One direction of one niaucchi3 stream: a socket that writes, the socket  *)
(* at the other end of the wire that reads, and the window between them.    *)
(*                                                                          *)
(* The writer puts a token into `sendwind` for every DATA segment; the      *)
(* reader counts DATA down in `recvcount` and, at a random low mark, hands  *)
(* a goroutine the job of sending an ICWD that takes Count tokens out       *)
(* again.  Both sockets may die at any time, and each side looks at its own *)
(* death flag only.  The payload is left out: a segment is one unit of a    *)
(* counter.  The wire is first in, first out, and CLOS is the last segment  *)
(* a socket sends, so a counter for DATA and a position for CLOS lose       *)
(* nothing.                                                                 *)
EXTENDS Integers

CONSTANTS
    Window,     \* capacity of sendwind and of incoming, modulus of recvcount: 256
    Count,      \* COUNT, the credits one ICWD carries: 64
    LowMark,    \* least value of rand.Int()%64+32: 32
    HighMark    \* greatest value of rand.Int()%64+32: 95

ASSUME FlowAssumption ==
    /\ Window \in Nat /\ Count \in Nat \ {0}
    /\ LowMark \in Nat \ {0} /\ HighMark \in Nat
    /\ LowMark <= HighMark
    /\ HighMark + Count <= Window

VARIABLES
    sendwind,       \* tokens in the writer's sendwind channel
    holding,        \* writers that have put their token and not yet sent
    inflight,       \* DATA segments on the wire
    queued,         \* DATA segments in the reader's incoming channel
    clos,           \* where the writer's CLOS is
    recvcount,      \* the reader's uint8
    owed,           \* goroutines that have yet to send an ICWD
    credit,         \* ICWD segments on the wire
    carries,        \* the connection under both sockets still carries segments
    wdead, rdead,   \* death of the writing and of the reading socket
    reading,        \* a Read is past its aliveness check, in the select
    overfull,       \* "overfull read buffer in, dying" at the reader
    icwdOverflow    \* "ICWD OVERFLOW" at the writer

vars == <<sendwind, holding, inflight, queued, clos, recvcount, owed, credit,
          carries, wdead, rdead, reading, overfull, icwdOverflow>>

writerVars == <<sendwind, holding, wdead>>
readerVars == <<recvcount, owed, rdead, reading>>

Init ==
    /\ sendwind = 0 /\ holding = 0 /\ inflight = 0 /\ queued = 0
    /\ clos = "none"
    /\ recvcount = 0 /\ owed = 0 /\ credit = 0
    /\ carries = TRUE
    /\ wdead = FALSE /\ rdead = FALSE /\ reading = FALSE
    /\ overfull = FALSE /\ icwdOverflow = FALSE

(* Wrong forms of the operators below carry a name that says what is wrong  *)
(* with them.  No action uses one: they show which property would notice.   *)

(* uint8 arithmetic, for operands below Window *)
Uint8Dec(x) == IF x = 0 THEN Window - 1 ELSE x - 1
Uint8AddForgotten(x, y) == x
Uint8Add(x, y) == IF x + y >= Window THEN x + y - Window ELSE x + y

(* The test that decides whether this Read pays the window back *)
MustCreditAboveMark(count, mark) == count > mark
MustCredit(count, mark) == count < mark

(* The goroutine that sends ICWD checks aliveness under the locks *)
MayCreditInverted(dead) == dead
MayCredit(dead) == ~dead

(* realWrite looks at the tomb once more when it has the locks *)
MayWrite(dead) == ~dead

-----------------------------------------------------------------------------
(* The writing socket *)

TakeTokenUnbounded ==
    /\ sendwind <= Window
    /\ sendwind' = sendwind + 1
    /\ holding' = holding + 1
    /\ UNCHANGED <<inflight, queued, clos, credit, wdead, readerVars,
                   overfull, icwdOverflow, carries>>

\* realWrite, first select: a token fits.  The select does not prefer the
\* Dying branch, so a dead socket may still take a token.
TakeToken ==
    /\ sendwind < Window
    /\ sendwind' = sendwind + 1
    /\ holding' = holding + 1
    /\ UNCHANGED <<inflight, queued, clos, credit, wdead, readerVars,
                   overfull, icwdOverflow, carries>>

\* realWrite, first select: fifteen minutes without a token kill the socket.
WriteTimeout ==
    /\ sendwind = Window /\ ~wdead
    /\ wdead' = TRUE
    /\ UNCHANGED <<sendwind, holding, inflight, queued, clos, credit,
                   readerVars, overfull, icwdOverflow, carries>>

\* realWrite under wlock and wirewlok: the segment goes out, or the socket
\* has died in the meantime and the token is never returned.
SendData ==
    /\ holding > 0
    /\ holding' = holding - 1
    /\ inflight' = IF MayWrite(wdead) /\ carries THEN inflight + 1 ELSE inflight
    /\ UNCHANGED <<sendwind, queued, clos, credit, wdead, readerVars,
                   overfull, icwdOverflow, carries>>

\* Close, once per socket: CLOS is packed and the socket killed under the
\* locks, whether or not it was dead already.
Close ==
    /\ clos = "none"
    /\ clos' = IF carries THEN "wire" ELSE "lost"
    /\ wdead' = TRUE
    /\ UNCHANGED <<sendwind, holding, inflight, queued, credit, readerVars,
                   overfull, icwdOverflow, carries>>

\* The tie-up with the context, or EOF and timeouts of the socket's own Read.
KillWriter ==
    /\ ~wdead
    /\ wdead' = TRUE
    /\ UNCHANGED <<sendwind, holding, inflight, queued, clos, credit,
                   readerVars, overfull, icwdOverflow, carries>>

DeliverIcwdTakingOne ==
    /\ credit > 0 /\ sendwind > 0
    /\ credit' = credit - 1
    /\ sendwind' = sendwind - 1
    /\ UNCHANGED <<holding, inflight, queued, clos, wdead, readerVars,
                   overfull, icwdOverflow, carries>>

\* mainThread of the writer's context: an ICWD takes Count tokens out, one at
\* a time, and an empty channel is a protocol failure.
DeliverIcwd ==
    /\ credit > 0 /\ ~icwdOverflow
    /\ credit' = credit - 1
    /\ IF sendwind >= Count
         THEN sendwind' = sendwind - Count /\ UNCHANGED <<icwdOverflow, carries>>
         ELSE sendwind' = 0 /\ icwdOverflow' = TRUE /\ carries' = FALSE
    /\ UNCHANGED <<holding, inflight, queued, clos, wdead, readerVars, overfull>>

-----------------------------------------------------------------------------
(* The reading socket *)

\* mainThread of the reader's context: incoming takes the segment or the
\* context fails.
DeliverData ==
    /\ inflight > 0 /\ ~overfull
    /\ inflight' = inflight - 1
    /\ IF queued < Window
         THEN queued' = queued + 1 /\ UNCHANGED <<overfull, carries>>
         ELSE overfull' = TRUE /\ carries' = FALSE /\ UNCHANGED queued
    /\ UNCHANGED <<writerVars, clos, credit, readerVars, icwdOverflow>>

DeliverClosToTableOnly ==
    /\ clos = "wire" /\ inflight = 0 /\ ~overfull
    /\ clos' = "lost"
    /\ UNCHANGED <<writerVars, inflight, queued, credit, readerVars,
                   overfull, icwdOverflow, carries>>

\* CLOS goes into the same channel, behind the DATA.
DeliverClos ==
    /\ clos = "wire" /\ inflight = 0 /\ ~overfull
    /\ IF queued < Window
         THEN clos' = "queued" /\ UNCHANGED <<overfull, carries>>
         ELSE clos' = "lost" /\ overfull' = TRUE /\ carries' = FALSE
    /\ UNCHANGED <<writerVars, inflight, queued, credit, readerVars, icwdOverflow>>

\* Read: nothing in inbuf, the socket is alive, on to the select.
EnterRead ==
    /\ ~reading /\ ~rdead
    /\ reading' = TRUE
    /\ UNCHANGED <<writerVars, inflight, queued, clos, recvcount, owed, credit,
                   rdead, overfull, icwdOverflow, carries>>

\* Read takes DATA and, below a mark drawn for this call, owes the writer an
\* ICWD.  The next Read may be past its aliveness check at once.
ReadData ==
    /\ reading /\ queued > 0
    /\ queued' = queued - 1
    /\ reading' \in {FALSE, ~rdead}
    /\ \E mark \in LowMark..HighMark :
         IF MustCredit(Uint8Dec(recvcount), mark)
           THEN /\ recvcount' = Uint8Add(Uint8Dec(recvcount), Count)
                /\ owed' = owed + 1
           ELSE /\ recvcount' = Uint8Dec(recvcount)
                /\ UNCHANGED owed
    /\ UNCHANGED <<writerVars, inflight, clos, credit, rdead, overfull, icwdOverflow, carries>>

\* Read takes CLOS: end of file.
ReadClos ==
    /\ reading /\ queued = 0 /\ clos = "queued"
    /\ clos' = "read"
    /\ reading' = FALSE /\ rdead' = TRUE
    /\ UNCHANGED <<writerVars, inflight, queued, recvcount, owed, credit,
                   overfull, icwdOverflow, carries>>

\* Read sees the socket die.
ReadDying ==
    /\ reading /\ rdead
    /\ reading' = FALSE
    /\ UNCHANGED <<writerVars, inflight, queued, clos, recvcount, owed, credit,
                   rdead, overfull, icwdOverflow, carries>>

\* Read gives up after fifteen minutes with nothing to take.
ReadTimeout ==
    /\ reading /\ queued = 0 /\ clos # "queued" /\ ~rdead
    /\ reading' = FALSE /\ rdead' = TRUE
    /\ UNCHANGED <<writerVars, inflight, queued, clos, recvcount, owed, credit,
                   overfull, icwdOverflow, carries>>

\* The goroutine of Read: ICWD goes out only if the reading socket is alive.
SendIcwd ==
    /\ owed > 0
    /\ owed' = owed - 1
    /\ credit' = IF MayCredit(rdead) /\ carries THEN credit + 1 ELSE credit
    /\ UNCHANGED <<writerVars, inflight, queued, clos, recvcount, rdead, reading,
                   overfull, icwdOverflow, carries>>

\* The tie-up with the context, or a Close or a failed Write of the reading side.
KillReader ==
    /\ ~rdead
    /\ rdead' = TRUE
    /\ UNCHANGED <<writerVars, inflight, queued, clos, recvcount, owed, credit,
                   reading, overfull, icwdOverflow, carries>>

-----------------------------------------------------------------------------
Writer == TakeToken \/ WriteTimeout \/ SendData \/ Close \/ KillWriter \/ DeliverIcwd
Reader == DeliverData \/ DeliverClos \/ EnterRead \/ ReadData \/ ReadClos
          \/ ReadDying \/ ReadTimeout \/ SendIcwd \/ KillReader

\* One end closes the connection, or the network fails: what is written from
\* now on vanishes; what is on the way may still arrive.
WireFails ==
    /\ carries
    /\ carries' = FALSE
    /\ UNCHANGED <<writerVars, readerVars, inflight, queued, clos, credit,
                   overfull, icwdOverflow>>

Next == Writer \/ Reader \/ WireFails

Spec == Init /\ [][Next]_vars

\* The runtime schedules the goroutines that are ready, the wire delivers,
\* and the owner of the reading socket (an io.Copy) keeps reading.  Nobody is
\* obliged to write, to close or to die.
Fairness ==
    /\ WF_vars(SendData)
    /\ WF_vars(SendIcwd)
    /\ WF_vars(DeliverData)
    /\ WF_vars(DeliverClos)
    /\ WF_vars(DeliverIcwd)
    /\ WF_vars(EnterRead)
    /\ WF_vars(ReadData)
    /\ WF_vars(ReadClos)

FairSpec == Spec /\ Fairness

-----------------------------------------------------------------------------
(* Properties *)

\* recvcount starts at zero and stands for a full window then ("HACK this acts
\* like 256 when started...")
Remaining == IF recvcount = 0 THEN Window ELSE recvcount

\* The types of the variables; every counter is bounded by the window.
TypeOK ==
    /\ sendwind \in 0..Window
    /\ holding \in 0..Window
    /\ inflight \in 0..Window
    /\ queued \in 0..Window
    /\ clos \in {"none", "wire", "queued", "read", "lost"}
    /\ recvcount \in 0..(Window - 1)
    /\ owed \in Nat /\ credit \in Nat
    /\ carries \in BOOLEAN
    /\ wdead \in BOOLEAN /\ rdead \in BOOLEAN /\ reading \in BOOLEAN
    /\ overfull \in BOOLEAN /\ icwdOverflow \in BOOLEAN

\* Tokens that some segment, or the reader's count, accounts for
Accounted == holding + inflight + queued + (Window - Remaining)

Healthy == ~wdead /\ ~rdead /\ carries

\* mainThread never meets an ICWD that takes more tokens than the writer has
\* put in: honest peers cannot fail each other's context over credits.
NoIcwdOverflow == ~icwdOverflow

\* The only segment that can find incoming full is a CLOS behind a whole
\* window of DATA of which the application has not read one segment: DATA
\* itself always fits, however the two sides race.
OverfullOnlyOnUnreadClose ==
    [][~overfull /\ overfull' => queued = Window /\ recvcount = 0 /\ clos' = "lost"]_vars

\* While both sockets and the wire live no credit is lost or made up: the tokens taken are
\* the ones in segments, plus those read and not yet given back, plus the
\* ICWDs under way.
CreditNeverLost ==
    Healthy => sendwind = Accounted + Count * (owed + credit)

\* A writer that finds the window closed is never waiting for nothing: a
\* segment or a credit that can still open it is on its way.
NoStall ==
    Healthy /\ sendwind = Window
       => holding + inflight + queued + owed + credit > 0

\* A closed window opens again as long as sockets and wire live and the reader
\* reads (io.Copy in proxyCommon and in the SOCKS handler relies on it).
WindowReopens ==
    sendwind = Window ~> (sendwind < Window \/ ~Healthy)

\* A CLOS gets to the reader's Read unless the reading side dies of itself, the
\* buffer was overfull or the wire fails.
CloseArrives ==
    clos = "wire" /\ carries ~> (clos = "read" \/ rdead \/ overfull \/ ~carries)
=============================================================================
