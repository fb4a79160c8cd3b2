------------------------- MODULE FlowControlProofs -------------------------
(* Safety of FlowControl for every window, credit and range of marks that   *)
(* satisfy FlowAssumption, in particular for 256, 64 and 32..95.            *)
(*                                                                          *)
(* CreditNeverLost is not inductive: once a socket dies a token or a credit *)
(* may be dropped, and the equality turns into an inequality that still has *)
(* to bound what can arrive.  FlowInv carries that inequality (Covered) and *)
(* the range of recvcount (CountAboveMark), which is what keeps the uint8   *)
(* from wrapping around after its first decrement.                          *)
EXTENDS FlowControl, TLAPS

\* Every segment, and every credit not yet given back, has its token.
Covered == Accounted + Count * (owed + credit) <= sendwind

\* Past its initial zero the reader's count never falls below the least mark.
CountAboveMark == recvcount = 0 \/ recvcount >= LowMark

FlowInv ==
    /\ TypeOK
    /\ CountAboveMark
    /\ Covered
    /\ CreditNeverLost
    /\ NoIcwdOverflow

-----------------------------------------------------------------------------
\* What the provers need to know of the one product in the model.
LEMMA CreditArithmetic ==
    ASSUME NEW n \in Nat
    PROVE  /\ Count * n \in Nat
           /\ Count * (n + 1) = Count * n + Count
           /\ Count * 0 = 0
  BY FlowAssumption

\* A Read takes one off what remains, and gives Count back when it credits;
\* the uint8 wraps only from its initial zero.
LEMMA ReadCount ==
    ASSUME NEW c \in 0..(Window - 1), c = 0 \/ c >= LowMark,
           NEW mark \in LowMark..HighMark
    PROVE  LET Left(x) == IF x = 0 THEN Window ELSE x
               d == Uint8Dec(c)
           IN  /\ d \in 0..(Window - 1)
               /\ MustCredit(d, mark) =>
                     /\ Uint8Add(d, Count) \in 0..(Window - 1)
                     /\ Uint8Add(d, Count) >= LowMark
                     /\ Left(Uint8Add(d, Count)) = Left(c) - 1 + Count
               /\ ~MustCredit(d, mark) =>
                     /\ d >= LowMark
                     /\ Left(d) = Left(c) - 1
  BY FlowAssumption DEF Uint8Dec, Uint8Add, MustCredit

LEMMA InitFlow == Init => FlowInv
  <1> SUFFICES ASSUME Init PROVE FlowInv
    OBVIOUS
  <1>1. Count * 0 = 0
    BY CreditArithmetic
  <1>2. owed + credit = 0
    BY DEF Init
  <1>3. Accounted = 0
    BY FlowAssumption DEF Init, Accounted, Remaining
  <1>4. TypeOK
    <2>1. 0 \in 0..Window /\ 0 \in 0..(Window - 1) /\ 0 \in Nat
      BY FlowAssumption
    <2> QED
      BY <2>1 DEF Init, TypeOK
  <1> QED
    BY <1>1, <1>2, <1>3, <1>4
    DEF Init, FlowInv, CountAboveMark, Covered, CreditNeverLost, Healthy, NoIcwdOverflow

\* With the invariant, no single term of the sum exceeds the window.
LEMMA TermsBounded ==
    ASSUME FlowInv
    PROVE  /\ Remaining \in 1..Window
           /\ Count * (owed + credit) \in Nat
           /\ holding + inflight + queued <= Window
           /\ holding + inflight + queued + (Window - Remaining)
                + Count * (owed + credit) <= sendwind
  <1>1. owed + credit \in Nat
    BY DEF FlowInv, TypeOK
  <1>2. Count * (owed + credit) \in Nat
    BY <1>1, CreditArithmetic
  <1>3. Remaining \in 1..Window
    BY FlowAssumption DEF FlowInv, TypeOK, Remaining
  <1> QED
    BY <1>2, <1>3, FlowAssumption DEF FlowInv, TypeOK, Covered, Accounted

LEMMA NextFlow == FlowInv /\ [Next]_vars => FlowInv'
  <1> SUFFICES ASSUME FlowInv, [Next]_vars PROVE FlowInv'
    OBVIOUS
  <1> USE FlowAssumption, TermsBounded
  <1> DEFINE Owing == Count * (owed + credit)
  <1>0. Owing \in Nat
    OBVIOUS
  <1>1. CASE TakeToken
    BY <1>1 DEF TakeToken, readerVars, FlowInv, TypeOK, CountAboveMark, Covered,
                CreditNeverLost, Healthy, NoIcwdOverflow, Accounted, Remaining
  <1>2. CASE WriteTimeout
    BY <1>2 DEF WriteTimeout, readerVars, FlowInv, TypeOK, CountAboveMark, Covered,
                CreditNeverLost, Healthy, NoIcwdOverflow, Accounted, Remaining
  <1>3. CASE SendData
    BY <1>3 DEF SendData, MayWrite, readerVars, FlowInv, TypeOK, CountAboveMark, Covered,
                CreditNeverLost, Healthy, NoIcwdOverflow, Accounted, Remaining
  <1>4. CASE Close
    BY <1>4 DEF Close, readerVars, FlowInv, TypeOK, CountAboveMark, Covered,
                CreditNeverLost, Healthy, NoIcwdOverflow, Accounted, Remaining
  <1>5. CASE KillWriter
    BY <1>5 DEF KillWriter, readerVars, FlowInv, TypeOK, CountAboveMark, Covered,
                CreditNeverLost, Healthy, NoIcwdOverflow, Accounted, Remaining
  <1>6. CASE DeliverIcwd
    <2>1. owed + (credit - 1) \in Nat /\ credit' = credit - 1
      BY <1>6 DEF DeliverIcwd, FlowInv, TypeOK
    <2>2. Count * (owed + credit) = Count * (owed + (credit - 1)) + Count
      <3>1. owed + credit = (owed + (credit - 1)) + 1
        BY DEF FlowInv, TypeOK
      <3> QED
        BY <2>1, <3>1, CreditArithmetic
    <2>3. Count * (owed + (credit - 1)) \in Nat
      BY <2>1, CreditArithmetic
    <2>4. sendwind >= Count
      BY <2>2, <2>3 DEF FlowInv, TypeOK
    <2>5. sendwind' = sendwind - Count /\ icwdOverflow' = icwdOverflow
      BY <1>6, <2>4 DEF DeliverIcwd
    <2>6. TypeOK'
      BY <1>6, <2>1, <2>4, <2>5 DEF DeliverIcwd, readerVars, FlowInv, TypeOK
    <2>7. Covered' /\ CreditNeverLost'
      BY <1>6, <2>1, <2>2, <2>3, <2>5 DEF DeliverIcwd, readerVars, FlowInv, TypeOK, Covered,
                CreditNeverLost, Healthy, Accounted, Remaining
    <2> QED
      BY <1>6, <2>5, <2>6, <2>7
      DEF DeliverIcwd, readerVars, FlowInv, CountAboveMark, NoIcwdOverflow
  <1>7. CASE DeliverData
    BY <1>7 DEF DeliverData, readerVars, writerVars, FlowInv, TypeOK, CountAboveMark, Covered,
                CreditNeverLost, Healthy, NoIcwdOverflow, Accounted, Remaining
  <1>8. CASE DeliverClos
    BY <1>8 DEF DeliverClos, readerVars, writerVars, FlowInv, TypeOK, CountAboveMark, Covered,
                CreditNeverLost, Healthy, NoIcwdOverflow, Accounted, Remaining
  <1>9. CASE EnterRead
    BY <1>9 DEF EnterRead, writerVars, FlowInv, TypeOK, CountAboveMark, Covered,
                CreditNeverLost, Healthy, NoIcwdOverflow, Accounted, Remaining
  <1>10. CASE ReadData
    <2> DEFINE d == Uint8Dec(recvcount)
    <2>1. PICK mark \in LowMark..HighMark :
            IF MustCredit(d, mark)
              THEN recvcount' = Uint8Add(d, Count) /\ owed' = owed + 1
              ELSE recvcount' = d /\ UNCHANGED owed
      BY <1>10 DEF ReadData
    <2>2. /\ recvcount \in 0..(Window - 1)
          /\ recvcount = 0 \/ recvcount >= LowMark
      BY DEF FlowInv, TypeOK, CountAboveMark
    <2>3. /\ queued > 0 /\ queued' = queued - 1 /\ reading' \in {FALSE, ~rdead}
          /\ UNCHANGED <<sendwind, holding, inflight, clos, credit, carries, wdead, rdead,
                         overfull, icwdOverflow>>
      BY <1>10 DEF ReadData, writerVars
    <2>4. CASE MustCredit(d, mark)
      <3>1. recvcount' = Uint8Add(d, Count) /\ owed' = owed + 1
        BY <2>1, <2>4
      <3>2. /\ recvcount' \in 0..(Window - 1)
            /\ recvcount' >= LowMark
            /\ Remaining' = Remaining - 1 + Count
        BY <2>2, <2>4, <3>1, ReadCount DEF Remaining
      <3>3. Count * (owed' + credit') = Count * (owed + credit) + Count
        <4>1. owed' + credit' = (owed + credit) + 1 /\ owed + credit \in Nat
          BY <2>3, <3>1 DEF FlowInv, TypeOK
        <4> QED
          BY <4>1, CreditArithmetic
      <3>4. Accounted' = Accounted - Count
        BY <2>3, <3>2 DEF FlowInv, TypeOK, Accounted
      <3>5. TypeOK'
        <4>1. queued - 1 \in 0..Window /\ owed + 1 \in Nat
          BY <2>3 DEF FlowInv, TypeOK
        <4> QED
          BY <2>3, <3>1, <3>2, <4>1 DEF FlowInv, TypeOK
      <3>6. Covered' /\ CreditNeverLost'
        BY <2>3, <3>3, <3>4 DEF FlowInv, TypeOK, Covered, CreditNeverLost, Healthy, Accounted
      <3> QED
        BY <2>3, <3>2, <3>5, <3>6 DEF FlowInv, CountAboveMark, NoIcwdOverflow
    <2>5. CASE ~MustCredit(d, mark)
      <3>1. recvcount' = d /\ owed' = owed
        BY <2>1, <2>5
      <3>2. /\ recvcount' \in 0..(Window - 1)
            /\ recvcount' >= LowMark
            /\ Remaining' = Remaining - 1
        BY <2>2, <2>5, <3>1, ReadCount DEF Remaining
      <3>3. Accounted' = Accounted
        BY <2>3, <3>2 DEF FlowInv, TypeOK, Accounted
      <3>4. TypeOK'
        <4>1. queued - 1 \in 0..Window
          BY <2>3 DEF FlowInv, TypeOK
        <4> QED
          BY <2>3, <3>1, <3>2, <4>1 DEF FlowInv, TypeOK
      <3>5. Covered' /\ CreditNeverLost'
        BY <2>3, <3>1, <3>3 DEF FlowInv, Covered, CreditNeverLost, Healthy
      <3> QED
        BY <2>3, <3>2, <3>4, <3>5 DEF FlowInv, CountAboveMark, NoIcwdOverflow
    <2> QED
      BY <2>4, <2>5
  <1>11. CASE ReadClos
    BY <1>11 DEF ReadClos, writerVars, FlowInv, TypeOK, CountAboveMark, Covered,
                CreditNeverLost, Healthy, NoIcwdOverflow, Accounted, Remaining
  <1>12. CASE ReadDying
    BY <1>12 DEF ReadDying, writerVars, FlowInv, TypeOK, CountAboveMark, Covered,
                CreditNeverLost, Healthy, NoIcwdOverflow, Accounted, Remaining
  <1>13. CASE SendIcwd
    <2>1. /\ owed' = owed - 1 /\ owed - 1 \in Nat
          /\ UNCHANGED <<sendwind, holding, inflight, queued, clos, recvcount, carries, wdead,
                         rdead, reading, overfull, icwdOverflow>>
      BY <1>13 DEF SendIcwd, writerVars, FlowInv, TypeOK
    <2>2. Accounted' = Accounted
      BY <2>1 DEF Accounted, Remaining
    <2>3. CASE MayCredit(rdead) /\ carries
      <3>1. credit' = credit + 1
        BY <1>13, <2>3 DEF SendIcwd
      <3>2. owed' + credit' = owed + credit
        BY <2>1, <3>1 DEF FlowInv, TypeOK
      <3> QED
        BY <2>1, <2>2, <3>1, <3>2
        DEF FlowInv, TypeOK, CountAboveMark, Covered, CreditNeverLost, Healthy, NoIcwdOverflow
    <2>4. CASE ~(MayCredit(rdead) /\ carries)
      <3>1. credit' = credit /\ ~Healthy /\ ~Healthy'
        BY <1>13, <2>4 DEF SendIcwd, MayCredit, Healthy, FlowInv, TypeOK
      <3>2. owed + credit = (owed' + credit') + 1 /\ owed' + credit' \in Nat
        BY <2>1, <3>1 DEF FlowInv, TypeOK
      <3>3. Count * (owed + credit) = Count * (owed' + credit') + Count
        BY <3>2, CreditArithmetic
      <3>4. Covered'
        <4>1. Count * (owed' + credit') \in Nat
          BY <3>2, CreditArithmetic
        <4> QED
          BY <2>1, <2>2, <3>3, <4>1 DEF FlowInv, TypeOK, Covered, Accounted
      <3> QED
        BY <2>1, <3>1, <3>4
        DEF FlowInv, TypeOK, CountAboveMark, CreditNeverLost, Healthy, NoIcwdOverflow
    <2> QED
      BY <2>3, <2>4
  <1>14. CASE KillReader
    BY <1>14 DEF KillReader, writerVars, FlowInv, TypeOK, CountAboveMark, Covered,
                CreditNeverLost, Healthy, NoIcwdOverflow, Accounted, Remaining
  <1>16. CASE ReadTimeout
    BY <1>16 DEF ReadTimeout, writerVars, FlowInv, TypeOK, CountAboveMark, Covered,
                CreditNeverLost, Healthy, NoIcwdOverflow, Accounted, Remaining
  <1>17. CASE WireFails
    BY <1>17 DEF WireFails, writerVars, readerVars, FlowInv, TypeOK, CountAboveMark, Covered,
                CreditNeverLost, Healthy, NoIcwdOverflow, Accounted, Remaining
  <1>15. CASE UNCHANGED vars
    BY <1>15 DEF vars, FlowInv, TypeOK, CountAboveMark, Covered,
                CreditNeverLost, Healthy, NoIcwdOverflow, Accounted, Remaining
  <1> QED
    BY <1>1, <1>2, <1>3, <1>4, <1>5, <1>6, <1>7, <1>8, <1>9, <1>10, <1>11, <1>12,
       <1>13, <1>14, <1>15, <1>16, <1>17 DEF Next, Writer, Reader

-----------------------------------------------------------------------------
\* The inductive invariant holds in every reachable state.
THEOREM FlowSafe == Spec => []FlowInv
  <1>1. Init => FlowInv
    BY InitFlow
  <1>2. FlowInv /\ [Next]_vars => FlowInv'
    BY NextFlow
  <1> QED
    BY <1>1, <1>2, PTL DEF Spec

\* Every counter stays in its range; in particular sendwind never exceeds its
\* channel and recvcount its uint8.
THEOREM FlowTypes == Spec => []TypeOK
  <1>1. FlowInv => TypeOK
    BY DEF FlowInv
  <1> QED
    BY <1>1, FlowSafe, PTL

\* No honest peer makes mainThread report "ICWD OVERFLOW".
THEOREM FlowNoIcwdOverflow == Spec => []NoIcwdOverflow
  <1>1. FlowInv => NoIcwdOverflow
    BY DEF FlowInv
  <1> QED
    BY <1>1, FlowSafe, PTL

\* While both sockets live, no credit is lost or made up.
THEOREM FlowCreditNeverLost == Spec => []CreditNeverLost
  <1>1. FlowInv => CreditNeverLost
    BY DEF FlowInv
  <1> QED
    BY <1>1, FlowSafe, PTL

\* A writer with a full window always has something on its way to open it.
THEOREM FlowNoStall == Spec => []NoStall
  <1>1. FlowInv => NoStall
    <2> SUFFICES ASSUME FlowInv, Healthy, sendwind = Window
                 PROVE  holding + inflight + queued + owed + credit > 0
      BY DEF NoStall
    <2>1. CASE owed + credit = 0
      <3>1. Count * (owed + credit) = 0
        BY <2>1, CreditArithmetic
      <3>2. Window = holding + inflight + queued + (Window - Remaining)
        BY <3>1, FlowAssumption, TermsBounded DEF FlowInv, TypeOK, CreditNeverLost, Healthy, Accounted
      <3> QED
        BY <2>1, <3>2, FlowAssumption, TermsBounded DEF FlowInv, TypeOK
    <2>2. CASE owed + credit # 0
      BY <2>2 DEF FlowInv, TypeOK
    <2> QED
      BY <2>1, <2>2
  <1> QED
    BY <1>1, FlowSafe, PTL

\* Only a CLOS behind a wholly unread window overfills the read buffer.
THEOREM FlowOverfull == Spec => OverfullOnlyOnUnreadClose
  <1> DEFINE OverfullStep ==
               ~overfull /\ overfull' => queued = Window /\ recvcount = 0 /\ clos' = "lost"
  <1>1. FlowInv /\ [Next]_vars => [OverfullStep]_vars
    <2> SUFFICES ASSUME FlowInv, Next, ~overfull, overfull'
                 PROVE  queued = Window /\ recvcount = 0 /\ clos' = "lost"
      BY DEF vars
    <2>1. CASE DeliverData
      <3>1. inflight > 0 /\ ~(queued < Window)
        BY <2>1 DEF DeliverData
      <3> QED
        BY <3>1, FlowAssumption, TermsBounded DEF FlowInv, TypeOK
    <2>2. CASE DeliverClos
      <3>1. ~(queued < Window) /\ clos' = "lost"
        BY <2>2 DEF DeliverClos
      <3>2. queued = Window /\ Remaining = Window
        BY <3>1, FlowAssumption, TermsBounded DEF FlowInv, TypeOK
      <3> QED
        BY <3>1, <3>2, FlowAssumption DEF FlowInv, TypeOK, Remaining
    <2>3. ~(TakeToken \/ WriteTimeout \/ SendData \/ Close \/ KillWriter \/ DeliverIcwd
            \/ EnterRead \/ ReadData \/ ReadClos \/ ReadDying \/ ReadTimeout \/ SendIcwd
            \/ KillReader \/ WireFails)
      BY DEF TakeToken, WriteTimeout, SendData, Close, KillWriter, DeliverIcwd, EnterRead,
             ReadData, ReadClos, ReadDying, ReadTimeout, SendIcwd, KillReader, WireFails
    <2> QED
      BY <2>1, <2>2, <2>3 DEF Next, Writer, Reader
  <1> QED
    BY <1>1, FlowSafe, PTL DEF Spec, OverfullOnlyOnUnreadClose
=============================================================================
