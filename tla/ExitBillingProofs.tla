------------------------- MODULE ExitBillingProofs -------------------------
(* What the accounting of an exit keeps for any number of sessions and any   *)
(* balance: no settlement overwrites another's charge, nobody is charged     *)
(* more than what was counted, and nobody is cut off for nothing.            *)
EXTENDS ExitBilling, FiniteSetTheorems, TLAPS

Session ==
    [up : BOOLEAN,
     pc : {"off", "start", "idle", "dec", "extra", "update", "gone"},
     bal : Int, lbal : Nat, olbal : Nat, nbal : Nat,
     failed : BOOLEAN]

Types ==
    /\ kind \in {"free", "unlimited", "legacy"}
    /\ free \in Nat /\ committed \in Nat
    /\ ses \in [Sessions -> Session]
    /\ tx \in [Sessions -> [open : BOOLEAN, read : Nat, stale : BOOLEAN]]

\* Only a call has a transaction, and only if the plan is limited.
OpenInCall == \A s \in Sessions : tx[s].open => Calling(s) /\ kind # "unlimited"

\* What a transaction has read is what the row holds, unless it will be refused.
ReadIsCurrent == \A s \in Sessions : tx[s].open /\ ~tx[s].stale => tx[s].read = free

BillInv == Types /\ OpenInCall /\ ReadIsCurrent /\ NoLostCharge

-----------------------------------------------------------------------------
\* Nothing is counted that was not served, and settlements copy what is counted.
Counted ==
    /\ served \in 0..MaxBytes /\ faults \in 0..DbFaults /\ due \in Nat
    /\ free <= InitFree
    /\ \A s \in Sessions : ses[s].lbal <= served /\ ses[s].olbal <= served

\* Megabytes that the settlement under way of a session may still take
Outstanding(s) ==
    IF ses[s].pc = "dec" THEN RoundedUp(ses[s].olbal) ELSE IF ses[s].pc = "extra" THEN 1 ELSE 0

\* The megabytes outstanding, one by one: their number is the sum over all
\* sessions.
Tokens(f) == {t \in Sessions \X Nat : t[2] \in 1..f[t[1]]}
Owed == Tokens([s \in Sessions |-> Outstanding(s)])

\* What has been taken and what may still be taken was due.
PaidOrOwed == IsFiniteSet(Owed) /\ committed + Cardinality(Owed) <= due

\* Why a session is about to have nothing, or has nothing
Excused(s) == ses[s].failed \/ (free = 0 /\ kind # "unlimited") \/ kind = "legacy"
Excuses ==
    \A s \in Sessions :
      /\ ses[s].pc = "update" /\ ses[s].nbal = 0 => Excused(s)
      /\ ses[s].pc = "idle" /\ ses[s].lbal = 0 /\ ses[s].bal <= 0 => Excused(s)

-----------------------------------------------------------------------------
(* Arithmetic *)

\* A quotient of naturals is a natural.
LEMMA QuotientNat == ASSUME NEW a \in Nat, NEW b \in Nat \ {0} PROVE a \div b \in Nat
  OBVIOUS

\* The quotient is what the division with remainder says.
LEMMA Quotient ==
    ASSUME NEW a \in Nat, NEW b \in Nat \ {0}, NEW q \in Int, NEW r \in 0..(b - 1), a = b * q + r
    PROVE  a \div b = q
  OBVIOUS

\* A product of naturals is an integer.
LEMMA ProductInt == ASSUME NEW a \in Nat, NEW b \in Nat PROVE a * b \in Int
  OBVIOUS

\* A call takes a natural number of megabytes.
LEMMA AmountNat ==
    ASSUME Types, NEW s \in Sessions
    PROVE  Amount(s) \in Nat
  <1>1. ses[s].olbal \in Nat
    BY DEF Types, Session
  <1>2. ses[s].olbal \div MB \in Nat
    BY <1>1, QuotientNat, BillingAssumption
  <1> QED
    BY <1>2 DEF Amount

\* Bytes are not charged below zero: clamping after each charge is the same
\* as clamping once after all of them.
LEMMA ClampOnce ==
    ASSUME NEW c \in Nat, NEW amt \in Nat, NEW f,
           f = IF c > InitFree THEN 0 ELSE InitFree - c
    PROVE  Left(f, amt) = IF c + amt > InitFree THEN 0 ELSE InitFree - (c + amt)
  BY BillingAssumption DEF Left

\* A call that returns changes its own session only, and keeps it typed.
LEMMA ReturnSession ==
    ASSUME Types, NEW s \in Sessions,
           NEW rem \in Nat, NEW err \in BOOLEAN, Return(s, rem, err)
    PROVE  /\ ses' \in [Sessions -> Session]
           /\ \A t \in Sessions \ {s} : ses'[t] = ses[t]
  <1>0. ses \in [Sessions -> Session] /\ ses[s] \in Session
    BY DEF Types
  <1>1. rem * MB \in Int
    BY ProductInt, BillingAssumption
  <1>2. NewBalance(rem, err) \in Nat
    BY DEF NewBalance
  <1>3. CASE ses[s].pc = "start"
    <2>1. PICK b \in Int :
            ses' = [ses EXCEPT ![s] = [@ EXCEPT !.pc = "idle", !.bal = b, !.failed = err]]
      BY <1>1, <1>3 DEF Return
    <2>2. [ses[s] EXCEPT !.pc = "idle", !.bal = b, !.failed = err] \in Session
      BY <1>0 DEF Session
    <2> QED
      BY <1>0, <2>1, <2>2
  <1>4. CASE ses[s].pc # "start"
    <2>1. PICK n \in Nat, p \in {"extra", "update"} :
            ses' = [ses EXCEPT ![s] = [@ EXCEPT !.pc = p, !.nbal = n, !.failed = err]]
      BY <1>2, <1>4 DEF Return
    <2>2. [ses[s] EXCEPT !.pc = p, !.nbal = n, !.failed = err] \in Session
      BY <1>0 DEF Session
    <2> QED
      BY <1>0, <2>1, <2>2
  <1> QED
    BY <1>3, <1>4

\* A transaction ends without a trace, or it has written what is left of what
\* the row holds.
LEMMA TxEnds ==
    ASSUME BillInv, NEW s \in Sessions, TxCommit(s) \/ TxCommitFails(s)
    PROVE  /\ tx[s].open /\ Calling(s) /\ kind # "unlimited"
           /\ kind' = kind /\ due' = due /\ served' = served
           /\ faults' = faults \/ (faults > 0 /\ faults' = faults - 1)
           /\ Left(tx[s].read, Amount(s)) \in Nat
           /\ \E err \in BOOLEAN :
                /\ Return(s, Left(tx[s].read, Amount(s)), err)
                /\ \/ Dropped(s) /\ err = (kind # "legacy")
                   \/ Written(s, Left(tx[s].read, Amount(s))) /\ tx[s].read = free
  <1>1. Types /\ tx[s].open /\ Calling(s) /\ kind # "unlimited"
    BY DEF BillInv, OpenInCall, TxCommit, TxCommitFails
  <1>2. Left(tx[s].read, Amount(s)) \in Nat
    BY <1>1, AmountNat DEF Types, Left
  <1>3. Written(s, Left(tx[s].read, Amount(s))) => tx[s].read = free
    BY <1>1 DEF Written, Conflict, BillInv, ReadIsCurrent
  <1>4. CASE TxCommit(s)
    BY <1>1, <1>2, <1>3, <1>4 DEF TxCommit
  <1>5. CASE TxCommitFails(s)
    BY <1>1, <1>2, <1>3, <1>5 DEF TxCommitFails
  <1> QED
    BY <1>4, <1>5

-----------------------------------------------------------------------------
LEMMA InitBill == Init => BillInv
  <1> SUFFICES ASSUME Init PROVE BillInv
    OBVIOUS
  <1>1. Types
    BY BillingAssumption DEF Init, Types, Session, NewSession, NoTx
  <1> QED
    BY <1>1, BillingAssumption
    DEF Init, BillInv, OpenInCall, ReadIsCurrent, NoLostCharge, NoTx

LEMMA NextBill == BillInv /\ [Next]_vars => BillInv'
  <1> SUFFICES ASSUME BillInv, [Next]_vars PROVE BillInv'
    OBVIOUS
  <1> USE BillingAssumption
  <1>1. Types /\ OpenInCall /\ ReadIsCurrent /\ NoLostCharge
    BY DEF BillInv
  <1>2. ASSUME NEW s \in Sessions, TxRead(s) PROVE BillInv'
    <2>1. Calling(s) /\ ~tx[s].open /\ UNCHANGED <<kind, free, faults, committed, due, served>>
      BY <1>2 DEF TxRead
    <2>2. CASE kind = "unlimited"
      <3>1. Return(s, Plenty, FALSE) /\ tx' = tx
        BY <1>2, <2>2 DEF TxRead, UnlimitedRem
      <3>2. /\ ses' \in [Sessions -> Session]
            /\ \A t \in Sessions \ {s} : ses'[t] = ses[t]
        BY <1>1, <3>1, ReturnSession
      <3>3. Types'
        BY <1>1, <2>1, <3>1, <3>2 DEF Types
      <3> QED
        BY <1>1, <2>1, <2>2, <3>1, <3>3
        DEF BillInv, OpenInCall, ReadIsCurrent, NoLostCharge
    <2>3. CASE kind # "unlimited"
      <3>1. tx' = [tx EXCEPT ![s] = [open |-> TRUE, read |-> free, stale |-> FALSE]]
            /\ ses' = ses
        BY <1>2, <2>3 DEF TxRead, NoTx
      <3>2. Types'
        BY <1>1, <2>1, <3>1 DEF Types
      <3> QED
        BY <1>1, <2>1, <2>3, <3>1, <3>2
        DEF BillInv, Types, OpenInCall, ReadIsCurrent, NoLostCharge, Calling
    <2> QED
      BY <2>2, <2>3
  <1>3. ASSUME NEW s \in Sessions, TxCommit(s) \/ TxCommitFails(s) PROVE BillInv'
    <2> DEFINE amt == Amount(s)
               rem == Left(tx[s].read, amt)
    <2>1. tx[s].open /\ kind # "unlimited" /\ kind' = kind
      BY <1>3, TxEnds
    <2>2. amt \in Nat
      BY <1>1, AmountNat
    <2>3. rem \in Nat
      BY <1>3, TxEnds
    <2>0. PICK err \in BOOLEAN :
            Return(s, rem, err) /\ (Dropped(s) \/ (Written(s, rem) /\ tx[s].read = free))
      BY <1>3, TxEnds
    <2>4. CASE Dropped(s)
      <3>1. /\ Return(s, rem, err)
            /\ tx' = [tx EXCEPT ![s] = NoTx]
            /\ free' = free /\ committed' = committed
        BY <2>0, <2>4 DEF Dropped
      <3>2. /\ ses' \in [Sessions -> Session]
            /\ \A t \in Sessions \ {s} : ses'[t] = ses[t]
        BY <1>1, <2>3, <3>1, ReturnSession
      <3>3. Types'
        BY <1>1, <2>1, <3>1, <3>2 DEF Types, NoTx
      <3> QED
        BY <1>1, <2>1, <3>1, <3>2, <3>3
        DEF BillInv, Types, OpenInCall, ReadIsCurrent, NoLostCharge, Calling, NoTx
    <2>5. CASE Written(s, rem) /\ tx[s].read = free
      <3>1. /\ Return(s, rem, err)
            /\ free' = rem
            /\ tx' = [t \in Sessions |-> IF t = s THEN NoTx
                                         ELSE [tx[t] EXCEPT !.stale = tx[t].open]]
            /\ committed' = committed + amt
        BY <2>0, <2>5 DEF Written
      <3>2. /\ ses' \in [Sessions -> Session]
            /\ \A t \in Sessions \ {s} : ses'[t] = ses[t]
        BY <1>1, <2>3, <3>1, ReturnSession
      <3>3. Types'
        BY <1>1, <2>1, <2>2, <2>3, <3>1, <3>2 DEF Types, NoTx
      <3>4. /\ ~tx'[s].open
            /\ \A t \in Sessions \ {s} : /\ tx'[t].open = tx[t].open
                                         /\ tx'[t].stale = tx[t].open
        BY <1>1, <3>1 DEF Types, NoTx
      <3>6. OpenInCall' /\ ReadIsCurrent'
        BY <1>1, <2>1, <3>2, <3>4 DEF OpenInCall, ReadIsCurrent, Calling
      <3>5. NoLostCharge'
        <4>1. tx[s].read = free /\ committed \in Nat
          BY <1>1, <2>5 DEF Types
        <4>2. free = IF committed > InitFree THEN 0 ELSE InitFree - committed
          BY <1>1, <2>1 DEF NoLostCharge
        <4>3. rem = IF committed + amt > InitFree THEN 0 ELSE InitFree - (committed + amt)
          <5> HIDE DEF amt
          <5>1. Left(free, amt)
                  = IF committed + amt > InitFree THEN 0 ELSE InitFree - (committed + amt)
            BY <2>2, <4>1, <4>2, ClampOnce
          <5> QED
            BY <4>1, <5>1
        <4> QED
          BY <3>1, <4>3 DEF NoLostCharge
      <3> QED
        BY <3>3, <3>5, <3>6 DEF BillInv
    <2> QED
      BY <2>0, <2>4, <2>5
  <1>4. ASSUME NEW s \in Sessions, DbError(s) PROVE BillInv'
    <2>1. /\ Calling(s) /\ ~tx[s].open /\ Return(s, 0, TRUE)
          /\ UNCHANGED <<kind, free, tx, committed>>
      BY <1>4 DEF DbError
    <2>2. /\ ses' \in [Sessions -> Session]
          /\ \A t \in Sessions \ {s} : ses'[t] = ses[t]
      BY <1>1, <2>1, ReturnSession
    <2>3. Types'
      BY <1>1, <2>1, <2>2 DEF Types
    <2>4. OpenInCall'
      BY <1>1, <2>1, <2>2 DEF OpenInCall, Calling
    <2>5. ReadIsCurrent' /\ NoLostCharge'
      BY <1>1, <2>1 DEF ReadIsCurrent, NoLostCharge
    <2> QED
      BY <2>3, <2>4, <2>5 DEF BillInv
  <1>5. ASSUME NEW s \in Sessions,
               Connect(s) \/ Consume(s) \/ Snapshot(s) \/ Update(s) \/ Disconnect(s) \/ Exit(s)
        PROVE  BillInv'
    <2>1. UNCHANGED <<kind, free, tx, committed>>
      BY <1>5 DEF Connect, Consume, Snapshot, Update, Disconnect, Exit
    <2>2. ~Calling(s) \/ ses'[s].pc = ses[s].pc
      <3>1. ses \in [Sessions -> Session] /\ ses[s] \in Session
        BY <1>1 DEF Types
      <3>2. CASE Connect(s) \/ Snapshot(s) \/ Update(s) \/ Exit(s)
        BY <3>2 DEF Calling, Connect, Snapshot, Update, Exit
      <3>3. CASE Consume(s)
        BY <3>1, <3>3 DEF Session, Consume
      <3>4. CASE Disconnect(s)
        BY <3>1, <3>4 DEF Session, Disconnect
      <3> QED
        BY <1>5, <3>2, <3>3, <3>4
    <2>3. \A t \in Sessions \ {s} : ses'[t] = ses[t]
      BY <1>1, <1>5 DEF Types, Connect, Consume, Snapshot, Update, Disconnect, Exit
    <2>4. ses' \in [Sessions -> Session]
      <3>0. ses \in [Sessions -> Session] /\ ses[s] \in Session
        BY <1>1 DEF Types
      <3>1. ses[s].nbal * MB \in Int
        BY <1>1, ProductInt DEF Types, Session
      <3>2. CASE Update(s)
        <4>1. PICK b \in Int :
                ses' = [ses EXCEPT ![s] = [@ EXCEPT !.pc = "idle", !.bal = b,
                                                    !.lbal = 0, !.olbal = 0, !.nbal = 0]]
          BY <3>1, <3>2 DEF Update
        <4>2. [ses[s] EXCEPT !.pc = "idle", !.bal = b, !.lbal = 0, !.olbal = 0, !.nbal = 0]
                \in Session
          BY <3>0 DEF Session
        <4> QED
          BY <3>0, <4>1, <4>2
      <3>3. CASE Connect(s)
        <4>1. [ses[s] EXCEPT !.pc = "start", !.up = TRUE] \in Session
          BY <3>0 DEF Session
        <4> QED
          BY <3>0, <3>3, <4>1 DEF Connect
      <3>4. CASE Consume(s)
        <4>1. ses[s].lbal + 1 \in Nat /\ ses[s].bal - 1 \in Int
          BY <3>0 DEF Session
        <4>2. \A l \in Nat, b \in Int : [ses[s] EXCEPT !.lbal = l, !.bal = b] \in Session
          BY <3>0 DEF Session
        <4>3. [ses[s] EXCEPT !.lbal = ses[s].lbal + 1, !.bal = ses[s].bal - 1] \in Session
          BY <4>1, <4>2
        <4>4. ses' = [ses EXCEPT ![s] =
                        [ses[s] EXCEPT !.lbal = ses[s].lbal + 1, !.bal = ses[s].bal - 1]]
          BY <3>4 DEF Consume
        <4> QED
          BY <3>0, <4>3, <4>4
      <3>5. CASE Snapshot(s)
        <4>1. [ses[s] EXCEPT !.pc = "dec", !.olbal = ses[s].lbal] \in Session
          BY <3>0 DEF Session
        <4> QED
          BY <3>0, <3>5, <4>1 DEF Snapshot
      <3>6. CASE Disconnect(s)
        <4>1. [ses[s] EXCEPT !.up = FALSE] \in Session
          BY <3>0 DEF Session
        <4> QED
          BY <3>0, <3>6, <4>1 DEF Disconnect
      <3>7. CASE Exit(s)
        <4>1. [ses[s] EXCEPT !.pc = "gone"] \in Session
          BY <3>0 DEF Session
        <4> QED
          BY <3>0, <3>7, <4>1 DEF Exit
      <3> QED
        BY <1>5, <3>2, <3>3, <3>4, <3>5, <3>6, <3>7
    <2>5. Types'
      BY <1>1, <2>1, <2>4 DEF Types
    <2>6. OpenInCall'
      BY <1>1, <2>1, <2>2, <2>3 DEF OpenInCall, Calling
    <2> QED
      BY <1>1, <2>1, <2>5, <2>6 DEF BillInv, ReadIsCurrent, NoLostCharge
  <1>6. CASE UNCHANGED vars
    BY <1>1, <1>6
    DEF vars, BillInv, Types, OpenInCall, ReadIsCurrent, NoLostCharge, Calling
  <1> QED
    BY <1>2, <1>3, <1>4, <1>5, <1>6 DEF Next, Settle

-----------------------------------------------------------------------------
\* Whatever the balance, the number of sessions and the faults of the
\* database, the balance it holds is the initial one less what was charged:
\* no settlement of decAccBalance overwrites that of another session.
THEOREM BillNoLostCharge == Spec => []NoLostCharge
  <1>1. BillInv => NoLostCharge
    BY DEF BillInv
  <1> QED
    BY <1>1, InitBill, NextBill, PTL DEF Spec

-----------------------------------------------------------------------------
(* Type correctness *)

LEMMA InitCounted == Init => Counted
  BY BillingAssumption DEF Init, Counted, NewSession

\* Rounding gives a natural.
LEMMA RoundedUpNat == ASSUME NEW b \in Nat PROVE RoundedUp(b) \in Nat
  <1>1. b + MB - 1 \in Nat
    BY BillingAssumption
  <1> QED
    BY <1>1, QuotientNat, BillingAssumption DEF RoundedUp

\* What the return of a call does to its session, field by field
LEMMA ReturnEffect ==
    ASSUME Types, NEW s \in Sessions, NEW rem, NEW err, Return(s, rem, err)
    PROVE  /\ \A t \in Sessions : ses'[t].lbal = ses[t].lbal /\ ses'[t].olbal = ses[t].olbal
           /\ \A t \in Sessions \ {s} : ses'[t] = ses[t]
           /\ ses'[s].failed = err
           /\ ses[s].pc = "start" => ses'[s].pc = "idle" /\ ses'[s].bal = rem * MB
           /\ ses[s].pc # "start" =>
                /\ ses'[s].nbal = NewBalance(rem, err)
                /\ \/ ses'[s].pc = "update"
                   \/ ses[s].pc = "dec" /\ ses'[s].pc = "extra" /\ ses[s].olbal % MB # 0
  <1>1. ses \in [Sessions -> Session] /\ ses[s] \in Session
    BY DEF Types
  <1>2. CASE ses[s].pc = "start"
    <2>1. PICK b : /\ b = rem * MB
                   /\ ses' = [ses EXCEPT ![s] = [@ EXCEPT !.pc = "idle", !.bal = b, !.failed = err]]
      BY <1>2 DEF Return
    <2> QED
      BY <1>1, <1>2, <2>1 DEF Session
  <1>3. CASE ses[s].pc # "start"
    <2>1. PICK n, p : /\ n = NewBalance(rem, err)
                      /\ \/ p = "update"
                         \/ ses[s].pc = "dec" /\ p = "extra" /\ ses[s].olbal % MB # 0
                      /\ ses' = [ses EXCEPT ![s] = [@ EXCEPT !.pc = p, !.nbal = n, !.failed = err]]
      BY <1>3 DEF Return, Dither
    <2> QED
      BY <1>1, <1>3, <2>1 DEF Session
  <1> QED
    BY <1>2, <1>3

LEMMA NextCounted == BillInv /\ BillInv' /\ Counted /\ [Next]_vars => Counted'
  <1> SUFFICES ASSUME BillInv, BillInv', Counted, [Next]_vars PROVE Counted'
    OBVIOUS
  <1>1. Types /\ Types'
    BY DEF BillInv
  <1> USE BillingAssumption
  <1>2. ASSUME NEW s \in Sessions, TxRead(s) PROVE Counted'
    <2>1. \A t \in Sessions : ses'[t].lbal = ses[t].lbal /\ ses'[t].olbal = ses[t].olbal
      BY <1>1, <1>2, ReturnEffect DEF TxRead
    <2> QED
      BY <1>2, <2>1 DEF TxRead, Counted
  <1>3. ASSUME NEW s \in Sessions, TxCommit(s) \/ TxCommitFails(s) PROVE Counted'
    <2> DEFINE rem == Left(tx[s].read, Amount(s))
    <2>1. PICK err \in BOOLEAN :
            Return(s, rem, err) /\ (Dropped(s) \/ (Written(s, rem) /\ tx[s].read = free))
      BY <1>3, TxEnds
    <2>2. \A t \in Sessions : ses'[t].lbal = ses[t].lbal /\ ses'[t].olbal = ses[t].olbal
      BY <1>1, <2>1, ReturnEffect
    <2>3. free' <= InitFree
      <3>1. free' = free \/ free' = Left(free, Amount(s))
        BY <2>1 DEF Dropped, Written
      <3>2. Amount(s) \in Nat /\ free \in Nat
        BY <1>1, AmountNat DEF Types
      <3> QED
        BY <3>1, <3>2 DEF Left, Counted
    <2>4. faults' \in 0..DbFaults /\ due' = due /\ served' = served
      BY <1>3, TxEnds DEF Counted
    <2> QED
      BY <2>2, <2>3, <2>4 DEF Counted
  <1>4. ASSUME NEW s \in Sessions, DbError(s) PROVE Counted'
    <2>1. \A t \in Sessions : ses'[t].lbal = ses[t].lbal /\ ses'[t].olbal = ses[t].olbal
      BY <1>1, <1>4, ReturnEffect DEF DbError
    <2> QED
      BY <1>4, <2>1 DEF DbError, Counted
  <1>5. ASSUME NEW s \in Sessions, Consume(s) PROVE Counted'
    BY <1>1, <1>5 DEF Consume, Counted, Types, Session
  <1>6. ASSUME NEW s \in Sessions, Snapshot(s) PROVE Counted'
    <2>1. RoundedUp(ses[s].lbal) \in Nat
      BY <1>1, RoundedUpNat DEF Types, Session
    <2> QED
      BY <1>1, <1>6, <2>1 DEF Snapshot, Counted, Types, Session
  <1>7. ASSUME NEW s \in Sessions, Update(s) PROVE Counted'
    BY <1>1, <1>7 DEF Update, Counted, Types, Session
  <1>8. ASSUME NEW s \in Sessions, Connect(s) \/ Disconnect(s) \/ Exit(s) PROVE Counted'
    <2>0. ses \in [Sessions -> Session] /\ ses[s] \in Session
      BY <1>1 DEF Types
    <2>1. \A t \in Sessions : ses'[t].lbal = ses[t].lbal /\ ses'[t].olbal = ses[t].olbal
      <3>1. CASE Connect(s)
        BY <2>0, <3>1 DEF Connect, Session
      <3>2. CASE Disconnect(s)
        BY <2>0, <3>2 DEF Disconnect, Session
      <3>3. CASE Exit(s)
        BY <2>0, <3>3 DEF Exit, Session
      <3> QED
        BY <1>8, <3>1, <3>2, <3>3
    <2> QED
      BY <1>8, <2>1 DEF Connect, Disconnect, Exit, Counted
  <1>9. CASE UNCHANGED vars
    BY <1>9 DEF vars, Counted
  <1> QED
    BY <1>2, <1>3, <1>4, <1>5, <1>6, <1>7, <1>8, <1>9 DEF Next, Settle

\* No balance of an exit leaves its range: neither the user's, nor what a
\* session counts, and only a call to the database has a transaction open.
THEOREM BillTypeOK == Spec => []TypeOK
  <1>1. BillInv /\ Counted => TypeOK
    <2> SUFFICES ASSUME BillInv, Counted PROVE TypeOK
      OBVIOUS
    <2>1. \A s \in Sessions : ses[s] \in Session
      BY DEF BillInv, Types
    <2>2. \A s \in Sessions : ses[s].lbal \in 0..MaxBytes /\ ses[s].olbal \in 0..MaxBytes
      BY <2>1, BillingAssumption DEF Counted, Session
    <2>3. free \in 0..InitFree /\ committed \in Nat
      BY BillingAssumption DEF BillInv, Types, Counted
    <2> QED
      BY <2>1, <2>2, <2>3 DEF BillInv, OpenInCall, Counted, TypeOK, Session
  <1> QED
    BY <1>1, InitBill, NextBill, InitCounted, NextCounted, PTL DEF Spec

-----------------------------------------------------------------------------
(* A session is cut for a reason *)

LEMMA InitExcuses == Init => Excuses
  BY DEF Init, Excuses, NewSession

\* A balance of nothing in megabytes is one in bytes, and no other is.
LEMMA ProductPositive == ASSUME NEW a \in Nat, NEW b \in Nat \ {0}, a * b <= 0 PROVE a = 0
  OBVIOUS

\* A call that returns leaves an excuse if it leaves nothing.
LEMMA ReturnExcused ==
    ASSUME Types, Excuses, NEW s \in Sessions, NEW rem \in Nat, NEW err, Calling(s),
           Return(s, rem, err), kind' = kind,
           free = 0 => free' = 0,
           rem = 0 \/ err => err \/ (free' = 0 /\ kind # "unlimited") \/ kind = "legacy"
    PROVE  Excuses'
  <1>0. ses'[s].failed = err
    BY ReturnEffect
  <1>1. ASSUME NEW t \in Sessions \ {s}
        PROVE  /\ ses'[t].pc = "update" /\ ses'[t].nbal = 0 => Excused(t)'
               /\ ses'[t].pc = "idle" /\ ses'[t].lbal = 0 /\ ses'[t].bal <= 0 => Excused(t)'
    <2>1. ses'[t] = ses[t]
      BY <1>1, ReturnEffect
    <2> QED
      BY <2>1 DEF Excuses, Excused
  <1>2. ses'[s].pc = "update" /\ ses'[s].nbal = 0 => Excused(s)'
    <2>1. CASE ses[s].pc = "start"
      BY <2>1, ReturnEffect
    <2>2. CASE ses[s].pc # "start"
      <3>1. ses'[s].nbal = NewBalance(rem, err)
        BY <2>2, ReturnEffect
      <3> QED
        BY <1>0, <3>1 DEF NewBalance, Excused
    <2> QED
      BY <2>1, <2>2
  <1>3. ses'[s].pc = "idle" /\ ses'[s].bal <= 0 => Excused(s)'
    <2>1. CASE ses[s].pc = "start"
      <3>1. ses'[s].bal = rem * MB
        BY <2>1, ReturnEffect
      <3>2. ses'[s].bal <= 0 => rem = 0
        BY <3>1, ProductPositive, BillingAssumption
      <3> QED
        BY <1>0, <3>2 DEF Excused
    <2>2. CASE ses[s].pc # "start"
      BY <2>2, ReturnEffect
    <2> QED
      BY <2>1, <2>2
  <1> QED
    BY <1>1, <1>2, <1>3 DEF Excuses

LEMMA NextExcuses == BillInv /\ BillInv' /\ Excuses /\ [Next]_vars => Excuses'
  <1> SUFFICES ASSUME BillInv, BillInv', Excuses, [Next]_vars PROVE Excuses'
    OBVIOUS
  <1>1. Types /\ Types' /\ OpenInCall /\ ReadIsCurrent
    BY DEF BillInv
  <1>t. ses \in [Sessions -> Session]
    BY <1>1 DEF Types
  <1> USE BillingAssumption
  <1>2. ASSUME NEW s \in Sessions, TxRead(s) PROVE Excuses'
    <2>1. CASE kind = "unlimited"
      <3>1. Return(s, Plenty, FALSE)
        BY <1>2, <2>1 DEF TxRead, UnlimitedRem
      <3> QED
        BY <1>1, <1>2, <3>1, ReturnExcused DEF TxRead
    <2>2. CASE kind # "unlimited"
      BY <1>2, <2>2 DEF TxRead, Excuses, Excused
    <2> QED
      BY <2>1, <2>2
  <1>3. ASSUME NEW s \in Sessions, TxCommit(s) \/ TxCommitFails(s) PROVE Excuses'
    <2> DEFINE rem == Left(tx[s].read, Amount(s))
    <2>1. kind' = kind /\ kind # "unlimited" /\ Calling(s) /\ rem \in Nat
      BY <1>3, TxEnds
    <2>2. PICK err \in BOOLEAN :
            /\ Return(s, rem, err)
            /\ \/ Dropped(s) /\ err = (kind # "legacy")
               \/ Written(s, rem) /\ tx[s].read = free
      BY <1>3, TxEnds
    <2>3. CASE Dropped(s) /\ err = (kind # "legacy")
      <3>1. free' = free
        BY <2>3 DEF Dropped
      <3> QED
        BY <1>1, <2>1, <2>2, <2>3, <3>1, ReturnExcused
    <2>4. CASE Written(s, rem) /\ tx[s].read = free
      <3>1. free' = rem
        BY <2>4 DEF Written
      <3>2. free = 0 => free' = 0
        BY <1>1, <2>4, <3>1, AmountNat DEF Left
      <3> QED
        BY <1>1, <2>1, <2>2, <3>1, <3>2, ReturnExcused
    <2> QED
      BY <2>2, <2>3, <2>4
  <1>4. ASSUME NEW s \in Sessions, DbError(s) PROVE Excuses'
    BY <1>1, <1>4, ReturnExcused DEF DbError
  <1>5. ASSUME NEW s \in Sessions, Update(s) PROVE Excuses'
    <2>1. PICK b : /\ b = ses[s].nbal * MB
                   /\ ses' = [ses EXCEPT ![s] = [@ EXCEPT !.pc = "idle", !.bal = b,
                                                !.lbal = 0, !.olbal = 0, !.nbal = 0]]
      BY <1>5 DEF Update
    <2>2. /\ ses[s].pc = "update" /\ ses'[s].pc = "idle" /\ ses'[s].bal = b
          /\ ses'[s].failed = ses[s].failed
          /\ \A t \in Sessions \ {s} : ses'[t] = ses[t]
      BY <1>t, <1>5, <2>1 DEF Update, Session
    <2>3. b <= 0 => ses[s].nbal = 0
      BY <1>t, <2>1, ProductPositive DEF Session
    <2> QED
      BY <1>5, <2>2, <2>3 DEF Update, Excuses, Excused
  <1>6. ASSUME NEW s \in Sessions, Consume(s) PROVE Excuses'
    <2>1. /\ ses'[s].pc = ses[s].pc /\ ses'[s].nbal = ses[s].nbal
          /\ ses'[s].failed = ses[s].failed /\ ses'[s].lbal # 0
          /\ \A t \in Sessions \ {s} : ses'[t] = ses[t]
      BY <1>t, <1>6 DEF Consume, Session
    <2> QED
      BY <1>6, <2>1 DEF Consume, Excuses, Excused
  <1>7. ASSUME NEW s \in Sessions, Connect(s) \/ Snapshot(s) \/ Disconnect(s) \/ Exit(s)
        PROVE  Excuses'
    <2>1. \A t \in Sessions \ {s} : ses'[t] = ses[t]
      BY <1>t, <1>7 DEF Connect, Snapshot, Disconnect, Exit
    <2>2. \/ ses'[s].pc \in {"start", "dec", "gone"}
          \/ /\ ses'[s].pc = ses[s].pc /\ ses'[s].lbal = ses[s].lbal
             /\ ses'[s].bal = ses[s].bal /\ ses'[s].nbal = ses[s].nbal
             /\ ses'[s].failed = ses[s].failed
      <3>1. CASE Connect(s)
        <4>1. [ses[s] EXCEPT !.pc = "start", !.up = TRUE].pc = "start"
          BY <1>t DEF Session
        <4> QED
          BY <1>t, <3>1, <4>1 DEF Connect
      <3>3. CASE Snapshot(s)
        <4>1. [ses[s] EXCEPT !.pc = "dec", !.olbal = ses[s].lbal].pc = "dec"
          BY <1>t DEF Session
        <4> QED
          BY <1>t, <3>3, <4>1 DEF Snapshot
      <3>2. CASE Disconnect(s) \/ Exit(s)
        BY <1>t, <3>2 DEF Disconnect, Exit, Session
      <3> QED
        BY <1>7, <3>1, <3>2, <3>3
    <2> QED
      BY <1>7, <2>1, <2>2 DEF Connect, Snapshot, Disconnect, Exit, Excuses, Excused
  <1>8. CASE UNCHANGED vars
    BY <1>8 DEF vars, Excuses, Excused
  <1> QED
    BY <1>2, <1>3, <1>4, <1>5, <1>6, <1>7, <1>8 DEF Next, Settle

\* A session that refuses its streams right after a settlement does so because
\* the balance is used up or its last call of the database failed: no order of
\* settlements, conflicts and errors cuts a user of a current plan off for
\* nothing.
THEOREM BillCutForAReason == Spec => []CutForAReason
  <1>1. Excuses => CutForAReason
    BY DEF Excuses, Excused, CutForAReason
  <1> QED
    BY <1>1, InitBill, NextBill, InitExcuses, NextExcuses, PTL DEF Spec

-----------------------------------------------------------------------------
(* Nobody is overcharged *)

\* Rounding up adds one megabyte to a part of one.
LEMMA RoundsUp ==
    ASSUME NEW b \in Nat
    PROVE  RoundedUp(b) = IF b % MB = 0 THEN b \div MB ELSE b \div MB + 1
  <1> USE BillingAssumption
  <1> DEFINE q == b \div MB
             r == b % MB
  <1>1. b = MB * q + r /\ r \in 0..(MB - 1) /\ q \in Nat
    OBVIOUS
  <1> HIDE DEF q, r
  <1>2. CASE r = 0
    <2>1. b + MB - 1 = MB * q + (MB - 1) /\ b + MB - 1 \in Nat /\ MB - 1 \in 0..(MB - 1)
      BY <1>1, <1>2
    <2>2. (b + MB - 1) \div MB = q
      BY <1>1, <2>1, Quotient
    <2> QED
      BY <1>2, <2>2 DEF RoundedUp, q, r
  <1>3. CASE r # 0
    <2>1. /\ b + MB - 1 = MB * (q + 1) + (r - 1) /\ r - 1 \in 0..(MB - 1)
          /\ b + MB - 1 \in Nat /\ q + 1 \in Int
      BY <1>1, <1>3
    <2>2. (b + MB - 1) \div MB = q + 1
      BY <2>1, Quotient
    <2> QED
      BY <1>3, <2>2 DEF RoundedUp, q, r
  <1> QED
    BY <1>2, <1>3

\* The tokens of one session are as many as its number says.
LEMMA OwnTokens ==
    ASSUME NEW s, NEW n \in Nat
    PROVE  IsFiniteSet({s} \X (1..n)) /\ Cardinality({s} \X (1..n)) = n
  <1>1. IsFiniteSet({s}) /\ Cardinality({s}) = 1
    BY FS_Singleton
  <1>2. IsFiniteSet(1..n) /\ Cardinality(1..n) = n
    BY FS_Interval
  <1>3. /\ IsFiniteSet({s} \X (1..n))
        /\ Cardinality({s} \X (1..n)) = Cardinality({s}) * Cardinality(1..n)
    BY <1>1, <1>2, FS_Product
  <1> QED
    BY <1>1, <1>2, <1>3

\* A sum changes by what one of its terms does.
LEMMA TokensMove ==
    ASSUME NEW f \in [Sessions -> Nat], NEW g \in [Sessions -> Nat], NEW s \in Sessions,
           \A t \in Sessions \ {s} : g[t] = f[t],
           IsFiniteSet(Tokens(f))
    PROVE  /\ IsFiniteSet(Tokens(g))
           /\ Cardinality(Tokens(g)) - g[s] = Cardinality(Tokens(f)) - f[s]
  <1> DEFINE own(h) == {s} \X (1..h[s])
             rest == {t \in Tokens(f) : t[1] # s}
  <1>1. Tokens(f) = rest \cup own(f) /\ Tokens(g) = rest \cup own(g)
    BY DEF Tokens
  <1>2. rest \cap own(f) = {} /\ rest \cap own(g) = {}
    OBVIOUS
  <1>3. IsFiniteSet(rest)
    BY FS_Subset
  <1>4. /\ IsFiniteSet(own(f)) /\ Cardinality(own(f)) = f[s]
        /\ IsFiniteSet(own(g)) /\ Cardinality(own(g)) = g[s]
    BY OwnTokens
  <1> HIDE DEF rest, own
  <1>5. Cardinality(rest) \in Nat /\ f[s] \in Nat /\ g[s] \in Nat
    BY <1>3, FS_CardinalityType
  <1>6. Cardinality(Tokens(f)) = Cardinality(rest) + f[s]
    BY <1>1, <1>2, <1>3, <1>4, <1>5, FS_Union, FS_EmptySet
  <1>7. Cardinality(Tokens(g)) = Cardinality(rest) + g[s] /\ IsFiniteSet(Tokens(g))
    BY <1>1, <1>2, <1>3, <1>4, <1>5, FS_Union, FS_EmptySet
  <1> QED
    BY <1>5, <1>6, <1>7

OutstandingOf == [s \in Sessions |-> Outstanding(s)]

LEMMA InitPaid == Init => PaidOrOwed
  <1> SUFFICES ASSUME Init PROVE PaidOrOwed
    OBVIOUS
  <1>1. \A s \in Sessions : Outstanding(s) = 0
    BY DEF Init, NewSession, Outstanding
  <1>2. Owed = {}
    BY <1>1 DEF Owed, Tokens
  <1> QED
    BY <1>2, FS_EmptySet DEF Init, PaidOrOwed

\* What a step of one session has to keep: it takes no more than it gives up of
\* what is outstanding, or than falls due.
LEMMA Pays ==
    ASSUME Types, Types', PaidOrOwed, NEW s \in Sessions, due \in Nat, due' \in Nat,
           \A t \in Sessions \ {s} : ses'[t] = ses[t],
           committed' + Outstanding(s)' + due <= committed + Outstanding(s) + due'
    PROVE  PaidOrOwed'
  <1> DEFINE f == OutstandingOf
             g == OutstandingOf'
  <1>1. f \in [Sessions -> Nat] /\ g \in [Sessions -> Nat]
    BY RoundedUpNat DEF OutstandingOf, Outstanding, Types, Session
  <1>2. \A t \in Sessions \ {s} : g[t] = f[t]
    BY DEF OutstandingOf, Outstanding
  <1>3. Owed = Tokens(f) /\ Owed' = Tokens(g)
    BY DEF Owed, OutstandingOf, Tokens
  <1>4. f[s] = Outstanding(s) /\ g[s] = Outstanding(s)'
    BY DEF OutstandingOf
  <1> HIDE DEF f, g
  <1>5. IsFiniteSet(Owed') /\ Cardinality(Owed') - g[s] = Cardinality(Owed) - f[s]
    BY <1>1, <1>2, <1>3, TokensMove DEF PaidOrOwed
  <1>6. Cardinality(Owed) \in Nat /\ Cardinality(Owed') \in Nat
    BY <1>5, FS_CardinalityType DEF PaidOrOwed
  <1>7. committed \in Nat /\ committed' \in Nat /\ f[s] \in Nat /\ g[s] \in Nat
    BY <1>1 DEF Types
  <1> QED
    BY <1>4, <1>5, <1>6, <1>7 DEF PaidOrOwed

LEMMA NextPaid ==
    BillInv /\ BillInv' /\ Counted /\ Counted' /\ PaidOrOwed /\ [Next]_vars => PaidOrOwed'
  <1> SUFFICES ASSUME BillInv, BillInv', Counted, Counted', PaidOrOwed, [Next]_vars
               PROVE  PaidOrOwed'
    OBVIOUS
  <1>1. Types /\ Types' /\ due \in Nat /\ due' \in Nat /\ committed \in Nat
    BY DEF BillInv, Counted, Types
  <1>t. ses \in [Sessions -> Session]
    BY <1>1 DEF Types
  <1> USE BillingAssumption
  <1>2. ASSUME NEW s \in Sessions PROVE Outstanding(s) \in Nat /\ Outstanding(s)' \in Nat
    BY <1>1, RoundedUpNat DEF Outstanding, Types, Session
  <1>3. ASSUME NEW s \in Sessions, NEW rem, NEW err, Return(s, rem, err), Calling(s)
        PROVE  Outstanding(s)' + Amount(s) <= Outstanding(s)
    <2>1. ses[s].olbal \in Nat
      BY <1>t DEF Session
    <2>2. ses[s].olbal \div MB \in Nat
      BY <2>1, QuotientNat
    <2>3. CASE ses[s].pc = "dec"
      <3>1. Outstanding(s) = RoundedUp(ses[s].olbal) /\ Amount(s) = ses[s].olbal \div MB
        BY <2>3 DEF Outstanding, Amount
      <3>2. \/ Outstanding(s)' = 0
            \/ Outstanding(s)' = 1 /\ ses[s].olbal % MB # 0
        BY <1>1, <1>3, <2>3, ReturnEffect DEF Outstanding
      <3> QED
        BY <2>1, <2>2, <3>1, <3>2, RoundsUp
    <2>4. CASE ses[s].pc = "extra"
      BY <1>1, <1>3, <2>4, ReturnEffect DEF Outstanding, Amount
    <2>5. CASE ses[s].pc = "start"
      BY <1>1, <1>3, <2>5, ReturnEffect DEF Outstanding, Amount
    <2> QED
      BY <1>3, <2>3, <2>4, <2>5 DEF Calling
  <1>4. ASSUME NEW s \in Sessions, TxRead(s) PROVE PaidOrOwed'
    <2>1. Amount(s) \in Nat
      BY <1>1, AmountNat
    <2>2. CASE kind = "unlimited"
      <3>1. Return(s, UnlimitedRem, FALSE) /\ Calling(s)
        BY <1>4, <2>2 DEF TxRead
      <3>2. \A t \in Sessions \ {s} : ses'[t] = ses[t]
        BY <1>1, <3>1, ReturnEffect
      <3>3. Outstanding(s)' + Amount(s) <= Outstanding(s)
        BY <1>3, <3>1
      <3>4. committed' = committed /\ due' = due
        BY <1>4 DEF TxRead
      <3> QED
        BY <1>1, <1>2, <2>1, <3>2, <3>3, <3>4, Pays
    <2>3. CASE kind # "unlimited"
      BY <1>4, <2>3 DEF TxRead, PaidOrOwed, Owed, Outstanding
    <2> QED
      BY <2>2, <2>3
  <1>5. ASSUME NEW s \in Sessions, TxCommit(s) \/ TxCommitFails(s) PROVE PaidOrOwed'
    <2>1. Amount(s) \in Nat
      BY <1>1, AmountNat
    <2>2. PICK rem, err : Return(s, rem, err) /\ (Dropped(s) \/ Written(s, rem))
      BY <1>5, TxEnds
    <2>3. Calling(s) /\ due' = due
      BY <1>5, TxEnds
    <2>4. committed' \in {committed, committed + Amount(s)}
      BY <2>2 DEF Dropped, Written
    <2>5. \A t \in Sessions \ {s} : ses'[t] = ses[t]
      BY <1>1, <2>2, ReturnEffect
    <2>6. Outstanding(s)' + Amount(s) <= Outstanding(s)
      BY <1>3, <2>2, <2>3
    <2> QED
      BY <1>1, <1>2, <2>1, <2>3, <2>4, <2>5, <2>6, Pays
  <1>6. ASSUME NEW s \in Sessions, DbError(s) PROVE PaidOrOwed'
    <2>1. Return(s, 0, TRUE) /\ Calling(s) /\ due' = due /\ committed' = committed
      BY <1>6 DEF DbError
    <2>2. \A t \in Sessions \ {s} : ses'[t] = ses[t]
      BY <1>1, <2>1, ReturnEffect
    <2>3. Outstanding(s)' + Amount(s) <= Outstanding(s) /\ Amount(s) \in Nat
      BY <1>1, <1>3, <2>1, AmountNat
    <2> QED
      BY <1>1, <1>2, <2>1, <2>2, <2>3, Pays
  <1>7. ASSUME NEW s \in Sessions, Snapshot(s) PROVE PaidOrOwed'
    <2>1. /\ Outstanding(s) = 0 /\ Outstanding(s)' = RoundedUp(ses[s].lbal)
          /\ \A t \in Sessions \ {s} : ses'[t] = ses[t]
      BY <1>t, <1>7 DEF Snapshot, Outstanding, Session
    <2>2. committed' = committed /\ due' = due + RoundedUp(ses[s].lbal)
      BY <1>7 DEF Snapshot
    <2> QED
      BY <1>1, <1>2, <2>1, <2>2, Pays
  <1>8. ASSUME NEW s \in Sessions,
               Update(s) \/ Connect(s) \/ Consume(s) \/ Disconnect(s) \/ Exit(s)
        PROVE  PaidOrOwed'
    <2>1. \A t \in Sessions \ {s} : ses'[t] = ses[t]
      BY <1>t, <1>8 DEF Update, Connect, Consume, Disconnect, Exit
    <2>2. Outstanding(s)' = Outstanding(s)
      <3>1. CASE Consume(s)
        BY <1>t, <3>1 DEF Consume, Outstanding, Session
      <3>2. CASE Disconnect(s)
        BY <1>t, <3>2 DEF Disconnect, Outstanding, Session
      <3>3. CASE Update(s)
        BY <1>t, <3>3 DEF Update, Outstanding, Session
      <3>4. CASE Connect(s) \/ Exit(s)
        BY <1>t, <3>4 DEF Connect, Exit, Outstanding, Session
      <3> QED
        BY <1>8, <3>1, <3>2, <3>3, <3>4
    <2>3. committed' = committed /\ due' = due
      BY <1>8 DEF Update, Connect, Consume, Disconnect, Exit
    <2> QED
      BY <1>1, <1>2, <2>1, <2>2, <2>3, Pays
  <1>9. CASE UNCHANGED vars
    BY <1>9 DEF vars, PaidOrOwed, Owed, Outstanding
  <1> QED
    BY <1>4, <1>5, <1>6, <1>7, <1>8, <1>9 DEF Next, Settle

\* Whatever the number of sessions, the order of their settlements and the
\* faults of the database, no user is charged more megabytes than the sessions
\* have counted, rounded up at each settlement.
THEOREM BillNeverOvercharged == Spec => []NeverOvercharged
  <1>1. BillInv /\ Counted /\ PaidOrOwed => NeverOvercharged
    BY FS_CardinalityType DEF BillInv, Types, Counted, PaidOrOwed, NeverOvercharged
  <1> QED
    BY <1>1, InitBill, NextBill, InitCounted, NextCounted, InitPaid, NextPaid, PTL DEF Spec
=============================================================================
