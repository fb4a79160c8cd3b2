---------------------------- MODULE ExitBilling ----------------------------
(* How an exit charges one user: every tunnel connection of the user is a   *)
(* session with a balance of its own, in bytes, that its streams draw on    *)
(* (`consume`), and a goroutine that every ten seconds settles with the     *)
(* balance in the database, in megabytes (manageCtx, manageLegacyCtx,       *)
(* decAccBalance, decLegacyAccBalance).  The rate limiter only delays and   *)
(* is left out.  Postgres is modelled by what its SERIALIZABLE level        *)
(* promises: of two transactions that read a row and write it, the one that *)
(* comes second fails.                                                      *)
EXTENDS Integers, FiniteSets

CONSTANTS
    Sessions,       \* tunnel connections of the user
    MB,             \* bytes of a megabyte: 1000000
    InitFree,       \* the user's balance, in megabytes
    Plenty,         \* what decAccBalance returns for an unlimited plan: 1000000
    MaxBytes,       \* bound: bytes the streams of all sessions ask for
    DbFaults        \* bound: database errors other than conflicts

ASSUME BillingAssumption ==
    /\ Sessions # {} /\ IsFiniteSet(Sessions)
    /\ MB \in Nat \ {0} /\ InitFree \in Nat /\ Plenty \in Nat \ {0}
    /\ MaxBytes \in Nat /\ DbFaults \in Nat

VARIABLES
    kind,       \* the user's account: free, unlimited, or legacy
    free,       \* users.freebalance, or accbalances.mbs of a legacy user
    ses,        \* the sessions
    tx,         \* tx[s]: the open transaction of s
    faults,     \* database errors left
    committed,  \* megabytes taken by committed transactions
    due,        \* megabytes, rounded up, of every settlement begun
    served      \* bytes consume has counted

vars == <<kind, free, ses, tx, faults, committed, due, served>>

\* read: the balance the transaction has seen; stale: another transaction has
\* written the row since
NoTx == [open |-> FALSE, read |-> 0, stale |-> FALSE]

\* A session that is not connected yet
NewSession ==
    [up |-> FALSE,      \* the Context is alive
     pc |-> "off",      \* off, start, idle, dec, extra, update, gone
     bal |-> 0,         \* bal, in bytes
     lbal |-> 0,        \* lbal, bytes since the last settlement
     olbal |-> 0,       \* the settlement's copy of lbal
     nbal |-> 0,        \* the balance the database returned
     failed |-> FALSE]  \* the last database call returned an error

Init ==
    /\ kind \in {"free", "unlimited", "legacy"}
    /\ free = InitFree
    /\ ses = [s \in Sessions |-> NewSession]
    /\ tx = [s \in Sessions |-> NoTx]
    /\ faults = DbFaults
    /\ committed = 0 /\ due = 0
    /\ served = 0

-----------------------------------------------------------------------------
(* Arithmetic of a settlement *)

RoundedUp(bytes) == (bytes + MB - 1) \div MB

\* Wrong forms of the operators below, named for what is wrong with them.
DitherAlways(bytes) == {TRUE, FALSE}
ConflictNever(s) == FALSE
UnlimitedRemForgotten == 0
LeftUnclamped(read, amt) == read - amt
NewBalanceOptimistic(rem, failed) == IF failed THEN Plenty ELSE rem

\* rand.Float64() < float64(olbal%1000000)/1000000.0
Dither(bytes) == IF bytes % MB = 0 THEN {FALSE} ELSE {TRUE, FALSE}

\* Postgres refuses the write of a transaction whose row has changed
Conflict(s) == tx[s].stale

\* decAccBalance returns this without touching the row
UnlimitedRem == Plenty

\* "rem -= amt; if rem < 0 { rem = 0 }"
Left(read, amt) == IF read < amt THEN 0 ELSE read - amt

\* A settlement takes any error for an empty balance.
NewBalance(rem, failed) == IF failed THEN 0 ELSE rem

-----------------------------------------------------------------------------
(* Calls of decAccBalance: the amount of the call a session is in, and what  *)
(* its caller does with the answer                                           *)

Amount(s) == IF ses[s].pc = "dec" THEN ses[s].olbal \div MB
             ELSE IF ses[s].pc = "extra" THEN 1 ELSE 0

Calling(s) == ses[s].pc \in {"start", "dec", "extra"}

\* The call returns: the first one of a session sets its balance to whatever
\* rem is, error or not; one of a settlement goes on to the dithered extra
\* megabyte or to the update.
Return(s, rem, failed) ==
    IF ses[s].pc = "start"
      THEN ses' = [ses EXCEPT ![s] = [@ EXCEPT !.pc = "idle", !.bal = rem * MB, !.failed = failed]]
      ELSE \E more \in IF ses[s].pc = "dec" THEN Dither(ses[s].olbal) ELSE {FALSE} :
             ses' = [ses EXCEPT ![s] = [@ EXCEPT !.pc = IF more THEN "extra" ELSE "update",
                                                !.nbal = NewBalance(rem, failed),
                                                !.failed = failed]]

\* BEGIN and the reads.  An unlimited plan is answered at once.
TxRead(s) ==
    /\ Calling(s) /\ ~tx[s].open
    /\ IF kind = "unlimited"
         THEN Return(s, UnlimitedRem, FALSE) /\ UNCHANGED tx
         ELSE tx' = [tx EXCEPT ![s] = [NoTx EXCEPT !.open = TRUE, !.read = free]]
              /\ UNCHANGED ses
    /\ UNCHANGED <<kind, free, faults, committed, due, served>>

Dropped(s) == tx' = [tx EXCEPT ![s] = NoTx] /\ UNCHANGED <<free, committed>>

Written(s, rem) ==
    /\ ~Conflict(s)
    /\ free' = rem
    /\ tx' = [t \in Sessions |-> IF t = s THEN NoTx ELSE [tx[t] EXCEPT !.stale = tx[t].open]]
    /\ committed' = committed + Amount(s)

\* UPDATE and COMMIT, or the serialization failure.  decLegacyAccBalance
\* ignores the failure and returns what it meant to write.
TxCommit(s) ==
    /\ tx[s].open
    /\ LET rem == Left(tx[s].read, Amount(s))
       IN  \/ Conflict(s) /\ Return(s, rem, kind # "legacy") /\ Dropped(s)
           \/ Return(s, rem, FALSE) /\ Written(s, rem)
    /\ UNCHANGED <<kind, faults, due, served>>

\* UPDATE or COMMIT ends in another error, and the database has not written the
\* row, or it has and only its answer was lost.
TxCommitFails(s) ==
    /\ tx[s].open /\ faults > 0
    /\ faults' = faults - 1
    /\ LET rem == Left(tx[s].read, Amount(s))
       IN  Return(s, rem, kind # "legacy") /\ (Dropped(s) \/ Written(s, rem))
    /\ UNCHANGED <<kind, due, served>>

\* BEGIN or the SELECT fails: rem is still zero.
DbError(s) ==
    /\ Calling(s) /\ ~tx[s].open /\ faults > 0
    /\ faults' = faults - 1
    /\ Return(s, 0, TRUE)
    /\ UNCHANGED <<kind, free, tx, committed, due, served>>

-----------------------------------------------------------------------------
(* The session *)

\* handleNewClient has let the user in and starts manageCtx.
Connect(s) ==
    /\ ses[s].pc = "off"
    /\ ses' = [ses EXCEPT ![s] = [@ EXCEPT !.pc = "start", !.up = TRUE]]
    /\ UNCHANGED <<kind, free, tx, faults, committed, due, served>>

\* consume, called by proxyCommon for a piece of a stream that Accept has
\* returned after the first balance was known.  It counts the bytes even when
\* it refuses them.
Consume(s) ==
    /\ ses[s].pc \notin {"off", "start"} /\ ses[s].up
    /\ served < MaxBytes
    /\ served' = served + 1
    /\ ses' = [ses EXCEPT ![s] = [@ EXCEPT !.lbal = ses[s].lbal + 1,
                                             !.bal = ses[s].bal - 1]]
    /\ UNCHANGED <<kind, free, tx, faults, committed, due>>

\* Ten seconds are over: a copy of lbal under lblk, the lock released.
Snapshot(s) ==
    /\ ses[s].pc = "idle" /\ ses[s].up
    /\ ses' = [ses EXCEPT ![s] = [@ EXCEPT !.pc = "dec", !.olbal = ses[s].lbal]]
    /\ due' = due + RoundedUp(ses[s].lbal)
    /\ UNCHANGED <<kind, free, tx, faults, committed, served>>

\* "update bal", under lblk again.
Update(s) ==
    /\ ses[s].pc = "update"
    /\ ses' = [ses EXCEPT ![s] = [@ EXCEPT !.pc = "idle",
                                             !.bal = ses[s].nbal * MB,
                                             !.lbal = 0, !.olbal = 0, !.nbal = 0]]
    /\ UNCHANGED <<kind, free, tx, faults, committed, due, served>>

\* The Context dies; the settling goroutine notices when it is idle.
Disconnect(s) ==
    /\ ses[s].up
    /\ ses' = [ses EXCEPT ![s].up = FALSE]
    /\ UNCHANGED <<kind, free, tx, faults, committed, due, served>>

Exit(s) ==
    /\ ses[s].pc = "idle" /\ ~ses[s].up
    /\ ses' = [ses EXCEPT ![s].pc = "gone"]
    /\ UNCHANGED <<kind, free, tx, faults, committed, due, served>>

-----------------------------------------------------------------------------
Settle(s) ==
    Snapshot(s) \/ TxRead(s) \/ TxCommit(s) \/ TxCommitFails(s) \/ DbError(s) \/ Update(s)

Next == \E s \in Sessions : Settle(s) \/ Connect(s) \/ Consume(s) \/ Disconnect(s) \/ Exit(s)

Spec == Init /\ [][Next]_vars

\* The timer fires and the database answers.
FairSpec == Spec /\ \A s \in Sessions : WF_vars(Settle(s))

-----------------------------------------------------------------------------
(* Properties *)

TypeOK ==
    /\ free \in 0..InitFree
    /\ \A s \in Sessions :
         /\ ses[s].pc \in {"off", "start", "idle", "dec", "extra", "update", "gone"}
         /\ ses[s].bal \in Int /\ ses[s].lbal \in 0..MaxBytes /\ ses[s].olbal \in 0..MaxBytes
         /\ tx[s].open => Calling(s)
    /\ faults \in 0..DbFaults /\ committed \in Nat /\ due \in Nat

\* Sessions of one user that settle at the same time do not overwrite each
\* other's charges.
NoLostCharge ==
    kind # "unlimited" => free = IF committed > InitFree THEN 0 ELSE InitFree - committed

\* No user is charged for more than what the sessions have counted, rounded up
\* to a megabyte at each settlement, whatever fails and whichever sessions run
\* at the same time.
NeverOvercharged == committed <= due

\* A session refuses its streams right after a settlement only because the
\* balance is used up or because the database call failed.  (A legacy session
\* may also believe in a charge of its own that was never committed.)
CutForAReason ==
    \A s \in Sessions :
      /\ ses[s].pc = "idle" /\ ses[s].lbal = 0 /\ ses[s].bal <= 0
      => ses[s].failed \/ (free = 0 /\ kind # "unlimited") \/ kind = "legacy"

\* Once the balance is used up every session of the user ends up refusing, and
\* goes on refusing.
ExhaustedIsCut ==
    free = 0 /\ kind # "unlimited"
      ~> [](\A s \in Sessions : ses[s].up /\ ses[s].pc # "start" => ses[s].bal <= 0)

\* "periodically sync our balance with the global balance": when a settlement
\* ends, the bytes that consume has counted since its copy are still counted.
EveryByteSettled ==
    [][\A s \in Sessions :
         ses[s].pc = "update" /\ ses'[s].pc = "idle"
           => ses'[s].lbal = ses[s].lbal - ses[s].olbal]_vars
=============================================================================
