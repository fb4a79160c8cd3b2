---------------------------- MODULE ClientProofs ----------------------------
(* What the client daemon keeps for any number of entry nodes, connections,  *)
(* updates of its cache and users: type correctness, and that a connection   *)
(* that works is only killed by a user of its own.                           *)
EXTENDS Client, TLAPS

LEMMA InitType == Init => TypeOK
  <1> SUFFICES ASSUME Init PROVE TypeOK
    OBVIOUS
  <1>1. /\ user \in [Users -> [pc : {"idle", "begun", "waiting", "read"}, kind : {"dial", "lookup"},
                              on : Contexts \cup {None}, slow : BOOLEAN]]
        /\ update \in [Updates -> [pc : {"idle", "asking", "answered"}, entries : SUBSET Entries]]
        /\ context \in [Contexts -> {"up", "broken", "dead"}]
        /\ dial \in [Entries -> {"none", "dialing", "ready"}]
    BY DEF Init, Idle
  <1>2. faults \in 0..Faults
    BY ClientAssumption DEF Init
  <1> QED
    BY <1>1, <1>2 DEF Init, TypeOK

\* Whatever the binder and the exits answer is a set of entry nodes, and the
\* budget pays for an answer that is not right.
LEMMA Answers ==
    ASSUME TypeOK, NEW exits \in ExitNodes, NEW entries \in EntryNodes(exits), Fault(entries)
    PROVE  entries \in SUBSET Entries /\ faults' \in 0..Faults
  <1>1. entries \in SUBSET Entries
    BY DEF TypeOK, EntryNodes
  <1>2. entries # reachable => faults > 0
    BY DEF TypeOK, EntryNodes, ExitNodes
  <1> QED
    BY <1>1, <1>2, ClientAssumption DEF TypeOK, Fault

LEMMA NextType == TypeOK /\ [Next]_vars => TypeOK'
  <1> SUFFICES ASSUME TypeOK, [Next]_vars PROVE TypeOK'
    OBVIOUS
  <1> USE ClientAssumption DEF TypeOK
  <1>1. CASE StateMachine
    <2>1. CASE FindInNet
      <3>0. PICK exits \in ExitNodes : \E entries \in EntryNodes(exits) :
              /\ Fault(entries)
              /\ IF Keeps(entries)
                   THEN ecache' = entries /\ smState' = "ConnEntry"
                   ELSE UNCHANGED <<ecache, smState>>
        BY <2>1 DEF FindInNet
      <3>1. PICK entries \in EntryNodes(exits) :
              /\ Fault(entries)
              /\ IF Keeps(entries)
                   THEN ecache' = entries /\ smState' = "ConnEntry"
                   ELSE UNCHANGED <<ecache, smState>>
        BY <3>0
      <3>2. entries \in SUBSET Entries /\ faults' \in 0..Faults
        BY <3>1, Answers
      <3> QED
        BY <2>1, <3>1, <3>2 DEF FindInNet, race
    <2>2. ASSUME NEW u \in Updates, FindInCache(u) PROVE TypeOK'
      BY <2>2 DEF FindInCache, race
    <2>3. CASE StartRace
      BY <2>3 DEF StartRace
    <2>4. CASE RaceTimeout
      <3>1. reachable # {}
        OBVIOUS
      <3>2. PICK e \in reachable : TRUE
        BY <3>1
      <3>3. faults' = faults \/ (faults > 0 /\ faults' = faults - 1)
        BY <2>4 DEF RaceTimeout
      <3>4. faults' \in 0..Faults
        BY <3>3
      <3>5. dial' \in [Entries -> {"none", "dialing", "ready"}]
        BY <2>4 DEF RaceTimeout, NoDials
      <3> QED
        BY <2>4, <3>4, <3>5 DEF RaceTimeout, AfterNoWinner
    <2>5. ASSUME NEW e \in Entries, Win(e) PROVE TypeOK'
      BY <2>5 DEF Win, NoDials
    <2>6. CASE AuthGood
      BY <2>6 DEF AuthGood, Unreferenced, race
    <2>7. CASE AuthBad
      BY <2>7 DEF AuthBad, race
    <2>8. CASE AuthInterrupted
      <3>1. faults' \in 0..Faults
        BY <2>8 DEF AuthInterrupted
      <3> QED
        BY <2>8, <3>1 DEF AuthInterrupted
    <2>9. CASE LeaveSteady
      BY <2>9 DEF LeaveSteady, AfterDeath
    <2> QED
      BY <1>1, <2>1, <2>2, <2>3, <2>4, <2>5, <2>6, <2>7, <2>8, <2>9 DEF StateMachine
  <1>2. CASE AuthSilent
    BY <1>2 DEF AuthSilent
  <1>3. ASSUME NEW u \in Updates, Update(u) PROVE TypeOK'
    <2>1. CASE UpdateAnswered(u)
      <3>0. PICK exits \in ExitNodes : \E entries \in EntryNodes(exits) :
              /\ Fault(entries)
              /\ update' = [update EXCEPT ![u] =
                              IF Keeps(entries) THEN [pc |-> "answered", entries |-> entries]
                                                ELSE [pc |-> "idle", entries |-> {}]]
        BY <2>1 DEF UpdateAnswered
      <3>1. PICK entries \in EntryNodes(exits) :
              /\ Fault(entries)
              /\ update' = [update EXCEPT ![u] =
                              IF Keeps(entries) THEN [pc |-> "answered", entries |-> entries]
                                                ELSE [pc |-> "idle", entries |-> {}]]
        BY <3>0
      <3>2. entries \in SUBSET Entries /\ faults' \in 0..Faults
        BY <3>1, Answers
      <3> QED
        BY <2>1, <3>1, <3>2 DEF UpdateAnswered, race
    <2>2. CASE UpdateStored(u)
      BY <2>2 DEF UpdateStored, race
    <2> QED
      BY <1>3, <2>1, <2>2 DEF Update
  <1>4. ASSUME NEW e \in Entries, Dial(e) PROVE TypeOK'
    BY <1>4 DEF Dial, Dialed, DialFails
  <1>5. ASSUME NEW c \in Contexts, WireBreaks(c) \/ ContextNotices(c) PROVE TypeOK'
    BY <1>5 DEF WireBreaks, ContextNotices, race
  <1>6. ASSUME NEW q \in Users, NEW kind \in {"dial", "lookup"}, Begin(q, kind) PROVE TypeOK'
    BY <1>6 DEF Begin, Idle, race
  <1>7. ASSUME NEW q \in Users, \/ Use(q) \/ Slow(q) \/ Answered(q, TRUE) \/ TimerFires(q)
                                \/ ReadCut(q)
        PROVE  TypeOK'
    <2>1. CASE Tunneled(q)
      <3>1. user' = [user EXCEPT ![q].pc = "waiting"]
        BY <2>1 DEF Tunneled
      <3>2. user' \in [Users -> [pc : {"idle", "begun", "waiting", "read"}, kind : {"dial", "lookup"},
                                on : Contexts \cup {None}, slow : BOOLEAN]]
        BY ONLY <3>1, TypeOK DEF TypeOK
      <3> QED
        BY <2>1, <3>2 DEF Tunneled, race
    <2>2. CASE TunnelFails(q)
      BY <2>2 DEF TunnelFails, Idle, race
    <2>3. ASSUME NEW slow, Answered(q, slow) PROVE TypeOK'
      BY <2>3 DEF Answered, race
    <2>4. CASE StopTimer(q) \/ ReadFails(q)
      <3>1. Idle \in [pc : {"idle", "begun", "waiting", "read"}, kind : {"dial", "lookup"},
                     on : Contexts \cup {None}, slow : BOOLEAN]
        BY DEF Idle
      <3>2. user' = [user EXCEPT ![q] = Idle]
        BY <2>4 DEF StopTimer, ReadFails
      <3>3. user' \in [Users -> [pc : {"idle", "begun", "waiting", "read"}, kind : {"dial", "lookup"},
                                on : Contexts \cup {None}, slow : BOOLEAN]]
        BY <3>1, <3>2
      <3> QED
        BY <2>4, <3>3 DEF StopTimer, ReadFails, race
    <2>5. CASE Slow(q)
      <3>1. user' = [user EXCEPT ![q].slow = TRUE]
        BY <2>5 DEF Slow
      <3>2. user' \in [Users -> [pc : {"idle", "begun", "waiting", "read"}, kind : {"dial", "lookup"},
                                on : Contexts \cup {None}, slow : BOOLEAN]]
        BY ONLY <3>1, TypeOK DEF TypeOK
      <3>3. faults' \in 0..Faults
        BY <2>5 DEF Slow
      <3> QED
        BY <2>5, <3>2, <3>3 DEF Slow, race
    <2>6. CASE TimerFires(q)
      BY <2>6 DEF TimerFires, TimerTarget, race
    <2>7. CASE ReadCut(q)
      <3>1. user' = [user EXCEPT ![q] = Idle] /\ faults' \in 0..Faults
        BY <2>7 DEF ReadCut
      <3>2. user' \in [Users -> [pc : {"idle", "begun", "waiting", "read"}, kind : {"dial", "lookup"},
                                on : Contexts \cup {None}, slow : BOOLEAN]]
        BY <3>1 DEF Idle
      <3>3. context' \in [Contexts -> {"up", "broken", "dead"}]
        BY <2>7 DEF ReadCut
      <3> QED
        BY <2>7, <3>1, <3>2, <3>3 DEF ReadCut, race
    <2> QED
      BY <1>7, <2>1, <2>2, <2>3, <2>4, <2>5, <2>6, <2>7 DEF Use
  <1>8. CASE EntriesChange
    BY <1>8 DEF EntriesChange, race
  <1>9. CASE UNCHANGED vars
    BY <1>9 DEF vars, race
  <1> QED
    BY <1>1, <1>2, <1>3, <1>4, <1>5, <1>6, <1>7, <1>8, <1>9 DEF Next

\* The state machine, the cache, the Contexts and the users stay what they are
\* declared to be, and there is a connection in SteadyState and only there.
THEOREM ClientTypeOK == Spec => []TypeOK
  BY InitType, NextType, PTL DEF Spec

-----------------------------------------------------------------------------
\* However many connections and users there have been, a Context that works is
\* killed only by a stream or lookup of its own that has waited too long or has
\* been cut before its answer, never by one left over from another connection.
THEOREM ClientKilledByItsOwnUser == Spec => KilledByItsOwnUser
  <1> DEFINE KilledBy(c, q) ==
               /\ user[q].on = c
               /\ user[q].slow \/ (user[q].pc = "waiting" /\ user'[q] = Idle)
  <1>1. TypeOK /\ [Next]_vars =>
          [\A c \in Contexts :
             context[c] = "up" /\ context'[c] = "dead"
               => \E q \in Users : KilledBy(c, q)]_vars
    <2> SUFFICES ASSUME TypeOK, [Next]_vars, NEW c \in Contexts,
                        context[c] = "up", context'[c] = "dead"
                 PROVE  \E q \in Users : KilledBy(c, q)
      OBVIOUS
    <2> USE DEF TypeOK
    <2>1. CASE AuthGood
      BY <2>1 DEF AuthGood
    <2>2. ASSUME NEW d \in Contexts, WireBreaks(d) \/ ContextNotices(d) PROVE FALSE
      BY <2>2 DEF WireBreaks, ContextNotices
    <2>3. ASSUME NEW q \in Users, TunnelFails(q) PROVE FALSE
      BY <2>3 DEF TunnelFails
    <2>4. ASSUME NEW q \in Users, TimerFires(q)
          PROVE  KilledBy(c, q)
      BY <2>4 DEF TimerFires, TimerTarget
    <2>5. ASSUME NEW q \in Users, ReadCut(q)
          PROVE  KilledBy(c, q)
      BY <2>5 DEF ReadCut, Idle
    <2>6. CASE UNCHANGED context
      BY <2>6
    <2> QED
      BY <2>1, <2>2, <2>3, <2>4, <2>5, <2>6
      DEF Next, StateMachine, FindInNet, FindInCache, StartRace, RaceTimeout, Win, AuthBad,
          AuthInterrupted, LeaveSteady, AuthSilent, Update, UpdateAnswered, UpdateStored,
          Dial, Dialed, DialFails, Begin, Use, Tunneled, Answered, StopTimer, ReadFails,
          Slow, EntriesChange, vars
  <1> QED
    BY <1>1, InitType, NextType, PTL DEF Spec, KilledByItsOwnUser
=============================================================================
