------------------------------- MODULE Client -------------------------------
(* The client daemon: the state machine that finds entry nodes, races dials  *)
(* to them, authenticates and then lives off one tunnel connection           *)
(* (smFindEntry, smConnEntry, smSteadyState), the entry cache with its       *)
(* asynchronous updates, and the users of the tunnel connection, dialTunRaw  *)
(* and resolveName, whose timers may kill it.  A connection is a niaucchi3   *)
(* Context, of which this module keeps only whether it works.  Statistics    *)
(* are left out, and so is a dial that outlives its race: it closes its      *)
(* connection as soon as it has one.                                         *)
EXTENDS Naturals, FiniteSets

CONSTANTS
    Entries,        \* entry nodes there may be
    Contexts,       \* niaucchi3 Contexts, allocated and collected
    Updates,        \* bound: updates of the cache under way at once
    Users,          \* streams and lookups that use the connection
    None,           \* nil
    Faults          \* bound: steps of the world that go against the client

ASSUME ClientAssumption ==
    /\ Entries # {} /\ IsFiniteSet(Entries)
    /\ Contexts # {} /\ IsFiniteSet(Contexts)
    /\ None \notin Contexts /\ None \notin Entries
    /\ Faults \in Nat

VARIABLES
    smState,    \* where the state machine is
    dial,       \* the dials of the race: none, dialing, ready
    winner,     \* the entry node of the connection, from the race on
    silent,     \* the exit has accepted the connection and says nothing
    ecache,     \* the entries in the cache, {} for nil; their expiry is never looked at
    update,     \* the asynchronous updates: idle, asking, or the answer
    currTunn,   \* the Context in use, or None
    context,    \* every Context: up, broken (the wire, unnoticed), or dead
    user,       \* the users of the connection
    reachable,  \* entry nodes that can be reached and forward to their exit
    faults      \* faults left

race == <<dial, winner, silent>>
vars == <<smState, race, ecache, update, currTunn, context, user, reachable, faults>>

Idle == [pc |-> "idle", kind |-> "dial", on |-> None, slow |-> FALSE]

Init ==
    /\ smState = "FindEntry"
    /\ dial = [e \in Entries |-> "none"] /\ winner = None /\ silent = FALSE
    /\ ecache = {}
    /\ update = [u \in Updates |-> [pc |-> "idle", entries |-> {}]]
    /\ currTunn = None
    /\ context = [c \in Contexts |-> "dead"]
    /\ user = [q \in Users |-> Idle]
    /\ reachable \in (SUBSET Entries) \ {{}}
    /\ faults = Faults

-----------------------------------------------------------------------------
(* Helpers *)

\* Wrong forms of the operators below, named for what is wrong with them; no
\* action uses one.
NextAfterNoWinner == "ConnEntry"
TimerTargetCurrent(q) == currTunn
ArmedNever(q) == FALSE
AfterDeathKept == currTunn

\* "failed to connect to anything within 15 seconds"
AfterNoWinner == "FindEntry"

\* An answer without entries is not put into the cache.
Keeps(entries) == entries # {}

\* The Context that the timer of a user kills is the one it began with.
TimerTarget(q) == user[q].on

\* The timer of fifteen seconds runs until the answer has been read.
Armed(q) == user[q].pc \in {"waiting", "read"}

\* "clear everything and go to FindEntry"
AfterDeath == None

\* getExitNodes: the exits, or an error if the binder cannot be reached, its
\* signature is wrong, or its list has expired.
ExitNodes == IF faults > 0 THEN BOOLEAN ELSE {TRUE}

\* getEntryNodes: of all exits that answer with a good signature, the nodes that
\* are up, or any others when uploads or their expiry lag behind.
EntryNodes(exits) ==
    IF ~exits THEN {{}} ELSE IF faults > 0 THEN SUBSET Entries ELSE {reachable}

\* Any list but the right one is a fault.
Fault(entries) == faults' = IF entries # reachable THEN faults - 1 ELSE faults

-----------------------------------------------------------------------------
(* FindEntry and the entry cache *)

\* Nothing cached: getExitNodes and getEntryNodes are waited for.
FindInNet ==
    /\ smState = "FindEntry" /\ ecache = {}
    /\ \E exits \in ExitNodes : \E entries \in EntryNodes(exits) :
         /\ Fault(entries)
         /\ IF Keeps(entries)
              THEN ecache' = entries /\ smState' = "ConnEntry"
              ELSE UNCHANGED <<ecache, smState>>
    /\ UNCHANGED <<race, update, currTunn, context, user, reachable>>

\* Anything cached, however old, is used, and "asynchronously update the cache
\* anyway".
FindInCache(u) ==
    /\ smState = "FindEntry" /\ ecache # {}
    /\ update[u].pc = "idle"
    /\ update' = [update EXCEPT ![u].pc = "asking"]
    /\ smState' = "ConnEntry"
    /\ UNCHANGED <<race, ecache, currTunn, context, user, reachable, faults>>

\* The binder and the exits answer an update, or an error ends it.
UpdateAnswered(u) ==
    /\ update[u].pc = "asking"
    /\ \E exits \in ExitNodes : \E entries \in EntryNodes(exits) :
         /\ Fault(entries)
         /\ update' = [update EXCEPT ![u] =
                         IF Keeps(entries) THEN [pc |-> "answered", entries |-> entries]
                                           ELSE [pc |-> "idle", entries |-> {}]]
    /\ UNCHANGED <<smState, race, ecache, currTunn, context, user, reachable>>

\* SetEntries, in whatever order the updates come back.
UpdateStored(u) ==
    /\ update[u].pc = "answered"
    /\ ecache' = update[u].entries
    /\ update' = [update EXCEPT ![u] = [pc |-> "idle", entries |-> {}]]
    /\ UNCHANGED <<smState, race, currTunn, context, user, reachable, faults>>

-----------------------------------------------------------------------------
(* ConnEntry *)

NoDials == [e \in Entries |-> "none"]

StartRace ==
    /\ smState = "ConnEntry"
    /\ dial' = [e \in Entries |-> IF e \in ecache THEN "dialing" ELSE "none"]
    /\ smState' = "Racing"
    /\ UNCHANGED <<winner, silent, ecache, update, currTunn, context, user, reachable, faults>>

\* getWire: TCP, cluttershirt and miniss, and the exit has the right key.
Dialed(e) ==
    /\ smState = "Racing" /\ dial[e] = "dialing" /\ e \in reachable
    /\ dial' = [dial EXCEPT ![e] = "ready"]
    /\ UNCHANGED <<smState, winner, silent, ecache, update, currTunn, context, user,
                   reachable, faults>>

DialFails(e) ==
    /\ smState = "Racing" /\ dial[e] = "dialing"
    /\ \/ e \notin reachable /\ UNCHANGED faults
       \/ e \in reachable /\ faults > 0 /\ faults' = faults - 1
    /\ dial' = [dial EXCEPT ![e] = "none"]
    /\ UNCHANGED <<smState, winner, silent, ecache, update, currTunn, context, user, reachable>>

\* retline is unbuffered and dedline closed right after: one dial wins, the
\* others close their connections.
Win(e) ==
    /\ smState = "Racing" /\ dial[e] = "ready"
    /\ winner' = e
    /\ dial' = NoDials
    /\ smState' = "Authenticating"
    /\ UNCHANGED <<silent, ecache, update, currTunn, context, user, reachable, faults>>

\* Fifteen seconds, in which a node that is reachable answers unless the
\* network is slow.
RaceTimeout ==
    /\ smState = "Racing"
    /\ \/ \A e \in reachable : dial[e] = "none"
          /\ UNCHANGED faults
       \/ \E e \in reachable : dial[e] # "none"
          /\ faults > 0 /\ faults' = faults - 1
    /\ dial' = NoDials
    /\ smState' = AfterNoWinner
    /\ UNCHANGED <<winner, silent, ecache, update, currTunn, context, user, reachable>>

\* Contexts that nothing refers to any more
Unreferenced == Contexts \ ({currTunn} \cup {user[q].on : q \in Users})

\* The exit says "y".
AuthGood ==
    /\ smState = "Authenticating" /\ ~silent
    /\ \E c \in Unreferenced :
         /\ currTunn' = c
         /\ context' = [context EXCEPT ![c] = "up"]
    /\ smState' = "SteadyState"
    /\ UNCHANGED <<race, ecache, update, user, reachable, faults>>

\* The exit says "n", because the account is wrong or its database has failed.
AuthBad ==
    /\ smState = "Authenticating" /\ ~silent /\ faults > 0
    /\ faults' = faults - 1
    /\ smState' = "Exited"
    /\ UNCHANGED <<race, ecache, update, currTunn, context, user, reachable>>

\* The connection breaks before the answer: smState stays what it is, so that
\* ConnEntry runs again on the same cache.
AuthInterrupted ==
    /\ smState = "Authenticating"
    /\ \/ ~silent /\ faults > 0 /\ faults' = faults - 1
       \/ silent /\ winner \notin reachable /\ UNCHANGED faults
    /\ silent' = FALSE /\ winner' = None
    /\ smState' = "ConnEntry"
    /\ UNCHANGED <<dial, ecache, update, currTunn, context, user, reachable>>

\* The exit never answers, and the Read has no deadline.
AuthSilent ==
    /\ smState = "Authenticating" /\ ~silent /\ faults > 0
    /\ faults' = faults - 1
    /\ silent' = TRUE
    /\ UNCHANGED <<smState, dial, winner, ecache, update, currTunn, context, user, reachable>>

-----------------------------------------------------------------------------
(* SteadyState and the Context *)

LeaveSteady ==
    /\ smState = "SteadyState" /\ context[currTunn] = "dead"
    /\ currTunn' = AfterDeath /\ winner' = None
    /\ smState' = "FindEntry"
    /\ UNCHANGED <<dial, silent, ecache, update, context, user, reachable, faults>>

\* The wire goes: the entry node is gone, or the network fails.  Neither end
\* need notice.
WireBreaks(c) ==
    /\ context[c] = "up"
    /\ \/ winner \notin reachable /\ UNCHANGED faults
       \/ winner \in reachable /\ faults > 0 /\ faults' = faults - 1
    /\ context' = [context EXCEPT ![c] = "broken"]
    /\ UNCHANGED <<smState, race, ecache, update, currTunn, user, reachable>>

\* mainThread or sendAliv notices, at the latest by the deadline of eight minutes.
ContextNotices(c) ==
    /\ context[c] = "broken"
    /\ context' = [context EXCEPT ![c] = "dead"]
    /\ UNCHANGED <<smState, race, ecache, update, currTunn, user, reachable, faults>>

-----------------------------------------------------------------------------
(* dialTunRaw and resolveName; with currTunn nil both return at once *)

Begin(q, kind) ==
    /\ user[q].pc = "idle" /\ currTunn # None
    /\ user' = [user EXCEPT ![q] = [Idle EXCEPT !.pc = "begun", !.kind = kind, !.on = currTunn]]
    /\ UNCHANGED <<smState, race, ecache, update, currTunn, context, reachable, faults>>

\* Tunnel packs OPEN, the request follows, and the timer starts.  A dying
\* Context still does it; a wire known to be broken refuses.
Tunneled(q) ==
    /\ user[q].pc = "begun"
    /\ user' = [user EXCEPT ![q].pc = "waiting"]
    /\ UNCHANGED <<smState, race, ecache, update, currTunn, context, reachable, faults>>

\* Tunnel fails: dialTunRaw kills the Context, resolveName does not.
TunnelFails(q) ==
    /\ user[q].pc = "begun" /\ context[user[q].on] # "up"
    /\ context' = IF user[q].kind = "dial" THEN [context EXCEPT ![user[q].on] = "dead"]
                                           ELSE context
    /\ user' = [user EXCEPT ![q] = Idle]
    /\ UNCHANGED <<smState, race, ecache, update, currTunn, reachable, faults>>

\* The destination is slow.
Slow(q) ==
    /\ user[q].pc = "waiting" /\ ~user[q].slow /\ faults > 0
    /\ faults' = faults - 1
    /\ user' = [user EXCEPT ![q].slow = TRUE]
    /\ UNCHANGED <<smState, race, ecache, update, currTunn, context, reachable>>

\* The exit's answer, good or bad, or its end of a lookup, comes through, from a
\* slow destination perhaps never.
Answered(q, late) ==
    /\ user[q].pc = "waiting" /\ context[user[q].on] = "up"
    /\ user[q].slow = late
    /\ user' = [user EXCEPT ![q].pc = "read"]
    /\ UNCHANGED <<smState, race, ecache, update, currTunn, context, reachable, faults>>

StopTimer(q) ==
    /\ user[q].pc = "read"
    /\ user' = [user EXCEPT ![q] = Idle]
    /\ UNCHANGED <<smState, race, ecache, update, currTunn, context, reachable, faults>>

\* Fifteen seconds go by only for a slow destination or a broken wire.
TimerFires(q) ==
    /\ Armed(q)
    /\ user[q].slow \/ context[user[q].on] = "broken"
    /\ TimerTarget(q) # None
    /\ context[TimerTarget(q)] # "dead"
    /\ context' = [context EXCEPT ![TimerTarget(q)] = "dead"]
    /\ UNCHANGED <<smState, race, ecache, update, currTunn, user, reachable, faults>>

\* The socket dies with its Context and ReadFull fails.  The Kill that follows
\* in dialTunRaw, and the timer that it leaves running, find the Context dead.
ReadFails(q) ==
    /\ user[q].pc = "waiting" /\ context[user[q].on] = "dead"
    /\ user' = [user EXCEPT ![q] = Idle]
    /\ UNCHANGED <<smState, race, ecache, update, currTunn, context, reachable, faults>>

\* ReadFull fails on a Context that lives: the other end has closed the stream
\* before it has answered.  dialTunRaw takes the whole Context down for it, for
\* all its users, and resolveName only closes its stream.
ReadCut(q) ==
    /\ user[q].pc = "waiting" /\ context[user[q].on] # "dead"
    /\ faults > 0 /\ faults' = faults - 1
    /\ context' = IF user[q].kind = "dial" THEN [context EXCEPT ![user[q].on] = "dead"]
                                           ELSE context
    /\ user' = [user EXCEPT ![q] = Idle]
    /\ UNCHANGED <<smState, race, ecache, update, currTunn, reachable>>

-----------------------------------------------------------------------------
\* Entry nodes come and go, but never all of them.
EntriesChange ==
    /\ faults > 0 /\ faults' = faults - 1
    /\ reachable' \in (SUBSET Entries) \ {{}, reachable}
    /\ UNCHANGED <<smState, race, ecache, update, currTunn, context, user>>

StateMachine ==
    \/ FindInNet \/ \E u \in Updates : FindInCache(u)
    \/ StartRace \/ RaceTimeout \/ \E e \in Entries : Win(e)
    \/ AuthGood \/ AuthBad \/ AuthInterrupted
    \/ LeaveSteady

Update(u) == UpdateAnswered(u) \/ UpdateStored(u)
Dial(e) == Dialed(e) \/ DialFails(e)
Use(q) == Tunneled(q) \/ TunnelFails(q) \/ Answered(q, FALSE) \/ StopTimer(q) \/ ReadFails(q)

Next ==
    \/ StateMachine \/ AuthSilent
    \/ \E u \in Updates : Update(u)
    \/ \E e \in Entries : Dial(e)
    \/ \E c \in Contexts : WireBreaks(c) \/ ContextNotices(c)
    \/ \E q \in Users :
         \/ \E kind \in {"dial", "lookup"} : Begin(q, kind)
         \/ Use(q) \/ Slow(q) \/ Answered(q, TRUE) \/ TimerFires(q) \/ ReadCut(q)
    \/ EntriesChange

Spec == Init /\ [][Next]_vars

\* The state machine never rests, HTTP calls and dials have timeouts, Contexts
\* notice broken wires, and the goroutines of a user and its timer run.
Fairness ==
    /\ WF_vars(StateMachine)
    /\ \A u \in Updates : WF_vars(Update(u))
    /\ \A e \in Entries : WF_vars(Dial(e))
    /\ \A c \in Contexts : WF_vars(ContextNotices(c))
    /\ \A q \in Users : WF_vars(Use(q)) /\ WF_vars(TimerFires(q))

FairSpec == Spec /\ Fairness

-----------------------------------------------------------------------------
(* Properties *)

\* The states, the cache, the updates, the Contexts and the users are of the
\* kinds declared above, and a connection is in use in SteadyState only.
TypeOK ==
    /\ smState \in {"FindEntry", "ConnEntry", "Racing", "Authenticating", "SteadyState", "Exited"}
    /\ dial \in [Entries -> {"none", "dialing", "ready"}]
    /\ winner \in Entries \cup {None} /\ silent \in BOOLEAN
    /\ ecache \in SUBSET Entries
    /\ update \in [Updates -> [pc : {"idle", "asking", "answered"}, entries : SUBSET Entries]]
    /\ currTunn \in Contexts \cup {None}
    /\ (currTunn # None) = (smState = "SteadyState")
    /\ context \in [Contexts -> {"up", "broken", "dead"}]
    /\ user \in [Users -> [pc : {"idle", "begun", "waiting", "read"}, kind : {"dial", "lookup"},
                           on : Contexts \cup {None}, slow : BOOLEAN]]
    /\ reachable \in (SUBSET Entries) \ {{}} /\ faults \in 0..Faults

\* A Context whose wire works is killed only on behalf of a stream or lookup
\* of its own that has had to wait too long, or of a stream of its own that is
\* cut before its answer: a user left over from an earlier connection, whose
\* timer fires or whose read fails when the next one is up, does not hit it.
KilledByItsOwnUser ==
    [][\A c \in Contexts :
         context[c] = "up" /\ context'[c] = "dead"
           => \E q \in Users :
                /\ user[q].on = c
                /\ user[q].slow \/ (user[q].pc = "waiting" /\ user'[q] = Idle)]_vars

\* Once the world stops going against the client it connects, and stays
\* connected, whatever its cache held and in whatever order the updates came
\* back, unless it has exited over its account or waits for an exit that says
\* nothing.
Recovers ==
    \/ <>[](smState = "SteadyState" /\ context[currTunn] = "up")
    \/ <>(smState = "Exited")
    \/ <>[]silent

\* Every stream and every lookup gets an answer or an error, also when the
\* wire breaks under it without anybody noticing.
UsersEnd == \A q \in Users : user[q].pc # "idle" ~> user[q].pc = "idle"
=============================================================================
