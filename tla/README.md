# A verification project for Geph

Geph is a censorship-circumvention system in Go.  A *client* daemon offers a
SOCKS5 proxy; it reaches the Internet through an *exit*, by way of one of many
*entry nodes* that forward raw TCP to an exit.  A *binder* keeps accounts and
tells clients which exits there are; an exit tells them which entry nodes lead
to it.  Between client and exit runs one encrypted connection, over which the
multiplexer *niaucchi3* tunnels all streams.

This directory holds TLA+ models of that program, the TLC configurations that
check them on small instances, and theorems about them that TLAPS checks for
every value of the constants.  `PROJECT.json` says which lines of the source each
definition models, and for each property which plausible bug in the code would
break it.

    tlc -workers 2 -config FlowControl.cfg FlowControl.tla
    tlc -workers 2 -config Niaucchi3Streams.cfg MCNiaucchi3.tla
    tlapm FlowControlProofs.tla

Paths below are relative to `src/internal`.

## 1. The system

| Component | State it keeps | Operations | Model |
|---|---|---|---|
| **niaucchi3 socket** (`niaucchi3/socket.go`) | `sendwind` and `incoming` (channels of 256), `recvcount` (a uint8), a tomb, `once` | `Read`, `Write`/`realWrite`, `Close`, the goroutine that sends ICWD | FlowControl, Niaucchi3 |
| **niaucchi3 Context, subCtx** (`niaucchi3/Context.go`) | the table of 65536 ids, the accept queue, two tombs, the wire | `Tunnel`, `Accept`, `mainThread`, `sendAliv`, the goroutines that tie deaths together | Niaucchi3 |
| **exit billing** (`scmd/exit/manageCtx.go`, `manageLegacyCtx.go`, `postgres.go`) | `bal` and `lbal` per session, the balance row in Postgres | `consume`, the settlement every ten seconds, `decAccBalance`, `decLegacyAccBalance`, `authUser` | ExitBilling (without `authUser`) |
| **exit entry database** (`scmd/exit/entryDB.go`, `handlers.go`) | the SQLite tables nodes, clients, mapping | `AddNode`, `getASN`, the police, `GetNodes` | EntryDB |
| **exit proxying** (`scmd/exit/proxyCommon.go`, `doProxy.go`) | per stream: two copying goroutines; the table of legacy sessions | `proxyCommon`, `doProxy` | Proxy, the table in Niaucchi2 |
| **entry node** (`scmd/entry`) | one listener a day, one uploader goroutine each, a shared `resp` | an upload, 30 s of sleep, and again; `doForward` | uploads in EntryDB |
| **client state machine** (`scmd/client/sm*.go`, `entryCache.go`, `getExitNodes.go`, `getEntryNodes.go`) | `smState`, the entry cache, `currTunn` | FindEntry, ConnEntry with its race of dials, SteadyState, `dialTunRaw`, `doSocks` | Client, Proxy |
| **client DNS and routing** (`doDNS.go`, `filterDest.go`, `geoDB.go`) | a DNS cache, the country table | `resolveName`, `filterDest`, `GetCountry` | GeoDB, Proxy; `resolveName` also in Client |
| **SOCKS5 front** (`tinysocks`) | none beyond a request | one request and answer | Proxy |
| **binder, proxbinder** (`scmd/binder`, `scmd/proxbinder`) | the accounts in Postgres, the signed list of exits | registration, summary, exit list | not modelled |
| **niaucchi2** (`legacy/niaucchi2`) | as niaucchi3, with several subCtx per Context and one table of ids for all | as niaucchi3, and `Absorb`, `watchdog` | Niaucchi2 |
| **common, commands** (`common`, `main.go`, `Command.go` files) | none | key derivation, port table, flags | not modelled |

How they interact.  `doSocks` calls `dialTunRaw`, which opens a tunnel on the
Context in `currTunn`; the exit's `manageCtx` accepts it and runs `proxyCommon`,
which calls `consume` for every piece it copies.  Contexts share nothing with
each other but the database.  Entry nodes post to the exit over HTTP; clients
fetch their share of the list over HTTP.  Inside a program everything is shared
memory: tombs, channels, mutexes and a few plain variables.

What is hard, and where:

* **Interleavings.**  Four goroutines touch one socket: a writer, a reader, the
  reader's ICWD goroutine and `mainThread`.  Three tombs die in an order that
  goroutines impose.  A settlement reads a balance, waits for a database and
  writes it back, while streams go on drawing on it.  Timers in the client kill a
  Context that may long have been replaced.
* **Ordering.**  A CLOS frees an id at one end before the user at that end has
  read EOF; in niaucchi2 a CLOS on one wire can come in after the OPEN of the id's
  next tunnel on another.  Updates of the cache come back in any order.
* **Closing.**  Four loops copy one stream, two in each program; the first to stop
  closes two of the connections under the others' hands, also where its end of file
  came from a user who has only shut down its writing side.
* **Loss and silence.**  The wire breaks unnoticed; the binder or an exit does not
  answer; uploads get lost, or are served after the node has gone.
* **Limits.**  A window of 256 with credits of 64, an accept queue of 1024, a
  uint8 that "acts like 256", three nodes per client, twenty tries.

What makes the components correct:

* A stream delivers what was written, in order, then EOF; it never stalls while
  both ends live; a window never overflows; a death brings everything down with
  it; honest ends do not fail each other.
* An application is connected to what it asked for, on the way the routing rules
  say; what it reads is what the server wrote; all four ends close.
* Charges are neither lost nor made up; an empty balance cuts every session.
* The client always finds its way back; every request gets an answer or an
  error; no timer hits another connection than its own.
* Entry nodes that are up stay listed, entry nodes that are gone disappear.

## 2. The modules

**FlowControl** is the abstract specification of one direction of one stream: the
writer's `sendwind`, the segments under way and queued, the reader's `recvcount`,
ICWD credits and CLOS.  Payload is left out; since the wire is first in, first out
and CLOS comes last, counters lose nothing.  `TakeToken`/`SendData` are the two
halves of `realWrite` (token, then locks and a second look at the tomb),
`EnterRead`/`ReadData`/`ReadClos`/`ReadDying`/`ReadTimeout` the parts of `Read`,
`SendIcwd` its goroutine, `Deliver*` the branches of `mainThread`.

**Niaucchi3** is the multiplexer itself: both Contexts, the id table, the accept
queue, every socket and the wire.  `Reserve` and `OpenTunnel` are the two critical
sections of `Tunnel`; `RecvOpen`, `RecvIcwd`, `RecvSegment` and `ReadError` are
`mainThread`; `AlivFails` is `sendAliv` with the goroutine that waits for
`sctx.death`; `TieUp` the goroutine that kills a socket with its Context (client)
or subCtx (server).  The number of a tunnel is known to the model only: the program
sees ids.  `Kill` is what `dialTunRaw` and `resolveName` do to a Context, `Cut` a
network failure.  Two choices are worth knowing: a socket's owner is always willing
to read, and a segment that has been packed stays readable until an end closes.

**Niaucchi3Flow** maps a lone tunnel of Niaucchi3 to two instances of FlowControl,
one per direction (`Flow(e)` is the stream that end `e` writes), so that what is proved
of FlowControl holds of the multiplexer.
**MCNiaucchi3** says how much each end writes in a run.

**ExitBilling** has all sessions of one user and the user's balance row.  Postgres is
modelled by its SERIALIZABLE level: a transaction whose row has been written since
it was read fails.  Any other statement may fail too: before the charge (`DbError`), or
at UPDATE and COMMIT (`TxCommitFails`), where the charge may have taken effect although
the session is told of an error.  `Return` is what callers of `decAccBalance` do with its
result, errors included; `Snapshot` and `Update` are the two critical sections of a
settlement.  The three kinds of account (`free`, `unlimited`, `legacy`) differ as
in the code; in particular a legacy call ignores a failed commit.

**Client** has the state machine, the cache with its asynchronous updates, the race
of dials, and the users of the connection with their fifteen-second timers.  A
Context is up, broken (nobody has noticed) or dead.  A stream may be closed by its other
end before the answer has come (`ReadCut`): `dialTunRaw` kills the Context for it,
`resolveName` closes its stream only.  `faults` counts the steps of the world that go
against the client.

**EntryDB** has the three tables, the entry nodes that upload to them, the police and
the clients' queries.  **MCEntryDB** puts its nodes into autonomous systems and says who
takes part in a behaviour and how much fails in it (`Budgets`).  Time
advances in units of ten seconds, the longest that a post may take (the timeout of
`myHTTP`) and what the police sleeps.  An uploader posts (`Post`, `PostLost`), which may
see one unit begin (`took`), gets its answer or its timeout (`Return`, `TimesOut`), and
then sleeps for three units (`wait`): a period of three to four units, not of three.
`lastseen` lies somewhere within its unit, so that a row *may* be three minutes old when
18 units have begun since (`Expired`), and *must* be when 20 have (`Overdue`); `Police`
takes all of the latter and any of the former.  An AddNode whose post has timed out goes
on at the exit (`stray`), with whatever ASN it has found and as late as it likes, while
the uploader posts again; `late` remembers that a node had one.  Statements fail: `Misses`
are posts that come to nothing, lost or because AddNode fails, `Tick` may find that the
police has not run, and a query that meets errors (`BeginBadly`, `TryBadly`, `EndBadly`)
may leave any part of its draw in the mapping, keep the old mapping, return early with
part of the nodes, or roll back.

**GeoDB** is the country table and `GetCountry`, one probe of the binary search per
step.  `LoadCSV` keeps the rows of the file as they come; that they ascend and do not
overlap is what the search needs and nobody checks (`Ascending`, assumed of every
table).

**Proxy** composes GeoDB with the rest of one request: the SOCKS5 dialogue
(`ReadGreeting`, `ReadConnect`), `filterDest` (`Filter`, `Search`, `Searched`),
`resolveName` (`Lookup`, `AskName`, `NameKnown`, `NameUnknown`), `dialTunRaw`
(`DialDirect`, `AskExit`, `ReadCode`), `proxyCommon` (`ReadAddr`, `Resolve`, `Dial`,
`ResolveForClient`) and the four loops (`Copy*`, `Refused`, `Idle`, `Stuck`), H and D
in the client, E and B in the exit, between an application and a server that write and
read, shut down their writing side and read on (`HalfClose`), or close (`Leave`), at any
time.  A length byte of more than 128 in the SOCKS5 dialogue ends the client
(`ReadRequestPanics`); all other malformed messages end the request.  A connection is a pair of queues with two ends.  A TCP
connection that is closed over unread input may lose what was under way the other way;
a tunnel is what Niaucchi3 shows it to be: all data in order, then EOF, until a Context
dies.  `consume` refuses or does not; why is ExitBilling's.  Lines of the client and of
the exit that do the same (two loops that copy, two filters of local addresses) are one
operator.  **MCProxy** has the destinations,
the table, and which destinations meet data and faults.

**Niaucchi2** is the legacy multiplexer.  What is new against Niaucchi3: a Context has
several wires (`sub`), which the client absorbs and `doProxy` hands to the exit's
Context of the session (`HandOver`, `Forget`, `ReadSubid`), so that the exit may have
more than one Context for a session, a dead one and its successor; one table of ids for
all wires; a watchdog; a parent's death that does close the wires.  A write takes its
token and sends in one step, and `Tunnel` is one step: what may come in between is
Niaucchi3's subject.  **MCNiaucchi2** says what may happen in a behaviour (`Budget`).

Wrong forms of operators (`FreeIdUnchecked`, `TimerTargetCurrent`, ...) stand beside the
right ones and are used by no action: each is a plausible bug, and `PROJECT.json`
lists the property that finds it when it takes the right one's place.

## 3. The runs

| cfg | Instance | States | What it shows |
|---|---|---|---|
| FlowControl | window 8, credit 2, marks 1..3 | 38 738 | Credits are exact while both sockets live, DATA always fits, no ICWD overflows, a closed window always has something on its way and, under fairness, opens again; a CLOS arrives. |
| Niaucchi3Streams | one tunnel, a window of two that the client fills, an answer of one segment, one fault, fairness | 151 911 | Streams are complete and in order, nothing follows a CLOS, each direction implements FlowControl; a stopped `mainThread` takes everything at both ends with it; ids come back. |
| Niaucchi3Reuse | two tunnels, two ids, no faults | 1 396 861 | With ids of their own or reused in time, streams do not mix; a Context fails only for one of the three reasons in `FailuresExplained`. |
| Niaucchi3ParentDeath | one tunnel, one fault, fairness | - | *violated*: finding 1 |
| Niaucchi3ProtocolFail | two tunnels, one id, no faults | - | *violated*: finding 2 |
| ExitBilling | two sessions, a balance of one megabyte of two bytes, three bytes asked for, one database error of any statement | 526 764 | Charges are neither lost nor made up; a session is cut for a reason; an empty balance cuts all sessions for good. |
| ExitBillingSync | one session, no errors | - | *violated*: finding 3 |
| Client | two entry nodes, two Contexts, two updates, one user, three faults, fairness | 141 105 | The client recovers, users end, timers and failed reads hit their own Context only. |
| EntryDB | shares of two, two tries, sleeps of 3 and expiry of 18 units as in the code; three nodes in two systems and a client without faults, one or two nodes and a client with one fault, or a node alone with five | 2 229 826 | A mapping is what was told, whatever uploads, late AddNodes and the police do between two queries; gone nodes disappear from list and mappings; how many missed posts a node that is up survives. |
| Proxy | nine destinations (the binder, plain names, names; addresses below, inside, at the ends of, between and above the rows, a local one), a table of four rows or none, names that resolve to one of two addresses each time; data for two of the destinations, a request of one piece and a reply of one or two; connections that hold one piece; one fault for two destinations; fairness | 372 943 | A request goes the way the rules say and reaches what it named; no address of the exit's own network is dialled; data is not mixed, and cut off only for a cause or for who has shut down its own writing side; all ends close. |
| Niaucchi2 | two wires; two tunnels on one id without faults, or one tunnel and one fault; one wire with a full window and one fault; fairness | 443 462 | Streams mix and Contexts fail only where an id is drawn while its last socket still speaks, on whatever wire; any death ends the session at both ends. |
| EntryDBConsistent | as EntryDB, everyone and no faults | - | *violated*: finding 4 |

Deadlock is not checked where a system may stop for good: a connection that is torn
down, a user whose bytes and sessions are used up, a client that has exited or waits
for a silent exit.

Why the bounds are enough:

* *FlowControl* scales 256/64/32..95 to 8/2/1..3 and keeps what matters: credits
  smaller than the window, several marks, room for two credits under way, and a
  `recvcount` that wraps from its initial zero.  The theorems remove the bound.
* *Niaucchi3*: a window of 2 is filled and reopened by the two segments of a run;
  one id more than is in use, or one less, gives both kinds of reuse; an accept
  queue of 1 is filled by the second tunnel.  A fault more or a tunnel more
  multiplies the states without a new kind of step.
* *Niaucchi2*: what two wires add is their order, and two are enough for a CLOS to be
  overtaken; a budget per kind of behaviour keeps the sum of the cases small where their
  product is not.
* *Proxy*: a reply of two pieces has one in a loop's hands and one behind it while an
  end closes, and connections of one piece make every loop wait; any user may leave or
  shut down at any time on top of the fault.  Routing and data do not meet (a stream does
  not know what its destination was), so that `Pieces` and `Faults` depend on the
  destination: long data without a fault, data of one piece with one, a name with one, and
  the other destinations with neither.  The theorems remove these bounds.
* *ExitBilling*: two sessions are what a conflict takes; megabytes of two bytes give
  a remainder to dither; three bytes overdraw a balance of one megabyte.
* *Client*: two updates can come back out of order; two Contexts let a timer be left
  over from the first while the second is up; three faults are enough for a node to
  go, a wrong list to be cached and a connection to break.
* *EntryDB*: a share of two takes nodes of two systems or of one, and two tries include a
  rejected draw that is then found as a mapping.  `Budgets` keeps the sum of the cases small
  where their product is not: what is drawn takes three nodes and no fault, what an error
  leaves behind takes one fault and two nodes, and whether a node survives depends on nothing
  but the periods, so that a lone one has the faults, one more than the four that it takes.

### Fairness

Only what the code does by itself is fair: goroutines that are ready run, wires
deliver until they are cut, HTTP calls and dials have timeouts, `time.AfterFunc`
fires, the settlement's ten seconds go by and the database answers.  In FlowControl
the reader reads (`io.Copy` in `proxyCommon` and in `doSocks`).  Nobody has to open,
write, accept or close, and no fault has to happen.  The one wait without a
deadline, the client's read of the authentication reply (`smConnEntry.go:111`), gets
no fairness: `Recovers` names it as an exception.  Nor do the two writes of the client
without a deadline, to an application that does not read or a server it dialled
itself: `AllEndsClose` excepts a client that is stuck in one for good (`Stalled`), and
the tunnel of `resolveName`, which the client never closes.

## 4. What is proved

The proofs are for every value of the constants that satisfies the assumption of the
module.

**FlowControlProofs**, from `FlowAssumption` (credits and marks are positive and the
highest mark plus a credit does not exceed the window; 95 + 64 <= 256).  The runs'
`CreditNeverLost` is an equality that holds while both sockets live and is not
inductive: after a death, tokens are dropped and credits are no longer sent.
`FlowInv` adds what survives,

* `Covered`: segments, count and credits together never exceed the tokens, and
* `CountAboveMark`: after its initial zero `recvcount` never falls below the least
  mark, so that the uint8 wraps once only, at the start.

`InitFlow` and `NextFlow` show it inductive, one step per action; the arithmetic of a
`Read` is a lemma of its own (`ReadCount`).  From it follow `FlowTypes`,
`FlowNoIcwdOverflow`, `FlowCreditNeverLost`, `FlowNoStall` and the action property
`FlowOverfull`.

**ExitBillingProofs**, from `BillingAssumption`.  `BillInv` is `NoLostCharge` (the balance
row is what it was less everything charged, clamped at zero) with what makes it
inductive: only a call under way has a transaction, and what a transaction has read is
what the row holds unless it is marked stale (`ReadIsCurrent`), so that a commit
subtracts from the current balance.  `TxEnds` says what the two ends of a transaction, with
and without an error, have in common.  `ClampOnce` says that clamping at each charge and
clamping once at the end come to the same.  From it follow `BillNoLostCharge` and
`BillTypeOK`.  `BillCutForAReason` adds `Excuses`: a session that is about to have
nothing, or has nothing right after a settlement, has one of the excuses.
`BillNeverOvercharged` needs a sum over all sessions: the megabytes that settlements
under way may still take are the elements of one finite set (`Owed`), and
`PaidOrOwed` bounds what was taken and its size together by what was due.

**EntryDBProofs**, from `EntryAssumption` (which says of the autonomous systems only that
they are none of the markers the model uses), for any sleep, expiry, share, tries, nodes,
clients, faults and budgets: all four safety properties.

* `Types` bounds the age of a row by what the police may have left standing.
* `Fresh` has three parts: after the police has run no row is overdue, and each unit in
  which it has not run allows one unit more (`Policed`); mappings hold listed nodes only
  (`MappingListed`); and a node without late AddNodes has no post under way longer than one
  unit after its end, nor a row that is younger than the node is gone, but for one unit
  (`GoneWithRow`).  `EntryGoneNodesDisappear` adds the three up.
* `Told` says what the mapping of a client may be while it is redrawn.
* `Missed`: the age of a row of a node that is up is accounted for, post by post: each
  missed post and the sleep behind it by `Sleep + 1` units (`Turns`), the one under way
  by as much as it has taken.  A row that the police takes has reached `Expiry`, so the posts
  missed in a row fill it (`EntryUpNodesStayListed`).

**ClientProofs**, from `ClientAssumption`: `ClientTypeOK`, of which the part that couples
`currTunn` to SteadyState is what the actions rely on, and the action property
`ClientKilledByItsOwnUser`: a Context that works dies only of a timer or a failed read of a
user that opened its stream on this one.

**Niaucchi3Proofs**, from `NiaucchiAssumption`, for any number of ids, tunnels and
segments.  `TypeInv` has the types, what is known of sockets, segments and table entries
of numbers that were drawn (`Known`), and the bounds that writes and channels keep.
`Steps` reduces every action to five shapes that the rest goes by: nothing moves
(`Quiet`), a socket reads (`Reads`) or sends (`Sends`), a `mainThread` takes a segment off
the wire (`Takes`), an id is reserved (`Reserves`).  On top of that, each from the last,

* `Silence`: closed sockets are dead, a CLOS is out only of a closed one, and nothing of
  that socket is behind it; this is `NiaucchiNothingAfterClos`;
* `Routing`: as long as an id is not reused too early, only its last tunnel speaks, a
  segment for the client finds the socket it was sent to, and one for the server finds
  its own or has its OPEN in front of it;
* `Streams`: what a socket has been handed is what its peer has written, from the first
  segment on, CLOS behind all of it, and what is still on the wire goes on exactly there.

`NiaucchiStreamIntegrity` follows: a socket reads what its own peer wrote, and then EOF,
whatever is closed, cut or killed, unless its id was reused too early (finding 2).

`NiaucchiFailuresExplained` needs one more layer, `CreditInv`: the window of a socket and of
the one that reads from it are one account, and it is never overdrawn (`Covered`).  `Put`
is what the writer has put into its window beyond what it has sent; `Due` is what the
reader has not yet given back of the segments it has not returned; every ICWD on the
wire is worth `Count`.  ICWDs times `Count` and `Due` together are at most `Put`.  DATA on
the wire need not be counted, for `Streams` numbers it.  A step leaves the account
as it is (`Solvent`), moves `Count` from the reader to the wire (`Credited`) or from the
wire to the writer (`Cashed`).  Whoever takes an ICWD therefore finds room for its tokens,
and whoever takes DATA finds its channel not full; `Routing` has shown that both find the
socket they are meant for.  What is left are the causes that the property lists.

**Niaucchi3FlowProofs**, from `NiaucchiAssumption` and `Tunnels = 1`: a stream of the
multiplexer implements FlowControl, `NiaucchiUploadImplementsFlow` and
`NiaucchiDownloadImplementsFlow`, for every window, credit and amount of data.  One tunnel
is what the refinement can be stated for: where there are two, one of them can fail the
Context for reasons that the flow control of the other knows nothing of.  The mapping
counts segments of a flag where FlowControl has counters, so the proof starts from what
appending to a queue and taking its head do to such a count (`CarriedAppend`,
`CarriedTail`).  Then it goes through the shapes of `Steps`, for both streams at once: what
is a step of the writer in one is a step of the reader in the other, and each is a step of
`Flow(e)` or none (`NextFlows`).  FlowControl lets nobody overflow that the account of
`CreditInv` has not covered, so that an ICWD always finds room (`IcwdServed`), and DATA does
(`SegmentServed`).  The invariant is `LoneInv`: `CreditInv`, the id is never crossed,
OPEN is the client's first segment and finds the accept queue empty (`Opening`), a
`mainThread` that has failed takes nothing more (`FailedStops`), and whoever has been handed
CLOS has none to come (`ClosOnce`), without which the mapping would not know where the CLOS
is.

**Niaucchi2Proofs**, from `Niaucchi2Assumption`, for any number of wires, ids, tunnels and
segments: `Niaucchi2TypeOK`, along the same `TypeInv` and `Steps`, to which the hand-over of
a wire adds what is known of wires that no Context has been given, and of Contexts that
have none.  `Silence` and `Streams` are as in Niaucchi3, per wire.  `Routing` is not: wires
overtake each other, so the proof goes tunnel by tunnel, for the pairs of the same id of
which at least one is not in `crossed` (`Apart`).  Of such a pair

* the older is closed at the client when the younger is drawn, and what it has said is on
  the younger's own wire, before the younger has reached the exit (`LastSpeaks`);
* its segments come before those of the younger where both are on one wire (`InOrder`);
* the table of a Context at the exit does not hold the older when the younger has reached
  that Context (`RoutedUp`).

With the client's table, which holds every tunnel that the exit still answers
(`RoutedDown`), and OPEN in front of all else (`OpenFirst`), a segment finds its own
tunnel, and one of a crossed tunnel finds none that is not (`Routed`, `NotAstray`).
`Niaucchi2StreamIntegrity` follows.  `Niaucchi2FailuresExplained` adds `CreditInv`: the
account of Niaucchi3, kept on the wire of the tunnel (`Covered`).  A step on one wire does
not touch the accounts of the tunnels on the others, and an ICWD is cashed by the socket
whose ICWDs were counted because `Routed` and `NotAstray` say so.

At the head of **ProxyProofs**, from `GeoAssumption` (rows ascend and do not overlap, and
there is at least one), stand the theorems about GeoDB.  The loop has no test for its end
but `lo == mid || mid == hi`, so the invariant has to say what the bounds mean:
`0 <= lo < hi <= len`, and every row that holds the address is between them.
`GeoCountryIsRight` follows, for tables of any length and every address; `GeoNarrows` says
that a probe without an answer makes `hi - lo` smaller.

**ProxyProofs**, from `ProxyAssumption` and `GeoAssumption`, for any tables, destinations,
capacities, amounts of data and numbers of faults.  The effect of every action on the
connections is one of four summaries (`Moves`, `Closes`, `Opens`, `Loops`).  Four
layers follow, each proved from the one before:

* `ControlInv`: which phase the client and the exit are in, what has been checked and
  decided by then; it carries the invariant of GeoDB through the steps of the request,
  and yields `ProxyLocalStaysLocal` and `ProxyCountryIsRight`;
* `Shape`: what the queues may hold in each phase, of greetings, names, codes and data;
  with it a yes can be traced to the dial that caused it, which is `ProxyRoutedRight`;
* `Flow`: there is a number for each channel of the way at which its pieces start, such that
  the pieces in the channel follow it one by one (`Chains`), a user has read up to it
  (`Hears`), a loop has the piece in its hands that comes between its two channels
  (`Links`), and what a user writes goes on where the channel ends (`Speaks`), all as long as
  it is not lost on a connection whose reader has gone.  `ProxyFaithful` follows;
* `CauseInv`: who has closed what, and what was left then.  A program closes an end only
  when one of its loops has stopped, or its part of the request is over (`Doors`).  As long
  as nothing is in `causes`: what a user has written is in a channel, in a loop's hands or
  read, unless the other user has left (`Kept`); a loop has stopped only if, for it or the
  other loop of its program, nothing was left to copy and nothing more to come (`Hops`); and
  who has seen the end, and has not shut down its own writing side, has read all (`Whole`).  `Hops` is what carries the argument from hop
  to hop: the loop that finds its connection closed under its hands finds it closed by the
  other loop, which was `Drained`, or by the program at the other side, whose loops were.
  Since a drained loop's speaker is mute, a piece that the first one drops is one nobody
  listens to.  `ProxyCutForACause` follows.

TLC checked `Shape`, `Flow`, `Covered` and `Lone` on the instances of section 3 before they
were proved.

Only model-checked:

* the liveness properties (`WindowReopens`, `CloseArrives`, `TeardownCompletes`, `IdsReturn`,
  `SessionDies`, `AllEndsClose`, `ExhaustedIsCut`, `Recovers`, `UsersEnd`), which are out of
  the provers' reach.

## 5. Findings

1. **A Context killed from outside keeps its connection.**  `Context.go:129` says "If our
   parent dies, so do we!", but the goroutine waits for the subCtx's own death only.
   The wire, `mainThread` and the keepalives of a Context that `dialTunRaw` has killed
   live on, and so does its session at the exit.  niaucchi2 selects on both deaths.
2. **Honest ends meet ErrProtocolFail.**  `mainThread` frees an id on the peer's CLOS,
   although its own user has not closed.  `Tunnel` may draw the id again; the late
   `Close` of the old socket then closes the new one at the peer, and the new one's next
   segment is a stray that kills every tunnel of the Context.  The same reuse lets bytes
   of one tunnel reach another.  With 65536 ids drawn at random it is rare.
   `FailuresExplained` shows what other causes there are: a full accept queue and a CLOS
   behind 256 segments of which none has been read.
3. **Bytes consumed during a settlement are forgotten.**  `lbal` is set to zero, and `bal`
   to what the database said, after a wait in which streams have gone on; the comments
   speak of a sync.
4. **Clients are not told the same entry nodes twice.**  "insert or replace into clients"
   deletes the client's row and, by cascade, its mapping, before the code looks for the
   mapping it means to reuse.

Contradicted by what the repository says, but shown by no run:

* **Names are never exempt from the proxy.**  The flag `-whitelist` takes "countries to not
  proxy" (`client/Command.go:111`).  `filterDest` resolves a name, then looks at the length
  of `ip`, which is still zero, instead of the result (`filterDest.go:47`): a name goes by
  tunnel whatever its country, and has been looked up for nothing.  `Bypasses` says what the
  flag promises, of names too; `RoutedRight`, which holds, demands it of destinations given
  by address, and leaves out names because they break it.
* **Nothing in the client looks at the age of its cache**, whereas `smFindEntry.go:9-10` has a
  stale cache go back to the binder.  An update is started in the background instead; an entry
  that leads nowhere is tried again in each race until an update has replaced it.  In Client
  entries have no age, and are stale when their node has gone.

Noticed and modelled, with no document that speaks of it:

* **A half-close cuts the reply.**  A user who shuts down its writing side and reads on gives
  a loop the end of its input, on which both connections are closed, in the client
  (`smSteadyState.go:124-129`) as at the exit (`proxyCommon.go:122-126`).  `CutForACause` says
  that nobody else loses anything.
* **A length over 128 ends the client.**  The greeting and the host name of SOCKS5 may announce
  up to 255 bytes, and the buffer has 128 (`socks5.go:30,39,71`): the slice panics, nothing
  recovers, and every stream of the client goes.
* **Four missed posts, not six, cost a node its row.**  A post may take ten seconds on top of
  the thirty between two, so that five periods fill the three minutes of `entryDB.go:47`.
* A legacy session believes in a charge whose commit failed; a session that ends loses its
  unsettled bytes; every session may spend the whole balance until its next settlement; a
  legacy account that has been upgraded can go on spending its old row; a charge whose commit
  took effect but was not answered cuts the session all the same.
* A lookup of an ASN that failed sticks; `GetNodes` finds the mapping it has just rejected
  in each of its remaining tries, and ignores errors after which a mapping is left half
  written.
* A stream that the exit closes before its answer takes down the Context with all streams
  (`smSteadyState.go:81`).
* `resolveName` closes its tunnel only after an error.
* A download is cut off after fifteen minutes in which the application sends nothing, because
  the other direction's read of the tunnel times out (`socket.go:183`).
* A wire that `Absorb` gives back to `doProxy` is not closed, and its other end waits for the
  watchdog (`doProxy.go:108`).
* In niaucchi2 an OPEN on one wire can overtake the CLOS of the id's last tunnel on another
  even if both users have closed, which is the second disjunct of `Speaks` in `Tunnel`: without
  it `FailuresExplained` does not hold.

## 6. Plan

The modules exist, in the order in which they were written: FlowControl, Niaucchi3,
Niaucchi3Flow, ExitBilling, Client, EntryDB, GeoDB, Proxy, Niaucchi2; all have proofs.
Every safety and action property that a run checks, and both refinements, are theorems.
Of the code that is left (section 7) registration and the upgrade of accounts, and the
processes of the entry node, have state worth a module.

## 7. Not modelled

* Payload, padding, the split of writes into pieces of 8192 bytes, and encryption: no
  property is about them.
* Deadlines on the wire.  A short write sets an absolute write deadline
  (`socket.go:120`) that nothing renews; what comes of it depends on how the
  encrypting layer passes deadlines on, and is a wire failure like any other here.
* The spin of `Tunnel` over a full table, with the lock held that would empty it.
* The rate limiter (it delays), statistics, the HTTP front ends and the DNS server of the
  client (each query is one `resolveName`), the speed test, signatures and the hash of a client's address.
* Addresses of entry nodes that change or collide: a cookie has one address.  Every listener
  draws a new cookie, so that a node that starts is new to the exit (`Start`).
* How long a query of SQLite takes: no unit of time begins within a transaction of `GetNodes`.
* Pings of niaucchi2, which only its test sends.
* An empty country table, over which the first probe of `GetCountry` panics; `GeoAssumption`
  excludes it.
* The binder: registration is one serializable transaction, the other handlers only read;
  proxbinder, flags and key derivation have no state, or none that outlives a request.
* `authUser`: a login reads one row; the upgrade of a legacy account copies its balance in
  one serializable transaction and leaves the old row (section 5).
* The entry node beyond its uploads: `doForward` copies like the loops of Proxy, and the
  uploaders' shared variable `resp` is a data race that any schedule shows.
