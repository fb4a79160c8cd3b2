------------------------------- MODULE Proxy -------------------------------
(* One request of an application, from its SOCKS5 greeting to the last      *)
(* Close: doSocks, dialTunRaw and filterDest in the client, proxyCommon at  *)
(* the exit, and the four loops that copy.                                  *)
(*                                                                          *)
(*    application --app-- client --tun-- exit --srv-- server                *)
(*                                                                          *)
(* Left is the application's side.  A request that is not proxied has       *)
(* client --srv-- server; "dns" is the tunnel of resolveName.  A tunnel is  *)
(* what Niaucchi3 shows it to be: all that was written, in order, then EOF; *)
(* after its own Close or the death of its Context an end reads no more.    *)
EXTENDS GeoDB, FiniteSets

CONSTANTS
    Dests,          \* what an application may ask for: [form, ip]
    Local,          \* the addresses of cidrBlacklist
    Whitelist,      \* cmd.whitegeo
    Addrs,          \* addresses a name may resolve to
    Pieces,         \* Pieces[d][u]: reads' worth of data user u writes if d is asked for
    Cap,            \* pieces a connection holds before a write blocks
    Faults          \* Faults[d]: faults of a behaviour in which d is asked for

Form == {"binder", "plain", "name", "ip"}   \* plain: no dot, or .lan and .local
User == {"app", "srv"}
Tunnel == {"dns", "tun"}
Conn == User \cup Tunnel
Side == {"left", "right"}
Copier == {"H", "D", "E", "B"}

ASSUME ProxyAssumption ==
    /\ Dests \subseteq [form : Form, ip : Nat] /\ Addrs \subseteq Nat
    /\ Pieces \in [Dests -> [User -> Nat]] /\ Faults \in [Dests -> Nat]
    /\ Cap \in Nat \ {0}

VARIABLES
    dest, geodb,    \* the request; geodbloc is set
    conn,           \* conn[c]: the queues up and down, and which ends are open
    wire, dead,     \* the wire under the tunnels; dead[s]: the Context at side s
    h, far,         \* doSocks; the connection it copies to
    cached,         \* what dnsCache has for the name, or NoAddr
    x, addr,        \* x[t]: proxyCommon on tunnel t; the address it resolved
    copier,         \* copier[k]: a copying loop, and the piece in its hands
    app, code,      \* the application and the answer it got
    hushed,         \* users who have shut down their writing side and read on
    sent, got,      \* sent[u]: pieces written; got[u]: pieces read, then 0 for EOF
    causes,         \* why data may be missing
    faults          \* faults left to happen

request == <<dest, geodb, slice, ipint>>
search == <<lo, hi, ctry>>
client == <<h, far, cached, search>>
exit == <<x, addr>>
user == <<app, code, hushed, sent, got>>
world == <<wire, faults>>
vars == <<request, conn, client, exit, copier, user, world, dead, causes>>

-----------------------------------------------------------------------------
(* Connections *)

NoAddr == -1
NewConn == [up |-> <<>>, down |-> <<>>, left |-> FALSE, right |-> FALSE]
OpenConn == [NewConn EXCEPT !.left = TRUE, !.right = TRUE]

\* A channel is a connection and a direction.
Up(c) == <<c, "up">>
Down(c) == <<c, "down">>
Mouth(u) == IF u = "app" THEN Up("app") ELSE Down("srv")
Ear(u) == IF u = "app" THEN Down("app") ELSE Up("srv")
Writer(ch) == IF ch[2] = "up" THEN "left" ELSE "right"
Reader(ch) == IF ch[2] = "up" THEN "right" ELSE "left"
Queue(ch) == conn[ch[1]][ch[2]]
First(ch) == Head(Queue(ch))

\* An end can be used: not closed, and its Context lives.
Usable(c, s) == conn[c][s] /\ ~(c \in Tunnel /\ dead[s])

\* Wrong forms of Ended and Full; no action uses one.
EndedWithLast(ch) == Len(Queue(ch)) <= 1 /\ ~conn[ch[1]][Writer(ch)]
FullNever(ch) == FALSE

Ready(ch) == Usable(ch[1], Reader(ch)) /\ Queue(ch) # <<>>
Ended(ch) ==
    \/ ~Usable(ch[1], Reader(ch))
    \/ Queue(ch) = <<>> /\ (~conn[ch[1]][Writer(ch)] \/ \E u \in hushed : ch = Mouth(u))
Full(ch) == Len(Queue(ch)) >= Cap
Taken(ch) == [conn EXCEPT ![ch[1]][ch[2]] = Tail(@)]

\* What is written towards a closed end, or to a broken wire, is lost.
Arrives(ch) ==
    /\ Usable(ch[1], Writer(ch)) /\ conn[ch[1]][Reader(ch)]
    /\ ch[1] \in Tunnel => wire
Put(cn, ch, item) == IF Arrives(ch) THEN [cn EXCEPT ![ch[1]][ch[2]] = Append(@, item)] ELSE cn

Shut(cn, ends) == [c \in Conn |->
    [cn[c] EXCEPT !.left = @ /\ <<c, "left">> \notin ends,
                  !.right = @ /\ <<c, "right">> \notin ends]]

\* Closing a TCP end over unread input resets the connection, which may cost
\* what that end has written and nobody has read yet.
Resets(ends) == {ch \in User \X {"up", "down"} :
    /\ <<ch[1], Writer(ch)>> \in ends /\ conn[ch[1]][Writer(ch)]
    /\ Queue(Up(ch[1])) # <<>> /\ Queue(Down(ch[1])) # <<>>}

CloseEnds(ends, why) ==
    \E lost \in SUBSET Resets(ends) :
      LET cut == [c \in Conn |-> [conn[c] EXCEPT
                    !.up = IF Up(c) \in lost THEN <<>> ELSE @,
                    !.down = IF Down(c) \in lost THEN <<>> ELSE @]]
      IN  /\ conn' = Shut(cut, ends)
          /\ causes' = causes \cup why \cup (IF lost = {} THEN {} ELSE {"late"})

Init ==
    /\ dest \in Dests /\ geodb \in BOOLEAN
    /\ GeoInit(dest.ip) /\ (~geodb => slice = CHOOSE t \in Tables : TRUE)
    /\ cached \in {NoAddr} \cup IF dest.form = "name" /\ geodb THEN Addrs ELSE {}
    /\ conn = [c \in Conn |-> IF c = "app" THEN OpenConn ELSE NewConn]
    /\ wire = TRUE /\ dead = [s \in Side |-> FALSE]
    /\ h = "greet" /\ far = "app"
    /\ x = [t \in Tunnel |-> "off"] /\ addr = 0
    /\ copier = [k \in Copier |-> [pc |-> "off", piece |-> 0]]
    /\ app = "greet" /\ code = -1 /\ hushed = {}
    /\ sent = [u \in User |-> 0] /\ got = [u \in User |-> <<>>]
    /\ causes = {} /\ faults = Faults[dest]

\* Wrong forms of operators below; no action uses one.
DialedByName(a) == IF dest.form = "ip" THEN {a} ELSE Addrs
EndsOfOwnSide(k) == {<<IF k \in {"H", "D"} THEN "app" ELSE "tun", "right">>}
LanIsName(d) == d.form = "name"
WritesAgain(k) == copier

RunningOn(k) == [copier EXCEPT ![k] = [pc |-> "read", piece |-> 0]]
Dialed(a) == {a}        \* the address that was checked, not the name again
Plain(d) == d.form = "plain"
IsBlack(a) == a \in Local   \* the client's loop and isBlack of the exit alike

-----------------------------------------------------------------------------
(* ReadRequest *)

\* Greeting and request; either may be malformed, or the application gone.
ReadGreeting ==
    /\ h = "greet" /\ Ready(Up("app"))
    /\ First(Up("app"))[1] = "hello"
    /\ h' = "connect"
    /\ conn' = Put(Taken(Up("app")), Down("app"), <<"method", 0>>)
    /\ UNCHANGED <<request, far, cached, search, exit, copier, user, world, dead, causes>>

ReadConnect ==
    /\ h = "connect" /\ Ready(Up("app"))
    /\ First(Up("app"))[1] = "connect"
    /\ h' = "filter"
    /\ conn' = Taken(Up("app"))
    /\ UNCHANGED <<request, far, cached, search, exit, copier, user, world, dead, causes>>

ReadRequestFails ==
    /\ h \in {"greet", "connect"}
    /\ \/ Ended(Up("app"))
       \/ Ready(Up("app")) /\ First(Up("app"))[1] = "junk"
    /\ h' = "over"
    /\ CloseEnds({<<"app", "right">>}, {})
    /\ UNCHANGED <<request, far, cached, search, exit, copier, user, world, dead>>

\* A length of more than the 128 bytes of scratch is sliced all the same: a
\* panic that nobody recovers takes the client down with its Context.
ReadRequestPanics ==
    /\ h \in {"greet", "connect"} /\ Ready(Up("app"))
    /\ First(Up("app"))[1] = "long"
    /\ h' = "over" /\ dead' = [dead EXCEPT !["left"] = TRUE]
    /\ CloseEnds({<<"app", "right">>}, {})
    /\ UNCHANGED <<request, far, cached, search, exit, copier, user, world>>

-----------------------------------------------------------------------------
(* filterDest and resolveName *)

deciding == <<request, far, exit, copier, user, world, causes>>

Filter ==
    /\ h = "filter"
    /\ \/ dest.form = "binder" /\ h' = "tunnel"
       \/ Plain(dest) /\ h' = "direct"
       \/ dest.form \notin {"binder", "ip"} /\ ~Plain(dest)
            /\ h' = IF geodb THEN "lookup" ELSE "tunnel"
       \/ dest.form = "ip" /\ IsBlack(dest.ip) /\ h' = "direct"
       \/ dest.form = "ip" /\ ~IsBlack(dest.ip)
            /\ h' = IF geodb THEN "search" ELSE "tunnel"
    /\ UNCHANGED <<conn, dead, cached, search, deciding>>

Search ==
    /\ h = "search" /\ Probe
    /\ UNCHANGED <<h, conn, dead, cached, deciding>>

\* The country decides.
Searched ==
    /\ h = "search" /\ ctry # "none"
    /\ h' = IF ctry \in Whitelist THEN "direct" ELSE "tunnel"
    /\ UNCHANGED <<conn, dead, cached, search, deciding>>

\* resolveName: from the cache, or through a tunnel of its own if there is one
\* to be had.  Its result is not looked at: a name always goes by tunnel.
Lookup ==
    /\ h = "lookup"
    /\ cached # NoAddr \/ dead["left"] \/ ~wire
    /\ h' = "tunnel"
    /\ UNCHANGED <<conn, dead, cached, search, deciding>>

AskName ==
    /\ h = "lookup" /\ cached = NoAddr
    /\ h' = "dns"
    /\ conn' = [conn EXCEPT !["dns"] =
                  IF wire /\ ~dead["left"] THEN [OpenConn EXCEPT !.up = <<<<"name", 0>>>>]
                  ELSE OpenConn]
    /\ x' = [x EXCEPT !["dns"] = "addr"]
    /\ UNCHANGED <<request, far, cached, search, addr, copier, user, world, dead, causes>>

\* The tunnel is closed only when reading from it has failed.
NameKnown ==
    /\ h = "dns" /\ Ready(Down("dns"))
    /\ h' = "tunnel" /\ cached' \in Addrs
    /\ conn' = Taken(Down("dns"))
    /\ UNCHANGED <<dead, search, deciding>>

NameUnknown ==
    /\ h = "dns" /\ Ended(Down("dns"))
    /\ h' = "tunnel"
    /\ conn' = Shut(conn, {<<"dns", "left">>})
    /\ UNCHANGED <<dead, cached, search, deciding>>

-----------------------------------------------------------------------------
(* dialTunRaw, and doSocks up to its two loops *)

RunningBoth(j, k) == [copier EXCEPT ![j].pc = "read", ![k].pc = "read"]

\* CompleteRequest, and the loops or the deferred Closes
Answer(cn, c) == Put(cn, Down("app"), <<"code", c>>)
Refuse(cn, c) == Shut(Answer(cn, c), {<<"app", "right">>})

DialDirect ==
    /\ h = "direct"
    /\ \/ /\ far' = "srv" /\ h' = "copy"
          /\ addr' \in IF dest.form = "ip" THEN {dest.ip} ELSE Addrs
          /\ conn' = Answer([conn EXCEPT !["srv"] = OpenConn], 0)
          /\ copier' = RunningBoth("H", "D")
       \/ /\ h' = "over" /\ conn' = Refuse(conn, 3)
          /\ UNCHANGED <<far, addr, copier>>
    /\ UNCHANGED <<request, cached, search, x, user, world, dead, causes>>

\* A tunnel, and the destination into it
AskExit ==
    /\ h = "tunnel"
    /\ h' = "code" /\ far' = "tun"
    /\ conn' = [conn EXCEPT !["tun"] =
                  IF wire /\ ~dead["left"] THEN [OpenConn EXCEPT !.up = <<<<"dest", 0>>>>]
                  ELSE OpenConn]
    /\ x' = [x EXCEPT !["tun"] = "addr"]
    /\ UNCHANGED <<request, cached, search, addr, copier, user, world, dead, causes>>

\* currTunn is nil, or Tunnel fails and the Context is killed for it.
NoTunnel ==
    /\ h = "tunnel" /\ (dead["left"] \/ ~wire)
    /\ h' = "over" /\ conn' = Refuse(conn, 3)
    /\ dead' = [dead EXCEPT !["left"] = TRUE]
    /\ UNCHANGED <<request, far, cached, search, exit, copier, user, world, causes>>

ReadCode ==
    /\ h = "code" /\ Ready(Down("tun"))
    /\ LET c == First(Down("tun"))[2]
       IN  IF c = 0
             THEN /\ h' = "copy" /\ copier' = RunningBoth("H", "D")
                  /\ conn' = Answer(Taken(Down("tun")), c)
             ELSE /\ h' = "over" /\ UNCHANGED copier
                  /\ conn' = Shut(Refuse(Taken(Down("tun")), c), {<<"tun", "left">>})
    /\ UNCHANGED <<request, far, cached, search, exit, user, world, dead, causes>>

ReadCodeFails ==
    /\ h = "code" /\ Ended(Down("tun"))
    /\ h' = "over"
    /\ conn' = Shut(Refuse(conn, 3), {<<"tun", "left">>})
    /\ dead' = [dead EXCEPT !["left"] = TRUE]
    /\ UNCHANGED <<request, far, cached, search, exit, copier, user, world, causes>>

\* Fifteen seconds without an answer
TimerFires ==
    /\ h \in {"dns", "code"} /\ ~dead["left"]
    /\ dead' = [dead EXCEPT !["left"] = TRUE]
    /\ causes' = causes \cup {"context"}
    /\ UNCHANGED <<request, conn, client, exit, copier, user, world>>

-----------------------------------------------------------------------------
(* proxyCommon *)

exiting == <<request, client, user, world, dead, causes>>
tunEnd(t) == {<<t, "right">>}

\* A name to look up: an answer or none, and the end
ResolveForClient ==
    /\ x["dns"] = "addr" /\ Ready(Up("dns"))
    /\ x' = [x EXCEPT !["dns"] = "over"]
    /\ conn' \in {Shut(Put(Taken(Up("dns")), Down("dns"), <<"addrs", 0>>), tunEnd("dns")),
                  Shut(Taken(Up("dns")), tunEnd("dns"))}
    /\ UNCHANGED <<addr, copier, exiting>>

ReadAddr ==
    /\ x["tun"] = "addr" /\ Ready(Up("tun"))
    /\ x' = [x EXCEPT !["tun"] = "resolve"]
    /\ conn' = Taken(Up("tun"))
    /\ UNCHANGED <<addr, copier, exiting>>

ReadAddrFails(t) ==
    /\ x[t] = "addr" /\ Ended(Up(t))
    /\ x' = [x EXCEPT ![t] = "over"]
    /\ conn' = Shut(conn, tunEnd(t))
    /\ UNCHANGED <<addr, copier, exiting>>

ExitRefuses(c) ==
    /\ x' = [x EXCEPT !["tun"] = "over"]
    /\ conn' = Shut(Put(conn, Down("tun"), <<"code", c>>), tunEnd("tun"))
    /\ UNCHANGED <<copier, exiting>>

Resolve ==
    /\ x["tun"] = "resolve"
    /\ \/ dest.form # "ip" /\ UNCHANGED addr /\ ExitRefuses(4)
       \/ /\ addr' \in IF dest.form = "ip" THEN {dest.ip} ELSE Addrs
          /\ \/ IsBlack(addr') /\ ExitRefuses(2)
             \/ /\ ~IsBlack(addr')
                /\ x' = [x EXCEPT !["tun"] = "dial"]
                /\ UNCHANGED <<conn, copier, exiting>>

Dial ==
    /\ x["tun"] = "dial"
    /\ \/ UNCHANGED addr /\ ExitRefuses(5)
       \/ /\ addr' \in Dialed(addr)
          /\ x' = [x EXCEPT !["tun"] = "copy"]
          /\ conn' = Put([conn EXCEPT !["srv"] = OpenConn], Down("tun"), <<"code", 0>>)
          /\ copier' = RunningBoth("E", "B")
          /\ UNCHANGED exiting

-----------------------------------------------------------------------------
(* The loops: H and D are the client's, E and B the exit's *)

In(k) == CASE k = "H" -> Up("app") [] k = "D" -> Down(far)
           [] k = "E" -> Up("tun") [] k = "B" -> Down("srv")
OutOf(k) == CASE k = "H" -> Up(far) [] k = "D" -> Down("app")
              [] k = "E" -> Up("srv") [] k = "B" -> Down("tun")

\* What the deferred Closes of a loop close, of which order nothing depends
Ends(k) == IF k \in {"H", "D"} THEN {<<"app", "right">>, <<far, "left">>}
           ELSE {<<"tun", "right">>, <<"srv", "left">>}

copying == <<request, client, exit, user, wire, dead>>

Stop(k, why) ==
    /\ copier' = [copier EXCEPT ![k] = [pc |-> "done", piece |-> 0]]
    /\ CloseEnds(Ends(k), why)

CopyRead(k) ==
    /\ copier[k].pc = "read" /\ Ready(In(k))
    /\ copier' = [copier EXCEPT ![k] = [pc |-> "write", piece |-> First(In(k))[2]]]
    /\ conn' = Taken(In(k))
    /\ UNCHANGED <<copying, causes, faults>>

CopyEnds(k) ==
    /\ copier[k].pc = "read" /\ Ended(In(k))
    /\ Stop(k, {})
    /\ UNCHANGED <<copying, faults>>

CopyWrite(k) ==
    /\ copier[k].pc = "write"
    /\ Arrives(OutOf(k)) /\ ~Full(OutOf(k))
    /\ conn' = Put(conn, OutOf(k), <<"data", copier[k].piece>>)
    /\ copier' = RunningOn(k)
    /\ UNCHANGED <<copying, causes, faults>>

\* The piece is lost: nobody reads it, and TCP may say so.
CopyLost(k) ==
    /\ copier[k].pc = "write"
    /\ Usable(OutOf(k)[1], Writer(OutOf(k))) /\ ~Arrives(OutOf(k))
    /\ \/ copier' = RunningOn(k) /\ causes' = causes \cup {"late"} /\ UNCHANGED conn
       \/ OutOf(k)[1] \in User /\ Stop(k, {"late"})
    /\ UNCHANGED <<copying, faults>>

\* Another loop has closed the connection, or its Context is dead.
CopyFails(k) ==
    /\ copier[k].pc = "write"
    /\ ~Usable(OutOf(k)[1], Writer(OutOf(k)))
    /\ Stop(k, {})
    /\ UNCHANGED <<copying, faults>>

\* The exit consumes a piece before it writes it; a balance used up ends both
\* directions.
Refused(k) ==
    /\ k \in {"E", "B"} /\ faults > 0 /\ copier[k].pc = "write"
    /\ Stop(k, {"refused"})
    /\ faults' = faults - 1
    /\ UNCHANGED copying

\* Reading from a tunnel fails after fifteen minutes without data, from the
\* server after thirty; the application, and a server dialled by the client,
\* may take their time.
Idle(k) ==
    /\ faults > 0 /\ copier[k].pc = "read"
    /\ k = "B" \/ In(k)[1] = "tun"
    /\ Queue(In(k)) = <<>> /\ ~Ended(In(k))
    /\ Stop(k, {"idle"})
    /\ faults' = faults - 1
    /\ UNCHANGED copying

\* Writing likewise
Stuck(k) ==
    /\ copier[k].pc = "write"
    /\ k = "E" \/ OutOf(k)[1] = "tun"
    /\ Arrives(OutOf(k)) /\ Full(OutOf(k))
    /\ Stop(k, {"idle"})
    /\ UNCHANGED <<copying, faults>>

-----------------------------------------------------------------------------
(* The application, the server, the wire *)

Greet ==
    /\ app = "greet" /\ conn["app"].left /\ "app" \notin hushed
    /\ \E item \in {"hello", "junk", "long"} : conn' = Put(conn, Up("app"), <<item, 0>>)
    /\ app' = "method"
    /\ UNCHANGED <<request, client, exit, copier, code, hushed, sent, got, world, dead, causes>>

Request ==
    /\ app = "method" /\ Ready(Down("app")) /\ "app" \notin hushed
    /\ \E item \in {"connect", "junk", "long"} :
         conn' = Put(Taken(Down("app")), Up("app"), <<item, 0>>)
    /\ app' = "code"
    /\ UNCHANGED <<request, client, exit, copier, code, hushed, sent, got, world, dead, causes>>

Answered ==
    /\ app = "code" /\ Ready(Down("app"))
    /\ code' = First(Down("app"))[2]
    /\ app' = IF code' = 0 THEN "talk" ELSE "told"
    /\ conn' = Taken(Down("app"))
    /\ UNCHANGED <<request, client, exit, copier, hushed, sent, got, world, dead, causes>>

\* The two users of a connection are alike once it is there.
Other(u) == IF u = "app" THEN "srv" ELSE "app"
Talking(u) == conn[u][Writer(Mouth(u))] /\ (u = "app" => app = "talk")

talkOnly == <<request, client, exit, copier, app, code, hushed, world, dead>>

Write(u) ==
    /\ Talking(u) /\ u \notin hushed /\ sent[u] < Pieces[dest][u]
    /\ Arrives(Mouth(u)) /\ ~Full(Mouth(u))
    /\ conn' = Put(conn, Mouth(u), <<"data", sent[u] + 1>>)
    /\ sent' = [sent EXCEPT ![u] = @ + 1]
    /\ UNCHANGED <<talkOnly, got, causes>>

Read(u) ==
    /\ Talking(u) /\ Ready(Ear(u))
    /\ got' = [got EXCEPT ![u] = Append(@, First(Ear(u))[2])]
    /\ conn' = Taken(Ear(u))
    /\ UNCHANGED <<talkOnly, sent, causes>>

SawEnd(u) == got[u] # <<>> /\ got[u][Len(got[u])] = 0

ReadEnd(u) ==
    /\ Talking(u) /\ Ended(Ear(u)) /\ ~SawEnd(u)
    /\ got' = [got EXCEPT ![u] = Append(@, 0)]
    /\ UNCHANGED <<conn, talkOnly, sent, causes>>

\* At any time, the application in the middle of its request too
Leave(u) ==
    /\ conn[u][Writer(Mouth(u))]
    /\ CloseEnds({<<u, Writer(Mouth(u))>>}, {})
    /\ UNCHANGED <<talkOnly, sent, got>>

\* A user shuts down its writing side and reads on: a loop that meets the end
\* of one direction closes both.
HalfClose(u) ==
    /\ conn[u][Writer(Mouth(u))] /\ u \notin hushed
    /\ hushed' = hushed \cup {u}
    /\ UNCHANGED <<request, conn, client, exit, copier, app, code, sent, got, world, dead, causes>>

WireBreaks ==
    /\ faults > 0 /\ wire
    /\ wire' = FALSE /\ causes' = causes \cup {"context"} /\ faults' = faults - 1
    /\ UNCHANGED <<request, conn, client, exit, copier, user, dead>>

\* The Context at one side dies of the broken wire.
Notice(s) ==
    /\ ~wire /\ ~dead[s]
    /\ dead' = [dead EXCEPT ![s] = TRUE]
    /\ UNCHANGED <<request, conn, client, exit, copier, user, world, causes>>

\* The timer of another request
Killed ==
    /\ faults > 0 /\ ~dead["left"]
    /\ dead' = [dead EXCEPT !["left"] = TRUE]
    /\ causes' = causes \cup {"context"} /\ faults' = faults - 1
    /\ UNCHANGED <<request, conn, client, exit, copier, user, wire>>

-----------------------------------------------------------------------------
Client ==
    \/ ReadGreeting \/ ReadConnect \/ ReadRequestFails \/ ReadRequestPanics
    \/ Filter \/ Search \/ Searched \/ Lookup \/ AskName \/ NameKnown \/ NameUnknown
    \/ DialDirect \/ AskExit \/ NoTunnel \/ ReadCode \/ ReadCodeFails \/ TimerFires
Exit ==
    \/ ResolveForClient \/ ReadAddr \/ Resolve \/ Dial
    \/ \E t \in Tunnel : ReadAddrFails(t)
Copies(k) == CopyRead(k) \/ CopyEnds(k) \/ CopyWrite(k) \/ CopyLost(k) \/ CopyFails(k) \/ Stuck(k)

Next ==
    \/ Client \/ Exit
    \/ \E k \in Copier : Copies(k) \/ Refused(k) \/ Idle(k)
    \/ Greet \/ Request \/ Answered
    \/ \E u \in User : Write(u) \/ Read(u) \/ ReadEnd(u) \/ Leave(u) \/ HalfClose(u)
    \/ WireBreaks \/ Killed
    \/ \E s \in Side : Notice(s)

Spec == Init /\ [][Next]_vars

\* Both programs run, their deadlines come, resolvers and dials time out.
\* Application and server have no duties.
FairSpec ==
    /\ Spec
    /\ WF_vars(Client) /\ WF_vars(Exit)
    /\ \A k \in Copier : WF_vars(Copies(k))
    /\ \A s \in Side : WF_vars(Notice(s))

-----------------------------------------------------------------------------
(* Properties *)

Items(q) == \A k \in DOMAIN q :
    q[k][1] \in {"hello", "connect", "junk", "long", "method", "code", "name", "addrs", "dest", "data"}

TypeOK ==
    /\ dest \in Dests /\ geodb \in BOOLEAN /\ cached \in Addrs \cup {NoAddr} /\ wire \in BOOLEAN
    /\ \A c \in Conn : /\ Items(conn[c].up) /\ Items(conn[c].down)
                       /\ Len(conn[c].up) <= Cap /\ Len(conn[c].down) <= Cap + 1
    /\ h \in {"greet", "connect", "filter", "search", "lookup", "dns", "direct", "tunnel",
              "code", "copy", "over"}
    /\ \A t \in Tunnel : x[t] \in {"off", "addr", "resolve", "dial", "copy", "over"}
    /\ \A k \in Copier : copier[k].pc \in {"off", "read", "write", "done"}
    /\ code \in -1..5 /\ hushed \subseteq User /\ faults \in 0..Faults[dest]
    /\ causes \subseteq {"late", "refused", "idle", "context"}

\* Each user reads what the other has written, in order and without a gap, and
\* nothing else: no answer or address ends up among the data.
Faithful ==
    \A u \in User : \A k \in DOMAIN got[u] :
      got[u][k] # 0 => got[u][k] = k /\ k <= sent[Other(u)]

\* An end that comes before all data has a reason: a refusal by the exit, fifteen
\* idle minutes in either direction, the death of the connection, or a user who
\* wrote to one that had left.  Four loops, each of which closes under another's
\* hands, do not cut off a user who simply speaks, closes, and is listened to.
\* Only who has shut down its own writing side, and reads on, may get less than
\* the other has written: the loops take its EOF for the end of both directions.
CutForACause ==
    \A u \in User :
      SawEnd(u) => Len(got[u]) = sent[Other(u)] + 1 \/ causes # {} \/ u \in hushed

\* The exit never connects to a local address, even where a name's address
\* changes from one lookup to the next.
LocalStaysLocal == x["tun"] = "copy" => addr \notin Local

\* "countries to not proxy": those of the whitelist, "UN" if it is in no row
Whitelisted(a) ==
    \/ \E k \in 1..Len(slice) : slice[k].from <= a /\ a <= slice[k].to
                                  /\ slice[k].ctry \in Whitelist
    \/ /\ "UN" \in Whitelist
       /\ \A k \in 1..Len(slice) : ~(slice[k].from <= a /\ a <= slice[k].to)

\* What is to be dialled directly, so that no exit hears of it: plain names, local
\* addresses, and what is in a whitelisted country, a name by what it resolves to.
Bypasses ==
    \/ dest.form = "plain"
    \/ dest.form = "ip" /\ dest.ip \in Local
    \/ dest.form = "ip" /\ geodb /\ Whitelisted(dest.ip)
    \/ dest.form = "name" /\ geodb /\ cached # NoAddr /\ Whitelisted(cached)

\* Nothing goes directly that is to be proxied, and nothing given by its address
\* or by a plain name is proxied that is to go directly (filterDest proxies every
\* other name, whatever its country); an application that is told yes is
\* connected, on that way, to what it asked for.
RoutedRight ==
    /\ far = "srv" => Bypasses
    /\ x["tun"] # "off" /\ dest.form # "name" => ~Bypasses
    /\ code = 0 => /\ far = "srv" \/ x["tun"] = "copy"
                   /\ dest.form = "ip" => addr = dest.ip

\* Both programs close all their ends once any end is closed, or a user has shut
\* down its writing side, unless a write without a deadline is stuck for good:
\* the client's to an application that does not read, or to a server it has
\* dialled itself.
Stalled ==
    \E k \in Copier : /\ copier[k].pc = "write" /\ Full(OutOf(k)) /\ Arrives(OutOf(k))
                      /\ k = "D" \/ (k = "H" /\ far = "srv")
HalfShut == hushed # {} \/ \E c \in Conn \ {"dns"} : conn[c].left # conn[c].right
OwnEndsShut == ~conn["app"].right /\ ~conn["tun"].left /\ ~conn["tun"].right /\ ~conn["srv"].left
AllEndsClose == ([]<>~Stalled) => (HalfShut ~> OwnEndsShut)
=============================================================================
