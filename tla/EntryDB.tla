------------------------------ MODULE EntryDB ------------------------------
(* An exit's list of entry nodes: the uploaders of entry nodes, handUpdateNode *)
(* and AddNode with its lookup of the ASN, the police that deletes nodes not   *)
(* seen for three minutes, and GetNodes, which gives every client a share of   *)
(* the list and remembers it as a mapping.  SQLite lets one transaction write  *)
(* at a time and cascades deletions.                                           *)
(*                                                                             *)
(* Time goes by in units of ten seconds: what the police sleeps, and what a    *)
(* post may take.  An uploader sleeps three units between posts, and a row     *)
(* that has seen 18 units begin may be three minutes old, one that has seen    *)
(* 20 surely is.                                                               *)
EXTENDS Integers, FiniteSets

CONSTANTS
    Nodes,      \* entry nodes, by cookie; each has an address of its own
    Clients,    \* clients, by hash of their address
    Asn,        \* the autonomous system of every node
    Unknown,    \* "0", for an ASN that could not be looked up
    Share,      \* nodes a client is given: 3
    Tries,      \* tries of GetNodes: 20
    Sleep,      \* units an uploader sleeps: 3
    Expiry,     \* units after which a row may be expired: 18
    Faults,     \* bound: whatever fails or stops
    Budgets     \* who takes part in a behaviour, and how much fails in it

ASSUME EntryAssumption ==
    /\ IsFiniteSet(Nodes) /\ IsFiniteSet(Clients)
    /\ DOMAIN Asn = Nodes /\ \A n \in Nodes : Asn[n] \notin {Unknown, "none", "asking", "over"}
    /\ Unknown \notin {"none", "asking", "over"} /\ "none" \notin Clients
    /\ Share \in Nat \ {0} /\ Tries \in Nat \ {0}
    /\ Sleep \in Nat \ {0} /\ Expiry \in Nat \ {0} /\ Faults \in Nat
    /\ Budgets \subseteq [nodes : SUBSET Nodes, clients : SUBSET Clients, faults : 0..Faults]

VARIABLES
    up,         \* entry nodes whose uploader runs
    wait,       \* units of its sleep left to an uploader
    call,       \* a post: none, asking, the ASN that AddNode has found, or over
    took,       \* a post has seen a unit begin
    stray,      \* AddNodes whose post has timed out, by what they have found
    missed,     \* posts of a node that came to nothing since its row was written
    late,       \* nodes one of whose AddNodes has strayed
    age,        \* table nodes: units begun since lastseen, -1 if there is no row
    asn,        \* table nodes: the ASN, Unknown if there is no row
    mapping,    \* table mapping: the nodes of a client
    answer,     \* what GetNodes has last returned to a client
    unsure,     \* clients whose last query met an error
    query,      \* the transaction of GetNodes under way
    policed,    \* the police has run in this unit of time
    unpoliced,  \* units in a row in which it has not
    gone,       \* units begun since a node stopped
    budget,     \* what this behaviour may come to
    faults      \* faults left of it

uploaders == <<up, wait, gone>>
posts == <<call, took, stray, late>>
rows == <<age, asn, missed>>
told == <<mapping, answer, unsure, query>>
world == <<budget, policed, unpoliced>>
vars == <<uploaders, posts, rows, told, world, faults>>

NoQuery == [client |-> "none", try |-> 0, nodes |-> {}, before |-> {}, bad |-> FALSE]
Busy == query # NoQuery
Listed == {n \in Nodes : age[n] >= 0}
AsnsOf(nodes) == {asn[n] : n \in nodes}
Pending(n) == call[n] \notin {"none", "over"}

\* Bound of the counter gone
LongAgo == Expiry + Faults + 4

Init ==
    /\ up = {} /\ late = {} /\ unsure = {}
    /\ wait = [n \in Nodes |-> 0] /\ took = [n \in Nodes |-> 0]
    /\ call = [n \in Nodes |-> "none"] /\ stray = [n \in Nodes |-> {}]
    /\ missed = [n \in Nodes |-> 0]
    /\ age = [n \in Nodes |-> -1] /\ asn = [n \in Nodes |-> Unknown]
    /\ mapping = [c \in Clients |-> {}] /\ answer = [c \in Clients |-> {}]
    /\ query = NoQuery
    /\ policed = FALSE /\ unpoliced = 0
    /\ gone = [n \in Nodes |-> LongAgo]
    /\ budget \in Budgets /\ faults = budget.faults

-----------------------------------------------------------------------------
(* Helpers *)

\* Wrong forms of the operators below, named for what is wrong with them; no
\* action uses one.
ExpiredEarly(n) == age[n] >= Expiry - 1
CascadeForgotten(m, dead) == m
RecordedUnlimited(drawn) == Listed
MoreTriesByOne(tries) == tries <= Tries

\* "delete from nodes where lastseen<$1": the rows that may have been written
\* more than three minutes ago, and those that must have been
Expired(n) == age[n] >= Expiry
Overdue(n) == age[n] >= Expiry + 2

\* ON DELETE CASCADE of mapping on nodes
Cascade(m, dead) == m \ dead

\* "insert into mapping", for every node drawn
Recorded(drawn) == drawn

\* "for try := 0; try < 20; try++"
MoreTries(tries) == tries < Tries

\* "we have more ASN, good to go"
Accepted(nodes) == Cardinality(AsnsOf(nodes)) > 1

\* "order by random() limit 3"
Draws == {s \in SUBSET Listed :
            Cardinality(s) = IF Cardinality(Listed) < Share THEN Cardinality(Listed) ELSE Share}

Fault == faults > 0 /\ faults' = faults - 1

-----------------------------------------------------------------------------
(* Entry nodes *)

\* A node opens its listener and starts to upload.  Every start draws a new
\* cookie; one that has been forgotten everywhere stands for it.
Start(n) ==
    /\ n \in budget.nodes \ up /\ gone[n] = LongAgo
    /\ call[n] = "none" /\ stray[n] = {} /\ n \notin Listed
    /\ up' = up \cup {n} /\ wait' = [wait EXCEPT ![n] = 0]
    /\ gone' = [gone EXCEPT ![n] = 0]
    /\ late' = late \ {n} /\ missed' = [missed EXCEPT ![n] = 0]
    /\ UNCHANGED <<call, took, stray, age, asn, told, world, faults>>

\* The process stops, without a word to the exit, or the uploader has made all
\* its posts.
Stop(n) ==
    /\ n \in up /\ Fault
    /\ up' = up \ {n}
    /\ UNCHANGED <<wait, gone, posts, rows, told, world>>

\* The uploader posts, and the exit begins AddNode.
Posts(n) == n \in up /\ call[n] = "none" /\ wait[n] = 0

Post(n) ==
    /\ Posts(n)
    /\ call' = [call EXCEPT ![n] = "asking"]
    /\ UNCHANGED <<uploaders, took, stray, late, rows, told, world, faults>>

\* Nothing comes of the post: it is lost, or AddNode fails, of which the answer,
\* an empty 200, says nothing.
Misses(n) == Fault /\ missed' = [missed EXCEPT ![n] = @ + 1]

PostLost(n) ==
    /\ Posts(n) /\ Misses(n)
    /\ call' = [call EXCEPT ![n] = "over"]
    /\ UNCHANGED <<uploaders, took, stray, late, age, asn, told, world>>

\* Sleep begins when the post has returned, well or badly, which it does within
\* ten seconds.
Return(n) ==
    /\ call[n] = "over"
    /\ call' = [call EXCEPT ![n] = "none"] /\ took' = [took EXCEPT ![n] = 0]
    /\ wait' = [wait EXCEPT ![n] = Sleep]
    /\ UNCHANGED <<up, gone, stray, late, rows, told, world, faults>>

\* Ten seconds are over, and AddNode goes on at the exit: the timeout of the
\* uploader's client, or the process has stopped.
TimesOut(n) ==
    /\ Pending(n) /\ took[n] = 1 /\ Misses(n)
    /\ call' = [call EXCEPT ![n] = "over"]
    /\ stray' = [stray EXCEPT ![n] = @ \cup {call[n]}] /\ late' = late \cup {n}
    /\ UNCHANGED <<uploaders, took, age, asn, told, world>>

-----------------------------------------------------------------------------
(* AddNode, of a post or astray *)

\* getASN: the ASN of a row with this address, whatever it is, or that of the
\* remote service, or "0".
Finds(n, a) ==
    IF n \in Listed THEN a = asn[n] /\ UNCHANGED faults
    ELSE \/ a = Asn[n] /\ UNCHANGED faults
         \/ a = Unknown /\ Fault

\* "insert or ignore", then "update" with the time it is now
Writes(n, a) ==
    /\ ~Busy
    /\ age' = [age EXCEPT ![n] = 0] /\ asn' = [asn EXCEPT ![n] = a]
    /\ missed' = [missed EXCEPT ![n] = 0]

GetASN(n) ==
    /\ call[n] = "asking"
    /\ \E a \in {asn[n], Asn[n], Unknown} : Finds(n, a) /\ call' = [call EXCEPT ![n] = a]
    /\ UNCHANGED <<uploaders, took, stray, late, rows, told, world>>

Upsert(n) ==
    /\ Pending(n) /\ call[n] # "asking" /\ Writes(n, call[n])
    /\ call' = [call EXCEPT ![n] = "over"]
    /\ UNCHANGED <<uploaders, took, stray, late, told, world, faults>>

\* Begin fails, or one of the two statements
AddNodeFails(n) ==
    /\ Pending(n) /\ Misses(n)
    /\ call' = [call EXCEPT ![n] = "over"]
    /\ UNCHANGED <<uploaders, took, stray, late, age, asn, told, world>>

\* One of those astray goes on; another may have got as far.
Moves(n, a, further) ==
    /\ a \in stray[n]
    /\ \E others \in {stray[n], stray[n] \ {a}} :
         stray' = [stray EXCEPT ![n] = others \cup further]
    /\ UNCHANGED <<uploaders, call, took, late, told, world>>

StrayAsks(n) ==
    \E a \in {asn[n], Asn[n], Unknown} :
      Moves(n, "asking", {a}) /\ Finds(n, a) /\ UNCHANGED rows

StrayUpserts(n) ==
    \E a \in stray[n] \ {"asking"} : Moves(n, a, {}) /\ Writes(n, a) /\ UNCHANGED faults

StrayFails(n) ==
    \E a \in stray[n] : Moves(n, a, {}) /\ UNCHANGED <<rows, faults>>

-----------------------------------------------------------------------------
(* The police *)

Police ==
    /\ ~Busy
    /\ \E dead \in SUBSET {n \in Listed : Expired(n)} :
         /\ {n \in Listed : Overdue(n)} \subseteq dead
         /\ age' = [n \in Nodes |-> IF n \in dead THEN -1 ELSE age[n]]
         /\ asn' = [n \in Nodes |-> IF n \in dead THEN Unknown ELSE asn[n]]
         /\ mapping' = [c \in Clients |-> Cascade(mapping[c], dead)]
    /\ policed' = TRUE
    /\ UNCHANGED <<uploaders, posts, missed, answer, unsure, query, budget, unpoliced, faults>>

-----------------------------------------------------------------------------
(* GetNodes *)

Opens(c, bad) ==
    /\ ~Busy /\ c \in budget.clients
    /\ query' = [client |-> c, try |-> 0, nodes |-> {}, before |-> mapping[c], bad |-> bad]
    /\ UNCHANGED <<uploaders, posts, rows, answer, world>>

\* "put ourselves into the system first": insert or replace.  Replacing deletes
\* the client's row, and its mapping with it.
BeginQuery(c) ==
    /\ Opens(c, FALSE)
    /\ mapping' = [mapping EXCEPT ![c] = {}] /\ unsure' = unsure \ {c}
    /\ UNCHANGED faults

\* A query that meets errors: any of its statements may fail, most of them
\* unnoticed, this one first.
BeginBadly(c) ==
    /\ Opens(c, TRUE) /\ Fault
    /\ mapping' \in {mapping, [mapping EXCEPT ![c] = {}]} /\ unsure' = unsure \cup {c}

trying == <<uploaders, posts, rows, answer, unsure, world, faults>>
TriesAgain ==
    /\ Busy /\ MoreTries(query.try)
    /\ query.try = 0 \/ ~Accepted(query.nodes)
Looks(nodes) == query' = [query EXCEPT !.try = @ + 1, !.nodes = nodes]

\* One round of the loop: the mapping if it has three nodes, else a new draw,
\* which is recorded at once, acceptable or not.
Try ==
    /\ TriesAgain /\ ~query.bad
    /\ LET c == query.client
       IN  IF Cardinality(mapping[c]) = Share
             THEN Looks(mapping[c]) /\ UNCHANGED mapping
             ELSE \E drawn \in Draws :
                    Looks(drawn) /\ mapping' = [mapping EXCEPT ![c] = Recorded(drawn)]
    /\ UNCHANGED trying

\* The delete may fail, and each insert; a mapping with a node in it twice, as is
\* left then, may count for any number.
TryBadly ==
    /\ TriesAgain /\ query.bad
    /\ LET c == query.client
       IN  \/ Looks(mapping[c]) /\ UNCHANGED mapping
           \/ \E drawn \in Draws, left \in {{}, mapping[c]} : \E new \in SUBSET drawn :
                Looks(drawn) /\ mapping' = [mapping EXCEPT ![c] = left \cup new]
    /\ UNCHANGED trying

ends == <<uploaders, posts, rows, unsure, world, faults>>

\* "good to go", or "give up, return with what we have".
EndQuery ==
    /\ Busy /\ ~query.bad /\ query.try > 0
    /\ Accepted(query.nodes) \/ query.try = Tries
    /\ answer' = [answer EXCEPT ![query.client] = query.nodes]
    /\ query' = NoQuery
    /\ UNCHANGED <<mapping, ends>>

\* An early return, with the nodes scanned so far, or a panic that leaves the
\* client without an answer; the commit behind it may fail too.
EndBadly ==
    /\ Busy /\ query.bad
    /\ \/ UNCHANGED answer
       \/ \E part \in SUBSET query.nodes : answer' = [answer EXCEPT ![query.client] = part]
    /\ mapping' \in {mapping, [mapping EXCEPT ![query.client] = query.before]}
    /\ query' = NoQuery
    /\ UNCHANGED ends

-----------------------------------------------------------------------------
\* Another ten seconds: no post has taken more, no uploader sleeps longer than
\* it should, and the police has run, or its transaction has failed.
Tick ==
    /\ ~Busy
    /\ \A n \in Nodes : ~Posts(n) /\ (call[n] # "none" => took[n] = 0)
    /\ \/ policed /\ unpoliced' = 0 /\ UNCHANGED faults
       \/ ~policed /\ unpoliced' = unpoliced + 1 /\ Fault
    /\ took' = [n \in Nodes |-> IF call[n] # "none" THEN 1 ELSE 0]
    /\ wait' = [n \in Nodes |-> IF n \in up /\ call[n] = "none" THEN wait[n] - 1 ELSE wait[n]]
    /\ age' = [n \in Nodes |-> IF n \in Listed THEN age[n] + 1 ELSE -1]
    /\ gone' = [n \in Nodes |-> IF n \in up THEN 0
                                ELSE IF gone[n] = LongAgo THEN LongAgo ELSE gone[n] + 1]
    /\ policed' = FALSE
    /\ UNCHANGED <<up, call, stray, late, asn, missed, told, budget>>

Next ==
    \/ \E n \in Nodes : Start(n) \/ Stop(n) \/ Post(n) \/ PostLost(n) \/ Return(n) \/ TimesOut(n)
    \/ \E n \in Nodes : GetASN(n) \/ Upsert(n) \/ AddNodeFails(n)
    \/ \E n \in Nodes : StrayAsks(n) \/ StrayUpserts(n) \/ StrayFails(n)
    \/ Police
    \/ \E c \in Clients : BeginQuery(c) \/ BeginBadly(c)
    \/ Try \/ TryBadly \/ EndQuery \/ EndBadly
    \/ Tick

Spec == Init /\ [][Next]_vars

-----------------------------------------------------------------------------
(* Properties *)

TypeOK ==
    /\ up \subseteq Nodes /\ late \subseteq Nodes /\ unsure \subseteq Clients
    /\ wait \in [Nodes -> 0..Sleep] /\ took \in [Nodes -> 0..1]
    /\ age \in [Nodes -> -1..(Expiry + 2 + Faults)]
    /\ \A n \in Nodes : /\ asn[n] \in {Asn[n], Unknown}
                        /\ call[n] \in {"none", "asking", "over", Asn[n], Unknown}
                        /\ stray[n] \subseteq {"asking", Asn[n], Unknown}
    /\ gone \in [Nodes -> 0..LongAgo] /\ missed \in [Nodes -> 0..Faults]
    /\ query.client \in Clients \cup {"none"} /\ query.try \in 0..Tries
    /\ unpoliced \in 0..Faults /\ faults \in 0..Faults

\* A node that has stopped is off the list, and out of every mapping, within half
\* a minute of its expiry and as long again as the police has just been failing,
\* unless an AddNode of it was late: that lists it as seen just now, however long
\* it has been gone.
GoneNodesDisappear ==
    \A n \in Nodes \ late :
      n \in Listed \/ (\E c \in Clients : n \in mapping[c]) => gone[n] <= Expiry + 3 + unpoliced

\* A node that is up and has been listed stays listed until so many posts in a
\* row have come to nothing that with its sleeps, and ten seconds for every post,
\* the last one among them, they fill the three minutes: four, not six.
UpNodesStayListed ==
    [][\A n \in up : age[n] >= 0 /\ age'[n] = -1 =>
         (missed[n] + 1) * (Sleep + 1) + 1 >= Expiry]_vars

\* What the database remembers of a client is part of what the client has been
\* told, unless a query is just redrawing it or has met an error, and never more
\* than its share.
MappingIsToldOrLess ==
    \A c \in Clients \ unsure :
      /\ Cardinality(mapping[c]) <= Share
      /\ query.client # c => mapping[c] \subseteq answer[c]

\* "receives a consistent subset of entry nodes", "we try to use existing mapping
\* if possible": a client whose nodes are all still listed is told the same
\* ones again.
ConsistentSubset ==
    [][\A c \in Clients :
         /\ EndQuery /\ query.client = c
         /\ Cardinality(answer[c]) = Share /\ answer[c] \subseteq Listed
         => answer'[c] = answer[c]]_vars
=============================================================================
