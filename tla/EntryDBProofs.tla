--------------------------- MODULE EntryDBProofs ---------------------------
(* What the list of an exit keeps for any number of entry nodes and clients, *)
(* any share, sleep, expiry and number of tries, and any faults: proofs of    *)
(* all the safety properties of EntryDB.                                      *)
EXTENDS EntryDB, FiniteSetTheorems, TLAPS

Systems == {Unknown} \cup {Asn[n] : n \in Nodes}
Query == [client : Clients \cup {"none"}, try : 0..Tries, nodes : SUBSET Nodes,
          before : SUBSET Nodes, bad : BOOLEAN]

\* The faults that have happened
Happened == Faults - faults

UploaderTypes ==
    /\ up \subseteq Nodes /\ late \subseteq Nodes
    /\ wait \in [Nodes -> 0..Sleep] /\ took \in [Nodes -> 0..1]
    /\ gone \in [Nodes -> 0..LongAgo]
    /\ \A n \in Nodes : call[n] = "none" => took[n] = 0

PostTypes ==
    /\ call \in [Nodes -> {"none", "asking", "over"} \cup Systems]
    /\ \A n \in Nodes : call[n] \in {"none", "asking", "over", Asn[n], Unknown}
    /\ stray \in [Nodes -> SUBSET ({"asking"} \cup Systems)]
    /\ \A n \in Nodes : stray[n] \subseteq {"asking", Asn[n], Unknown}

RowTypes ==
    /\ age \in [Nodes -> Int] /\ \A n \in Nodes : age[n] >= -1
    /\ asn \in [Nodes -> Systems] /\ \A n \in Nodes : asn[n] \in {Asn[n], Unknown}
    /\ mapping \in [Clients -> SUBSET Nodes]

ToldTypes ==
    /\ answer \in [Clients -> SUBSET Nodes] /\ unsure \subseteq Clients
    /\ query \in Query /\ (Busy => query.client \in Clients)

Bounds ==
    /\ faults \in 0..Faults /\ unpoliced \in Nat /\ unpoliced <= Happened
    /\ missed \in [Nodes -> Nat] /\ \A n \in Nodes : missed[n] <= Happened

Types == UploaderTypes /\ PostTypes /\ RowTypes /\ ToldTypes /\ Bounds

-----------------------------------------------------------------------------
LEMMA InitTypes == Init => Types
  BY EntryAssumption
  DEF Init, Types, UploaderTypes, PostTypes, RowTypes, ToldTypes, Bounds, Happened,
      Systems, Query, NoQuery, Busy, LongAgo

\* Any set of nodes is finite.
LEMMA SomeNodes ==
    ASSUME NEW S \in SUBSET Nodes
    PROVE  IsFiniteSet(S) /\ Cardinality(S) \in Nat
  BY EntryAssumption, FS_Subset, FS_CardinalityType

\* What a lookup of the ASN finds is the node's or unknown.
LEMMA WhatIsFound ==
    ASSUME Types, NEW n \in Nodes, NEW a, Finds(n, a) \/ a \in {asn[n], Asn[n], Unknown}
    PROVE  a \in {Asn[n], Unknown} /\ a \in Systems /\ a \notin {"none", "asking", "over"}
  BY EntryAssumption DEF Finds, Types, RowTypes, Systems

\* A fault is one of those left.
LEMMA OneFault ==
    ASSUME Types, Fault
    PROVE  faults' \in 0..Faults /\ Happened' = Happened + 1
  BY EntryAssumption DEF Fault, Types, Bounds, Happened

LEMMA NextUploaderTypes == Types /\ [Next]_vars => UploaderTypes'
  <1> SUFFICES ASSUME Types, [Next]_vars PROVE UploaderTypes'
    OBVIOUS
  <1> USE EntryAssumption DEF Types, UploaderTypes, LongAgo
  <1>1. ASSUME NEW n \in Nodes, Start(n) PROVE UploaderTypes'
    BY <1>1 DEF Start
  <1>2. ASSUME NEW n \in Nodes, Stop(n) PROVE UploaderTypes'
    BY <1>2 DEF Stop, posts
  <1>3. ASSUME NEW n \in Nodes, Post(n) PROVE UploaderTypes'
    BY <1>3 DEF Post, uploaders, PostTypes
  <1>4. ASSUME NEW n \in Nodes, PostLost(n) PROVE UploaderTypes'
    BY <1>4 DEF PostLost, uploaders, PostTypes
  <1>5. ASSUME NEW n \in Nodes, Return(n) PROVE UploaderTypes'
    BY <1>5 DEF Return, PostTypes
  <1>6. ASSUME NEW n \in Nodes, TimesOut(n) PROVE UploaderTypes'
    BY <1>6 DEF TimesOut, uploaders, PostTypes
  <1>7. ASSUME NEW n \in Nodes, GetASN(n) PROVE UploaderTypes'
    <2>1. PICK a \in {asn[n], Asn[n], Unknown} : call' = [call EXCEPT ![n] = a]
      BY <1>7 DEF GetASN
    <2>2. a # "none"
      BY <2>1, WhatIsFound
    <2> QED
      BY <1>7, <2>1, <2>2 DEF GetASN, uploaders, PostTypes
  <1>8. ASSUME NEW n \in Nodes, Upsert(n) \/ AddNodeFails(n) PROVE UploaderTypes'
    BY <1>8 DEF Upsert, AddNodeFails, uploaders, PostTypes
  <1>9. CASE Tick
    <2>1. \A n \in Nodes : n \in up /\ call[n] = "none" => wait[n] - 1 \in 0..Sleep
      BY <1>9 DEF Tick, Posts
    <2>2. wait' \in [Nodes -> 0..Sleep]
      BY <1>9, <2>1 DEF Tick
    <2>3. took' \in [Nodes -> 0..1] /\ \A n \in Nodes : call'[n] = "none" => took'[n] = 0
      BY <1>9 DEF Tick
    <2>4. gone' \in [Nodes -> 0..LongAgo]
      <3>1. \A g \in 0..LongAgo : 0 \in 0..LongAgo /\ (g # LongAgo => g + 1 \in 0..LongAgo)
        OBVIOUS
      <3>2. \A n \in Nodes : gone'[n] \in {0, gone[n]} \/ (gone[n] # LongAgo /\ gone'[n] = gone[n] + 1)
        BY <1>9 DEF Tick
      <3>3. gone' = [n \in Nodes |-> gone'[n]]
        BY <1>9 DEF Tick
      <3> QED
        BY <3>1, <3>2, <3>3
    <2> QED
      BY <1>9, <2>2, <2>3, <2>4 DEF Tick
  <1>10. ASSUME UNCHANGED <<up, late, wait, took, gone, call>> PROVE UploaderTypes'
    BY <1>10
  <1> QED
    BY <1>1, <1>2, <1>3, <1>4, <1>5, <1>6, <1>7, <1>8, <1>9, <1>10
    DEF Next, StrayAsks, StrayUpserts, StrayFails, Moves, Police, BeginQuery, BeginBadly, Opens,
        Try, TryBadly, EndQuery, EndBadly, trying, ends, vars, uploaders, posts

LEMMA NextPostTypes == Types /\ [Next]_vars => PostTypes'
  <1> SUFFICES ASSUME Types, [Next]_vars PROVE PostTypes'
    OBVIOUS
  <1> USE EntryAssumption DEF Types, PostTypes
  <1>1. ASSUME NEW n \in Nodes, NEW a \in {"none", "asking", "over"},
               call' = [call EXCEPT ![n] = a], stray' = stray
        PROVE  PostTypes'
    BY <1>1
  <1>2. ASSUME NEW n \in Nodes, TimesOut(n) PROVE PostTypes'
    <2>1. call[n] \in {"asking", Asn[n], Unknown} /\ call[n] \in {"asking"} \cup Systems
      BY <1>2 DEF TimesOut, Pending, Systems
    <2> QED
      BY <1>2, <2>1 DEF TimesOut
  <1>3. ASSUME NEW n \in Nodes, GetASN(n) PROVE PostTypes'
    <2>1. PICK a \in {asn[n], Asn[n], Unknown} : call' = [call EXCEPT ![n] = a]
      BY <1>3 DEF GetASN
    <2>2. a \in Systems /\ a \in {Asn[n], Unknown}
      BY <2>1, WhatIsFound
    <2> QED
      BY <1>3, <2>1, <2>2 DEF GetASN, posts
  <1>4. ASSUME NEW n \in Nodes, NEW a, NEW more \in SUBSET {Asn[n], Unknown}, Moves(n, a, more)
        PROVE  PostTypes'
    <2>1. PICK others \in {stray[n], stray[n] \ {a}} :
            stray' = [stray EXCEPT ![n] = others \cup more]
      BY <1>4 DEF Moves
    <2>2. others \cup more \in SUBSET ({"asking"} \cup Systems)
      BY <2>1 DEF Systems
    <2>3. others \cup more \subseteq {"asking", Asn[n], Unknown}
      BY <2>1
    <2> HIDE DEF Types
    <2> QED
      BY <1>4, <2>1, <2>2, <2>3 DEF Moves, Types
  <1>5. ASSUME NEW n \in Nodes, StrayAsks(n) PROVE PostTypes'
    <2>1. PICK a \in {asn[n], Asn[n], Unknown} : Moves(n, "asking", {a})
      BY <1>5 DEF StrayAsks
    <2>2. {a} \in SUBSET {Asn[n], Unknown}
      BY <2>1, WhatIsFound
    <2> QED
      BY <1>4, <2>1, <2>2
  <1>6. ASSUME NEW n \in Nodes, StrayUpserts(n) \/ StrayFails(n) PROVE PostTypes'
    <2>1. PICK a : Moves(n, a, {})
      BY <1>6 DEF StrayUpserts, StrayFails
    <2> QED
      BY <1>4, <2>1
  <1>7. ASSUME UNCHANGED <<call, stray>> PROVE PostTypes'
    BY <1>7
  <1>8. ASSUME NEW n \in Nodes, \/ Post(n) \/ PostLost(n) \/ Return(n) \/ Upsert(n)
                                \/ AddNodeFails(n)
        PROVE  PostTypes'
    BY <1>1, <1>8 DEF Post, PostLost, Return, Upsert, AddNodeFails
  <1> QED
    BY <1>2, <1>3, <1>5, <1>6, <1>7, <1>8
    DEF Next, Start, Stop, Police, BeginQuery, BeginBadly, Opens, Try, TryBadly, EndQuery,
        EndBadly, Tick, trying, ends, vars, posts

\* What a round of a query looks at and leaves as the mapping of its client
LEMMA Rounds ==
    ASSUME Types, Try \/ TryBadly
    PROVE  /\ query.client \in Clients /\ Busy
           /\ UNCHANGED <<up, wait, gone, call, took, stray, late, age, asn, missed, answer,
                          unsure, policed, unpoliced, faults>>
           /\ \E nodes, new \in SUBSET Nodes :
                /\ Looks(nodes) /\ mapping' = [mapping EXCEPT ![query.client] = new]
                /\ nodes = mapping[query.client] \/ nodes \in Draws
                /\ new \subseteq mapping[query.client] \cup nodes
                /\ Try => new = nodes /\ ~query.bad
                /\ TryBadly => query.bad
  <1>1. query.client \in Clients /\ Busy
    BY DEF Try, TryBadly, TriesAgain, Types, ToldTypes
  <1>2. \A nodes \in Draws : nodes \in SUBSET Nodes
    BY DEF Draws, Listed
  <1>3. mapping = [mapping EXCEPT ![query.client] = mapping[query.client]]
    BY <1>1 DEF Types, RowTypes
  <1>4. mapping[query.client] \in SUBSET Nodes
    BY <1>1 DEF Types, RowTypes
  <1>5. CASE Try
    BY <1>1, <1>2, <1>3, <1>4, <1>5
    DEF Try, TryBadly, trying, uploaders, posts, rows, world, Recorded
  <1>6. CASE TryBadly
    <2>1. CASE Looks(mapping[query.client]) /\ UNCHANGED mapping
      BY <1>1, <1>3, <1>4, <1>6, <2>1
      DEF Try, TryBadly, trying, uploaders, posts, rows, world
    <2>2. CASE \E drawn \in Draws, left \in {{}, mapping[query.client]} : \E new \in SUBSET drawn :
                 /\ Looks(drawn)
                 /\ mapping' = [mapping EXCEPT ![query.client] = left \cup new]
      <3>1. PICK drawn \in Draws, left \in {{}, mapping[query.client]} :
              \E new \in SUBSET drawn :
                Looks(drawn) /\ mapping' = [mapping EXCEPT ![query.client] = left \cup new]
        BY <2>2
      <3>2. PICK new \in SUBSET drawn :
              Looks(drawn) /\ mapping' = [mapping EXCEPT ![query.client] = left \cup new]
        BY <3>1
      <3>3. left \cup new \in SUBSET Nodes
        BY <1>2, <1>4, <3>1, <3>2
      <3> QED
        BY <1>1, <1>2, <1>6, <3>1, <3>2, <3>3
        DEF Try, TryBadly, trying, uploaders, posts, rows, world
    <2> QED
      BY <1>6, <2>1, <2>2 DEF TryBadly
  <1> QED
    BY <1>5, <1>6

LEMMA NextRowTypes == Types /\ [Next]_vars => RowTypes'
  <1> SUFFICES ASSUME Types, [Next]_vars PROVE RowTypes'
    OBVIOUS
  <1> USE EntryAssumption DEF Types, RowTypes
  <1>1. ASSUME NEW n \in Nodes, NEW a \in {Asn[n], Unknown}, Writes(n, a), mapping' = mapping
        PROVE  RowTypes'
    <2>1. a \in Systems
      BY DEF Systems
    <2> QED
      BY <1>1, <2>1 DEF Writes
  <1>2. ASSUME NEW n \in Nodes, Upsert(n) PROVE RowTypes'
    <2>1. call[n] \in {Asn[n], Unknown}
      BY <1>2 DEF Upsert, Pending, PostTypes
    <2> QED
      BY <1>1, <1>2, <2>1 DEF Upsert, told
  <1>3. ASSUME NEW n \in Nodes, StrayUpserts(n) PROVE RowTypes'
    <2>1. PICK a \in stray[n] \ {"asking"} : Moves(n, a, {}) /\ Writes(n, a)
      BY <1>3 DEF StrayUpserts
    <2>2. a \in {Asn[n], Unknown}
      BY <2>1 DEF PostTypes
    <2> QED
      BY <1>1, <2>1, <2>2 DEF Moves, told
  <1>4. CASE Police
    <2>1. PICK dead \in SUBSET {n \in Listed : Expired(n)} :
            /\ age' = [n \in Nodes |-> IF n \in dead THEN -1 ELSE age[n]]
            /\ asn' = [n \in Nodes |-> IF n \in dead THEN Unknown ELSE asn[n]]
            /\ mapping' = [c \in Clients |-> Cascade(mapping[c], dead)]
      BY <1>4 DEF Police
    <2>2. age' \in [Nodes -> Int] /\ \A n \in Nodes : age'[n] >= -1
      BY <2>1
    <2>3. asn' \in [Nodes -> Systems] /\ \A n \in Nodes : asn'[n] \in {Asn[n], Unknown}
      BY <2>1 DEF Systems
    <2>4. mapping' \in [Clients -> SUBSET Nodes]
      BY <2>1 DEF Cascade
    <2> QED
      BY <2>2, <2>3, <2>4
  <1>5. ASSUME NEW c \in Clients, BeginQuery(c) \/ BeginBadly(c) PROVE RowTypes'
    BY <1>5 DEF BeginQuery, BeginBadly, Opens, rows
  <1>6. CASE Try \/ TryBadly
    BY <1>6, Rounds
  <1>7. CASE EndBadly
    <2>1. query.before \in SUBSET Nodes
      BY DEF ToldTypes, Query
    <2> QED
      BY <1>7, <2>1 DEF EndBadly, ends, rows
  <1>8. CASE Tick
    BY <1>8 DEF Tick, told, Listed
  <1>9. ASSUME UNCHANGED <<age, asn, mapping>> PROVE RowTypes'
    BY <1>9
  <1> QED
    BY <1>2, <1>3, <1>4, <1>5, <1>6, <1>7, <1>8, <1>9
    DEF Next, Start, Stop, Post, PostLost, Return, TimesOut, GetASN, AddNodeFails, StrayAsks,
        StrayFails, Moves, EndQuery, ends, vars, rows, told

LEMMA NextToldTypes == Types /\ [Next]_vars => ToldTypes'
  <1> SUFFICES ASSUME Types, [Next]_vars PROVE ToldTypes'
    OBVIOUS
  <1> USE EntryAssumption DEF ToldTypes
  <1>1. ASSUME NEW c \in Clients, BeginQuery(c) \/ BeginBadly(c) PROVE ToldTypes'
    <2>1. PICK b \in BOOLEAN : Opens(c, b)
      BY <1>1 DEF BeginQuery, BeginBadly
    <2>2. query' \in Query /\ query'.client \in Clients
      BY <2>1 DEF Opens, Query, Types, RowTypes
    <2> QED
      BY <1>1, <2>1, <2>2 DEF Types, BeginQuery, BeginBadly, Opens
  <1>2. CASE Try \/ TryBadly
    <2>1. PICK nodes \in SUBSET Nodes : Looks(nodes)
      BY <1>2, Rounds
    <2>2. query \in Query /\ query.try < Tries /\ query.client \in Clients
      BY <1>2, Rounds DEF Try, TryBadly, TriesAgain, MoreTries, Types
    <2>3. query.try + 1 \in 0..Tries
      BY <2>2 DEF Query
    <2>4. query' \in Query /\ query'.client \in Clients
      BY <2>1, <2>2, <2>3 DEF Looks, Query
    <2> QED
      BY <1>2, <2>4, Rounds DEF Types
  <1>3. CASE EndQuery \/ EndBadly
    <2>1. NoQuery \in Query
      BY DEF NoQuery, Query
    <2>2. query' \in Query /\ ~Busy'
      BY <1>3, <2>1 DEF EndQuery, EndBadly, Busy
    <2>3. answer' \in [Clients -> SUBSET Nodes]
      <3>1. query.nodes \in SUBSET Nodes
        BY DEF Types, Query
      <3> QED
        BY <1>3, <3>1 DEF EndQuery, EndBadly, Types
    <2> QED
      BY <1>3, <2>2, <2>3 DEF EndQuery, EndBadly, ends, Types
  <1>4. ASSUME UNCHANGED <<answer, unsure, query>> PROVE ToldTypes'
    BY <1>4 DEF Types, Busy
  <1> QED
    BY <1>1, <1>2, <1>3, <1>4
    DEF Next, Start, Stop, Post, PostLost, Return, TimesOut, GetASN, Upsert, AddNodeFails,
        StrayAsks, StrayUpserts, StrayFails, Moves, Police, Tick, vars, told

LEMMA NextBounds == Types /\ [Next]_vars => Bounds'
  <1> SUFFICES ASSUME Types, [Next]_vars PROVE Bounds'
    OBVIOUS
  <1> USE EntryAssumption DEF Types, Bounds, Happened
  <1>1. ASSUME NEW n \in Nodes, Start(n) PROVE Bounds'
    BY <1>1 DEF Start, world
  <1>2. ASSUME NEW n \in Nodes, Stop(n) PROVE Bounds'
    BY <1>2, OneFault DEF Stop, rows, world
  <1>3. ASSUME NEW n \in Nodes, PostLost(n) \/ TimesOut(n) \/ AddNodeFails(n) PROVE Bounds'
    BY <1>3, OneFault DEF PostLost, TimesOut, AddNodeFails, Misses, Fault, world
  <1>4. ASSUME NEW n \in Nodes, GetASN(n) \/ StrayAsks(n) PROVE Bounds'
    BY <1>4, OneFault DEF GetASN, StrayAsks, Finds, Moves, Fault, rows, world
  <1>5. ASSUME NEW n \in Nodes, Upsert(n) \/ StrayUpserts(n) PROVE Bounds'
    BY <1>5 DEF Upsert, StrayUpserts, Writes, Moves, world
  <1>6. ASSUME NEW c \in Clients, BeginBadly(c) PROVE Bounds'
    BY <1>6, OneFault DEF BeginBadly, Opens, Fault, rows, world
  <1>7. CASE Tick
    BY <1>7, OneFault DEF Tick, Fault
  <1>8. ASSUME UNCHANGED <<faults, unpoliced, missed>> PROVE Bounds'
    BY <1>8
  <1> QED
    BY <1>1, <1>2, <1>3, <1>4, <1>5, <1>6, <1>7, <1>8, Rounds
    DEF Next, Post, Return, StrayFails, Moves, Police, BeginQuery, Opens,
        EndQuery, EndBadly, ends, vars, rows, world

LEMMA NextTypes == Types /\ [Next]_vars => Types'
  BY NextUploaderTypes, NextPostTypes, NextRowTypes, NextToldTypes, NextBounds DEF Types

-----------------------------------------------------------------------------
(* The age of a row *)

\* The police deletes what must have expired, at the latest a unit after it has
\* failed; a mapping holds only nodes that are listed, also one that a failed
\* commit brings back; and a node that is gone has been gone hardly longer than
\* its row is old, unless one of its posts has timed out.
Policed ==
    /\ policed => \A n \in Nodes : age[n] <= Expiry + 1
    /\ \A n \in Nodes : age[n] <= Expiry + 2 + unpoliced

MappingListed ==
    /\ \A c \in Clients : mapping[c] \subseteq Listed
    /\ query.before \subseteq Listed

GoneWithRow ==
    /\ \A n \in up : gone[n] = 0
    /\ \A n \in Nodes \ late : /\ stray[n] = {}
                               /\ Pending(n) => gone[n] <= took[n]
                               /\ n \in Listed => gone[n] <= age[n] + 1

Fresh == Policed /\ MappingListed /\ GoneWithRow

LEMMA InitFresh == Init => Fresh
  BY EntryAssumption
  DEF Init, Fresh, Policed, MappingListed, GoneWithRow, Listed, NoQuery, Pending, LongAgo

LEMMA NextPoliced == Types /\ Types' /\ Fresh /\ [Next]_vars => Policed'
  <1> SUFFICES ASSUME Types, Types', Fresh, [Next]_vars PROVE Policed'
    OBVIOUS
  <1> USE EntryAssumption DEF Types, RowTypes, Bounds, Fresh, Policed
  <1>1. ASSUME NEW n \in Nodes, Upsert(n) \/ StrayUpserts(n) PROVE Policed'
    BY <1>1 DEF Upsert, StrayUpserts, Writes, Moves, world
  <1>2. CASE Police
    <2>1. PICK dead \in SUBSET {n \in Listed : Expired(n)} :
            /\ {n \in Listed : Overdue(n)} \subseteq dead
            /\ age' = [n \in Nodes |-> IF n \in dead THEN -1 ELSE age[n]]
      BY <1>2 DEF Police
    <2>2. \A n \in Nodes : age'[n] <= Expiry + 1 /\ age'[n] <= Expiry + 2 + unpoliced
      BY <2>1 DEF Overdue, Listed
    <2> QED
      BY <1>2, <2>2 DEF Police
  <1>3. CASE Tick
    BY <1>3 DEF Tick, Listed
  <1>4. ASSUME UNCHANGED <<age, policed, unpoliced>> PROVE Policed'
    BY <1>4
  <1> QED
    BY <1>1, <1>2, <1>3, <1>4, Rounds
    DEF Next, Start, Stop, Post, PostLost, Return, TimesOut, GetASN, AddNodeFails, StrayAsks,
        StrayFails, Moves, BeginQuery, BeginBadly, Opens, EndQuery, EndBadly, ends, vars, rows,
        world

LEMMA NextMappingListed == Types /\ Types' /\ Fresh /\ [Next]_vars => MappingListed'
  <1> SUFFICES ASSUME Types, Types', Fresh, [Next]_vars PROVE MappingListed'
    OBVIOUS
  <1> USE EntryAssumption DEF Fresh, MappingListed
  <1>1. ASSUME NEW n \in Nodes, Upsert(n) \/ StrayUpserts(n) PROVE MappingListed'
    <2>1. Listed \subseteq Listed' /\ UNCHANGED <<mapping, query>>
      BY <1>1 DEF Upsert, StrayUpserts, Writes, Moves, Listed, Types, RowTypes, told
    <2> QED
      BY <2>1
  <1>2. CASE Police
    <2>1. PICK dead \in SUBSET {n \in Listed : Expired(n)} :
            /\ age' = [n \in Nodes |-> IF n \in dead THEN -1 ELSE age[n]]
            /\ mapping' = [c \in Clients |-> Cascade(mapping[c], dead)]
      BY <1>2 DEF Police
    <2>2. Listed' = Listed \ dead
      BY <2>1 DEF Listed, Types, RowTypes
    <2>3. query' = query /\ query.before = {}
      BY <1>2 DEF Police, Busy, NoQuery
    <2> QED
      BY <2>1, <2>2, <2>3 DEF Cascade
  <1>3. ASSUME NEW c \in Clients, BeginQuery(c) \/ BeginBadly(c) PROVE MappingListed'
    BY <1>3 DEF BeginQuery, BeginBadly, Opens, rows, Listed, Types, RowTypes
  <1>4. CASE Try \/ TryBadly
    <2>1. PICK nodes, new \in SUBSET Nodes :
            /\ Looks(nodes) /\ mapping' = [mapping EXCEPT ![query.client] = new]
            /\ nodes = mapping[query.client] \/ nodes \in Draws
            /\ new \subseteq mapping[query.client] \cup nodes
      BY <1>4, Rounds
    <2>2. query.client \in Clients /\ Listed' = Listed
      BY <1>4, Rounds DEF Listed
    <2>3. new \subseteq Listed
      BY <2>1, <2>2 DEF Draws
    <2>4. query'.before = query.before
      BY <2>1 DEF Looks, Types, ToldTypes, Query
    <2> QED
      BY <2>1, <2>2, <2>3, <2>4 DEF Types, RowTypes
  <1>5. CASE EndQuery
    BY <1>5 DEF EndQuery, ends, rows, NoQuery, Listed
  <1>6. CASE EndBadly
    BY <1>6 DEF EndBadly, ends, rows, NoQuery, Listed, Types, ToldTypes, RowTypes
  <1>7. CASE Tick
    <2>1. Listed' = Listed /\ UNCHANGED <<mapping, query>>
      BY <1>7 DEF Tick, Listed, Types, RowTypes, told
    <2> QED
      BY <2>1
  <1>8. ASSUME UNCHANGED <<age, mapping, query>> PROVE MappingListed'
    BY <1>8 DEF Listed
  <1> QED
    BY <1>1, <1>2, <1>3, <1>4, <1>5, <1>6, <1>7, <1>8
    DEF Next, Start, Stop, Post, PostLost, Return, TimesOut, GetASN, AddNodeFails, StrayAsks,
        StrayFails, Moves, vars, rows, told

LEMMA NextGoneWithRow == Types /\ Types' /\ Fresh /\ [Next]_vars => GoneWithRow'
  <1> SUFFICES ASSUME Types, Types', Fresh, [Next]_vars PROVE GoneWithRow'
    OBVIOUS
  <1> USE EntryAssumption DEF Fresh, GoneWithRow, Pending, Listed, Types, UploaderTypes,
                              PostTypes, RowTypes
  <1>1. ASSUME NEW n \in Nodes, Start(n) PROVE GoneWithRow'
    BY <1>1 DEF Start
  <1>2. ASSUME NEW n \in Nodes, Stop(n) PROVE GoneWithRow'
    BY <1>2 DEF Stop, posts, rows
  <1>3. ASSUME NEW n \in Nodes, Post(n) PROVE GoneWithRow'
    BY <1>3 DEF Post, Posts, uploaders, rows
  <1>4. ASSUME NEW n \in Nodes, PostLost(n) \/ AddNodeFails(n) PROVE GoneWithRow'
    BY <1>4 DEF PostLost, AddNodeFails, uploaders
  <1>5. ASSUME NEW n \in Nodes, Return(n) PROVE GoneWithRow'
    BY <1>5 DEF Return, rows
  <1>6. ASSUME NEW n \in Nodes, TimesOut(n) PROVE GoneWithRow'
    BY <1>6 DEF TimesOut, uploaders
  <1>7. ASSUME NEW n \in Nodes, GetASN(n) PROVE GoneWithRow'
    <2>1. PICK a : call[n] = "asking" /\ call' = [call EXCEPT ![n] = a]
      BY <1>7 DEF GetASN
    <2> QED
      BY <1>7, <2>1 DEF GetASN, uploaders, rows
  <1>8. ASSUME NEW n \in Nodes, Upsert(n) PROVE GoneWithRow'
    BY <1>8 DEF Upsert, Writes, uploaders
  <1>9. ASSUME NEW n \in Nodes, NEW a, NEW more, Moves(n, a, more)
        PROVE  n \in late /\ \A m \in Nodes \ late' : stray'[m] = {}
    BY <1>9 DEF Moves
  <1>10. ASSUME NEW n \in Nodes, StrayAsks(n) \/ StrayUpserts(n) \/ StrayFails(n)
         PROVE  GoneWithRow'
    <2>1. n \in late /\ \A m \in Nodes \ late' : stray'[m] = {}
      BY <1>9, <1>10 DEF StrayAsks, StrayUpserts, StrayFails
    <2>2. UNCHANGED <<uploaders, call, took, late>>
      BY <1>10 DEF StrayAsks, StrayUpserts, StrayFails, Moves
    <2>3. \A m \in Nodes \ {n} : age'[m] = age[m]
      BY <1>10 DEF StrayAsks, StrayUpserts, StrayFails, Writes, rows
    <2> QED
      BY <2>1, <2>2, <2>3 DEF uploaders
  <1>11. CASE Police
    <2>1. \A n \in Nodes : age'[n] = age[n] \/ age'[n] = -1
      BY <1>11 DEF Police
    <2> QED
      BY <1>11, <2>1 DEF Police, uploaders, posts
  <1>12. CASE Tick
    <2>1. \A n \in Nodes : gone'[n] <= gone[n] + 1 /\ (n \in up => gone'[n] = 0)
      BY <1>12 DEF Tick, LongAgo
    <2>2. \A n \in Nodes : call[n] # "none" => took[n] = 0 /\ took'[n] = 1
      BY <1>12 DEF Tick
    <2>3. \A n \in Nodes : age'[n] = IF n \in Listed THEN age[n] + 1 ELSE -1
      BY <1>12 DEF Tick
    <2>4. UNCHANGED <<up, call, stray, late>>
      BY <1>12 DEF Tick
    <2>5. gone' \in [Nodes -> 0..LongAgo] /\ LongAgo \in Nat
      BY DEF LongAgo
    <2>6. ASSUME NEW n \in Nodes \ late PROVE (Pending(n))' => gone'[n] <= took'[n]
      BY <2>1, <2>2, <2>4, <2>5, <2>6
    <2>7. ASSUME NEW n \in Nodes \ late PROVE age'[n] >= 0 => gone'[n] <= age'[n] + 1
      BY <2>1, <2>3, <2>5, <2>7
    <2> QED
      BY <2>1, <2>4, <2>6, <2>7
  <1>13. ASSUME UNCHANGED <<up, gone, call, took, stray, late, age>> PROVE GoneWithRow'
    BY <1>13
  <1> QED
    BY <1>1, <1>2, <1>3, <1>4, <1>5, <1>6, <1>7, <1>8, <1>10, <1>11, <1>12, <1>13, Rounds
    DEF Next, BeginQuery, BeginBadly, Opens, EndQuery, EndBadly, ends, vars, uploaders, posts,
        rows

LEMMA NextFresh == Types /\ Types' /\ Fresh /\ [Next]_vars => Fresh'
  BY NextPoliced, NextMappingListed, NextGoneWithRow DEF Fresh

\* The tables, the calls and the query stay what they are declared to be, no
\* query takes more than its tries, and no row outlives its expiry by more than
\* two units and those for which the police has been failing.
THEOREM EntryTypeOK == Spec => []TypeOK
  <1>1. Types /\ Fresh => TypeOK
    BY EntryAssumption
    DEF Types, UploaderTypes, PostTypes, RowTypes, ToldTypes, Bounds, Fresh, Policed, TypeOK,
        Query, Happened, LongAgo
  <1> QED
    BY <1>1, InitTypes, NextTypes, InitFresh, NextFresh, PTL DEF Spec

\* Whatever the expiry and the order of posts, police and queries, and whatever
\* fails, a node that has stopped is off the list and out of all mappings within
\* three units of its expiry and those for which the police has been failing,
\* unless an AddNode of it came late.
THEOREM EntryGoneNodesDisappear == Spec => []GoneNodesDisappear
  <1>1. Types /\ Fresh => GoneNodesDisappear
    BY EntryAssumption
    DEF Types, UploaderTypes, RowTypes, Bounds, Fresh, Policed, MappingListed, GoneWithRow,
        GoneNodesDisappear, Listed, LongAgo
  <1> QED
    BY <1>1, InitTypes, NextTypes, InitFresh, NextFresh, PTL DEF Spec

-----------------------------------------------------------------------------
(* What a client is told *)

\* What the mapping of a client may be while it is redrawn
Told ==
    /\ query.bad => query.client \in unsure
    /\ \A c \in Clients \ unsure :
         /\ Cardinality(mapping[c]) <= Share
         /\ query.client = c => mapping[c] \subseteq query.nodes
         /\ query.client # c => mapping[c] \subseteq answer[c]

LEMMA InitTold == Init => Told
  BY EntryAssumption, FS_EmptySet DEF Init, Told, NoQuery

LEMMA NextTold == Types /\ Types' /\ Told /\ [Next]_vars => Told'
  <1> SUFFICES ASSUME Types, Types', Told, [Next]_vars PROVE Told'
    OBVIOUS
  <1> USE EntryAssumption
  <1>1. CASE Police
    <2>1. PICK dead : mapping' = [c \in Clients |-> mapping[c] \ dead]
      BY <1>1 DEF Police, Cascade
    <2>2. UNCHANGED <<query, answer, unsure>>
      BY <1>1 DEF Police
    <2>3. ASSUME NEW c \in Clients \ unsure PROVE Cardinality(mapping'[c]) <= Share
      <3>1. IsFiniteSet(mapping[c]) /\ mapping'[c] \subseteq mapping[c]
        BY <2>1, SomeNodes DEF Types, RowTypes
      <3>2. Cardinality(mapping'[c]) <= Cardinality(mapping[c])
        BY <3>1, FS_Subset
      <3>3. Cardinality(mapping[c]) \in Nat /\ Cardinality(mapping'[c]) \in Nat
        BY SomeNodes DEF Types, RowTypes
      <3> QED
        BY <3>2, <3>3 DEF Told
    <2> QED
      BY <2>1, <2>2, <2>3 DEF Told
  <1>2. ASSUME NEW c \in Clients, BeginQuery(c) PROVE Told'
    <2>1. /\ mapping' = [mapping EXCEPT ![c] = {}] /\ unsure' = unsure \ {c} /\ answer' = answer
          /\ query'.client = c /\ ~query'.bad /\ query.client = "none"
      BY <1>2 DEF BeginQuery, Opens, Busy, NoQuery
    <2>2. \A d \in Clients : mapping'[d] = IF d = c THEN {} ELSE mapping[d]
      BY <2>1 DEF Types, RowTypes
    <2> QED
      BY <2>1, <2>2, FS_EmptySet DEF Told
  <1>3. ASSUME NEW c \in Clients, BeginBadly(c) PROVE Told'
    <2>1. /\ unsure' = unsure \cup {c} /\ answer' = answer
          /\ query'.client = c /\ query.client = "none"
          /\ \A d \in Clients \ {c} : mapping'[d] = mapping[d]
      BY <1>3 DEF BeginBadly, Opens, Busy, NoQuery, Types, RowTypes
    <2> QED
      BY <2>1 DEF Told
  <1>4. CASE Try \/ TryBadly
    <2> DEFINE c == query.client
    <2>1. PICK nodes, new \in SUBSET Nodes :
            /\ Looks(nodes) /\ mapping' = [mapping EXCEPT ![c] = new]
            /\ nodes = mapping[c] \/ nodes \in Draws
            /\ Try => new = nodes /\ ~query.bad
            /\ TryBadly => query.bad
      BY <1>4, Rounds
    <2>2. c \in Clients /\ UNCHANGED <<answer, unsure>>
      BY <1>4, Rounds
    <2>3. query'.client = c /\ query'.nodes = nodes /\ query'.bad = query.bad
      BY <2>1 DEF Looks, Types, ToldTypes, Query
    <2>4. \A d \in Clients : mapping'[d] = IF d = c THEN new ELSE mapping[d]
      BY <2>1, <2>2 DEF Types, RowTypes
    <2>5. nodes \in Draws => Cardinality(nodes) <= Share
      <3>1. Cardinality(Listed) \in Nat
        BY SomeNodes DEF Listed
      <3> QED
        BY <3>1 DEF Draws
    <2>6. c \notin unsure => new = nodes /\ Cardinality(new) <= Share
      BY <1>4, <2>1, <2>2, <2>5 DEF Told
    <2> QED
      BY <2>2, <2>3, <2>4, <2>6 DEF Told
  <1>5. CASE EndQuery
    <2>1. /\ query.client \in Clients /\ UNCHANGED <<mapping, unsure>>
          /\ answer' = [answer EXCEPT ![query.client] = query.nodes]
          /\ query'.client = "none" /\ ~query'.bad
      BY <1>5 DEF EndQuery, ends, Types, ToldTypes, NoQuery
    <2>2. \A d \in Clients : answer'[d] = IF d = query.client THEN query.nodes ELSE answer[d]
      BY <2>1 DEF Types, ToldTypes
    <2> QED
      BY <2>1, <2>2 DEF Told
  <1>6. CASE EndBadly
    <2>1. /\ query.client \in unsure /\ unsure' = unsure
          /\ query'.client = "none" /\ ~query'.bad
          /\ \A d \in Clients \ {query.client} : /\ mapping'[d] = mapping[d]
                                                 /\ answer'[d] = answer[d]
      BY <1>6 DEF EndBadly, ends, Told, Types, RowTypes, ToldTypes, NoQuery
    <2> QED
      BY <2>1 DEF Told
  <1>7. ASSUME UNCHANGED <<mapping, answer, unsure, query>> PROVE Told'
    BY <1>7 DEF Told
  <1> QED
    BY <1>1, <1>2, <1>3, <1>4, <1>5, <1>6, <1>7
    DEF Next, Start, Stop, Post, PostLost, Return, TimesOut, GetASN, Upsert, AddNodeFails,
        StrayAsks, StrayUpserts, StrayFails, Moves, Tick, vars, told

\* Whatever the share and the clients, what the database remembers of a client
\* is part of what it was told last, unless its query is under way or has met an
\* error.
THEOREM EntryMappingIsToldOrLess == Spec => []MappingIsToldOrLess
  <1>1. Told => MappingIsToldOrLess
    BY DEF Told, MappingIsToldOrLess
  <1> QED
    BY <1>1, InitTypes, NextTypes, InitTold, NextTold, PTL DEF Spec

-----------------------------------------------------------------------------
(* Nodes that are up *)

\* The units that so many posts and the sleeps behind them may take
Turns(m) == m * (Sleep + 1)

LEMMA OneMoreTurn ==
    \A m \in Nat : Turns(m) \in Nat /\ Turns(m + 1) = Turns(m) + Sleep + 1
  <1> SUFFICES ASSUME NEW m \in Nat
               PROVE  Turns(m) \in Nat /\ Turns(m + 1) = Turns(m) + Sleep + 1
    OBVIOUS
  <1>1. Sleep + 1 \in Nat
    BY EntryAssumption
  <1>2. \A k, j \in Nat : k * j \in Nat /\ (k + 1) * j = k * j + j
    BY SMT
  <1>3. m * (Sleep + 1) \in Nat /\ (m + 1) * (Sleep + 1) = m * (Sleep + 1) + (Sleep + 1)
    BY <1>1, <1>2
  <1>4. Turns(m) \in Nat /\ Turns(m + 1) = Turns(m) + (Sleep + 1)
    BY <1>3 DEF Turns
  <1> QED
    BY <1>4, EntryAssumption

\* A row of a node that is up is no older than the posts missed since and the
\* one under way account for, with what is left of the sleep.
Missed ==
    \A n \in up :
      /\ call[n] = "none" => age[n] + wait[n] <= Turns(missed[n] + 1)
      /\ Pending(n) => age[n] <= Turns(missed[n] + 1) + took[n]
      /\ call[n] = "over" => age[n] <= Turns(missed[n]) + took[n]

LEMMA InitMissed == Init => Missed
  BY DEF Init, Missed

LEMMA NextMissed == Types /\ Types' /\ Missed /\ [Next]_vars => Missed'
  <1> SUFFICES ASSUME Types, Types', Missed, [Next]_vars PROVE Missed'
    OBVIOUS
  <1> USE EntryAssumption, OneMoreTurn
      DEF Missed, Pending, Types, UploaderTypes, PostTypes, RowTypes, Bounds
  <1>1. ASSUME NEW n \in Nodes, Start(n) PROVE Missed'
    BY <1>1 DEF Start, Listed
  <1>2. ASSUME NEW n \in Nodes, Stop(n) PROVE Missed'
    BY <1>2 DEF Stop, posts, rows
  <1>3. ASSUME NEW n \in Nodes, Post(n) PROVE Missed'
    BY <1>3 DEF Post, Posts, uploaders, rows
  <1>4. ASSUME NEW n \in Nodes, PostLost(n) PROVE Missed'
    BY <1>4 DEF PostLost, Posts, Misses, uploaders
  <1>5. ASSUME NEW n \in Nodes, Return(n) PROVE Missed'
    BY <1>5 DEF Return, rows
  <1>6. ASSUME NEW n \in Nodes, TimesOut(n) PROVE Missed'
    BY <1>6 DEF TimesOut, Misses, uploaders
  <1>7. ASSUME NEW n \in Nodes, GetASN(n) PROVE Missed'
    <2>1. PICK a \in {asn[n], Asn[n], Unknown} : call' = [call EXCEPT ![n] = a]
      BY <1>7 DEF GetASN
    <2>2. a \notin {"none", "asking", "over"}
      BY <2>1, WhatIsFound
    <2> QED
      BY <1>7, <2>1, <2>2 DEF GetASN, uploaders, rows
  <1>8. ASSUME NEW n \in Nodes, Upsert(n) PROVE Missed'
    BY <1>8 DEF Upsert, Writes, uploaders
  <1>9. ASSUME NEW n \in Nodes, AddNodeFails(n) PROVE Missed'
    BY <1>9 DEF AddNodeFails, Misses, uploaders
  <1>10. ASSUME NEW n \in Nodes, StrayUpserts(n) PROVE Missed'
    <2>1. /\ age' = [age EXCEPT ![n] = 0] /\ missed' = [missed EXCEPT ![n] = 0]
          /\ UNCHANGED <<up, wait, call, took>>
      BY <1>10 DEF StrayUpserts, Writes, Moves, uploaders
    <2>2. Turns(0) = 0 /\ Turns(1) = Sleep + 1
      BY DEF Turns
    <2> QED
      BY <2>1, <2>2
  <1>11. CASE Police
    <2>1. \A n \in Nodes : age'[n] = age[n] \/ age'[n] = -1
      BY <1>11 DEF Police
    <2> QED
      BY <1>11, <2>1 DEF Police, uploaders, posts
  <1>12. CASE Tick
    <2>1. \A n \in Nodes : age'[n] <= age[n] + 1 \/ age'[n] = -1
      BY <1>12 DEF Tick, Listed
    <2>2. \A n \in up : call[n] = "none" => wait[n] > 0 /\ wait'[n] = wait[n] - 1
      BY <1>12 DEF Tick, Posts
    <2>3. \A n \in Nodes : call[n] # "none" => took[n] = 0 /\ took'[n] = 1
      BY <1>12 DEF Tick
    <2>4. UNCHANGED <<up, call, missed>>
      BY <1>12 DEF Tick
    <2>5. ASSUME NEW n \in up, call[n] = "none"
          PROVE  age'[n] + wait'[n] <= Turns(missed[n] + 1)
      <3>1. age[n] + wait[n] <= Turns(missed[n] + 1) /\ n \in Nodes
        BY <2>5
      <3>2. 1 + wait'[n] = wait[n] /\ wait[n] \in Nat
        BY <2>2, <2>5, <3>1
      <3>3. Turns(missed[n] + 1) \in Nat
        BY <3>1
      <3>4. wait'[n] <= Sleep
        BY <3>1, <3>2
      <3>5. Sleep <= Turns(missed[n] + 1)
        BY <3>1
      <3>6. age[n] \in Int /\ age'[n] \in Int /\ wait'[n] \in Int /\ Sleep \in Nat
        BY <3>1, <3>2
      <3>7. CASE age'[n] <= age[n] + 1
        BY <3>1, <3>2, <3>3, <3>6, <3>7
      <3>8. CASE age'[n] = -1
        BY <3>3, <3>4, <3>5, <3>6, <3>8
      <3> QED
        BY <2>1, <3>1, <3>7, <3>8
    <2>6. ASSUME NEW n \in up, call[n] # "none"
          PROVE  /\ call[n] = "over" => age'[n] <= Turns(missed[n]) + took'[n]
                 /\ call[n] # "over" => age'[n] <= Turns(missed[n] + 1) + took'[n]
      <3>1. n \in Nodes /\ Turns(missed[n]) \in Nat /\ Turns(missed[n] + 1) \in Nat
        BY <2>6
      <3>2. age'[n] <= age[n] + 1 /\ took[n] = 0 /\ took'[n] = 1
        BY <2>1, <2>3, <2>6, <3>1
      <3>3. age[n] \in Int /\ age'[n] \in Int
        BY <3>1
      <3>4. CASE call[n] = "over"
        <4>1. age[n] <= Turns(missed[n]) + 0
          BY <2>6, <3>2, <3>4
        <4> QED
          BY <3>1, <3>2, <3>3, <3>4, <4>1
      <3>5. CASE call[n] # "over"
        <4>1. age[n] <= Turns(missed[n] + 1) + 0
          BY <2>6, <3>2, <3>5
        <4> QED
          BY <3>1, <3>2, <3>3, <3>5, <4>1
      <3> QED
        BY <3>4, <3>5
    <2> QED
      BY <2>4, <2>5, <2>6 DEF Pending
  <1>13. ASSUME UNCHANGED <<up, wait, call, took, age, missed>> PROVE Missed'
    BY <1>13
  <1> QED
    BY <1>1, <1>2, <1>3, <1>4, <1>5, <1>6, <1>7, <1>8, <1>9, <1>10, <1>11, <1>12, <1>13, Rounds
    DEF Next, StrayAsks, StrayFails, Moves, BeginQuery, BeginBadly, Opens, EndQuery, EndBadly,
        ends, vars, uploaders, posts, rows

\* A node that is up loses its row only when the posts missed in a row since it
\* was written, with the sleeps between them and ten seconds for each and for one
\* more, fill the expiry: no race of its posts, slow lookups, late AddNodes and
\* the police drops it earlier, whatever the sleep and the expiry are.
THEOREM EntryUpNodesStayListed == Spec => UpNodesStayListed
  <1>1. Types /\ Missed /\ [Next]_vars =>
          [\A n \in up : age[n] >= 0 /\ age'[n] = -1 =>
             (missed[n] + 1) * (Sleep + 1) + 1 >= Expiry]_vars
    <2> SUFFICES ASSUME Types, Missed, [Next]_vars, NEW n \in up, age[n] >= 0, age'[n] = -1
                 PROVE  (missed[n] + 1) * (Sleep + 1) + 1 >= Expiry
      OBVIOUS
    <2>1. n \in Nodes
      BY DEF Types, UploaderTypes
    <2>2. CASE Police
      <3>1. age[n] >= Expiry
        BY <2>1, <2>2 DEF Police, Expired
      <3>2. age[n] <= Turns(missed[n] + 1) + 1
        BY <2>1, EntryAssumption, OneMoreTurn
        DEF Missed, Pending, Types, UploaderTypes, RowTypes, Bounds
      <3>3. Turns(missed[n] + 1) \in Nat
        BY <2>1, OneMoreTurn DEF Types, Bounds
      <3>4. Turns(missed[n] + 1) + 1 >= Expiry
        BY <2>1, <3>1, <3>2, <3>3, EntryAssumption DEF Types, RowTypes
      <3> QED
        BY <3>4 DEF Turns
    <2>3. CASE Tick
      BY <2>1, <2>3 DEF Tick, Types, RowTypes, Listed
    <2>4. ASSUME NEW m \in Nodes, Upsert(m) \/ StrayUpserts(m) PROVE FALSE
      BY <2>1, <2>4 DEF Upsert, StrayUpserts, Writes, Types, RowTypes
    <2>5. CASE UNCHANGED age
      BY <2>5 DEF Types, RowTypes
    <2> QED
      BY <2>2, <2>3, <2>4, <2>5, Rounds
      DEF Next, Start, Stop, Post, PostLost, Return, TimesOut, GetASN, AddNodeFails, StrayAsks,
          StrayFails, Moves, BeginQuery, BeginBadly, Opens, EndQuery, EndBadly, ends, vars, rows
  <1> QED
    BY <1>1, InitTypes, NextTypes, InitMissed, NextMissed, PTL DEF Spec, UpNodesStayListed
=============================================================================
