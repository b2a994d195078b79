-------------------------- MODULE ShardFetch_proofs --------------------------
(***************************************************************************)
(* Theorems about ShardFetch, for any nodes, clients, codes and lists of   *)
(* peers: its types, where shards are, and what a download that meets no   *)
(* other one is answered.                                                  *)
(***************************************************************************)
EXTENDS ShardFetch, FiniteSetTheorems, TLAPS

----------------------------------------------------------------------------
(* The code.                                                               *)

\* Sets of shards are finite, and one more shard makes them one larger.
LEMMA IndexSets ==
  /\ \A set \in SUBSET Index : IsFiniteSet(set) /\ Cardinality(set) \in Nat
  /\ \A set \in SUBSET Index, i \in Index :
       i \notin set => Cardinality(set \cup {i}) = Cardinality(set) + 1
<1>1. TotalShards \in Nat
  BY ShardAssumption
<1>2. IsFiniteSet(Index)
  BY <1>1, FS_Interval, TotalShards - 1 \in Int, 0 \in Int DEF Index
<1>3. \A set \in SUBSET Index : IsFiniteSet(set)
  BY <1>2, FS_Subset
<1> QED
  BY <1>3, FS_CardinalityType, FS_AddElement

\* Shards that go round a list of nodes are placed on nodes.
LEMMA RoundRobinType ==
  ASSUME NEW list \in Lists
  PROVE  RoundRobin(list) \in Placement
<1>1. list \in Seq(Node) /\ list # <<>>
  BY ShardAssumption
<1>2. Len(list) \in Nat \ {0}
  BY <1>1
<1>3. \A i \in Index : i \in Nat
  BY ShardAssumption DEF Index
<1>4. ASSUME NEW i \in Index
      PROVE  list[(i % Len(list)) + 1] \in Node
  <2>1. i % Len(list) \in 0..(Len(list) - 1)
    BY <1>2, <1>3
  <2>2. (i % Len(list)) + 1 \in 1..Len(list)
    BY <2>1, <1>2
  <2> QED
    BY <2>2, <1>1
<1> QED
  BY <1>4 DEF RoundRobin, Placement

----------------------------------------------------------------------------
(* Types.                                                                  *)

\* A manifest that is there names a node for each shard.
LEMMA ManifestPlaces ==
  ASSUME TypeOK, NEW n \in Node, Has(n)
  PROVE  manifest[n].at \in Placement
BY DEF TypeOK, Has, Manifest

LEMMA UploadType ==
  ASSUME TypeOK, NEW c \in Client, DhtUpload(c)
  PROVE  TypeOK'
<1> DEFINE n == At[c]
<1>1. n \in Node
  BY ShardAssumption
<1>2. PICK list \in Lists, room \in Room, by \in Kept(n) :
        LET place == RoundRobin(list)
            here == {i \in Index : place[i] = n}
        IN  /\ chunks' = [chunks EXCEPT ![n] = @ \cup here]
            /\ own' = [own EXCEPT ![n] = @ \cup {i \in here : i < room}]
            /\ storing' = storing \cup {[from |-> n, to |-> place[i], index |-> i] : i \in Index \ here}
            /\ manifest' = [manifest EXCEPT ![n] = [at |-> place, by |-> by]]
            /\ published' = [published EXCEPT ![n] = place]
  BY DEF DhtUpload
<1> DEFINE place == RoundRobin(list)
<1>3. place \in Placement
  BY RoundRobinType
<1>4. by \in Node \cup {Nobody}
  BY <1>1 DEF Kept
<1> HIDE DEF n, place
<1>5. manifest' \in [Node -> Manifest]
  BY <1>1, <1>2, <1>3, <1>4 DEF TypeOK, Manifest, place
<1>6. published' \in [Node -> Placement \cup {<<>>}]
  BY <1>1, <1>2, <1>3 DEF TypeOK, place
<1>7. chunks' \in [Node -> SUBSET Index] /\ own' \in [Node -> SUBSET Index]
  BY <1>1, <1>2 DEF TypeOK
<1>8. storing' \subseteq Store
  BY <1>1, <1>2, <1>3 DEF TypeOK, Store, Placement, place
<1>9. answer' \in [Client -> Answer]
  BY DEF TypeOK, DhtUpload, Answer
<1> QED
  BY <1>5, <1>6, <1>7, <1>8, <1>9 DEF TypeOK, DhtUpload, history

LEMMA StoresType ==
  ASSUME TypeOK, NEW s \in storing, StoreShard(s) \/ StoreFails(s)
  PROVE  TypeOK'
<1>1. s.to \in Node /\ s.index \in Index
  BY DEF TypeOK, Store
<1>2. CASE StoreShard(s)
  BY <1>1, <1>2 DEF TypeOK, StoreShard, history
<1>3. CASE StoreFails(s)
  BY <1>1, <1>3 DEF TypeOK, StoreFails, records
<1> QED
  BY <1>2, <1>3

LEMMA PutRecordType ==
  ASSUME TypeOK, NEW n \in Node, NEW m \in Node, PutRecord(n, m)
  PROVE  TypeOK'
<1>1. PICK by \in Kept(n) : manifest' = [manifest EXCEPT ![m] = [at |-> published[n], by |-> by]]
  BY DEF PutRecord
<1>2. published[n] \in Placement
  BY DEF PutRecord, TypeOK
<1>3. by \in Node \cup {Nobody}
  BY DEF Kept
<1>4. manifest' \in [Node -> Manifest]
  BY <1>1, <1>2, <1>3 DEF TypeOK, Manifest
<1> QED
  BY <1>4 DEF TypeOK, PutRecord, history

LEMMA DeleteType ==
  ASSUME TypeOK, NEW c \in Client, DhtDelete(c)
  PROVE  TypeOK'
<1> DEFINE n == At[c]
           removed == IF Has(n) THEN own[n] ELSE {}
<1>1. n \in Node
  BY ShardAssumption
<1>2. removed \subseteq Index
  BY <1>1 DEF TypeOK
<1>3. /\ chunks' = [chunks EXCEPT ![n] = @ \ removed]
      /\ own' = [own EXCEPT ![n] = @ \ removed]
      /\ gone' = gone \cup {<<n, i>> : i \in removed}
      /\ answer' = [answer EXCEPT ![c] = "deleted"]
      /\ UNCHANGED <<storing, fetch, asked, queries, restarts, alone, lost, missed>>
  BY DEF DhtDelete
<1>4. \/ /\ manifest' = [manifest EXCEPT ![n] = NoManifest]
         /\ published' = [published EXCEPT ![n] = <<>>]
      \/ UNCHANGED <<manifest, published>>
  BY DEF DhtDelete
<1> HIDE DEF n, removed
<1>5. manifest' \in [Node -> Manifest] /\ published' \in [Node -> Placement \cup {<<>>}]
  BY <1>1, <1>4 DEF TypeOK, Manifest
<1>6. answer' \in [Client -> Answer]
  BY <1>3 DEF TypeOK, Answer
<1>7. chunks' \in [Node -> SUBSET Index] /\ own' \in [Node -> SUBSET Index]
  BY <1>1, <1>3 DEF TypeOK
<1>8. gone' \subseteq Node \X Index
  BY <1>1, <1>2, <1>3 DEF TypeOK
<1> QED
  BY <1>3, <1>5, <1>6, <1>7, <1>8 DEF TypeOK

\* What a download asks for has the shape of requests.
LEMMA AskType ==
  ASSUME NEW c \in Client, NEW place \in Placement, NEW indices \in SUBSET Index
  PROVE  Ask(c, place, indices) \subseteq Request
BY DEF Ask, Request, Placement

LEMMA DownloadType ==
  ASSUME TypeOK, NEW c \in Client, DhtDownload(c)
  PROVE  TypeOK'
<1> DEFINE n == At[c]
           here == {i \in Index : manifest[n].at[i] = n}
           got == here \cap chunks[n]
<1>1. n \in Node
  BY ShardAssumption
<1>2. alone' \subseteq Client
  BY DEF DhtDownload, DownloadLocal, DownloadSearch, Joins, TypeOK
<1>3. ASSUME NEW state \in FetchState, Begin(c, state)
      PROVE  fetch' \in [Node -> FetchState] /\ answer' \in [Client -> Answer]
  BY <1>1, <1>3 DEF Begin, TypeOK, Answer
<1>4. CASE DownloadLocal(c)
  <2>1. manifest[n].at \in Placement
    BY <1>1, <1>4, ManifestPlaces DEF DownloadLocal
  <2>2. asked' \subseteq Request
    BY <1>4, <2>1, AskType, Index \ here \in SUBSET Index DEF DownloadLocal, TypeOK
  <2>3. lost' \in [Client -> SUBSET Index]
    BY <1>4 DEF DownloadLocal, TypeOK
  <2>4. [client |-> c, got |-> got, failed |-> 0, sized |-> TRUE] \in FetchState
    BY DEF FetchState
  <2>5. \/ answer' = [answer EXCEPT ![c] = "file"] /\ UNCHANGED fetch
        \/ Begin(c, [client |-> c, got |-> got, failed |-> 0, sized |-> TRUE])
    BY <1>4 DEF DownloadLocal
  <2>6. fetch' \in [Node -> FetchState] /\ answer' \in [Client -> Answer]
    BY <1>3, <2>4, <2>5 DEF TypeOK, Answer
  <2> QED
    BY <1>2, <1>4, <2>2, <2>3, <2>6 DEF DownloadLocal, TypeOK, records
<1>5. CASE DownloadSearch(c)
  <2>1. [client |-> c, got |-> {}, failed |-> 0, sized |-> FALSE] \in FetchState
    BY DEF FetchState
  <2>2. fetch' \in [Node -> FetchState] /\ answer' \in [Client -> Answer]
    BY <1>3, <1>5, <2>1 DEF DownloadSearch
  <2> QED
    BY <1>2, <1>5, <2>2 DEF DownloadSearch, TypeOK, records
<1> QED
  BY <1>4, <1>5 DEF DhtDownload

\* A fetch may be told a size, a shard more or a failure more.
LEMMA FetchFields ==
  ASSUME TypeOK, NEW n \in Node
  PROVE  /\ [fetch EXCEPT ![n].sized = TRUE] \in [Node -> FetchState]
         /\ \A got \in SUBSET Index : [fetch EXCEPT ![n].got = got] \in [Node -> FetchState]
         /\ \A failed \in Nat : [fetch EXCEPT ![n].failed = failed] \in [Node -> FetchState]
<1> DEFINE f == fetch[n]
<1>1. f \in FetchState /\ fetch \in [Node -> FetchState]
  BY DEF TypeOK
<1>2. [f EXCEPT !.sized = TRUE] \in FetchState
  BY <1>1 DEF FetchState
<1>3. \A got \in SUBSET Index : [f EXCEPT !.got = got] \in FetchState
  BY <1>1 DEF FetchState
<1>4. \A failed \in Nat : [f EXCEPT !.failed = failed] \in FetchState
  BY <1>1 DEF FetchState
<1>5. /\ [fetch EXCEPT ![n].sized = TRUE] = [fetch EXCEPT ![n] = [f EXCEPT !.sized = TRUE]]
      /\ \A got \in SUBSET Index : [fetch EXCEPT ![n].got = got] = [fetch EXCEPT ![n] = [f EXCEPT !.got = got]]
      /\ \A failed \in Nat : [fetch EXCEPT ![n].failed = failed] = [fetch EXCEPT ![n] = [f EXCEPT !.failed = failed]]
  OBVIOUS
<1> HIDE DEF f
<1>6. \A g \in FetchState : [fetch EXCEPT ![n] = g] \in [Node -> FetchState]
  BY <1>1
<1> QED
  BY <1>2, <1>3, <1>4, <1>5, <1>6

\* An answer keeps the shape of fetches and of answers.
LEMMA AnsweredType ==
  ASSUME TypeOK, NEW n \in Node, NEW result \in Answer, Answered(n, result)
  PROVE  fetch' \in [Node -> FetchState] /\ answer' \in [Client -> Answer]
<1>1. NoFetch \in FetchState
  BY DEF NoFetch, FetchState
<1> QED
  BY <1>1 DEF Answered, TypeOK

LEMMA QueriesType ==
  ASSUME TypeOK, NEW c \in queries, FindManifest(c) \/ FindNothing(c)
  PROVE  TypeOK'
<1>1. c \in Client /\ At[c] \in Node
  BY ShardAssumption DEF TypeOK
<1>2. CASE FindManifest(c)
  <2>1. PICK m \in Node : /\ Has(m)
                          /\ asked' = asked \cup Ask(c, manifest[m].at, Index)
    BY <1>2 DEF FindManifest
  <2>2. asked' \subseteq Request
    BY <1>1, <2>1, ManifestPlaces, AskType, Index \in SUBSET Index DEF TypeOK
  <2>3. fetch' \in [Node -> FetchState]
    BY <1>1, <1>2, FetchFields DEF FindManifest, TypeOK
  <2> QED
    BY <1>2, <2>2, <2>3 DEF FindManifest, TypeOK, records, history
<1>3. CASE FindNothing(c)
  <2>1. fetch' \in [Node -> FetchState] /\ answer' \in [Client -> Answer]
    BY <1>1, <1>3, AnsweredType, "notfound" \in Answer DEF FindNothing, TypeOK, Answer
  <2> QED
    BY <1>1, <1>3, <2>1 DEF FindNothing, TypeOK, records
<1> QED
  BY <1>2, <1>3

LEMMA ShardsType ==
  ASSUME TypeOK, NEW r \in asked, FetchShard(r) \/ ShardData(r) \/ ShardFails(r)
  PROVE  TypeOK'
<1>1. r \in Request /\ r.by \in Client /\ r.index \in Index /\ At[r.by] \in Node
  BY ShardAssumption DEF TypeOK, Request
<1> DEFINE n == At[r.by]
<1>2. CASE FetchShard(r)
  <2>1. [r EXCEPT !.is = "data"] \in Request /\ [r EXCEPT !.is = "none"] \in Request
    BY <1>1 DEF Request
  <2>2. asked' \subseteq Request
    BY <1>2, <2>1 DEF FetchShard, TypeOK
  <2> QED
    BY <1>2, <2>2 DEF FetchShard, TypeOK, records, history
<1>3. CASE ShardData(r)
  <2>1. fetch[n].got \cup {r.index} \in SUBSET Index
    BY <1>1 DEF TypeOK, FetchState
  <2>2. [fetch EXCEPT ![n].got = fetch[n].got \cup {r.index}] \in [Node -> FetchState]
    BY <1>1, <2>1, FetchFields
  <2>3. (IF fetch[n].sized THEN "file" ELSE "empty") \in Answer
    BY DEF Answer
  <2>4. fetch' \in [Node -> FetchState] /\ answer' \in [Client -> Answer]
    BY <1>1, <1>3, <2>2, <2>3, AnsweredType DEF ShardData, TypeOK
  <2> QED
    BY <1>3, <2>4 DEF ShardData, TypeOK, records, history
<1>4. CASE ShardFails(r)
  <2>1. fetch[n].failed + 1 \in Nat
    BY <1>1 DEF TypeOK, FetchState
  <2>a. [fetch EXCEPT ![n].failed = fetch[n].failed + 1] \in [Node -> FetchState]
    BY <1>1, <2>1, FetchFields
  <2>b. \/ Answered(n, "notfound")
        \/ fetch' = [fetch EXCEPT ![n].failed = fetch[n].failed + 1] /\ UNCHANGED answer
        \/ UNCHANGED <<fetch, answer>>
    BY <1>4 DEF ShardFails
  <2>c. "notfound" \in Answer
    BY DEF Answer
  <2>2. fetch' \in [Node -> FetchState] /\ answer' \in [Client -> Answer]
    BY <1>1, <2>a, <2>b, <2>c, AnsweredType DEF TypeOK
  <2>3. lost' \in [Client -> SUBSET Index]
    BY <1>1, <1>4 DEF ShardFails, TypeOK
  <2> QED
    BY <1>4, <2>2, <2>3 DEF ShardFails, TypeOK, records
<1> QED
  BY <1>2, <1>3, <1>4

LEMMA RestartType ==
  ASSUME TypeOK, NEW n \in Node, Restart(n)
  PROVE  TypeOK'
<1>1. manifest' \in [Node -> Manifest]
  BY DEF Restart, TypeOK, Manifest, NoManifest
<1>2. published' \in [Node -> Placement \cup {<<>>}] /\ own' \in [Node -> SUBSET Index]
  BY DEF Restart, TypeOK
<1>3. NoFetch \in FetchState
  BY DEF NoFetch, FetchState
<1>4. fetch' \in [Node -> FetchState]
  BY <1>3 DEF Restart, TypeOK
<1>5. asked' \subseteq Request
  BY DEF Restart, TypeOK, Request
<1>6. gone' \subseteq Node \X Index /\ storing' \subseteq Store
  BY DEF Restart, TypeOK, Store
<1>7. answer' \in [Client -> Answer]
  BY DEF Restart, TypeOK, Answer
<1>8. restarts' \in 0..MaxRestarts /\ queries' \subseteq Client
  BY ShardAssumption DEF Restart, TypeOK
<1> QED
  BY <1>1, <1>2, <1>4, <1>5, <1>6, <1>7, <1>8 DEF Restart, TypeOK

LEMMA InitType == Init => TypeOK
<1> SUFFICES ASSUME Init PROVE TypeOK
  OBVIOUS
<1>1. NoFetch \in FetchState /\ NoManifest \in Manifest
  BY DEF NoFetch, FetchState, Manifest
<1>2. restarts \in 0..MaxRestarts
  BY ShardAssumption DEF Init
<1> QED
  BY <1>1, <1>2 DEF Init, TypeOK, Answer

LEMMA NextType == TypeOK /\ [Next]_vars => TypeOK'
<1> SUFFICES ASSUME TypeOK, [Next]_vars PROVE TypeOK'
  OBVIOUS
<1>1. CASE Commands
  BY <1>1, UploadType, DownloadType, DeleteType DEF Commands
<1>2. CASE Stores
  BY <1>2, StoresType DEF Stores
<1>3. CASE Shards
  BY <1>3, ShardsType DEF Shards
<1>4. CASE Queries
  BY <1>4, QueriesType DEF Queries
<1>5. CASE Dht
  BY <1>5, PutRecordType DEF Dht
<1>6. CASE Restarts
  BY <1>6, RestartType DEF Restarts
<1>7. CASE UNCHANGED vars
  BY <1>7 DEF vars, records, history, TypeOK
<1> QED
  BY <1>1, <1>2, <1>3, <1>4, <1>5, <1>6, <1>7 DEF Next

\* The variables keep their types, for any nodes, clients, lists and codes.
THEOREM TypeOKHolds == Spec => []TypeOK
<1> QED
  BY InitType, NextType, PTL DEF Spec

----------------------------------------------------------------------------
(* Where shards are.                                                       *)

\* Shard i is on p, on its way there, or is accounted for as gone.
Traced(p, i) ==
  \/ i \in chunks[p]
  \/ \E s \in storing : s.to = p /\ s.index = i
  \/ <<p, i>> \in gone

TracedAll(place) == \A i \in Index : Traced(place[i], i)

\* The invariant has what a node publishes, too: other nodes will hold it.
Traces ==
  \A n \in Node : /\ Has(n) => TracedAll(manifest[n].at)
                  /\ published[n] # <<>> => TracedAll(published[n])

\* A shard is never lost without being accounted for, whatever is done.
LEMMA TracedStays ==
  ASSUME TypeOK, [Next]_vars, NEW p \in Node, NEW i \in Index, Traced(p, i)
  PROVE  Traced(p, i)'
<1>1. ASSUME NEW c \in Client, DhtUpload(c) \/ DhtDownload(c)
      PROVE  Traced(p, i)'
  <2>1. chunks[p] \subseteq chunks'[p] /\ storing \subseteq storing' /\ UNCHANGED gone
    BY <1>1, ShardAssumption
    DEF DhtUpload, DhtDownload, DownloadLocal, DownloadSearch, TypeOK, records, history
  <2> QED
    BY <2>1 DEF Traced
<1>2. ASSUME NEW c \in Client, DhtDelete(c)
      PROVE  Traced(p, i)'
  <2> DEFINE removed == IF Has(At[c]) THEN own[At[c]] ELSE {}
  <2>1. /\ chunks' = [chunks EXCEPT ![At[c]] = @ \ removed]
        /\ gone' = gone \cup {<<At[c], j>> : j \in removed}
        /\ UNCHANGED storing
    BY <1>2 DEF DhtDelete
  <2> HIDE DEF removed
  <2> QED
    BY <2>1 DEF Traced, TypeOK
<1>3. ASSUME NEW s \in storing, StoreShard(s) \/ StoreFails(s)
      PROVE  Traced(p, i)'
  <2>1. s.to \in Node /\ s.index \in Index
    BY DEF TypeOK, Store
  <2>2. CASE StoreShard(s)
    BY <2>1, <2>2 DEF StoreShard, Traced, TypeOK, history
  <2>3. CASE StoreFails(s)
    BY <2>1, <2>3 DEF StoreFails, Traced, TypeOK, records
  <2> QED
    BY <1>3, <2>2, <2>3
<1>4. ASSUME NEW n \in Node, Restart(n)
      PROVE  Traced(p, i)'
  BY <1>4 DEF Restart, Traced
<1>5. CASE Shards \/ Queries \/ Dht \/ UNCHANGED vars
  <2>1. UNCHANGED <<chunks, storing, gone>>
    BY <1>5 DEF Shards, FetchShard, ShardData, ShardFails, Queries, FindManifest, FindNothing,
                Dht, PutRecord, vars, records, history
  <2> QED
    BY <2>1 DEF Traced
<1> QED
  BY <1>1, <1>2, <1>3, <1>4, <1>5 DEF Next, Commands, Stores, Restarts

\* An upload leaves each shard on the node its placement names or on its way there.
LEMMA UploadTraced ==
  ASSUME TypeOK, Traces, NEW c \in Client, DhtUpload(c),
         \A place \in Placement : TracedAll(place) => TracedAll(place)'
  PROVE  Traces'
<1> DEFINE n == At[c]
<1>1. n \in Node
  BY ShardAssumption
<1>2. PICK list \in Lists, by \in Kept(n) :
        LET place == RoundRobin(list)
            here == {i \in Index : place[i] = n}
        IN  /\ chunks' = [chunks EXCEPT ![n] = @ \cup here]
            /\ storing' = storing \cup {[from |-> n, to |-> place[i], index |-> i] : i \in Index \ here}
            /\ manifest' = [manifest EXCEPT ![n] = [at |-> place, by |-> by]]
            /\ published' = [published EXCEPT ![n] = place]
  BY DEF DhtUpload
<1> DEFINE place == RoundRobin(list)
<1>3. place \in Placement
  BY RoundRobinType
<1>4. ASSUME NEW i \in Index
      PROVE  Traced(place[i], i)'
  <2>1. CASE place[i] = n
    BY <1>1, <1>2, <2>1 DEF Traced, TypeOK
  <2>2. CASE place[i] # n
    <3>1. [from |-> n, to |-> place[i], index |-> i] \in storing'
      BY <1>2, <2>2
    <3> QED
      BY <3>1 DEF Traced
  <2> QED
    BY <2>1, <2>2
<1>5. TracedAll(place)'
  BY <1>4 DEF TracedAll
<1>6. manifest'[n].at = place /\ published'[n] = place
  BY <1>1, <1>2 DEF TypeOK
<1>7. \A m \in Node \ {n} : manifest'[m] = manifest[m] /\ published'[m] = published[m]
  BY <1>1, <1>2 DEF TypeOK
<1> HIDE DEF n, place
<1>8. ASSUME NEW m \in Node
      PROVE  /\ Has(m)' => TracedAll(manifest[m].at)'
             /\ (published[m] # <<>>)' => TracedAll(published[m])'
  <2>1. CASE m = n
    BY <1>5, <1>6, <2>1 DEF TracedAll, Traced
  <2>2. CASE m # n
    <3>1. Has(m)' => Has(m) /\ manifest[m].at \in Placement
      BY <1>7, <2>2, ManifestPlaces DEF Has
    <3>2. published[m] # <<>> => published[m] \in Placement
      BY DEF TypeOK
    <3> QED
      BY <1>7, <2>2, <3>1, <3>2 DEF Traces, TracedAll, Traced
  <2> QED
    BY <2>1, <2>2
<1> QED
  BY <1>8 DEF Traces

LEMMA NextTraces == TypeOK /\ Traces /\ [Next]_vars => Traces'
<1> SUFFICES ASSUME TypeOK, Traces, [Next]_vars PROVE Traces'
  OBVIOUS
<1>1. \A place \in Placement : TracedAll(place) => TracedAll(place)'
  <2> SUFFICES ASSUME NEW place \in Placement, TracedAll(place), NEW i \in Index
               PROVE  Traced(place[i], i)'
    BY DEF TracedAll
  <2>1. place[i] \in Node
    BY DEF Placement
  <2> QED
    BY <2>1, TracedStays DEF TracedAll
<1>2. CASE \E c \in Client : DhtUpload(c)
  BY <1>1, <1>2, UploadTraced
<1>3. CASE ~\E c \in Client : DhtUpload(c)
  <2>1. \A n \in Node : published'[n] = published[n] \/ published'[n] = <<>>
    <3>1. CASE (\E c \in Client : DhtDelete(c)) \/ Restarts
      BY <3>1 DEF DhtDelete, Restarts, Restart, TypeOK
    <3>2. CASE (\E c \in Client : DhtDownload(c)) \/ Stores \/ Shards \/ Queries \/ Dht \/ UNCHANGED vars
      <4>1. UNCHANGED published
        BY <3>2 DEF DhtDownload, DownloadLocal, DownloadSearch, Stores, StoreShard,
                    StoreFails, Shards, FetchShard, ShardData, ShardFails, Queries, FindManifest,
                    FindNothing, Dht, PutRecord, vars, records, history
      <4> QED
        BY <4>1
    <3> QED
      BY <1>3, <3>1, <3>2 DEF Next, Commands
  <2>2. ASSUME NEW n \in Node, Has(n)'
        PROVE  \/ Has(n) /\ manifest'[n].at = manifest[n].at
               \/ \E m \in Node : published[m] # <<>> /\ manifest'[n].at = published[m]
    <3>1. CASE \E c \in Client : DhtDelete(c)
      <4>1. manifest'[n] = manifest[n] \/ manifest'[n] = NoManifest
        BY <3>1 DEF DhtDelete, TypeOK
      <4> QED
        BY <2>2, <4>1 DEF Has
    <3>2. CASE Dht
      <4>1. PICK m \in Node, k \in Node : PutRecord(m, k)
        BY <3>2 DEF Dht
      <4>2. published[m] # <<>>
        BY <4>1 DEF PutRecord
      <4>3. CASE n = k
        BY <4>1, <4>2, <4>3 DEF PutRecord, TypeOK
      <4>4. CASE n # k
        <5>1. manifest'[n] = manifest[n]
          BY <4>1, <4>4 DEF PutRecord, TypeOK
        <5> QED
          BY <2>2, <5>1 DEF Has
      <4> QED
        BY <4>3, <4>4
    <3>3. CASE Restarts
      <4>1. manifest'[n] = manifest[n] \/ manifest'[n] = [manifest[n] EXCEPT !.by = Nobody]
        BY <3>3 DEF Restarts, Restart, TypeOK
      <4>2. [manifest[n] EXCEPT !.by = Nobody].at = manifest[n].at
        BY DEF TypeOK, Manifest, NoManifest
      <4>3. manifest[n] = NoManifest => [manifest[n] EXCEPT !.by = Nobody] = NoManifest
        BY DEF NoManifest
      <4> QED
        BY <2>2, <4>1, <4>2, <4>3 DEF Has
    <3>4. CASE (\E c \in Client : DhtDownload(c)) \/ Stores \/ Shards \/ Queries \/ UNCHANGED vars
      <4>1. UNCHANGED manifest
        BY <3>4 DEF DhtDownload, DownloadLocal, DownloadSearch, Stores, StoreShard,
                    StoreFails, Shards, FetchShard, ShardData, ShardFails, Queries, FindManifest,
                    FindNothing, vars, records, history
      <4> QED
        BY <2>2, <4>1 DEF Has
    <3> QED
      BY <1>3, <3>1, <3>2, <3>3, <3>4 DEF Next, Commands
  <2>3. ASSUME NEW n \in Node, Has(n)'
        PROVE  TracedAll(manifest[n].at)'
    <3>1. CASE Has(n) /\ manifest'[n].at = manifest[n].at
      <4>1. manifest[n].at \in Placement /\ TracedAll(manifest[n].at)
        BY <3>1, ManifestPlaces DEF Traces
      <4> QED
        BY <1>1, <3>1, <4>1 DEF TracedAll, Traced
    <3>2. CASE \E m \in Node : published[m] # <<>> /\ manifest'[n].at = published[m]
      <4>1. PICK m \in Node : published[m] # <<>> /\ manifest'[n].at = published[m]
        BY <3>2
      <4>2. published[m] \in Placement /\ TracedAll(published[m])
        BY <4>1 DEF Traces, TypeOK
      <4> QED
        BY <1>1, <4>1, <4>2 DEF TracedAll, Traced
    <3> QED
      BY <2>2, <2>3, <3>1, <3>2
  <2>4. ASSUME NEW n \in Node, (published[n] # <<>>)'
        PROVE  TracedAll(published[n])'
    <3>1. published'[n] = published[n]
      BY <2>1, <2>4
    <3>2. published[n] \in Placement /\ TracedAll(published[n])
      BY <2>4, <3>1 DEF Traces, TypeOK
    <3> QED
      BY <1>1, <3>1, <3>2 DEF TracedAll, Traced
  <2> QED
    BY <2>3, <2>4 DEF Traces
<1> QED
  BY <1>2, <1>3

\* Wherever a manifest is found, each shard is on the node it names or on its way
\* there, unless it failed to arrive there or was deleted there.
THEOREM ShardsAreWhereManifestsSayHolds == Spec => []ShardsAreWhereManifestsSay
<1>1. Init => TypeOK /\ Traces
  BY InitType DEF Init, Traces, Has
<1>2. TypeOK /\ Traces /\ [Next]_vars => (TypeOK /\ Traces)'
  BY NextType, NextTraces
<1>3. Traces => ShardsAreWhereManifestsSay
  BY DEF Traces, TracedAll, Traced, ShardsAreWhereManifestsSay
<1> QED
  BY <1>1, <1>2, <1>3, PTL DEF Spec

----------------------------------------------------------------------------
(* What a download that meets no other one is answered.                    *)

\* A shard that a client has not got is not asked for again, nor is any asked for twice.
AskedOnce ==
  /\ \A r \in asked : r.index \notin lost[r.by]
  /\ \A r \in asked, q \in asked : r.by = q.by /\ r.index = q.index => r = q

\* Nothing is under way for a client that has not begun; while its manifest is
\* looked for, none of its shards is.
InOrder ==
  /\ \A c \in Client : answer[c] = "none" \/ c \in queries =>
       lost[c] = {} /\ \A r \in asked : r.by # c
  /\ \A c \in queries : answer[c] # "none"

\* A fetch is of a client of its node and lacks shards.
Fetches ==
  \A n \in Node : Fetching(n) =>
    /\ At[fetch[n].client] = n
    /\ Cardinality(fetch[n].got) < DataShards

\* What is known of a client whose download is alone at its node.
Alone(c) ==
  LET n == At[c]
  IN  /\ \A r \in asked : At[r.by] = n => r.by = c
      /\ \A k \in queries : At[k] = n => k = c
      /\ Fetching(n) =>
           /\ fetch[n].client = c
           /\ fetch[n].failed <= Cardinality(lost[c])
           /\ fetch[n].sized \/ c \in queries
      /\ answer[c] # "empty"
      /\ answer[c] = "notfound" => c \in missed \/ TooMany(lost[c])

LoneInv == AskedOnce /\ InOrder /\ Fetches /\ \A c \in alone : Alone(c)

\* What leaves fetches and requests alone disturbs none of this.
LEMMA ApartStays ==
  ASSUME TypeOK, LoneInv, UNCHANGED <<fetch, asked, queries, alone, lost, missed>>,
         \A c \in Client : answer'[c] = answer[c] \/ answer'[c] \in {"stored", "deleted"}
  PROVE  LoneInv'
<1>1. AskedOnce' /\ Fetches'
  BY DEF LoneInv, AskedOnce, Fetches, Fetching
<1>2. InOrder'
  BY DEF LoneInv, InOrder, TypeOK
<1>3. \A c \in alone : Alone(c)'
  BY DEF LoneInv, Alone, Fetching, TooMany, TypeOK
<1> QED
  BY <1>1, <1>2, <1>3 DEF LoneInv

LEMMA ApartLone ==
  ASSUME TypeOK, LoneInv,
         \/ \E c \in Client : DhtUpload(c) \/ DhtDelete(c)
         \/ Stores \/ Dht \/ UNCHANGED vars
  PROVE  LoneInv'
<1>1. UNCHANGED <<fetch, asked, queries, alone, lost, missed>>
  BY DEF DhtUpload, DhtDelete, Stores, StoreShard, StoreFails, Dht, PutRecord, vars, records, history
<1>2. \A c \in Client : answer'[c] = answer[c] \/ answer'[c] \in {"stored", "deleted"}
  BY DEF DhtUpload, DhtDelete, Stores, StoreShard, StoreFails, Dht, PutRecord, vars, records, history, TypeOK
<1> QED
  BY <1>1, <1>2, ApartStays

\* Clients at other nodes than n do not notice what happens to the downloads at n.
LEMMA OtherNodes ==
  ASSUME TypeOK, LoneInv, NEW n \in Node, NEW k \in alone, At[k] # n, k \in Client,
         \A m \in Node \ {n} : fetch'[m] = fetch[m],
         \A r \in asked' : At[r.by] = n \/ \E q \in asked : q.by = r.by,
         \A c \in queries' : At[c] = n \/ c \in queries,
         \A c \in queries : At[c] = n \/ c \in queries',
         answer'[k] = answer[k] \/ answer'[k] = "broken",
         lost'[k] = lost[k], missed \subseteq missed'
  PROVE  Alone(k)'
<1> DEFINE m == At[k]
<1>1. m \in Node \ {n}
  BY ShardAssumption
<1>2. Alone(k)
  BY DEF LoneInv
<1>3. fetch'[m] = fetch[m] /\ (Fetching(m)' <=> Fetching(m))
  BY <1>1 DEF Fetching
<1>4. \A r \in asked' : At[r.by] = m => r.by = k
  BY <1>1, <1>2 DEF Alone
<1>5. \A c \in queries' : At[c] = m => c = k
  BY <1>1, <1>2 DEF Alone
<1>6. k \in queries => k \in queries'
  OBVIOUS
<1>7. TooMany(lost[k])' <=> TooMany(lost[k])
  BY DEF TooMany
<1> QED
  BY <1>2, <1>3, <1>4, <1>5, <1>6, <1>7 DEF Alone

\* Whoever is told something when a fetch ends or is replaced is at its node.
LEMMA ToldAtNode ==
  ASSUME TypeOK, LoneInv, NEW n \in Node, NEW k \in Client, k = fetch[n].client
  PROVE  Fetching(n) /\ At[k] = n
<1>1. Fetching(n)
  BY ShardAssumption DEF Fetching
<1> QED
  BY <1>1 DEF LoneInv, Fetches

LEMMA FetchShardLone ==
  ASSUME TypeOK, LoneInv, NEW r \in asked, FetchShard(r)
  PROVE  LoneInv'
<1>1. PICK is \in {"data", "none"} : asked' = (asked \ {r}) \cup {[r EXCEPT !.is = is]}
  BY DEF FetchShard
<1>2. r \in Request
  BY DEF TypeOK
<1>3. [r EXCEPT !.is = is].by = r.by /\ [r EXCEPT !.is = is].index = r.index
  BY <1>2 DEF Request
<1>4. UNCHANGED <<fetch, queries, answer, alone, lost, missed>>
  BY DEF FetchShard, history
<1> DEFINE new == [r EXCEPT !.is = is]
<1> HIDE DEF new
<1>5. \A q \in asked' : q \in asked \/ q = new
  BY <1>1 DEF new
<1>6. new.by = r.by /\ new.index = r.index
  BY <1>3 DEF new
<1>7. AskedOnce'
  <2>1. \A q \in asked' : q.index \notin lost'[q.by]
    BY <1>4, <1>5, <1>6 DEF LoneInv, AskedOnce
  <2>2. \A q \in asked' : q # new => q \in asked /\ q # r
    BY <1>1 DEF new
  <2>3. \A q \in asked' : q.by = new.by /\ q.index = new.index => q = new
    BY <1>6, <2>2 DEF LoneInv, AskedOnce
  <2> QED
    BY <2>1, <2>2, <2>3 DEF LoneInv, AskedOnce
<1>8. InOrder' /\ Fetches'
  BY <1>4, <1>5, <1>6 DEF LoneInv, InOrder, Fetches, Fetching
<1>9. \A c \in alone : Alone(c)'
  BY <1>4, <1>5, <1>6 DEF LoneInv, Alone, Fetching, TooMany
<1> QED
  BY <1>4, <1>7, <1>8, <1>9 DEF LoneInv

\* A client that downloads at once or waits has begun, and is alone unless another
\* download was under way: its fetch is new, or there is none.
LEMMA JoinLone ==
  ASSUME TypeOK, LoneInv, NEW c \in Client, answer[c] = "none", Joins(c),
         \/ answer' = [answer EXCEPT ![c] = "file"] /\ UNCHANGED fetch
         \/ \E got \in SUBSET Index, sized \in BOOLEAN :
              /\ Cardinality(got) < DataShards
              /\ sized \/ c \in queries'
              /\ Begin(c, [client |-> c, got |-> got, failed |-> 0, sized |-> sized]),
         asked \subseteq asked', \A r \in asked' : r \in asked \/ r.by = c,
         queries \subseteq queries', \A k \in queries' : k \in queries \/ k = c,
         lost' \in [Client -> SUBSET Index],
         \A k \in Client \ {c} : lost'[k] = lost[k],
         UNCHANGED missed
  PROVE  /\ Fetches'
         /\ \A k \in alone' : Alone(k)'
         /\ \A k \in Client : answer'[k] = "none" => k # c /\ answer[k] = "none"
<1> DEFINE n == At[c]
<1>1. n \in Node /\ At \in [Client -> Node]
  BY ShardAssumption
<1>2. \A m \in Node \ {n} : fetch'[m] = fetch[m]
  BY DEF Begin, TypeOK
<1>3. \/ fetch'[n] = fetch[n]
      \/ \E got \in SUBSET Index, sized \in BOOLEAN :
           /\ Cardinality(got) < DataShards
           /\ sized \/ c \in queries'
           /\ fetch'[n] = [client |-> c, got |-> got, failed |-> 0, sized |-> sized]
  BY <1>1 DEF Begin, TypeOK
<1>4. answer'[c] \in {"file", "waiting"}
  BY DEF Begin, TypeOK
<1>5. \A k \in Client \ {c} : answer'[k] = answer[k] \/ (k = fetch[n].client /\ answer'[k] = "notfound")
  <2>1. CASE answer' = [answer EXCEPT ![c] = "file"]
    BY <2>1 DEF TypeOK
  <2>2. CASE \E state : Begin(c, state)
    BY <2>2 DEF Begin
  <2> QED
    BY <2>1, <2>2
<1>6. Fetches'
  <2> SUFFICES ASSUME NEW m \in Node, Fetching(m)'
               PROVE  At[fetch'[m].client] = m /\ Cardinality(fetch'[m].got) < DataShards
    BY DEF Fetches
  <2>1. CASE fetch'[m] = fetch[m]
    BY <2>1 DEF LoneInv, Fetches, Fetching
  <2>2. CASE fetch'[m] # fetch[m]
    <3>1. m = n
      BY <1>2, <2>2
    <3>2. PICK got \in SUBSET Index, sized \in BOOLEAN :
            /\ Cardinality(got) < DataShards
            /\ fetch'[n] = [client |-> c, got |-> got, failed |-> 0, sized |-> sized]
      BY <1>3, <2>2, <3>1
    <3> QED
      BY <3>1, <3>2
  <2> QED
    BY <2>1, <2>2
<1>7. ASSUME NEW k \in alone'
      PROVE  Alone(k)'
  <2>1. \/ k = c /\ ~Busy(n)
        \/ k \in alone /\ At[k] # n
    BY DEF Joins, TypeOK
  <2>2. CASE k = c /\ ~Busy(n)
    <3>1. /\ ~Fetching(n)
          /\ \A r \in asked : At[r.by] # n
          /\ \A q \in queries : At[q] # n
      BY <2>2 DEF Busy
    <3>2. Cardinality(lost'[c]) \in Nat
      BY IndexSets
    <3>3. Fetching(n)' => /\ fetch'[n].client = c
                          /\ fetch'[n].failed = 0
                          /\ fetch'[n].sized \/ c \in queries'
      <4>1. CASE fetch'[n] = fetch[n]
        BY <3>1, <4>1 DEF Fetching
      <4>2. CASE fetch'[n] # fetch[n]
        <5>1. PICK got \in SUBSET Index, sized \in BOOLEAN :
                /\ sized \/ c \in queries'
                /\ fetch'[n] = [client |-> c, got |-> got, failed |-> 0, sized |-> sized]
          BY <1>3, <4>2
        <5> QED
          BY <5>1
      <4> QED
        BY <4>1, <4>2
    <3> QED
      BY <1>4, <2>2, <3>1, <3>2, <3>3 DEF Alone
  <2>3. CASE k \in alone /\ At[k] # n
    <3>1. k \in Client /\ k # c
      BY <2>3 DEF TypeOK
    <3>2. answer'[k] = answer[k]
      BY <1>1, <1>5, <2>3, <3>1, ToldAtNode
    <3> QED
      BY <1>1, <1>2, <2>3, <3>1, <3>2, OtherNodes
  <2> QED
    BY <2>1, <2>2, <2>3
<1>8. \A k \in Client : answer'[k] = "none" => k # c /\ answer[k] = "none"
  BY <1>4, <1>5
<1> QED
  BY <1>6, <1>7, <1>8

LEMMA DownloadLocalLone ==
  ASSUME TypeOK, LoneInv, NEW c \in Client, DownloadLocal(c)
  PROVE  LoneInv'
<1> DEFINE n == At[c]
           place == manifest[n].at
           here == {i \in Index : place[i] = n}
           got == here \cap chunks[n]
<1>1. /\ answer[c] = "none" /\ Joins(c)
      /\ asked' = asked \cup Ask(c, place, Index \ here)
      /\ lost' = [lost EXCEPT ![c] = here \ got]
      /\ UNCHANGED <<queries, missed>>
  BY DEF DownloadLocal
<1>2. \/ answer' = [answer EXCEPT ![c] = "file"] /\ UNCHANGED fetch
      \/ /\ ~(Cardinality(got) >= DataShards)
         /\ Begin(c, [client |-> c, got |-> got, failed |-> 0, sized |-> TRUE])
  BY DEF DownloadLocal
<1>3. Cardinality(got) \in Nat /\ DataShards \in Nat
  BY IndexSets, ShardAssumption, got \in SUBSET Index
<1>4. \A r \in Ask(c, place, Index \ here) : r.by = c /\ r.index \in Index \ here
  BY DEF Ask
<1>5. \A r \in Ask(c, place, Index \ here), q \in Ask(c, place, Index \ here) : r.index = q.index => r = q
  BY DEF Ask
<1>6. lost' \in [Client -> SUBSET Index] /\ lost'[c] = here \ got
      /\ \A k \in Client \ {c} : lost'[k] = lost[k]
  BY <1>1 DEF TypeOK
<1>7. c \notin queries /\ \A r \in asked : r.by # c
  BY <1>1 DEF LoneInv, InOrder
<1>8. got \in SUBSET Index
  OBVIOUS
<1> HIDE DEF n, place, here, got
<1>9. \/ answer' = [answer EXCEPT ![c] = "file"] /\ UNCHANGED fetch
      \/ \E set \in SUBSET Index, sized \in BOOLEAN :
           /\ Cardinality(set) < DataShards
           /\ sized \/ c \in queries'
           /\ Begin(c, [client |-> c, got |-> set, failed |-> 0, sized |-> sized])
  <2>1. CASE answer' = [answer EXCEPT ![c] = "file"] /\ UNCHANGED fetch
    BY <2>1
  <2>2. CASE Begin(c, [client |-> c, got |-> got, failed |-> 0, sized |-> TRUE]) /\ ~(Cardinality(got) >= DataShards)
    <3>1. Cardinality(got) < DataShards
      BY <1>3, <2>2
    <3> QED
      BY <1>8, <2>2, <3>1
  <2> QED
    BY <1>2, <2>1, <2>2
<1>10. /\ asked \subseteq asked' /\ \A r \in asked' : r \in asked \/ r.by = c
       /\ queries \subseteq queries' /\ \A k \in queries' : k \in queries \/ k = c
  BY <1>1, <1>4
<1>11. /\ Fetches'
       /\ \A k \in alone' : Alone(k)'
       /\ \A k \in Client : answer'[k] = "none" => k # c /\ answer[k] = "none"
  BY <1>1, <1>6, <1>9, <1>10, JoinLone
<1>12. AskedOnce'
  <2>1. ASSUME NEW r \in asked'
        PROVE  r.index \notin lost'[r.by]
    <3>1. CASE r \in asked
      <4>1. r.by \in Client \ {c} /\ r.index \notin lost[r.by]
        BY <1>7, <3>1 DEF LoneInv, AskedOnce, TypeOK, Request
      <4> QED
        BY <1>6, <4>1
    <3>2. CASE r \in Ask(c, place, Index \ here)
      BY <1>4, <1>6, <3>2
    <3> QED
      BY <1>1, <3>1, <3>2
  <2>2. \A r \in asked', q \in asked' : r.by = q.by /\ r.index = q.index => r = q
    BY <1>1, <1>4, <1>5, <1>7 DEF LoneInv, AskedOnce
  <2> QED
    BY <2>1, <2>2 DEF AskedOnce
<1>13. InOrder'
  <2>1. \A k \in Client : answer'[k] = "none" \/ k \in queries' =>
          /\ k # c
          /\ answer[k] = "none" \/ k \in queries
    BY <1>1, <1>7, <1>11
  <2>2. \A k \in Client : answer'[k] = "none" \/ k \in queries' =>
          lost'[k] = {} /\ \A r \in asked' : r.by # k
    BY <1>6, <1>10, <2>1 DEF LoneInv, InOrder
  <2>3. \A k \in queries' : answer'[k] # "none"
    BY <1>1, <1>11 DEF LoneInv, InOrder, TypeOK
  <2> QED
    BY <2>2, <2>3 DEF InOrder
<1> QED
  BY <1>11, <1>12, <1>13 DEF LoneInv

LEMMA DownloadSearchLone ==
  ASSUME TypeOK, LoneInv, NEW c \in Client, DownloadSearch(c)
  PROVE  LoneInv'
<1>1. /\ answer[c] = "none" /\ Joins(c) /\ queries' = queries \cup {c}
      /\ Begin(c, [client |-> c, got |-> {}, failed |-> 0, sized |-> FALSE])
      /\ UNCHANGED <<asked, lost, missed>>
  BY DEF DownloadSearch
<1>2. Cardinality({}) < DataShards /\ {} \in SUBSET Index /\ FALSE \in BOOLEAN /\ c \in queries'
  BY <1>1, FS_EmptySet, ShardAssumption
<1>3. \E set \in SUBSET Index, sized \in BOOLEAN :
        /\ Cardinality(set) < DataShards
        /\ sized \/ c \in queries'
        /\ Begin(c, [client |-> c, got |-> set, failed |-> 0, sized |-> sized])
  BY <1>1, <1>2
<1>4. lost' \in [Client -> SUBSET Index] /\ \A k \in Client \ {c} : lost'[k] = lost[k]
  BY <1>1 DEF TypeOK
<1>5. /\ asked \subseteq asked' /\ \A r \in asked' : r \in asked \/ r.by = c
      /\ queries \subseteq queries' /\ \A k \in queries' : k \in queries \/ k = c
  BY <1>1
<1>6. /\ Fetches'
      /\ \A k \in alone' : Alone(k)'
      /\ \A k \in Client : answer'[k] = "none" => k # c /\ answer[k] = "none"
  BY <1>1, <1>3, <1>4, <1>5, JoinLone
<1>7. AskedOnce'
  BY <1>1 DEF LoneInv, AskedOnce
<1>8. InOrder'
  <2>1. \A k \in Client : answer'[k] = "none" \/ k \in queries' => answer[k] = "none" \/ k \in queries
    BY <1>1, <1>6
  <2>2. \A k \in Client : answer'[k] = "none" \/ k \in queries' =>
          lost'[k] = {} /\ \A r \in asked' : r.by # k
    BY <1>1, <2>1 DEF LoneInv, InOrder
  <2>3. \A k \in queries' : answer'[k] # "none"
    BY <1>1, <1>6 DEF LoneInv, InOrder, TypeOK
  <2> QED
    BY <2>2, <2>3 DEF InOrder
<1> QED
  BY <1>6, <1>7, <1>8 DEF LoneInv

\* A manifest found sets off the requests of the client whose query found it.
LEMMA FindManifestLone ==
  ASSUME TypeOK, LoneInv, NEW c \in queries, FindManifest(c)
  PROVE  LoneInv'
<1> DEFINE n == At[c]
<1>1. PICK m \in Node : asked' = asked \cup Ask(c, manifest[m].at, Index)
  BY DEF FindManifest
<1> DEFINE new == Ask(c, manifest[m].at, Index)
<1>2. /\ queries' = queries \ {c}
      /\ UNCHANGED <<answer, alone, lost, missed>>
      /\ fetch' = IF Fetching(n) THEN [fetch EXCEPT ![n].sized = TRUE] ELSE fetch
  BY DEF FindManifest, history
<1>3. c \in Client /\ n \in Node
  BY ShardAssumption DEF TypeOK
<1>4. /\ \A r \in new : r.by = c
      /\ \A r \in new, q \in new : r.index = q.index => r = q
  BY DEF Ask
<1>5. lost[c] = {} /\ (\A r \in asked : r.by # c) /\ answer[c] # "none"
  BY <1>3 DEF LoneInv, InOrder
<1>6. /\ \A k \in Node \ {n} : fetch'[k] = fetch[k]
      /\ fetch'[n].client = fetch[n].client /\ fetch'[n].got = fetch[n].got
      /\ fetch'[n].failed = fetch[n].failed
      /\ Fetching(n) => fetch'[n].sized
  BY <1>2, <1>3 DEF TypeOK, FetchState
<1> HIDE DEF n, new
<1>7. AskedOnce'
  <2>1. asked' = asked \cup new
    BY <1>1 DEF new
  <2>2. \A r \in asked' : r.index \notin lost'[r.by]
    BY <1>2, <1>4, <1>5, <2>1 DEF LoneInv, AskedOnce
  <2>3. \A r \in asked', q \in asked' : r.by = q.by /\ r.index = q.index => r = q
    BY <1>4, <1>5, <2>1 DEF LoneInv, AskedOnce
  <2> QED
    BY <2>2, <2>3 DEF AskedOnce
<1>8. InOrder'
  BY <1>1, <1>2, <1>4, <1>5 DEF LoneInv, InOrder, new
<1>9. Fetches'
  BY <1>3, <1>6 DEF LoneInv, Fetches, Fetching
<1>10. ASSUME NEW k \in alone
       PROVE  Alone(k)'
  <2>1. k \in Client /\ Alone(k)
    BY DEF TypeOK, LoneInv
  <2>2. CASE At[k] = n
    <3>1. k = c
      BY <2>1, <2>2 DEF Alone, n
    <3>2. Fetching(n)' <=> Fetching(n)
      BY <1>6 DEF Fetching
    <3>3. TooMany(lost[k])' <=> TooMany(lost[k])
      BY <1>2 DEF TooMany
    <3> QED
      BY <1>1, <1>2, <1>4, <1>6, <2>1, <2>2, <3>1, <3>2, <3>3 DEF Alone, new
  <2>3. CASE At[k] # n
    <3>1. \A r \in asked' : At[r.by] = n \/ \E q \in asked : q.by = r.by
      BY <1>1, <1>4 DEF new, n
    <3> QED
      BY <1>2, <1>3, <1>6, <2>1, <2>3, <3>1, OtherNodes DEF n
  <2> QED
    BY <2>2, <2>3
<1> QED
  BY <1>2, <1>7, <1>8, <1>9, <1>10 DEF LoneInv

\* The end of a fetch leaves the other nodes' fetches, and tells its client only.
LEMMA AnsweredElsewhere ==
  ASSUME TypeOK, LoneInv, NEW n \in Node, NEW result, Answered(n, result)
  PROVE  /\ ~Fetching(n)'
         /\ \A m \in Node \ {n} : fetch'[m] = fetch[m]
         /\ \A k \in Client : answer'[k] = IF k = fetch[n].client THEN result ELSE answer[k]
         /\ \A k \in Client : At[k] # n => answer'[k] = answer[k]
<1>1. /\ fetch' = [fetch EXCEPT ![n] = NoFetch]
      /\ answer' = [k \in Client |-> IF k = fetch[n].client THEN result ELSE answer[k]]
  BY DEF Answered
<1>2. fetch'[n] = NoFetch /\ \A m \in Node \ {n} : fetch'[m] = fetch[m]
  BY <1>1 DEF TypeOK
<1>3. \A k \in Client : At[k] # n => k # fetch[n].client
  BY ToldAtNode
<1> QED
  BY <1>1, <1>2, <1>3 DEF Fetching, NoFetch

LEMMA FindNothingLone ==
  ASSUME TypeOK, LoneInv, NEW c \in queries, FindNothing(c)
  PROVE  LoneInv'
<1> DEFINE n == At[c]
<1>1. /\ queries' = queries \ {c}
      /\ missed' = missed \cup {c}
      /\ UNCHANGED <<asked, alone, lost>>
      /\ \/ Fetching(n) /\ Answered(n, "notfound")
         \/ ~Fetching(n) /\ UNCHANGED <<fetch, answer>>
  BY DEF FindNothing
<1>2. c \in Client /\ n \in Node
  BY ShardAssumption DEF TypeOK
<1> HIDE DEF n
<1>3. /\ ~Fetching(n)'
      /\ \A m \in Node \ {n} : fetch'[m] = fetch[m]
      /\ \A k \in Client : answer'[k] = answer[k] \/ (k = fetch[n].client /\ answer'[k] = "notfound")
      /\ \A k \in Client : At[k] # n => answer'[k] = answer[k]
  <2>1. CASE Fetching(n) /\ Answered(n, "notfound")
    BY <1>2, <2>1, AnsweredElsewhere
  <2>2. CASE ~Fetching(n) /\ UNCHANGED <<fetch, answer>>
    BY <2>2 DEF Fetching
  <2> QED
    BY <1>1, <2>1, <2>2
<1>4. AskedOnce'
  BY <1>1 DEF LoneInv, AskedOnce
<1>5. InOrder'
  <2>1. \A k \in Client : answer'[k] = "none" => answer[k] = "none"
    BY <1>3
  <2>2. \A k \in queries' : k \in Client /\ k \in queries
    BY <1>1 DEF TypeOK
  <2> QED
    BY <1>1, <1>3, <2>1, <2>2 DEF LoneInv, InOrder
<1>6. Fetches'
  BY <1>2, <1>3 DEF LoneInv, Fetches, Fetching
<1>7. ASSUME NEW k \in alone
      PROVE  Alone(k)'
  <2>1. k \in Client /\ Alone(k)
    BY DEF TypeOK, LoneInv
  <2>2. CASE At[k] = n
    <3>1. k = c
      BY <2>1, <2>2 DEF Alone, n
    <3> QED
      BY <1>1, <1>3, <2>1, <2>2, <3>1 DEF Alone
  <2>3. CASE At[k] # n
    BY <1>1, <1>2, <1>3, <2>1, <2>3, OtherNodes DEF n
  <2> QED
    BY <2>2, <2>3
<1> QED
  BY <1>1, <1>4, <1>5, <1>6, <1>7 DEF LoneInv

\* What the end of a request of r.by at n leaves: the queries, and the requests but r.
LEMMA RequestEnds ==
  ASSUME TypeOK, LoneInv, NEW r \in asked, asked' = asked \ {r}, UNCHANGED <<queries, alone>>,
         \A c \in Client : lost'[c] = lost[c] \/ (c = r.by /\ lost'[c] = lost[c] \cup {r.index}),
         \A c \in Client : answer'[c] = "none" => answer[c] = "none"
  PROVE  AskedOnce' /\ InOrder'
<1>1. r.by \in Client /\ r.by \notin queries /\ answer[r.by] # "none"
  BY DEF LoneInv, InOrder, TypeOK, Request
<1>2. AskedOnce'
  <2>1. \A q \in asked' : q.by \in Client /\ q \in asked /\ q # r
    BY DEF TypeOK, Request
  <2>2. \A q \in asked' : q.by = r.by => q.index # r.index
    BY <2>1 DEF LoneInv, AskedOnce
  <2> QED
    BY <2>1, <2>2 DEF LoneInv, AskedOnce
<1>3. InOrder'
  <2>1. \A c \in Client : answer'[c] = "none" \/ c \in queries' =>
          lost'[c] = {} /\ \A q \in asked' : q.by # c
    BY <1>1 DEF LoneInv, InOrder
  <2>2. \A c \in queries' : answer'[c] # "none"
    BY DEF LoneInv, InOrder, TypeOK
  <2> QED
    BY <2>1, <2>2 DEF InOrder
<1> QED
  BY <1>2, <1>3

LEMMA ShardDataLone ==
  ASSUME TypeOK, LoneInv, NEW r \in asked, ShardData(r)
  PROVE  LoneInv'
<1> DEFINE n == At[r.by]
           got == fetch[n].got \cup {r.index}
<1>1. /\ asked' = asked \ {r}
      /\ UNCHANGED <<queries, alone, lost, missed>>
      /\ \/ Fetching(n) /\ Answered(n, IF fetch[n].sized THEN "file" ELSE "empty")
         \/ /\ Fetching(n) /\ ~(Cardinality(got) >= DataShards)
            /\ fetch' = [fetch EXCEPT ![n].got = got] /\ UNCHANGED answer
         \/ UNCHANGED <<fetch, answer>>
  BY DEF ShardData, history
<1>2. r.by \in Client /\ n \in Node /\ r.index \in Index
  BY ShardAssumption DEF TypeOK, Request
<1>3. got \in SUBSET Index
  BY <1>2 DEF TypeOK, FetchState
<1>4. Cardinality(got) \in Nat /\ DataShards \in Nat
  BY <1>3, IndexSets, ShardAssumption
<1> HIDE DEF n, got
<1>5. /\ \A m \in Node \ {n} : fetch'[m] = fetch[m]
      /\ \A k \in Client : At[k] # n => answer'[k] = answer[k]
      /\ \/ /\ ~Fetching(n)'
            /\ Fetching(n)
            /\ \A k \in Client : answer'[k] = IF k = fetch[n].client
                                              THEN IF fetch[n].sized THEN "file" ELSE "empty"
                                              ELSE answer[k]
         \/ /\ Cardinality(fetch'[n].got) < DataShards
            /\ fetch'[n].client = fetch[n].client /\ fetch'[n].failed = fetch[n].failed
            /\ fetch'[n].sized = fetch[n].sized
            /\ UNCHANGED answer
         \/ UNCHANGED <<fetch, answer>>
  <2>1. CASE Fetching(n) /\ Answered(n, IF fetch[n].sized THEN "file" ELSE "empty")
    BY <1>2, <2>1, AnsweredElsewhere
  <2>2. CASE /\ ~(Cardinality(got) >= DataShards)
             /\ fetch' = [fetch EXCEPT ![n].got = got] /\ UNCHANGED answer
    <3>1. Cardinality(got) < DataShards
      BY <1>4, <2>2
    <3>2. fetch'[n] = [fetch[n] EXCEPT !.got = got]
      BY <1>2, <2>2 DEF TypeOK
    <3>3. /\ fetch'[n].got = got /\ fetch'[n].client = fetch[n].client
          /\ fetch'[n].failed = fetch[n].failed /\ fetch'[n].sized = fetch[n].sized
      BY <1>2, <3>2 DEF TypeOK, FetchState
    <3> QED
      BY <1>2, <2>2, <3>1, <3>3 DEF TypeOK
  <2>3. CASE UNCHANGED <<fetch, answer>>
    BY <2>3
  <2> QED
    BY <1>1, <2>1, <2>2, <2>3
<1>6. AskedOnce' /\ InOrder'
  <2>1. \A k \in Client : answer'[k] = "none" => answer[k] = "none"
    BY <1>5
  <2> QED
    BY <1>1, <2>1, RequestEnds
<1>7. Fetches'
  BY <1>2, <1>5 DEF LoneInv, Fetches, Fetching
<1>8. ASSUME NEW k \in alone
      PROVE  Alone(k)'
  <2>1. k \in Client /\ Alone(k)
    BY DEF TypeOK, LoneInv
  <2>2. CASE At[k] = n
    <3>1. r.by = k
      BY <2>1, <2>2 DEF Alone, n
    <3>2. Fetching(n) => fetch[n].client = k /\ fetch[n].sized
      BY <2>1, <2>2, <3>1 DEF Alone, LoneInv, InOrder
    <3>3. answer'[k] = answer[k] \/ answer'[k] = "file"
      BY <1>5, <2>1, <3>2
    <3>4. Fetching(n)' => /\ Fetching(n)
                          /\ fetch'[n].client = fetch[n].client /\ fetch'[n].failed = fetch[n].failed
                          /\ fetch'[n].sized = fetch[n].sized
      BY <1>5 DEF Fetching
    <3>5. TooMany(lost[k])' <=> TooMany(lost[k])
      BY <1>1 DEF TooMany
    <3> QED
      BY <1>1, <2>1, <2>2, <3>2, <3>3, <3>4, <3>5 DEF Alone
  <2>3. CASE At[k] # n
    BY <1>1, <1>2, <1>5, <2>1, <2>3, OtherNodes
  <2> QED
    BY <2>2, <2>3
<1> QED
  BY <1>1, <1>6, <1>7, <1>8 DEF LoneInv

\* A failure is counted once for the client whose request it was; when it is the
\* last, more than the parity have failed, for fewer than are needed have come.
LEMMA ShardFailsLone ==
  ASSUME TypeOK, LoneInv, NEW r \in asked, ShardFails(r)
  PROVE  LoneInv'
<1> DEFINE n == At[r.by]
           failed == fetch[n].failed + 1
<1>1. /\ asked' = asked \ {r}
      /\ lost' = [lost EXCEPT ![r.by] = @ \cup {r.index}]
      /\ UNCHANGED <<queries, alone, missed>>
      /\ \/ Fetching(n) /\ AllCounted(failed, fetch[n].got) /\ Answered(n, "notfound")
         \/ Fetching(n) /\ fetch' = [fetch EXCEPT ![n].failed = failed] /\ UNCHANGED answer
         \/ ~Fetching(n) /\ UNCHANGED <<fetch, answer>>
  BY DEF ShardFails
<1>2. r.by \in Client /\ n \in Node /\ r.index \in Index
  BY ShardAssumption DEF TypeOK, Request
<1>3. /\ lost'[r.by] = lost[r.by] \cup {r.index} /\ lost[r.by] \in SUBSET Index
      /\ r.index \notin lost[r.by]
      /\ \A c \in Client \ {r.by} : lost'[c] = lost[c]
  BY <1>1, <1>2 DEF TypeOK, LoneInv, AskedOnce
<1>4. /\ Cardinality(lost[r.by]) \in Nat
      /\ Cardinality(lost'[r.by]) = Cardinality(lost[r.by]) + 1
  BY <1>2, <1>3, IndexSets
<1>5. fetch[n].failed \in Nat /\ failed \in Nat
      /\ Cardinality(fetch[n].got) \in Nat
      /\ DataShards \in Nat /\ TotalShards \in Nat
  BY <1>2, IndexSets, ShardAssumption DEF TypeOK, FetchState
<1>6. failed = fetch[n].failed + 1
  OBVIOUS
<1> HIDE DEF n, failed
<1>7. /\ \A m \in Node \ {n} : fetch'[m] = fetch[m]
      /\ \A k \in Client : At[k] # n => answer'[k] = answer[k]
      /\ \/ /\ Fetching(n) /\ ~Fetching(n)' /\ AllCounted(failed, fetch[n].got)
            /\ \A k \in Client : answer'[k] = IF k = fetch[n].client THEN "notfound" ELSE answer[k]
         \/ /\ Fetching(n)
            /\ fetch'[n].got = fetch[n].got
            /\ fetch'[n].client = fetch[n].client /\ fetch'[n].failed = failed
            /\ fetch'[n].sized = fetch[n].sized
            /\ UNCHANGED answer
         \/ ~Fetching(n) /\ UNCHANGED <<fetch, answer>>
  <2>1. CASE Fetching(n) /\ AllCounted(failed, fetch[n].got) /\ Answered(n, "notfound")
    BY <1>2, <2>1, AnsweredElsewhere
  <2>2. CASE Fetching(n) /\ fetch' = [fetch EXCEPT ![n].failed = failed] /\ UNCHANGED answer
    <3>1. fetch'[n] = [fetch[n] EXCEPT !.failed = failed]
      BY <1>2, <2>2 DEF TypeOK
    <3>2. /\ fetch'[n].got = fetch[n].got /\ fetch'[n].client = fetch[n].client
          /\ fetch'[n].failed = failed /\ fetch'[n].sized = fetch[n].sized
      BY <1>2, <3>1 DEF TypeOK, FetchState
    <3> QED
      BY <1>2, <2>2, <3>2 DEF TypeOK
  <2>3. CASE ~Fetching(n) /\ UNCHANGED <<fetch, answer>>
    BY <2>3
  <2> QED
    BY <1>1, <2>1, <2>2, <2>3
<1>8. AskedOnce' /\ InOrder'
  <2>1. \A k \in Client : answer'[k] = "none" => answer[k] = "none"
    BY <1>7
  <2>2. \A k \in Client : lost'[k] = lost[k] \/ (k = r.by /\ lost'[k] = lost[k] \cup {r.index})
    BY <1>3
  <2> QED
    BY <1>1, <2>1, <2>2, RequestEnds
<1>9. Fetches'
  BY <1>2, <1>7 DEF LoneInv, Fetches, Fetching
<1>10. ASSUME NEW k \in alone
       PROVE  Alone(k)'
  <2>1. k \in Client /\ Alone(k)
    BY DEF TypeOK, LoneInv
  <2>2. CASE At[k] = n
    <3>1. r.by = k
      BY <2>1, <2>2 DEF Alone, n
    <3>2. Fetching(n) => /\ fetch[n].client = k
                         /\ fetch[n].failed <= Cardinality(lost[k])
                         /\ Cardinality(fetch[n].got) < DataShards
      BY <1>2, <2>1, <2>2 DEF Alone, LoneInv, Fetches
    <3>3. Fetching(n) => failed <= Cardinality(lost'[k])
      BY <1>4, <1>5, <1>6, <3>1, <3>2
    <3>4. Fetching(n) /\ AllCounted(failed, fetch[n].got) => TooMany(lost[k])'
      <4> SUFFICES ASSUME Fetching(n), AllCounted(failed, fetch[n].got)
                   PROVE  Cardinality(lost'[k]) > TotalShards - DataShards
        BY DEF TooMany
      <4>1. failed + Cardinality(fetch[n].got) >= TotalShards
        BY DEF AllCounted
      <4> QED
        BY <1>4, <1>5, <3>1, <3>2, <3>3, <4>1
    <3>5. TooMany(lost[k]) => TooMany(lost[k])'
      BY <1>4, <1>5, <3>1 DEF TooMany
    <3>6. answer'[k] = "notfound" => k \in missed' \/ TooMany(lost[k])'
      BY <1>1, <1>7, <2>1, <3>4, <3>5 DEF Alone
    <3>7. answer'[k] # "empty"
      BY <1>7, <2>1 DEF Alone
    <3>8. Fetching(n)' => /\ Fetching(n)
                          /\ fetch'[n].client = fetch[n].client /\ fetch'[n].failed = failed
                          /\ fetch'[n].sized = fetch[n].sized
      BY <1>7 DEF Fetching
    <3>9. Fetching(n)' => /\ fetch'[n].client = k
                          /\ fetch'[n].failed <= Cardinality(lost'[k])
                          /\ fetch'[n].sized \/ k \in queries'
      BY <1>1, <2>1, <2>2, <3>2, <3>3, <3>8 DEF Alone
    <3> QED
      BY <1>1, <2>1, <2>2, <3>6, <3>7, <3>9 DEF Alone
  <2>3. CASE At[k] # n
    <3>1. lost'[k] = lost[k]
      BY <1>3, <2>1, <2>3 DEF n
    <3> QED
      BY <1>1, <1>2, <1>7, <2>1, <2>3, <3>1, OtherNodes
  <2> QED
    BY <2>2, <2>3
<1> QED
  BY <1>1, <1>8, <1>9, <1>10 DEF LoneInv

LEMMA RestartLone ==
  ASSUME TypeOK, LoneInv, NEW n \in Node, Restart(n)
  PROVE  LoneInv'
<1>1. /\ fetch' = [fetch EXCEPT ![n] = NoFetch]
      /\ queries' = {c \in queries : At[c] # n}
      /\ answer' = [c \in Client |-> IF At[c] = n /\ answer[c] = "waiting" THEN "broken" ELSE answer[c]]
      /\ UNCHANGED <<alone, lost, missed>>
  BY DEF Restart
<1>2. /\ ~Fetching(n)'
      /\ \A m \in Node \ {n} : fetch'[m] = fetch[m]
  BY <1>1 DEF Fetching, NoFetch, TypeOK
<1>3. \A c \in Client : answer'[c] = answer[c] \/ answer'[c] = "broken"
  BY <1>1
<1>4. ASSUME NEW r \in asked'
      PROVE  \E q \in asked : q.by = r.by /\ q.index = r.index /\ At[q.by] # n
  <2>1. PICK q \in asked : /\ At[q.by] # n
                           /\ r = [q EXCEPT !.is = IF q.to = n /\ q.is = "sent" THEN "none" ELSE q.is]
    BY DEF Restart
  <2>2. r.by = q.by /\ r.index = q.index
    BY <2>1 DEF TypeOK, Request
  <2> QED
    BY <2>1, <2>2
<1>5. \A r \in asked' : \E q \in asked : q.by = r.by /\ q.index = r.index /\ At[q.by] # n
  BY <1>4
<1>7. AskedOnce'
  <2>1. \A r \in asked' : r.index \notin lost'[r.by]
    BY <1>1, <1>5 DEF LoneInv, AskedOnce
  <2>2. ASSUME NEW r1 \in asked', NEW r2 \in asked', r1.by = r2.by, r1.index = r2.index
        PROVE  r1 = r2
    <3> DEFINE Answered1(q) == [q EXCEPT !.is = IF q.to = n /\ q.is = "sent" THEN "none" ELSE q.is]
    <3>1. PICK q1 \in asked : r1 = Answered1(q1)
      BY DEF Restart
    <3>2. PICK q2 \in asked : r2 = Answered1(q2)
      BY DEF Restart
    <3>3. /\ Answered1(q1).by = q1.by /\ Answered1(q1).index = q1.index
          /\ Answered1(q2).by = q2.by /\ Answered1(q2).index = q2.index
      BY DEF TypeOK, Request
    <3>4. q1 = q2
      BY <2>2, <3>1, <3>2, <3>3 DEF LoneInv, AskedOnce
    <3> QED
      BY <3>1, <3>2, <3>4
  <2> QED
    BY <2>1, <2>2 DEF AskedOnce
<1>8. InOrder'
  <2>1. \A c \in Client : answer'[c] = "none" => answer[c] = "none"
    BY <1>3
  <2>2. \A c \in queries' : c \in queries /\ c \in Client
    BY <1>1 DEF TypeOK
  <2>3. \A c \in Client : (\A q \in asked : q.by # c) => \A r \in asked' : r.by # c
    BY <1>5
  <2>4. \A c \in Client : answer'[c] = "none" \/ c \in queries' =>
          lost'[c] = {} /\ \A r \in asked' : r.by # c
    BY <1>1, <2>1, <2>2, <2>3 DEF LoneInv, InOrder
  <2>5. \A c \in queries' : answer'[c] # "none"
    BY <2>1, <2>2 DEF LoneInv, InOrder
  <2> QED
    BY <2>4, <2>5 DEF InOrder
<1>9. Fetches'
  BY <1>2 DEF LoneInv, Fetches, Fetching
<1>10. ASSUME NEW k \in alone
       PROVE  Alone(k)'
  <2>1. k \in Client /\ Alone(k)
    BY DEF TypeOK, LoneInv
  <2>2. CASE At[k] = n
    <3>1. TooMany(lost[k])' <=> TooMany(lost[k])
      BY <1>1 DEF TooMany
    <3>2. (\A r \in asked' : At[r.by] # n) /\ (\A q \in queries' : At[q] # n)
      BY <1>1, <1>5
    <3> QED
      BY <1>1, <1>2, <1>3, <2>1, <2>2, <3>1, <3>2 DEF Alone
  <2>3. CASE At[k] # n
    <3>1. \A r \in asked' : At[r.by] = n \/ \E q \in asked : q.by = r.by
      BY <1>5
    <3> QED
      BY <1>1, <1>2, <1>3, <2>1, <2>3, <3>1, OtherNodes
  <2> QED
    BY <2>2, <2>3
<1> QED
  BY <1>1, <1>7, <1>8, <1>9, <1>10 DEF LoneInv

LEMMA NextLone == TypeOK /\ LoneInv /\ [Next]_vars => LoneInv'
<1> SUFFICES ASSUME TypeOK, LoneInv, [Next]_vars PROVE LoneInv'
  OBVIOUS
<1>1. CASE Commands
  BY <1>1, ApartLone, DownloadLocalLone, DownloadSearchLone DEF Commands, DhtDownload
<1>2. CASE Stores \/ Dht \/ UNCHANGED vars
  BY <1>2, ApartLone
<1>3. CASE Shards
  BY <1>3, FetchShardLone, ShardDataLone, ShardFailsLone DEF Shards
<1>4. CASE Queries
  BY <1>4, FindManifestLone, FindNothingLone DEF Queries
<1>5. CASE Restarts
  BY <1>5, RestartLone DEF Restarts
<1> QED
  BY <1>1, <1>2, <1>3, <1>4, <1>5 DEF Next

\* A download that no other one of the file meets at its node never gets an empty
\* file, and 404 only if its query failed or too many of its shards did.
THEOREM LoneDownloadsAreServedHolds == Spec => []LoneDownloadsAreServed
<1>1. Init => TypeOK /\ LoneInv
  BY InitType DEF Init, LoneInv, AskedOnce, InOrder, Fetches, Fetching, NoFetch
<1>2. TypeOK /\ LoneInv /\ [Next]_vars => (TypeOK /\ LoneInv)'
  BY NextType, NextLone
<1>3. LoneInv => LoneDownloadsAreServed
  BY DEF LoneInv, Alone, LoneDownloadsAreServed
<1> QED
  BY <1>1, <1>2, <1>3, PTL DEF Spec
=============================================================================
