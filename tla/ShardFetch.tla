----------------------------- MODULE ShardFetch -----------------------------
(***************************************************************************)
(* The event loops of the storage nodes: how one file is cut into shards,  *)
(* spread over the nodes, fetched back and deleted.                        *)
(*                                                                         *)
(* Everything a loop keeps is keyed by the hash of the file, so one file   *)
(* is enough to follow.  A loop handles one command or event at a time:    *)
(* every handler is one action.                                            *)
(***************************************************************************)
EXTENDS Naturals, Sequences, FiniteSets

CONSTANTS
  Node,           \* storage nodes
  Client,         \* HTTP requests to them, and
  At,             \* the node each of them is made to
  Plan,           \* Plan[c]: what c may ask for, of "upload", "download", "delete"
  NoClient,       \* nobody's download
  Nobody,         \* no publisher
  Lists,          \* the peers, best first, that a node's cache may list
  Room,           \* how many shards of an upload the memory of its node may take
  DataShards, TotalShards,
  MaxRestarts     \* bound on restarts

Index == 0..(TotalShards - 1)

ASSUME ShardAssumption ==
  /\ At \in [Client -> Node]
  /\ NoClient \notin Client /\ Nobody \notin Node
  /\ Lists \subseteq Seq(Node) /\ <<>> \notin Lists
  /\ Room \subseteq Nat
  /\ DataShards \in Nat \ {0} /\ TotalShards \in Nat /\ DataShards <= TotalShards
  /\ MaxRestarts \in Nat

VARIABLES
  manifest,       \* manifest[n]: where the manifest on n says the shards are
  published,      \* published[n]: the placement n publishes in the DHT
  chunks,         \* chunks[n]: the shards on n's disk
  own,            \* own[n]: those in n's memory as n's own records
  storing,        \* StoreShard requests on their way
  fetch,          \* fetch[n]: the entry of active_fetches
  asked,          \* req_resp_to_fetch: FetchShard requests and their answers
  queries,        \* manifest_queries: downloads that look for the manifest
  answer,         \* answer[c]: what c has been told
  restarts,
  alone,          \* history: downloads without another of the file beside them
  lost,           \* lost[c]: history: shards that the requests for c have not got
  missed,         \* history: downloads whose query failed
  gone            \* history: shards that did not reach their node, or were deleted

records == <<manifest, published, chunks, own>>
history == <<alone, lost, missed, gone>>
vars == <<records, storing, fetch, asked, queries, answer, restarts, history>>

Placement == [Index -> Node]
NoManifest == [at |-> <<>>, by |-> Nobody]
NoFetch == [client |-> NoClient, got |-> {}, failed |-> 0, sized |-> FALSE]

Manifest == {NoManifest} \cup [at : Placement, by : Node \cup {Nobody}]
FetchState == [client : Client \cup {NoClient}, got : SUBSET Index, failed : Nat, sized : BOOLEAN]
Store == [from : Node, to : Node, index : Index]
Request == [by : Client, to : Node, index : Index, is : {"sent", "data", "none"}]
Answer == {"none", "waiting", "stored", "file", "empty", "notfound", "deleted", "broken"}

Has(n) == manifest[n] # NoManifest
Fetching(n) == fetch[n].client # NoClient

Init ==
  /\ manifest = [n \in Node |-> NoManifest]
  /\ published = [n \in Node |-> <<>>]
  /\ chunks = [n \in Node |-> {}] /\ own = [n \in Node |-> {}]
  /\ storing = {} /\ asked = {} /\ queries = {}
  /\ fetch = [n \in Node |-> NoFetch]
  /\ answer = [c \in Client |-> "none"]
  /\ restarts = 0
  /\ alone = {} /\ missed = {} /\ gone = {}
  /\ lost = [c \in Client |-> {}]

----------------------------------------------------------------------------
(* Upload and deletion.                                                    *)

\* Shards go round the listed peers, or stay here if there are none.
RoundRobin(list) == [i \in Index |-> list[(i % Len(list)) + 1]]

\* The disk takes every record; memory, where a record has its publisher, may be
\* full after the first `room` shards, or too small for one (HybridStore::put).
Kept(publisher) == {publisher} \cup {Nobody : room \in Room \ {TotalShards}}

DhtUpload(c) ==
  /\ answer[c] = "none" /\ "upload" \in Plan[c]
  /\ \E list \in Lists, room \in Room, by \in Kept(At[c]) :
       LET n == At[c]
           place == RoundRobin(list)
           here == {i \in Index : place[i] = n}
       IN  /\ n \in {list[k] : k \in DOMAIN list} => list = <<n>>
           /\ chunks' = [chunks EXCEPT ![n] = @ \cup here]
           /\ own' = [own EXCEPT ![n] = @ \cup {i \in here : i < room}]
           /\ storing' = storing \cup {[from |-> n, to |-> place[i], index |-> i] : i \in Index \ here}
           /\ manifest' = [manifest EXCEPT ![n] = [at |-> place, by |-> by]]
           /\ published' = [published EXCEPT ![n] = place]
  /\ answer' = [answer EXCEPT ![c] = "stored"]
  /\ UNCHANGED <<fetch, asked, queries, restarts, history>>

\* Mutant: one record of a file per node, as if the key had no index.
KeepOne(s) ==
  /\ storing' = storing \ {s}
  /\ chunks' = [chunks EXCEPT ![s.to] = {s.index}]
  /\ own' = [own EXCEPT ![s.to] = @ \ {s.index}]
  /\ UNCHANGED <<manifest, published, fetch, asked, queries, answer, restarts, history>>

\* A shard arrives at its node: a record without publisher, in place of any other.
StoreShard(s) ==
  /\ storing' = storing \ {s}
  /\ chunks' = [chunks EXCEPT ![s.to] = @ \cup {s.index}]
  /\ own' = [own EXCEPT ![s.to] = @ \ {s.index}]
  /\ UNCHANGED <<manifest, published, fetch, asked, queries, answer, restarts, history>>

\* Or it does not, and nobody looks at the failure.
StoreFails(s) ==
  /\ storing' = storing \ {s}
  /\ gone' = gone \cup {<<s.to, s.index>>}
  /\ UNCHANGED <<records, fetch, asked, queries, answer, restarts, alone, lost, missed>>

\* Kademlia brings a published manifest to another node.
PutRecord(n, m) ==
  /\ published[n] # <<>> /\ m # n
  /\ \E by \in Kept(n) : manifest' = [manifest EXCEPT ![m] = [at |-> published[n], by |-> by]]
  /\ UNCHANGED <<published, chunks, own, storing, fetch, asked, queries, answer, restarts, history>>

\* remove_record removes what this node has published, as far as memory tells.
DhtDelete(c) ==
  LET n == At[c]
      removed == IF Has(n) THEN own[n] ELSE {}
  IN  /\ answer[c] = "none" /\ "delete" \in Plan[c]
      /\ chunks' = [chunks EXCEPT ![n] = @ \ removed]
      /\ own' = [own EXCEPT ![n] = @ \ removed]
      /\ gone' = gone \cup {<<n, i>> : i \in removed}
      /\ IF manifest[n].by = n
         THEN /\ manifest' = [manifest EXCEPT ![n] = NoManifest]
              /\ published' = [published EXCEPT ![n] = <<>>]
         ELSE UNCHANGED <<manifest, published>>
      /\ answer' = [answer EXCEPT ![c] = "deleted"]
      /\ UNCHANGED <<storing, fetch, asked, queries, restarts, alone, lost, missed>>

----------------------------------------------------------------------------
(* Downloads.                                                              *)

\* A download has company if anything of another one is still under way here.
Busy(n) ==
  \/ Fetching(n)
  \/ \E r \in asked : At[r.by] = n
  \/ \E c \in queries : At[c] = n

\* Mutant: the client of the old fetch is left waiting.
BeginSilently(c, state) ==
  /\ fetch' = [fetch EXCEPT ![At[c]] = state]
  /\ answer' = [answer EXCEPT ![c] = "waiting"]

\* A new fetch takes the place of the old one.  The channel to the client of that
\* is dropped with it, which handle_download turns into 404.
Begin(c, state) ==
  /\ fetch' = [fetch EXCEPT ![At[c]] = state]
  /\ answer' = [k \in Client |-> IF k = c THEN "waiting"
                                 ELSE IF k = fetch[At[c]].client THEN "notfound" ELSE answer[k]]

\* Whoever else fetches the file at this node has company from now on.
Joins(c) ==
  alone' = (alone \ {k \in Client : At[k] = At[c]}) \cup (IF Busy(At[c]) THEN {} ELSE {c})

\* Mutant: shards are numbered from 1.
AskFromOne(c, place, indices) ==
  {[by |-> c, to |-> place[i], index |-> i + 1, is |-> "sent"] : i \in indices}

Ask(c, place, indices) == {[by |-> c, to |-> place[i], index |-> i, is |-> "sent"] : i \in indices}

\* The manifest is here: shards of this node are read at once, the others are
\* asked for, even if the ones read are enough.
DownloadLocal(c) ==
  LET n == At[c]
      place == manifest[n].at
      here == {i \in Index : place[i] = n}
      got == here \cap chunks[n]
  IN  /\ answer[c] = "none" /\ "download" \in Plan[c] /\ Has(n)
      /\ asked' = asked \cup Ask(c, place, Index \ here)
      /\ lost' = [lost EXCEPT ![c] = here \ got]
      /\ IF Cardinality(got) >= DataShards
         THEN answer' = [answer EXCEPT ![c] = "file"] /\ UNCHANGED fetch
         ELSE Begin(c, [client |-> c, got |-> got, failed |-> 0, sized |-> TRUE])
      /\ Joins(c)
      /\ UNCHANGED <<records, storing, queries, restarts, missed, gone>>

\* The manifest is not here, and searched for; its size is not known.
DownloadSearch(c) ==
  /\ answer[c] = "none" /\ "download" \in Plan[c] /\ ~Has(At[c])
  /\ queries' = queries \cup {c}
  /\ Begin(c, [client |-> c, got |-> {}, failed |-> 0, sized |-> FALSE])
  /\ Joins(c)
  /\ UNCHANGED <<records, storing, asked, restarts, lost, missed, gone>>

DhtDownload(c) == DownloadLocal(c) \/ DownloadSearch(c)

\* A manifest is found: whichever fetch is active takes it, and all shards are
\* asked for, those of this node too.
FindManifest(c) ==
  LET n == At[c]
  IN  \E m \in Node \ {n} :
        /\ Has(m)
        /\ queries' = queries \ {c}
        /\ asked' = asked \cup Ask(c, manifest[m].at, Index)
        /\ fetch' = IF Fetching(n) THEN [fetch EXCEPT ![n].sized = TRUE] ELSE fetch
        /\ UNCHANGED <<records, storing, answer, restarts, history>>

\* The fetch of n ends, and its client is told.
Answered(n, result) ==
  /\ fetch' = [fetch EXCEPT ![n] = NoFetch]
  /\ answer' = [k \in Client |-> IF k = fetch[n].client THEN result ELSE answer[k]]

\* None is found, and the active fetch ends, whether or not it began this query.
FindNothing(c) ==
  /\ queries' = queries \ {c}
  /\ missed' = missed \cup {c}
  /\ IF Fetching(At[c]) THEN Answered(At[c], "notfound") ELSE UNCHANGED <<fetch, answer>>
  /\ UNCHANGED <<records, storing, asked, restarts, alone, lost, gone>>

\* The other node reads its disk.  A node cannot dial itself.
FetchShard(r) ==
  /\ r.is = "sent" /\ r.to # At[r.by]
  /\ asked' = (asked \ {r}) \cup
       {[r EXCEPT !.is = IF r.index \in chunks[r.to] THEN "data" ELSE "none"]}
  /\ UNCHANGED <<records, storing, fetch, queries, answer, restarts, history>>

\* A shard arrives: it fills its place in whichever fetch is active.  The last one
\* needed restores the file, cut to the size the fetch knows of.
ShardData(r) ==
  LET n == At[r.by]
      got == fetch[n].got \cup {r.index}
  IN  /\ r.is = "data"
      /\ asked' = asked \ {r}
      /\ IF Fetching(n) /\ r.index \notin fetch[n].got
         THEN IF Cardinality(got) >= DataShards
              THEN Answered(n, IF fetch[n].sized THEN "file" ELSE "empty")
              ELSE fetch' = [fetch EXCEPT ![n].got = got] /\ UNCHANGED answer
         ELSE UNCHANGED <<fetch, answer>>
      /\ UNCHANGED <<records, storing, queries, restarts, history>>

\* Mutant: given up as soon as more than the parity has come back, well or not.
MoreThanParity(failed, got) == failed + Cardinality(got) > TotalShards - DataShards

\* Looked at after a failure only.
AllCounted(failed, got) == failed + Cardinality(got) >= TotalShards

\* A node has not got the shard, or the request fails or times out: it is counted
\* in whichever fetch is active.
ShardFails(r) ==
  LET n == At[r.by]
      failed == fetch[n].failed + 1
  IN  /\ asked' = asked \ {r}
      /\ lost' = [lost EXCEPT ![r.by] = @ \cup {r.index}]
      /\ IF Fetching(n)
         THEN IF AllCounted(failed, fetch[n].got)
              THEN Answered(n, "notfound")
              ELSE fetch' = [fetch EXCEPT ![n].failed = failed] /\ UNCHANGED answer
         ELSE UNCHANGED <<fetch, answer>>
      /\ UNCHANGED <<records, storing, queries, restarts, alone, missed, gone>>

----------------------------------------------------------------------------

\* A node starts again: the disk is left, and no record on it has a publisher.
Restart(n) ==
  /\ restarts < MaxRestarts
  /\ restarts' = restarts + 1
  /\ manifest' = [manifest EXCEPT ![n].by = Nobody]
  /\ published' = [published EXCEPT ![n] = <<>>]
  /\ own' = [own EXCEPT ![n] = {}]
  /\ fetch' = [fetch EXCEPT ![n] = NoFetch]
  /\ asked' = {[r EXCEPT !.is = IF r.to = n /\ r.is = "sent" THEN "none" ELSE r.is] :
                 r \in {q \in asked : At[q.by] # n}}
  /\ queries' = {c \in queries : At[c] # n}
  /\ storing' = {s \in storing : n \notin {s.from, s.to}}
  /\ gone' = gone \cup {<<s.to, s.index>> : s \in {q \in storing : n \in {q.from, q.to}}}
  /\ answer' = [c \in Client |-> IF At[c] = n /\ answer[c] = "waiting" THEN "broken" ELSE answer[c]]
  /\ UNCHANGED <<chunks, alone, lost, missed>>

Commands == \E c \in Client : DhtUpload(c) \/ DhtDownload(c) \/ DhtDelete(c)
Stores == \E s \in storing : StoreShard(s) \/ StoreFails(s)
Shards == \E r \in asked : FetchShard(r) \/ ShardData(r) \/ ShardFails(r)
Queries == \E c \in queries : FindManifest(c) \/ FindNothing(c)
Dht == \E n, m \in Node : PutRecord(n, m)
Restarts == \E n \in Node : Restart(n)

Next == Commands \/ Stores \/ Shards \/ Queries \/ Dht \/ Restarts

Spec == Init /\ [][Next]_vars

\* Requests and queries end, with an answer or a failure: libp2p gives them 10
\* seconds.  There are finitely many, so it is enough that some of them always do.
Fairness ==
  /\ WF_vars(\E r \in asked : ShardData(r) \/ ShardFails(r))
  /\ WF_vars(Queries)

FairSpec == Spec /\ Fairness

----------------------------------------------------------------------------
(* Properties.                                                             *)

TypeOK ==
  /\ manifest \in [Node -> Manifest]
  /\ published \in [Node -> Placement \cup {<<>>}]
  /\ chunks \in [Node -> SUBSET Index] /\ own \in [Node -> SUBSET Index]
  /\ storing \subseteq Store
  /\ fetch \in [Node -> FetchState]
  /\ asked \subseteq Request
  /\ queries \subseteq Client /\ alone \subseteq Client /\ missed \subseteq Client
  /\ answer \in [Client -> Answer]
  /\ restarts \in 0..MaxRestarts
  /\ lost \in [Client -> SUBSET Index]
  /\ gone \subseteq Node \X Index

\* More shards than the parity of the code makes up for.
TooMany(shards) == Cardinality(shards) > TotalShards - DataShards

\* A download that no other one of the file meets at its node gets the file: never
\* an empty one, and 404 only if its query failed or too many of its shards did.
LoneDownloadsAreServed ==
  \A c \in alone :
    /\ answer[c] # "empty"
    /\ answer[c] = "notfound" => c \in missed \/ TooMany(lost[c])

\* Wherever a manifest is found, after uploads that placed the shards differently,
\* deletions and restarts, each shard is on the node it names or on its way there,
\* unless that very shard failed to arrive there or was deleted there.
ShardsAreWhereManifestsSay ==
  \A n \in Node : Has(n) => \A i \in Index :
    LET place == manifest[n].at[i]
    IN  \/ i \in chunks[place]
        \/ \E s \in storing : s.to = place /\ s.index = i
        \/ <<place, i>> \in gone

\* Downloads end: over and over there is a moment when everyone who still waits has
\* lost too many shards, even if another download took the place of its own, or the
\* manifest was found by another's query.  A client asks once, so this is each one's.
EnoughEnds ==
  []<>(\A c \in Client : answer[c] = "waiting" => TooMany(lost[c]))
=============================================================================
