# Feedo: verification models

Feedo is a decentralised network for names, storage and credits. Consensus
nodes (Rust, `src/microservices/consensus-node`) agree on transactions by a
PBFT-like vote weighted by reputation ("PPoR") and keep the name registry, the
credit ledger and the per-user storage accounts; storage nodes (Rust,
`src/microservices/storage-node`) hold erasure-coded files under a byte quota;
around them stand a router, search nodes, a web2 proxy, a treasury contract on
Polygon, SDKs (`src/sdk`), a web site that shows snapshots of other sites
(`src/web`) and the indexer that makes them (`src/scripts/indexer`).

This directory holds TLA+ modules translated from that source, the TLC
configurations that check them on small instances, and theorems about them
that TLAPS proves for every instance. `PROJECT.json` lists components, runs,
the source lines behind every definition, the hazards the properties are for,
the mutants that show that each property can fail, and the theorems.

## 1. Inventory

| Component | Source | State | Operations | Interacts with |
|---|---|---|---|---|
| PporManager | `consensus-node/src/ppor.rs` | map of transaction states (phase, votes, committee, validated), reputation table, committee, epoch, seed, archive, grants | `handle_message`, `mark_validated`, `propose`, rotation and election, `adjust_reputation`, archive and cleanups, grants | called by the event loop only, behind one async mutex |
| Consensus event loop | `consensus-node/src/swarm_loop.rs` | pending transactions by topic, wallet/peer maps, pending DHT queries | one handler per network event and per command, four timers | manager, ledger, name database, libp2p, HTTP handlers (commands) |
| HTTP API of the consensus node | `consensus-node/src/main.rs` | none of its own | register, resolve, update, grants, storage reserve/release | sends commands to the loop, writes name database and ledger directly |
| Ledger | `consensus-node/src/accounting.rs` | balances, storage used per DID (in memory, written through to sled, not read back) | credit, debit, reserve, release, snapshot | HTTP handlers, loop, bridge |
| Name registry, DID, ACL | `name_db.rs`, `did.rs`, `acl.rs`, `dht_store.rs` | SQLite and sled tables | insert or replace, update, lookup | HTTP handlers, loop |
| Bridge | `eth_bridge.rs` | block cursor (in memory) | poll, credit | ledger, treasury contract |
| Storage quota | `storage-node/src/quota.rs` | one atomic byte counter | `try_reserve`, `release` | upload/delete handlers, storage loop |
| Storage handlers and loop | `storage-node/src/main.rs`, `swarm_loop.rs`, `network.rs` | records on disk, fetches in progress | upload, download, delete, shard requests, replication | quota, consensus node over HTTP, other storage nodes |
| Treasury | `contracts/PporTreasury.sol` | committee, nonces, balances | deposit, pay, withdraw by signatures | bridge |
| SDK node router | `sdk/typescript/src/router.ts` | active node and cached list per service | getters that search for a node, invalidations | SDK modules; router node; health endpoints |
| SDK file client and modules | `client.ts`, `modules/*.ts` | none but the flows under way: pools of workers, shared index, results | upload and download, plain and private; requests with one retry | router; storage, consensus and search nodes |
| Indexer and backfill | `scripts/indexer/index.js`, `backfill.js` | domains met, counter, temporary directories; a log on disk | scrape, deploy, log; push log entries to the search index | the CLI (a submodule, not here), search node |
| Web viewer and service workers | `web/src/app/view/page.tsx`, `web/public/*sw.js`, `SWRegister.tsx` | files in the browser's store, registrations | `initSandbox`, install, activate, fetch | storage nodes, search page, other tabs of the site |
| Search page | `web/src/app/search/page.tsx` | none | query, list, open | search and consensus nodes, viewer |
| Router node, search node, proxy, Python SDK, browser, explorer, keygen | elsewhere | caches, indexes | I/O | the nodes' HTTP APIs |

What is hard here:

* **Ordering.** Votes and the data they are about travel on different channels
  and overtake each other; rotations and elections happen inside the handling
  of a vote; the seed of an election depends on what a node finalized last.
* **Unreliable delivery.** A vote is sent once, directly or by gossip, and
  nobody looks at the acknowledgement.
* **Crash and restart.** Managers, pending transactions and the quota counter
  live in memory only; files and balances on disk.
* **Concurrency.** HTTP handlers of a storage node share one atomic counter;
  the two quotas, on two machines, are reserved one after the other.
* **Liveness.** Nothing is retried: whether a transaction gets through depends
  on nodes counting the votes they hold.
* **Asynchronous clients.** Ten workers of the SDK share an index and an array;
  a pool that has failed is not stopped; callers search for nodes at the same
  time and install and drop each other's results; a request whose answer is
  lost is repeated at another machine.
* **Shared entries.** A storage node has one entry per file for all downloads of
  it; answers are assigned by file, not by download.
* **Cut-off runs.** The indexer may end between the deployment of a site and
  its line in the log; the browser may close a tab between two files of a site.
* **Shared browser state.** Tabs share one store and one service worker scope,
  for which two scripts compete.

What makes each component correct:

* PporManager: no phase without its quorum, whatever the committee does
  meanwhile; no vote before the data is checked; entries only move forward;
  reputations stay positive; the archive stays bounded and ordered.
* Event loop: quorums are made of nodes that hold the data; no few of those who
  know each other finalize anything; what is executed was finalized; nothing is
  executed twice; no quorum is overlooked; what reaches a quorum gets finalized
  and executed; whatever happens at a node is about one transaction.
* Storage quota: as long as every deletion removes what it gives back, the
  counter is what was accepted and not deleted and what requests hold, and covers
  every upload still there; no user over the limit; every request answered; the
  counter never leaves the quota.
* Storage loop: manifests of any age lead to the shards; a download gets the
  file if enough shards can be had, and an answer in any case.
* SDK: what is named, granted or indexed is stored whole; what is fetched is
  the file of that name; no part is sent by two workers; a request takes effect
  once unless an answer was lost; a retry gets to a machine that is up.
* Indexer: each site once in the log, numbered without gaps, whatever cuts a
  run off; no build is cleared while it is deployed; names lead to what is logged.
* Viewer: a snapshot shown as ready is whole; its frame gets every file of it.
* Ledger and registry (planned): no credit twice, balances survive a restart,
  one owner per name on all nodes.

## 2. Modules

| Module | Models | Runs |
|---|---|---|
| `PporManager` | the data of one manager and every method of it as an operator on a record | through the next two |
| `Ppor` | one manager under any sequence of calls | `ppor` |
| `Swarm` | the nodes, their event loops and the network | `swarm_*` |
| `Finality` | what the network promises, abstracted from votes: implemented by `Swarm` | through `swarm_pair` |
| `StorageQuota` | the byte counter, the handlers and the loop around it, the account on the consensus node | `storage_*` |
| `ShardFetch` | the storage nodes' loops: placement, manifests, downloads, deletion, restarts | `shard_fetch` |
| `NodeRouter` | `NodeRouter` of the SDK: which machine a request goes to | through `Sdk` |
| `Sdk` | uploads, downloads and single requests of the SDK over `NodeRouter`, and what the services do with them | `sdk` |
| `FileStore` | what a user may rely on, abstracted from requests: implemented by `Sdk` | through `sdk` |
| `Indexer` | the indexer of sites and the backfill | through `snapshots` |
| `Viewer` | the viewer of snapshots, its store and the service workers | through `snapshots` |
| `Snapshots` | the two together, by way of the search index and page | `snapshots` |
| `MCPpor`, `MCSwarm`, `MCStorageQuota`, `MCShardFetch`, `MCSdk`, `MCSnapshots` | instances for TLC (values of constants only) | |
| `PporManager_proofs` | each operator keeps a manager sound | |
| `Ppor_proofs` | the invariants and theorems of `Ppor` | |
| `Swarm_proofs` | the invariants and theorems of `Swarm`, and that it implements `Finality` | |
| `Snapshots_proofs` | the invariants and theorems of `Snapshots` | |
| `Sdk_proofs` | the invariants and theorems of `Sdk` | |
| `SdkStore_proofs` | that `Sdk` implements `FileStore` | |
| `StorageQuota_proofs` | the exact counter, the types and the limit per user of `StorageQuota` | |
| `ShardFetch_proofs` | the invariants and theorems of `ShardFetch` | |

`Swarm` and `Ppor` both extend `PporManager`: what a method does is written
once. `StorageQuota` stands apart; it meets the rest at the HTTP interface of
the consensus node, whose account it contains. `Sdk` is the other side of the
same interface, and the client of all services; `Snapshots` is the web of sites
that the indexer's deployments and the viewer's downloads make of them.

### PporManager and Ppor

A manager is a record: `states` maps a transaction to its entry (`NoState`:
none), `rep` a node to its reputation (0: not in the table, since a reputation
is at least 1), and `committee`, `epoch`, `last` (the seed) and `archive` are
the fields of the struct. A method is one step, since it runs under the
manager's lock and never awaits. Clocks are flags that an action raises:
`due` for an expired epoch, `timedOut` for an old entry; both may be raised at
any time and are read where the code reads the clock.

`HandleMessage`, `MarkValidated` and `Propose` return an `Outcome`: the manager
left behind and the set of votes (none or one) the method answers with. They
keep the order of the code where it shows: the rotation comes first, the sender
is learned and the entry opened before the sender's membership is looked at,
and the vote is recorded whatever the phase of the entry. The draw of an
election is a parameter `Score(node, reputation, seed)`; the proofs assume
only that two nodes never draw the same and, where they say so, that draws are
numbers. Abstracted: hashes, signatures, view
and sequence numbers, wall-clock times.

`Ppor` calls these with every vote of every node. `CleanupTimedOut` is public
but called by nobody in the repository; it is an action of `Ppor` and none of
`Swarm`. `Propose` is called by the TxRelay handler alone, and no code sends a
TxRelay: `Swarm` leaves both out.

### Swarm

`mgr[n]`, `peers[n]` and `pending[n]` are the manager, the `wallet_to_peer` map
and the four `pending_*_txs` maps of node `n`. A handler is one action, because
the loop handles one event at a time and holds the manager's lock meanwhile:

| Action | Handler |
|---|---|
| `Submit` | a `Broadcast*Tx` command: publish on the topic; the publisher does not get it back |
| `HearTx` | `feedo_name_txs`, `feedo_cid_txs`, `feedo_ledger_txs`, `feedo_metadata_txs` |
| `HearDirect` | the `PbftVote` request |
| `HearGossip` | `feedo_consensus_ppor` |
| `HearPeer` | `feedo_peer_announce` and the `PeerAnnounce` request |
| `EpochTick`, `EpochExpires`, `TxExpires` | the epoch timer and the clocks |
| `Restart` | the process starts again: nothing of this is on disk |

Each of the first four ends as the code does: `Chain` delivers the node's own
votes to itself up to three times, and `Finish` is `handle_finalized_tx`,
including what becomes of the manager's entry for each kind of transaction.
The committee that votes are sent to is read before the manager is called, as
in the code.

The network: a vote once sent stays in `net` and may be delivered at any later
time, again, or never; this covers loss, delay, reordering and repetition.
Copies of transaction data are counted in `mail`, because gossip delivers a
message at most once to a node. `heard`, `applied` and `certified` are history,
read by properties only.

`Finality` is the abstract specification: a node receives copies of data,
decides on what it has received, and executes each copy once at most, when some
node has decided. One event may do all three, but for one transaction only. It
knows nothing of votes, committees, epochs, restarts and messages.
`Swarm!Abstract` maps `heard`, `certified` and `applied` to its variables;
`FinalityRefined` is a property of run `swarm_pair`. A registry or ledger
module composes with `Finality` instead of `Swarm`.

### StorageQuota

A request is a `job` that stands at a `step`; each load, compare-and-exchange
and subtraction on the counter is a step of its own, so requests interleave as
threads do. The event loop takes one command at a time, and each is one step.
The counter wraps around at `Word` (2^64 in the code). `Put` is `HybridStore::put`:
`disk` takes every manifest; `memory` takes one if it has room (46 records per
file kept here, 1000 in all) or has its key already, and what is not there is read
back from disk without a publisher; `own` are those that memory has as published
by this node, which a put by another node (`Replicate`) ends. Kademlia removes
`own` ones only, while `handle_delete` gives the bytes back for any that is here.
A lost answer of the consensus node is `NotGranted` with its second disjunct;
`HangUp` is a client that leaves, whose handler is dropped at the `await` it is
at, with what it has reserved.

The rest is history for the properties: `kept` and `leaked` are the bytes of
uploads accepted and not deleted, and of requests given up by their client;
`uploaded` are the files uploaded and not deleted since, removable or not;
`strayed` is set by a restart of the node and by a deletion that leaves its
manifest here, after which the code's counter means nothing any more. No put by
another node and no full memory sets it by itself.

Left out: the branch of `DhtUpload` for an encoding that fails (`encode_data`
refuses an empty file only, which no handler sends), and the expiry of records.

### ShardFetch

Whatever a storage node keeps is keyed by the hash of the file, so the module
follows one file over all nodes. `manifest[n]` and `chunks[n]` are its records
on the disk of `n`; `by` and `own` say which of them memory has as published by
`n`, which is all that `remove_record` goes by. `published[n]` is what Kademlia
(external) may bring to others at any time. `fetch[n]` is the entry of
`active_fetches`: its client, the indices of the shards it has, the failures,
and whether it knows the size of the file. `asked` is `req_resp_to_fetch`, with
the answer each request has got so far; `queries` is `manifest_queries`.

| Action | Handler |
|---|---|
| `DhtUpload`, `DownloadLocal` or `DownloadSearch`, `DhtDelete` | the commands of that name |
| `StoreShard`, `FetchShard` | those requests, at the node asked |
| `ShardData`, `ShardFails` | `ShardData(Some)`; `ShardData(None)` and `OutboundFailure` |
| `FindManifest`, `FindNothing` | `FoundRecord`; the other ends of a query |
| `StoreFails`, `PutRecord` | a shard that does not arrive; replication of a manifest |
| `Restart` | the process starts again with what is on disk |

A fetch that is replaced drops its channel, which `handle_download` turns into
404 (`Begin`). Peers are any list the cache may give, `Room` how many shards of
an upload memory takes. The content of shards is left out: any `DataShards` of
them decode. `alone`, `lost`, `missed` and `gone` are history, read by
properties only: which downloads have met no other one of the file at their
node, which shards a client's requests have not got, whose query has failed,
and which shards never reached their node or were deleted there.

### NodeRouter, Sdk and FileStore

JavaScript runs one callback at a time, so an action reaches from one `await`
to the next. A *lane* is a flow of control that awaits one thing at a time: the
main flow of an operation, `<<o, 0>>`, or one worker of its pool, `<<o, w>>`.
`call[l]` is the request it awaits and `find[l]` the search for a node that this
request began with. `active` and `cache` are the router's fields, shared by all
lanes; `Found` installs its node whatever has happened since the search began,
and `Retry` drops whichever node is active by then. `cache` may be found stale
at any time (`fresh`). The storage probe (`/api/files/recent`, without
signature) is refused by storage nodes, so that a search for storage ends with
the first address of the list: `OpenProbe` has the services that do answer.

`op[o]` holds the local variables of an operation: its stage, the index its
workers share, the array they fill (`got`), and which of them have rejected. A
request that is sent is served (`Serve`: this is where it has its effect), then
answered, or it is refused, or its answer is lost; each failure leads to
`Retry` or, the second time, `GiveUp`, whose rejection runs through the code as
it is written: an index entry for a text may fail, a chunk of a download
may too (`downloadFile` then returns the bytes of the manifest), everything else
fails the operation. Data is content addressed, so a hash *is* the data;
ciphertexts differ by the key, and the key by the operation that draws it.
Services: one store of data behind the storage nodes, the access lists, the
search index, and for other requests the number of times they took effect.
The three `Request` actions stand for the single requests that change something
at a service; queries that only read are left out.

`FileStore` is the abstract specification: names appear for whole files only,
and at once; a fetch gives the file of the name, or the manifest's bytes, or
fails. `Sdk!Abstract` instantiates it with `OnShelf(stored)` for the shelf, the
arguments of the operations for the questions and what they resolve to for the
answers; `StoreRefined` is a property of run `sdk`.

### Indexer, Viewer and Snapshots

`task[i]` says what `processSite` is at with entry `i` of the list; the entries
are let in by `p-limit` in their order, `Limit` at a time. The step from the
duplicate check to the first `await` is one action, as is the step from the
output of the command to the end of the `finally` block. `Deploy` is the effect
of the command, which is a submodule of the repository and empty here: it uploads the
snapshot and points the name to it. A site may fail after that (`Failed`: the
command took too long to print), and the process may `Stop` anywhere; log,
directories, network and index remain. `NameOf` drops the last label of a
domain, so two sites may share a name, as four pairs in the repository's own
log do.

A visit of `Viewer` is one run of `initSandbox`: register, look for
`index.html`, fetch, unpack file by file, ready. Going back to another page of
the site does not end it; closing the page does. `installing` are the
scripts that are registered and not yet active, in order, for the one scope
that both scripts use; `missed` are the files a frame asked for in vain. `cut`
and `last` are history. The search page is `Results`: what the backfill pushed.

## 3. Runs

| Run | Expects | What it shows |
|---|---|---|
| `ppor` | pass | 3 nodes, 1 transaction, committees of 2 out of 3, one rotation, archive of 2: the manager's own guarantees under any calls |
| `swarm_pair` | pass | 2 nodes that start alone, one in direct mode and one not, 2 broadcasts, a restart, an epoch: votes backed by data, execution only of what was finalized, at most once per copy, no quorum overlooked, the refinement of `Finality` |
| `swarm_join` | pass | a third node joins two that know each other while a transaction is voted on: entries opened for committees of 1, 2 and 3 have their quorums, and none of the two finalizes what no quorum of them has received (the newcomer, still its own committee, may) |
| `swarm_live` | pass | 4 nodes, fair delivery, one epoch and no restart: what reaches a quorum is finalized wherever it is heard |
| `storage_quota` | pass | 2 concurrent requests out of 3, a user, 2 files of different size, a restart of either node, memory with or without room, 2 manifests put by other nodes, clients that hang up: exact counter, user limit, every request answered |
| `shard_fetch` | pass | 3 nodes, 2 of 3 shards needed, two uploads that place them differently, a deletion, 2 overlapping downloads at one node, a restart of any node: shards are where manifests say, a download alone gets the file unless too much fails, and every download ends or has lost too many shards |
| `sdk` | pass | 2 operations, one that stores and then one that does anything else, 2 workers, files of 1 to 3 parts, 3 machines, one thing that goes wrong: whole files only, each part once, retries that reach a live machine, the refinement of `FileStore`, nothing stuck |
| `snapshots` | pass | 4 entries (a duplicate, one without URL, two of one name), 2 runs cut off anywhere, 2 visits, 2 competing workers: the log, names and builds, whole sites, served frames, every visit and run ends |
| `swarm_executed` | violation | finalized in direct mode, never executed |
| `swarm_own_quorum` | violation | executed on another node's word alone |
| `swarm_agree` | violation | same epoch, same reputations, different committees |
| `storage_wrap` | violation | two concurrent releases wrap the counter |

The four violations are disagreements between the documents and the code, each
quoted in `PROJECT.json` under `findings`:

* `FinalizedIsExecuted`: `self_deliver_pbft_chain` runs until there is nothing
  left to say, so what it returns is never the Finalized vote the handlers look
  for; execution is left to an incoming, gossiped, Finalized vote, and direct
  mode gossips none once a peer is known.
* `ExecutedOnQuorum`: that gossiped vote is acted upon without a quorum of the
  node that receives it, and even if `handle_message` turned its sender down.
* `CommitteesAgree`: the seed contains the hash each node finalized last.
* `QuotaRespected`: `release` loads and subtracts in two steps.

Other disagreements met while modelling, kept in the models as the code has
them. No run is spent on them; the formula named shows each one to whoever adds
it to the instance.

* In `Sdk`, a private upload is done without an entry of `acl` for its name and
  key: `uploadPrivateFile` names its public key where the consensus node parses
  an address; the grant is refused with status 200, and the SDK looks at the
  status only (`client.ts:78`; `sdk/typescript/README.md:246` says the owner is
  granted access).
* In `ShardFetch`, `answer[c] = "waiting" ~> answer[c] # "waiting"` fails: the
  total of answers is looked at after a failure only (the storage node's
  `swarm_loop.rs:356`), and a
  shard missing on the asking node itself is not counted (`:512`); the client
  waits on, where the documents promise 404. Hence `EnoughEnds` says no more.
* In `ShardFetch`, `answer[c] = "notfound" => c \in missed \/ TooMany(lost[c])`
  and `answer[c] # "empty"` hold of downloads in `alone` only: one entry per file
  serves all its downloads (`:545`); the later one replaces the earlier, whose
  shards and failures then count for it, before it even knows the size of the
  file, which is then cut to nothing (`network.rs:68`).
* In `ShardFetch`, a shard found lost stays lost: `do_self_healing` runs only
  where decoding has failed (`:365`), and starts by decoding the same shards,
  though `README.md:73` of the repository says lost shards are rebuilt.
* In `StorageQuota`, `CounterIsExact` without `~strayed` fails: `handle_delete`
  gives back the bytes of a manifest that Kademlia does not remove (the storage
  node's `main.rs:324`, `network.rs:105-112` and `:124`), at every call again,
  though the file stays and can be downloaded.
* In `StorageQuota`, `leaked = 0` fails: nothing gives back what a dropped handler
  had reserved (`main.rs:159-165`).
* In `ShardFetch`, `DhtDelete` leaves shards on its node: Kademlia removes what
  memory has as this node's own (`:563`), not what came by `StoreShard`, did not
  fit into memory or is older than a restart.
* A search for a storage node cannot tell live from dead ones (see `OpenProbe`),
  though `sdk/typescript/README.md:9` speaks of an instant fallback to a healthy
  node; `storageSeeds` and `consensusSeeds` of the configuration are read by
  nobody; a grantee other than oneself is granted access as the DID "unknown"
  (`client.ts:31`); the viewer says it verifies hashes (`page.tsx:88`) and does
  not.

### Bounds, and why they are enough

Every bound is a constant named `Max...` or `Client`, and appears in a guard.

* *Nodes.* Quorums are 1, 2, 3 and 3 for committees of 1, 2, 3 and 4: three
  nodes reach all shapes in which a quorum is everybody, four the first one in
  which it is not, which is why `swarm_live` uses four. `ppor` elects 2 of 3,
  so that seats change hands.
* *Transactions.* Entries of different transactions share only committee,
  reputations and seed; all three also change by announcements and rotations,
  so one transaction meets every state of them. (`SeedFollowsFinality` and the
  archive get several rounds of the one transaction: it can be proposed anew.)
  What `FinalityRefined` says about two transactions in one event shows for two
  of them only; its theorem is about any number.
* *Reputations* start at 1 and are bounded by 3 in `ppor`: enough for a reward
  of each kind and for the floor. In `Swarm` the rewards are 0, because nothing
  but the draw reads them and the draw of these instances only needs to move.
* *Epochs*: one rotation, before, inside or after the handling of any vote.
* *Restarts*: one, at any moment. *Broadcasts*: two where executing twice is
  the question, one elsewhere.
* *Quota*: sizes 1 and 2, a limit of 3 and of 2 per user make every
  comparison come out both ways; a counter that wraps at 8 shows what 2^64 does.
  One user is enough for a limit per user: accounts share nothing, and no request
  looks at two (`storage_wrap` has two). Two puts by other nodes can take over
  both files, or one of them twice, before and after its upload.
* *Shards*: of 3 shards 2 are needed, so that failures can come before, between
  and after the shards that decide, and 0 to 3 of them; with peers `<<b, p>>` the
  asking node keeps some itself, and with `<<b>>` all of its own uploads. The
  second upload gives manifests of two ages. Three downloads at a node would add
  nothing: an entry knows the latest, and the others' requests are alike. One
  restart, of any node at any moment. Memory has room for the whole file
  (`Room`); what it means to have less, records without a publisher, also
  follows from `StoreShard` and `Restart`, and the theorems are about any room.
* *SDK*: `Plan` lets the first operation store and the second do anything, one
  at a time (`MaxOpen`); a pool that failed goes on beside the second one, so
  workers of two operations and stale searches still meet. Two workers and
  two or three parts give each order in which parts can be claimed and
  answered; a manifest of more than two entries stands for one over 1 MiB.
  `MaxFaults` = 1: one crash, lost answer, failed request, failed discovery or
  slow probe, at any moment. Two attempts per request fail only if two things
  go wrong, or one does and a machine was down: with storage's
  blind probe one crash is enough, so that every rejection is reached.
* *Snapshots*: users come when the first run and the backfill are complete
  (`Complete`): the indexer and the browser share nothing but the pages, so
  that no interleaving between them is lost. Two runs are one that is cut off
  and one that resumes; `Limit` = 2 lets duplicates and namesakes be deployed
  at the same time; archives have `index.html` first and last.

### Fairness

Five specifications assume any. `Swarm!Fairness` (runs `swarm_live`,
`swarm_executed`): a copy of transaction data on its way is heard, and a vote
that would make a difference to a node is heard. That is what a connected
network of live nodes does; clocks and clients are not asked to do anything. Both
runs have no rotation and no restart (`MaxEpoch` and `MaxRestarts` are 0), so
that this is what `HeardIsFinalized` is about: one epoch, in which no node loses
its memory. The first is weak fairness of what `HearTx`, and no other action, does
to `mail`; the second is spelt out by what enables the action (`Pressing`), for
TLC is slow to evaluate ENABLED of a handler, and says nothing of votes already
counted, which a real network need not repeat.
`StorageQuota!FairSpec`: a request that has begun goes on, which the async
runtime gives every task; its client may hang up or not. It includes that an HTTP call to the consensus node
ends, with an answer or with an error. The handlers there wait for no more than
a mutex, and a dead peer breaks the connection; a peer that accepts the
connection and stays silent is outside the assumption, since the client sets no
timeout.

`ShardFetch!FairSpec`: a request for a shard ends, with the shard or without,
and so does a query: libp2p gives either 10 seconds (`main.rs:452` for queries,
its default for requests). There are finitely many of both, so that it is enough
to ask that some request, and some query, always ends. Nothing is assumed about uploads, replication and
restarts, nor which way requests end.

`Sdk!FairSpec`: the event loop runs what can run, and a search ends, for
discovery and probes have timeouts (5 s, 3 s). Requests have none: nothing is
assumed about them, and so `NeverStuck` promises no end, only that whatever has
not ended waits for a request on its way. `Snapshots!FairSpec`: an entry of the
indexer goes on, because scraping and deploying have timeouts and what follows
is synchronous; a visit goes on, because the download has a timeout too and the
store is local; and the browser activates what is registered, since both scripts
skip waiting.

Deadlock is checked in all runs but those of `StorageQuota`, `ShardFetch`, `Sdk`
and `Snapshots`, which stop when their requests, operations, runs and visits are
done.

## 4. Proofs

The first three groups are about every finite set of nodes and transactions, every
committee size, every reward and every draw. They use the assumptions on the
constants stated next to them in `PporManager`, `Ppor` and `Swarm`: finite sets,
positive sizes, announced reputations above 0, draws that differ. Two more are
hypotheses of the two theorems that need them and of no other:
`ScoresAreNumbers`, that a draw is a natural number (in the code a `u64`), and
`OneCommittee`, that moreover the network is no larger than a committee (21 in
the code).

**One manager** (`Ppor_proofs`): all invariants and action properties of run
`ppor`. `QuorumCertificate`, `ValidatedFirst` and `VotersAreKnown` are not
inductive alone. `Certified` (votes are a quorum of
every round an entry is past) is kept by a new vote only because vote sets grow
and the entry's committee stays; that the committee's size is a number, and that
a set of voters has one, needs `TxState` typing and the finiteness of `Node`.
`AllKnown` needs that a sender is learned before its vote is recorded, that an
election seats known nodes only, and that no adjustment takes a node off the
table (the floor of 1). The inductive invariant is
`SoundManager`: the manager is typed, all entries are typed, certified and
checked, and all nodes it names are known. `PporManager_proofs` shows, operator
by operator, that a sound manager becomes a sound manager; the step lemma
`NextInv` goes through the actions citing one lemma each.
`ArchiveIsALog` has an invariant of its own, `Archives`: bounded, in order, of
no epoch to come. Appending at the end of the current epoch keeps it, as does
dropping the first entry; the cleanup at a rotation keeps a subsequence, which
follows by induction over the prefixes that `kept` goes through, done as an
argument about the set of lengths for which it holds (`NatInduct`, since the
library's induction theorem takes an operator, which no prover here instantiates). `EntriesMoveForward` and
`SeedFollowsFinality` compare two states: for each method there is a lemma that
says what it makes of one entry and of the seed; a rotation inside a handler is
what the third disjunct of the former is for, and the one difficulty of both.
`ReputationsStayPositive` is the third of the kind: types allow a reputation of 0,
which stands for a node not in the table, so that what the floor of 1 promises is
about steps. `HandleForgetsNobody` and its neighbours show that each method
keeps all `Known` nodes.

**The network** (`Swarm_proofs`): `NodesAreCertified`, `VotesAreBacked`,
`AppliedOncePerCopy`, `AppliedIsCertified`, for any number of nodes,
transactions, messages, submissions and restarts, any set of nodes in direct
mode and any topics. The inductive invariant `Inv` has three parts beside the two
properties about execution. `TypeInv` is the typing that the argument needs.
`Sound` says that each manager is a `SoundManager`, is its node's, and is
`Backed`: what it has validated, and who it has counted, is in `Reached`, the
pairs of a node and a transaction whose data was delivered. `NetBacked` says the
same of every vote on its way, and that a Finalized vote comes of a node that
has certified; without it a vote sent before a restart, or before its sender's
entry was dropped, could not be accounted for. The three message handlers share
one lemma, `HandlerStep`, about the end of a handler (`Finish` and what was
sent); `RoundIsOK` carries a Finalized entry through self-delivery, which needs
that `handle_message` restarts the clock, so that no rotation drops the entry
between the first answer and the last. The other actions share `ManagerStep`.
Nothing in `Inv` assumes that votes come from committee members, that nodes
agree on a committee or that the draw is fair.

**More about the network** (`Swarm_proofs`). `Works(m, w)` lists what a step may
make of a manager, and `NextMoves` shows that it is complete, so that what is
about managers only is shown once for each way to work, and not for each action.

* `TypeOK`: `BoundInv` adds the archives, and that the copies of a transaction
  on their way to a node and delivered to it are no more than its broadcasts;
  without the sum the bound on `heard` is not inductive.
* `NoQuorumOverlooked`, under `OneCommittee`. `mark_validated` looks at no vote,
  and votes counted early complete nothing: what makes it true is
  that the node's own vote follows and does count. `Attentive` says that the
  node is a member of its own committee (under `OneCommittee` every known node
  is elected, `EveryoneIsElected`) and that no entry holds an unused quorum. In
  the middle of a handler that is false, and `Owes(m, v)` says of which one entry
  it may be, until the vote `v`, still to be delivered to itself, is;
  `AttendsToTheEnd` shows that the three rounds of `Chain` are enough, because
  there are three phases to go through.
* `FinalityIsShared`, under `ScoresAreNumbers`. A node's committee may be smaller
  than the nodes it knows, so the argument is about sizes: an election seats as
  many as it can (`ElectionSeats`: of the nodes left without a seat, the one with
  the fewest ahead of it has all of these seated, and they are enough). `Manned` says
  that committee and open entries are as large as any committee of
  those in `Met` could be; it stays because a table of reputations only grows
  until a restart, the reason for the hypothesis on restarts. Then the quorum
  an entry holds (`Certified`), which is of nodes the data has reached
  (`Backed`), is large enough. An entry may be dropped in the very step it is
  certified in: `HandledUpon` says what the handler had made before it was.
* `Spec => FinalityRefined`. `FinalsInv` says that what a node has Finalized it
  has certified, so that a decision is seen once. `About` follows one
  transaction through a handler and its self-delivery: no other becomes
  Finalized, none else is voted on, so `Finish` settles this one only.
  `HandlerPromises` makes one step of `Finality` of the end of a handler, with
  the help of `AppliedIsCertified` and `AppliedOncePerCopy` of the state
  reached; all other actions are unseen (`StepUnseen`).

**Indexer and viewer** (`Snapshots_proofs`): all invariants of run `snapshots`
and the action property `FramesAreServed`, for any list, names, concurrency,
runs, visits and archives. `IndexerInv` adds to the properties what a run at
work knows: it counts on from the end of the log (`Marks`; `LastNumberIsLength`
ties the greatest number in the log to its length), every domain logged or
worked on is marked, and the ones worked on are all different and not logged,
which makes each `Succeeded` append a new domain under the next number, and
each `Deploy` take a name only from another site. `LeadsTo` must hold of
what is deployed and not yet logged, too (`Deployed`). `ViewerInv` says that what a
visit has unpacked is on disk (`Progress`), that wherever `index.html` is found
the site is whole, cut off or being unpacked (`Found`), and that a view that
registered last has its worker newest (`InCharge`). `MoveOn` is the one lemma
behind most steps of a visit. What users open is in the index, hence a
snapshot: the viewer's proof uses `IndexerInv` for this alone.

**The SDK** (`Sdk_proofs`): `TypeOK`, `ManifestsAreWhole`, `NamedIsWhole`,
`PartsAreClaimedOnce`, `EffectsFollowLosses` and `FailoverWorks`, for any
machines, directory, operations, pool size, files, plan and faults. The
assumptions are `RouterAssumption`, `SdkAssumption` (lanes are the flows of the
operations, files have a part at least, keys differ from operation to operation)
and `HeldAssumption` (what the storage service holds at the start is whole: its
lists are of files all of whose parts are there). `SdkInv` is the inductive
invariant: `SearchOK` ties a request to the search it began with; `ServicesOK`
is the first three properties as the services see them; `OpInv(o)` is about one
operation, in four parts. `RecordOK` says that what lies in the shared array
lies at its place and is stored, and that nothing lies beyond the index the
workers share; `MainOK` and `WorkerOK` say what an awaited request is about,
stage by stage, and that one served has had its effect; `Claims` says that no
two workers have one part, and that a part claimed is kept, under way or was
claimed by a worker that has died, which fails the pool. Only the four together
give that a manifest is built of a full array. `RecordStays` and
its neighbours say what leaves an operation alone; each action then has one
lemma. `EffectsFollowLosses` counts the requests that are past being sent
(`Past`), for the effects of a service can only be traced to those and to lost
answers. `FailoverWorks` speaks of a request during which nothing has gone
wrong, to a service whose probe answers (`OpenProbe`); `FailInv` says where a
search made under these conditions got its list from: from the directory, not
from the cache that may be stale.

**The refinement** (`SdkStore_proofs`): `Spec => StoreRefined`. `FetchInv` adds
to `SdkInv` what a download has so far: its parts, decrypted or not, are those
of the file named, at their places. A step is shown to be `Simulated`: a step of
`FileStore` or one it does not see. Most are unseen (`Stutters`); a user's call
is a question put (`UserStarts`); the upload of a part, or of a manifest that
completes a file, puts a name on the shelf; an operation that resolves gives an
answer that `FileStore` may give (`OneMoves`). Names and answers appear in one
step each, although the code needs a request per part: this is what the
refinement says that the invariants do not.

**The quotas** (`StorageQuota_proofs`): `LedgerWithinLimit`, `TypeOK` and
`CounterIsExact`, for any handlers, users, files, sizes and limits, with answers
lost and nodes restarted.
The account checks before it adds, and gives back with a floor of 0: `QuotaInv`
needs only the typing of jobs and accounts beside it, because reservation is
one step of the consensus node; what the storage node believes plays no part.
`TypeOK` needs that what is kept never becomes negative: `KeptInv` says that it
is at least the size of all files uploaded and not deleted, of which a deletion
that removes takes one, for what memory has as this node's own was uploaded
(`own \subseteq uploaded`). That is the second half of `CounterIsExact`, too, and
holds of files whose manifest is another's by now. For the first, `CountInv` adds
that, on a node that has not strayed,
a release has seen at least the bytes it gives back, so that the minimum in
`release` never bites there. A step moves bytes between `used`, `kept`, `leaked` and
one member of a sum over all requests (`Held`). The community module defines the sum by a
recursion over subsets that takes their members in any order; that the recursion
exists, that the order does not matter, and that changing one
member changes the sum by the difference (`SumChange`), is proved from that
definition by induction on the size of a set, in the same way as above.

**Shards and downloads** (`ShardFetch_proofs`): `ShardsAreWhereManifestsSay`,
`LoneDownloadsAreServed` and the types, for any nodes, clients, lists of peers,
numbers of shards and restarts. `Traces` says of what nodes publish what the
first property says of what they have, since it will become the manifest of
others; `TracedStays` is the one fact about steps: a shard that is on its node,
on its way or accounted for stays so. For the second, `Alone` says that a client
alone at its node owns all that is under way there, and that its fetch has counted no more
failures than shards lost; `AskedOnce` (no shard is asked for twice, or again
once lost) makes each failure a different shard; with fewer than `DataShards`
received (`Fetches`), a total of `TotalShards` means more lost than the parity.
`InOrder` keeps shards from a fetch whose manifest is still looked for, which is
why a file restored for it is never empty. None of this survives a second
download (section 3).

Only model-checked: the liveness properties `HeardIsFinalized`, `RequestsEnd`,
`EnoughEnds`, `NeverStuck`, `VisitsEnd` and `ScanEnds`, which rest on fairness
and so on ENABLED, out of this prover's reach. Every invariant and every action
property that a passing run checks is a theorem, and so are both refinements.

## 5. Plan

In the order of what matters most:

1. Done: `PporManager`, `Ppor`, `Swarm`, `StorageQuota`, `NodeRouter`, `Sdk`
   with `FileStore`, `ShardFetch`, `Indexer`, `Viewer`, `Snapshots`; theorems for all their
   invariants and action properties; the refinements of `FileStore` and `Finality`.
2. `GrantLedger`: balances, grants and storage accounts with their database,
   restarts between the steps of a claim; properties: a claim is credited once,
   the claim limit holds, what was credited survives a restart (expected to
   disagree with the code).
3. `NameRegistry`: `register_name` with its await in the middle, the optimistic
   write, execution in different orders; property: one owner per name.
   Composes with `Finality`.
4. `EthBridge` and `PporTreasury`: the polling cursor against failing queries
   and restarts; signatures, nonces and committee updates.
5. Proofs: a weaker hypothesis than `restarts = 0` for `FinalityIsShared` (a node
   that has not restarted itself, entries that others opened before); an abstract
   byte counter that `StorageQuota` implements while it has not strayed.

### Not modelled

Search node, proxy, Python SDK, browser, explorer and the rest of the web site
(I/O, numerics and drawing, no protocol state; the Python SDK repeats the
TypeScript one), authentication and telemetry (single steps), replay (called by
no code), vendored frameworks. Of the storage loop: `do_self_healing` and the
answers of `query_to_fetch`, which no reachable state runs with any effect;
Kademlia's replication of single shards and the expiry of what it has
replicated. Of the SDK: queries that only read, the
derivation of usage keys, and the empty private file, whose upload makes a
manifest without parts. Of the viewer: the HTTP cache in front of the service
worker (`Cache-Control`, one hour) and the change of its parameters while a
download runs.
