------------------------------- MODULE Indexer -------------------------------
(***************************************************************************)
(* The indexer of web sites (scripts/indexer/index.js), which takes        *)
(* snapshots of the sites of a list, deploys them to the network under     *)
(* names of their own and keeps a log, and the backfill (backfill.js) that *)
(* enters what the log says into the search index.                         *)
(*                                                                         *)
(* The log is all that survives the process: a run that starts later skips *)
(* the domains it finds there and goes on counting.  The command that      *)
(* deploys is not in the repository; it ends with the process.             *)
(***************************************************************************)
EXTENDS Naturals, Sequences, FiniteSets, Functions

CONSTANTS
  Domain,
  NoDomain,       \* what extractDomain makes of an entry without a proper URL
  Protocols,      \* the list of sites, cut at MAX_SITES: their domains
  NameOf,         \* NameOf[d]: "snapshot." and d without its last label
  Limit,          \* CONCURRENCY_LIMIT
  MaxRuns         \* bound of the model: times the indexer is started

ASSUME IndexerAssumption ==
  /\ NoDomain \notin Domain
  /\ Protocols \in Seq(Domain \cup {NoDomain})
  /\ DOMAIN NameOf = Domain
  /\ Limit \in Nat \ {0}
  /\ MaxRuns \in Nat

VARIABLES
  running,        \* the process is alive
  run,            \* runs begun so far
  task,           \* task[i]: what processSite is at with entry i
  processed,      \* processedDomains
  count,          \* successfulCount
  dirs,           \* domains that have a directory in TEMP_DIR
  log,            \* indexed_sites.md
  net,            \* snapshots on the network
  names,          \* names[n]: the snapshot the name n leads to
  fill,           \* entries the backfill has yet to push
  pages           \* entries of the search index

process == <<running, run, task, processed, count>>
indexer == <<process, dirs, log, net, names, fill, pages>>

Entries == DOMAIN Protocols

\* A snapshot is known by its CID; what runs at different times find differs.
Snapshot == [domain: Domain, run: 1..MaxRuns]
NoSnapshot == [domain |-> NoDomain, run |-> 0]
Taken(i) == [domain |-> Protocols[i], run |-> run]

Line == [number: Nat, cid: Snapshot]

Logged == {log[k].cid.domain : k \in DOMAIN log}
Active == {i \in Entries : task[i] \in {"scraping", "deploying", "deployed"}}

IndexerTypeOK ==
  /\ running \in BOOLEAN
  /\ run \in 0..MaxRuns
  /\ task \in [Entries -> {"waiting", "scraping", "deploying", "deployed", "done"}]
  /\ processed \subseteq Domain /\ dirs \subseteq Domain
  /\ count \in Nat
  /\ log \in Seq(Line) /\ fill \in Seq(Line)
  /\ net \subseteq Snapshot
  /\ names \in [Range(NameOf) -> Snapshot \cup {NoSnapshot}]
  /\ pages \subseteq Snapshot

IndexerInit ==
  /\ running = FALSE
  /\ run = 0
  /\ task = [i \in Entries |-> "done"]
  /\ processed = {} /\ dirs = {}
  /\ count = 0
  /\ log = <<>> /\ fill = <<>>
  /\ net = {}
  /\ names = [n \in Range(NameOf) |-> NoSnapshot]
  /\ pages = {}

----------------------------------------------------------------------------

\* Mutant: the greatest number of an empty log is taken, too.
LastNumberOfAny ==
  IF log = <<>> THEN 0 - 1
  ELSE CHOOSE n \in {log[k].number : k \in DOMAIN log} :
         \A k \in DOMAIN log : log[k].number <= n

\* The number loadCheckpoints goes on from.
LastNumber ==
  IF log = <<>> THEN 0
  ELSE CHOOSE n \in {log[k].number : k \in DOMAIN log} :
         \A k \in DOMAIN log : log[k].number <= n

\* Mutant: the checkpoints are not loaded.
LaunchAnew ==
  /\ ~running
  /\ run < MaxRuns
  /\ running' = TRUE
  /\ run' = run + 1
  /\ task' = [i \in Entries |-> "waiting"]
  /\ UNCHANGED <<processed, count, dirs, log, net, names, fill, pages>>

\* main: the checkpoints are loaded and every entry is queued.
Launch ==
  /\ ~running
  /\ run < MaxRuns
  /\ running' = TRUE
  /\ run' = run + 1
  /\ processed' = Logged
  /\ count' = LastNumber
  /\ task' = [i \in Entries |-> "waiting"]
  /\ UNCHANGED <<dirs, log, net, names, fill, pages>>

\* Mutants: the domain is not noted before the first await; a domain met
\* before never resolves.
ProcessSiteUnmarked(i) ==
  LET d == Protocols[i] IN
  /\ task[i] = "waiting"
  /\ \A j \in 1..(i - 1) : task[j] # "waiting"
  /\ Cardinality(Active) < Limit
  /\ task' = [task EXCEPT ![i] = IF d = NoDomain \/ d \in processed THEN "done" ELSE "scraping"]
  /\ dirs' = dirs \ {d}
  /\ UNCHANGED <<running, run, processed, count, log, net, names, fill, pages>>
ProcessSiteUnresolved(i) ==
  LET d == Protocols[i] IN
  /\ task[i] = "waiting"
  /\ \A j \in 1..(i - 1) : task[j] # "waiting"
  /\ Cardinality(Active) < Limit
  /\ d # NoDomain /\ d \notin processed
  /\ task' = [task EXCEPT ![i] = "scraping"]
  /\ processed' = processed \cup {d}
  /\ dirs' = dirs \ {d}
  /\ UNCHANGED <<running, run, count, log, net, names, fill, pages>>

\* The queue lets the next entry in; processSite goes on to its first await.
\* Entries without a domain, and domains met before, are done at once; of the
\* others a directory that an earlier run may have left is removed.
ProcessSite(i) ==
  LET d == Protocols[i] IN
  /\ task[i] = "waiting"
  /\ \A j \in 1..(i - 1) : task[j] # "waiting"
  /\ Cardinality(Active) < Limit
  /\ IF d = NoDomain \/ d \in processed
     THEN /\ task' = [task EXCEPT ![i] = "done"]
          /\ UNCHANGED <<processed, dirs>>
     ELSE /\ task' = [task EXCEPT ![i] = "scraping"]
          /\ processed' = processed \cup {d}
          /\ dirs' = dirs \ {d}
  /\ UNCHANGED <<running, run, count, log, net, names, fill, pages>>

\* The build is in its directory, and the deployment begins.
Scraped(i) ==
  /\ task[i] = "scraping"
  /\ task' = [task EXCEPT ![i] = "deploying"]
  /\ dirs' = dirs \cup {Protocols[i]}
  /\ UNCHANGED <<running, run, processed, count, log, net, names, fill, pages>>

\* The command uploads the snapshot and registers the name.
Deploy(i) ==
  /\ task[i] = "deploying"
  /\ Protocols[i] \in dirs
  /\ task' = [task EXCEPT ![i] = "deployed"]
  /\ net' = net \cup {Taken(i)}
  /\ names' = [names EXCEPT ![NameOf[Protocols[i]]] = Taken(i)]
  /\ UNCHANGED <<running, run, processed, count, dirs, log, fill, pages>>

\* Mutant: the command is not awaited.
SucceededUnawaited(i) ==
  /\ task[i] \in {"deploying", "deployed"}
  /\ task' = [task EXCEPT ![i] = "done"]
  /\ count' = count + 1
  /\ log' = Append(log, [number |-> count + 1, cid |-> Taken(i)])
  /\ dirs' = dirs \ {Protocols[i]}
  /\ UNCHANGED <<running, run, processed, net, names, fill, pages>>

\* It prints the CID in time: the site is counted and logged, and its
\* directory removed, in one step of the event loop.
Succeeded(i) ==
  /\ task[i] = "deployed"
  /\ task' = [task EXCEPT ![i] = "done"]
  /\ count' = count + 1
  /\ log' = Append(log, [number |-> count + 1, cid |-> Taken(i)])
  /\ dirs' = dirs \ {Protocols[i]}
  /\ UNCHANGED <<running, run, processed, net, names, fill, pages>>

\* Scraping fails, or the command fails or takes over two minutes, whatever it
\* has done until then.  The domain is not tried again in this run.
Failed(i) ==
  /\ i \in Active
  /\ task' = [task EXCEPT ![i] = "done"]
  /\ dirs' = dirs \ {Protocols[i]}
  /\ UNCHANGED <<running, run, processed, count, log, net, names, fill, pages>>

\* The process ends, at its end or anywhere else, and its memory with it.
Stop ==
  /\ running
  /\ running' = FALSE
  /\ task' = [i \in Entries |-> "done"]
  /\ processed' = {}
  /\ count' = 0
  /\ UNCHANGED <<run, dirs, log, net, names, fill, pages>>

\* The backfill reads the log, and pushes entry after entry; one that cannot
\* be pushed is left out.
Backfill ==
  /\ fill = <<>>
  /\ fill' = log
  /\ UNCHANGED <<process, dirs, log, net, names, pages>>

Push ==
  /\ fill # <<>>
  /\ fill' = Tail(fill)
  /\ \/ pages' = pages \cup {Head(fill).cid}
     \/ UNCHANGED pages
  /\ UNCHANGED <<process, dirs, log, net, names>>

TaskSteps(i) == ProcessSite(i) \/ Scraped(i) \/ Deploy(i) \/ Succeeded(i) \/ Failed(i)

IndexerNext ==
  \/ Launch \/ Stop \/ Backfill \/ Push
  \/ \E i \in Entries : TaskSteps(i)

IndexerSpec == IndexerInit /\ [][IndexerNext]_indexer

----------------------------------------------------------------------------
(* Properties.                                                             *)

\* The lines of the log are numbered from 1 without gap or repetition, and no
\* domain is logged twice, over all runs and wherever they were cut off, with
\* several sites being deployed at a time (index.js:80-84, 148-158, 170-183).
LoggedOnce ==
  /\ \A k \in DOMAIN log : log[k].number = k
  /\ \A j, k \in DOMAIN log : log[j].cid.domain = log[k].cid.domain => j = k

\* The build of a site that is being deployed stays where it is: no other
\* entry of its domain clears the directory (index.js:80-95, 163-166).
BuildsAreLeftAlone ==
  \A i \in Entries : task[i] \in {"deploying", "deployed"} => Protocols[i] \in dirs

\* What is logged or found by searching is a snapshot on the network, and the
\* name of a site that is logged leads to the snapshot logged, unless another
\* site has the same name: a snapshot that was deployed and not logged, by a
\* run that was cut off or an answer that came too late, is never in the way
\* (index.js:86, 132-158; backfill.js:33-53).
LoggedIsNamed ==
  /\ pages \subseteq {log[k].cid : k \in DOMAIN log}
  /\ \A k \in DOMAIN log :
       LET s == log[k].cid
           n == names[NameOf[s.domain]]
       IN  /\ s \in net
           /\ n # s => n.domain # s.domain /\ n \in net

\* A run that is not cut off gets to the end of the list, and has tried every
\* domain in it (index.js:188-204).
ScanEnds ==
  running ~> \/ ~running
             \/ /\ \A i \in Entries : task[i] = "done"
                /\ Range(Protocols) \ {NoDomain} \subseteq processed
=============================================================================
