------------------------------ MODULE Snapshots ------------------------------
(***************************************************************************)
(* From a list of sites to a frame that shows one: the indexer deploys     *)
(* snapshots and the backfill enters them into the search index            *)
(* (Indexer); the search page of the web site lists what the index has     *)
(* (web/src/app/search/page.tsx), and each result opens the viewer of its  *)
(* CID (Viewer).                                                           *)
(***************************************************************************)
EXTENDS Indexer, Viewer

ASSUME SnapshotsAssumption == Cid = Snapshot /\ NoCid \notin Snapshot

vars == <<indexer, viewer>>

Init == IndexerInit /\ ViewerInit

\* Bound of the model: users come when the first run has logged every site and
\* the backfill has entered all of them; nothing is indexed from then on.
Opened == \E v \in Visit : ~At(v, "none")
Complete ==
  /\ run = 1 /\ ~running /\ fill = <<>>
  /\ pages = {Taken(i) : i \in {j \in Entries : Protocols[j] # NoDomain}}

\* The search page: the first search node that answers gives the results.
Results == pages

IndexerSteps ==
  /\ ~Opened
  /\ IndexerNext
  /\ UNCHANGED viewer

\* A result is opened: /view?domain=...&cid=...
OpenResult(v) ==
  /\ Complete
  /\ \E c \in Results : Open(v, c)
  /\ UNCHANGED indexer

ViewerSteps ==
  /\ Complete
  /\ LoadPage \/ Activate \/ \E v \in Visit : Surf(v, net)
  /\ UNCHANGED indexer

Next == IndexerSteps \/ ViewerSteps \/ \E v \in Visit : OpenResult(v)

Spec == Init /\ [][Next]_vars

\* Scraping, deploying and downloading have timeouts, the rest of initSandbox
\* waits for the disk only, and the browser installs what is registered.
FairSpec ==
  /\ Spec
  /\ \A i \in Entries : WF_indexer(TaskSteps(i))
  /\ \A v \in Visit : WF_viewer(InitSandbox(v, net))
  /\ WF_viewer(Activate)

TypeOK == IndexerTypeOK /\ ViewerTypeOK
=============================================================================
