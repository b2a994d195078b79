-------------------------- MODULE Snapshots_proofs --------------------------
(***************************************************************************)
(* Proofs about the indexer and the viewer, for every list of sites, any   *)
(* number of runs, deployments at a time and visits.                       *)
(***************************************************************************)
EXTENDS Snapshots, SequenceTheorems, TLAPS

----------------------------------------------------------------------------
(* The indexer.                                                            *)

\* A run at work counts on from the end of the log, and has marked every
\* domain that is logged or being worked on; the latter are all different and
\* not logged.
Marks ==
  /\ \A i \in Entries : task[i] # "done" => running
  /\ running => run \in 1..MaxRuns /\ count = Len(log) /\ Logged \subseteq processed
  /\ \A i \in Active : Protocols[i] \in processed /\ Protocols[i] \notin Logged
  /\ \A i, j \in Active : Protocols[i] = Protocols[j] => i = j

\* A name leads to the snapshot s, or to one of another site.
LeadsTo(s) ==
  LET n == names[NameOf[s.domain]]
  IN  s \in net /\ (n # s => n.domain # s.domain /\ n \in net)

\* What is deployed is named like what is logged; and the backfill pushes
\* lines of the log.
Deployed ==
  /\ \A i \in Entries : task[i] = "deployed" => LeadsTo(Taken(i))
  /\ \A k \in DOMAIN log : LeadsTo(log[k].cid)
  /\ Range(fill) \subseteq Range(log)
  /\ pages \subseteq {log[k].cid : k \in DOMAIN log}

\* The inductive invariant of the indexer.
IndexerInv ==
  IndexerTypeOK /\ LoggedOnce /\ Marks /\ BuildsAreLeftAlone /\ Deployed

\* Lines of the log carry snapshots of sites.
LEMMA LinesAreTyped ==
  ASSUME IndexerTypeOK, NEW k \in DOMAIN log
  PROVE  log[k].cid \in Snapshot /\ log[k].cid.domain \in Domain
<1>1. log[k] \in Line
  BY DEF IndexerTypeOK
<1>. QED  BY <1>1 DEF Line, Snapshot

\* The log's greatest number is its length: index.js:170-183.
LEMMA LastNumberIsLength ==
  ASSUME IndexerTypeOK, LoggedOnce
  PROVE  LastNumber = Len(log)
<1>. USE DEF IndexerTypeOK, LoggedOnce, LastNumber
<1>1. CASE log = <<>>
  BY <1>1
<1>2. CASE log # <<>>
  <2>. DEFINE N == {log[k].number : k \in DOMAIN log}
  <2>1. Len(log) \in N /\ \A k \in DOMAIN log : log[k].number <= Len(log)
    BY <1>2
  <2>2. ASSUME NEW n \in N, \A k \in DOMAIN log : log[k].number <= n
        PROVE  n = Len(log)
    BY <2>1, <2>2, <1>2
  <2>3. LastNumber = CHOOSE n \in N : \A k \in DOMAIN log : log[k].number <= n
    BY <1>2
  <2>. QED  BY <2>1, <2>2, <2>3
<1>. QED  BY <1>1, <1>2

\* Nothing has been done when the indexer is first started.
LEMMA IndexerInitHolds ==
  ASSUME IndexerAssumption, IndexerInit
  PROVE  IndexerInv
<1>. USE DEF IndexerInit, Entries
<1>1. IndexerTypeOK
  <2>1. run \in 0..MaxRuns /\ count \in Nat
    BY DEF IndexerAssumption
  <2>2. task \in [Entries -> {"waiting", "scraping", "deploying", "deployed", "done"}]
    OBVIOUS
  <2>3. names \in [Range(NameOf) -> Snapshot \cup {NoSnapshot}]
    OBVIOUS
  <2>4. log \in Seq(Line) /\ fill \in Seq(Line)
    OBVIOUS
  <2>. QED  BY <2>1, <2>2, <2>3, <2>4 DEF IndexerTypeOK, Entries
<1>2. LoggedOnce
  BY DEF LoggedOnce
<1>3. Marks /\ BuildsAreLeftAlone
  BY DEF Marks, BuildsAreLeftAlone, Active
<1>4. Deployed
  BY DEF Deployed, Range
<1>. QED  BY <1>1, <1>2, <1>3, <1>4 DEF IndexerInv

\* A run is started (index.js:188-204).
LEMMA LaunchStep ==
  ASSUME IndexerAssumption, IndexerInv, Launch
  PROVE  IndexerInv'
<1>. USE DEF IndexerInv, Launch
<1>1. count' = Len(log)
  BY LastNumberIsLength
<1>2. IndexerTypeOK'
  <2>1. Logged \subseteq Domain
    BY LinesAreTyped DEF Logged
  <2>2. Len(log) \in Nat
    BY DEF IndexerTypeOK
  <2>3. run' \in 0..MaxRuns
    BY DEF IndexerTypeOK, IndexerAssumption
  <2>. QED  BY <1>1, <2>1, <2>2, <2>3 DEF IndexerTypeOK
<1>3. LoggedOnce'
  BY DEF LoggedOnce
<1>4. Active' = {}
  BY DEF Active
<1>5. Marks'
  BY <1>1, <1>4 DEF Marks, Logged, IndexerTypeOK, IndexerAssumption
<1>6. BuildsAreLeftAlone'
  BY DEF BuildsAreLeftAlone
<1>7. Deployed'
  BY DEF Deployed, LeadsTo
<1>. QED  BY <1>2, <1>3, <1>5, <1>6, <1>7

\* An entry's turn comes (index.js:74-95).
LEMMA ProcessSiteStep ==
  ASSUME IndexerAssumption, IndexerInv, NEW i \in Entries, ProcessSite(i)
  PROVE  IndexerInv'
<1>. USE DEF IndexerInv, ProcessSite
<1>. DEFINE d == Protocols[i]
<1>1. d \in Domain \cup {NoDomain}
  BY DEF IndexerAssumption, Entries
<1>2. IndexerTypeOK'
  BY <1>1 DEF IndexerTypeOK
<1>3. LoggedOnce'
  BY DEF LoggedOnce
<1>4. CASE d = NoDomain \/ d \in processed
  <2>1. Active' = Active
    BY <1>4 DEF Active, IndexerTypeOK
  <2>2. Marks'
    BY <1>4, <2>1 DEF Marks, Logged, IndexerTypeOK
  <2>3. BuildsAreLeftAlone'
    BY <1>4 DEF BuildsAreLeftAlone, IndexerTypeOK
  <2>4. Deployed'
    BY <1>4 DEF Deployed, LeadsTo, Taken, IndexerTypeOK
  <2>. QED  BY <1>2, <1>3, <2>2, <2>3, <2>4
<1>5. CASE ~(d = NoDomain \/ d \in processed)
  <2>1. Active' = Active \cup {i} /\ i \notin Active
    BY <1>5 DEF Active, IndexerTypeOK
  <2>2. Logged' = Logged /\ running /\ d \notin Logged
    BY <1>5 DEF Marks, Logged
  <2>3. Marks'
    BY <1>5, <2>1, <2>2 DEF Marks, IndexerTypeOK
  <2>4. BuildsAreLeftAlone'
    BY <1>5 DEF BuildsAreLeftAlone, IndexerTypeOK, Marks, Active
  <2>5. Deployed'
    BY <1>5 DEF Deployed, LeadsTo, Taken, IndexerTypeOK
  <2>. QED  BY <1>2, <1>3, <2>3, <2>4, <2>5
<1>. QED  BY <1>4, <1>5

\* The build is downloaded (index.js:97-124).
LEMMA ScrapedStep ==
  ASSUME IndexerAssumption, IndexerInv, NEW i \in Entries, Scraped(i)
  PROVE  IndexerInv'
<1>. USE DEF IndexerInv, Scraped
<1>1. Active' = Active /\ i \in Active
  BY DEF Active, IndexerTypeOK
<1>2. Protocols[i] \in Domain
  BY <1>1 DEF Marks, IndexerTypeOK
<1>3. IndexerTypeOK' /\ LoggedOnce'
  BY <1>2 DEF IndexerTypeOK, LoggedOnce
<1>4. Marks'
  BY <1>1 DEF Marks, Logged, IndexerTypeOK
<1>5. BuildsAreLeftAlone' /\ Deployed'
  BY DEF BuildsAreLeftAlone, Deployed, LeadsTo, Taken, IndexerTypeOK
<1>. QED  BY <1>3, <1>4, <1>5

\* A snapshot reaches the network and its name is registered: whatever is
\* logged or deployed beside it and has lost the name is of another site.
LEMMA DeployStep ==
  ASSUME IndexerAssumption, IndexerInv, NEW i \in Entries, Deploy(i)
  PROVE  IndexerInv'
<1>. USE DEF IndexerInv, Deploy
<1>. DEFINE d == Protocols[i]
            s == Taken(i)
<1>1. Active' = Active /\ i \in Active
  BY DEF Active, IndexerTypeOK
<1>2. d \in Domain /\ d \notin Logged /\ run \in 1..MaxRuns
  BY <1>1 DEF Marks, IndexerTypeOK, Active
<1>3. s \in Snapshot /\ s.domain = d /\ NameOf[d] \in Range(NameOf)
  BY <1>2 DEF Taken, Snapshot, Range, IndexerAssumption
<1>4. IndexerTypeOK' /\ LoggedOnce'
  BY <1>3 DEF IndexerTypeOK, LoggedOnce
<1>5. Marks' /\ BuildsAreLeftAlone'
  BY <1>1 DEF Marks, Logged, BuildsAreLeftAlone, IndexerTypeOK
<1>6. s \in net' /\ names'[NameOf[d]] = s
  BY <1>3 DEF IndexerTypeOK
<1>7. ASSUME NEW t, LeadsTo(t), t.domain # d
      PROVE  LeadsTo(t)'
  <2>1. CASE NameOf[t.domain] = NameOf[d]
    BY <1>3, <1>6, <1>7, <2>1 DEF LeadsTo
  <2>2. CASE NameOf[t.domain] # NameOf[d]
    BY <1>7, <2>2 DEF LeadsTo, IndexerTypeOK
  <2>. QED  BY <2>1, <2>2
<1>8. LeadsTo(s)'
  BY <1>3, <1>6 DEF LeadsTo, Taken
<1>9. ASSUME NEW j \in Entries, task'[j] = "deployed"
      PROVE  LeadsTo(Taken(j))'
  <2>1. CASE j = i
    BY <1>8, <2>1 DEF Taken
  <2>2. CASE j # i
    <3>1. task[j] = "deployed" /\ j \in Active
      BY <1>9, <2>2 DEF IndexerTypeOK, Active
    <3>2. Taken(j).domain # d
      BY <1>1, <2>2, <3>1 DEF Marks, Taken
    <3>3. LeadsTo(Taken(j))
      BY <3>1 DEF Deployed
    <3>4. Taken(j)' = Taken(j)
      BY DEF Taken
    <3>. QED  BY <1>7, <3>2, <3>3, <3>4 DEF LeadsTo
  <2>. QED  BY <2>1, <2>2
<1>10. ASSUME NEW k \in DOMAIN log
       PROVE  LeadsTo(log[k].cid)'
  <2>1. log[k].cid.domain # d
    BY <1>2 DEF Logged
  <2>2. LeadsTo(log[k].cid)
    BY DEF Deployed
  <2>. QED  BY <1>7, <2>1, <2>2 DEF LeadsTo
<1>11. Deployed'
  BY <1>9, <1>10 DEF Deployed
<1>. QED  BY <1>4, <1>5, <1>11

\* A site is counted and logged (index.js:141-166).
LEMMA SucceededStep ==
  ASSUME IndexerAssumption, IndexerInv, NEW i \in Entries, Succeeded(i)
  PROVE  IndexerInv'
<1>. USE DEF IndexerInv, Succeeded
<1>. DEFINE d == Protocols[i]
            s == Taken(i)
            line == [number |-> count + 1, cid |-> s]
<1>1. i \in Active /\ Active' = Active \ {i}
  BY DEF Active, IndexerTypeOK
<1>2. /\ d \in Domain /\ d \notin Logged /\ d \in processed
      /\ running /\ run \in 1..MaxRuns /\ count = Len(log)
  BY <1>1 DEF Marks, IndexerTypeOK, Active
<1>3. s \in Snapshot /\ s.domain = d /\ line \in Line
  BY <1>2 DEF Taken, Snapshot, Line, IndexerTypeOK
<1>4. /\ log' \in Seq(Line) /\ Len(log') = Len(log) + 1
      /\ DOMAIN log' = DOMAIN log \cup {Len(log) + 1}
      /\ log'[Len(log) + 1] = line
      /\ \A k \in DOMAIN log : log'[k] = log[k]
  BY <1>3 DEF IndexerTypeOK
<1>5. IndexerTypeOK'
  BY <1>2, <1>4 DEF IndexerTypeOK
<1>6. Logged' = Logged \cup {d}
  <2>1. Logged' = {log'[k].cid.domain : k \in DOMAIN log \cup {Len(log) + 1}}
    BY <1>4 DEF Logged
  <2>. QED  BY <1>3, <1>4, <2>1 DEF Logged
<1>7. LoggedOnce'
  <2>1. \A k \in DOMAIN log' : log'[k].number = k
    BY <1>2, <1>4 DEF LoggedOnce
  <2>2. \A k \in DOMAIN log : log[k].cid.domain # d
    BY <1>2 DEF Logged
  <2>3. ASSUME NEW j \in DOMAIN log', NEW k \in DOMAIN log',
               log'[j].cid.domain = log'[k].cid.domain
        PROVE  j = k
    <3>1. CASE j \in DOMAIN log /\ k \in DOMAIN log
      BY <1>4, <2>3, <3>1 DEF LoggedOnce
    <3>2. CASE ~(j \in DOMAIN log /\ k \in DOMAIN log)
      BY <1>3, <1>4, <2>2, <2>3, <3>2
    <3>. QED  BY <3>1, <3>2
  <2>. QED  BY <2>1, <2>3 DEF LoggedOnce
<1>8. Marks'
  BY <1>1, <1>2, <1>4, <1>6 DEF Marks, IndexerTypeOK
<1>9. BuildsAreLeftAlone'
  BY <1>1 DEF BuildsAreLeftAlone, Marks, Active, IndexerTypeOK
<1>10. Deployed'
  <2>1. \A k \in DOMAIN log' : LeadsTo(log[k].cid)'
    <3>1. LeadsTo(s)
      BY DEF Deployed
    <3>2. \A k \in DOMAIN log : LeadsTo(log[k].cid)
      BY DEF Deployed
    <3>3. \A k \in DOMAIN log' : LeadsTo(log'[k].cid)
      BY <1>4, <3>1, <3>2
    <3>. QED  BY <3>3 DEF LeadsTo
  <2>2. \A j \in Entries : task'[j] = "deployed" => LeadsTo(Taken(j))'
    BY DEF Deployed, LeadsTo, Taken, IndexerTypeOK
  <2>3. Range(log) \subseteq Range(log')
    BY <1>4 DEF Range
  <2>4. {log[k].cid : k \in DOMAIN log} \subseteq {log'[k].cid : k \in DOMAIN log'}
    BY <1>4
  <2>. QED  BY <2>1, <2>2, <2>3, <2>4 DEF Deployed
<1>. QED  BY <1>5, <1>7, <1>8, <1>9, <1>10

\* An attempt fails (index.js:160-167).
LEMMA FailedStep ==
  ASSUME IndexerAssumption, IndexerInv, NEW i \in Entries, Failed(i)
  PROVE  IndexerInv'
<1>. USE DEF IndexerInv, Failed
<1>1. Active' = Active \ {i}
  BY DEF Active, IndexerTypeOK
<1>2. IndexerTypeOK' /\ LoggedOnce'
  BY DEF IndexerTypeOK, LoggedOnce
<1>3. Marks'
  BY <1>1 DEF Marks, Logged, IndexerTypeOK
<1>4. BuildsAreLeftAlone'
  BY <1>1 DEF BuildsAreLeftAlone, Marks, Active, IndexerTypeOK
<1>5. Deployed'
  BY DEF Deployed, LeadsTo, Taken, IndexerTypeOK
<1>. QED  BY <1>2, <1>3, <1>4, <1>5

\* The process ends, wherever it is.
LEMMA StopStep ==
  ASSUME IndexerAssumption, IndexerInv, Stop
  PROVE  IndexerInv'
<1>. USE DEF IndexerInv, Stop
<1>1. Active' = {}
  BY DEF Active
<1>2. IndexerTypeOK' /\ LoggedOnce' /\ BuildsAreLeftAlone'
  BY DEF IndexerTypeOK, LoggedOnce, BuildsAreLeftAlone
<1>3. Marks' /\ Deployed'
  BY <1>1 DEF Marks, Deployed, LeadsTo
<1>. QED  BY <1>2, <1>3

\* The backfill reads the log, and pushes entries of it (backfill.js:8-54).
LEMMA BackfillSteps ==
  ASSUME IndexerAssumption, IndexerInv, Backfill \/ Push
  PROVE  IndexerInv'
<1>. USE DEF IndexerInv, process
<1>1. Range(fill') \subseteq Range(log) /\ fill' \in Seq(Line)
  <2>1. CASE Backfill
    BY <2>1 DEF Backfill, IndexerTypeOK
  <2>2. CASE Push
    <3>1. fill' = Tail(fill) /\ fill # <<>> /\ fill \in Seq(Line)
      BY <2>2 DEF Push, IndexerTypeOK
    <3>2. \A k \in DOMAIN fill' : k + 1 \in DOMAIN fill /\ fill'[k] = fill[k + 1]
      BY <3>1
    <3>3. Range(fill') \subseteq Range(fill)
      BY <3>2 DEF Range
    <3>. QED  BY <3>1, <3>3 DEF Deployed
  <2>. QED  BY <2>1, <2>2
<1>2. pages' \subseteq {log[k].cid : k \in DOMAIN log}
  <2>1. CASE Backfill
    BY <2>1 DEF Backfill, Deployed
  <2>2. CASE Push
    <3>1. 1 \in DOMAIN fill /\ Head(fill) = fill[1]
      BY <2>2 DEF Push, IndexerTypeOK
    <3>2. Head(fill) \in Range(log)
      BY <3>1 DEF Deployed, Range
    <3>. QED  BY <2>2, <3>2 DEF Push, Deployed, Range
  <2>. QED  BY <2>1, <2>2
<1>3. UNCHANGED <<running, run, task, processed, count, dirs, log, net, names>>
  BY DEF Backfill, Push
<1>4. IndexerTypeOK'
  <2>1. pages' \subseteq Snapshot
    BY <1>2, LinesAreTyped
  <2>. QED  BY <1>1, <1>3, <2>1 DEF IndexerTypeOK
<1>5. LoggedOnce' /\ Marks' /\ BuildsAreLeftAlone'
  BY <1>3 DEF LoggedOnce, Marks, BuildsAreLeftAlone, Logged, Active
<1>6. Deployed'
  BY <1>1, <1>2, <1>3 DEF Deployed, LeadsTo, Taken
<1>. QED  BY <1>4, <1>5, <1>6

\* Every step of the indexer, or of anything else, keeps the invariant.
LEMMA IndexerStep ==
  ASSUME IndexerAssumption, IndexerInv, [IndexerNext]_indexer
  PROVE  IndexerInv'
<1>1. CASE Launch
  BY <1>1, LaunchStep
<1>2. CASE Stop
  BY <1>2, StopStep
<1>3. CASE Backfill \/ Push
  BY <1>3, BackfillSteps
<1>4. ASSUME NEW i \in Entries, TaskSteps(i)
      PROVE  IndexerInv'
  BY <1>4, ProcessSiteStep, ScrapedStep, DeployStep, SucceededStep, FailedStep DEF TaskSteps
<1>5. CASE UNCHANGED indexer
  <2>1. IndexerTypeOK' /\ LoggedOnce' /\ Marks' /\ BuildsAreLeftAlone'
    BY <1>5 DEF IndexerInv, indexer, process, IndexerTypeOK, LoggedOnce, Marks, Logged, Active,
                BuildsAreLeftAlone
  <2>2. Deployed'
    BY <1>5 DEF IndexerInv, indexer, process, Deployed, LeadsTo, Taken
  <2>. QED  BY <2>1, <2>2 DEF IndexerInv
<1>. QED  BY <1>1, <1>2, <1>3, <1>4, <1>5 DEF IndexerNext

\* The indexer's invariant holds in the whole system: users do not touch it.
LEMMA IndexerInvHolds == Spec => []IndexerInv
<1>1. Init => IndexerInv
  BY IndexerAssumption, IndexerInitHolds DEF Init
<1>2. IndexerInv /\ [Next]_vars => IndexerInv'
  <2>1. [Next]_vars => [IndexerNext]_indexer
    BY DEF Next, vars, IndexerSteps, ViewerSteps, OpenResult
  <2>. QED  BY <2>1, IndexerAssumption, IndexerStep
<1>. QED  BY <1>1, <1>2, PTL DEF Spec

\* Over all runs of the indexer, however many deployments run at a time and
\* wherever a run is cut off, the log numbers each site once (index.js).
THEOREM LoggedOnceHolds == Spec => []LoggedOnce
BY IndexerInvHolds, PTL DEF IndexerInv

\* No entry of the list takes away the build that another is deploying.
THEOREM BuildsAreLeftAloneHolds == Spec => []BuildsAreLeftAlone
BY IndexerInvHolds, PTL DEF IndexerInv

\* What is logged or found is on the network, and a name is only ever lost to
\* another site of the same name.
THEOREM LoggedIsNamedHolds == Spec => []LoggedIsNamed
<1>1. IndexerInv => LoggedIsNamed
  BY DEF IndexerInv, Deployed, LeadsTo, LoggedIsNamed
<1>. QED  BY <1>1, IndexerInvHolds, PTL

----------------------------------------------------------------------------
(* The viewer.                                                             *)

\* A visit under way is of a snapshot; the files it has unpacked are on disk,
\* and it shows nothing before index.html is there.
Progress ==
  \A v \in Visit :
    /\ visit[v].at \notin {"none", "closed"} => visit[v].cid \in Cid
    /\ visit[v].at \in {"register", "check", "fetch"} => visit[v].next = 1
    /\ At(v, "unpack") =>
         \A j \in DOMAIN Archive[visit[v].cid] :
           j < visit[v].next => Stored(visit[v].cid, Archive[visit[v].cid][j])
    /\ At(v, "ready") => Stored(visit[v].cid, Index)

Unpacking(c) == \E w \in Visit : At(w, "unpack") /\ visit[w].cid = c

\* Where index.html is found the site is whole, or was cut off, or is being
\* unpacked.
Found == \A c \in Cid : Stored(c, Index) => Whole(c) \/ c \in cut \/ Unpacking(c)

\* A view that registered last has its worker in charge, or coming.
InCharge == last = "view" => Newest = "feedo-sw"

\* The inductive invariant of the viewer.
ViewerInv == ViewerTypeOK /\ Progress /\ Found /\ InCharge

\* A browser that has not been to the site yet.
LEMMA ViewerInitHolds ==
  ASSUME ViewerInit
  PROVE  ViewerInv
<1>. USE DEF ViewerInit, NoVisit
<1>1. ViewerTypeOK
  <2>1. NoVisit \in Visits
    BY DEF Visits
  <2>. QED  BY <2>1 DEF ViewerTypeOK, Script
<1>2. Progress
  BY DEF Progress, At
<1>3. Found /\ InCharge
  BY DEF Found, InCharge, Stored
<1>. QED  BY <1>1, <1>2, <1>3 DEF ViewerInv

\* Taking the head off a sequence leaves its last element where it is.
LEMMA LastOfTail ==
  ASSUME NEW S, NEW s \in Seq(S), s # <<>>
  PROVE  /\ Tail(s) = <<>> => Head(s) = s[Len(s)]
         /\ Tail(s) # <<>> => Tail(s)[Len(Tail(s))] = s[Len(s)]
<1>1. Len(s) \in Nat \ {0} /\ Head(s) = s[1]
  OBVIOUS
<1>2. /\ Tail(s) \in Seq(S) /\ Len(Tail(s)) = Len(s) - 1
      /\ \A i \in 1..(Len(s) - 1) : Tail(s)[i] = s[i + 1]
  OBVIOUS
<1>3. \A n \in Nat : n - 1 = 0 => n = 1
  OBVIOUS
<1>4. Len(<<>>) = 0
  OBVIOUS
<1>5. ASSUME Tail(s) # <<>>
      PROVE  Tail(s)[Len(Tail(s))] = s[Len(s)]
  <2>1. Len(Tail(s)) # 0
    BY <1>2, <1>5
  <2>. QED  BY <1>1, <1>2, <2>1
<1>6. ASSUME Tail(s) = <<>>
      PROVE  Len(s) - 1 = 0
  BY <1>2, <1>4, <1>6, Zenon
<1>7. ASSUME Tail(s) = <<>>
      PROVE  Len(s) = 1
  BY <1>1, <1>3, <1>6, <1>7, Zenon
<1>. QED  BY <1>1, <1>5, <1>7

\* What steps of the viewer do to the workers keeps the newest one.
LEMMA WorkersStep ==
  ASSUME ViewerInv, LoadPage \/ Activate
  PROVE  ViewerInv'
<1>. USE DEF ViewerInv
<1>1. UNCHANGED <<visit, disk, cut>>
  BY DEF LoadPage, Activate
<1>2. Progress' /\ Found'
  BY <1>1 DEF Progress, Found, At, Stored, Whole, Unpacking
<1>3. CASE LoadPage
  <2>1. installing' \in Seq(Script)
    BY <1>3 DEF LoadPage, Register, ViewerTypeOK, Script
  <2>2. ViewerTypeOK'
    BY <1>1, <1>3, <2>1 DEF LoadPage, Register, ViewerTypeOK
  <2>3. InCharge'
    BY <1>3 DEF LoadPage, Register, InCharge
  <2>. QED  BY <1>2, <2>2, <2>3
<1>4. CASE Activate
  <2>1. worker' \in Script /\ installing' \in Seq(Script)
    BY <1>4 DEF Activate, ViewerTypeOK
  <2>2. ViewerTypeOK'
    BY <1>1, <1>4, <2>1 DEF Activate, ViewerTypeOK
  <2>3. Newest' = Newest
    <3>1. installing \in Seq(Script) /\ installing # <<>>
      BY <1>4 DEF Activate, ViewerTypeOK
    <3>. QED  BY <1>4, <3>1, LastOfTail DEF Activate, Newest
  <2>4. InCharge'
    BY <1>4, <2>3 DEF Activate, InCharge
  <2>. QED  BY <1>2, <2>2, <2>4
<1>. QED  BY <1>3, <1>4

\* A visit that moves on without touching the disk, and does not leave its
\* unpacking, disturbs nothing.
LEMMA MoveOn ==
  ASSUME ViewerInv, NEW v \in Visit, NEW r \in Visits,
         visit' = [visit EXCEPT ![v] = r],
         disk' = disk, cut \subseteq cut', cut' \subseteq Cid,
         worker' = worker, InCharge', installing' \in Seq(Script),
         last' \in {"none", "page", "view"},
         At(v, "unpack") => visit[v].cid \in cut' \/ Whole(visit[v].cid),
         r.at \notin {"none", "closed"} => r.cid \in Cid,
         r.at \in {"register", "check", "fetch", "unpack"} => r.next = 1,
         r.at = "ready" => Stored(r.cid, Index)
  PROVE  ViewerInv'
<1>. USE DEF ViewerInv
<1>1. ViewerTypeOK'
  BY DEF ViewerTypeOK
<1>2. Progress'
  <2>1. ASSUME NEW w \in Visit
        PROVE  /\ visit'[w].at \notin {"none", "closed"} => visit'[w].cid \in Cid
               /\ visit'[w].at \in {"register", "check", "fetch"} => visit'[w].next = 1
               /\ visit'[w].at = "unpack" =>
                    \A j \in DOMAIN Archive[visit'[w].cid] :
                      j < visit'[w].next => Stored(visit'[w].cid, Archive[visit'[w].cid][j])
               /\ visit'[w].at = "ready" => Stored(visit'[w].cid, Index)
    <3>1. CASE w = v
      <4>1. visit'[w] = r
        BY <3>1 DEF ViewerTypeOK
      <4>2. r.at = "unpack" => \A j \in DOMAIN Archive[r.cid] : ~(j < r.next)
        BY ViewerAssumption
      <4>. QED  BY <4>1, <4>2
    <3>2. CASE w # v
      BY <3>2 DEF ViewerTypeOK, Progress, At
    <3>. QED  BY <3>1, <3>2
  <2>. QED  BY <2>1 DEF Progress, At, Stored
<1>3. Found'
  <2>1. ASSUME NEW c \in Cid, Stored(c, Index)
        PROVE  Whole(c) \/ c \in cut' \/ Unpacking(c)'
    <3>1. Whole(c) \/ c \in cut \/ Unpacking(c)
      BY <2>1 DEF Found
    <3>2. ASSUME NEW w \in Visit, At(w, "unpack"), visit[w].cid = c, w # v
          PROVE  Unpacking(c)'
      BY <3>2 DEF Unpacking, At, ViewerTypeOK
    <3>. QED  BY <3>1, <3>2 DEF Unpacking
  <2>. QED  BY <2>1 DEF Found, Stored, Whole
<1>. QED  BY <1>1, <1>2, <1>3

\* A visit begins (view/page.tsx:39-42).
LEMMA OpenStep ==
  ASSUME ViewerInv, NEW v \in Visit, NEW c \in Cid, Open(v, c)
  PROVE  ViewerInv'
<1>. DEFINE r == [at |-> "register", cid |-> c, next |-> 1, missed |-> {}]
<1>1. r \in Visits /\ r.at = "register" /\ r.cid = c /\ r.next = 1
  BY DEF Visits
<1>2. visit' = [visit EXCEPT ![v] = r] /\ UNCHANGED browser /\ At(v, "none")
  BY DEF Open
<1>3. InCharge' /\ cut' \subseteq Cid /\ installing' \in Seq(Script)
      /\ last' \in {"none", "page", "view"}
  BY <1>2 DEF ViewerInv, InCharge, browser, Newest, ViewerTypeOK
<1>4. UNCHANGED <<disk, worker, cut>> /\ ~At(v, "unpack")
  BY <1>2 DEF browser, At
<1>. HIDE DEF r
<1>. QED  BY <1>1, <1>2, <1>3, <1>4, MoveOn

\* The worker is registered, and the disk looked at (view/page.tsx:44-60).
LEMMA BeginningSteps ==
  ASSUME ViewerInv, NEW v \in Visit, NEW online,
         Registered(v) \/ Check(v) \/ Fetched(v, online)
  PROVE  ViewerInv'
<1>1. PICK s \in {"check", "ready", "fetch", "error", "unpack"} :
        /\ Goto(v, s)
        /\ s = "ready" => Stored(visit[v].cid, Index)
        /\ s = "unpack" => At(v, "fetch")
  BY DEF Registered, Check, Fetched
<1>. DEFINE r == [visit[v] EXCEPT !.at = s]
<1>2. visit[v] \in Visits /\ visit[v].at \in {"register", "check", "fetch"}
  BY DEF ViewerInv, ViewerTypeOK, Registered, Check, Fetched, At
<1>3. r \in Visits /\ r.at = s /\ r.cid = visit[v].cid /\ r.next = visit[v].next
  BY <1>2 DEF Visits
<1>4. visit' = [visit EXCEPT ![v] = r]
  BY <1>1 DEF Goto
<1>5. UNCHANGED <<disk, worker, cut>>
  BY DEF Registered, Check, Fetched, browser
<1>6. InCharge' /\ installing' \in Seq(Script) /\ last' \in {"none", "page", "view"}
  <2>1. CASE UNCHANGED <<installing, last>>
    BY <1>5, <2>1 DEF ViewerInv, ViewerTypeOK, InCharge, Newest
  <2>2. CASE Registered(v) /\ Register("feedo-sw", "view")
    <3>1. installing \in Seq(Script) /\ "feedo-sw" \in Script
      BY DEF ViewerInv, ViewerTypeOK, Script
    <3>2. installing' \in Seq(Script) /\ last' = "view"
      BY <2>2, <3>1 DEF Register
    <3>3. Newest' = "feedo-sw"
      BY <1>5, <2>2, <3>1 DEF Register, Newest
    <3>. QED  BY <3>2, <3>3 DEF InCharge
  <2>. QED  BY <2>1, <2>2 DEF Registered, Check, Fetched, browser
<1>7. r.cid \in Cid
  BY <1>2, <1>3 DEF ViewerInv, Progress
<1>8. r.next = 1
  BY <1>2, <1>3 DEF ViewerInv, Progress
<1>9. cut' \subseteq Cid /\ ~At(v, "unpack")
  BY <1>2, <1>5 DEF ViewerInv, ViewerTypeOK, At
<1>10. s = "ready" => Stored(r.cid, Index)
  BY <1>1, <1>3
<1>. HIDE DEF r
<1>. QED  BY <1>3, <1>4, <1>5, <1>6, <1>7, <1>8, <1>9, <1>10, MoveOn

\* A file is written, or there is no room for it (view/page.tsx:94-100).
LEMMA UnpackStep ==
  ASSUME ViewerInv, NEW v \in Visit, Unpack(v)
  PROVE  ViewerInv'
<1>. USE DEF ViewerInv
<1>0. visit[v] \in Visits /\ visit[v].cid \in Cid /\ At(v, "unpack")
  BY DEF Unpack, Progress, At, ViewerTypeOK
<1>. PICK c \in Cid, i \in Nat \ {0} : c = visit[v].cid /\ i = visit[v].next
  BY <1>0 DEF Visits
<1>1. i \in DOMAIN Archive[c] /\ Archive[c] \in Seq(Range(Archive[c]))
  BY ViewerAssumption DEF Unpack
<1>2. UNCHANGED <<worker, installing, last>>
  BY DEF Unpack
<1>3. InCharge'
  BY <1>2 DEF InCharge, Newest
<1>4. CASE Goto(v, "error") /\ cut' = cut \cup {c} /\ disk' = disk
  <2>. DEFINE r == [visit[v] EXCEPT !.at = "error"]
  <2>1. visit' = [visit EXCEPT ![v] = r]
    BY <1>4 DEF Goto
  <2>2. r \in Visits /\ r.at = "error" /\ r.cid = c
    BY <1>0 DEF Visits
  <2>3. cut \subseteq cut' /\ cut' \subseteq Cid /\ c \in cut'
    BY <1>1, <1>4 DEF ViewerTypeOK
  <2>4. installing' \in Seq(Script) /\ last' \in {"none", "page", "view"}
    BY <1>2 DEF ViewerTypeOK
  <2>. HIDE DEF r
  <2>. QED  BY <1>1, <1>2, <1>3, <1>4, <2>1, <2>2, <2>3, <2>4, <1>0, MoveOn
<1>5. CASE /\ disk' = disk \cup {<<c, Archive[c][i]>>}
           /\ visit' = [visit EXCEPT ![v].next = i + 1]
           /\ cut' = cut
  <2>1. Archive[c][i] \in Range(Archive[c])
    BY <1>1 DEF Range
  <2>2. Archive[c][i] \in File
    BY <1>1, <2>1 DEF File
  <2>3. visit' \in [Visit -> Visits]
    <3>1. [visit[v] EXCEPT !.next = i + 1] \in Visits
      BY <1>0 DEF Visits
    <3>2. visit' = [visit EXCEPT ![v] = [visit[v] EXCEPT !.next = i + 1]]
      BY <1>5 DEF ViewerTypeOK
    <3>. QED  BY <3>1, <3>2 DEF ViewerTypeOK
  <2>8. ViewerTypeOK'
    BY <1>1, <1>2, <1>5, <2>2, <2>3 DEF ViewerTypeOK
  <2>4. \A d, f : Stored(d, f) => Stored(d, f)'
    BY <1>5 DEF Stored
  <2>5. Stored(c, Archive[c][i])'
    BY <1>5 DEF Stored
  <2>6. Progress'
    <3>1. ASSUME NEW w \in Visit
          PROVE  /\ visit'[w].at = visit[w].at /\ visit'[w].cid = visit[w].cid
                 /\ visit'[w].next = IF w = v THEN i + 1 ELSE visit[w].next
      BY <1>0, <1>5 DEF ViewerTypeOK, Visits
    <3>2. ASSUME NEW j \in DOMAIN Archive[c], j < i + 1
          PROVE  Stored(c, Archive[c][j])'
      <4>1. CASE j = i
        BY <2>5, <4>1
      <4>2. CASE j # i
        <5>1. j < i
          BY <1>1, <3>2, <4>2
        <5>. QED  BY <1>0, <2>4, <5>1 DEF Progress
      <4>. QED  BY <4>1, <4>2
    <3>3. ASSUME NEW w \in Visit
          PROVE  /\ visit'[w].at \notin {"none", "closed"} => visit'[w].cid \in Cid
                 /\ visit'[w].at \in {"register", "check", "fetch"} => visit'[w].next = 1
                 /\ visit'[w].at = "unpack" =>
                      \A j \in DOMAIN Archive[visit'[w].cid] :
                        j < visit'[w].next =>
                          <<visit'[w].cid, Archive[visit'[w].cid][j]>> \in disk'
                 /\ visit'[w].at = "ready" => <<visit'[w].cid, Index>> \in disk'
      <4>1. CASE w = v
        <5>1. visit'[v].at = "unpack" /\ visit'[v].cid = c /\ visit'[v].next = i + 1
          BY <1>0, <3>1 DEF At
        <5>. QED  BY <3>2, <4>1, <5>1 DEF Stored
      <4>2. CASE w # v
        <5>1. /\ visit'[w].at = visit[w].at /\ visit'[w].cid = visit[w].cid
              /\ visit'[w].next = visit[w].next
          BY <3>1, <4>2
        <5>2. disk \subseteq disk'
          BY <1>5
        <5>. QED  BY <5>1, <5>2 DEF Progress, At, Stored
      <4>. QED  BY <4>1, <4>2
    <3>. QED  BY <3>3 DEF Progress, At, Stored
  <2>7. Found'
    <3>1. \A w \in Visit : visit'[w].at = visit[w].at /\ visit'[w].cid = visit[w].cid
      BY <1>0, <1>5 DEF ViewerTypeOK, Visits
    <3>2. ASSUME NEW d \in Cid, Stored(d, Index)'
          PROVE  (Whole(d) \/ d \in cut \/ Unpacking(d))'
      <4>1. CASE d = c
        BY <1>0, <3>1, <4>1 DEF Unpacking, At
      <4>2. CASE d # c
        <5>1. Stored(d, Index)
          BY <1>5, <3>2, <4>2 DEF Stored
        <5>2. Whole(d) => Whole(d)'
          BY <2>4 DEF Whole
        <5>3. Unpacking(d) => Unpacking(d)'
          BY <3>1 DEF Unpacking, At
        <5>. QED  BY <1>5, <5>1, <5>2, <5>3 DEF Found
      <4>. QED  BY <4>1, <4>2
    <3>. QED  BY <3>2 DEF Found
  <2>. QED  BY <1>3, <2>6, <2>7, <2>8
<1>. QED  BY <1>4, <1>5 DEF Unpack

\* All files are written, and the site is ready (view/page.tsx:102-103).
LEMMA UnpackedStep ==
  ASSUME ViewerInv, NEW v \in Visit, Unpacked(v)
  PROVE  ViewerInv'
<1>. USE DEF ViewerInv
<1>. DEFINE c == visit[v].cid
            r == [visit[v] EXCEPT !.at = "ready"]
<1>1. c \in Cid /\ At(v, "unpack") /\ visit[v] \in Visits /\ UNCHANGED browser
  BY DEF Unpacked, Progress, At, ViewerTypeOK
<1>2. Whole(c)
  <2>1. \A j \in DOMAIN Archive[c] : j < visit[v].next
    BY <1>1, ViewerAssumption DEF Unpacked, Visits
  <2>2. \A j \in DOMAIN Archive[c] : Stored(c, Archive[c][j])
    BY <1>1, <2>1 DEF Progress
  <2>. QED  BY <2>2 DEF Whole, Range
<1>3. Stored(c, Index)
  BY <1>1, <1>2, ViewerAssumption DEF Whole
<1>4. r \in Visits /\ r.at = "ready" /\ r.cid = c /\ visit' = [visit EXCEPT ![v] = r]
  BY <1>1 DEF Visits, Unpacked, Goto
<1>5. /\ InCharge' /\ installing' \in Seq(Script) /\ last' \in {"none", "page", "view"}
      /\ cut' \subseteq Cid /\ UNCHANGED <<disk, worker, cut>>
  BY <1>1 DEF InCharge, Newest, browser, ViewerTypeOK
<1>. HIDE DEF r
<1>. QED  BY <1>1, <1>2, <1>3, <1>4, <1>5, MoveOn

\* The page is closed.
LEMMA CloseStep ==
  ASSUME ViewerInv, NEW v \in Visit, Close(v)
  PROVE  ViewerInv'
<1>. USE DEF ViewerInv
<1>. DEFINE r == [at |-> "closed", cid |-> NoCid, next |-> 1, missed |-> {}]
<1>1. r \in Visits /\ r.at = "closed" /\ visit' = [visit EXCEPT ![v] = r]
  BY DEF Visits, Close
<1>2. UNCHANGED <<disk, worker, installing, last>>
  BY DEF Close
<1>3. cut \subseteq cut' /\ cut' \subseteq Cid /\ (At(v, "unpack") => visit[v].cid \in cut')
  BY DEF Close, ViewerTypeOK, Progress, At
<1>4. InCharge' /\ installing' \in Seq(Script) /\ last' \in {"none", "page", "view"}
  BY <1>2 DEF InCharge, Newest, ViewerTypeOK
<1>. HIDE DEF r
<1>. QED  BY <1>1, <1>2, <1>3, <1>4, MoveOn

\* A frame asks for a file that it does not get.
LEMMA FetchesStep ==
  ASSUME ViewerInv, NEW v \in Visit, NEW f \in File, Fetches(v, f)
  PROVE  ViewerInv'
<1>. USE DEF ViewerInv
<1>. DEFINE r == [visit[v] EXCEPT !.missed = @ \cup {f}]
<1>1. At(v, "ready") /\ visit[v] \in Visits /\ UNCHANGED browser /\ visit[v].cid \in Cid
  BY DEF Fetches, ViewerTypeOK, Progress, At
<1>2. /\ r \in Visits /\ r.at = "ready" /\ r.cid = visit[v].cid
      /\ visit' = [visit EXCEPT ![v] = r]
  BY <1>1 DEF Visits, Fetches, At
<1>3. /\ InCharge' /\ installing' \in Seq(Script) /\ last' \in {"none", "page", "view"}
      /\ cut' \subseteq Cid /\ UNCHANGED <<disk, worker, cut>>
  BY <1>1 DEF InCharge, Newest, browser, ViewerTypeOK
<1>4. Stored(r.cid, Index) /\ ~At(v, "unpack")
  BY <1>1, <1>2 DEF Progress, At
<1>. HIDE DEF r
<1>. QED  BY <1>1, <1>2, <1>3, <1>4, MoveOn

\* Every step of the system keeps the viewer's invariant: what users open are
\* entries of the search index.
LEMMA ViewerStep ==
  ASSUME IndexerInv, ViewerInv, [Next]_vars
  PROVE  ViewerInv'
<1>1. CASE UNCHANGED viewer
  BY <1>1 DEF viewer, browser, ViewerInv, ViewerTypeOK, Progress, Found, InCharge,
              At, Stored, Whole, Unpacking, Newest
<1>2. ASSUME NEW v \in Visit, OpenResult(v)
      PROVE  ViewerInv'
  <2>1. Results \subseteq Cid
    BY SnapshotsAssumption DEF IndexerInv, IndexerTypeOK, Results
  <2>. QED  BY <1>2, <2>1, OpenStep DEF OpenResult
<1>3. CASE ViewerSteps
  <2>1. CASE LoadPage \/ Activate
    BY <2>1, WorkersStep
  <2>2. ASSUME NEW v \in Visit, InitSandbox(v, net)
        PROVE  ViewerInv'
    BY <2>2, BeginningSteps, UnpackStep, UnpackedStep DEF InitSandbox
  <2>3. ASSUME NEW v \in Visit, Surf(v, net)
        PROVE  ViewerInv'
    BY <2>2, <2>3, CloseStep, FetchesStep DEF Surf
  <2>. QED  BY <1>3, <2>1, <2>3 DEF ViewerSteps
<1>. QED  BY <1>1, <1>2, <1>3 DEF Next, vars, IndexerSteps

\* The viewer's invariant holds in the whole system.
LEMMA ViewerInvHolds == Spec => []ViewerInv
<1>1. Init => ViewerInv
  BY ViewerInitHolds DEF Init
<1>2. IndexerInv /\ ViewerInv /\ [Next]_vars => ViewerInv'
  BY ViewerStep
<1>. QED  BY <1>1, <1>2, IndexerInvHolds, PTL DEF Spec

\* Every variable of the indexer, the browser and its visits has its type.
THEOREM TypeOKHolds == Spec => []TypeOK
<1>1. IndexerInv /\ ViewerInv => TypeOK
  BY DEF IndexerInv, ViewerInv, TypeOK
<1>. QED  BY <1>1, IndexerInvHolds, ViewerInvHolds, PTL

\* However many visits open, unpack and close a site at a time, one that shows
\* it has all of it, unless an unpacking was broken off or is still under way.
THEOREM ReadyIsWholeHolds == Spec => []ReadyIsWhole
<1>1. ViewerInv => ReadyIsWhole
  BY DEF ViewerInv, ViewerTypeOK, Visits, Progress, Found, ReadyIsWhole, At, Unpacking
<1>. QED  BY <1>1, ViewerInvHolds, PTL

\* Only the fetches of its own frame are missed by a visit.
LEMMA MissedByFetching ==
  ASSUME ViewerInv, Next, NEW v \in Visit, visit'[v].missed \ visit[v].missed # {}
  PROVE  \E f \in File : Fetches(v, f)
<1>. USE DEF ViewerInv
<1>1. visit \in [Visit -> Visits] /\ ~UNCHANGED visit
  BY DEF ViewerTypeOK
<1>2. ASSUME NEW w \in Visit, NEW r, visit' = [visit EXCEPT ![w] = r],
             r.missed \subseteq visit[w].missed
      PROVE  FALSE
  BY <1>1, <1>2
<1>3. ASSUME NEW w \in Visit, NEW s, Goto(w, s)
      PROVE  FALSE
  <2>1. visit' = [visit EXCEPT ![w] = [visit[w] EXCEPT !.at = s]]
    BY <1>3 DEF Goto
  <2>2. [visit[w] EXCEPT !.at = s].missed = visit[w].missed
    BY <1>1 DEF Visits
  <2>. QED  BY <1>2, <2>1, <2>2
<1>4. ASSUME NEW w \in Visit, NEW c, Open(w, c)
      PROVE  FALSE
  <2>. DEFINE r == [at |-> "register", cid |-> c, next |-> 1, missed |-> {}]
  <2>1. visit' = [visit EXCEPT ![w] = r] /\ r.missed = {}
    BY <1>4 DEF Open
  <2>. HIDE DEF r
  <2>. QED  BY <1>2, <2>1
<1>5. ASSUME NEW w \in Visit, Close(w)
      PROVE  FALSE
  <2>. DEFINE r == [at |-> "closed", cid |-> NoCid, next |-> 1, missed |-> {}]
  <2>1. visit' = [visit EXCEPT ![w] = r] /\ r.missed = {}
    BY <1>5 DEF Close
  <2>. HIDE DEF r
  <2>. QED  BY <1>2, <2>1
<1>6. ASSUME NEW w \in Visit, Unpack(w)
      PROVE  FALSE
  <2>1. PICK i : Goto(w, "error") \/ visit' = [visit EXCEPT ![w].next = i]
    BY <1>6 DEF Unpack
  <2>2. CASE visit' = [visit EXCEPT ![w].next = i]
    <3>1. visit' = [visit EXCEPT ![w] = [visit[w] EXCEPT !.next = i]]
      BY <2>2
    <3>2. [visit[w] EXCEPT !.next = i].missed = visit[w].missed
      BY <1>1 DEF Visits
    <3>. QED  BY <1>2, <3>1, <3>2
  <2>. QED  BY <1>3, <2>1, <2>2
<1>7. ASSUME NEW w \in Visit, Surf(w, net)
      PROVE  w = v /\ \E f \in File : Fetches(v, f)
  <2>1. ASSUME InitSandbox(w, net)
        PROVE  FALSE
    BY <1>3, <1>6, <2>1 DEF InitSandbox, Registered, Check, Fetched, Unpacked
  <2>2. PICK f \in File : Fetches(w, f)
    BY <1>5, <1>7, <2>1 DEF Surf
  <2>3. w = v
    BY <1>1, <2>2 DEF Fetches
  <2>. QED  BY <2>2, <2>3
<1>. QED
  BY <1>1, <1>4, <1>7 DEF Next, IndexerSteps, OpenResult, ViewerSteps, LoadPage, Activate,
                          viewer

\* A frame misses no file of a site that is whole once the worker of the view
\* that registered last is active.
THEOREM FramesAreServedHolds == Spec => FramesAreServed
<1>1. ASSUME ViewerInv, [Next]_vars, NEW v \in Visit,
             visit'[v].missed \ visit[v].missed # {}
      PROVE  installing # <<>> \/ last # "view" \/ ~Whole(visit[v].cid)
  <2>1. Next
    BY <1>1 DEF vars, viewer
  <2>2. PICK f \in File : Fetches(v, f)
    BY <1>1, <2>1, MissedByFetching
  <2>. QED  BY <1>1, <2>2 DEF Fetches, ViewerInv, InCharge, Newest, Whole
<1>2. ViewerInv /\ [Next]_vars =>
        [\A v \in Visit :
           visit'[v].missed \ visit[v].missed # {} =>
             installing # <<>> \/ last # "view" \/ ~Whole(visit[v].cid)]_viewer
  BY <1>1
<1>. QED  BY <1>2, ViewerInvHolds, PTL DEF Spec, FramesAreServed
=============================================================================
