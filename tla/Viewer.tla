------------------------------- MODULE Viewer -------------------------------
(***************************************************************************)
(* The viewer of snapshots of the web site (web/src/app/view/page.tsx) and *)
(* the service worker that serves their files to its frames                *)
(* (web/public/feedo-sw.js).                                               *)
(*                                                                         *)
(* One browser: a store on disk and one registration of service workers    *)
(* for the scope "/", which all its pages share.  Each visit is one run of *)
(* initSandbox; it goes on when the user goes back to another page of the  *)
(* site, and ends with the page when that is closed or reloaded.           *)
(***************************************************************************)
EXTENDS Naturals, Sequences, Functions

CONSTANTS
  Visit,
  Cid,            \* snapshots
  NoCid,
  Archive,        \* Archive[c]: the files of the zip c, in its order
  Index           \* index.html

ASSUME ViewerAssumption ==
  /\ NoCid \notin Cid
  /\ DOMAIN Archive = Cid
  /\ \A c \in Cid : Archive[c] \in Seq(Range(Archive[c])) /\ Index \in Range(Archive[c])

VARIABLES
  visit,          \* visit[v]: the visit v
  disk,           \* keys in localforage
  worker,         \* script of the active service worker
  installing,     \* scripts registered and not yet active, in order
  cut,            \* history: snapshots whose unpacking did not get to its end
  last            \* history: the kind of page that registered a worker last

browser == <<disk, worker, installing, cut, last>>
viewer == <<visit, browser>>

File == UNION {Range(Archive[c]) : c \in Cid}
Script == {"none", "sw", "feedo-sw"}
NoVisit == [at |-> "none", cid |-> NoCid, next |-> 1, missed |-> {}]

\* `next`: the place in the archive; `missed`: files the frame asked for in vain.
Visits == [at: {"none", "register", "check", "fetch", "unpack", "ready", "error", "closed"},
           cid: Cid \cup {NoCid}, next: Nat \ {0}, missed: SUBSET File]

ViewerTypeOK ==
  /\ visit \in [Visit -> Visits]
  /\ disk \subseteq Cid \X File
  /\ worker \in Script
  /\ installing \in Seq(Script)
  /\ cut \subseteq Cid
  /\ last \in {"none", "page", "view"}

ViewerInit ==
  /\ visit = [v \in Visit |-> NoVisit]
  /\ disk = {}
  /\ worker = "none"
  /\ installing = <<>>
  /\ cut = {}
  /\ last = "none"

At(v, s) == visit[v].at = s
Goto(v, s) == visit' = [visit EXCEPT ![v].at = s]
Stored(c, f) == <<c, f>> \in disk
Whole(c) == \A f \in Range(Archive[c]) : Stored(c, f)

----------------------------------------------------------------------------
(* The service worker.                                                     *)

\* register(): nothing is to do if the script is that of the newest worker.
Newest == IF installing = <<>> THEN worker ELSE installing[Len(installing)]
Register(script, by) ==
  /\ installing' = IF Newest = script THEN installing ELSE Append(installing, script)
  /\ last' = by

\* Mutant: a worker waits until the one before it is given up.
ActivateWaiting ==
  /\ installing # <<>>
  /\ worker' = IF worker = "none" THEN Head(installing) ELSE worker
  /\ installing' = Tail(installing)
  /\ UNCHANGED <<visit, disk, cut, last>>

\* Both scripts call skipWaiting and clients.claim: the worker is active as
\* soon as it is installed, and in charge of every page that is open.
Activate ==
  /\ installing # <<>>
  /\ worker' = Head(installing)
  /\ installing' = Tail(installing)
  /\ UNCHANGED <<visit, disk, cut, last>>

\* A page of the site is loaded: its layout registers /sw.js (SWRegister.tsx).
LoadPage ==
  /\ Register("sw", "page")
  /\ UNCHANGED <<visit, disk, worker, cut>>

\* The frame of a visit asks for a file: feedo-sw.js answers from the disk;
\* sw.js, or the network where there is no worker, does not have it.
Fetches(v, f) ==
  LET c == visit[v].cid IN
  /\ At(v, "ready")
  /\ f \in Range(Archive[c])
  /\ ~(worker = "feedo-sw" /\ Stored(c, f))
  /\ visit' = [visit EXCEPT ![v].missed = @ \cup {f}]
  /\ UNCHANGED browser

----------------------------------------------------------------------------
(* initSandbox.                                                            *)

Open(v, c) ==
  /\ At(v, "none")
  /\ visit' = [visit EXCEPT ![v] = [at |-> "register", cid |-> c, next |-> 1, missed |-> {}]]
  /\ UNCHANGED browser

\* register('/feedo-sw.js') resolves when the script has been fetched and run,
\* before it is installed; it rejects if the library it imports is not there.
Registered(v) ==
  /\ At(v, "register")
  /\ \/ /\ Goto(v, "check")
        /\ Register("feedo-sw", "view")
     \/ /\ Goto(v, "error")
        /\ UNCHANGED <<installing, last>>
  /\ UNCHANGED <<disk, worker, cut>>

\* Mutant: a site that is found is not shown.
CheckForgets(v) ==
  /\ At(v, "check")
  /\ ~Stored(visit[v].cid, Index)
  /\ Goto(v, "fetch")
  /\ UNCHANGED browser

\* Only index.html is looked for.
Check(v) ==
  /\ At(v, "check")
  /\ Goto(v, IF Stored(visit[v].cid, Index) THEN "ready" ELSE "fetch")
  /\ UNCHANGED browser

\* One of the storage nodes has the archive, and all of it arrives within five
\* seconds; or else no other node is tried.
Fetched(v, online) ==
  /\ At(v, "fetch")
  /\ Goto(v, "error") \/ (visit[v].cid \in online /\ Goto(v, "unpack"))
  /\ UNCHANGED browser

\* The files are written one by one; there may be no room for one.
Unpack(v) ==
  LET c == visit[v].cid
      i == visit[v].next
  IN  /\ At(v, "unpack")
      /\ i <= Len(Archive[c])
      /\ \/ /\ disk' = disk \cup {<<c, Archive[c][i]>>}
            /\ visit' = [visit EXCEPT ![v].next = i + 1]
            /\ UNCHANGED cut
         \/ /\ Goto(v, "error")
            /\ cut' = cut \cup {c}
            /\ UNCHANGED disk
      /\ UNCHANGED <<worker, installing, last>>

\* Mutant: the files written are not awaited.
UnpackedEarly(v) ==
  /\ At(v, "unpack")
  /\ Goto(v, "ready")
  /\ UNCHANGED browser

Unpacked(v) ==
  /\ At(v, "unpack")
  /\ visit[v].next > Len(Archive[visit[v].cid])
  /\ Goto(v, "ready")
  /\ UNCHANGED browser

\* The page is closed or loaded anew.
Close(v) ==
  /\ visit[v].at \notin {"none", "closed"}
  /\ visit' = [visit EXCEPT ![v] = [at |-> "closed", cid |-> NoCid, next |-> 1, missed |-> {}]]
  /\ cut' = IF At(v, "unpack") THEN cut \cup {visit[v].cid} ELSE cut
  /\ UNCHANGED <<disk, worker, installing, last>>

InitSandbox(v, online) ==
  Registered(v) \/ Check(v) \/ Fetched(v, online) \/ Unpack(v) \/ Unpacked(v)

Surf(v, online) ==
  InitSandbox(v, online) \/ Close(v) \/ \E f \in File : Fetches(v, f)

----------------------------------------------------------------------------
(* Properties.                                                             *)

\* A visit that shows a snapshot as ready has all of its files on disk, unless
\* an unpacking of that snapshot was broken off before, or another visit is
\* unpacking it right now: the only two ways in which the index.html that is
\* found may stand for less than the site (view/page.tsx:51-60, 94-103).
ReadyIsWhole ==
  \A v \in Visit :
    At(v, "ready") =>
      \/ Whole(visit[v].cid)
      \/ visit[v].cid \in cut
      \/ \E w \in Visit : At(w, "unpack") /\ visit[w].cid = visit[v].cid

\* Once the workers registered are active, and if it was a view that did so
\* last, a frame gets every file of a site that is whole: it takes a page
\* loaded elsewhere to put sw.js in charge of it (SWRegister.tsx:6-12,
\* view/page.tsx:44-49, feedo-sw.js:3-9, 38-92).
FramesAreServed ==
  [][\A v \in Visit :
       visit'[v].missed \ visit[v].missed # {} =>
         installing # <<>> \/ last # "view" \/ ~Whole(visit[v].cid)]_viewer

\* Every visit comes to an end, ready or with an error, and its worker gets in
\* charge at some time unless registering fails (view/page.tsx:42-109).
VisitsEnd ==
  \A v \in Visit :
    /\ At(v, "register") ~> visit[v].at \in {"ready", "error", "closed"}
    /\ At(v, "register") ~> worker = "feedo-sw" \/ visit[v].at \in {"error", "closed"}
=============================================================================
