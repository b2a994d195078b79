-------------------------------- MODULE Sdk --------------------------------
(***************************************************************************)
(* The TypeScript SDK (sdk/typescript/src) over its NodeRouter: public and *)
(* private uploads and downloads (client.ts, modules/storage.ts), and the  *)
(* requests they are made of (modules/consensus.ts, modules/search.ts),    *)
(* against what the network's services do with those requests.             *)
(*                                                                         *)
(* An operation has a main flow, and for files of several parts a pool of  *)
(* workers that share an index.  Each of these lanes has one request in    *)
(* progress at a time; a request that fails is repeated once.  A pool      *)
(* whose operation has failed is not stopped: its workers go on.           *)
(*                                                                         *)
(* Data is content addressed: the hash of a piece of data stands for the   *)
(* data itself, and the storage service is one store behind all machines.  *)
(***************************************************************************)
EXTENDS NodeRouter, FiniteSets

CONSTANTS
  Op,             \* operations: calls of the SDK's user
  Pool,           \* workers of a pool: 10 in the code
  File,
  NoFile,
  Length,         \* Length[f]: the parts of CHUNK_SIZE bytes that f has
  MaxListed,      \* parts that a manifest of less than 1 MiB can list
  NoKey,          \* the key of data that is not encrypted
  OtherKey,       \* the key of a file that another client has shared
  Held,           \* data that other clients have stored
  Granted,        \* entries of the ACL that other clients have made for this user
  Mine,           \* bound of the model: the files this user uploads
  Plan,           \* bound of the model: Plan[o]: what operation o may be
  MaxOpen         \* bound of the model: operations that have not settled

\* What an operation is: one on files, or a single request to a service.
Kind == {"none", "upload", "private", "download", "read"} \cup Service

ASSUME SdkAssumption ==
  /\ Service = {"search", "consensus", "storage"} /\ "storage" \notin OpenProbe
  /\ IsFiniteSet(Op)
  /\ Pool \in Nat \ {0}
  /\ Lane = Op \X (0..Pool)
  /\ Length \in [File -> Nat \ {0}]
  /\ NoFile \notin File /\ Mine \subseteq File
  /\ MaxListed \in Nat /\ MaxOpen \in Nat
  /\ Plan \in [Op -> SUBSET Kind]
  /\ NoKey \notin Op /\ OtherKey \notin Op /\ NoKey # OtherKey

\* A part of a file, in clear or encrypted under a key (the operation that
\* has drawn it), and the two kinds of manifest that list parts in order.
Piece == [file: File, part: Nat, key: Op \cup {NoKey, OtherKey}]
List == [sealed: BOOLEAN, parts: Seq(Piece)]
Data == Piece \cup List

Part(f, i, k) == [file |-> f, part |-> i, key |-> k]
Parts(f, k) == [i \in 1..Length[f] |-> Part(f, i, k)]
Manifest(seq, s) == [sealed |-> s, parts |-> seq]
IsList(d) == "parts" \in DOMAIN d
\* The data that a download takes for a manifest of this kind.
Recognised(d, s) == IsList(d) /\ d.sealed = s /\ Len(d.parts) <= MaxListed

NoData == [sealed |-> FALSE, parts |-> <<>>]

VARIABLES
  op,             \* op[o]: the operation o
  call,           \* call[l]: the request lane l has in progress
  stored,         \* data the storage service has
  acl,            \* the keys of sealed files that the consensus service has for this user
  indexed,        \* files the search service has an entry for
  effects,        \* effects[s]: times a single request has taken effect at s
  lost            \* history: answers that were lost

network == <<stored, acl, indexed, effects, lost>>
vars == <<router, down, faults, op, call, network>>

Stage == {"none", "single", "pool", "manifest", "grant", "granted", "text", "image",
          "access", "root", "request", "done", "bytes", "failed"}

\* `name`: the hash asked for, or the one found.  `key`: the key of the file.
\* `next`: the index the workers share.  `got`: hashes or chunks.  `dead`:
\* workers that have rejected.
NoOp == [kind |-> "none", stage |-> "none", file |-> NoFile, name |-> NoData, key |-> NoKey,
         next |-> 1, got |-> <<>>, dead |-> {}]

\* `since`: faults when the request was made.
NoCall == [at |-> "idle", try |-> 1, service |-> "storage", do |-> "get", what |-> NoData,
           slot |-> 0, node |-> NoNode, since |-> 0]

Main(o) == <<o, 0>>
Workers(o) == {<<o, w>> : w \in 1..Pool}
Idle(l) == call[l].at = "idle"
Stages(o, s) == op[o].stage = s
Settled(o) == op[o].stage \in {"done", "bytes", "failed"}
Goto(o, s) == op' = [op EXCEPT ![o].stage = s]
Blank(n) == [i \in 1..n |-> NoData]

\* What the workers of o transfer: the parts of the file, encrypted if it is
\* private, or the parts that the manifest lists.
Work(o) ==
  CASE op[o].kind = "upload" -> Parts(op[o].file, NoKey)
    [] op[o].kind = "private" -> Parts(op[o].file, o)
    [] OTHER -> op[o].name.parts

Init ==
  /\ RouterInit
  /\ op = [o \in Op |-> NoOp]
  /\ call = [l \in Lane |-> NoCall]
  /\ stored = Held
  /\ acl = Granted
  /\ indexed = {}
  /\ effects = [s \in Service |-> 0]
  /\ lost = 0

----------------------------------------------------------------------------
(* Requests.                                                               *)

\* Every request takes the active node of its service, or searches for one.
Begin(l, service, do, what, slot) ==
  LET c == [NoCall EXCEPT !.service = service, !.do = do, !.what = what, !.slot = slot,
                          !.since = IF service = "storage" THEN 0 ELSE faults]
  IN  /\ Idle(l)
      /\ IF active[service] # NoNode
         THEN /\ call' = [call EXCEPT ![l] = [c EXCEPT !.at = "sent", !.node = active[service]]]
              /\ UNCHANGED <<find, fresh>>
         ELSE /\ call' = [call EXCEPT ![l] = [c EXCEPT !.at = "search"]]
              /\ BeginSearch(l, service)
      /\ UNCHANGED <<active, cache, down, faults, network>>

UploadSingleChunk(l, data, slot) == Begin(l, "storage", "put", data, slot)
DownloadSingleChunk(l, data, slot) == Begin(l, "storage", "get", data, slot)
ConsensusRequest(l, do, what) == Begin(l, "consensus", do, what, 0)
SearchRequest(l, do, what) == Begin(l, "search", do, what, 0)

----------------------------------------------------------------------------
(* Operations.                                                             *)

\* The user calls the SDK.
Start(o, record) ==
  /\ Stages(o, "none")
  /\ record.kind \in Plan[o]
  /\ Cardinality({p \in Op : ~Stages(p, "none") /\ ~Settled(p)}) < MaxOpen
  /\ op' = [op EXCEPT ![o] = record]

\* uploadFile: a file of one part is sent as it is.
UploadFile(o) ==
  \E f \in Mine :
    LET r == [NoOp EXCEPT !.kind = "upload", !.file = f] IN
    IF Length[f] = 1
    THEN /\ Start(o, [r EXCEPT !.stage = "single"])
         /\ UploadSingleChunk(Main(o), Part(f, 1, NoKey), 0)
    ELSE /\ Start(o, [r EXCEPT !.stage = "pool", !.got = Blank(Length[f])])
         /\ UNCHANGED <<router, down, faults, call, network>>

\* uploadPrivateFile: every part is encrypted under a new key.
UploadPrivateFile(o) ==
  /\ \E f \in Mine :
       Start(o, [NoOp EXCEPT !.kind = "private", !.stage = "pool", !.file = f, !.key = o,
                             !.got = Blank(Length[f])])
  /\ UNCHANGED <<router, down, faults, call, network>>

\* The hashes the user can know: of what others have stored, and those that
\* uploads have returned.
Known == {d \in Held : IsList(d)}
         \cup {op[p].name : p \in {q \in Op : /\ op[q].kind \in {"upload", "private"}
                                            /\ Stages(q, "done")}}
IsSealed(d) == IsList(d) /\ d.sealed

DownloadFile(o) ==
  /\ \E d \in Known :
       ~IsSealed(d) /\ Start(o, [NoOp EXCEPT !.kind = "download", !.stage = "root", !.name = d])
  /\ UNCHANGED <<router, down, faults, call, network>>

\* downloadPrivateFile: the key is asked for first.
DownloadPrivateFile(o) ==
  \E d \in Known :
    /\ IsSealed(d)
    /\ Start(o, [NoOp EXCEPT !.kind = "read", !.stage = "access", !.name = d])
    /\ ConsensusRequest(Main(o), "access", d)

\* The operations that are one request each: they register a DID or a name, or
\* move a name; post an item; index a text, or delete or publish.
Request(o, service) ==
  /\ Start(o, [NoOp EXCEPT !.kind = service, !.stage = "request"])
  /\ Begin(Main(o), service, "change", NoData, 0)

RegisterDid(o) == Request(o, "consensus")
IngestJson(o) == Request(o, "storage")
IndexDocument(o) == Request(o, "search")

\* Mutant: the index goes up only when the part has been transferred.
ClaimPartLate(l) ==
  LET o == l[1]
      i == op[o].next
  IN  /\ l[2] \in 1..Pool \ op[o].dead
      /\ i <= Len(op[o].got)
      /\ UNCHANGED op
      /\ IF op[o].kind \in {"upload", "private"}
         THEN UploadSingleChunk(l, Work(o)[i], i)
         ELSE DownloadSingleChunk(l, Work(o)[i], i)

\* A worker takes the next index; those of an operation that has failed do too.
ClaimPart(l) ==
  LET o == l[1]
      i == op[o].next
  IN  /\ l[2] \in 1..Pool \ op[o].dead
      /\ i <= Len(op[o].got)
      /\ op' = [op EXCEPT ![o].next = i + 1]
      /\ IF op[o].kind \in {"upload", "private"}
         THEN UploadSingleChunk(l, Work(o)[i], i)
         ELSE DownloadSingleChunk(l, Work(o)[i], i)

\* Mutants: the workers are not awaited; the loop expects a part too many.
PoolEndsEarly(o) == Stages(o, "pool") /\ op[o].next > Len(op[o].got)
PoolEndsLate(o) ==
  /\ Stages(o, "pool")
  /\ op[o].next > Len(op[o].got) + 1
  /\ \A l \in Workers(o) : Idle(l)

\* Promise.all: the workers have all returned.
PoolEnds(o) ==
  /\ Stages(o, "pool")
  /\ op[o].next > Len(op[o].got)
  /\ \A l \in Workers(o) : Idle(l)

UploadManifest(o) ==
  /\ op[o].kind \in {"upload", "private"}
  /\ PoolEnds(o)
  /\ Goto(o, "manifest")
  /\ UploadSingleChunk(Main(o), Manifest(op[o].got, op[o].kind = "private"), 0)

GrantFileAccess(o) ==
  /\ Stages(o, "grant")
  /\ ConsensusRequest(Main(o), "grant", op[o].name)
  /\ UNCHANGED op

\* The file is indexed as a text or as an image, unless it is over 30 MB, the
\* user has asked for none, or the grantee is somebody else.
IndexPrivateFile(o) ==
  /\ Stages(o, "granted")
  /\ \/ /\ Goto(o, "done")
        /\ UNCHANGED <<router, down, faults, call, network>>
     \/ \E s \in {"text", "image"} :
          Goto(o, s) /\ SearchRequest(Main(o), "index", op[o].name)

FetchRoot(o) ==
  /\ Stages(o, "root")
  /\ DownloadSingleChunk(Main(o), op[o].name, 0)
  /\ UNCHANGED op

\* The chunks are put together.
Assemble(o) ==
  /\ op[o].kind \in {"download", "read"}
  /\ PoolEnds(o)
  /\ Goto(o, "done")
  /\ UNCHANGED <<router, down, faults, call, network>>

----------------------------------------------------------------------------
(* What becomes of a request.                                              *)

\* decryptData: the authentication tag tells the right key.
Decrypts(o, d) == ~IsList(d) /\ d.key = op[o].key
DecryptData(d) == [d EXCEPT !.key = NoKey]

\* grant_file_access verifies the signature against an address, and answers
\* with success: false otherwise (consensus-node/src/main.rs:349, did.rs:118);
\* uploadPrivateFile sends its public key (client.ts:78).
VerifySignature(signer) == signer = "address"

\* Mutant: the broadcast of a registration is credited where it comes from, too.
ServeSelfDelivered(l) ==
  LET c == call[l] IN
  /\ c.at = "sent"
  /\ c.node \notin down
  /\ c.do = "get" => c.what \in stored
  /\ call' = [call EXCEPT ![l].at = "served"]
  /\ stored' = IF c.do = "put" THEN stored \cup {c.what} ELSE stored
  /\ effects' = [effects EXCEPT ![c.service] = IF c.do = "change" THEN @ + 2 ELSE @]
  /\ UNCHANGED <<router, down, faults, op, acl, indexed, lost>>

\* A request reaches a machine that is up, and has its effect.
Serve(l) ==
  LET c == call[l] IN
  /\ c.at = "sent"
  /\ c.node \notin down
  /\ c.do = "get" => c.what \in stored
  /\ call' = [call EXCEPT ![l].at = "served"]
  /\ stored' = IF c.do = "put" THEN stored \cup {c.what} ELSE stored
  /\ acl' = IF c.do = "grant" /\ VerifySignature("public key")
            THEN acl \cup {[name |-> c.what, key |-> op[l[1]].key]}
            ELSE acl
  /\ indexed' = IF c.do = "index" THEN indexed \cup {c.what} ELSE indexed
  /\ effects' = [effects EXCEPT ![c.service] = IF c.do = "change" THEN @ + 1 ELSE @]
  /\ UNCHANGED <<router, down, faults, op, lost>>

\* What the main flow of o does when its request succeeds.
MainResolved(o, d) ==
  LET r == op[o]
      keys == {a \in acl : a.name = d}
      pool == [r EXCEPT !.stage = "pool", !.got = Blank(Len(d.parts))]
  IN  CASE r.stage = "single" -> [r EXCEPT !.stage = "done", !.name = d]
        [] r.stage = "manifest" ->
             [r EXCEPT !.stage = IF r.kind = "private" THEN "grant" ELSE "done", !.name = d]
        [] r.stage = "grant" -> [r EXCEPT !.stage = "granted"]
        [] r.stage = "access" ->
             IF keys = {} THEN [r EXCEPT !.stage = "failed"]
             ELSE [r EXCEPT !.stage = "root", !.key = (CHOOSE a \in keys : TRUE).key]
        [] r.stage = "root" /\ Recognised(d, r.kind = "read") -> pool
        [] r.stage = "root" /\ r.kind = "download" /\ ~Recognised(d, FALSE) ->
             IF IsList(d) THEN [r EXCEPT !.stage = "bytes"]
             ELSE [r EXCEPT !.stage = "done", !.got = <<d>>, !.next = 2]
        [] r.stage = "root" /\ r.kind = "read" /\ ~Recognised(d, TRUE) ->
             IF Decrypts(o, d) THEN [r EXCEPT !.stage = "done", !.got = <<DecryptData(d)>>, !.next = 2]
             ELSE [r EXCEPT !.stage = "failed"]
        [] OTHER -> [r EXCEPT !.stage = "done"]

\* Mutant: a manifest that could not be sent is swallowed like an index entry.
MainRejectedSwallowed(o) ==
  [op[o] EXCEPT !.stage = IF @ \in {"text", "manifest"} THEN "done" ELSE "failed"]

\* What it does when the request fails: only the indexing of a text may.
MainRejected(o) ==
  [op[o] EXCEPT !.stage = IF @ = "text" THEN "done" ELSE "failed"]

\* Mutant: results are kept in the order they arrive in.
WorkerResolvedInOrder(l) ==
  LET r == op[l[1]]
      first == CHOOSE i \in DOMAIN r.got :
                 r.got[i] = NoData /\ \A j \in 1..(i - 1) : r.got[j] # NoData
      d == call[l].what
  IN  [r EXCEPT !.got[first] = IF r.kind = "read" THEN DecryptData(d) ELSE d]

\* A worker keeps the result under its index, and goes on with the next one.
WorkerResolved(l) ==
  LET d == call[l].what
      r == op[l[1]]
  IN  [r EXCEPT !.got[call[l].slot] = IF r.kind = "read" THEN DecryptData(d) ELSE d]

\* A worker that rejects makes its pool reject.  downloadFile takes that for
\* the sign that the data was no manifest, and returns the data; the others fail.
WorkerRejected(l) ==
  LET r == op[l[1]]
      end == IF r.kind = "download" THEN "bytes" ELSE "failed"
  IN  [r EXCEPT !.dead = @ \cup {l[2]}, !.stage = IF @ = "pool" THEN end ELSE @]

Resolve(l) ==
  LET o == l[1]
      c == call[l]
  IN  op' = [op EXCEPT ![o] =
               IF l = Main(o) THEN MainResolved(o, c.what)
               ELSE IF op[o].kind = "read" /\ ~Decrypts(o, c.what) THEN WorkerRejected(l)
               ELSE WorkerResolved(l)]

Reject(l) ==
  op' = [op EXCEPT ![l[1]] = IF l = Main(l[1]) THEN MainRejected(l[1]) ELSE WorkerRejected(l)]

\* The answer arrives.
Answer(l) ==
  /\ call[l].at = "served"
  /\ call' = [call EXCEPT ![l] = NoCall]
  /\ Resolve(l)
  /\ UNCHANGED <<router, down, faults, network>>

\* Mutants: the number of attempts has no limit; the second attempt goes to
\* the machine of the first.
RetryAlways(l) ==
  LET s == call[l].service IN
  /\ active' = [active EXCEPT ![s] = NoNode]
  /\ BeginSearch(l, s)
  /\ call' = [call EXCEPT ![l].at = "search", ![l].try = @ + 1, ![l].node = NoNode]
  /\ UNCHANGED <<cache, op>>

RetrySameNode(l) ==
  /\ call[l].try = 1
  /\ call' = [call EXCEPT ![l].at = "sent", ![l].try = 2]
  /\ UNCHANGED <<router, op>>

\* The first attempt fails: the active node, whichever it is now, is dropped
\* and another is searched for.
Retry(l) ==
  LET s == call[l].service IN
  /\ call[l].try = 1
  /\ active' = [active EXCEPT ![s] = NoNode]
  /\ BeginSearch(l, s)
  /\ call' = [call EXCEPT ![l].at = "search", ![l].try = 2, ![l].node = NoNode]
  /\ UNCHANGED <<cache, op>>

\* So does the second, and with it the request.
GiveUp(l) ==
  /\ call[l].try = 2
  /\ call' = [call EXCEPT ![l] = NoCall]
  /\ Reject(l)
  /\ UNCHANGED router

\* The request is not served: the machine is down, the data is not there, or
\* something goes wrong.
Refused(l) ==
  /\ call[l].at = "sent"
  /\ \/ /\ call[l].node \in down \/ (call[l].do = "get" /\ call[l].what \notin stored)
        /\ UNCHANGED faults
     \/ /\ call[l].node \notin down
        /\ Fault
  /\ Retry(l) \/ GiveUp(l)
  /\ UNCHANGED <<down, network>>

\* It is served, and the answer is lost.
Lose(l) ==
  /\ call[l].at = "served"
  /\ Fault
  /\ lost' = lost + 1
  /\ Retry(l) \/ GiveUp(l)
  /\ UNCHANGED <<down, stored, acl, indexed, effects>>

\* The search of a lane ends, and its request is sent.
FoundNode(l) ==
  \E n \in Node :
    /\ Found(l, n)
    /\ call' = [call EXCEPT ![l].at = "sent", ![l].node = n]
    /\ UNCHANGED <<op, network>>

Discover(l) ==
  /\ Discovered(l) \/ DiscoveryFails(l)
  /\ UNCHANGED <<op, call, network>>

Environment ==
  /\ \E n \in Node : Crash(n) \/ Recover(n)
  /\ UNCHANGED <<op, call, network>>

UserCalls(o) ==
  \/ UploadFile(o) \/ UploadPrivateFile(o)
  \/ DownloadFile(o) \/ DownloadPrivateFile(o)
  \/ RegisterDid(o) \/ IngestJson(o) \/ IndexDocument(o)

\* The steps that only wait for the event loop.
MainSteps(o) ==
  \/ UploadManifest(o) \/ Assemble(o)
  \/ GrantFileAccess(o) \/ IndexPrivateFile(o) \/ FetchRoot(o)
LaneSteps(l) == ClaimPart(l) \/ Discover(l) \/ FoundNode(l)

Next ==
  \/ \E o \in Op : UserCalls(o) \/ MainSteps(o)
  \/ \E l \in Lane : LaneSteps(l) \/ Serve(l) \/ Answer(l) \/ Refused(l) \/ Lose(l)
  \/ Environment

Spec == Init /\ [][Next]_vars

\* The event loop runs, and searches end by their timeouts; requests have none.
FairSpec ==
  /\ Spec
  /\ \A o \in Op : WF_vars(MainSteps(o))
  /\ \A l \in Lane : WF_vars(LaneSteps(l))

----------------------------------------------------------------------------
(* Properties.                                                             *)

Requests == [at: {"idle", "search", "sent", "served"}, try: {1, 2}, service: Service,
             do: {"put", "get", "grant", "access", "index", "change"}, what: Data,
             slot: Nat, node: Node \cup {NoNode}, since: 0..MaxFaults]
Operation == [kind: Kind, stage: Stage, file: File \cup {NoFile}, name: Data,
              key: Op \cup {NoKey, OtherKey}, next: Nat \ {0}, got: Seq(Data),
              dead: SUBSET (1..Pool)]

\* The shape of the SDK's state (client.ts, modules/*.ts, router.ts).
TypeOK ==
  /\ RouterTypeOK
  /\ op \in [Op -> Operation]
  /\ call \in [Lane -> Requests]
  /\ stored \subseteq Data /\ indexed \subseteq Data
  /\ acl \subseteq [name: Data, key: Op \cup {NoKey, OtherKey}]
  /\ effects \in [Service -> Nat] /\ lost \in Nat

\* Where the storage service has the data S, d is file f, whole and in order:
\* the only part of it, or a manifest of its parts.
Holds(S, d, f) ==
  IF IsList(d)
  THEN \E k \in Op \cup {NoKey, OtherKey} :
         /\ d = Manifest(Parts(f, k), k # NoKey)
         /\ Range(d.parts) \subseteq S
  ELSE Length[f] = 1 /\ d = Part(f, 1, NoKey)
Whole(d) == d \in stored /\ \E f \in File : Holds(stored, d, f)

\* What other clients have stored is whole, and so is what they have shared.
ASSUME HeldAssumption ==
  /\ Held \subseteq Data
  /\ \A d \in Held : IsList(d) => \E f \in File : Holds(Held, d, f)
  /\ Granted \subseteq [name: Held, key: Op \cup {NoKey, OtherKey}]
  /\ \A a \in Granted : IsList(a.name)

\* A manifest that has reached the storage service lists all parts of one
\* file, in order and under one key, and the service has every one of them:
\* whichever worker sent which part, in whatever order the answers came, and
\* whatever was repeated or failed beside it (storage.ts:110-141, client.ts:47-70).
ManifestsAreWhole == \A d \in stored : IsList(d) => Whole(d)

\* What the other services and the user are told about is whole: files in the
\* search index, in the access lists, and the names that uploads return
\* (client.ts:58-103).
NamedIsWhole ==
  /\ \A d \in indexed : Whole(d)
  /\ \A a \in acl : Whole(a.name)
  /\ \A o \in Op : op[o].kind \in {"upload", "private"} /\ Stages(o, "done") => Whole(op[o].name)

\* The workers of a pool share the index without locks: no part is taken by
\* two of them, and every part taken has arrived, is on its way, or has made
\* its worker and with it the operation fail (storage.ts:110-118, 188-194).
PartsAreClaimedOnce ==
  \A o \in Op :
    LET busy == {l \in Workers(o) : ~Idle(l)}
    IN  /\ \A l, m \in busy : call[l].slot = call[m].slot => l = m
        /\ \A i \in 1..(op[o].next - 1) :
             \/ op[o].got[i] # NoData
             \/ \E l \in busy : call[l].slot = i
             \/ op[o].dead # {} /\ op[o].stage \in {"bytes", "failed"}

\* A single request takes effect once for each time the user has asked for it,
\* and once more only where an answer was lost and the request repeated: a DID
\* whose registration succeeds at once is credited once (consensus.ts:7-22,
\* 36-60; consensus-node/src/main.rs:425).
EffectsFollowLosses ==
  \A s \in Service : effects[s] <= Cardinality({o \in Op : op[o].kind = s}) + lost

\* A consensus or search request gives up only when its second attempt fails,
\* and that attempt goes to a machine that is up, unless something has gone
\* wrong since the request was made, or a list of the directory has no machine
\* that is up: also when other callers install and drop nodes, replace the
\* cached list, and machines come back meanwhile (router.ts:58-103,
\* search.ts:48-59).
FailoverWorks ==
  [][\A l \in Lane :
       LET c == call[l]
           d == call'[l]
       IN  c.at # "idle" /\ c.service \in OpenProbe /\ faults' = c.since =>
             /\ c.at = "sent" /\ d.at = "idle" => c.try = 2 /\ c.node \in down
             /\ c # d /\ d.at = "sent" /\ d.try = 2 =>
                  d.node \notin down \/ \E list \in Directory : Range(list) \subseteq down]_vars

\* Nothing waits for nothing: again and again, each operation has settled or
\* has a request on its way (the loops of storage.ts and client.ts and
\* their Promise.all).
NeverStuck ==
  \A o \in Op : []<>(\/ Stages(o, "none") \/ Settled(o)
                     \/ \E l \in Workers(o) \cup {Main(o)} : call[l].at \in {"sent", "served"})

\* What uploads and downloads promise, abstracted from requests, pools and
\* retries: FileStore.
Names == {Part(f, 1, NoKey) : f \in {g \in File : Length[g] = 1}}
         \cup {Manifest(Parts(f, k), k # NoKey) : f \in File, k \in Op \cup {NoKey, OtherKey}}
Contents == [d \in Names |-> IF IsList(d) THEN Parts(d.parts[1].file, NoKey) ELSE <<d>>]

\* The names under which the data S holds all parts of the file.
OnShelf(S) == {d \in Names \cap S : IsList(d) => Range(d.parts) \subseteq S}

\* What each operation is asked to do, and how it has ended.
Asked == [o \in Op |->
  CASE op[o].kind = "none" -> [do |-> "nothing"]
    [] op[o].kind \in {"upload", "private"} ->
         [do |-> "put", content |-> Parts(op[o].file, NoKey)]
    [] op[o].kind \in {"download", "read"} -> [do |-> "get", name |-> op[o].name]
    [] OTHER -> [do |-> "other"]]
Outcome == [o \in Op |->
  CASE ~Settled(o) -> [is |-> "open"]
    [] op[o].stage = "failed" -> [is |-> "failed"]
    [] op[o].stage = "bytes" -> [is |-> "manifest"]
    [] op[o].stage = "done" /\ op[o].kind \in {"upload", "private"} ->
         [is |-> "named", name |-> op[o].name]
    [] op[o].stage = "done" /\ op[o].kind \in {"download", "read"} ->
         [is |-> "file", content |-> op[o].got]
    [] OTHER -> [is |-> "other"]]

Abstract == INSTANCE FileStore WITH
  Name <- Names,
  Content <- Range(Contents),
  Early <- OnShelf(Held),
  shelf <- OnShelf(stored),
  ask <- Asked,
  outcome <- Outcome

\* An upload that resolves names a file that is there, whole; a download that
\* resolves is the file named, in order, or the bytes of its manifest
\* (storage.ts:81-142, 176-213, client.ts:20-153).
StoreRefined == Abstract!Spec
=============================================================================
