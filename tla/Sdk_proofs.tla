----------------------------- MODULE Sdk_proofs -----------------------------
(***************************************************************************)
(* Proofs about the SDK, for any number of operations, workers, machines,  *)
(* files, faults and lost answers.                                         *)
(***************************************************************************)
EXTENDS Sdk, SequenceTheorems, FiniteSetTheorems, TLAPS

----------------------------------------------------------------------------
(* Data.                                                                   *)

Keys == Op \cup {NoKey, OtherKey}

\* Pieces and manifests are told apart by their fields.
LEMMA PiecesAreNotLists ==
  /\ \A d \in Piece : ~IsList(d) /\ d # NoData /\ DecryptData(d) \in Piece
  /\ \A d \in List : IsList(d)
  /\ NoData \in List
  /\ \A d \in Data : d \in List <=> IsList(d)
<1>1. \A d \in Piece : ~IsList(d)
  BY DEF Piece, IsList
<1>2. \A d \in List : IsList(d)
  BY DEF List, IsList
<1>3. NoData \in List
  BY DEF NoData, List
<1>4. \A d \in Piece : DecryptData(d) \in Piece
  BY DEF Piece, DecryptData
<1>. QED  BY <1>1, <1>2, <1>3, <1>4 DEF Data

\* The parts of a file are pieces, and its manifest lists them.
LEMMA PartsArePieces ==
  ASSUME NEW f \in File, NEW k \in Keys, NEW s \in BOOLEAN
  PROVE  /\ Length[f] \in Nat \ {0}
         /\ \A i \in Nat : Part(f, i, k) \in Piece
         /\ Parts(f, k) \in Seq(Piece) /\ Len(Parts(f, k)) = Length[f]
         /\ DOMAIN Parts(f, k) = 1..Length[f]
         /\ \A i \in 1..Length[f] : Parts(f, k)[i] = Part(f, i, k)
         /\ Manifest(Parts(f, k), s) \in List
<1>1. Length[f] \in Nat \ {0}
  BY SdkAssumption
<1>2. \A i \in Nat : Part(f, i, k) \in Piece
  BY DEF Part, Piece, Keys
<1>3. Parts(f, k) \in [1..Length[f] -> Piece]
  BY <1>1, <1>2 DEF Parts
<1>4. Parts(f, k) \in Seq(Piece) /\ Len(Parts(f, k)) = Length[f]
  BY <1>1, <1>3
<1>. QED  BY <1>1, <1>2, <1>3, <1>4 DEF Parts, Manifest, List

\* A sequence that holds the parts of a file, each at its index, is that file.
LEMMA AllParts ==
  ASSUME NEW f \in File, NEW k \in Keys, NEW q \in Seq(Data),
         Len(q) = Length[f], \A i \in 1..Len(q) : q[i] = Part(f, i, k)
  PROVE  q = Parts(f, k)
<1>1. q \in [1..Len(q) -> Data] /\ Len(q) \in Nat
  OBVIOUS
<1>. QED  BY <1>1 DEF Parts

\* The manifest of a file whose parts are all stored is whole.
LEMMA ManifestHolds ==
  ASSUME NEW f \in File, NEW k \in Keys, NEW S,
         \A i \in 1..Length[f] : Part(f, i, k) \in S
  PROVE  Holds(S, Manifest(Parts(f, k), k # NoKey), f)
<1>. DEFINE d == Manifest(Parts(f, k), k # NoKey)
<1>1. d \in List /\ IsList(d)
  BY PartsArePieces, PiecesAreNotLists
<1>2. d.parts = Parts(f, k)
  BY DEF Manifest
<1>3. DOMAIN Parts(f, k) = 1..Length[f]
      /\ \A i \in 1..Length[f] : Parts(f, k)[i] = Part(f, i, k)
  BY PartsArePieces
<1>4. Range(d.parts) \subseteq S
  BY <1>2, <1>3 DEF Range
<1>. QED  BY <1>1, <1>4 DEF Holds, Keys

\* What is whole stays whole when more is stored.
LEMMA HoldsGrows ==
  ASSUME NEW S, NEW T, S \subseteq T, NEW d, NEW f, Holds(S, d, f)
  PROVE  Holds(T, d, f)
BY DEF Holds

----------------------------------------------------------------------------
(* The inductive invariant.                                                *)

Uploads(o) == op[o].kind \in {"upload", "private"}
Fetches(o) == op[o].kind \in {"download", "read"}

\* The stages that an operation of each kind goes through.
StagesOf(kind) ==
  CASE kind = "none" -> {"none"}
    [] kind = "upload" -> {"single", "pool", "manifest", "done", "failed"}
    [] kind = "private" -> {"pool", "manifest", "grant", "granted", "text", "image", "done", "failed"}
    [] kind = "download" -> {"root", "pool", "done", "bytes", "failed"}
    [] kind = "read" -> {"access", "root", "pool", "done", "failed"}
    [] OTHER -> {"request", "done", "failed"}

\* Shared indices stay in range; what an upload has got is stored; from the
\* manifest on all of its parts are, and then the file under its name.
RecordOK(o) ==
  LET r == op[o] IN
  /\ r.stage \in StagesOf(r.kind)
  /\ r.dead # {} => r.stage \in {"bytes", "failed"}
  /\ r.stage \in {"access", "root"} => r.next = 1
  /\ r.next <= Len(r.got) + 1
  /\ r.next <= Len(r.got) => r.stage \in {"pool", "bytes", "failed"}
  /\ r.stage = "pool" \/ r.next <= Len(r.got) =>
       (Uploads(o) \/ Fetches(o)) /\ Work(o) \in Seq(Piece) /\ Len(r.got) = Len(Work(o))
  /\ \A i \in r.next..Len(r.got) : r.got[i] = NoData
  /\ Uploads(o) =>
       /\ r.file \in File /\ r.key = (IF r.kind = "upload" THEN NoKey ELSE o)
       /\ \A i \in 1..Len(r.got) :
            r.got[i] # NoData => r.got[i] = Part(r.file, i, r.key) /\ r.got[i] \in stored
       /\ r.stage = "manifest" => \A i \in 1..Length[r.file] : Part(r.file, i, r.key) \in stored
       /\ r.stage = "single" => Length[r.file] = 1
       /\ r.stage \in {"grant", "granted", "text", "image", "done"} =>
            r.name \in stored /\ Holds(stored, r.name, r.file)

\* What the main flow asks for is what its stage is about.
MainOK(o) ==
  LET c == call[Main(o)]
      r == op[o]
      asks(stage, do, what) == r.stage = stage /\ c.do = do /\ c.what = what
  IN  c.at # "idle" =>
        /\ c.at = "served" /\ c.do = "put" => c.what \in stored
        /\ \/ asks("single", "put", Part(r.file, 1, NoKey))
           \/ asks("manifest", "put", Manifest(Parts(r.file, r.key), r.key # NoKey))
           \/ asks("grant", "grant", r.name)
           \/ asks("text", "index", r.name) \/ asks("image", "index", r.name)
           \/ asks("access", "access", r.name)
           \/ asks("root", "get", r.name)
           \/ asks("request", "change", NoData) /\ c.service = r.kind

\* A worker asks for the part it has claimed, which has not arrived.
WorkerOK(o, w) ==
  LET c == call[<<o, w>>]
      r == op[o]
  IN  c.at # "idle" =>
        /\ c.at = "served" /\ c.do = "put" => c.what \in stored
        /\ w \notin r.dead
        /\ r.stage \in {"pool", "bytes", "failed"}
        /\ Uploads(o) \/ Fetches(o)
        /\ c.do = (IF Uploads(o) THEN "put" ELSE "get")
        /\ c.slot \in 1..(r.next - 1) /\ r.got[c.slot] = NoData
        /\ Work(o) \in Seq(Piece) /\ Len(Work(o)) = Len(r.got)
        /\ c.what = Work(o)[c.slot]

\* PartsAreClaimedOnce for one operation.
Claims(o) ==
  /\ \A v, w \in 1..Pool :
       (~Idle(<<o, v>>) /\ ~Idle(<<o, w>>) /\ call[<<o, v>>].slot = call[<<o, w>>].slot) => v = w
  /\ \A i \in 1..(op[o].next - 1) :
       \/ op[o].got[i] # NoData
       \/ \E w \in 1..Pool : ~Idle(<<o, w>>) /\ call[<<o, w>>].slot = i
       \/ op[o].dead # {} /\ op[o].stage \in {"bytes", "failed"}

OpInv(o) == RecordOK(o) /\ MainOK(o) /\ (\A w \in 1..Pool : WorkerOK(o, w)) /\ Claims(o)

\* What the services hold of the SDK's files is whole.
ServicesOK ==
  /\ ManifestsAreWhole
  /\ \A d \in indexed : Whole(d)
  /\ \A a \in acl : Whole(a.name)

\* A lane has a search under way exactly while its request waits for one;
\* lists of addresses come from the directory, and none is empty.
SearchOK ==
  /\ \A s \in Service : cache[s] \in Directory \cup {<<>>}
  /\ \A l \in Lane :
       /\ call[l].at = "search" <=> find[l].at # "none"
       /\ call[l].at = "search" => find[l].service = call[l].service
       /\ find[l].at = "discover" => find[l].nodes \in Directory \cup {<<>>}
       /\ find[l].at = "ping" => find[l].nodes # <<>>

\* The inductive invariant.
SdkInv == TypeOK /\ SearchOK /\ ServicesOK /\ \A o \in Op : OpInv(o)

----------------------------------------------------------------------------
(* What leaves an operation alone.                                         *)

LEMMA LanesOf ==
  ASSUME NEW o \in Op
  PROVE  /\ Main(o) \in Lane
         /\ \A w \in 1..Pool : <<o, w>> \in Lane /\ <<o, w>> # Main(o)
         /\ \A w \in 0..Pool : <<o, w>> \in Lane
         /\ Workers(o) \subseteq Lane
BY SdkAssumption DEF Main, Workers

\* A lane is the main flow of its operation or a worker of it.
LEMMA LaneIs ==
  ASSUME NEW l \in Lane
  PROVE  /\ l[1] \in Op /\ l[2] \in 0..Pool /\ l = <<l[1], l[2]>>
         /\ l[2] = 0 <=> l = Main(l[1])
BY SdkAssumption DEF Main

\* A record that stays what it is, while more is stored.
LEMMA RecordStays ==
  ASSUME NEW o \in Op, RecordOK(o), op'[o] = op[o], stored \subseteq stored'
  PROVE  RecordOK(o)' /\ Work(o)' = Work(o)
<1>1. Work(o)' = Work(o) /\ (Uploads(o)' <=> Uploads(o)) /\ (Fetches(o)' <=> Fetches(o))
  BY DEF Work, Uploads, Fetches
<1>2. \A d, f : Holds(stored, d, f) => Holds(stored', d, f)
  BY HoldsGrows
<1>. QED  BY <1>1, <1>2 DEF RecordOK

LEMMA Unmoved ==
  ASSUME NEW o \in Op, OpInv(o), op'[o] = op[o], stored \subseteq stored',
         \A w \in 0..Pool : call'[<<o, w>>] = call[<<o, w>>]
  PROVE  OpInv(o)'
<1>1. RecordOK(o)' /\ Work(o)' = Work(o)
  BY RecordStays DEF OpInv
<1>2. call'[Main(o)] = call[Main(o)] /\ \A w \in 1..Pool : call'[<<o, w>>] = call[<<o, w>>]
  BY SdkAssumption DEF Main
<1>3. MainOK(o)'
  BY <1>2 DEF OpInv, MainOK, Main
<1>4. ASSUME NEW w \in 1..Pool
      PROVE  WorkerOK(o, w)'
  BY <1>1, <1>2 DEF OpInv, WorkerOK, Uploads, Fetches
<1>5. Claims(o)'
  BY <1>2 DEF OpInv, Claims, Idle
<1>. QED  BY <1>1, <1>3, <1>4, <1>5 DEF OpInv

\* A request that is repeated, sent or served remains the one it is.
LEMMA RequestStays ==
  ASSUME NEW l \in Lane, NEW c, call \in [Lane -> Requests], \A o \in Op : OpInv(o),
         call[l].at # "idle", c.at # "idle", call' = [call EXCEPT ![l] = c],
         c.do = call[l].do, c.what = call[l].what, c.slot = call[l].slot,
         c.service = call[l].service, op' = op, stored \subseteq stored',
         c.at = "served" /\ c.do = "put" => c.what \in stored'
  PROVE  \A o \in Op : OpInv(o)'
<1>1. \A k \in Lane : call'[k] = IF k = l THEN c ELSE call[k]
  OBVIOUS
<1>. SUFFICES ASSUME NEW o \in Op
              PROVE  OpInv(o)'
  OBVIOUS
<1>2. \A k \in Lane : /\ call'[k].do = call[k].do /\ call'[k].what = call[k].what
                      /\ call'[k].slot = call[k].slot /\ call'[k].service = call[k].service
                      /\ call'[k].at = "idle" <=> call[k].at = "idle"
  BY <1>1
<1>3. \A k \in Lane : call'[k].at = "served" /\ call'[k].do = "put" =>
        call'[k].what \in stored' \/ (call[k].at = "served" /\ call[k].do = "put")
  BY <1>1
<1>4. RecordOK(o)' /\ Work(o)' = Work(o)
  BY RecordStays DEF OpInv
<1>5. MainOK(o)'
  BY <1>2, <1>3, LanesOf DEF OpInv, MainOK, Main
<1>6. ASSUME NEW w \in 1..Pool
      PROVE  WorkerOK(o, w)'
  BY <1>2, <1>3, <1>4, LanesOf DEF OpInv, WorkerOK, Uploads, Fetches
<1>7. Claims(o)'
  <2>1. \A w \in 1..Pool : /\ (call'[<<o, w>>].at = "idle") <=> (call[<<o, w>>].at = "idle")
                            /\ call'[<<o, w>>].slot = call[<<o, w>>].slot
    BY <1>2, LanesOf
  <2>2. op' = op /\ Claims(o)
    BY DEF OpInv
  <2>3. ASSUME NEW v \in 1..Pool, NEW w \in 1..Pool
        PROVE  (~Idle(<<o, v>>) /\ ~Idle(<<o, w>>) /\ call[<<o, v>>].slot = call[<<o, w>>].slot => v = w)'
    <3>1. ~Idle(<<o, v>>) /\ ~Idle(<<o, w>>) /\ call[<<o, v>>].slot = call[<<o, w>>].slot => v = w
      BY <2>2 DEF Claims
    <3>2. /\ call'[<<o, v>>].slot = call[<<o, v>>].slot /\ call'[<<o, w>>].slot = call[<<o, w>>].slot
          /\ Idle(<<o, v>>)' <=> Idle(<<o, v>>)
          /\ Idle(<<o, w>>)' <=> Idle(<<o, w>>)
      BY <2>1 DEF Idle
    <3>. QED  BY ONLY <3>1, <3>2
  <2>4. ASSUME NEW i \in 1..(op[o].next - 1)
        PROVE  (\/ op[o].got[i] # NoData
                \/ \E w \in 1..Pool : ~Idle(<<o, w>>) /\ call[<<o, w>>].slot = i
                \/ (op[o].dead # {} /\ op[o].stage \in {"bytes", "failed"}))'
    <3>1. CASE \E w \in 1..Pool : ~Idle(<<o, w>>) /\ call[<<o, w>>].slot = i
      BY <2>1, <3>1 DEF Idle
    <3>2. CASE ~ \E w \in 1..Pool : ~Idle(<<o, w>>) /\ call[<<o, w>>].slot = i
      BY ONLY <2>2, <2>4, <3>2 DEF Claims
    <3>. QED  BY <3>1, <3>2
  <2>5. op'[o].next = op[o].next
    BY <2>2
  <2>. QED  BY ONLY <2>3, <2>4, <2>5 DEF Claims
<1>. QED  BY <1>4, <1>5, <1>6, <1>7 DEF OpInv

----------------------------------------------------------------------------
(* The router.                                                             *)

\* A search that begins is one for the service, over addresses it may have.
LEMMA SearchBegins ==
  ASSUME RouterTypeOK, SearchOK, NEW l \in Lane, NEW s \in Service, BeginSearch(l, s)
  PROVE  /\ fresh' \in [Service -> BOOLEAN]
         /\ \E x \in Search : /\ find' = [find EXCEPT ![l] = x]
                              /\ x.at # "none" /\ x.service = s
                              /\ x.at = "discover" => x.nodes \in Directory \cup {<<>>}
                              /\ x.at = "ping" => x.nodes # <<>> /\ x.nodes \in Directory
<1>1. cache[s] \in Seq(Node) /\ cache[s] \in Directory \cup {<<>>}
  BY DEF RouterTypeOK, SearchOK
<1>2. CASE /\ fresh[s] /\ cache[s] # <<>>
           /\ find' = [find EXCEPT ![l] = [at |-> "ping", service |-> s, nodes |-> cache[s]]]
           /\ fresh' = fresh
  <2>1. [at |-> "ping", service |-> s, nodes |-> cache[s]] \in Search
    BY <1>1 DEF Search
  <2>. QED  BY <1>1, <1>2, <2>1 DEF RouterTypeOK
<1>3. CASE /\ find' = [find EXCEPT ![l] = [at |-> "discover", service |-> s, nodes |-> cache[s]]]
           /\ fresh' = [fresh EXCEPT ![s] = FALSE]
  <2>1. [at |-> "discover", service |-> s, nodes |-> cache[s]] \in Search
    BY <1>1 DEF Search
  <2>. QED  BY <1>1, <1>3, <2>1 DEF RouterTypeOK
<1>. QED  BY <1>2, <1>3 DEF BeginSearch

\* A request that begins, with the search it may have to wait for.
LEMMA RequestBegins ==
  ASSUME TypeOK, SearchOK, NEW l \in Lane, NEW s \in Service, NEW d \in Data, NEW i \in Nat,
         NEW do \in {"put", "get", "grant", "access", "index", "change"},
         Begin(l, s, do, d, i)
  PROVE  /\ Idle(l) /\ network' = network /\ down' = down /\ faults' = faults
         /\ RouterTypeOK' /\ SearchOK' /\ call' \in [Lane -> Requests]
         /\ \E c \in Requests : /\ call' = [call EXCEPT ![l] = c]
                                /\ c.at \in {"search", "sent"} /\ c.try = 1
                                /\ c.service = s /\ c.do = do /\ c.what = d /\ c.slot = i
<1>. DEFINE since == IF s = "storage" THEN 0 ELSE faults
            c(at, n) == [at |-> at, try |-> 1, service |-> s, do |-> do, what |-> d,
                         slot |-> i, node |-> n, since |-> since]
<1>1. since \in 0..MaxFaults
  BY RouterAssumption DEF TypeOK, RouterTypeOK
<1>2. \A at \in {"search", "sent"}, n \in Node \cup {NoNode} : c(at, n) \in Requests
  BY <1>1 DEF Requests
<1>3. Idle(l) /\ network' = network /\ down' = down /\ faults' = faults
      /\ active' = active /\ cache' = cache
  BY DEF Begin
<1>4. find[l].at = "none"
  BY <1>3 DEF SearchOK, Idle, TypeOK, RouterTypeOK
<1>5. CASE active[s] # NoNode
  <2>1. call' = [call EXCEPT ![l] = c("sent", active[s])] /\ find' = find /\ fresh' = fresh
    BY <1>5 DEF Begin, NoCall
  <2>2. active[s] \in Node \cup {NoNode}
    BY DEF TypeOK, RouterTypeOK
  <2>3. c("sent", active[s]) \in Requests
    BY <1>2, <2>2
  <2>4. RouterTypeOK'
    BY <1>3, <2>1 DEF TypeOK, RouterTypeOK
  <2>5. SearchOK'
    BY <1>3, <1>4, <2>1 DEF SearchOK, TypeOK, Idle
  <2>. QED  BY <1>3, <2>1, <2>3, <2>4, <2>5 DEF TypeOK
<1>6. CASE active[s] = NoNode
  <2>1. call' = [call EXCEPT ![l] = c("search", NoNode)] /\ BeginSearch(l, s)
    BY <1>6 DEF Begin, NoCall
  <2>2. c("search", NoNode) \in Requests
    BY <1>2
  <2>3. PICK x \in Search : /\ find' = [find EXCEPT ![l] = x]
                            /\ x.at # "none" /\ x.service = s
                            /\ x.at = "discover" => x.nodes \in Directory \cup {<<>>}
                            /\ x.at = "ping" => x.nodes # <<>>
    BY <2>1, SearchBegins DEF TypeOK
  <2>4. fresh' \in [Service -> BOOLEAN]
    BY <2>1, SearchBegins DEF TypeOK
  <2>5. RouterTypeOK'
    BY <1>3, <2>3, <2>4 DEF TypeOK, RouterTypeOK
  <2>6. SearchOK'
    BY <1>3, <2>1, <2>3 DEF SearchOK, TypeOK, RouterTypeOK
  <2>. QED  BY <1>3, <2>1, <2>2, <2>5, <2>6 DEF TypeOK
<1>. QED  BY <1>5, <1>6

\* The state of the router is of its type after each of its steps, and the
\* lists of addresses remain what they are.
LEMMA DiscoverKeepsRouter ==
  ASSUME TypeOK, SearchOK, NEW l \in Lane, Discover(l)
  PROVE  RouterTypeOK' /\ SearchOK'
<1>. USE DEF TypeOK, RouterTypeOK
<1>1. call' = call /\ active' = active /\ down' = down /\ find[l].at = "discover"
  BY DEF Discover, Discovered, DiscoveryFails
<1>2. CASE Discovered(l)
  <2>1. PICK list \in Directory :
          /\ cache' = [cache EXCEPT ![find[l].service] = list]
          /\ find' = [find EXCEPT ![l].at = "ping", ![l].nodes = list]
    BY <1>2 DEF Discovered
  <2>2. list \in Seq(Node) /\ list # <<>>
    BY RouterAssumption
  <2>3. fresh' = [fresh EXCEPT ![find[l].service] = TRUE] /\ faults' = faults
    BY <1>2 DEF Discovered
  <2>4. find[l] \in Search
    OBVIOUS
  <2>5. find' \in [Lane -> Search]
    BY <2>1, <2>2, <2>4 DEF Search
  <2>6. RouterTypeOK'
    BY <1>1, <2>1, <2>2, <2>3, <2>4, <2>5 DEF Search
  <2>. QED  BY <1>1, <2>1, <2>2, <2>6 DEF SearchOK
<1>3. CASE DiscoveryFails(l)
  <2>. DEFINE list == IF find[l].nodes = <<>> THEN Fallback ELSE find[l].nodes
  <2>1. find' = [find EXCEPT ![l].at = "ping", ![l].nodes = list]
    BY <1>3 DEF DiscoveryFails
  <2>2. list \in Seq(Node) /\ list # <<>>
    BY RouterAssumption DEF Search
  <2>3. cache' = cache /\ fresh' = fresh /\ faults' \in 0..MaxFaults
    BY <1>3, RouterAssumption DEF DiscoveryFails, Fault
  <2>. HIDE DEF list
  <2>5. find' \in [Lane -> Search]
    BY <2>1, <2>2 DEF Search
  <2>6. RouterTypeOK'
    BY <1>1, <2>3, <2>5
  <2>. QED  BY <1>1, <2>1, <2>2, <2>3, <2>6 DEF SearchOK
<1>. QED  BY <1>2, <1>3 DEF Discover

\* A search ends with a machine, and its lane has one no longer.
LEMMA FoundKeepsRouter ==
  ASSUME RouterTypeOK, NEW l \in Lane, NEW n \in Node, Found(l, n)
  PROVE  RouterTypeOK' /\ find' = [find EXCEPT ![l] = NoSearch] /\ cache' = cache
<1>1. NoSearch \in Search
  BY SdkAssumption DEF NoSearch, Search
<1>2. faults' \in 0..MaxFaults
  BY RouterAssumption DEF Found, Fault, RouterTypeOK
<1>. QED  BY <1>1, <1>2 DEF Found, RouterTypeOK

LEMMA FoundNodeKeepsRouter ==
  ASSUME TypeOK, SearchOK, NEW l \in Lane, FoundNode(l)
  PROVE  /\ RouterTypeOK' /\ SearchOK' /\ call' \in [Lane -> Requests]
         /\ call[l].at = "search"
         /\ \E n \in Node : call' = [call EXCEPT ![l] = [call[l] EXCEPT !.at = "sent", !.node = n]]
<1>1. PICK n \in Node : /\ Found(l, n)
                        /\ call' = [call EXCEPT ![l].at = "sent", ![l].node = n]
  BY DEF FoundNode
<1>2. RouterTypeOK' /\ find' = [find EXCEPT ![l] = NoSearch] /\ cache' = cache
  BY <1>1, FoundKeepsRouter DEF TypeOK
<1>3. call[l].at = "search"
  BY <1>1 DEF Found, SearchOK
<1>4. call' = [call EXCEPT ![l] = [call[l] EXCEPT !.at = "sent", !.node = n]]
  BY <1>1 DEF TypeOK
<1>5. call' \in [Lane -> Requests]
  <2>. call[l] \in Requests
    BY DEF TypeOK
  <2>1. [call[l] EXCEPT !.at = "sent", !.node = n] \in Requests
    BY DEF Requests
  <2>. QED  BY <1>4, <2>1 DEF TypeOK
<1>6. SearchOK'
  BY <1>2, <1>4 DEF SearchOK, NoSearch, TypeOK, RouterTypeOK
<1>. QED  BY <1>2, <1>3, <1>4, <1>5, <1>6

LEMMA EnvironmentKeepsRouter ==
  ASSUME TypeOK, SearchOK, Environment
  PROVE  RouterTypeOK' /\ SearchOK'
<1>1. router' = router /\ call' = call
  BY DEF Environment, Crash, Recover
<1>2. down' \in SUBSET Node /\ faults' \in 0..MaxFaults
  BY RouterAssumption DEF Environment, Crash, Recover, Fault, TypeOK, RouterTypeOK
<1>. QED  BY <1>1, <1>2 DEF TypeOK, RouterTypeOK, SearchOK, router

\* The second attempt is the same request, searching for a machine.
LEMMA RetryKeepsRouter ==
  ASSUME TypeOK, SearchOK, NEW l \in Lane, Retry(l), call[l].at \in {"sent", "served"},
         faults' \in 0..MaxFaults, down' = down
  PROVE  /\ RouterTypeOK' /\ SearchOK' /\ call' \in [Lane -> Requests] /\ op' = op
         /\ call' = [call EXCEPT ![l] = [call[l] EXCEPT !.at = "search", !.try = 2, !.node = NoNode]]
<1>. DEFINE s == call[l].service
<1>1. s \in Service /\ call[l] \in Requests
  BY DEF TypeOK, Requests
<1>2. call' = [call EXCEPT ![l] = [call[l] EXCEPT !.at = "search", !.try = 2, !.node = NoNode]]
  BY DEF Retry, TypeOK
<1>3. BeginSearch(l, s) /\ active' = [active EXCEPT ![s] = NoNode] /\ cache' = cache /\ op' = op
  BY DEF Retry
<1>4. call' \in [Lane -> Requests]
  BY <1>1, <1>2 DEF TypeOK, Requests
<1>. HIDE DEF s
<1>5. PICK x \in Search : /\ find' = [find EXCEPT ![l] = x]
                          /\ x.at # "none" /\ x.service = s
                          /\ x.at = "discover" => x.nodes \in Directory \cup {<<>>}
                          /\ x.at = "ping" => x.nodes # <<>>
  BY <1>1, <1>3, SearchBegins DEF TypeOK
<1>6. fresh' \in [Service -> BOOLEAN]
  BY <1>1, <1>3, SearchBegins DEF TypeOK
<1>7. RouterTypeOK'
  BY <1>1, <1>3, <1>5, <1>6 DEF TypeOK, RouterTypeOK
<1>8. SearchOK'
  BY <1>2, <1>3, <1>5 DEF SearchOK, TypeOK, RouterTypeOK, s
<1>. QED  BY <1>2, <1>3, <1>4, <1>7, <1>8

\* A request that comes to its end, or is served, has no search to begin with.
LEMMA SearchStays ==
  ASSUME TypeOK, SearchOK, NEW l \in Lane, NEW c \in Requests,
         call[l].at # "search", c.at # "search",
         call' = [call EXCEPT ![l] = c], find' = find, cache' = cache
  PROVE  SearchOK' /\ call' \in [Lane -> Requests]
BY DEF SearchOK, TypeOK

LEMMA NoCallIsARequest == NoCall \in Requests
BY SdkAssumption, RouterAssumption, PiecesAreNotLists DEF NoCall, Requests, Data

----------------------------------------------------------------------------
(* Operations.                                                             *)

\* A step of one operation leaves the others alone.
LEMMA OthersStay ==
  ASSUME NEW o \in Op, \A p \in Op : OpInv(p), stored \subseteq stored',
         \A p \in Op \ {o} : op'[p] = op[p],
         \A l \in Lane : l[1] # o => call'[l] = call[l]
  PROVE  \A p \in Op \ {o} : OpInv(p)'
<1>1. ASSUME NEW p \in Op \ {o}
      PROVE  \A w \in 0..Pool : call'[<<p, w>>] = call[<<p, w>>]
  BY LanesOf
<1>. QED  BY <1>1, Unmoved

LEMMA ServicesStay ==
  ASSUME ServicesOK, network' = network
  PROVE  ServicesOK'
BY DEF ServicesOK, ManifestsAreWhole, Whole, network

\* An operation that has not begun has nothing in progress.
LEMMA NothingBegun ==
  ASSUME TypeOK, NEW o \in Op, OpInv(o), Stages(o, "none")
  PROVE  \A w \in 0..Pool : call[<<o, w>>].at = "idle"
<1>1. op[o].stage = "none" /\ op[o].kind \in Kind
  BY DEF Stages, TypeOK, Operation
<1>2. op[o].kind = "none"
  BY <1>1 DEF OpInv, RecordOK, StagesOf
<1>3. call[Main(o)].at = "idle"
  BY <1>1 DEF OpInv, MainOK
<1>4. \A w \in 1..Pool : call[<<o, w>>].at = "idle"
  BY <1>1 DEF OpInv, WorkerOK
<1>. QED  BY <1>3, <1>4, SdkAssumption DEF Main

\* An operation whose workers have nothing to do.
LEMMA JustBegun ==
  ASSUME NEW o \in Op, RecordOK(o)', MainOK(o)', op'[o].next = 1,
         \A w \in 1..Pool : call'[<<o, w>>].at = "idle"
  PROVE  OpInv(o)'
BY DEF OpInv, WorkerOK, Claims, Idle

\* The files that uploads have named, and those of other clients.
LEMMA KnownIsData ==
  ASSUME TypeOK
  PROVE  Known \subseteq Data
BY HeldAssumption DEF Known, TypeOK, Operation

\* What is common to the steps that begin an operation.
LEMMA StartStep ==
  ASSUME TypeOK, SearchOK, ServicesOK, \A p \in Op : OpInv(p), NEW o \in Op, NEW r \in Operation,
         Start(o, r), network' = network, RouterTypeOK', SearchOK',
         call' \in [Lane -> Requests], \A l \in Lane : l # Main(o) => call'[l] = call[l],
         r.next = 1, RecordOK(o)', MainOK(o)'
  PROVE  SdkInv'
<1>1. op' = [op EXCEPT ![o] = r] /\ Stages(o, "none")
  BY DEF Start
<1>2. TypeOK'
  BY <1>1 DEF TypeOK, network
<1>3. \A p \in Op \ {o} : OpInv(p)'
  <2>1. \A p \in Op \ {o} : op'[p] = op[p]
    BY <1>1 DEF TypeOK
  <2>2. \A l \in Lane : l[1] # o => call'[l] = call[l]
    BY DEF Main
  <2>3. stored \subseteq stored'
    BY DEF network
  <2>. QED  BY <2>1, <2>2, <2>3, OthersStay
<1>4. OpInv(o)'
  <2>1. \A w \in 1..Pool : call'[<<o, w>>].at = "idle"
    BY <1>1, NothingBegun, LanesOf
  <2>2. op'[o].next = 1
    BY <1>1 DEF TypeOK
  <2>. QED  BY <2>1, <2>2, JustBegun
<1>5. ServicesOK'
  BY ServicesStay
<1>. QED  BY <1>2, <1>3, <1>4, <1>5 DEF SdkInv

\* The same for the operations that begin without a request.
LEMMA QuietStart ==
  ASSUME TypeOK, SearchOK, ServicesOK, \A p \in Op : OpInv(p), NEW o \in Op, NEW r \in Operation,
         Start(o, r), UNCHANGED <<router, down, faults, call, network>>,
         r.next = 1, RecordOK(o)'
  PROVE  SdkInv'
<1>1. RouterTypeOK' /\ SearchOK' /\ call' = call /\ network' = network
  BY DEF TypeOK, RouterTypeOK, SearchOK, router
<1>2. MainOK(o)'
  <2>1. call[Main(o)].at = "idle"
    BY NothingBegun, SdkAssumption DEF Start, Main
  <2>. QED  BY <1>1, <2>1 DEF MainOK, Main
<1>. QED  BY <1>1, <1>2, StartStep DEF TypeOK

\* A pool that is to transfer the parts of a file, or those a manifest lists.
LEMMA BlankIs ==
  ASSUME NEW n \in Nat
  PROVE  Blank(n) \in Seq(Data) /\ Len(Blank(n)) = n /\ \A i \in 1..n : Blank(n)[i] = NoData
<1>1. Blank(n) \in [1..n -> Data]
  BY PiecesAreNotLists DEF Blank, Data
<1>2. \A i \in 1..n : Blank(n)[i] = NoData
  BY DEF Blank
<1>. QED  BY <1>1, <1>2

LEMMA NoOpIsTyped ==
  /\ NoData \in Data /\ NoOp \in Operation
  /\ \A kind \in Kind, f \in File : [NoOp EXCEPT !.kind = kind, !.file = f] \in Operation
  /\ \A kind \in Kind, d \in Data : [NoOp EXCEPT !.kind = kind, !.name = d] \in Operation
<1>1. NoData \in Data
  BY PiecesAreNotLists DEF Data
<1>2. NoOp \in Operation
  BY <1>1 DEF NoOp, Operation, Kind, Stage
<1>3. \A kind \in Kind, f \in File : [NoOp EXCEPT !.kind = kind, !.file = f] \in Operation
  BY <1>2 DEF Operation
<1>4. \A kind \in Kind, d \in Data : [NoOp EXCEPT !.kind = kind, !.name = d] \in Operation
  BY <1>2 DEF Operation
<1>. QED  BY <1>1, <1>2, <1>3, <1>4

LEMMA UploadFileStep ==
  ASSUME TypeOK, SearchOK, ServicesOK, \A p \in Op : OpInv(p), NEW o \in Op, UploadFile(o)
  PROVE  SdkInv'
<1>1. PICK f \in Mine :
        LET r == [NoOp EXCEPT !.kind = "upload", !.file = f] IN
        IF Length[f] = 1
        THEN /\ Start(o, [r EXCEPT !.stage = "single"])
             /\ UploadSingleChunk(Main(o), Part(f, 1, NoKey), 0)
        ELSE /\ Start(o, [r EXCEPT !.stage = "pool", !.got = Blank(Length[f])])
             /\ UNCHANGED <<router, down, faults, call, network>>
  BY DEF UploadFile
<1>2. f \in File /\ Length[f] \in Nat \ {0} /\ NoKey \in Keys
  BY SdkAssumption DEF Keys
<1>. DEFINE q == [NoOp EXCEPT !.kind = "upload", !.file = f]
<1>3. /\ q \in Operation /\ q.kind = "upload" /\ q.file = f /\ q.key = NoKey
      /\ q.next = 1 /\ q.got = <<>> /\ q.dead = {}
  BY <1>2, NoOpIsTyped DEF NoOp, Kind
<1>4. CASE Length[f] = 1
  <2>. DEFINE r == [q EXCEPT !.stage = "single"]
  <2>1. Start(o, r) /\ Begin(Main(o), "storage", "put", Part(f, 1, NoKey), 0)
    BY <1>1, <1>4 DEF UploadSingleChunk
  <2>. HIDE DEF q
  <2>2. /\ r \in Operation /\ r.kind = "upload" /\ r.file = f /\ r.key = NoKey
        /\ r.next = 1 /\ r.got = <<>> /\ r.dead = {} /\ r.stage = "single"
    BY <1>3 DEF Operation, Stage
  <2>. HIDE DEF r
  <2>3. op'[o] = r
    BY <2>1 DEF Start, TypeOK
  <2>4. Part(f, 1, NoKey) \in Data
    BY <1>2, PartsArePieces DEF Data
  <2>5. PICK c \in Requests : /\ call' = [call EXCEPT ![Main(o)] = c]
                              /\ c.at \in {"search", "sent"}
                              /\ c.do = "put" /\ c.what = Part(f, 1, NoKey)
    BY <2>1, <2>4, RequestBegins, LanesOf, SdkAssumption
  <2>6. network' = network /\ RouterTypeOK' /\ SearchOK' /\ call' \in [Lane -> Requests]
    BY <2>1, <2>4, RequestBegins, LanesOf, SdkAssumption
  <2>7. call'[Main(o)] = c /\ \A l \in Lane : l # Main(o) => call'[l] = call[l]
    BY <2>5, LanesOf DEF TypeOK
  <2>8. MainOK(o)'
    BY <2>2, <2>3, <2>5, <2>7 DEF MainOK, Main
  <2>9. RecordOK(o)'
    BY <1>2, <1>4, <2>2, <2>3 DEF RecordOK, StagesOf, Uploads
  <2>. QED  BY <2>1, <2>2, <2>6, <2>7, <2>8, <2>9, StartStep
<1>5. CASE Length[f] # 1
  <2>. DEFINE r == [q EXCEPT !.stage = "pool", !.got = Blank(Length[f])]
  <2>1. Start(o, r) /\ UNCHANGED <<router, down, faults, call, network>>
    BY <1>1, <1>5
  <2>2. /\ Blank(Length[f]) \in Seq(Data) /\ Len(Blank(Length[f])) = Length[f]
        /\ \A i \in 1..Length[f] : Blank(Length[f])[i] = NoData
    BY <1>2, BlankIs
  <2>. HIDE DEF q
  <2>3. /\ r \in Operation /\ r.kind = "upload" /\ r.file = f /\ r.key = NoKey
        /\ r.next = 1 /\ r.got = Blank(Length[f]) /\ r.dead = {} /\ r.stage = "pool"
    BY <1>3, <2>2 DEF Operation, Stage
  <2>. HIDE DEF r
  <2>4. op'[o] = r
    BY <2>1 DEF Start, TypeOK
  <2>5. Work(o)' = Parts(f, NoKey)
    BY <2>3, <2>4 DEF Work
  <2>6. Parts(f, NoKey) \in Seq(Piece) /\ Len(Parts(f, NoKey)) = Length[f]
    BY <1>2, PartsArePieces
  <2>7. RecordOK(o)'
    BY <1>2, <2>2, <2>3, <2>4, <2>5, <2>6 DEF RecordOK, StagesOf, Uploads
  <2>. QED  BY <2>1, <2>3, <2>7, QuietStart
<1>. QED  BY <1>4, <1>5

LEMMA UploadPrivateFileStep ==
  ASSUME TypeOK, SearchOK, ServicesOK, \A p \in Op : OpInv(p), NEW o \in Op, UploadPrivateFile(o)
  PROVE  SdkInv'
<1>1. PICK f \in Mine :
        Start(o, [NoOp EXCEPT !.kind = "private", !.stage = "pool", !.file = f, !.key = o,
                              !.got = Blank(Length[f])])
  BY DEF UploadPrivateFile
<1>. DEFINE r == [NoOp EXCEPT !.kind = "private", !.stage = "pool", !.file = f, !.key = o,
                              !.got = Blank(Length[f])]
<1>2. f \in File /\ Length[f] \in Nat \ {0} /\ o \in Keys
  BY SdkAssumption DEF Keys
<1>3. /\ Blank(Length[f]) \in Seq(Data) /\ Len(Blank(Length[f])) = Length[f]
      /\ \A i \in 1..Length[f] : Blank(Length[f])[i] = NoData
  BY <1>2, BlankIs
<1>4. /\ r.kind = "private" /\ r.file = f /\ r.key = o /\ r.stage = "pool"
      /\ r.next = 1 /\ r.got = Blank(Length[f]) /\ r.dead = {}
  BY DEF NoOp
<1>5. r \in Operation
  BY <1>2, <1>3, NoOpIsTyped DEF Operation, Kind, Stage
<1>6. Start(o, r) /\ UNCHANGED <<router, down, faults, call, network>>
  BY <1>1 DEF UploadPrivateFile
<1>. HIDE DEF r
<1>7. op'[o] = r
  BY <1>6 DEF Start, TypeOK
<1>8. Work(o)' = Parts(f, o)
  BY <1>4, <1>7 DEF Work
<1>9. Parts(f, o) \in Seq(Piece) /\ Len(Parts(f, o)) = Length[f]
  BY <1>2, PartsArePieces
<1>10. RecordOK(o)'
  BY <1>2, <1>3, <1>4, <1>7, <1>8, <1>9 DEF RecordOK, StagesOf, Uploads
<1>. QED  BY <1>4, <1>5, <1>6, <1>10, QuietStart

LEMMA DownloadFileStep ==
  ASSUME TypeOK, SearchOK, ServicesOK, \A p \in Op : OpInv(p), NEW o \in Op, DownloadFile(o)
  PROVE  SdkInv'
<1>1. PICK d \in Known :
        Start(o, [NoOp EXCEPT !.kind = "download", !.stage = "root", !.name = d])
  BY DEF DownloadFile
<1>. DEFINE r == [NoOp EXCEPT !.kind = "download", !.stage = "root", !.name = d]
<1>2. d \in Data
  BY KnownIsData
<1>3. r.kind = "download" /\ r.stage = "root" /\ r.next = 1 /\ r.got = <<>> /\ r.dead = {}
  BY DEF NoOp
<1>4. r \in Operation
  BY <1>2, NoOpIsTyped DEF Operation, Kind, Stage
<1>5. Start(o, r) /\ UNCHANGED <<router, down, faults, call, network>>
  BY <1>1 DEF DownloadFile
<1>. HIDE DEF r
<1>6. op'[o] = r
  BY <1>5 DEF Start, TypeOK
<1>7. RecordOK(o)'
  BY <1>3, <1>6 DEF RecordOK, StagesOf, Uploads
<1>. QED  BY <1>3, <1>4, <1>5, <1>7, QuietStart

LEMMA DownloadPrivateFileStep ==
  ASSUME TypeOK, SearchOK, ServicesOK, \A p \in Op : OpInv(p), NEW o \in Op,
         DownloadPrivateFile(o)
  PROVE  SdkInv'
<1>1. PICK d \in Known :
        /\ Start(o, [NoOp EXCEPT !.kind = "read", !.stage = "access", !.name = d])
        /\ ConsensusRequest(Main(o), "access", d)
  BY DEF DownloadPrivateFile
<1>. DEFINE r == [NoOp EXCEPT !.kind = "read", !.stage = "access", !.name = d]
<1>2. d \in Data
  BY KnownIsData
<1>3. /\ r.kind = "read" /\ r.stage = "access" /\ r.next = 1 /\ r.got = <<>> /\ r.dead = {}
      /\ r.name = d
  BY DEF NoOp
<1>4. r \in Operation
  BY <1>2, NoOpIsTyped DEF Operation, Kind, Stage
<1>5. Start(o, r) /\ Begin(Main(o), "consensus", "access", d, 0)
  BY <1>1 DEF ConsensusRequest
<1>. HIDE DEF r
<1>6. op'[o] = r
  BY <1>5 DEF Start, TypeOK
<1>7. PICK c \in Requests : /\ call' = [call EXCEPT ![Main(o)] = c]
                            /\ c.at \in {"search", "sent"} /\ c.do = "access" /\ c.what = d
  BY <1>2, <1>5, RequestBegins, LanesOf, SdkAssumption
<1>8. network' = network /\ RouterTypeOK' /\ SearchOK' /\ call' \in [Lane -> Requests]
  BY <1>2, <1>5, RequestBegins, LanesOf, SdkAssumption
<1>9. call'[Main(o)] = c /\ \A l \in Lane : l # Main(o) => call'[l] = call[l]
  BY <1>7, LanesOf DEF TypeOK
<1>10. MainOK(o)'
  BY <1>3, <1>6, <1>7, <1>9 DEF MainOK, Main
<1>11. RecordOK(o)'
  BY <1>3, <1>6 DEF RecordOK, StagesOf, Uploads
<1>. QED  BY <1>3, <1>4, <1>5, <1>8, <1>9, <1>10, <1>11, StartStep

LEMMA RequestStep ==
  ASSUME TypeOK, SearchOK, ServicesOK, \A p \in Op : OpInv(p), NEW o \in Op, NEW s \in Service,
         Request(o, s)
  PROVE  SdkInv'
<1>. DEFINE r == [NoOp EXCEPT !.kind = s, !.stage = "request"]
<1>1. /\ r.kind = s /\ r.stage = "request" /\ r.next = 1 /\ r.got = <<>> /\ r.dead = {}
      /\ s \notin {"none", "upload", "private", "download", "read"} /\ s \in Kind
  BY SdkAssumption DEF NoOp, Kind
<1>2. r \in Operation
  BY <1>1, NoOpIsTyped DEF Operation, Stage
<1>3. Start(o, r) /\ Begin(Main(o), s, "change", NoData, 0)
  BY DEF Request
<1>. HIDE DEF r
<1>4. op'[o] = r
  BY <1>3 DEF Start, TypeOK
<1>5. PICK c \in Requests : /\ call' = [call EXCEPT ![Main(o)] = c]
                            /\ c.at \in {"search", "sent"} /\ c.do = "change" /\ c.what = NoData
                            /\ c.service = s
  <2>1. Main(o) \in Lane /\ NoData \in Data /\ 0 \in Nat
    BY NoOpIsTyped, LanesOf
  <2>. QED  BY ONLY TypeOK, SearchOK, s \in Service, <1>3, <2>1, RequestBegins
<1>6. network' = network /\ RouterTypeOK' /\ SearchOK' /\ call' \in [Lane -> Requests]
  BY <1>3, NoOpIsTyped, RequestBegins, LanesOf
<1>7. call'[Main(o)] = c /\ \A l \in Lane : l # Main(o) => call'[l] = call[l]
  BY <1>5, LanesOf DEF TypeOK
<1>8. MainOK(o)'
  BY <1>1, <1>4, <1>5, <1>7 DEF MainOK, Main
<1>9. RecordOK(o)'
  BY <1>1, <1>4 DEF RecordOK, StagesOf, Uploads
<1>. QED  BY <1>1, <1>2, <1>3, <1>6, <1>7, <1>8, <1>9, StartStep

LEMMA UserCallsStep ==
  ASSUME SdkInv, NEW o \in Op, UserCalls(o)
  PROVE  SdkInv'
<1>. SUFFICES ASSUME TypeOK, SearchOK, ServicesOK, \A p \in Op : OpInv(p)
              PROVE  SdkInv'
  BY DEF SdkInv
<1>1. CASE UploadFile(o)
  BY <1>1, UploadFileStep
<1>2. CASE UploadPrivateFile(o)
  BY <1>2, UploadPrivateFileStep
<1>3. CASE DownloadFile(o)
  BY <1>3, DownloadFileStep
<1>4. CASE DownloadPrivateFile(o)
  BY <1>4, DownloadPrivateFileStep
<1>5. CASE RegisterDid(o) \/ IngestJson(o) \/ IndexDocument(o)
  BY <1>5, RequestStep, SdkAssumption DEF RegisterDid, IngestJson, IndexDocument
<1>. QED  BY <1>1, <1>2, <1>3, <1>4, <1>5 DEF UserCalls

\* A worker takes the next part.
LEMMA ClaimPartStep ==
  ASSUME TypeOK, SearchOK, ServicesOK, \A p \in Op : OpInv(p),
         NEW o \in Op, NEW w \in 1..Pool, ClaimPart(<<o, w>>)
  PROVE  SdkInv'
<1>1. PICK i \in Nat \ {0} : i = op[o].next
  BY DEF TypeOK, Operation
<1>2. PICK do \in {"put", "get"} : do = IF Uploads(o) THEN "put" ELSE "get"
  OBVIOUS
<1>3. i <= Len(op[o].got) /\ op[o].got \in Seq(Data) /\ w \notin op[o].dead
  BY <1>1 DEF ClaimPart, TypeOK, Operation
<1>4. op' = [op EXCEPT ![o].next = i + 1] /\ Begin(<<o, w>>, "storage", do, Work(o)[i], i)
  BY <1>1, <1>2 DEF ClaimPart, UploadSingleChunk, DownloadSingleChunk, Uploads
<1>5. RecordOK(o) /\ MainOK(o) /\ (\A v \in 1..Pool : WorkerOK(o, v)) /\ Claims(o)
  BY DEF OpInv
<1>6. /\ Work(o) \in Seq(Piece) /\ Len(op[o].got) = Len(Work(o)) /\ (Uploads(o) \/ Fetches(o))
      /\ op[o].stage \in {"pool", "bytes", "failed"} /\ op[o].got[i] = NoData
  BY <1>1, <1>3, <1>5 DEF RecordOK
<1>7. Work(o)[i] \in Data
  BY <1>3, <1>6 DEF Data
<1>8. "storage" \in Service /\ <<o, w>> \in Lane /\ <<o, w>> # Main(o)
  BY SdkAssumption, LanesOf
<1>9. PICK c \in Requests : /\ call' = [call EXCEPT ![<<o, w>>] = c] /\ c.at \in {"search", "sent"}
                            /\ c.do = do /\ c.what = Work(o)[i] /\ c.slot = i
  BY <1>4, <1>7, <1>8, RequestBegins
<1>10. /\ network' = network /\ RouterTypeOK' /\ SearchOK' /\ call' \in [Lane -> Requests]
       /\ call[<<o, w>>].at = "idle"
  BY <1>4, <1>7, <1>8, RequestBegins DEF Idle
<1>11. call'[<<o, w>>] = c /\ \A k \in Lane : k # <<o, w>> => call'[k] = call[k]
  BY <1>8, <1>9 DEF TypeOK
<1>12. PICK r : r = [op[o] EXCEPT !.next = i + 1]
  OBVIOUS
<1>13. op' = [op EXCEPT ![o] = r] /\ op'[o] = r
  BY <1>4, <1>12 DEF TypeOK
<1>14. r \in Operation
  <2>1. op[o] \in Operation /\ i + 1 \in Nat \ {0}
    BY DEF TypeOK
  <2>. QED  BY <1>12, <2>1 DEF Operation
<1>15. /\ r.kind = op[o].kind /\ r.stage = op[o].stage /\ r.file = op[o].file /\ r.name = op[o].name
       /\ r.key = op[o].key /\ r.got = op[o].got /\ r.dead = op[o].dead /\ r.next = i + 1
  BY <1>12 DEF TypeOK, Operation
<1>16. TypeOK'
  BY <1>10, <1>13, <1>14 DEF TypeOK, network
<1>17. \A p \in Op \ {o} : OpInv(p)'
  <2>1. \A p \in Op \ {o} : op'[p] = op[p]
    BY <1>13 DEF TypeOK
  <2>2. \A k \in Lane : k[1] # o => call'[k] = call[k]
    BY <1>11
  <2>3. stored \subseteq stored'
    BY <1>10 DEF network
  <2>. QED  BY <2>1, <2>2, <2>3, OthersStay
<1>18. Work(o)' = Work(o) /\ (Uploads(o)' <=> Uploads(o)) /\ (Fetches(o)' <=> Fetches(o))
       /\ stored' = stored
  BY <1>10, <1>13, <1>15 DEF Work, Uploads, Fetches, network
<1>19. RecordOK(o)'
  <2>1. i + 1 <= Len(op[o].got) + 1 /\ \A j \in (i + 1)..Len(op[o].got) : j \in i..Len(op[o].got)
    BY <1>3
  <2>2. i + 1 <= Len(op[o].got) => i <= Len(op[o].got)
    BY <1>3
  <2>3. op[o].stage \notin {"access", "root", "manifest", "single", "grant", "granted", "text", "image", "done"}
    BY <1>6
  <2>. QED  BY ONLY <1>1, <1>5, <1>6, <1>13, <1>15, <1>18, <2>1, <2>2, <2>3 DEF RecordOK
<1>20. MainOK(o)'
  <2>1. call'[Main(o)] = call[Main(o)]
    BY <1>8, <1>11, LanesOf
  <2>. QED  BY <1>5, <1>13, <1>15, <1>18, <2>1 DEF MainOK, Main
<1>21. ASSUME NEW v \in 1..Pool
       PROVE  WorkerOK(o, v)'
  <2>1. CASE v = w
    <3>1. call'[<<o, v>>] = c /\ i \in 1..(r.next - 1)
      BY <1>11, <1>15, <2>1
    <3>. QED  BY <1>2, <1>3, <1>6, <1>9, <1>13, <1>15, <1>18, <2>1, <3>1 DEF WorkerOK
  <2>2. CASE v # w
    <3>1. call'[<<o, v>>] = call[<<o, v>>]
      BY <1>11, <2>2, LanesOf
    <3>2. \A j \in 1..(op[o].next - 1) : j \in 1..(r.next - 1)
      BY <1>1, <1>15
    <3>. QED  BY <1>5, <1>13, <1>15, <1>18, <3>1, <3>2 DEF WorkerOK
  <2>. QED  BY <2>1, <2>2
<1>22. Claims(o)'
  <2>1. \A v \in 1..Pool : call'[<<o, v>>] = IF v = w THEN c ELSE call[<<o, v>>]
    BY <1>11, LanesOf
  <2>2. \A v \in 1..Pool : call[<<o, v>>].at # "idle" => call[<<o, v>>].slot # i
    BY <1>1, <1>5 DEF WorkerOK
  <2>3. \A j \in 1..(r.next - 1) : j = i \/ j \in 1..(op[o].next - 1)
    BY <1>1, <1>15
  <2>. QED  BY <1>5, <1>9, <1>10, <1>13, <1>15, <2>1, <2>2, <2>3 DEF Claims, Idle
<1>23. ServicesOK'
  BY <1>10, ServicesStay
<1>24. OpInv(o)'
  BY <1>19, <1>20, <1>21, <1>22 DEF OpInv
<1>. QED  BY <1>10, <1>16, <1>17, <1>23, <1>24 DEF SdkInv

\* A step of the main flow of an operation whose workers are idle: it moves
\* to the stage t, or stays there.
LEMMA MainStep ==
  ASSUME TypeOK, SearchOK, ServicesOK, \A p \in Op : OpInv(p), NEW o \in Op, NEW t \in Stage,
         op' = [op EXCEPT ![o].stage = t], network' = network,
         RouterTypeOK', SearchOK', call' \in [Lane -> Requests],
         \A l \in Lane : l # Main(o) => call'[l] = call[l],
         \A w \in 1..Pool : call[<<o, w>>].at = "idle", op[o].dead = {},
         RecordOK(o)', MainOK(o)'
  PROVE  SdkInv'
<1>1. PICK r \in Operation : r = [op[o] EXCEPT !.stage = t]
  <2>1. op[o] \in Operation
    BY DEF TypeOK
  <2>. QED  BY <2>1 DEF Operation
<1>2. op' = [op EXCEPT ![o] = r] /\ op'[o] = r
  BY <1>1 DEF TypeOK
<1>3. r.next = op[o].next /\ r.got = op[o].got /\ r.dead = op[o].dead
  BY <1>1 DEF TypeOK, Operation
<1>4. TypeOK'
  BY <1>2 DEF TypeOK, network
<1>5. \A p \in Op \ {o} : OpInv(p)'
  <2>1. \A p \in Op \ {o} : op'[p] = op[p]
    BY <1>2 DEF TypeOK
  <2>2. \A l \in Lane : l[1] # o => call'[l] = call[l]
    BY DEF Main
  <2>3. stored \subseteq stored'
    BY DEF network
  <2>. QED  BY <2>1, <2>2, <2>3, OthersStay
<1>6. \A w \in 1..Pool : call'[<<o, w>>].at = "idle"
  BY LanesOf
<1>7. \A w \in 1..Pool : WorkerOK(o, w)'
  BY <1>6 DEF WorkerOK
<1>8. Claims(o)'
  BY <1>2, <1>3, <1>6 DEF OpInv, Claims, Idle
<1>9. ServicesOK'
  BY ServicesStay
<1>10. OpInv(o)'
  BY <1>7, <1>8 DEF OpInv
<1>. QED  BY <1>4, <1>5, <1>9, <1>10 DEF SdkInv

\* The pool of an operation that has ended well has got every part.
LEMMA PoolIsComplete ==
  ASSUME TypeOK, NEW o \in Op, OpInv(o), PoolEnds(o)
  PROVE  /\ op[o].stage = "pool" /\ op[o].dead = {}
         /\ \A w \in 1..Pool : call[<<o, w>>].at = "idle"
         /\ op[o].next = Len(op[o].got) + 1
         /\ \A i \in 1..Len(op[o].got) : op[o].got[i] # NoData
<1>1. op[o].stage = "pool" /\ op[o].next > Len(op[o].got) /\ op[o].dead = {}
      /\ op[o].next <= Len(op[o].got) + 1 /\ op[o].next \in Nat /\ Len(op[o].got) \in Nat
  BY DEF PoolEnds, Stages, OpInv, RecordOK, TypeOK, Operation
<1>2. \A w \in 1..Pool : call[<<o, w>>].at = "idle"
  BY DEF PoolEnds, Workers, Idle
<1>3. \A i \in 1..(op[o].next - 1) : op[o].got[i] # NoData
  BY <1>1, <1>2 DEF OpInv, Claims, Idle
<1>. QED  BY <1>1, <1>2, <1>3

\* The key of an upload tells whether it is private.
LEMMA UploadKey ==
  ASSUME NEW o \in Op, RecordOK(o), Uploads(o)
  PROVE  /\ op[o].file \in File /\ op[o].key \in Keys
         /\ op[o].kind = "private" <=> op[o].key # NoKey
         /\ Work(o) = Parts(op[o].file, op[o].key)
BY SdkAssumption DEF RecordOK, Uploads, Work, Keys

LEMMA UploadManifestStep ==
  ASSUME TypeOK, SearchOK, ServicesOK, \A p \in Op : OpInv(p), NEW o \in Op, UploadManifest(o)
  PROVE  SdkInv'
<1>1. PICK f, k : f = op[o].file /\ k = op[o].key
  OBVIOUS
<1>2. /\ op[o].stage = "pool" /\ op[o].dead = {}
      /\ \A w \in 1..Pool : call[<<o, w>>].at = "idle"
      /\ op[o].next = Len(op[o].got) + 1
      /\ \A i \in 1..Len(op[o].got) : op[o].got[i] # NoData
  BY PoolIsComplete DEF UploadManifest
<1>3. RecordOK(o) /\ Uploads(o) /\ op[o] \in Operation
  BY DEF OpInv, UploadManifest, Uploads, TypeOK
<1>4. f \in File /\ k \in Keys /\ (op[o].kind = "private" <=> k # NoKey) /\ Work(o) = Parts(f, k)
  BY <1>1, <1>3, UploadKey
<1>5. Len(op[o].got) = Length[f] /\ op[o].got \in Seq(Data)
  <2>1. Len(op[o].got) = Len(Work(o))
    BY <1>2, <1>3 DEF RecordOK
  <2>2. Len(Parts(f, k)) = Length[f]
    BY <1>4, PartsArePieces
  <2>. QED  BY <1>3, <1>4, <2>1, <2>2 DEF Operation
<1>6. \A i \in 1..Length[f] : op[o].got[i] = Part(f, i, k) /\ Part(f, i, k) \in stored
  BY <1>1, <1>2, <1>3, <1>5 DEF RecordOK
<1>7. op[o].got = Parts(f, k)
  BY <1>4, <1>5, <1>6, AllParts
<1>. DEFINE m == Manifest(Parts(f, k), k # NoKey)
<1>8. op' = [op EXCEPT ![o].stage = "manifest"] /\ Begin(Main(o), "storage", "put", m, 0)
  BY <1>4, <1>7 DEF UploadManifest, Goto, UploadSingleChunk
<1>9. m \in Data /\ Main(o) \in Lane /\ "storage" \in Service
  BY <1>4, PartsArePieces, LanesOf, SdkAssumption DEF Data
<1>10. PICK c \in Requests : /\ call' = [call EXCEPT ![Main(o)] = c] /\ c.at \in {"search", "sent"}
                             /\ c.do = "put" /\ c.what = m
  BY <1>8, <1>9, RequestBegins
<1>11. network' = network /\ RouterTypeOK' /\ SearchOK' /\ call' \in [Lane -> Requests]
  BY <1>8, <1>9, RequestBegins
<1>12. call'[Main(o)] = c /\ \A l \in Lane : l # Main(o) => call'[l] = call[l]
  BY <1>9, <1>10 DEF TypeOK
<1>13. PICK r : r = [op[o] EXCEPT !.stage = "manifest"]
  OBVIOUS
<1>14. /\ op'[o] = r /\ r.kind = op[o].kind /\ r.stage = "manifest" /\ r.file = f
       /\ r.name = op[o].name /\ r.key = k /\ r.got = op[o].got /\ r.dead = {} /\ r.next = op[o].next
  BY <1>1, <1>2, <1>3, <1>8, <1>13 DEF TypeOK, Operation
<1>15. stored' = stored /\ (Uploads(o)' <=> Uploads(o))
  BY <1>11, <1>14 DEF network, Uploads
<1>16. RecordOK(o)'
  <2>1. "manifest" \in StagesOf(r.kind)
    BY <1>3, <1>14 DEF StagesOf, Uploads
  <2>2. ~(r.next <= Len(r.got)) /\ r.next <= Len(r.got) + 1 /\ r.next..Len(r.got) = {}
    BY <1>2, <1>5, <1>14
  <2>. QED  BY <1>1, <1>3, <1>4, <1>5, <1>6, <1>14, <1>15, <2>1, <2>2 DEF RecordOK
<1>17. MainOK(o)'
  BY <1>10, <1>12, <1>14 DEF MainOK, Main
<1>18. "manifest" \in Stage
  BY DEF Stage
<1>. QED  BY <1>2, <1>8, <1>11, <1>12, <1>16, <1>17, <1>18, MainStep

\* Steps of the main flow after which its request is c, or that make none.
LEMMA StayingStep ==
  ASSUME TypeOK, SearchOK, ServicesOK, \A p \in Op : OpInv(p), NEW o \in Op,
         op[o].stage \in {"grant", "root"}, op' = op, NEW s \in Service,
         NEW do \in {"grant", "get"}, Begin(Main(o), s, do, op[o].name, 0),
         op[o].stage = (IF do = "grant" THEN "grant" ELSE "root")
  PROVE  SdkInv'
<1>1. op[o] \in Operation /\ op[o].name \in Data
  BY DEF TypeOK, Operation
<1>2. /\ \A w \in 1..Pool : call[<<o, w>>].at = "idle"
      /\ op[o].dead = {} /\ RecordOK(o)
  BY DEF OpInv, WorkerOK, RecordOK
<1>3. PICK c \in Requests : /\ call' = [call EXCEPT ![Main(o)] = c] /\ c.at \in {"search", "sent"}
                            /\ c.do = do /\ c.what = op[o].name
  BY <1>1, LanesOf, RequestBegins
<1>4. network' = network /\ RouterTypeOK' /\ SearchOK' /\ call' \in [Lane -> Requests]
  BY <1>1, LanesOf, RequestBegins
<1>5. call'[Main(o)] = c /\ \A l \in Lane : l # Main(o) => call'[l] = call[l]
  BY <1>3, LanesOf DEF TypeOK
<1>6. RecordOK(o)'
  BY <1>2, <1>4, RecordStays DEF network
<1>7. MainOK(o)'
  BY <1>3, <1>5 DEF MainOK, Main
<1>8. op' = [op EXCEPT ![o].stage = op[o].stage] /\ op[o].stage \in Stage
  BY <1>1 DEF TypeOK, Operation
<1>. QED  BY <1>2, <1>4, <1>5, <1>6, <1>7, <1>8, MainStep

LEMMA GrantOrFetchStep ==
  ASSUME TypeOK, SearchOK, ServicesOK, \A p \in Op : OpInv(p), NEW o \in Op,
         GrantFileAccess(o) \/ FetchRoot(o)
  PROVE  SdkInv'
<1>1. "consensus" \in Service /\ "storage" \in Service
  BY SdkAssumption
<1>2. CASE GrantFileAccess(o)
  <2>1. op[o].stage = "grant" /\ op' = op /\ Begin(Main(o), "consensus", "grant", op[o].name, 0)
    BY <1>2 DEF GrantFileAccess, Stages, ConsensusRequest
  <2>. QED  BY <1>1, <2>1, StayingStep
<1>3. CASE FetchRoot(o)
  <2>1. op[o].stage = "root" /\ op' = op /\ Begin(Main(o), "storage", "get", op[o].name, 0)
    BY <1>3 DEF FetchRoot, Stages, DownloadSingleChunk
  <2>. QED  BY <1>1, <2>1, StayingStep
<1>. QED  BY <1>2, <1>3

\* From the grant on an upload keeps its name, whatever its stage becomes.
LEMMA NamedStays ==
  ASSUME TypeOK, NEW o \in Op, RecordOK(o), op[o].stage = "granted",
         NEW t \in {"done", "text", "image"}, op' = [op EXCEPT ![o].stage = t], stored' = stored
  PROVE  RecordOK(o)'
<1>1. PICK r : r = [op[o] EXCEPT !.stage = t]
  OBVIOUS
<1>2. /\ op'[o] = r /\ r.kind = op[o].kind /\ r.stage = t /\ r.file = op[o].file
      /\ r.name = op[o].name /\ r.key = op[o].key /\ r.got = op[o].got /\ r.dead = op[o].dead
      /\ r.next = op[o].next
  BY <1>1 DEF TypeOK, Operation
<1>3. op[o].kind = "private" /\ op[o].kind \in Kind
  BY SdkAssumption DEF RecordOK, StagesOf, TypeOK, Operation, Kind
<1>4. t \in StagesOf(r.kind) /\ op[o].dead = {} /\ ~(op[o].next <= Len(op[o].got))
  BY <1>2, <1>3 DEF StagesOf, RecordOK
<1>5. Uploads(o)' /\ Uploads(o)
  BY <1>2, <1>3 DEF Uploads
<1>. QED  BY <1>2, <1>4, <1>5 DEF RecordOK

LEMMA IndexPrivateFileStep ==
  ASSUME TypeOK, SearchOK, ServicesOK, \A p \in Op : OpInv(p), NEW o \in Op,
         IndexPrivateFile(o)
  PROVE  SdkInv'
<1>1. /\ op[o].stage = "granted" /\ op[o] \in Operation /\ op[o].name \in Data
      /\ "search" \in Service /\ {"done", "text", "image"} \subseteq Stage
  BY SdkAssumption DEF IndexPrivateFile, Stages, TypeOK, Operation, Stage
<1>2. /\ \A w \in 1..Pool : call[<<o, w>>].at = "idle"
      /\ call[Main(o)].at = "idle" /\ op[o].dead = {} /\ RecordOK(o)
  BY <1>1 DEF OpInv, WorkerOK, MainOK, RecordOK
<1>3. CASE Goto(o, "done") /\ UNCHANGED <<router, down, faults, call, network>>
  <2>1. op' = [op EXCEPT ![o].stage = "done"] /\ network' = network /\ stored' = stored
    BY <1>3 DEF Goto, network
  <2>2. RouterTypeOK' /\ SearchOK' /\ call' = call /\ call' \in [Lane -> Requests]
    BY <1>3 DEF TypeOK, RouterTypeOK, SearchOK, router
  <2>3. RecordOK(o)'
    BY <1>1, <1>2, <2>1, NamedStays
  <2>4. MainOK(o)'
    BY <1>2, <2>2 DEF MainOK, Main
  <2>. QED  BY <1>1, <1>2, <2>1, <2>2, <2>3, <2>4, MainStep
<1>4. ASSUME NEW t \in {"text", "image"}, Goto(o, t), SearchRequest(Main(o), "index", op[o].name)
      PROVE  SdkInv'
  <2>1. op' = [op EXCEPT ![o].stage = t] /\ Begin(Main(o), "search", "index", op[o].name, 0)
    BY <1>4 DEF Goto, SearchRequest
  <2>2. PICK c \in Requests : /\ call' = [call EXCEPT ![Main(o)] = c] /\ c.at \in {"search", "sent"}
                              /\ c.do = "index" /\ c.what = op[o].name
    BY <1>1, <2>1, LanesOf, RequestBegins
  <2>3. network' = network /\ RouterTypeOK' /\ SearchOK' /\ call' \in [Lane -> Requests]
    BY <1>1, <2>1, LanesOf, RequestBegins
  <2>4. call'[Main(o)] = c /\ \A l \in Lane : l # Main(o) => call'[l] = call[l]
    BY <2>2, LanesOf DEF TypeOK
  <2>5. RecordOK(o)'
    BY <1>1, <1>2, <2>1, <2>3, NamedStays DEF network
  <2>6. op'[o].stage = t /\ op'[o].name = op[o].name
    BY <1>1, <2>1 DEF TypeOK, Operation
  <2>7. MainOK(o)'
    BY <2>2, <2>4, <2>6 DEF MainOK, Main
  <2>. QED  BY <1>1, <1>2, <2>1, <2>3, <2>4, <2>5, <2>7, MainStep
<1>. QED  BY <1>3, <1>4 DEF IndexPrivateFile

LEMMA AssembleStep ==
  ASSUME TypeOK, SearchOK, ServicesOK, \A p \in Op : OpInv(p), NEW o \in Op, Assemble(o)
  PROVE  SdkInv'
<1>1. /\ op[o].stage = "pool" /\ op[o].dead = {}
      /\ \A w \in 1..Pool : call[<<o, w>>].at = "idle"
      /\ op[o].next = Len(op[o].got) + 1 /\ Len(op[o].got) \in Nat
      /\ call[Main(o)].at = "idle"
  <2>1. op[o] \in Operation /\ MainOK(o) /\ PoolEnds(o)
    BY DEF Assemble, OpInv, TypeOK
  <2>2. Len(op[o].got) \in Nat
    BY ONLY <2>1 DEF Operation
  <2>3. op[o].stage = "pool" /\ op[o].dead = {} /\ op[o].next = Len(op[o].got) + 1
        /\ \A w \in 1..Pool : call[<<o, w>>].at = "idle"
    BY <2>1, PoolIsComplete
  <2>4. call[Main(o)].at = "idle"
    BY ONLY <2>1, <2>3 DEF MainOK
  <2>. QED  BY <2>2, <2>3, <2>4
<1>2. /\ op' = [op EXCEPT ![o].stage = "done"] /\ network' = network /\ stored' = stored
      /\ op[o].kind \in {"download", "read"}
  BY DEF Assemble, Goto, network
<1>3. RouterTypeOK' /\ SearchOK' /\ call' = call /\ call' \in [Lane -> Requests]
  BY DEF Assemble, TypeOK, RouterTypeOK, SearchOK, router
<1>4. /\ op'[o].stage = "done" /\ op'[o].kind = op[o].kind /\ op'[o].dead = {}
      /\ op'[o].next = op[o].next /\ op'[o].got = op[o].got
  BY <1>1, <1>2 DEF TypeOK, Operation
<1>5. RecordOK(o)'
  <2>1. ~Uploads(o)' /\ "done" \in StagesOf(op[o].kind)
    BY <1>2, <1>4 DEF Uploads, StagesOf
  <2>2. ~(op[o].next <= Len(op[o].got)) /\ op[o].next..Len(op[o].got) = {}
    BY <1>1
  <2>. QED  BY <1>1, <1>4, <2>1, <2>2 DEF RecordOK
<1>6. MainOK(o)'
  BY <1>1, <1>3 DEF MainOK, Main
<1>7. "done" \in Stage
  BY DEF Stage
<1>. QED  BY <1>1, <1>2, <1>3, <1>5, <1>6, <1>7, MainStep

LEMMA MainStepsStep ==
  ASSUME SdkInv, NEW o \in Op, MainSteps(o)
  PROVE  SdkInv'
BY UploadManifestStep, AssembleStep, GrantOrFetchStep, IndexPrivateFileStep DEF MainSteps, SdkInv

----------------------------------------------------------------------------
(* Requests on their way.                                                  *)

\* A manifest that is put lists parts that are stored.
LEMMA PutsAreWhole ==
  ASSUME TypeOK, NEW l \in Lane, OpInv(l[1]), call[l].at # "idle", call[l].do = "put",
         IsList(call[l].what)
  PROVE  \E f \in File : Holds(stored, call[l].what, f)
<1>1. PICK o, w : l = <<o, w>> /\ o \in Op /\ w \in 0..Pool
  BY LaneIs
<1>2. CASE w = 0
  <2>1. l = Main(o)
    BY <1>1, <1>2 DEF Main
  <2>2. \/ op[o].stage = "single" /\ call[l].what = Part(op[o].file, 1, NoKey)
        \/ /\ op[o].stage = "manifest"
           /\ call[l].what = Manifest(Parts(op[o].file, op[o].key), op[o].key # NoKey)
    BY <1>1, <2>1 DEF OpInv, MainOK
  <2>3. op[o].stage \in {"single", "manifest"} => Uploads(o)
    BY <1>1 DEF OpInv, RecordOK, StagesOf, Uploads
  <2>4. op[o].file \in File /\ op[o].key \in Keys /\ NoKey \in Keys
    BY <1>1, <2>2, <2>3, UploadKey DEF OpInv, Keys
  <2>5. op[o].stage = "manifest"
    <3>1. Part(op[o].file, 1, NoKey) \in Piece
      BY <2>4, PartsArePieces
    <3>. QED  BY <2>2, <3>1, PiecesAreNotLists
  <2>6. \A i \in 1..Length[op[o].file] : Part(op[o].file, i, op[o].key) \in stored
    BY <1>1, <2>2, <2>3, <2>5 DEF OpInv, RecordOK
  <2>7. Holds(stored, Manifest(Parts(op[o].file, op[o].key), op[o].key # NoKey), op[o].file)
    BY ONLY <2>4, <2>6, ManifestHolds
  <2>. QED  BY <2>2, <2>4, <2>5, <2>7
<1>3. CASE w # 0
  <2>1. WorkerOK(o, w)
    BY <1>1, <1>3, SdkAssumption DEF OpInv
  <2>2. Work(o) \in Seq(Piece) /\ call[l].what = Work(o)[call[l].slot]
        /\ call[l].slot \in 1..(op[o].next - 1) /\ Len(Work(o)) = Len(op[o].got)
    BY <1>1, <2>1 DEF WorkerOK
  <2>3. op[o].next <= Len(op[o].got) + 1 /\ op[o].next \in Nat /\ Len(op[o].got) \in Nat
    BY <1>1 DEF OpInv, RecordOK, TypeOK, Operation
  <2>4. call[l].what \in Piece
    BY <2>2, <2>3
  <2>. QED  BY <2>4, PiecesAreNotLists
<1>. QED  BY <1>2, <1>3

\* What is indexed is the name of a file that is there.
LEMMA IndexedIsWhole ==
  ASSUME TypeOK, NEW l \in Lane, OpInv(l[1]), call[l].at # "idle", call[l].do = "index"
  PROVE  Whole(call[l].what)
<1>1. PICK o, w : l = <<o, w>> /\ o \in Op /\ w \in 0..Pool
  BY LaneIs
<1>2. w = 0
  <2>1. CASE w # 0
    <3>1. WorkerOK(o, w)
      BY <1>1, <2>1, SdkAssumption DEF OpInv
    <3>. QED  BY <1>1, <3>1 DEF WorkerOK
  <2>. QED  BY <2>1
<1>3. l = Main(o)
  BY <1>1, <1>2 DEF Main
<1>4. op[o].stage \in {"text", "image"} /\ call[l].what = op[o].name
  BY <1>1, <1>3 DEF OpInv, MainOK
<1>5. op[o].stage \in {"text", "image"} => Uploads(o)
  BY <1>1 DEF OpInv, RecordOK, StagesOf, Uploads
<1>6. op[o].file \in File /\ op[o].name \in stored /\ Holds(stored, op[o].name, op[o].file)
  BY <1>1, <1>4, <1>5 DEF OpInv, RecordOK
<1>. QED  BY <1>4, <1>6 DEF Whole

\* More is stored, all of it whole.
LEMMA ServicesGrow ==
  ASSUME ServicesOK, stored \subseteq stored',
         \A d \in stored' \ stored : IsList(d) => \E f \in File : Holds(stored', d, f),
         \A d \in indexed' \ indexed : Whole(d), acl' = acl
  PROVE  ServicesOK'
<1>1. \A d : Whole(d) => Whole(d)'
  BY HoldsGrows DEF Whole
<1>2. ManifestsAreWhole'
  BY <1>1 DEF ServicesOK, ManifestsAreWhole, Whole
<1>. QED  BY <1>1, <1>2 DEF ServicesOK

LEMMA ServeStep ==
  ASSUME TypeOK, SearchOK, ServicesOK, \A p \in Op : OpInv(p), NEW l \in Lane, Serve(l)
  PROVE  SdkInv'
<1>1. PICK c \in Requests : c = [call[l] EXCEPT !.at = "served"]
  <2>1. call[l] \in Requests
    BY DEF TypeOK
  <2>. QED  BY <2>1 DEF Requests
<1>2. /\ call[l].at = "sent" /\ call' = [call EXCEPT ![l] = c] /\ call' \in [Lane -> Requests]
      /\ op' = op /\ router' = router /\ down' = down /\ faults' = faults /\ lost' = lost
  BY <1>1 DEF Serve, TypeOK
<1>3. /\ c.at = "served" /\ c.do = call[l].do /\ c.what = call[l].what /\ c.slot = call[l].slot
      /\ c.service = call[l].service
  BY <1>1 DEF TypeOK, Requests
<1>4. /\ stored' = IF call[l].do = "put" THEN stored \cup {call[l].what} ELSE stored
      /\ indexed' = IF call[l].do = "index" THEN indexed \cup {call[l].what} ELSE indexed
      /\ acl' = acl
      /\ effects' = [effects EXCEPT ![call[l].service] = IF call[l].do = "change" THEN @ + 1 ELSE @]
  BY DEF Serve, VerifySignature
<1>5. call[l].what \in Data /\ call[l].service \in Service
  BY DEF TypeOK, Requests
<1>6. TypeOK'
  BY <1>2, <1>4, <1>5 DEF TypeOK, RouterTypeOK, router
<1>7. SearchOK'
  BY <1>2, <1>3, SearchStays DEF router
<1>8. OpInv(l[1])
  BY LaneIs
<1>9. ServicesOK'
  <2>1. \A d \in stored' \ stored : IsList(d) => \E f \in File : Holds(stored', d, f)
    BY <1>2, <1>4, <1>8, PutsAreWhole, HoldsGrows
  <2>2. \A d \in indexed' \ indexed : Whole(d)
    BY <1>2, <1>4, <1>8, IndexedIsWhole
  <2>. QED  BY <1>4, <2>1, <2>2, ServicesGrow
<1>10. \A o \in Op : OpInv(o)'
  BY <1>2, <1>3, <1>4, RequestStays DEF TypeOK
<1>. QED  BY <1>6, <1>7, <1>9, <1>10 DEF SdkInv

\* Steps of the searches.
LEMMA SearchingStep ==
  ASSUME TypeOK, SearchOK, ServicesOK, \A p \in Op : OpInv(p), NEW l \in Lane,
         Discover(l) \/ FoundNode(l)
  PROVE  SdkInv'
<1>1. CASE Discover(l)
  <2>1. RouterTypeOK' /\ SearchOK' /\ op' = op /\ call' = call /\ network' = network
    BY <1>1, DiscoverKeepsRouter DEF Discover
  <2>2. TypeOK'
    BY <2>1 DEF TypeOK, network
  <2>3. ServicesOK'
    BY <2>1, ServicesStay
  <2>4. \A p \in Op : OpInv(p)'
    BY <2>1, Unmoved DEF network
  <2>. QED  BY <2>1, <2>2, <2>3, <2>4 DEF SdkInv
<1>2. CASE FoundNode(l)
  <2>1. /\ RouterTypeOK' /\ SearchOK' /\ call' \in [Lane -> Requests] /\ call[l].at = "search"
        /\ op' = op /\ network' = network
    BY <1>2, FoundNodeKeepsRouter DEF FoundNode
  <2>2. PICK c : /\ \E n \in Node : c = [call[l] EXCEPT !.at = "sent", !.node = n]
                 /\ call' = [call EXCEPT ![l] = c]
    BY <1>2, FoundNodeKeepsRouter
  <2>3. /\ c.at = "sent" /\ c.do = call[l].do /\ c.what = call[l].what /\ c.slot = call[l].slot
        /\ c.service = call[l].service
    BY <2>2 DEF TypeOK, Requests
  <2>4. TypeOK'
    BY <2>1 DEF TypeOK, network
  <2>5. ServicesOK'
    BY <2>1, ServicesStay
  <2>6. \A p \in Op : OpInv(p)'
    <3>1. stored \subseteq stored' /\ call \in [Lane -> Requests]
      BY <2>1 DEF network, TypeOK
    <3>. QED  BY <2>1, <2>2, <2>3, <3>1, RequestStays
  <2>. QED  BY <2>1, <2>4, <2>5, <2>6 DEF SdkInv
<1>. QED  BY <1>1, <1>2

LEMMA EnvironmentStep ==
  ASSUME TypeOK, SearchOK, ServicesOK, \A p \in Op : OpInv(p), Environment
  PROVE  SdkInv'
<1>1. RouterTypeOK' /\ SearchOK' /\ op' = op /\ call' = call /\ network' = network
  BY EnvironmentKeepsRouter DEF Environment
<1>2. TypeOK'
  BY <1>1 DEF TypeOK, network
<1>3. ServicesOK'
  BY <1>1, ServicesStay
<1>4. \A p \in Op : OpInv(p)'
  BY <1>1, Unmoved DEF network
<1>. QED  BY <1>1, <1>2, <1>3, <1>4 DEF SdkInv

\* A request that is made a second time.
LEMMA RetryStep ==
  ASSUME TypeOK, SearchOK, ServicesOK, \A p \in Op : OpInv(p), NEW l \in Lane,
         Retry(l), call[l].at \in {"sent", "served"}, faults' \in 0..MaxFaults, down' = down,
         stored' = stored, acl' = acl, indexed' = indexed, effects' = effects, lost' \in Nat
  PROVE  SdkInv'
<1>1. RouterTypeOK' /\ SearchOK' /\ call' \in [Lane -> Requests] /\ op' = op
  BY RetryKeepsRouter
<1>2. PICK c : /\ c = [call[l] EXCEPT !.at = "search", !.try = 2, !.node = NoNode]
               /\ call' = [call EXCEPT ![l] = c]
  BY RetryKeepsRouter
<1>3. /\ c.at = "search" /\ c.do = call[l].do /\ c.what = call[l].what /\ c.slot = call[l].slot
      /\ c.service = call[l].service
  BY <1>2 DEF TypeOK, Requests
<1>4. TypeOK'
  BY <1>1 DEF TypeOK
<1>5. ServicesOK'
  BY DEF ServicesOK, ManifestsAreWhole, Whole
<1>6. \A p \in Op : OpInv(p)'
  <2>1. stored \subseteq stored' /\ call \in [Lane -> Requests]
    BY DEF TypeOK
  <2>. QED  BY <1>1, <1>2, <1>3, <2>1, RequestStays
<1>. QED  BY <1>1, <1>4, <1>5, <1>6 DEF SdkInv

----------------------------------------------------------------------------
(* The end of a request.                                                   *)

\* What is common to all ends: one operation goes on with the record r.
LEMMA EndStep ==
  ASSUME TypeOK, SearchOK, ServicesOK, \A p \in Op : OpInv(p), NEW l \in Lane, NEW r \in Operation,
         call[l].at \in {"sent", "served"}, call' = [call EXCEPT ![l] = NoCall],
         op' = [op EXCEPT ![l[1]] = r], router' = router, down' = down, faults' \in 0..MaxFaults,
         stored' = stored, acl' = acl, indexed' = indexed, effects' = effects, lost' \in Nat,
         OpInv(l[1])'
  PROVE  SdkInv'
<1>1. NoCall \in Requests /\ NoCall.at = "idle"
  BY NoCallIsARequest DEF NoCall
<1>2. SearchOK' /\ call' \in [Lane -> Requests]
  BY <1>1, SearchStays DEF router
<1>3. TypeOK'
  BY <1>2, LaneIs DEF TypeOK, RouterTypeOK, router
<1>4. ServicesOK'
  BY DEF ServicesOK, ManifestsAreWhole, Whole
<1>5. \A p \in Op \ {l[1]} : OpInv(p)'
  <2>1. \A p \in Op \ {l[1]} : op'[p] = op[p]
    BY DEF TypeOK
  <2>2. \A k \in Lane : k[1] # l[1] => call'[k] = call[k]
    BY DEF TypeOK
  <2>3. l[1] \in Op /\ stored \subseteq stored'
    BY LaneIs
  <2>. QED  BY <2>1, <2>2, <2>3, OthersStay
<1>. QED  BY <1>2, <1>3, <1>4, <1>5 DEF SdkInv

\* The main flow goes on, or settles; its workers are idle.
LEMMA MainEnds ==
  ASSUME TypeOK, NEW o \in Op, OpInv(o), call[Main(o)].at # "idle", NEW r \in Operation,
         call' = [call EXCEPT ![Main(o)] = NoCall], op' = [op EXCEPT ![o] = r],
         RecordOK(o)', \A i \in 1..(r.next - 1) : r.got[i] # NoData
  PROVE  OpInv(o)'
<1>1. op[o].stage \in {"single", "manifest", "grant", "text", "image", "access", "root", "request"}
  BY DEF OpInv, MainOK
<1>2. \A w \in 1..Pool : call[<<o, w>>].at = "idle"
  BY <1>1 DEF OpInv, WorkerOK
<1>3. \A w \in 1..Pool : call'[<<o, w>>].at = "idle"
  BY <1>2, LanesOf DEF TypeOK
<1>4. call'[Main(o)].at = "idle"
  BY LanesOf DEF TypeOK, NoCall
<1>5. op'[o] = r
  BY DEF TypeOK
<1>6. Claims(o)'
  BY <1>3, <1>5 DEF Claims, Idle
<1>. QED  BY <1>3, <1>4, <1>6 DEF OpInv, MainOK, WorkerOK

\* The record of an operation whose main flow waits, and all it has got.
LEMMA MainWaits ==
  ASSUME TypeOK, NEW o \in Op, OpInv(o), call[Main(o)].at # "idle"
  PROVE  /\ op[o].stage \in {"single", "manifest", "grant", "text", "image", "access", "root", "request"}
         /\ op[o].dead = {} /\ op[o] \in Operation /\ op[o].got \in Seq(Data)
         /\ op[o].next = Len(op[o].got) + 1
         /\ \A i \in 1..(op[o].next - 1) : op[o].got[i] # NoData
         /\ RecordOK(o)
<1>1. op[o].stage \in {"single", "manifest", "grant", "text", "image", "access", "root", "request"}
  BY DEF OpInv, MainOK
<1>2. \A w \in 1..Pool : call[<<o, w>>].at = "idle"
  BY <1>1 DEF OpInv, WorkerOK
<1>3. op[o].dead = {} /\ RecordOK(o) /\ op[o] \in Operation /\ op[o].got \in Seq(Data)
  BY <1>1 DEF OpInv, RecordOK, TypeOK, Operation
<1>4. op[o].next \in Nat /\ Len(op[o].got) \in Nat
  BY <1>3 DEF Operation
<1>5. op[o].next = Len(op[o].got) + 1
  BY <1>1, <1>3, <1>4 DEF RecordOK
<1>6. \A i \in 1..(op[o].next - 1) : op[o].got[i] # NoData
  BY <1>2, <1>3 DEF OpInv, Claims, Idle
<1>. QED  BY <1>1, <1>3, <1>5, <1>6

\* It settles or goes on to the stage t, under the name d.
LEMMA RecordMovesOn ==
  ASSUME TypeOK, NEW o \in Op, OpInv(o), call[Main(o)].at # "idle", stored' = stored,
         NEW r \in Operation, op'[o] = r, r.kind = op[o].kind, r.file = op[o].file,
         r.got = op[o].got, r.next = op[o].next, r.dead = {},
         Uploads(o) => r.key = op[o].key,
         r.stage \in StagesOf(r.kind), r.stage \in {"grant", "granted", "root", "done", "bytes", "failed"},
         r.stage = "root" => op[o].stage = "access",
         Uploads(o) /\ r.stage \in {"grant", "granted", "done"} =>
           r.name \in stored /\ Holds(stored, r.name, r.file)
  PROVE  RecordOK(o)'
<1>1. /\ op[o].stage \in {"single", "manifest", "grant", "text", "image", "access", "root", "request"}
      /\ op[o].dead = {} /\ op[o] \in Operation /\ op[o].got \in Seq(Data)
      /\ op[o].next = Len(op[o].got) + 1 /\ RecordOK(o)
  BY MainWaits
<1>2. ~(r.next <= Len(r.got)) /\ r.next <= Len(r.got) + 1 /\ r.next..Len(r.got) = {}
  BY <1>1
<1>3. Uploads(o)' <=> Uploads(o)
  BY DEF Uploads
<1>4. r.stage = "root" => r.next = 1
  BY <1>1 DEF RecordOK
<1>. QED  BY <1>1, <1>2, <1>3, <1>4 DEF RecordOK

\* What the main flow waits for, stage by stage.
LEMMA MainAsks ==
  ASSUME TypeOK, NEW o \in Op, OpInv(o), call[Main(o)].at = "served"
  PROVE  LET c == call[Main(o)]
             r == op[o]
         IN  /\ c.what \in Data
             /\ r.stage = "single" => /\ r.kind = "upload" /\ c.what \in stored
                                      /\ c.what = Part(r.file, 1, NoKey)
             /\ r.stage = "manifest" => /\ r.kind \in {"upload", "private"} /\ c.what \in stored
                                        /\ c.what = Manifest(Parts(r.file, r.key), r.key # NoKey)
             /\ r.stage \in {"grant", "text", "image"} => r.kind = "private"
             /\ r.stage = "access" => r.kind = "read" /\ c.what = r.name
             /\ r.stage = "root" => r.kind \in {"download", "read"} /\ c.what = r.name
             /\ r.stage = "request" => r.kind \notin {"upload", "private", "download", "read", "none"}
<1>1. call[Main(o)].what \in Data
  BY LanesOf DEF TypeOK, Requests
<1>2. MainOK(o) /\ op[o].stage \in StagesOf(op[o].kind) /\ op[o].kind \in Kind
  BY DEF OpInv, RecordOK, TypeOK, Operation
<1>3. MainOK(o)
  BY <1>2
<1>. QED  BY <1>1, <1>2 DEF MainOK, StagesOf

\* The single part or the manifest of an upload is there.
LEMMA PutResolved ==
  ASSUME TypeOK, ServicesOK, NEW o \in Op, OpInv(o), call[Main(o)].at = "served",
         op[o].stage \in {"single", "manifest"}, stored' = stored,
         call' = [call EXCEPT ![Main(o)] = NoCall],
         op' = [op EXCEPT ![o] = MainResolved(o, call[Main(o)].what)]
  PROVE  MainResolved(o, call[Main(o)].what) \in Operation /\ OpInv(o)'
<1>1. PICK d \in Data : d = call[Main(o)].what
  BY MainAsks
<1>2. PICK t \in {"done", "grant"} :
        t = IF op[o].stage = "manifest" /\ op[o].kind = "private" THEN "grant" ELSE "done"
  OBVIOUS
<1>3. PICK r : r = [op[o] EXCEPT !.stage = t, !.name = d]
  OBVIOUS
<1>4. MainResolved(o, d) = r
  BY <1>2, <1>3 DEF MainResolved
<1>5. /\ op[o].dead = {} /\ op[o] \in Operation /\ RecordOK(o)
      /\ \A i \in 1..(op[o].next - 1) : op[o].got[i] # NoData
  BY MainWaits
<1>6. r \in Operation
  BY <1>2, <1>3, <1>5 DEF Operation, Stage
<1>7. /\ op'[o] = r /\ r.kind = op[o].kind /\ r.stage = t /\ r.file = op[o].file /\ r.name = d
      /\ r.key = op[o].key /\ r.got = op[o].got /\ r.dead = {} /\ r.next = op[o].next
  BY <1>1, <1>3, <1>4, <1>5 DEF TypeOK, Operation
<1>8. Uploads(o) /\ op[o].kind \in {"upload", "private"}
  BY MainAsks DEF Uploads
<1>9. op[o].file \in File /\ op[o].key \in Keys /\ NoKey \in Keys
  BY <1>5, <1>8, UploadKey DEF Keys
<1>10. r.name \in stored /\ Holds(stored, r.name, r.file)
  <2>1. CASE op[o].stage = "single"
    <3>1. d = Part(op[o].file, 1, NoKey) /\ d \in stored /\ Length[op[o].file] = 1
      BY <1>1, <1>5, <1>8, <2>1, MainAsks DEF RecordOK
    <3>2. ~IsList(d)
      BY <1>9, <3>1, PartsArePieces, PiecesAreNotLists
    <3>. QED  BY <1>7, <3>1, <3>2 DEF Holds
  <2>2. CASE op[o].stage = "manifest"
    <3>1. d = Manifest(Parts(op[o].file, op[o].key), op[o].key # NoKey) /\ d \in stored
      BY <1>1, <2>2, MainAsks
    <3>2. \A i \in 1..Length[op[o].file] : Part(op[o].file, i, op[o].key) \in stored
      BY <1>5, <1>8, <2>2 DEF RecordOK
    <3>. QED  BY <1>7, <1>9, <3>1, <3>2, ManifestHolds
  <2>. QED  BY <2>1, <2>2
<1>11. r.stage \in StagesOf(r.kind)
  BY <1>2, <1>7, <1>8 DEF StagesOf
<1>12. RecordOK(o)'
  BY <1>2, <1>6, <1>7, <1>10, <1>11, RecordMovesOn
<1>13. OpInv(o)'
  BY <1>1, <1>4, <1>5, <1>6, <1>7, <1>12, MainEnds
<1>. QED  BY <1>1, <1>4, <1>6, <1>13

\* The main flow goes to the stage t, and nothing else changes but perhaps
\* the key of a file that is read.
LEMMA StageMoves ==
  ASSUME TypeOK, NEW o \in Op, OpInv(o), call[Main(o)].at # "idle", stored' = stored,
         call' = [call EXCEPT ![Main(o)] = NoCall], NEW t \in Stage, NEW k \in Keys, NEW r,
         r = [op[o] EXCEPT !.stage = t, !.key = k], op' = [op EXCEPT ![o] = r],
         Uploads(o) => k = op[o].key,
         t \in StagesOf(op[o].kind), t \in {"granted", "root", "done", "bytes", "failed"},
         t = "root" => op[o].stage = "access",
         Uploads(o) /\ t \in {"granted", "done"} => op[o].stage \in {"grant", "text", "image"}
  PROVE  r \in Operation /\ OpInv(o)'
<1>1. /\ op[o].dead = {} /\ op[o] \in Operation /\ RecordOK(o)
      /\ \A i \in 1..(op[o].next - 1) : op[o].got[i] # NoData
  BY MainWaits
<1>2. r \in Operation
  BY <1>1 DEF Operation, Keys
<1>3. /\ op'[o] = r /\ r.kind = op[o].kind /\ r.stage = t /\ r.file = op[o].file
      /\ r.name = op[o].name /\ r.key = k /\ r.got = op[o].got /\ r.dead = {} /\ r.next = op[o].next
  BY <1>1 DEF TypeOK, Operation
<1>4. Uploads(o) /\ t \in {"granted", "done"} => r.name \in stored /\ Holds(stored, r.name, r.file)
  BY <1>1, <1>3 DEF RecordOK
<1>5. RecordOK(o)'
  <2>1. /\ r.stage \in StagesOf(r.kind) /\ r.stage \in {"grant", "granted", "root", "done", "bytes", "failed"}
        /\ r.stage = "root" => op[o].stage = "access"
        /\ Uploads(o) => r.key = op[o].key
        /\ Uploads(o) /\ r.stage \in {"grant", "granted", "done"} =>
             r.name \in stored /\ Holds(stored, r.name, r.file)
    <3>1. t \notin {"grant"}
      OBVIOUS
    <3>. QED  BY <1>3, <1>4, <3>1
  <2>. QED  BY <1>2, <1>3, <2>1, RecordMovesOn
<1>6. \A i \in 1..(r.next - 1) : r.got[i] # NoData
  BY <1>1, <1>3
<1>7. OpInv(o)'
  BY ONLY TypeOK, o \in Op, OpInv(o), call[Main(o)].at # "idle", <1>2, <1>5, <1>6, MainEnds,
          call' = [call EXCEPT ![Main(o)] = NoCall], op' = [op EXCEPT ![o] = r]
<1>. QED  BY <1>2, <1>7

\* The request of a main flow fails.
LEMMA MainRejectedOK ==
  ASSUME TypeOK, NEW o \in Op, OpInv(o), call[Main(o)].at # "idle", stored' = stored,
         call' = [call EXCEPT ![Main(o)] = NoCall], op' = [op EXCEPT ![o] = MainRejected(o)]
  PROVE  MainRejected(o) \in Operation /\ OpInv(o)'
<1>1. PICK t \in {"done", "failed"} : t = IF op[o].stage = "text" THEN "done" ELSE "failed"
  OBVIOUS
<1>2. op[o] \in Operation /\ RecordOK(o)
      /\ op[o].stage \in {"single", "manifest", "grant", "text", "image", "access", "root", "request"}
  BY MainWaits
<1>3. MainRejected(o) = [op[o] EXCEPT !.stage = t]
  BY <1>1, <1>2 DEF MainRejected, Operation
<1>4. [op[o] EXCEPT !.stage = t] = [op[o] EXCEPT !.stage = t, !.key = op[o].key]
  BY <1>2 DEF Operation
<1>5. t \in StagesOf(op[o].kind) /\ t \in Stage /\ op[o].key \in Keys
  BY <1>1, <1>2 DEF RecordOK, StagesOf, Stage, Operation, Keys
<1>. QED  BY <1>1, <1>3, <1>4, <1>5, StageMoves

\* A file of one part has arrived: it is all that is got.
LEMMA SinglePartArrives ==
  ASSUME TypeOK, NEW o \in Op, OpInv(o), call[Main(o)].at = "served", op[o].stage = "root",
         stored' = stored, call' = [call EXCEPT ![Main(o)] = NoCall], NEW d \in Piece, NEW r,
         r = [op[o] EXCEPT !.stage = "done", !.got = <<d>>, !.next = 2],
         op' = [op EXCEPT ![o] = r]
  PROVE  r \in Operation /\ OpInv(o)'
<1>1. op[o].dead = {} /\ op[o] \in Operation /\ op[o].kind \in {"download", "read"}
  BY MainWaits, MainAsks
<1>2. PICK g \in Seq(Data) : g = <<d>> /\ Len(g) = 1 /\ g[1] # NoData
  <2>1. d \in Data /\ d # NoData
    BY PiecesAreNotLists DEF Data
  <2>2. <<d>> \in Seq(Data)
    BY <2>1
  <2>3. Len(<<d>>) = 1 /\ <<d>>[1] = d
    OBVIOUS
  <2>. QED  BY <2>1, <2>2, <2>3
<1>3. r \in Operation
  <2>1. 2 \in Nat \ {0} /\ "done" \in Stage
    BY DEF Stage
  <2>. QED  BY <1>1, <1>2, <2>1 DEF Operation
<1>4. /\ op'[o] = r /\ r.kind = op[o].kind /\ r.stage = "done" /\ r.got = g
      /\ r.next = 2 /\ r.dead = {}
  BY <1>1, <1>2 DEF TypeOK, Operation
<1>5. r.stage \in StagesOf(r.kind) /\ ~Uploads(o)'
  BY <1>1, <1>4 DEF StagesOf, Uploads
<1>6. RecordOK(o)'
  <2>1. ~(r.next <= Len(r.got)) /\ r.next <= Len(r.got) + 1 /\ r.next..Len(r.got) = {}
    BY <1>2, <1>4
  <2>. QED  BY <1>4, <1>5, <2>1 DEF RecordOK
<1>7. \A i \in 1..(r.next - 1) : r.got[i] # NoData
  BY <1>2, <1>4
<1>. QED  BY <1>3, <1>6, <1>7, MainEnds

\* A manifest has arrived: its parts are to be fetched.
LEMMA ManifestArrives ==
  ASSUME TypeOK, NEW o \in Op, OpInv(o), call[Main(o)].at = "served", op[o].stage = "root",
         stored' = stored, call' = [call EXCEPT ![Main(o)] = NoCall],
         NEW d, d = op[o].name, IsList(d), NEW r,
         r = [op[o] EXCEPT !.stage = "pool", !.got = Blank(Len(d.parts))],
         op' = [op EXCEPT ![o] = r]
  PROVE  r \in Operation /\ OpInv(o)'
<1>1. /\ op[o].dead = {} /\ op[o] \in Operation /\ op[o].kind \in {"download", "read"}
      /\ RecordOK(o)
  BY MainWaits, MainAsks
<1>2. op[o].next = 1
  BY <1>1 DEF RecordOK
<1>3. d.parts \in Seq(Piece) /\ Len(d.parts) \in Nat
  <2>1. d \in List
    BY <1>1, PiecesAreNotLists DEF Operation
  <2>. QED  BY <2>1 DEF List
<1>4. PICK g \in Seq(Data) : /\ g = Blank(Len(d.parts)) /\ Len(g) = Len(d.parts)
                             /\ \A i \in 1..Len(g) : g[i] = NoData
  BY <1>3, BlankIs
<1>5. r \in Operation
  BY <1>1, <1>4 DEF Operation, Stage
<1>6. /\ op'[o] = r /\ r.kind = op[o].kind /\ r.stage = "pool" /\ r.got = g
      /\ r.next = 1 /\ r.dead = {} /\ r.name = d
  BY <1>1, <1>2, <1>4 DEF TypeOK, Operation
<1>7. r.stage \in StagesOf(r.kind) /\ ~Uploads(o)' /\ Fetches(o)'
  BY <1>1, <1>6 DEF StagesOf, Uploads, Fetches
<1>8. Work(o)' = d.parts
  BY <1>1, <1>6 DEF Work
<1>9. RecordOK(o)'
  <2>1. Len(g) \in Nat /\ r.next <= Len(r.got) + 1 /\ r.stage \notin {"access", "root", "manifest"}
    BY <1>6
  <2>2. Work(o)' \in Seq(Piece) /\ Len(r.got) = Len(Work(o)')
    BY <1>3, <1>4, <1>6, <1>8
  <2>3. \A i \in r.next..Len(r.got) : r.got[i] = NoData
    BY <1>4, <1>6
  <2>. QED  BY <1>6, <1>7, <2>1, <2>2, <2>3 DEF RecordOK
<1>10. \A i \in 1..(r.next - 1) : r.got[i] # NoData
  BY <1>6
<1>. QED  BY <1>5, <1>9, <1>10, MainEnds

LEMMA RootResolved ==
  ASSUME TypeOK, NEW o \in Op, OpInv(o), call[Main(o)].at = "served", op[o].stage = "root",
         stored' = stored, call' = [call EXCEPT ![Main(o)] = NoCall],
         op' = [op EXCEPT ![o] = MainResolved(o, call[Main(o)].what)]
  PROVE  MainResolved(o, call[Main(o)].what) \in Operation /\ OpInv(o)'
<1>1. PICK d \in Data : d = call[Main(o)].what
  BY MainAsks
<1>2. d = op[o].name /\ op[o].kind \in {"download", "read"} /\ op[o] \in Operation
  BY <1>1, MainAsks, MainWaits
<1>3. PICK r : r = MainResolved(o, d)
  OBVIOUS
<1>4. CASE Recognised(d, op[o].kind = "read")
  <2>1. r = [op[o] EXCEPT !.stage = "pool", !.got = Blank(Len(d.parts))]
    BY <1>2, <1>3, <1>4 DEF MainResolved
  <2>2. IsList(d)
    BY <1>4 DEF Recognised
  <2>. QED  BY <1>1, <1>2, <1>3, <2>1, <2>2, ManifestArrives
<1>5. ASSUME NEW t \in {"bytes", "failed"}, r = [op[o] EXCEPT !.stage = t],
             t = "bytes" => op[o].kind = "download"
      PROVE  r \in Operation /\ OpInv(o)'
  <2>1. r = [op[o] EXCEPT !.stage = t, !.key = op[o].key] /\ op[o].key \in Keys /\ ~Uploads(o)
    BY <1>2, <1>5 DEF Operation, Keys, Uploads
  <2>2. t \in StagesOf(op[o].kind) /\ t \in Stage
    BY <1>2, <1>5 DEF StagesOf, Stage
  <2>. QED  BY <1>1, <1>3, <2>1, <2>2, StageMoves
<1>6. CASE op[o].kind = "download" /\ ~Recognised(d, FALSE)
  <2>1. CASE IsList(d)
    <3>1. r = [op[o] EXCEPT !.stage = "bytes"]
      BY <1>2, <1>3, <1>6, <2>1 DEF MainResolved
    <3>. QED  BY <1>1, <1>3, <1>5, <1>6, <3>1
  <2>2. CASE ~IsList(d)
    <3>1. r = [op[o] EXCEPT !.stage = "done", !.got = <<d>>, !.next = 2]
      BY <1>2, <1>3, <1>6, <2>2 DEF MainResolved
    <3>2. d \in Piece
      BY <2>2, PiecesAreNotLists DEF Data
    <3>. QED  BY <1>1, <1>3, <3>1, <3>2, SinglePartArrives
  <2>. QED  BY <2>1, <2>2
<1>7. CASE op[o].kind = "read" /\ ~Recognised(d, TRUE)
  <2>1. CASE Decrypts(o, d)
    <3>1. r = [op[o] EXCEPT !.stage = "done", !.got = <<DecryptData(d)>>, !.next = 2]
      BY <1>2, <1>3, <1>7, <2>1 DEF MainResolved
    <3>2. DecryptData(d) \in Piece
      BY <2>1, PiecesAreNotLists DEF Data, Decrypts
    <3>. QED  BY <1>1, <1>3, <3>1, <3>2, SinglePartArrives
  <2>2. CASE ~Decrypts(o, d)
    <3>1. r = [op[o] EXCEPT !.stage = "failed"]
      BY <1>2, <1>3, <1>7, <2>2 DEF MainResolved
    <3>. QED  BY <1>1, <1>3, <1>5, <3>1
  <2>. QED  BY <2>1, <2>2
<1>8. (op[o].kind = "read") \in BOOLEAN /\ (op[o].kind = "download" => ~(op[o].kind = "read"))
  OBVIOUS
<1>9. \/ Recognised(d, op[o].kind = "read")
      \/ op[o].kind = "download" /\ ~Recognised(d, FALSE)
      \/ op[o].kind = "read" /\ ~Recognised(d, TRUE)
  BY <1>2 DEF Recognised
<1>. QED  BY <1>1, <1>3, <1>4, <1>6, <1>7, <1>9

LEMMA MainResolvedOK ==
  ASSUME TypeOK, ServicesOK, NEW o \in Op, OpInv(o), call[Main(o)].at = "served",
         stored' = stored, call' = [call EXCEPT ![Main(o)] = NoCall],
         op' = [op EXCEPT ![o] = MainResolved(o, call[Main(o)].what)]
  PROVE  MainResolved(o, call[Main(o)].what) \in Operation /\ OpInv(o)'
<1>1. PICK d \in Data : d = call[Main(o)].what
  BY MainAsks
<1>2. PICK r : r = MainResolved(o, d)
  OBVIOUS
<1>3. op[o] \in Operation /\ op[o].key \in Keys
  BY DEF TypeOK, Operation, Keys
<1>4. op[o].stage \in {"single", "manifest", "grant", "text", "image", "access", "root", "request"}
  BY MainWaits
<1>5. ASSUME NEW t \in {"granted", "done", "failed"}, r = [op[o] EXCEPT !.stage = t],
             t \in StagesOf(op[o].kind),
             Uploads(o) /\ t \in {"granted", "done"} => op[o].stage \in {"grant", "text", "image"}
      PROVE  r \in Operation /\ OpInv(o)'
  <2>1. r = [op[o] EXCEPT !.stage = t, !.key = op[o].key] /\ t \in Stage
    BY <1>3, <1>5 DEF Operation, Stage
  <2>. QED  BY <1>1, <1>2, <1>3, <1>5, <2>1, StageMoves
<1>6. CASE op[o].stage \in {"single", "manifest"}
  BY <1>6, PutResolved
<1>7. CASE op[o].stage = "root"
  BY <1>7, RootResolved
<1>8. CASE op[o].stage = "grant"
  <2>1. r = [op[o] EXCEPT !.stage = "granted"]
    BY <1>2, <1>8 DEF MainResolved
  <2>2. "granted" \in StagesOf(op[o].kind)
    BY <1>8, MainAsks DEF StagesOf
  <2>. QED  BY <1>1, <1>2, <1>5, <1>8, <2>1, <2>2
<1>9. CASE op[o].stage \in {"text", "image", "request"}
  <2>1. r = [op[o] EXCEPT !.stage = "done"]
    BY <1>2, <1>9 DEF MainResolved
  <2>2. "done" \in StagesOf(op[o].kind)
    BY <1>9, MainAsks DEF StagesOf
  <2>3. Uploads(o) => op[o].stage \in {"text", "image"}
    BY <1>9, MainAsks DEF Uploads
  <2>. QED  BY <1>1, <1>2, <1>5, <2>1, <2>2, <2>3
<1>10. CASE op[o].stage = "access"
  <2>. DEFINE keys == {a \in acl : a.name = d}
  <2>1. op[o].kind = "read" /\ ~Uploads(o)
    BY <1>10, MainAsks DEF Uploads
  <2>2. {"root", "failed"} \subseteq StagesOf(op[o].kind)
    BY <2>1 DEF StagesOf
  <2>3. CASE keys = {}
    <3>1. r = [op[o] EXCEPT !.stage = "failed"]
      BY <1>2, <1>10, <2>3 DEF MainResolved
    <3>. QED  BY <1>1, <1>2, <1>5, <2>1, <2>2, <3>1
  <2>4. CASE keys # {}
    <3>1. PICK k \in Keys : k = (CHOOSE a \in keys : TRUE).key
      BY <2>4 DEF TypeOK, Keys
    <3>2. r = [op[o] EXCEPT !.stage = "root", !.key = k]
      BY <1>2, <1>10, <2>4, <3>1 DEF MainResolved
    <3>3. "root" \in Stage
      BY DEF Stage
    <3>. QED  BY <1>1, <1>2, <1>10, <2>1, <2>2, <3>2, <3>3, StageMoves
  <2>. QED  BY <2>3, <2>4
<1>. QED  BY <1>4, <1>6, <1>7, <1>8, <1>9, <1>10

\* What a busy worker's request is about.
LEMMA WorkerAsks ==
  ASSUME TypeOK, NEW o \in Op, NEW w \in 1..Pool, OpInv(o), call[<<o, w>>].at # "idle"
  PROVE  LET c == call[<<o, w>>]
             r == op[o]
         IN  /\ RecordOK(o) /\ MainOK(o) /\ (\A v \in 1..Pool : WorkerOK(o, v)) /\ Claims(o)
             /\ r \in Operation /\ r.got \in Seq(Data) /\ r.next \in Nat
             /\ c.slot \in Nat /\ c.slot \in 1..(r.next - 1) /\ c.slot \in 1..Len(r.got)
             /\ r.got[c.slot] = NoData /\ c.what \in Piece
             /\ r.stage \in {"pool", "bytes", "failed"} /\ (Uploads(o) \/ Fetches(o))
             /\ Uploads(o) => /\ c.what = Part(r.file, c.slot, r.key)
                              /\ c.at = "served" => c.what \in stored
             /\ call[Main(o)].at = "idle" /\ w \notin r.dead
<1>1. RecordOK(o) /\ MainOK(o) /\ (\A v \in 1..Pool : WorkerOK(o, v)) /\ Claims(o)
  BY DEF OpInv
<1>2. op[o] \in Operation /\ op[o].got \in Seq(Data) /\ op[o].next \in Nat
      /\ call[<<o, w>>].slot \in Nat
  BY LanesOf DEF TypeOK, Operation, Requests
<1>3. WorkerOK(o, w)
  BY <1>1
<1>4. call[<<o, w>>].slot \in 1..Len(op[o].got)
  <2>1. call[<<o, w>>].slot \in 1..(op[o].next - 1)
    BY <1>3 DEF WorkerOK
  <2>2. op[o].next <= Len(op[o].got) + 1 /\ Len(op[o].got) \in Nat
    BY <1>1, <1>2 DEF RecordOK
  <2>. QED  BY ONLY <1>2, <2>1, <2>2
<1>5. call[<<o, w>>].what \in Piece
  BY <1>3, <1>4 DEF WorkerOK
<1>6. ASSUME Uploads(o)
      PROVE  call[<<o, w>>].what = Part(op[o].file, call[<<o, w>>].slot, op[o].key)
  <2>1. op[o].file \in File /\ op[o].key \in Keys /\ Work(o) = Parts(op[o].file, op[o].key)
    BY <1>1, <1>6, UploadKey
  <2>2. /\ Len(Parts(op[o].file, op[o].key)) = Length[op[o].file]
        /\ \A i \in 1..Length[op[o].file] :
             Parts(op[o].file, op[o].key)[i] = Part(op[o].file, i, op[o].key)
    BY <2>1, PartsArePieces
  <2>. QED  BY <1>3, <1>4, <2>1, <2>2 DEF WorkerOK
<1>7. call[Main(o)].at = "idle"
  BY <1>1, <1>3 DEF WorkerOK, MainOK
<1>. QED  BY <1>1, <1>2, <1>3, <1>4, <1>5, <1>6, <1>7 DEF WorkerOK

\* A worker's request succeeds: its part is kept under its index.
LEMMA WorkerResolvedOK ==
  ASSUME TypeOK, NEW o \in Op, NEW w \in 1..Pool, OpInv(o), call[<<o, w>>].at = "served",
         stored' = stored, call' = [call EXCEPT ![<<o, w>>] = NoCall],
         op' = [op EXCEPT ![o] = WorkerResolved(<<o, w>>)]
  PROVE  WorkerResolved(<<o, w>>) \in Operation /\ OpInv(o)'
<1>1. PICK i : i = call[<<o, w>>].slot
  OBVIOUS
<1>2. /\ RecordOK(o) /\ MainOK(o) /\ (\A v \in 1..Pool : WorkerOK(o, v)) /\ Claims(o)
      /\ op[o] \in Operation /\ op[o].got \in Seq(Data) /\ op[o].next \in Nat
      /\ i \in Nat /\ i \in 1..(op[o].next - 1) /\ i \in 1..Len(op[o].got)
      /\ op[o].stage \in {"pool", "bytes", "failed"} /\ (Uploads(o) \/ Fetches(o))
      /\ call[Main(o)].at = "idle"
  BY <1>1, WorkerAsks
<1>3. call[<<o, w>>].what \in Piece
  BY WorkerAsks
<1>4. PICK x \in Piece :
        /\ x = IF op[o].kind = "read" THEN DecryptData(call[<<o, w>>].what) ELSE call[<<o, w>>].what
        /\ Uploads(o) => x = Part(op[o].file, i, op[o].key) /\ x \in stored
  BY <1>1, <1>3, PiecesAreNotLists, WorkerAsks DEF Uploads
<1>5. x \in Data /\ x # NoData
  BY PiecesAreNotLists DEF Data
<1>6. PICK g \in Seq(Data) : g = [op[o].got EXCEPT ![i] = x] /\ Len(g) = Len(op[o].got)
                             /\ \A j \in 1..Len(g) : g[j] = IF j = i THEN x ELSE op[o].got[j]
  <2>. DEFINE q == op[o].got
  <2>1. q \in Seq(Data) /\ i \in 1..Len(q)
    BY <1>2
  <2>. HIDE DEF q
  <2>2. /\ [q EXCEPT ![i] = x] \in Seq(Data) /\ Len([q EXCEPT ![i] = x]) = Len(q)
        /\ \A j \in 1..Len(q) : [q EXCEPT ![i] = x][j] = IF j = i THEN x ELSE q[j]
    BY <1>5, <2>1, ExceptSeq
  <2>. QED  BY <2>2 DEF q
<1>7. PICK r : r = [op[o] EXCEPT !.got = g]
  OBVIOUS
<1>8. WorkerResolved(<<o, w>>) = r
  <2>1. WorkerResolved(<<o, w>>) = [op[o] EXCEPT !.got[i] = x]
    BY <1>1, <1>4 DEF WorkerResolved
  <2>. QED  BY <1>2, <1>6, <1>7, <2>1 DEF Operation
<1>9. r \in Operation
  BY <1>2, <1>6, <1>7 DEF Operation
<1>10. /\ op'[o] = r /\ r.kind = op[o].kind /\ r.stage = op[o].stage /\ r.file = op[o].file
       /\ r.name = op[o].name /\ r.key = op[o].key /\ r.got = g /\ r.dead = op[o].dead
       /\ r.next = op[o].next
  BY <1>2, <1>7, <1>8 DEF TypeOK, Operation
<1>11. Work(o)' = Work(o) /\ (Uploads(o)' <=> Uploads(o)) /\ (Fetches(o)' <=> Fetches(o))
  BY <1>10 DEF Work, Uploads, Fetches
<1>12. RecordOK(o)'
  <2>1. \A j \in op[o].next..Len(g) : j \in 1..Len(g) /\ j # i
    BY <1>2, <1>6
  <2>2. \A j \in op[o].next..Len(g) : g[j] = NoData
    BY <1>2, <1>6, <2>1 DEF RecordOK
  <2>3. Uploads(o) => \A j \in 1..Len(g) : g[j] # NoData =>
          g[j] = Part(op[o].file, j, op[o].key) /\ g[j] \in stored
    <3>1. SUFFICES ASSUME Uploads(o), NEW j \in 1..Len(g), g[j] # NoData
                   PROVE  g[j] = Part(op[o].file, j, op[o].key) /\ g[j] \in stored
      OBVIOUS
    <3>2. CASE j = i
      BY ONLY <1>4, <1>6, <3>1, <3>2
    <3>3. CASE j # i
      <4>1. g[j] = op[o].got[j] /\ j \in 1..Len(op[o].got)
        BY ONLY <1>6, <3>1, <3>3
      <4>. QED  BY ONLY <1>2, <3>1, <4>1 DEF RecordOK
    <3>. QED  BY <3>2, <3>3
  <2>4. /\ op[o].stage \in StagesOf(op[o].kind)
        /\ op[o].dead # {} => op[o].stage \in {"bytes", "failed"}
        /\ op[o].next <= Len(g) + 1
        /\ Uploads(o) => /\ op[o].file \in File
                         /\ op[o].key = (IF op[o].kind = "upload" THEN NoKey ELSE o)
    BY <1>2, <1>6 DEF RecordOK
  <2>5. Work(o) \in Seq(Piece) /\ Len(g) = Len(Work(o))
    BY <1>2, <1>6 DEF WorkerOK
  <2>6. op[o].stage \notin {"access", "root", "manifest", "single", "grant", "granted", "text", "image", "done"}
    BY <1>2
  <2>. QED  BY ONLY <1>2, <1>10, <1>11, <2>2, <2>3, <2>4, <2>5, <2>6, stored' = stored DEF RecordOK
<1>13. call'[<<o, w>>].at = "idle" /\ \A v \in 1..Pool : v # w => call'[<<o, v>>] = call[<<o, v>>]
  BY LanesOf DEF TypeOK, NoCall
<1>14. MainOK(o)'
  <2>1. call'[Main(o)].at = "idle"
    BY <1>2, LanesOf DEF TypeOK, NoCall
  <2>. QED  BY <2>1 DEF MainOK, Main
<1>15. ASSUME NEW v \in 1..Pool
       PROVE  WorkerOK(o, v)'
  <2>1. CASE v = w \/ call[<<o, v>>].at = "idle"
    BY <1>13, <2>1 DEF WorkerOK
  <2>2. CASE v # w /\ call[<<o, v>>].at # "idle"
    <3>1. call[<<o, v>>].slot # i /\ call[<<o, v>>].slot \in 1..Len(g)
      <4>1. call[<<o, v>>].slot \in 1..Len(op[o].got)
        BY <2>2, WorkerAsks
      <4>. QED  BY <1>1, <1>2, <1>6, <2>2, <4>1 DEF Claims, Idle
    <3>2. g[call[<<o, v>>].slot] = op[o].got[call[<<o, v>>].slot]
      BY <1>6, <3>1
    <3>3. WorkerOK(o, v) /\ call'[<<o, v>>] = call[<<o, v>>] /\ Len(g) = Len(op[o].got)
      BY <1>2, <1>6, <1>13, <2>2
    <3>. QED  BY ONLY <1>10, <1>11, <2>2, <3>2, <3>3, stored' = stored DEF WorkerOK
  <2>. QED  BY <2>1, <2>2
<1>16. Claims(o)'
  <2>1. ASSUME NEW j \in 1..(op[o].next - 1)
        PROVE  \/ g[j] # NoData
               \/ \E v \in 1..Pool : call'[<<o, v>>].at # "idle" /\ call'[<<o, v>>].slot = j
               \/ op[o].dead # {} /\ op[o].stage \in {"bytes", "failed"}
    <3>1. j \in 1..Len(g)
      BY <1>2, <1>6 DEF RecordOK
    <3>2. CASE j = i
      BY <1>5, <1>6, <3>1, <3>2
    <3>3. CASE j # i
      <4>1. g[j] = op[o].got[j]
        BY <1>6, <3>1, <3>3
      <4>2. \A v \in 1..Pool : call[<<o, v>>].slot = j => call'[<<o, v>>] = call[<<o, v>>]
        BY <1>1, <1>13, <3>3
      <4>3. \/ op[o].got[j] # NoData
            \/ \E v \in 1..Pool : call[<<o, v>>].at # "idle" /\ call[<<o, v>>].slot = j
            \/ op[o].dead # {} /\ op[o].stage \in {"bytes", "failed"}
        BY <1>2 DEF Claims, Idle
      <4>. QED  BY <4>1, <4>2, <4>3
    <3>. QED  BY <3>2, <3>3
  <2>2. \A v, u \in 1..Pool :
          (/\ call'[<<o, v>>].at # "idle" /\ call'[<<o, u>>].at # "idle"
           /\ call'[<<o, v>>].slot = call'[<<o, u>>].slot) => v = u
    BY <1>2, <1>13 DEF Claims, Idle
  <2>. QED  BY <1>10, <2>1, <2>2 DEF Claims, Idle
<1>. QED  BY <1>8, <1>9, <1>12, <1>14, <1>15, <1>16 DEF OpInv

\* A worker's request fails, and with it the operation, if it has not before.
LEMMA WorkerRejectedOK ==
  ASSUME TypeOK, NEW o \in Op, NEW w \in 1..Pool, OpInv(o), call[<<o, w>>].at # "idle",
         stored' = stored, call' = [call EXCEPT ![<<o, w>>] = NoCall],
         op' = [op EXCEPT ![o] = WorkerRejected(<<o, w>>)]
  PROVE  WorkerRejected(<<o, w>>) \in Operation /\ OpInv(o)'
<1>1. /\ RecordOK(o) /\ MainOK(o) /\ (\A v \in 1..Pool : WorkerOK(o, v)) /\ Claims(o)
      /\ op[o] \in Operation /\ op[o].stage \in {"pool", "bytes", "failed"}
      /\ (Uploads(o) \/ Fetches(o)) /\ call[Main(o)].at = "idle"
  BY WorkerAsks
<1>2. PICK t \in {"bytes", "failed"} :
        t = IF op[o].stage = "pool" THEN (IF op[o].kind = "download" THEN "bytes" ELSE "failed")
            ELSE op[o].stage
  BY <1>1
<1>3. PICK r : r = [op[o] EXCEPT !.dead = op[o].dead \cup {w}, !.stage = t]
  OBVIOUS
<1>4. WorkerRejected(<<o, w>>) = r
  BY <1>1, <1>2, <1>3 DEF WorkerRejected, Operation
<1>5. r \in Operation
  <2>1. op[o].dead \cup {w} \in SUBSET (1..Pool) /\ t \in Stage
    BY <1>1 DEF Operation, Stage
  <2>. QED  BY <1>1, <1>3, <2>1 DEF Operation
<1>6. /\ op'[o] = r /\ r.kind = op[o].kind /\ r.stage = t /\ r.file = op[o].file
      /\ r.name = op[o].name /\ r.key = op[o].key /\ r.got = op[o].got
      /\ r.dead = op[o].dead \cup {w} /\ r.next = op[o].next
  BY <1>1, <1>3, <1>4 DEF TypeOK, Operation
<1>7. Work(o)' = Work(o) /\ (Uploads(o)' <=> Uploads(o)) /\ (Fetches(o)' <=> Fetches(o))
  BY <1>6 DEF Work, Uploads, Fetches
<1>8. RecordOK(o)'
  <2>1. t \in StagesOf(op[o].kind)
    BY <1>1, <1>2 DEF RecordOK, StagesOf, Uploads, Fetches
  <2>. QED  BY <1>1, <1>6, <1>7, <2>1 DEF RecordOK
<1>9. call'[<<o, w>>].at = "idle" /\ \A v \in 1..Pool : v # w => call'[<<o, v>>] = call[<<o, v>>]
  BY LanesOf DEF TypeOK, NoCall
<1>10. MainOK(o)'
  <2>1. call'[Main(o)].at = "idle"
    BY <1>1, LanesOf DEF TypeOK, NoCall
  <2>. QED  BY <2>1 DEF MainOK, Main
<1>11. \A v \in 1..Pool : WorkerOK(o, v)'
  BY <1>1, <1>6, <1>7, <1>9 DEF WorkerOK
<1>12. Claims(o)'
  <2>1. \A v \in 1..Pool : call'[<<o, v>>].at # "idle" => call'[<<o, v>>] = call[<<o, v>>]
    BY ONLY <1>9
  <2>2. \A v, u \in 1..Pool :
          (/\ call'[<<o, v>>].at # "idle" /\ call'[<<o, u>>].at # "idle"
           /\ call'[<<o, v>>].slot = call'[<<o, u>>].slot) => v = u
    BY ONLY <1>1, <2>1 DEF Claims, Idle
  <2>3. op'[o].dead # {} /\ op'[o].stage \in {"bytes", "failed"}
    BY <1>2, <1>6
  <2>. QED  BY ONLY <2>2, <2>3 DEF Claims, Idle
<1>. QED  BY <1>4, <1>5, <1>8, <1>10, <1>11, <1>12 DEF OpInv

----------------------------------------------------------------------------
(* The invariant.                                                          *)

LEMMA AnswerStep ==
  ASSUME TypeOK, SearchOK, ServicesOK, \A p \in Op : OpInv(p), NEW l \in Lane, Answer(l)
  PROVE  SdkInv'
<1>1. PICK o, w : l = <<o, w>> /\ o \in Op /\ w \in 0..Pool
  BY LaneIs
<1>2. /\ call[l].at = "served" /\ call' = [call EXCEPT ![l] = NoCall]
      /\ router' = router /\ down' = down /\ faults' = faults /\ network' = network /\ stored' = stored
  BY DEF Answer, network
<1>3. ASSUME NEW r, op' = [op EXCEPT ![o] = r], r \in Operation, OpInv(o)'
      PROVE  SdkInv'
  <2>1. faults' \in 0..MaxFaults /\ lost' \in Nat
    BY <1>2 DEF TypeOK, RouterTypeOK, network
  <2>2. stored' = stored /\ acl' = acl /\ indexed' = indexed /\ effects' = effects
    BY <1>2 DEF network
  <2>. QED  BY <1>1, <1>2, <1>3, <2>1, <2>2, EndStep
<1>4. CASE w = 0
  <2>1. l = Main(o)
    BY <1>1, <1>4 DEF Main
  <2>2. op' = [op EXCEPT ![o] = MainResolved(o, call[Main(o)].what)]
    <3>1. l[1] = o
      BY <1>1
    <3>. QED  BY <2>1, <3>1 DEF Answer, Resolve
  <2>. QED  BY <1>1, <1>2, <1>3, <2>1, <2>2, MainResolvedOK
<1>5. CASE w # 0
  <2>1. w \in 1..Pool /\ l # Main(o)
    BY <1>1, <1>5, SdkAssumption DEF Main
  <2>2. \/ op' = [op EXCEPT ![o] = WorkerRejected(<<o, w>>)]
        \/ op' = [op EXCEPT ![o] = WorkerResolved(<<o, w>>)]
    BY <1>1, <2>1 DEF Answer, Resolve
  <2>. QED  BY <1>1, <1>2, <1>3, <2>1, <2>2, WorkerResolvedOK, WorkerRejectedOK
<1>. QED  BY <1>4, <1>5

LEMMA GiveUpStep ==
  ASSUME TypeOK, SearchOK, ServicesOK, \A p \in Op : OpInv(p), NEW l \in Lane,
         GiveUp(l), call[l].at \in {"sent", "served"}, faults' \in 0..MaxFaults, down' = down,
         stored' = stored, acl' = acl, indexed' = indexed, effects' = effects, lost' \in Nat
  PROVE  SdkInv'
<1>1. PICK o, w : l = <<o, w>> /\ o \in Op /\ w \in 0..Pool
  BY LaneIs
<1>2. call' = [call EXCEPT ![l] = NoCall] /\ router' = router
  BY DEF GiveUp
<1>3. ASSUME NEW r, op' = [op EXCEPT ![o] = r], r \in Operation, OpInv(o)'
      PROVE  SdkInv'
  BY <1>1, <1>2, <1>3, EndStep
<1>4. CASE w = 0
  <2>1. l = Main(o)
    BY <1>1, <1>4 DEF Main
  <2>2. op' = [op EXCEPT ![o] = MainRejected(o)]
    BY <1>1, <2>1 DEF GiveUp, Reject
  <2>. QED  BY <1>1, <1>2, <1>3, <2>1, <2>2, MainRejectedOK
<1>5. CASE w # 0
  <2>1. w \in 1..Pool /\ l # Main(o)
    BY <1>1, <1>5, SdkAssumption DEF Main
  <2>2. op' = [op EXCEPT ![o] = WorkerRejected(<<o, w>>)]
    BY <1>1, <2>1 DEF GiveUp, Reject
  <2>. QED  BY <1>1, <1>2, <1>3, <2>1, <2>2, WorkerRejectedOK
<1>. QED  BY <1>4, <1>5

LEMMA FailingStep ==
  ASSUME TypeOK, SearchOK, ServicesOK, \A p \in Op : OpInv(p), NEW l \in Lane,
         Refused(l) \/ Lose(l)
  PROVE  SdkInv'
<1>1. /\ call[l].at \in {"sent", "served"} /\ (Retry(l) \/ GiveUp(l)) /\ down' = down
      /\ stored' = stored /\ acl' = acl /\ indexed' = indexed /\ effects' = effects
  BY DEF Refused, Lose, network
<1>2. faults' \in 0..MaxFaults
  BY RouterAssumption DEF Refused, Lose, Fault, TypeOK, RouterTypeOK
<1>3. lost' \in Nat
  BY DEF Refused, Lose, network, TypeOK
<1>. QED  BY <1>1, <1>2, <1>3, RetryStep, GiveUpStep

\* At the start no operation has begun, and other clients' files are whole.
LEMMA SdkInvInit ==
  ASSUME Init
  PROVE  SdkInv
<1>1. NoSearch \in Search
  BY SdkAssumption DEF NoSearch, Search
<1>2. RouterTypeOK
  BY <1>1, RouterAssumption DEF Init, RouterInit, RouterTypeOK
<1>3. TypeOK
  <2>1. Granted \subseteq [name: Data, key: Op \cup {NoKey, OtherKey}]
    BY HeldAssumption
  <2>. QED  BY <1>2, <2>1, NoOpIsTyped, NoCallIsARequest, HeldAssumption DEF Init, TypeOK
<1>4. SearchOK
  BY DEF Init, RouterInit, SearchOK, NoCall, NoSearch
<1>5. ServicesOK
  BY HeldAssumption DEF Init, ServicesOK, ManifestsAreWhole, Whole
<1>6. ASSUME NEW o \in Op
      PROVE  OpInv(o)
  <2>1. op[o] = NoOp /\ \A w \in 0..Pool : call[<<o, w>>].at = "idle"
    BY LanesOf DEF Init, NoCall
  <2>2. Len(<<>>) = 0 /\ 1..0 = {}
    OBVIOUS
  <2>3. RecordOK(o)
    BY <2>1, <2>2 DEF RecordOK, NoOp, StagesOf, Uploads
  <2>. QED  BY <2>1, <2>3, SdkAssumption DEF OpInv, MainOK, WorkerOK, Claims, NoOp, Idle, Main
<1>. QED  BY <1>3, <1>4, <1>5, <1>6 DEF SdkInv

LEMMA SdkInvStep ==
  ASSUME SdkInv, [Next]_vars
  PROVE  SdkInv'
<1>. SUFFICES ASSUME TypeOK, SearchOK, ServicesOK, \A p \in Op : OpInv(p)
              PROVE  SdkInv'
  BY DEF SdkInv
<1>1. ASSUME NEW o \in Op, UserCalls(o) \/ MainSteps(o)
      PROVE  SdkInv'
  BY <1>1, UserCallsStep, MainStepsStep
<1>2. ASSUME NEW l \in Lane, ClaimPart(l)
      PROVE  SdkInv'
  <2>1. PICK o, w : l = <<o, w>> /\ o \in Op /\ w \in 1..Pool
    BY <1>2, LaneIs DEF ClaimPart
  <2>. QED  BY <1>2, <2>1, ClaimPartStep
<1>3. ASSUME NEW l \in Lane, Discover(l) \/ FoundNode(l) \/ Serve(l) \/ Answer(l) \/ Refused(l) \/ Lose(l)
      PROVE  SdkInv'
  BY <1>3, SearchingStep, ServeStep, AnswerStep, FailingStep
<1>4. CASE Environment
  BY <1>4, EnvironmentStep
<1>5. CASE UNCHANGED vars
  <2>1. /\ op' = op /\ call' = call /\ stored' = stored /\ acl' = acl /\ indexed' = indexed
        /\ effects' = effects /\ lost' = lost /\ active' = active /\ cache' = cache
        /\ fresh' = fresh /\ find' = find /\ down' = down /\ faults' = faults
    BY <1>5 DEF vars, router, network
  <2>2. TypeOK' /\ SearchOK'
    BY <2>1 DEF TypeOK, RouterTypeOK, SearchOK
  <2>3. ServicesOK'
    BY <2>1, ServicesStay DEF network
  <2>4. \A p \in Op : OpInv(p)'
    BY <2>1, Unmoved
  <2>. QED  BY <2>2, <2>3, <2>4 DEF SdkInv
<1>. QED  BY <1>1, <1>2, <1>3, <1>4, <1>5 DEF Next, LaneSteps

\* What every operation, its requests and the services hold, taken together, in
\* every state the SDK can reach (client.ts, storage.ts, router.ts).
THEOREM SdkInvariant == Spec => []SdkInv
<1>1. Init => SdkInv
  BY SdkInvInit
<1>2. SdkInv /\ [Next]_vars => SdkInv'
  BY SdkInvStep
<1>. QED  BY <1>1, <1>2, PTL DEF Spec

----------------------------------------------------------------------------
(* What follows from it.                                                   *)

\* Every variable of the SDK holds values of its kind (client.ts,
\* modules/*.ts, router.ts).
THEOREM SdkTypeOKHolds == Spec => []TypeOK
<1>1. SdkInv => TypeOK
  BY DEF SdkInv
<1>. QED  BY <1>1, SdkInvariant, PTL

\* A manifest that has reached the storage service lists all parts of one
\* file, in order and under one key, and all of them are there: whatever the
\* workers did in whatever order (storage.ts:110-141, client.ts:47-70).
THEOREM ManifestsAreWholeHolds == Spec => []ManifestsAreWhole
<1>1. SdkInv => ManifestsAreWhole
  BY DEF SdkInv, ServicesOK
<1>. QED  BY <1>1, SdkInvariant, PTL

\* What the services and the user are told about is whole (client.ts:58-103).
THEOREM NamedIsWholeHolds == Spec => []NamedIsWhole
<1>1. ASSUME SdkInv, NEW o \in Op, op[o].kind \in {"upload", "private"}, Stages(o, "done")
      PROVE  Whole(op[o].name)
  BY <1>1 DEF SdkInv, OpInv, RecordOK, Uploads, Stages, Whole
<1>2. SdkInv => NamedIsWhole
  BY <1>1 DEF SdkInv, ServicesOK, NamedIsWhole
<1>. QED  BY <1>2, SdkInvariant, PTL

\* No part of a pool is taken twice or forgotten (storage.ts:110-118, 188-194).
THEOREM PartsAreClaimedOnceHolds == Spec => []PartsAreClaimedOnce
<1>1. ASSUME SdkInv, NEW o \in Op
      PROVE  LET busy == {l \in Workers(o) : ~Idle(l)}
             IN  /\ \A l, m \in busy : call[l].slot = call[m].slot => l = m
                 /\ \A i \in 1..(op[o].next - 1) :
                      \/ op[o].got[i] # NoData
                      \/ \E l \in busy : call[l].slot = i
                      \/ op[o].dead # {} /\ op[o].stage \in {"bytes", "failed"}
  <2>1. Claims(o)
    BY <1>1 DEF SdkInv, OpInv
  <2>2. \A l \in Workers(o) : \E w \in 1..Pool : l = <<o, w>>
    BY DEF Workers
  <2>3. \A w \in 1..Pool : <<o, w>> \in Workers(o)
    BY DEF Workers
  <2>. QED  BY <2>1, <2>2, <2>3 DEF Claims
<1>2. SdkInv => PartsAreClaimedOnce
  BY <1>1 DEF PartsAreClaimedOnce
<1>. QED  BY <1>2, SdkInvariant, PTL

----------------------------------------------------------------------------
(* Single requests.                                                        *)

\* The single requests to s that are not about to be served.
Past(s) == {o \in Op : op[o].kind = s /\ call[Main(o)].at \notin {"search", "sent"}}

\* They have taken effect once, and once more for each answer lost.
EffectsInv == \A s \in Service : effects[s] <= Cardinality(Past(s)) + lost

LEMMA PastIsFinite ==
  ASSUME NEW s
  PROVE  IsFiniteSet(Past(s)) /\ Cardinality(Past(s)) \in Nat
<1>1. IsFiniteSet(Past(s))
  BY SdkAssumption, FS_Subset DEF Past
<1>. QED  BY <1>1, FS_CardinalityType

\* Steps after which no fewer requests are past, and as many took effect.
LEMMA PastGrows ==
  ASSUME TypeOK, EffectsInv, effects' = effects, lost' \in Nat, lost <= lost',
         \A s \in Service : Past(s) \subseteq Past(s)'
  PROVE  EffectsInv'
<1>. SUFFICES ASSUME NEW s \in Service
              PROVE  effects[s] <= Cardinality(Past(s)') + lost'
  BY DEF EffectsInv
<1>1. IsFiniteSet(Past(s)') /\ Cardinality(Past(s)') \in Nat
  <2>1. IsFiniteSet(Past(s)')
    BY SdkAssumption, FS_Subset DEF Past
  <2>. QED  BY <2>1, FS_CardinalityType
<1>2. Cardinality(Past(s)) <= Cardinality(Past(s)')
  BY <1>1, FS_Subset
<1>. QED  BY <1>1, <1>2, PastIsFinite DEF EffectsInv, TypeOK

\* What an operation is stays what it is when its requests end.
LEMMA KindStays ==
  ASSUME TypeOK, NEW o \in Op, NEW w \in 0..Pool, NEW d
  PROVE  /\ MainResolved(o, d).kind = op[o].kind
         /\ MainRejected(o).kind = op[o].kind
         /\ WorkerResolved(<<o, w>>).kind = op[o].kind
         /\ WorkerRejected(<<o, w>>).kind = op[o].kind
<1>1. op[o] \in Operation
  BY DEF TypeOK
<1>2. MainResolved(o, d).kind = op[o].kind
  <2>. DEFINE r == op[o]
              pool == [r EXCEPT !.stage = "pool", !.got = Blank(Len(d.parts))]
  <2>1. pool.kind = r.kind /\ [pool EXCEPT !.kind = r.kind].kind = r.kind
    BY <1>1 DEF Operation
  <2>2. \A t, x : /\ [r EXCEPT !.stage = t, !.name = x].kind = r.kind
                  /\ [r EXCEPT !.stage = t].kind = r.kind
                  /\ [r EXCEPT !.stage = t, !.key = x].kind = r.kind
                  /\ [r EXCEPT !.stage = t, !.got = x, !.next = 2].kind = r.kind
    BY <1>1 DEF Operation
  <2>. QED  BY <2>1, <2>2 DEF MainResolved
<1>. QED  BY <1>1, <1>2 DEF MainRejected, WorkerResolved, WorkerRejected, Operation

\* A single request is made by a main flow, and is all its operation does.
LEMMA SingleRequests ==
  ASSUME TypeOK, NEW o \in Op, OpInv(o), op[o].kind \in Service
  PROVE  /\ op[o].stage \in {"request", "done", "failed"}
         /\ call[Main(o)].at # "idle" =>
              call[Main(o)].do = "change" /\ call[Main(o)].service = op[o].kind
<1>1. op[o].stage \in {"request", "done", "failed"}
  BY SdkAssumption DEF OpInv, RecordOK, StagesOf
<1>. QED  BY <1>1 DEF OpInv, MainOK

\* Steps that undo no single request's service.
LEMMA PastStays ==
  ASSUME TypeOK, EffectsInv, effects' = effects, lost' \in Nat, lost <= lost',
         \A o \in Op : op[o].kind \in Service =>
           /\ op'[o].kind = op[o].kind
           /\ call[Main(o)].at \in {"idle", "served"} => call'[Main(o)].at \notin {"search", "sent"}
  PROVE  EffectsInv'
<1>1. \A o \in Op : call[Main(o)].at \in {"idle", "search", "sent", "served"}
  BY LanesOf DEF TypeOK, Requests
<1>2. \A s \in Service : Past(s) \subseteq Past(s)'
  BY <1>1 DEF Past
<1>. QED  BY <1>2, PastGrows

LEMMA EffectsUserStep ==
  ASSUME SdkInv, EffectsInv, NEW o \in Op, UserCalls(o)
  PROVE  EffectsInv'
<1>1. PICK r : Start(o, r) /\ network' = network
  BY DEF UserCalls, UploadFile, UploadPrivateFile, DownloadFile, DownloadPrivateFile, RegisterDid,
         IngestJson, IndexDocument, Request, UploadSingleChunk, ConsensusRequest, Begin
<1>2. op' = [op EXCEPT ![o] = r] /\ op[o].stage = "none"
  BY <1>1 DEF Start, Stages
<1>3. \A l \in Lane : l # Main(o) => call'[l] = call[l]
  BY DEF UserCalls, UploadFile, UploadPrivateFile, DownloadFile, DownloadPrivateFile, RegisterDid,
         IngestJson, IndexDocument, Request, UploadSingleChunk, ConsensusRequest, Begin, SdkInv, TypeOK
<1>4. op[o].kind \notin Service
  BY <1>2, SingleRequests DEF SdkInv
<1>5. ASSUME NEW p \in Op, op[p].kind \in Service
      PROVE  op'[p] = op[p] /\ call'[Main(p)] = call[Main(p)]
  <2>1. p # o /\ Main(p) # Main(o) /\ Main(p) \in Lane
    BY <1>4, <1>5, LanesOf DEF Main
  <2>. QED  BY <1>2, <1>3, <2>1 DEF SdkInv, TypeOK
<1>6. effects' = effects /\ lost' = lost /\ lost' \in Nat
  BY <1>1 DEF network, SdkInv, TypeOK
<1>. QED  BY <1>5, <1>6, PastStays DEF SdkInv

LEMMA EffectsMainStep ==
  ASSUME SdkInv, EffectsInv, NEW o \in Op, MainSteps(o)
  PROVE  EffectsInv'
<1>1. network' = network
  BY DEF MainSteps, UploadManifest, Assemble, GrantFileAccess, IndexPrivateFile, FetchRoot,
         UploadSingleChunk, DownloadSingleChunk, ConsensusRequest, SearchRequest, Begin
<1>2. /\ op[o].stage \in {"pool", "grant", "granted", "root"}
      /\ op' = op \/ \E t : op' = [op EXCEPT ![o].stage = t]
  BY DEF MainSteps, UploadManifest, Assemble, GrantFileAccess, IndexPrivateFile, FetchRoot,
         PoolEnds, Stages, Goto
<1>3. \A l \in Lane : l # Main(o) => call'[l] = call[l]
  BY DEF MainSteps, UploadManifest, Assemble, GrantFileAccess, IndexPrivateFile, FetchRoot,
         UploadSingleChunk, DownloadSingleChunk, ConsensusRequest, SearchRequest, Begin, SdkInv, TypeOK
<1>4. op[o].kind \notin Service
  BY <1>2, SingleRequests DEF SdkInv
<1>5. ASSUME NEW p \in Op, op[p].kind \in Service
      PROVE  op'[p] = op[p] /\ call'[Main(p)] = call[Main(p)]
  <2>1. p # o /\ Main(p) # Main(o) /\ Main(p) \in Lane
    BY <1>4, <1>5, LanesOf DEF Main
  <2>. QED  BY <1>2, <1>3, <2>1 DEF SdkInv, TypeOK
<1>6. effects' = effects /\ lost' = lost /\ lost' \in Nat
  BY <1>1 DEF network, SdkInv, TypeOK
<1>. QED  BY <1>5, <1>6, PastStays DEF SdkInv

LEMMA EffectsLaneStep ==
  ASSUME SdkInv, EffectsInv, NEW l \in Lane, LaneSteps(l)
  PROVE  EffectsInv'
<1>1. network' = network /\ effects' = effects /\ lost' = lost /\ lost' \in Nat
  BY DEF LaneSteps, ClaimPart, Discover, FoundNode, UploadSingleChunk, DownloadSingleChunk, Begin,
         network, SdkInv, TypeOK
<1>2. CASE ClaimPart(l)
  <2>1. l # Main(l[1]) /\ l[1] \in Op /\ \A o \in Op : l # Main(o)
    BY <1>2, LaneIs DEF ClaimPart, Main
  <2>2. \A k \in Lane : k # l => call'[k] = call[k]
    BY <1>2 DEF ClaimPart, UploadSingleChunk, DownloadSingleChunk, Begin, SdkInv, TypeOK
  <2>3. \A o \in Op : call'[Main(o)] = call[Main(o)]
    BY <2>1, <2>2, LanesOf
  <2>4. \A o \in Op : op'[o].kind = op[o].kind
    BY <1>2, <2>1 DEF ClaimPart, SdkInv, TypeOK, Operation
  <2>. QED  BY <1>1, <2>3, <2>4, PastStays DEF SdkInv
<1>3. CASE Discover(l)
  <2>1. op' = op /\ call' = call
    BY <1>3 DEF Discover
  <2>. QED  BY <1>1, <2>1, PastStays DEF SdkInv
<1>4. CASE FoundNode(l)
  <2>1. op' = op /\ call[l].at = "search" /\ \A k \in Lane : k # l => call'[k] = call[k]
    BY <1>4, FoundNodeKeepsRouter DEF FoundNode, SdkInv, TypeOK
  <2>2. \A o \in Op : call[Main(o)].at \in {"idle", "served"} => call'[Main(o)] = call[Main(o)]
    BY <2>1, LanesOf
  <2>. QED  BY <1>1, <2>1, <2>2, PastStays DEF SdkInv
<1>. QED  BY <1>2, <1>3, <1>4 DEF LaneSteps

\* A request that ends leaves every operation what it is.
LEMMA EndKeepsKinds ==
  ASSUME TypeOK, NEW l \in Lane, Resolve(l) \/ Reject(l)
  PROVE  \A o \in Op : op'[o].kind = op[o].kind
<1>1. PICK o, w : l = <<o, w>> /\ o \in Op /\ w \in 0..Pool
  BY LaneIs
<1>2. l[1] = o
  BY <1>1
<1>3. \E r : r.kind = op[o].kind /\ op' = [op EXCEPT ![o] = r]
  BY <1>1, <1>2, KindStays DEF Resolve, Reject
<1>. QED  BY <1>1, <1>3 DEF TypeOK

LEMMA EffectsEndStep ==
  ASSUME SdkInv, EffectsInv, NEW l \in Lane,
         Answer(l) \/ Refused(l) \/ (Lose(l) /\ GiveUp(l))
  PROVE  EffectsInv'
<1>1. /\ effects' = effects /\ lost' \in Nat /\ lost <= lost'
  BY DEF Answer, Refused, Lose, network, SdkInv, TypeOK
<1>2. \A o \in Op : op'[o].kind = op[o].kind
  <2>1. op' = op \/ Resolve(l) \/ Reject(l)
    BY DEF Answer, Refused, Lose, Retry, GiveUp
  <2>. QED  BY <2>1, EndKeepsKinds DEF SdkInv
<1>3. \A k \in Lane : k # l => call'[k] = call[k]
  BY DEF Answer, Refused, Lose, Retry, GiveUp, SdkInv, TypeOK
<1>4. call[l].at = "sent" \/ call'[l].at = "idle"
  BY DEF Answer, Refused, Lose, GiveUp, SdkInv, TypeOK, NoCall
<1>5. \A o \in Op : call[Main(o)].at \in {"idle", "served"} => call'[Main(o)].at \notin {"search", "sent"}
  BY <1>3, <1>4, LanesOf
<1>. QED  BY <1>1, <1>2, <1>5, PastStays DEF SdkInv

LEMMA EffectsServeStep ==
  ASSUME SdkInv, EffectsInv, NEW l \in Lane, Serve(l)
  PROVE  EffectsInv'
<1>1. PICK o, w : l = <<o, w>> /\ o \in Op /\ w \in 0..Pool
  BY LaneIs
<1>2. /\ call[l].at = "sent" /\ call' = [call EXCEPT ![l].at = "served"] /\ op' = op /\ lost' = lost
      /\ effects' = [effects EXCEPT ![call[l].service] =
                       IF call[l].do = "change" THEN @ + 1 ELSE @]
  BY DEF Serve
<1>3. /\ \A k \in Lane : k # l => call'[k] = call[k]
      /\ call'[l].at = "served" /\ lost' \in Nat /\ effects \in [Service -> Nat]
      /\ call[l].service \in Service
  BY <1>2 DEF SdkInv, TypeOK, Requests
<1>4. CASE call[l].do # "change"
  <2>1. effects' = effects
    BY <1>2, <1>3, <1>4
  <2>2. \A p \in Op : call[Main(p)].at \in {"idle", "served"} => call'[Main(p)].at \notin {"search", "sent"}
    BY <1>3, LanesOf
  <2>. QED  BY <1>2, <1>3, <2>1, <2>2, PastStays DEF SdkInv
<1>5. CASE call[l].do = "change"
  <2>1. w = 0
    <3>1. CASE w # 0
      <4>1. WorkerOK(o, w)
        BY <1>1, <3>1, SdkAssumption DEF SdkInv, OpInv
      <4>. QED  BY <1>1, <1>2, <1>5, <4>1 DEF WorkerOK
    <3>. QED  BY <3>1
  <2>2. l = Main(o)
    BY <1>1, <2>1 DEF Main
  <2>3. call[l].service = op[o].kind
    BY <1>1, <1>2, <1>5, <2>2 DEF SdkInv, OpInv, MainOK
  <2>. SUFFICES ASSUME NEW s \in Service
                PROVE  effects'[s] <= Cardinality(Past(s)') + lost'
    BY DEF EffectsInv
  <2>4. effects[s] <= Cardinality(Past(s)) + lost /\ effects[s] \in Nat /\ lost \in Nat
    BY <1>3 DEF EffectsInv, SdkInv, TypeOK
  <2>5. \A p \in Op : p # o => call'[Main(p)] = call[Main(p)]
    BY <1>3, <2>2, LanesOf DEF Main
  <2>6. CASE s # op[o].kind
    <3>1. Past(s)' = Past(s)
      BY <1>2, <2>5, <2>6 DEF Past
    <3>2. effects'[s] = effects[s]
      BY <1>2, <1>3, <2>3, <2>6
    <3>. QED  BY <1>2, <2>4, <3>1, <3>2
  <2>7. CASE s = op[o].kind
    <3>1. Past(s)' = Past(s) \cup {o} /\ o \notin Past(s)
      BY <1>1, <1>2, <1>3, <2>2, <2>5, <2>7 DEF Past
    <3>2. Cardinality(Past(s)') = Cardinality(Past(s)) + 1
      BY <3>1, PastIsFinite, FS_AddElement
    <3>3. effects'[s] = effects[s] + 1
      BY <1>2, <1>3, <1>5, <2>3, <2>7
    <3>. QED  BY <1>2, <2>4, <3>2, <3>3, PastIsFinite
  <2>. QED  BY <2>6, <2>7
<1>. QED  BY <1>4, <1>5

\* An answer is lost and the request repeated: it may be served once more.
LEMMA EffectsLostStep ==
  ASSUME SdkInv, EffectsInv, NEW l \in Lane, Lose(l), Retry(l)
  PROVE  EffectsInv'
<1>1. PICK o, w : l = <<o, w>> /\ o \in Op /\ w \in 0..Pool
  BY LaneIs
<1>2. /\ op' = op /\ effects' = effects /\ lost' = lost + 1
      /\ \A k \in Lane : k # l => call'[k] = call[k]
  BY DEF Lose, Retry, SdkInv, TypeOK
<1>. SUFFICES ASSUME NEW s \in Service
              PROVE  effects[s] <= Cardinality(Past(s)') + lost'
  BY <1>2 DEF EffectsInv
<1>3. effects[s] <= Cardinality(Past(s)) + lost /\ effects[s] \in Nat /\ lost \in Nat
  BY DEF EffectsInv, SdkInv, TypeOK
<1>4. \A p \in Op : p # o => call'[Main(p)] = call[Main(p)]
  BY <1>1, <1>2, LanesOf DEF Main
<1>5. Past(s) \ {o} \subseteq Past(s)'
  BY <1>2, <1>4 DEF Past
<1>6. IsFiniteSet(Past(s)') /\ Cardinality(Past(s)') \in Nat
  <2>1. IsFiniteSet(Past(s)')
    BY SdkAssumption, FS_Subset DEF Past
  <2>. QED  BY <2>1, FS_CardinalityType
<1>7. Cardinality(Past(s) \ {o}) <= Cardinality(Past(s)')
  BY <1>5, <1>6, FS_Subset
<1>8. Cardinality(Past(s)) <= Cardinality(Past(s) \ {o}) + 1
      /\ Cardinality(Past(s) \ {o}) \in Nat
  <2>1. IsFiniteSet(Past(s)) /\ Cardinality(Past(s)) \in Nat
    BY PastIsFinite
  <2>2. Cardinality(Past(s) \ {o}) =
          IF o \in Past(s) THEN Cardinality(Past(s)) - 1 ELSE Cardinality(Past(s))
    BY <2>1, FS_RemoveElement
  <2>3. IsFiniteSet(Past(s) \ {o})
    BY <2>1, FS_Subset
  <2>. QED  BY <2>1, <2>2, <2>3, FS_CardinalityType
<1>9. Cardinality(Past(s)) \in Nat
  BY PastIsFinite
<1>. QED
  <2>. DEFINE a == Cardinality(Past(s))
              b == Cardinality(Past(s) \ {o})
              c == Cardinality(Past(s)')
  <2>. HIDE DEF a, b, c
  <2>1. a \in Nat /\ b \in Nat /\ c \in Nat /\ a <= b + 1 /\ b <= c /\ effects[s] <= a + lost
    BY <1>3, <1>6, <1>7, <1>8, <1>9 DEF a, b, c
  <2>2. effects[s] <= c + lost'
    BY <1>2, <1>3, <2>1
  <2>. QED  BY <2>2 DEF c

LEMMA EffectsStep ==
  ASSUME SdkInv, EffectsInv, [Next]_vars
  PROVE  EffectsInv'
<1>1. ASSUME NEW o \in Op, UserCalls(o) \/ MainSteps(o)
      PROVE  EffectsInv'
  BY <1>1, EffectsUserStep, EffectsMainStep
<1>2. ASSUME NEW l \in Lane, LaneSteps(l) \/ Serve(l) \/ Answer(l) \/ Refused(l)
      PROVE  EffectsInv'
  BY <1>2, EffectsLaneStep, EffectsServeStep, EffectsEndStep
<1>3. ASSUME NEW l \in Lane, Lose(l)
      PROVE  EffectsInv'
  BY <1>3, EffectsLostStep, EffectsEndStep DEF Lose
<1>4. CASE Environment \/ UNCHANGED vars
  <2>1. op' = op /\ call' = call /\ effects' = effects /\ lost' = lost /\ lost' \in Nat
    BY <1>4 DEF Environment, vars, network, SdkInv, TypeOK
  <2>. QED  BY <2>1, PastStays DEF SdkInv
<1>. QED  BY <1>1, <1>2, <1>3, <1>4 DEF Next

\* A single request takes effect once for each time it is made, and once more
\* only where an answer is lost (consensus.ts:7-22, 36-60).
THEOREM EffectsFollowLossesHolds == Spec => []EffectsFollowLosses
<1>1. Init => EffectsInv
  <2>1. ASSUME Init, NEW s \in Service
        PROVE  effects[s] <= Cardinality(Past(s)) + lost
    BY <2>1, PastIsFinite DEF Init
  <2>. QED  BY <2>1 DEF EffectsInv
<1>2. SdkInv /\ EffectsInv /\ [Next]_vars => EffectsInv'
  BY EffectsStep
<1>3. ASSUME SdkInv, EffectsInv, NEW s \in Service
      PROVE  effects[s] <= Cardinality({o \in Op : op[o].kind = s}) + lost
  <2>. DEFINE asked == {o \in Op : op[o].kind = s}
  <2>1. IsFiniteSet(asked) /\ Past(s) \subseteq asked
    BY SdkAssumption, FS_Subset DEF Past
  <2>2. Cardinality(Past(s)) <= Cardinality(asked) /\ Cardinality(asked) \in Nat
    BY <2>1, FS_Subset, FS_CardinalityType
  <2>3. effects[s] <= Cardinality(Past(s)) + lost /\ effects[s] \in Nat /\ lost \in Nat
    BY <1>3 DEF EffectsInv, SdkInv, TypeOK
  <2>. QED  BY <2>2, <2>3, PastIsFinite
<1>4. SdkInv /\ EffectsInv => EffectsFollowLosses
  BY <1>3 DEF EffectsFollowLosses
<1>. QED  BY <1>1, <1>2, <1>4, SdkInvariant, PTL DEF Spec

----------------------------------------------------------------------------
(* Failover.                                                               *)

\* A request to a service whose health endpoint is open is no download; the
\* addresses its search pings come from the directory, unless something has
\* gone wrong since it was made.
FailInv ==
  \A l \in Lane :
    call[l].at # "idle" /\ call[l].service \in OpenProbe =>
      /\ call[l].do # "get"
      /\ call[l].since <= faults
      /\ find[l].at = "ping" => find[l].nodes \in Directory \/ call[l].since < faults

\* FailoverWorks for one lane.
Failover(l) ==
  LET c == call[l]
      d == call'[l]
  IN  c.at # "idle" /\ c.service \in OpenProbe /\ faults' = c.since =>
        /\ c.at = "sent" /\ d.at = "idle" => c.try = 2 /\ c.node \in down
        /\ c # d /\ d.at = "sent" /\ d.try = 2 =>
             d.node \notin down \/ \E list \in Directory : Range(list) \subseteq down

\* Faults are counted, and the count never falls.
LEMMA FaultsGrow ==
  ASSUME SdkInv, [Next]_vars
  PROVE  faults \in Nat /\ faults' \in Nat /\ faults <= faults'
<1>1. faults \in Nat
  BY RouterAssumption DEF SdkInv, TypeOK, RouterTypeOK
<1>2. ASSUME NEW o \in Op, UserCalls(o) \/ MainSteps(o)
      PROVE  faults' = faults
  BY <1>2 DEF UserCalls, UploadFile, UploadPrivateFile, DownloadFile, DownloadPrivateFile,
       RegisterDid, IngestJson, IndexDocument, Request, MainSteps, UploadManifest, Assemble,
       GrantFileAccess, IndexPrivateFile, FetchRoot, UploadSingleChunk, DownloadSingleChunk,
       ConsensusRequest, SearchRequest, Begin
<1>3. ASSUME NEW l \in Lane, LaneSteps(l) \/ Serve(l) \/ Answer(l) \/ Refused(l) \/ Lose(l)
      PROVE  faults' = faults \/ faults' = faults + 1
  BY <1>3 DEF LaneSteps, ClaimPart, Discover, Discovered, DiscoveryFails, FoundNode, Found, Fault,
       Serve, Answer, Refused, Lose, UploadSingleChunk, DownloadSingleChunk, Begin
<1>4. Environment => faults' = faults \/ faults' = faults + 1
  BY DEF Environment, Crash, Recover, Fault
<1>5. UNCHANGED vars => faults' = faults
  BY DEF vars
<1>. QED  BY <1>1, <1>2, <1>3, <1>4, <1>5 DEF Next

\* A lane whose request and search are what they were.
LEMMA FailStays ==
  ASSUME SdkInv, FailInv, [Next]_vars, NEW l \in Lane, call'[l] = call[l], find'[l] = find[l]
  PROVE  /\ call'[l].at # "idle" /\ call'[l].service \in OpenProbe =>
              /\ call'[l].do # "get"
              /\ call'[l].since <= faults'
              /\ find'[l].at = "ping" => find'[l].nodes \in Directory \/ call'[l].since < faults'
         /\ Failover(l)
<1>1. call[l].since \in Nat
  BY RouterAssumption DEF SdkInv, TypeOK, Requests
<1>2. faults \in Nat /\ faults' \in Nat /\ faults <= faults'
  BY FaultsGrow
<1>. QED  BY <1>1, <1>2 DEF FailInv, Failover

\* The requests an operation makes: only the storage service is asked for data.
LEMMA WhatBegins ==
  ASSUME SdkInv,
         \/ \E o \in Op : UserCalls(o) \/ MainSteps(o)
         \/ \E l \in Lane : ClaimPart(l)
  PROVE  \/ call' = call /\ find' = find
         \/ \E k \in Lane, s \in Service : \E do, d, i :
              Begin(k, s, do, d, i) /\ (do = "get" => s = "storage")
<1>. DEFINE begun == \E k \in Lane, s \in Service : \E do, d, i :
                       Begin(k, s, do, d, i) /\ (do = "get" => s = "storage")
<1>1. /\ {"search", "consensus", "storage"} = Service
      /\ \A k \in Lane : \A d, i : UploadSingleChunk(k, d, i) \/ DownloadSingleChunk(k, d, i) => begun
      /\ \A k \in Lane : \A do, d : do # "get" =>
           (ConsensusRequest(k, do, d) \/ SearchRequest(k, do, d) => begun)
      /\ \A k \in Lane, s \in Service : Begin(k, s, "change", NoData, 0) => begun
  BY SdkAssumption DEF UploadSingleChunk, DownloadSingleChunk, ConsensusRequest, SearchRequest
<1>. HIDE DEF begun
<1>2. ASSUME NEW o \in Op, UserCalls(o)
      PROVE  (call' = call /\ find' = find) \/ begun
  <2>1. Main(o) \in Lane
    BY LanesOf
  <2>2. UploadFile(o) => (call' = call /\ find' = find) \/ begun
    BY <1>1, <2>1 DEF UploadFile, router
  <2>3. UploadPrivateFile(o) \/ DownloadFile(o) => call' = call /\ find' = find
    BY DEF UploadPrivateFile, DownloadFile, router
  <2>4. DownloadPrivateFile(o) => begun
    BY <1>1, <2>1 DEF DownloadPrivateFile
  <2>5. RegisterDid(o) \/ IngestJson(o) \/ IndexDocument(o) => begun
    BY <1>1, <2>1 DEF RegisterDid, IngestJson, IndexDocument, Request
  <2>. QED  BY <1>2, <2>2, <2>3, <2>4, <2>5 DEF UserCalls
<1>3. ASSUME NEW o \in Op, MainSteps(o)
      PROVE  (call' = call /\ find' = find) \/ begun
  <2>1. Main(o) \in Lane
    BY LanesOf
  <2>2. UploadManifest(o) \/ FetchRoot(o) => begun
    BY <1>1, <2>1 DEF UploadManifest, FetchRoot
  <2>3. Assemble(o) => call' = call /\ find' = find
    BY DEF Assemble, router
  <2>4. GrantFileAccess(o) => begun
    BY <1>1, <2>1 DEF GrantFileAccess
  <2>5. IndexPrivateFile(o) => (call' = call /\ find' = find) \/ begun
    BY <1>1, <2>1 DEF IndexPrivateFile, router
  <2>. QED  BY <1>3, <2>2, <2>3, <2>4, <2>5 DEF MainSteps
<1>4. ASSUME NEW l \in Lane, ClaimPart(l)
      PROVE  begun
  BY <1>1, <1>4 DEF ClaimPart
<1>. QED  BY <1>2, <1>3, <1>4 DEF begun

\* A request that begins gives up nothing and repeats nothing.
LEMMA FailBegin ==
  ASSUME SdkInv, FailInv, [Next]_vars, NEW k \in Lane, NEW s \in Service, NEW do, NEW d, NEW i,
         Begin(k, s, do, d, i), do = "get" => s = "storage"
  PROVE  FailInv' /\ \A l \in Lane : Failover(l)
<1>1. /\ call[k].at = "idle" /\ find[k].at = "none" /\ faults' = faults /\ faults \in Nat
      /\ RouterTypeOK /\ SearchOK /\ call \in [Lane -> Requests]
  BY RouterAssumption DEF Begin, Idle, SdkInv, SearchOK, TypeOK, RouterTypeOK, Search
<1>2. \A l \in Lane : l # k => call'[l] = call[l] /\ find'[l] = find[l]
  BY <1>1 DEF Begin, BeginSearch, RouterTypeOK
<1>3. call'[k].do = do /\ call'[k].service = s /\ (s # "storage" => call'[k].since = faults)
  <2>1. PICK c : c = [NoCall EXCEPT !.service = s, !.do = do, !.what = d, !.slot = i,
                                    !.since = IF s = "storage" THEN 0 ELSE faults]
    OBVIOUS
  <2>2. PICK b : /\ b = [c EXCEPT !.at = "sent", !.node = active[s]] \/ b = [c EXCEPT !.at = "search"]
                 /\ call' = [call EXCEPT ![k] = b]
    BY <2>1 DEF Begin
  <2>3. b.do = do /\ b.service = s /\ (s # "storage" => b.since = faults)
    BY ONLY <2>1, <2>2 DEF NoCall
  <2>4. call'[k] = b
    BY <1>1, <2>2
  <2>. QED  BY ONLY <2>3, <2>4
<1>4. find'[k].at = "ping" => find'[k].nodes \in Directory
  <2>1. CASE active[s] # NoNode
    BY <1>1, <2>1 DEF Begin
  <2>2. CASE active[s] = NoNode
    <3>1. BeginSearch(k, s)
      BY <2>2 DEF Begin
    <3>. QED  BY <1>1, <3>1, SearchBegins DEF RouterTypeOK
  <2>. QED  BY <2>1, <2>2
<1>5. ASSUME NEW l \in Lane
      PROVE  /\ call'[l].at # "idle" /\ call'[l].service \in OpenProbe =>
                  /\ call'[l].do # "get"
                  /\ call'[l].since <= faults'
                  /\ find'[l].at = "ping" => find'[l].nodes \in Directory \/ call'[l].since < faults'
             /\ Failover(l)
  <2>1. CASE l # k
    BY <1>2, <2>1, FailStays
  <2>2. CASE l = k
    <3>1. Failover(l)
      BY <1>1, <2>2 DEF Failover
    <3>. QED  BY <1>1, <1>3, <1>4, <2>2, <3>1, SdkAssumption
  <2>. QED  BY <2>1, <2>2
<1>. QED  BY <1>5 DEF FailInv

\* The directory answers with one of its lists; where it does not, something
\* has gone wrong since the request was made.
LEMMA FailDiscover ==
  ASSUME SdkInv, FailInv, [Next]_vars, NEW k \in Lane, Discover(k)
  PROVE  FailInv' /\ \A l \in Lane : Failover(l)
<1>1. call' = call /\ find[k].at = "discover" /\ call[k].at = "search"
  BY DEF Discover, Discovered, DiscoveryFails, SdkInv, SearchOK
<1>2. \A l \in Lane : l # k => find'[l] = find[l]
  BY DEF Discover, Discovered, DiscoveryFails, SdkInv, TypeOK, RouterTypeOK
<1>3. find'[k].nodes \in Directory \/ faults' = faults + 1
  <2>1. find[k] \in Search /\ find \in [Lane -> Search]
    BY DEF SdkInv, TypeOK, RouterTypeOK
  <2>. QED  BY <2>1 DEF Discover, Discovered, DiscoveryFails, Fault, Search
<1>4. faults \in Nat /\ faults' \in Nat /\ faults <= faults' /\ call[k].since \in Nat
  BY FaultsGrow, RouterAssumption DEF SdkInv, TypeOK, Requests
<1>5. ASSUME NEW l \in Lane
      PROVE  /\ call'[l].at # "idle" /\ call'[l].service \in OpenProbe =>
                  /\ call'[l].do # "get"
                  /\ call'[l].since <= faults'
                  /\ find'[l].at = "ping" => find'[l].nodes \in Directory \/ call'[l].since < faults'
             /\ Failover(l)
  <2>1. CASE l # k
    BY <1>1, <1>2, <2>1, FailStays
  <2>2. CASE l = k
    BY <1>1, <1>3, <1>4, <2>2 DEF FailInv, Failover
  <2>. QED  BY <2>1, <2>2
<1>. QED  BY <1>5 DEF FailInv

\* A search ends with a machine that is up, unless it has none to choose, or
\* something goes wrong.
LEMMA FailFound ==
  ASSUME SdkInv, FailInv, [Next]_vars, NEW k \in Lane, FoundNode(k)
  PROVE  FailInv' /\ \A l \in Lane : Failover(l)
<1>1. PICK n \in Node : /\ Found(k, n)
                        /\ call' = [call EXCEPT ![k].at = "sent", ![k].node = n]
  BY DEF FoundNode
<1>2. /\ find[k].at = "ping" /\ call[k].at = "search" /\ find[k].service = call[k].service
      /\ find[k].nodes \in Seq(Node) /\ find' = [find EXCEPT ![k] = NoSearch]
      /\ find \in [Lane -> Search] /\ call \in [Lane -> Requests]
  BY <1>1 DEF Found, SdkInv, SearchOK, TypeOK, RouterTypeOK, Search
<1>3. \A l \in Lane : l # k => find'[l] = find[l] /\ call'[l] = call[l]
  BY <1>1, <1>2
<1>4. /\ call'[k].at = "sent" /\ call'[k].node = n /\ find'[k].at = "none"
      /\ call'[k].do = call[k].do /\ call'[k].service = call[k].service /\ call'[k].since = call[k].since
  <2>1. call[k] \in Requests
    BY <1>2
  <2>. QED  BY <1>1, <1>2, <2>1 DEF Requests, NoSearch
<1>5. faults \in Nat /\ faults' \in Nat /\ faults <= faults' /\ call[k].since \in Nat
  BY FaultsGrow, RouterAssumption DEF SdkInv, TypeOK, Requests
<1>6. ASSUME call[k].service \in OpenProbe, faults' = call[k].since
      PROVE  n \notin down \/ \E list \in Directory : Range(list) \subseteq down
  <2>1. find[k].nodes \in Directory /\ faults' = faults
    BY <1>2, <1>5, <1>6 DEF FailInv
  <2>2. n \in Fastest(find[k])
    BY <1>1, <2>1, <1>5 DEF Found, Fault
  <2>3. CASE \E m \in Range(find[k].nodes) : m \notin down
    BY <1>2, <1>6, <2>2, <2>3 DEF Fastest
  <2>4. CASE ~ \E m \in Range(find[k].nodes) : m \notin down
    BY <2>1, <2>4
  <2>. QED  BY <2>3, <2>4
<1>7. Failover(k)
  BY <1>2, <1>4, <1>6 DEF Failover
<1>8. ASSUME NEW l \in Lane
      PROVE  /\ call'[l].at # "idle" /\ call'[l].service \in OpenProbe =>
                  /\ call'[l].do # "get"
                  /\ call'[l].since <= faults'
                  /\ find'[l].at = "ping" => find'[l].nodes \in Directory \/ call'[l].since < faults'
             /\ Failover(l)
  <2>1. CASE l # k
    BY <1>3, <2>1, FailStays
  <2>2. CASE l = k
    BY <1>2, <1>4, <1>5, <1>7, <2>2 DEF FailInv
  <2>. QED  BY <2>1, <2>2
<1>. QED  BY <1>8 DEF FailInv

\* A request is served, answered, refused or repeated.
LEMMA FailAnswer ==
  ASSUME SdkInv, FailInv, [Next]_vars, NEW k \in Lane,
         Serve(k) \/ Answer(k) \/ Refused(k) \/ Lose(k)
  PROVE  FailInv' /\ \A l \in Lane : Failover(l)
<1>1. /\ call[k].at \in {"sent", "served"} /\ call \in [Lane -> Requests] /\ call[k] \in Requests
      /\ find \in [Lane -> Search] /\ find[k].at = "none"
  <2>1. call[k].at \in {"sent", "served"}
    BY DEF Serve, Answer, Refused, Lose
  <2>2. call \in [Lane -> Requests] /\ find \in [Lane -> Search]
    BY DEF SdkInv, TypeOK, RouterTypeOK
  <2>. QED  BY <2>1, <2>2 DEF SdkInv, SearchOK
<1>2. faults \in Nat /\ faults' \in Nat /\ faults <= faults' /\ call[k].since \in Nat
  BY <1>1, FaultsGrow, RouterAssumption DEF Requests
<1>3. Serve(k) \/ Answer(k) \/ GiveUp(k) \/ Retry(k)
  BY DEF Refused, Lose
<1>4. \A l \in Lane : l # k => find'[l] = find[l] /\ call'[l] = call[l]
  BY <1>1, <1>3 DEF Serve, Answer, GiveUp, Retry, BeginSearch, router
<1>5. CASE Retry(k)
  <2>1. /\ call'[k].at = "search" /\ call'[k].do = call[k].do
        /\ call'[k].service = call[k].service /\ call'[k].since = call[k].since
    BY <1>1, <1>5 DEF Retry, Requests
  <2>2. find'[k].at = "ping" => find'[k].nodes \in Directory
    <3>1. BeginSearch(k, call[k].service) /\ call[k].service \in Service
      BY <1>1, <1>5 DEF Retry, Requests
    <3>2. RouterTypeOK /\ SearchOK
      BY DEF SdkInv, TypeOK
    <3>. QED  BY <1>1, <3>1, <3>2, SearchBegins
  <2>3. ASSUME NEW l \in Lane
        PROVE  /\ call'[l].at # "idle" /\ call'[l].service \in OpenProbe =>
                    /\ call'[l].do # "get"
                    /\ call'[l].since <= faults'
                    /\ find'[l].at = "ping" => find'[l].nodes \in Directory \/ call'[l].since < faults'
               /\ Failover(l)
    <3>1. CASE l # k
      BY <1>4, <3>1, FailStays
    <3>2. CASE l = k
      BY <1>1, <1>2, <2>1, <2>2, <3>2 DEF FailInv, Failover
    <3>. QED  BY <3>1, <3>2
  <2>. QED  BY <2>3 DEF FailInv
<1>6. CASE Serve(k)
  <2>1. /\ call'[k].at = "served" /\ call'[k].do = call[k].do /\ find' = find
        /\ call'[k].service = call[k].service /\ call'[k].since = call[k].since
    BY <1>1, <1>6 DEF Serve, Requests, router
  <2>2. ASSUME NEW l \in Lane
        PROVE  /\ call'[l].at # "idle" /\ call'[l].service \in OpenProbe =>
                    /\ call'[l].do # "get"
                    /\ call'[l].since <= faults'
                    /\ find'[l].at = "ping" => find'[l].nodes \in Directory \/ call'[l].since < faults'
               /\ Failover(l)
    <3>1. CASE l # k
      BY <1>4, <3>1, FailStays
    <3>2. CASE l = k
      BY <1>1, <1>2, <2>1, <3>2 DEF FailInv, Failover
    <3>. QED  BY <3>1, <3>2
  <2>. QED  BY <2>2 DEF FailInv
<1>7. CASE Answer(k) \/ GiveUp(k)
  <2>1. call'[k].at = "idle"
    BY <1>1, <1>7 DEF Answer, GiveUp, NoCall
  <2>2. ASSUME call[k].at = "sent", call[k].service \in OpenProbe, faults' = call[k].since
        PROVE  call[k].try = 2 /\ call[k].node \in down
    <3>1. Refused(k) /\ ~Retry(k)
      <4>1. ~Serve(k) /\ ~Retry(k)
        <5>1. ASSUME Serve(k)
              PROVE  call'[k].at = "served"
          <6>1. call' = [call EXCEPT ![k].at = "served"]
            BY <5>1 DEF Serve
          <6>. QED  BY ONLY <1>1, <6>1 DEF Requests
        <5>2. Retry(k) => call'[k].at = "search"
          BY <1>1 DEF Retry
        <5>. QED  BY <2>1, <5>1, <5>2
      <4>. QED  BY <2>2, <4>1 DEF Answer, Lose
    <3>2. call[k].do # "get" /\ faults' = faults
      BY <1>2, <2>2 DEF FailInv
    <3>. QED  BY <1>2, <3>1, <3>2 DEF Refused, GiveUp, Fault
  <2>3. ASSUME NEW l \in Lane
        PROVE  /\ call'[l].at # "idle" /\ call'[l].service \in OpenProbe =>
                    /\ call'[l].do # "get"
                    /\ call'[l].since <= faults'
                    /\ find'[l].at = "ping" => find'[l].nodes \in Directory \/ call'[l].since < faults'
               /\ Failover(l)
    <3>1. CASE l # k
      BY <1>4, <3>1, FailStays
    <3>2. CASE l = k
      BY <2>1, <2>2, <3>2 DEF Failover
    <3>. QED  BY <3>1, <3>2
  <2>. QED  BY <2>3 DEF FailInv
<1>. QED  BY <1>3, <1>5, <1>6, <1>7

LEMMA FailStep ==
  ASSUME SdkInv, FailInv, [Next]_vars
  PROVE  FailInv' /\ \A l \in Lane : Failover(l)
<1>1. CASE call' = call /\ find' = find
  BY <1>1, FailStays DEF FailInv
<1>2. ASSUME NEW o \in Op, UserCalls(o) \/ MainSteps(o)
      PROVE  FailInv' /\ \A l \in Lane : Failover(l)
  BY <1>1, <1>2, WhatBegins, FailBegin
<1>3. ASSUME NEW l \in Lane, ClaimPart(l)
      PROVE  FailInv' /\ \A k \in Lane : Failover(k)
  BY <1>1, <1>3, WhatBegins, FailBegin
<1>4. ASSUME NEW l \in Lane, Discover(l) \/ FoundNode(l)
      PROVE  FailInv' /\ \A k \in Lane : Failover(k)
  BY <1>4, FailDiscover, FailFound
<1>5. ASSUME NEW l \in Lane, Serve(l) \/ Answer(l) \/ Refused(l) \/ Lose(l)
      PROVE  FailInv' /\ \A k \in Lane : Failover(k)
  BY <1>5, FailAnswer
<1>6. Environment \/ UNCHANGED vars => call' = call /\ find' = find
  BY DEF Environment, Crash, Recover, router, vars
<1>. QED  BY <1>1, <1>2, <1>3, <1>4, <1>5, <1>6 DEF Next, LaneSteps

\* Where nothing has gone wrong since a consensus or search request was made,
\* it gives up only at its second attempt and at a machine that is down, and
\* that attempt goes to a machine that is up if the directory's lists have one
\* (router.ts:58-103, search.ts:48-59).
THEOREM FailoverWorksHolds == Spec => FailoverWorks
<1>1. Init => FailInv
  BY DEF Init, NoCall, FailInv
<1>2. SdkInv /\ FailInv /\ [Next]_vars => FailInv' /\ \A l \in Lane : Failover(l)
  BY FailStep
<1>3. (\A l \in Lane : Failover(l)) <=>
        \A l \in Lane :
          LET c == call[l]
              d == call'[l]
          IN  c.at # "idle" /\ c.service \in OpenProbe /\ faults' = c.since =>
                /\ c.at = "sent" /\ d.at = "idle" => c.try = 2 /\ c.node \in down
                /\ c # d /\ d.at = "sent" /\ d.try = 2 =>
                     d.node \notin down \/ \E list \in Directory : Range(list) \subseteq down
  BY DEF Failover
<1>. QED  BY <1>1, <1>2, <1>3, SdkInvariant, PTL DEF Spec, FailoverWorks
=============================================================================
