--------------------------- MODULE SdkStore_proofs ---------------------------
(***************************************************************************)
(* Proof that the SDK keeps what FileStore promises: every step of the SDK *)
(* is a step of FileStore, or none, for any number of operations, workers, *)
(* machines, files, faults and lost answers.                               *)
(***************************************************************************)
EXTENDS Sdk_proofs

----------------------------------------------------------------------------
(* Names and contents.                                                     *)

\* The parts of a file, one by one.
LEMMA PartsOf ==
  ASSUME NEW f \in File, NEW k \in Keys
  PROVE  /\ Length[f] \in Nat \ {0}
         /\ \A i \in Nat : Part(f, i, k) \in Piece
         /\ Parts(f, k) \in Seq(Piece) /\ Len(Parts(f, k)) = Length[f]
         /\ \A i \in 1..Length[f] : Parts(f, k)[i] = Part(f, i, k)
         /\ Parts(f, k)[1] = Part(f, 1, k)
<1>1. /\ Length[f] \in Nat \ {0}
      /\ \A i \in Nat : Part(f, i, k) \in Piece
      /\ Parts(f, k) \in Seq(Piece) /\ Len(Parts(f, k)) = Length[f]
      /\ \A i \in 1..Length[f] : Parts(f, k)[i] = Part(f, i, k)
  <2>1. TRUE \in BOOLEAN
    OBVIOUS
  <2>. QED  BY <2>1, PartsArePieces
<1>. QED  BY <1>1

\* The contents that a name stands for.
LEMMA ContentsOf ==
  ASSUME NEW d \in Names
  PROVE  /\ IsList(d) => Contents[d] = Parts(d.parts[1].file, NoKey)
         /\ ~IsList(d) => Contents[d] = <<d>>
BY DEF Contents

\* A name is that of a manifest or of an only part, and names the parts in clear.
LEMMA NamesAre ==
  ASSUME NEW d \in Names
  PROVE  \E f \in File, k \in Keys :
           /\ Contents[d] = Parts(f, NoKey)
           /\ \/ IsList(d) /\ d = Manifest(Parts(f, k), k # NoKey) /\ d.parts = Parts(f, k)
              \/ ~IsList(d) /\ Length[f] = 1 /\ d = Part(f, 1, NoKey) /\ Contents[d] = <<d>>
<1>1. CASE \E f \in File : Length[f] = 1 /\ d = Part(f, 1, NoKey)
  <2>1. PICK f \in File : Length[f] = 1 /\ d = Part(f, 1, NoKey)
    BY <1>1
  <2>2. NoKey \in Keys
    BY DEF Keys
  <2>3. d \in Piece
    BY <2>1, <2>2, PartsOf
  <2>4. ~IsList(d)
    BY <2>3, PiecesAreNotLists
  <2>5. Contents[d] = <<d>>
    BY <2>4, ContentsOf
  <2>6. Parts(f, NoKey) = <<d>>
    <3>1. Parts(f, NoKey) \in Seq(Piece) /\ Len(Parts(f, NoKey)) = 1
          /\ Parts(f, NoKey)[1] = d
      BY <2>1, <2>2, PartsOf
    <3>. QED  BY <3>1
  <2>7. Contents[d] = Parts(f, NoKey)
    BY <2>5, <2>6
  <2>. QED  BY ONLY <2>1, <2>2, <2>4, <2>5, <2>7, f \in File
<1>2. CASE \E f \in File, k \in Keys : d = Manifest(Parts(f, k), k # NoKey)
  <2>1. PICK f \in File, k \in Keys : d = Manifest(Parts(f, k), k # NoKey)
    BY <1>2
  <2>2. IsList(d) /\ d.parts = Parts(f, k)
    BY <2>1 DEF Manifest, IsList
  <2>3. d.parts[1].file = f
    <3>1. Length[f] \in Nat \ {0} /\ Parts(f, k)[1] = Part(f, 1, k)
      BY PartsOf
    <3>. QED  BY <2>2, <3>1 DEF Part
  <2>4. Contents[d] = Parts(f, NoKey)
    BY <2>2, <2>3, ContentsOf
  <2>. QED  BY <2>1, <2>2, <2>4
<1>. QED  BY <1>1, <1>2 DEF Names, Keys

\* What is whole in S is on the shelf of S, with the contents of its file.
LEMMA HoldsIsOnShelf ==
  ASSUME NEW S, NEW d \in S, NEW f \in File, Holds(S, d, f)
  PROVE  d \in OnShelf(S) /\ Contents[d] = Parts(f, NoKey)
<1>1. CASE IsList(d)
  <2>1. PICK k \in Keys : d = Manifest(Parts(f, k), k # NoKey) /\ Range(d.parts) \subseteq S
    BY <1>1 DEF Holds, Keys
  <2>2. d \in Names
    BY <2>1 DEF Names, Keys
  <2>3. d.parts[1].file = f
    <3>1. Length[f] \in Nat \ {0} /\ Parts(f, k)[1] = Part(f, 1, k)
      BY PartsOf
    <3>. QED  BY <2>1, <3>1 DEF Part, Manifest
  <2>4. Contents[d] = Parts(f, NoKey)
    BY <1>1, <2>2, <2>3, ContentsOf
  <2>5. d \in OnShelf(S)
    BY <2>1, <2>2 DEF OnShelf
  <2>. QED  BY <2>4, <2>5
<1>2. CASE ~IsList(d)
  <2>1. Length[f] = 1 /\ d = Part(f, 1, NoKey)
    BY <1>2 DEF Holds
  <2>2. d \in Names
    BY <2>1 DEF Names
  <2>3. Contents[d] = Parts(f, NoKey)
    <3>1. PICK g \in File : /\ Contents[d] = Parts(g, NoKey)
                            /\ Length[g] = 1 /\ d = Part(g, 1, NoKey)
      BY <1>2, <2>2, NamesAre
    <3>. QED  BY <2>1, <3>1 DEF Part
  <2>. QED  BY <1>2, <2>2, <2>3 DEF OnShelf
<1>. QED  BY <1>1, <1>2

LEMMA ShelfGrows ==
  ASSUME NEW S, NEW T, S \subseteq T
  PROVE  OnShelf(S) \subseteq OnShelf(T)
BY DEF OnShelf

\* Decrypting a part yields the part in clear.
LEMMA DecryptedPart ==
  ASSUME NEW f \in File, NEW i \in Nat, NEW k \in Keys
  PROVE  DecryptData(Part(f, i, k)) = Part(f, i, NoKey)
BY DEF DecryptData, Part

----------------------------------------------------------------------------
(* The inductive invariant.                                                *)

\* A download is about a file that is on the shelf; the parts it has got are
\* those of the file, at their places; it is done with all of them.
FetchOK(o) ==
  LET r == op[o] IN
  Fetches(o) =>
    /\ r.name \in OnShelf(stored)
    /\ IsSealed(r.name) <=> r.kind = "read"
    /\ r.stage = "pool" =>
         /\ IsList(r.name)
         /\ Len(r.got) = Len(Contents[r.name])
         /\ \A i \in 1..Len(r.got) : r.got[i] # NoData => r.got[i] = Contents[r.name][i]
    /\ r.stage = "done" => r.got = Contents[r.name]

FetchInv == Held \subseteq stored /\ \A o \in Op : FetchOK(o)

\* FileStore takes a step, or sees none.
Simulated == Abstract!Next \/ UNCHANGED Abstract!store

\* Nothing that FileStore sees has changed.
LEMMA Stutters ==
  ASSUME OnShelf(stored)' = OnShelf(stored),
         \A o \in Op : Asked'[o] = Asked[o] /\ Outcome'[o] = Outcome[o]
  PROVE  Simulated
<1>1. Asked' = Asked
  BY DEF Asked
<1>2. Outcome' = Outcome
  BY DEF Outcome
<1>. QED  BY <1>1, <1>2 DEF Simulated, Abstract!store

\* An operation is asked the same thing as long as these fields stay.
LEMMA AskStays ==
  ASSUME NEW o \in Op, op'[o].kind = op[o].kind, op'[o].file = op[o].file,
         Fetches(o) => op'[o].name = op[o].name
  PROVE  Asked'[o] = Asked[o]
BY DEF Asked, Fetches

\* FileStore sees an operation end.
LEMMA EndSimulated ==
  ASSUME NEW o \in Op, OnShelf(stored)' = OnShelf(stored),
         \A p \in Op : Asked'[p] = Asked[p], \A p \in Op \ {o} : Outcome'[p] = Outcome[p],
         Outcome[o] = [is |-> "open"],
         \/ /\ Asked[o].do = "put"
            /\ \E h \in OnShelf(stored) :
                 Contents[h] = Asked[o].content /\ Outcome'[o] = [is |-> "named", name |-> h]
         \/ /\ Asked[o].do = "get" /\ Asked[o].name \in OnShelf(stored)
            /\ Outcome'[o] = [is |-> "file", content |-> Contents[Asked[o].name]]
         \/ Asked[o].do = "get" /\ Outcome'[o] = [is |-> "manifest"]
         \/ Asked[o] # [do |-> "nothing"] /\ Outcome'[o] = [is |-> "failed"]
         \/ Asked[o].do = "other" /\ Outcome'[o] = [is |-> "other"]
  PROVE  Simulated
<1>1. Asked' = Asked
  BY DEF Asked
<1>2. Outcome' = [Outcome EXCEPT ![o] = Outcome'[o]]
  <2>1. Outcome = [p \in Op |-> Outcome[p]]
    BY SMTT(30) DEF Outcome
  <2>2. Outcome' = [p \in Op |-> Outcome'[p]]
    BY SMTT(30) DEF Outcome
  <2>. QED  BY <2>1, <2>2
<1>3. \A result : Outcome'[o] = result => Abstract!End(o, result)
  BY <1>1, <1>2 DEF Abstract!End, Abstract!Open
<1>4. CASE /\ Asked[o].do = "put"
           /\ \E h \in OnShelf(stored) :
                Contents[h] = Asked[o].content /\ Outcome'[o] = [is |-> "named", name |-> h]
  <2>1. Abstract!Named(o)
    BY <1>3, <1>4 DEF Abstract!Named
  <2>. QED  BY <2>1 DEF Abstract!Next, Simulated
<1>5. CASE /\ Asked[o].do = "get" /\ Asked[o].name \in OnShelf(stored)
           /\ Outcome'[o] = [is |-> "file", content |-> Contents[Asked[o].name]]
  <2>1. Abstract!Fetched(o)
    BY <1>3, <1>5 DEF Abstract!Fetched
  <2>. QED  BY <2>1 DEF Abstract!Next, Simulated
<1>6. CASE Asked[o].do = "get" /\ Outcome'[o] = [is |-> "manifest"]
  <2>1. Abstract!Misfetched(o)
    BY <1>3, <1>6 DEF Abstract!Misfetched
  <2>. QED  BY <2>1 DEF Abstract!Next, Simulated
<1>7. CASE Asked[o] # [do |-> "nothing"] /\ Outcome'[o] = [is |-> "failed"]
  <2>1. Abstract!Failed(o)
    BY <1>3, <1>7 DEF Abstract!Failed, Abstract!Nothing
  <2>. QED  BY <2>1 DEF Abstract!Next, Simulated
<1>8. CASE Asked[o].do = "other" /\ Outcome'[o] = [is |-> "other"]
  <2>1. Abstract!Other(o)
    BY <1>3, <1>8 DEF Abstract!Other
  <2>. QED  BY <2>1 DEF Abstract!Next, Simulated
<1>. QED  BY <1>4, <1>5, <1>6, <1>7, <1>8

\* What an operation is asked, and how it has ended, by its kind and stage.
LEMMA AskedIs ==
  ASSUME NEW o \in Op
  PROVE  /\ op[o].kind = "none" => Asked[o] = [do |-> "nothing"]
         /\ Uploads(o) => Asked[o] = [do |-> "put", content |-> Parts(op[o].file, NoKey)]
         /\ Fetches(o) => Asked[o] = [do |-> "get", name |-> op[o].name]
         /\ op[o].kind \in Service => Asked[o] = [do |-> "other"]
BY SdkAssumption DEF Asked, Uploads, Fetches

LEMMA DoIs ==
  ASSUME NEW o \in Op
  PROVE  /\ Uploads(o) => Asked[o].do = "put" /\ Asked[o].content = Parts(op[o].file, NoKey)
         /\ Fetches(o) => Asked[o].do = "get" /\ Asked[o].name = op[o].name
         /\ op[o].kind \in Service => Asked[o].do = "other"
<1>1. CASE Uploads(o)
  <2>1. Asked[o] = [do |-> "put", content |-> Parts(op[o].file, NoKey)]
    BY <1>1, AskedIs
  <2>. QED  BY <1>1, <2>1, SdkAssumption DEF Uploads, Fetches
<1>2. CASE Fetches(o)
  <2>1. Asked[o] = [do |-> "get", name |-> op[o].name]
    BY <1>2, AskedIs
  <2>. QED  BY <1>2, <2>1, SdkAssumption DEF Uploads, Fetches
<1>3. CASE op[o].kind \in Service
  <2>1. Asked[o] = [do |-> "other"]
    BY <1>3, AskedIs
  <2>. QED  BY <1>3, <2>1, SdkAssumption DEF Uploads, Fetches
<1>. QED  BY <1>1, <1>2, <1>3

LEMMA OutcomeIs ==
  ASSUME NEW o \in Op
  PROVE  /\ ~Settled(o) => Outcome[o] = [is |-> "open"]
         /\ op[o].stage = "failed" => Outcome[o] = [is |-> "failed"]
         /\ op[o].stage = "bytes" => Outcome[o] = [is |-> "manifest"]
         /\ op[o].stage = "done" =>
              /\ Uploads(o) => Outcome[o] = [is |-> "named", name |-> op[o].name]
              /\ Fetches(o) => Outcome[o] = [is |-> "file", content |-> op[o].got]
              /\ ~Uploads(o) /\ ~Fetches(o) => Outcome[o] = [is |-> "other"]
BY DEF Outcome, Settled, Uploads, Fetches

LEMMA OutcomeBecomes ==
  ASSUME NEW o \in Op
  PROVE  /\ ~Settled(o)' => Outcome'[o] = [is |-> "open"]
         /\ op'[o].stage = "failed" => Outcome'[o] = [is |-> "failed"]
         /\ op'[o].stage = "bytes" => Outcome'[o] = [is |-> "manifest"]
         /\ op'[o].stage = "done" =>
              /\ Uploads(o)' => Outcome'[o] = [is |-> "named", name |-> op'[o].name]
              /\ Fetches(o)' => Outcome'[o] = [is |-> "file", content |-> op'[o].got]
              /\ ~Uploads(o)' /\ ~Fetches(o)' => Outcome'[o] = [is |-> "other"]
BY DEF Outcome, Settled, Uploads, Fetches

\* Operations that a step does not touch.
LEMMA Untouched ==
  ASSUME NEW o \in Op, op'[o] = op[o]
  PROVE  Asked'[o] = Asked[o] /\ Outcome'[o] = Outcome[o]
BY DEF Asked, Outcome, Settled, Stages

\* A step of one operation that has been asked for: it stays open, or ends as
\* FileStore allows.
LEMMA OneMoves ==
  ASSUME SdkInv, SdkInv', FetchInv', NEW o \in Op, stored' = stored,
         \A p \in Op \ {o} : op'[p] = op[p],
         op[o].kind # "none", op'[o].kind = op[o].kind, op'[o].file = op[o].file,
         Fetches(o) => op'[o].name = op[o].name,
         Settled(o) => Outcome'[o] = Outcome[o]
  PROVE  Simulated
<1>1. OnShelf(stored)' = OnShelf(stored)
  OBVIOUS
<1>2. \A p \in Op : Asked'[p] = Asked[p]
  BY Untouched, AskStays
<1>3. \A p \in Op \ {o} : Outcome'[p] = Outcome[p]
  BY Untouched
<1>4. CASE Outcome'[o] = Outcome[o]
  BY <1>1, <1>2, <1>3, <1>4, Stutters
<1>5. CASE Outcome'[o] # Outcome[o]
  <2>1. Outcome[o] = [is |-> "open"] /\ Settled(o)'
    BY <1>5, OutcomeIs, OutcomeBecomes
  <2>2. op'[o].stage \in {"done", "bytes", "failed"}
    BY <2>1 DEF Settled
  <2>3. RecordOK(o)' /\ FetchOK(o)' /\ op[o].kind \in Kind
    BY DEF SdkInv, FetchInv, OpInv, TypeOK, Operation
  <2>4. (Uploads(o)' <=> Uploads(o)) /\ (Fetches(o)' <=> Fetches(o))
    BY DEF Uploads, Fetches
  <2>10. \/ /\ Asked[o].do = "put"
            /\ \E h \in OnShelf(stored) :
                 Contents[h] = Asked[o].content /\ Outcome'[o] = [is |-> "named", name |-> h]
         \/ /\ Asked[o].do = "get" /\ Asked[o].name \in OnShelf(stored)
            /\ Outcome'[o] = [is |-> "file", content |-> Contents[Asked[o].name]]
         \/ Asked[o].do = "get" /\ Outcome'[o] = [is |-> "manifest"]
         \/ Asked[o] # [do |-> "nothing"] /\ Outcome'[o] = [is |-> "failed"]
         \/ Asked[o].do = "other" /\ Outcome'[o] = [is |-> "other"]
         => Simulated
    BY ONLY <1>1, <1>2, <1>3, <2>1, EndSimulated, o \in Op
  <2>5. CASE op'[o].stage = "failed"
    <3>1. Asked[o] # [do |-> "nothing"]
      <4>1. Uploads(o) \/ Fetches(o) \/ op[o].kind \in Service
        BY <2>3 DEF Kind, Uploads, Fetches
      <4>2. Asked[o].do # "nothing"
        BY <4>1, DoIs
      <4>3. [do |-> "nothing"].do = "nothing"
        OBVIOUS
      <4>. QED  BY <4>2, <4>3
    <3>2. Outcome'[o] = [is |-> "failed"]
      BY <2>5, OutcomeBecomes
    <3>. QED  BY <3>1, <3>2, <2>10
  <2>6. CASE op'[o].stage = "bytes"
    <3>1. Fetches(o)
      BY <2>3, <2>4, <2>6 DEF RecordOK, StagesOf, Fetches
    <3>2. Asked[o].do = "get" /\ Outcome'[o] = [is |-> "manifest"]
      BY <2>6, <3>1, DoIs, OutcomeBecomes
    <3>. QED  BY <3>2, <2>10
  <2>7. CASE op'[o].stage = "done" /\ Uploads(o)
    <3>1. op'[o].name \in stored' /\ Holds(stored', op'[o].name, op'[o].file) /\ op'[o].file \in File
      BY <2>3, <2>4, <2>7 DEF RecordOK
    <3>2. op'[o].name \in OnShelf(stored) /\ Contents[op'[o].name] = Parts(op[o].file, NoKey)
      BY <3>1, HoldsIsOnShelf
    <3>3. Asked[o].do = "put" /\ Asked[o].content = Parts(op[o].file, NoKey)
      BY <2>7, DoIs
    <3>4. Outcome'[o] = [is |-> "named", name |-> op'[o].name]
      BY <2>4, <2>7, OutcomeBecomes
    <3>. QED  BY <3>2, <3>3, <3>4, <2>10
  <2>8. CASE op'[o].stage = "done" /\ Fetches(o)
    <3>1. op'[o].name \in OnShelf(stored) /\ op'[o].got = Contents[op[o].name]
      BY <2>3, <2>4, <2>8 DEF FetchOK
    <3>2. Asked[o].do = "get" /\ Asked[o].name = op[o].name
      BY <2>8, DoIs
    <3>3. Outcome'[o] = [is |-> "file", content |-> op'[o].got]
      BY <2>4, <2>8, OutcomeBecomes
    <3>. QED  BY <2>8, <3>1, <3>2, <3>3, <2>10
  <2>9. CASE op'[o].stage = "done" /\ ~Uploads(o) /\ ~Fetches(o)
    <3>1. op[o].kind \in Service
      BY <2>3, <2>9 DEF Kind, Uploads, Fetches
    <3>2. Asked[o].do = "other" /\ Outcome'[o] = [is |-> "other"]
      BY <2>4, <2>9, <3>1, DoIs, OutcomeBecomes
    <3>. QED  BY <3>2, <2>10
  <2>. QED  BY <2>2, <2>5, <2>6, <2>7, <2>8, <2>9
<1>. QED  BY <1>4, <1>5

----------------------------------------------------------------------------
(* Operations begin.                                                       *)

\* The names that the user can know are on the shelf.
LEMMA KnownIsOnShelf ==
  ASSUME SdkInv, Held \subseteq stored, NEW d \in Known
  PROVE  d \in OnShelf(stored)
<1>1. CASE d \in Held /\ IsList(d)
  <2>1. PICK f \in File : Holds(Held, d, f)
    BY <1>1, HeldAssumption
  <2>2. Holds(stored, d, f)
    BY <2>1, HoldsGrows
  <2>. QED  BY <1>1, <2>2, HoldsIsOnShelf
<1>2. CASE \E p \in Op : Uploads(p) /\ op[p].stage = "done" /\ d = op[p].name
  <2>1. PICK p \in Op : Uploads(p) /\ op[p].stage = "done" /\ d = op[p].name
    BY <1>2
  <2>2. d \in stored /\ Holds(stored, d, op[p].file) /\ op[p].file \in File
    BY <2>1 DEF SdkInv, OpInv, RecordOK
  <2>. QED  BY <2>2, HoldsIsOnShelf
<1>. QED  BY <1>1, <1>2 DEF Known, Uploads, Stages

\* What a call of the user makes of an operation.
LEMMA UserStarts ==
  ASSUME SdkInv, NEW o \in Op, UserCalls(o)
  PROVE  /\ op[o].kind = "none" /\ network' = network
         /\ \E r : /\ op' = [op EXCEPT ![o] = r]
                   /\ \/ r.kind \in {"upload", "private"} /\ r.file \in File /\ r.stage \in {"single", "pool"}
                      \/ r.kind = "download" /\ r.stage = "root" /\ r.name \in Known /\ ~IsSealed(r.name)
                      \/ r.kind = "read" /\ r.stage = "access" /\ r.name \in Known /\ IsSealed(r.name)
                      \/ r.kind \in Service /\ r.stage = "request"
<1>1. Stages(o, "none") /\ network' = network
  BY DEF UserCalls, UploadFile, UploadPrivateFile, DownloadFile, DownloadPrivateFile, RegisterDid,
         IngestJson, IndexDocument, Request, Start, UploadSingleChunk, ConsensusRequest, Begin
<1>2. op[o].kind = "none"
  <2>1. op[o].stage = "none" /\ op[o].kind \in Kind /\ RecordOK(o)
    BY <1>1 DEF Stages, SdkInv, OpInv, TypeOK, Operation
  <2>. QED  BY <2>1 DEF RecordOK, StagesOf
<1>. DEFINE begun ==
       \E r : /\ op' = [op EXCEPT ![o] = r]
              /\ \/ r.kind \in {"upload", "private"} /\ r.file \in File /\ r.stage \in {"single", "pool"}
                 \/ r.kind = "download" /\ r.stage = "root" /\ r.name \in Known /\ ~IsSealed(r.name)
                 \/ r.kind = "read" /\ r.stage = "access" /\ r.name \in Known /\ IsSealed(r.name)
                 \/ r.kind \in Service /\ r.stage = "request"
<1>3. ASSUME UploadFile(o)
      PROVE  begun
  <2>1. PICK f, r :
          /\ f \in Mine
          /\ \/ r = [NoOp EXCEPT !.kind = "upload", !.file = f, !.stage = "single"]
             \/ r = [NoOp EXCEPT !.kind = "upload", !.file = f, !.stage = "pool", !.got = Blank(Length[f])]
          /\ op' = [op EXCEPT ![o] = r]
    BY <1>3 DEF UploadFile, Start, NoOp
  <2>2. r.kind = "upload" /\ r.file \in File /\ r.stage \in {"single", "pool"}
    BY <2>1, SdkAssumption DEF NoOp
  <2>. QED  BY <2>1, <2>2
<1>4. ASSUME UploadPrivateFile(o)
      PROVE  begun
  <2>1. PICK f, r :
          /\ f \in Mine
          /\ r = [NoOp EXCEPT !.kind = "private", !.stage = "pool", !.file = f, !.key = o,
                              !.got = Blank(Length[f])]
          /\ op' = [op EXCEPT ![o] = r]
    BY <1>4 DEF UploadPrivateFile, Start
  <2>2. r.kind = "private" /\ r.file \in File /\ r.stage = "pool"
    BY <2>1, SdkAssumption DEF NoOp
  <2>. QED  BY <2>1, <2>2
<1>5. ASSUME DownloadFile(o)
      PROVE  begun
  <2>1. PICK d, r :
          /\ d \in Known
          /\ ~IsSealed(d) /\ r = [NoOp EXCEPT !.kind = "download", !.stage = "root", !.name = d]
          /\ op' = [op EXCEPT ![o] = r]
    BY <1>5 DEF DownloadFile, Start
  <2>2. r.kind = "download" /\ r.stage = "root" /\ r.name = d
    BY <2>1 DEF NoOp
  <2>. QED  BY <2>1, <2>2
<1>6. ASSUME DownloadPrivateFile(o)
      PROVE  begun
  <2>1. PICK d, r :
          /\ d \in Known
          /\ IsSealed(d) /\ r = [NoOp EXCEPT !.kind = "read", !.stage = "access", !.name = d]
          /\ op' = [op EXCEPT ![o] = r]
    BY <1>6 DEF DownloadPrivateFile, Start
  <2>2. r.kind = "read" /\ r.stage = "access" /\ r.name = d
    BY <2>1 DEF NoOp
  <2>. QED  BY <2>1, <2>2
<1>7. ASSUME RegisterDid(o) \/ IngestJson(o) \/ IndexDocument(o)
      PROVE  begun
  <2>1. PICK s, r :
          /\ s \in Service
          /\ r = [NoOp EXCEPT !.kind = s, !.stage = "request"]
          /\ op' = [op EXCEPT ![o] = r]
    BY <1>7, SdkAssumption DEF RegisterDid, IngestJson, IndexDocument, Request, Start
  <2>2. r.kind = s /\ r.stage = "request"
    BY <2>1 DEF NoOp
  <2>. QED  BY <2>1, <2>2
<1>8. begun
  BY <1>3, <1>4, <1>5, <1>6, <1>7 DEF UserCalls
<1>. QED  BY <1>1, <1>2, <1>8

\* The contents of a file are contents that FileStore knows.
LEMMA FileIsContent ==
  ASSUME NEW f \in File
  PROVE  Parts(f, NoKey) \in Range(Contents)
<1>. DEFINE d == Manifest(Parts(f, NoKey), NoKey # NoKey)
<1>0. NoKey \in Keys
  BY DEF Keys
<1>1. d \in Names
  BY <1>0 DEF Names, Keys
<1>2. d.parts = Parts(f, NoKey) /\ IsList(d)
  BY DEF Manifest, IsList
<1>3. d.parts[1].file = f
  <2>1. Parts(f, NoKey)[1] = Part(f, 1, NoKey)
    BY <1>0, PartsOf
  <2>. QED  BY <1>2, <2>1 DEF Part
<1>. HIDE DEF d
<1>4. Contents[d] = Parts(f, NoKey)
  BY <1>1, <1>2, <1>3, ContentsOf
<1>5. d \in DOMAIN Contents
  BY <1>1 DEF Contents
<1>. QED  BY <1>4, <1>5 DEF Range

\* FileStore sees an operation begin.
LEMMA BeginSimulated ==
  ASSUME SdkInv, FetchInv, NEW o \in Op, UserCalls(o)
  PROVE  Simulated
<1>1. PICK r : /\ op' = [op EXCEPT ![o] = r]
               /\ \/ r.kind \in {"upload", "private"} /\ r.file \in File /\ r.stage \in {"single", "pool"}
                  \/ r.kind = "download" /\ r.stage = "root" /\ r.name \in Known /\ ~IsSealed(r.name)
                  \/ r.kind = "read" /\ r.stage = "access" /\ r.name \in Known /\ IsSealed(r.name)
                  \/ r.kind \in Service /\ r.stage = "request"
  BY UserStarts
<1>2. op[o].kind = "none" /\ stored' = stored
  BY UserStarts DEF network
<1>3. op'[o] = r /\ \A p \in Op \ {o} : op'[p] = op[p]
  BY <1>1 DEF SdkInv, TypeOK
<1>4. Asked[o] = [do |-> "nothing"]
  BY <1>2, AskedIs
<1>5. Asked'[o] \in Abstract!Asks
  <2>1. CASE r.kind \in {"upload", "private"}
    <3>1. Asked'[o] = [do |-> "put", content |-> Parts(r.file, NoKey)]
      BY <1>3, <2>1 DEF Asked
    <3>2. Parts(r.file, NoKey) \in Range(Contents)
      BY <1>1, <2>1, FileIsContent, SdkAssumption
    <3>. QED  BY <3>1, <3>2 DEF Abstract!Asks
  <2>2. CASE r.kind \in {"download", "read"}
    <3>1. Asked'[o] = [do |-> "get", name |-> r.name]
      BY <1>3, <2>2 DEF Asked
    <3>2. r.name \in Names
      BY <1>1, <2>2, KnownIsOnShelf, SdkAssumption DEF FetchInv, OnShelf
    <3>. QED  BY <3>1, <3>2 DEF Abstract!Asks
  <2>3. CASE r.kind \in Service
    <3>1. Asked'[o] = [do |-> "other"]
      BY <1>3, <2>3, SdkAssumption DEF Asked
    <3>. QED  BY <3>1 DEF Abstract!Asks
  <2>. QED  BY <1>1, <2>1, <2>2, <2>3
<1>6. Asked' = [Asked EXCEPT ![o] = Asked'[o]]
  <2>1. Asked = [p \in Op |-> Asked[p]] /\ Asked' = [p \in Op |-> Asked'[p]]
    BY DEF Asked
  <2>2. \A p \in Op \ {o} : Asked'[p] = Asked[p]
    BY <1>3, Untouched
  <2>. QED  BY <2>1, <2>2
<1>7. Outcome' = Outcome
  <2>1. Outcome = [p \in Op |-> Outcome[p]] /\ Outcome' = [p \in Op |-> Outcome'[p]]
    BY SMTT(30) DEF Outcome
  <2>2. \A p \in Op \ {o} : Outcome'[p] = Outcome[p]
    BY <1>3, Untouched
  <2>3. ~Settled(o) /\ ~Settled(o)'
    <3>1. op[o].stage = "none"
      BY <1>2 DEF SdkInv, OpInv, RecordOK, StagesOf
    <3>. QED  BY <1>1, <1>3, <3>1 DEF Settled
  <2>4. Outcome'[o] = Outcome[o]
    BY <2>3, OutcomeIs, OutcomeBecomes
  <2>. QED  BY <2>1, <2>2, <2>4
<1>8. Abstract!Begin(o)
  BY <1>2, <1>4, <1>5, <1>6, <1>7 DEF Abstract!Begin, Abstract!Nothing
<1>. QED  BY <1>8 DEF Abstract!Next, Simulated

----------------------------------------------------------------------------
(* Files appear on the shelf.                                              *)

\* What an upload puts is a part of its file, or the manifest of its parts.
LEMMA PutsAre ==
  ASSUME SdkInv, NEW o \in Op, NEW w \in 0..Pool, call[<<o, w>>].at # "idle",
         call[<<o, w>>].do = "put"
  PROVE  /\ Uploads(o) /\ op[o].file \in File /\ op[o].key \in Keys
         /\ LET x == call[<<o, w>>].what IN
            \/ \E i \in Nat, k \in Keys : x = Part(op[o].file, i, k)
            \/ x = Manifest(Parts(op[o].file, op[o].key), op[o].key # NoKey)
<1>1. OpInv(o) /\ op[o].kind \in Kind /\ TypeOK
  BY DEF SdkInv, TypeOK, Operation
<1>2. NoKey \in Keys
  BY DEF Keys
<1>3. CASE w = 0
  <2>1. call[Main(o)] = call[<<o, w>>]
    BY <1>3 DEF Main
  <2>2. \/ op[o].stage = "single" /\ call[<<o, w>>].what = Part(op[o].file, 1, NoKey)
        \/ /\ op[o].stage = "manifest"
           /\ call[<<o, w>>].what = Manifest(Parts(op[o].file, op[o].key), op[o].key # NoKey)
    BY <1>1, <2>1 DEF OpInv, MainOK
  <2>3. Uploads(o)
    BY <1>1, <2>2 DEF OpInv, RecordOK, StagesOf, Uploads
  <2>. QED  BY <1>1, <1>2, <2>2, <2>3, UploadKey DEF OpInv
<1>4. CASE w # 0
  <2>1. w \in 1..Pool
    BY <1>4, SdkAssumption
  <2>2. WorkerOK(o, w)
    BY <1>1, <2>1 DEF OpInv
  <2>3. Uploads(o)
    BY <2>2 DEF WorkerOK
  <2>4. op[o].file \in File /\ op[o].key \in Keys
    BY <1>1, <2>3, UploadKey DEF OpInv
  <2>5. /\ call[<<o, w>>].what = Part(op[o].file, call[<<o, w>>].slot, op[o].key)
        /\ call[<<o, w>>].slot \in Nat
    BY <1>1, <2>1, <2>3, WorkerAsks
  <2>. QED  BY <2>3, <2>4, <2>5
<1>. QED  BY <1>3, <1>4

\* If that is a name, it is one of the file being uploaded.
LEMMA PutsName ==
  ASSUME NEW f \in File, NEW g \in Keys, NEW x \in Names,
         \/ \E i \in Nat, k \in Keys : x = Part(f, i, k)
         \/ x = Manifest(Parts(f, g), g # NoKey)
  PROVE  Contents[x] = Parts(f, NoKey)
<1>1. CASE \E i \in Nat, k \in Keys : x = Part(f, i, k)
  <2>1. PICK i \in Nat, k \in Keys : x = Part(f, i, k)
    BY <1>1
  <2>2. ~IsList(x) /\ x.file = f
    BY <2>1, PartsOf, PiecesAreNotLists DEF Part
  <2>3. PICK h \in File : Contents[x] = Parts(h, NoKey) /\ x = Part(h, 1, NoKey)
    BY <2>2, NamesAre
  <2>4. x.file = h
    BY <2>3 DEF Part
  <2>. QED  BY <2>2, <2>3, <2>4
<1>2. CASE x = Manifest(Parts(f, g), g # NoKey)
  <2>1. x.parts = Parts(f, g) /\ IsList(x)
    BY <1>2 DEF Manifest, IsList
  <2>2. x.parts[1].file = f
    <3>1. Parts(f, g)[1] = Part(f, 1, g)
      BY PartsOf
    <3>. QED  BY <2>1, <3>1 DEF Part
  <2>. QED  BY <2>1, <2>2, ContentsOf
<1>. QED  BY <1>1, <1>2

\* A request is served: at most one file appears, the one that was asked for.
LEMMA ServeSimulated ==
  ASSUME SdkInv, NEW l \in Lane, Serve(l)
  PROVE  Simulated
<1>1. PICK o, w : l = <<o, w>> /\ o \in Op /\ w \in 0..Pool
  BY LaneIs
<1>2. PICK x : x = call[l].what
  OBVIOUS
<1>3. /\ call[l].at = "sent" /\ op' = op
      /\ stored' = IF call[l].do = "put" THEN stored \cup {x} ELSE stored
  BY <1>2 DEF Serve
<1>4. Asked' = Asked /\ Outcome' = Outcome
  BY <1>3 DEF Asked, Outcome, Settled, Stages
<1>5. CASE OnShelf(stored)' = OnShelf(stored)
  BY <1>4, <1>5 DEF Simulated, Abstract!store
<1>6. CASE OnShelf(stored)' # OnShelf(stored)
  <2>1. call[l].do = "put" /\ stored' = stored \cup {x}
    BY <1>3, <1>6
  <2>2. \A d \in Names \cap stored : IsList(d) => Range(d.parts) \subseteq stored
    BY DEF SdkInv, ServicesOK, ManifestsAreWhole, Whole, Holds
  <2>3. OnShelf(stored) \subseteq OnShelf(stored)'
    BY <2>1 DEF OnShelf
  <2>4. OnShelf(stored)' \subseteq OnShelf(stored) \cup {x}
    BY <2>1, <2>2 DEF OnShelf
  <2>5. x \in Names \ OnShelf(stored) /\ OnShelf(stored)' = OnShelf(stored) \cup {x}
    <3>1. x \in OnShelf(stored)' /\ x \notin OnShelf(stored)
      BY <1>6, <2>3, <2>4
    <3>2. x \in Names
      BY <3>1 DEF OnShelf
    <3>. QED  BY <2>3, <2>4, <3>1, <3>2
  <2>6. Uploads(o) /\ Contents[x] = Parts(op[o].file, NoKey)
    <3>1. /\ Uploads(o) /\ op[o].file \in File /\ op[o].key \in Keys
          /\ \/ \E i \in Nat, k \in Keys : x = Part(op[o].file, i, k)
             \/ x = Manifest(Parts(op[o].file, op[o].key), op[o].key # NoKey)
      BY <1>1, <1>2, <1>3, <2>1, PutsAre
    <3>. QED  BY <2>5, <3>1, PutsName
  <2>7. Asked[o].do = "put" /\ Asked[o].content = Parts(op[o].file, NoKey)
    BY <1>1, <2>6, DoIs
  <2>8. Abstract!Publish(o)
    BY <1>4, <2>5, <2>6, <2>7 DEF Abstract!Publish
  <2>. QED  BY <1>1, <2>8 DEF Abstract!Next, Simulated
<1>. QED  BY <1>5, <1>6

----------------------------------------------------------------------------
(* Downloads.                                                              *)

LEMMA FetchStays ==
  ASSUME NEW o \in Op, FetchOK(o), op'[o] = op[o], stored \subseteq stored'
  PROVE  FetchOK(o)'
<1>1. OnShelf(stored) \subseteq OnShelf(stored')
  BY ShelfGrows
<1>2. Fetches(o)' <=> Fetches(o)
  BY DEF Fetches
<1>. QED  BY <1>1, <1>2 DEF FetchOK

\* A download that has neither got its manifest, nor ended well, by this step.
LEMMA FetchMoves ==
  ASSUME NEW o \in Op, FetchOK(o), stored \subseteq stored',
         op'[o].kind = op[o].kind, Fetches(o) => op'[o].name = op[o].name,
         Fetches(o) /\ op'[o].stage \in {"pool", "done"} =>
           op'[o].stage = op[o].stage /\ op'[o].got = op[o].got
  PROVE  FetchOK(o)'
<1>1. OnShelf(stored) \subseteq OnShelf(stored')
  BY ShelfGrows
<1>2. Fetches(o)' <=> Fetches(o)
  BY DEF Fetches
<1>. QED  BY <1>1, <1>2 DEF FetchOK

\* A step of one operation.
LEMMA FetchOne ==
  ASSUME FetchInv, NEW o \in Op, \A p \in Op \ {o} : op'[p] = op[p],
         stored \subseteq stored', FetchOK(o)'
  PROVE  FetchInv'
<1>1. \A p \in Op \ {o} : FetchOK(p)'
  BY FetchStays DEF FetchInv
<1>. QED  BY <1>1 DEF FetchInv

\* Steps that change no operation.
LEMMA FetchNone ==
  ASSUME FetchInv, op' = op, stored \subseteq stored'
  PROVE  FetchInv'
BY FetchStays DEF FetchInv

\* The user calls the SDK.
LEMMA FetchUserStep ==
  ASSUME SdkInv, FetchInv, NEW o \in Op, UserCalls(o)
  PROVE  FetchInv'
<1>1. PICK r : /\ op' = [op EXCEPT ![o] = r]
               /\ \/ r.kind \in {"upload", "private"} /\ r.file \in File /\ r.stage \in {"single", "pool"}
                  \/ r.kind = "download" /\ r.stage = "root" /\ r.name \in Known /\ ~IsSealed(r.name)
                  \/ r.kind = "read" /\ r.stage = "access" /\ r.name \in Known /\ IsSealed(r.name)
                  \/ r.kind \in Service /\ r.stage = "request"
  BY UserStarts
<1>2. stored' = stored
  BY UserStarts DEF network
<1>3. op'[o] = r /\ \A p \in Op \ {o} : op'[p] = op[p]
  BY <1>1 DEF SdkInv, TypeOK
<1>4. Fetches(o)' => r.name \in OnShelf(stored) /\ r.stage \notin {"pool", "done"}
                     /\ (IsSealed(r.name) <=> r.kind = "read")
  BY <1>1, <1>3, KnownIsOnShelf, SdkAssumption DEF FetchInv, Fetches
<1>5. FetchOK(o)'
  BY <1>2, <1>3, <1>4 DEF FetchOK
<1>. QED  BY <1>2, <1>3, <1>5, FetchOne

\* A step of one operation that has been asked for, with what it has got.
LEMMA MoveOne ==
  ASSUME SdkInv, SdkInv', FetchInv, NEW o \in Op, stored' = stored,
         \A p \in Op \ {o} : op'[p] = op[p],
         op[o].kind # "none", op'[o].kind = op[o].kind, op'[o].file = op[o].file,
         Fetches(o) => op'[o].name = op[o].name,
         Settled(o) => Outcome'[o] = Outcome[o],
         FetchOK(o)'
  PROVE  FetchInv' /\ Simulated
<1>1. FetchInv'
  BY FetchOne
<1>. QED  BY <1>1, OneMoves

\* A step that leaves every operation as it is, with the data stored.
LEMMA MoveNone ==
  ASSUME FetchInv, op' = op, stored' = stored
  PROVE  FetchInv' /\ Simulated
<1>1. FetchInv'
  BY FetchNone
<1>2. \A o \in Op : Asked'[o] = Asked[o] /\ Outcome'[o] = Outcome[o]
  BY Untouched
<1>. QED  BY <1>1, <1>2, Stutters

\* All parts have been fetched, and put together.
LEMMA AssembleSimulated ==
  ASSUME SdkInv, SdkInv', FetchInv, NEW o \in Op, Assemble(o)
  PROVE  FetchInv' /\ Simulated
<1>1. /\ op[o].stage = "pool" /\ op[o].kind \in {"download", "read"} /\ Fetches(o)
      /\ \A i \in 1..Len(op[o].got) : op[o].got[i] # NoData
  BY PoolIsComplete DEF Assemble, SdkInv, Fetches
<1>2. op' = [op EXCEPT ![o].stage = "done"] /\ stored' = stored
  BY DEF Assemble, Goto, network
<1>3. op \in [Op -> Operation] /\ op[o] \in Operation
  BY DEF SdkInv, TypeOK
<1>4. /\ op'[o].kind = op[o].kind /\ op'[o].file = op[o].file /\ op'[o].name = op[o].name
      /\ op'[o].got = op[o].got /\ op'[o].stage = "done" /\ \A p \in Op \ {o} : op'[p] = op[p]
  BY <1>2, <1>3 DEF Operation
<1>5. op[o].got = Contents[op[o].name]
  <2>1. /\ op[o].name \in OnShelf(stored) /\ Len(op[o].got) = Len(Contents[op[o].name])
        /\ \A i \in 1..Len(op[o].got) : op[o].got[i] = Contents[op[o].name][i]
    BY <1>1 DEF FetchInv, FetchOK
  <2>2. PICK f \in File : Contents[op[o].name] = Parts(f, NoKey)
    BY <2>1, NamesAre DEF OnShelf
  <2>3. NoKey \in Keys
    BY DEF Keys
  <2>4. Contents[op[o].name] \in Seq(Piece) /\ op[o].got \in Seq(Data)
    BY <1>3, <2>2, <2>3, PartsOf DEF Operation
  <2>. QED  BY <2>1, <2>4
<1>6. FetchOK(o)'
  <2>1. FetchOK(o)
    BY DEF FetchInv
  <2>. QED  BY <1>1, <1>2, <1>4, <1>5, <2>1 DEF FetchOK, Fetches
<1>7. ~Settled(o)
  BY <1>1 DEF Settled
<1>. QED  BY <1>1, <1>2, <1>4, <1>6, <1>7, MoveOne

LEMMA MainStepSimulated ==
  ASSUME SdkInv, SdkInv', FetchInv, NEW o \in Op, MainSteps(o)
  PROVE  FetchInv' /\ Simulated
<1>1. CASE UploadManifest(o) \/ IndexPrivateFile(o)
  <2>1. /\ op[o].stage \in {"pool", "granted"} /\ Uploads(o) /\ ~Fetches(o) /\ stored' = stored
        /\ op' = op \/ \E t : op' = [op EXCEPT ![o].stage = t]
    <3>1. CASE UploadManifest(o)
      BY <3>1 DEF UploadManifest, PoolEnds, Stages, Goto, UploadSingleChunk, Begin, network,
         Uploads, Fetches
    <3>2. CASE IndexPrivateFile(o)
      <4>1. /\ op[o].stage = "granted" /\ stored' = stored
            /\ op' = op \/ \E t : op' = [op EXCEPT ![o].stage = t]
        BY <3>2 DEF IndexPrivateFile, Stages, Goto, SearchRequest, Begin, network
      <4>2. RecordOK(o)
        BY DEF SdkInv, OpInv
      <4>3. op[o].kind = "private"
        BY <4>1, <4>2 DEF RecordOK, StagesOf
      <4>. QED  BY <4>1, <4>3 DEF Uploads, Fetches
    <3>. QED  BY <1>1, <3>1, <3>2
  <2>2. op \in [Op -> Operation] /\ op[o] \in Operation /\ FetchOK(o)
    BY DEF SdkInv, TypeOK, FetchInv
  <2>3. op'[o].kind = op[o].kind /\ op'[o].file = op[o].file /\ \A p \in Op \ {o} : op'[p] = op[p]
    BY <2>1, <2>2 DEF Operation
  <2>4. FetchOK(o)'
    BY <2>1, <2>3 DEF FetchOK, Fetches
  <2>5. ~Settled(o) /\ op[o].kind # "none"
    BY <2>1 DEF Settled, Uploads
  <2>. QED  BY <2>1, <2>3, <2>4, <2>5, MoveOne
<1>2. CASE GrantFileAccess(o) \/ FetchRoot(o)
  <2>1. op' = op /\ stored' = stored
    BY <1>2 DEF GrantFileAccess, FetchRoot, DownloadSingleChunk, ConsensusRequest, Begin, network
  <2>. QED  BY <2>1, MoveNone
<1>3. CASE Assemble(o)
  BY <1>3, AssembleSimulated
<1>. QED  BY <1>1, <1>2, <1>3 DEF MainSteps

\* A worker takes a part: FileStore sees nothing.
LEMMA ClaimSimulated ==
  ASSUME SdkInv, SdkInv', FetchInv, NEW l \in Lane, ClaimPart(l)
  PROVE  FetchInv' /\ Simulated
<1>1. PICK o, w : l = <<o, w>> /\ o \in Op /\ w \in 0..Pool
  BY LaneIs
<1>2. PICK n : op' = [op EXCEPT ![o].next = n]
  BY <1>1 DEF ClaimPart
<1>3. op \in [Op -> Operation] /\ op[o] \in Operation /\ FetchOK(o) /\ RecordOK(o)
  BY <1>1 DEF SdkInv, TypeOK, FetchInv, OpInv
<1>4. /\ op'[o].kind = op[o].kind /\ op'[o].file = op[o].file /\ op'[o].name = op[o].name
      /\ op'[o].got = op[o].got /\ op'[o].stage = op[o].stage /\ \A p \in Op \ {o} : op'[p] = op[p]
  BY <1>1, <1>2, <1>3 DEF Operation
<1>5. stored' = stored /\ op[o].next <= Len(op[o].got)
  BY <1>1 DEF ClaimPart, UploadSingleChunk, DownloadSingleChunk, Begin, network
<1>6. op[o].kind # "none"
  BY <1>3, <1>5 DEF RecordOK, Uploads, Fetches
<1>7. FetchOK(o)'
  BY <1>1, <1>3, <1>4, <1>5, FetchMoves
<1>8. Outcome'[o] = Outcome[o]
  BY <1>1, <1>4 DEF Outcome, Settled, Stages
<1>. QED  BY <1>1, <1>4, <1>5, <1>6, <1>7, <1>8, MoveOne

----------------------------------------------------------------------------
(* Requests end.                                                           *)

\* What an operation is, and is about, stays when a request of its main flow ends.
LEMMA MainResolvedFields ==
  ASSUME TypeOK, NEW o \in Op, OpInv(o), call[Main(o)].at = "served"
  PROVE  LET r == MainResolved(o, call[Main(o)].what) IN
         r.kind = op[o].kind /\ r.file = op[o].file /\ (Fetches(o) => r.name = op[o].name)
<1>1. PICK d \in Data : d = call[Main(o)].what
  BY MainAsks
<1>2. op[o] \in Operation
  BY DEF TypeOK
<1>3. Fetches(o) => op[o].stage \notin {"single", "manifest"}
  BY MainAsks DEF Fetches
<1>4. /\ \A t, x : LET r == [op[o] EXCEPT !.stage = t, !.name = x]
                   IN  r.kind = op[o].kind /\ r.file = op[o].file
      /\ \A t : LET r == [op[o] EXCEPT !.stage = t]
                IN  r.kind = op[o].kind /\ r.file = op[o].file /\ r.name = op[o].name
      /\ \A t, x : LET r == [op[o] EXCEPT !.stage = t, !.key = x]
                   IN  r.kind = op[o].kind /\ r.file = op[o].file /\ r.name = op[o].name
      /\ \A t, x : LET r == [op[o] EXCEPT !.stage = t, !.got = x]
                   IN  r.kind = op[o].kind /\ r.file = op[o].file /\ r.name = op[o].name
      /\ \A t, x : LET r == [op[o] EXCEPT !.stage = t, !.got = x, !.next = 2]
                   IN  r.kind = op[o].kind /\ r.file = op[o].file /\ r.name = op[o].name
  BY <1>2 DEF Operation
<1>5. op[o].stage \in {"single", "manifest", "grant", "text", "image", "access", "root", "request"}
  BY MainWaits
<1>6. PICK r : r = MainResolved(o, d)
  OBVIOUS
<1>7. CASE op[o].stage \in {"single", "manifest"}
  <2>1. \E t, x : r = [op[o] EXCEPT !.stage = t, !.name = x]
    <3>1. CASE op[o].stage = "single"
      BY <1>6, <3>1 DEF MainResolved
    <3>2. CASE op[o].stage = "manifest"
      BY <1>6, <3>2 DEF MainResolved
    <3>. QED  BY <1>7, <3>1, <3>2
  <2>. QED  BY <1>1, <1>3, <1>4, <1>6, <1>7, <2>1
<1>8. CASE op[o].stage \in {"grant", "text", "image", "request"}
  BY <1>1, <1>4, <1>6, <1>8 DEF MainResolved
<1>9. CASE op[o].stage = "access"
  BY <1>1, <1>4, <1>6, <1>9 DEF MainResolved
<1>10. CASE op[o].stage = "root"
  <2>1. op[o].kind \in {"download", "read"}
    BY <1>10, MainAsks
  <2>2. \/ r = [op[o] EXCEPT !.stage = "pool", !.got = Blank(Len(d.parts))]
        \/ \E t : r = [op[o] EXCEPT !.stage = t]
        \/ \E x : r = [op[o] EXCEPT !.stage = "done", !.got = x, !.next = 2]
    <3>1. CASE Recognised(d, op[o].kind = "read")
      BY <1>6, <1>10, <2>1, <3>1 DEF MainResolved
    <3>2. CASE op[o].kind = "download" /\ ~Recognised(d, FALSE)
      BY <1>6, <1>10, <2>1, <3>2 DEF MainResolved
    <3>3. CASE op[o].kind = "read" /\ ~Recognised(d, TRUE)
      <4>1. CASE Decrypts(o, d)
        <5>1. r = [op[o] EXCEPT !.stage = "done", !.got = <<DecryptData(d)>>, !.next = 2]
          BY <1>6, <1>10, <3>3, <4>1 DEF MainResolved
        <5>. QED  BY <5>1
      <4>2. CASE ~Decrypts(o, d)
        <5>1. r = [op[o] EXCEPT !.stage = "failed"]
          BY <1>6, <1>10, <3>3, <4>2 DEF MainResolved
        <5>. QED  BY <5>1
      <4>. QED  BY <4>1, <4>2
    <3>. QED  BY <2>1, <3>1, <3>2, <3>3 DEF Recognised
  <2>3. r.kind = op[o].kind /\ r.file = op[o].file /\ r.name = op[o].name
    <3>1. CASE r = [op[o] EXCEPT !.stage = "pool", !.got = Blank(Len(d.parts))]
      <4>1. PICK x : x = Blank(Len(d.parts))
        OBVIOUS
      <4>. QED  BY ONLY <1>2, <3>1, <4>1 DEF Operation
    <3>2. CASE \E t : r = [op[o] EXCEPT !.stage = t]
      BY <1>4, <3>2
    <3>3. CASE \E x : r = [op[o] EXCEPT !.stage = "done", !.got = x, !.next = 2]
      BY <1>4, <3>3
    <3>. QED  BY <2>2, <3>1, <3>2, <3>3
  <2>. QED  BY <1>1, <1>6, <2>3
<1>. QED  BY <1>5, <1>7, <1>8, <1>9, <1>10

\* The root of a download arrives: a manifest, or the only part.
LEMMA RootArrives ==
  ASSUME SdkInv, FetchInv, NEW o \in Op, call[Main(o)].at = "served", op[o].stage = "root",
         NEW r, r = MainResolved(o, call[Main(o)].what)
  PROVE  /\ r.stage = "pool" =>
              /\ IsList(op[o].name)
              /\ Len(r.got) = Len(Contents[op[o].name])
              /\ \A i \in 1..Len(r.got) : r.got[i] = NoData
         /\ r.stage = "done" => r.got = Contents[op[o].name]
<1>1. PICK d \in Data : d = call[Main(o)].what
  BY MainAsks DEF SdkInv
<1>2. d = op[o].name /\ op[o].kind \in {"download", "read"} /\ op[o] \in Operation
  BY <1>1, MainAsks, MainWaits DEF SdkInv
<1>3. d \in Names /\ (IsSealed(d) <=> op[o].kind = "read")
  BY <1>2 DEF FetchInv, FetchOK, Fetches, OnShelf
<1>4. r = MainResolved(o, d)
  BY <1>1
<1>5. PICK f \in File, k \in Keys :
        /\ Contents[d] = Parts(f, NoKey)
        /\ \/ IsList(d) /\ d = Manifest(Parts(f, k), k # NoKey) /\ d.parts = Parts(f, k)
           \/ ~IsList(d) /\ Length[f] = 1 /\ d = Part(f, 1, NoKey) /\ Contents[d] = <<d>>
  BY <1>3, NamesAre
<1>6. CASE Recognised(d, op[o].kind = "read")
  <2>1. r = [op[o] EXCEPT !.stage = "pool", !.got = Blank(Len(d.parts))]
    BY <1>2, <1>4, <1>6 DEF MainResolved
  <2>2. IsList(d) /\ d.parts = Parts(f, k)
    BY <1>5, <1>6 DEF Recognised
  <2>3. /\ Len(Parts(f, k)) = Length[f] /\ Len(Parts(f, NoKey)) = Length[f] /\ Length[f] \in Nat
    BY PartsOf DEF Keys
  <2>4. PICK n \in Nat : n = Length[f]
    BY <2>3
  <2>5. Len(Blank(n)) = n /\ \A i \in 1..n : Blank(n)[i] = NoData
    BY BlankIs
  <2>6. r.stage = "pool" /\ r.got = Blank(n)
    BY <1>2, <2>1, <2>2, <2>3, <2>4 DEF Operation
  <2>. QED  BY <1>2, <1>5, <2>2, <2>3, <2>4, <2>5, <2>6
<1>7. CASE op[o].kind = "download" /\ ~Recognised(d, FALSE)
  <2>1. CASE IsList(d)
    <3>1. r = [op[o] EXCEPT !.stage = "bytes"]
      BY <1>2, <1>4, <1>7, <2>1 DEF MainResolved
    <3>2. r.stage = "bytes"
      BY <1>2, <3>1 DEF Operation
    <3>. QED  BY <3>2
  <2>2. CASE ~IsList(d)
    <3>1. r = [op[o] EXCEPT !.stage = "done", !.got = <<d>>, !.next = 2]
      BY <1>2, <1>4, <1>7, <2>2 DEF MainResolved
    <3>2. r.stage = "done" /\ r.got = <<d>>
      BY <1>2, <3>1 DEF Operation
    <3>. QED  BY <1>2, <1>5, <2>2, <3>2
  <2>. QED  BY <2>1, <2>2
<1>8. CASE op[o].kind = "read" /\ ~Recognised(d, TRUE)
  <2>1. ~Decrypts(o, d)
    BY <1>3, <1>8 DEF IsSealed, Decrypts
  <2>2. r = [op[o] EXCEPT !.stage = "failed"]
    BY <1>2, <1>4, <1>8, <2>1 DEF MainResolved
  <2>3. r.stage = "failed"
    BY <1>2, <2>2 DEF Operation
  <2>. QED  BY <2>3
<1>. QED  BY <1>2, <1>6, <1>7, <1>8 DEF Recognised

\* The main flow's request is answered.
LEMMA MainAnswerSimulated ==
  ASSUME SdkInv, SdkInv', FetchInv, NEW o \in Op, call[Main(o)].at = "served", stored' = stored,
         op' = [op EXCEPT ![o] = MainResolved(o, call[Main(o)].what)]
  PROVE  FetchInv' /\ Simulated
<1>1. PICK r : r = MainResolved(o, call[Main(o)].what)
  OBVIOUS
<1>2. op'[o] = r /\ \A p \in Op \ {o} : op'[p] = op[p]
  BY <1>1 DEF SdkInv, TypeOK
<1>3. r.kind = op[o].kind /\ r.file = op[o].file /\ (Fetches(o) => r.name = op[o].name)
  BY <1>1, MainResolvedFields DEF SdkInv
<1>4. op[o].stage \in {"single", "manifest", "grant", "text", "image", "access", "root", "request"}
      /\ op[o] \in Operation /\ RecordOK(o)
  BY MainWaits DEF SdkInv
<1>5. ~Settled(o) /\ op[o].kind # "none"
  BY <1>4 DEF Settled, RecordOK, StagesOf
<1>6. FetchOK(o) /\ (Fetches(o)' <=> Fetches(o))
  BY <1>2, <1>3 DEF FetchInv, Fetches
<1>7. FetchOK(o)'
  <2>1. CASE ~Fetches(o)
    BY <1>6, <2>1 DEF FetchOK
  <2>2. CASE Fetches(o) /\ op[o].stage = "root"
    <3>1. /\ r.stage = "pool" =>
              /\ IsList(op[o].name)
              /\ Len(r.got) = Len(Contents[op[o].name])
              /\ \A i \in 1..Len(r.got) : r.got[i] = NoData
          /\ r.stage = "done" => r.got = Contents[op[o].name]
      BY <1>1, <2>2, RootArrives
    <3>. QED  BY <1>2, <1>3, <1>6, <2>2, <3>1 DEF FetchOK
  <2>3. CASE Fetches(o) /\ op[o].stage # "root"
    <3>1. op[o].stage = "access"
      BY <1>4, <2>3, MainAsks DEF SdkInv, Fetches
    <3>2. \/ r = [op[o] EXCEPT !.stage = "failed"]
          \/ \E k : r = [op[o] EXCEPT !.stage = "root", !.key = k]
      BY <1>1, <3>1 DEF MainResolved
    <3>3. r.stage \in {"failed", "root"}
      BY <1>4, <3>2 DEF Operation
    <3>. QED  BY <1>2, <1>3, <1>6, <3>3, FetchMoves
  <2>. QED  BY <2>1, <2>2, <2>3
<1>. QED  BY <1>2, <1>3, <1>5, <1>7, MoveOne

\* The main flow's request fails.
LEMMA MainRejectionSimulated ==
  ASSUME SdkInv, SdkInv', FetchInv, NEW o \in Op, call[Main(o)].at # "idle", stored' = stored,
         op' = [op EXCEPT ![o] = MainRejected(o)]
  PROVE  FetchInv' /\ Simulated
<1>1. op[o].stage \in {"single", "manifest", "grant", "text", "image", "access", "root", "request"}
      /\ op[o] \in Operation /\ RecordOK(o) /\ op \in [Op -> Operation]
  BY MainWaits DEF SdkInv, TypeOK
<1>2. PICK t \in {"done", "failed"} : op' = [op EXCEPT ![o].stage = t]
                                      /\ (t = "done" => op[o].stage = "text")
  BY <1>1 DEF MainRejected
<1>3. /\ op'[o].kind = op[o].kind /\ op'[o].file = op[o].file /\ op'[o].name = op[o].name
      /\ op'[o].stage = t /\ \A p \in Op \ {o} : op'[p] = op[p]
  BY <1>1, <1>2 DEF Operation
<1>4. ~Settled(o) /\ op[o].kind # "none"
  BY <1>1 DEF Settled, RecordOK, StagesOf
<1>5. Fetches(o) => t = "failed"
  BY <1>1, <1>2, SdkAssumption DEF RecordOK, StagesOf, Fetches
<1>6. FetchOK(o)'
  BY <1>2, <1>3, <1>5, FetchMoves DEF FetchInv
<1>. QED  BY <1>3, <1>4, <1>6, MoveOne

\* A worker's request fails.
LEMMA WorkerRejectionSimulated ==
  ASSUME SdkInv, SdkInv', FetchInv, NEW o \in Op, NEW w \in 1..Pool, call[<<o, w>>].at # "idle",
         stored' = stored, op' = [op EXCEPT ![o] = WorkerRejected(<<o, w>>)]
  PROVE  FetchInv' /\ Simulated
<1>1. /\ op[o] \in Operation /\ op[o].stage \in {"pool", "bytes", "failed"}
      /\ (Uploads(o) \/ Fetches(o)) /\ op \in [Op -> Operation]
  BY WorkerAsks DEF SdkInv, TypeOK
<1>2. PICK t \in {"bytes", "failed"} :
        t = IF op[o].stage = "pool" THEN (IF op[o].kind = "download" THEN "bytes" ELSE "failed")
            ELSE op[o].stage
  BY <1>1
<1>3. PICK r : r = [op[o] EXCEPT !.dead = op[o].dead \cup {w}, !.stage = t]
  OBVIOUS
<1>4. WorkerRejected(<<o, w>>) = r
  BY <1>1, <1>2, <1>3 DEF WorkerRejected, Operation
<1>5. /\ op'[o] = r /\ r.kind = op[o].kind /\ r.stage = t /\ r.file = op[o].file
      /\ r.name = op[o].name /\ \A p \in Op \ {o} : op'[p] = op[p]
  BY <1>1, <1>3, <1>4 DEF Operation
<1>6. FetchOK(o)'
  BY <1>2, <1>5, FetchMoves DEF FetchInv
<1>7. Settled(o) => Outcome'[o] = Outcome[o]
  <2>1. ASSUME Settled(o)
        PROVE  t = op[o].stage /\ t \in {"bytes", "failed"}
    BY <1>1, <1>2, <2>1 DEF Settled
  <2>. QED  BY <1>5, <2>1, OutcomeIs, OutcomeBecomes
<1>8. op[o].kind # "none"
  BY <1>1 DEF Uploads, Fetches
<1>. QED  BY <1>5, <1>6, <1>7, <1>8, MoveOne

\* What a worker's request has asked for is the part at its index.
LEMMA FetchedPart ==
  ASSUME SdkInv, FetchInv, NEW o \in Op, NEW w \in 1..Pool, call[<<o, w>>].at = "served",
         Fetches(o), op[o].stage = "pool"
  PROVE  LET d == call[<<o, w>>].what
         IN  Contents[op[o].name][call[<<o, w>>].slot] =
               IF op[o].kind = "read" THEN DecryptData(d) ELSE d
<1>1. PICK i, d : i = call[<<o, w>>].slot /\ d = call[<<o, w>>].what
  OBVIOUS
<1>2. /\ op[o].kind \in {"download", "read"} /\ op[o].name \in Names /\ IsList(op[o].name)
      /\ IsSealed(op[o].name) <=> op[o].kind = "read"
      /\ Len(op[o].got) = Len(Contents[op[o].name])
  BY DEF FetchInv, FetchOK, Fetches, OnShelf
<1>3. WorkerOK(o, w) /\ i \in 1..Len(op[o].got) /\ i \in Nat
  BY <1>1, WorkerAsks DEF SdkInv
<1>4. d = op[o].name.parts[i]
  BY <1>1, <1>2, <1>3 DEF WorkerOK, Work
<1>5. PICK f \in File, k \in Keys :
        /\ Contents[op[o].name] = Parts(f, NoKey)
        /\ op[o].name = Manifest(Parts(f, k), k # NoKey) /\ op[o].name.parts = Parts(f, k)
  BY <1>2, NamesAre
<1>6. /\ Len(Parts(f, NoKey)) = Length[f]
      /\ \A j \in 1..Length[f] : Parts(f, NoKey)[j] = Part(f, j, NoKey) /\ Parts(f, k)[j] = Part(f, j, k)
  BY PartsOf DEF Keys
<1>7. i \in 1..Length[f]
  BY <1>2, <1>3, <1>5, <1>6
<1>8. d = Part(f, i, k) /\ Contents[op[o].name][i] = Part(f, i, NoKey)
  BY <1>4, <1>5, <1>6, <1>7
<1>9. CASE op[o].kind = "read"
  BY <1>1, <1>3, <1>8, <1>9, DecryptedPart
<1>10. CASE op[o].kind = "download"
  <2>1. k = NoKey
    <3>1. op[o].name.sealed = (k # NoKey)
      BY <1>5 DEF Manifest
    <3>2. ~op[o].name.sealed
      BY <1>2, <1>10 DEF IsSealed
    <3>. QED  BY <3>1, <3>2
  <2>. QED  BY <1>1, <1>8, <1>10, <2>1
<1>. QED  BY <1>2, <1>9, <1>10

\* A worker's part arrives.
LEMMA WorkerAnswerSimulated ==
  ASSUME SdkInv, SdkInv', FetchInv, NEW o \in Op, NEW w \in 1..Pool, call[<<o, w>>].at = "served",
         stored' = stored, op' = [op EXCEPT ![o] = WorkerResolved(<<o, w>>)]
  PROVE  FetchInv' /\ Simulated
<1>1. PICK i, x : /\ i = call[<<o, w>>].slot
                  /\ x = IF op[o].kind = "read" THEN DecryptData(call[<<o, w>>].what)
                         ELSE call[<<o, w>>].what
  OBVIOUS
<1>2. /\ op[o] \in Operation /\ op[o].got \in Seq(Data) /\ op \in [Op -> Operation]
      /\ i \in Nat /\ i \in 1..Len(op[o].got)
      /\ op[o].stage \in {"pool", "bytes", "failed"} /\ (Uploads(o) \/ Fetches(o))
  BY <1>1, WorkerAsks DEF SdkInv, TypeOK
<1>3. x \in Data
  <2>1. call[<<o, w>>].what \in Piece
    BY WorkerAsks DEF SdkInv
  <2>. QED  BY <1>1, <2>1, PiecesAreNotLists DEF Data
<1>4. PICK g \in Seq(Data) : g = [op[o].got EXCEPT ![i] = x] /\ Len(g) = Len(op[o].got)
                             /\ \A j \in 1..Len(g) : g[j] = IF j = i THEN x ELSE op[o].got[j]
  <2>. DEFINE q == op[o].got
  <2>1. q \in Seq(Data) /\ i \in 1..Len(q)
    BY <1>2
  <2>. HIDE DEF q
  <2>2. /\ [q EXCEPT ![i] = x] \in Seq(Data) /\ Len([q EXCEPT ![i] = x]) = Len(q)
        /\ \A j \in 1..Len(q) : [q EXCEPT ![i] = x][j] = IF j = i THEN x ELSE q[j]
    BY <1>3, <2>1, ExceptSeq
  <2>. QED  BY <2>2 DEF q
<1>5. PICK r : r = [op[o] EXCEPT !.got = g]
  OBVIOUS
<1>6. WorkerResolved(<<o, w>>) = r
  <2>1. WorkerResolved(<<o, w>>) = [op[o] EXCEPT !.got[i] = x]
    BY <1>1 DEF WorkerResolved
  <2>. QED  BY <1>2, <1>4, <1>5, <2>1 DEF Operation
<1>7. /\ op'[o] = r /\ r.kind = op[o].kind /\ r.stage = op[o].stage /\ r.file = op[o].file
      /\ r.name = op[o].name /\ r.got = g /\ \A p \in Op \ {o} : op'[p] = op[p]
  BY <1>2, <1>5, <1>6 DEF Operation
<1>8. FetchOK(o)'
  <2>1. CASE op[o].stage = "pool" /\ Fetches(o)
    <3>1. x = Contents[op[o].name][i]
      BY <1>1, <2>1, FetchedPart
    <3>2. FetchOK(o) /\ (Fetches(o)' <=> Fetches(o))
      BY <1>7 DEF FetchInv, Fetches
    <3>3. /\ op[o].name \in OnShelf(stored) /\ (IsSealed(op[o].name) <=> op[o].kind = "read")
          /\ IsList(op[o].name) /\ Len(op[o].got) = Len(Contents[op[o].name])
          /\ \A j \in 1..Len(op[o].got) :
               op[o].got[j] # NoData => op[o].got[j] = Contents[op[o].name][j]
      BY <2>1, <3>2 DEF FetchOK
    <3>4. Len(g) = Len(Contents[op[o].name])
      BY <1>4, <3>3
    <3>5. \A j \in 1..Len(g) : g[j] # NoData => g[j] = Contents[op[o].name][j]
      BY <1>4, <3>1, <3>3
    <3>. QED  BY <1>7, <2>1, <3>2, <3>3, <3>4, <3>5 DEF FetchOK
  <2>2. CASE ~(op[o].stage = "pool" /\ Fetches(o))
    BY <1>2, <1>7, <2>2, FetchMoves DEF FetchInv
  <2>. QED  BY <2>1, <2>2
<1>9. Settled(o) => Outcome'[o] = Outcome[o]
  <2>1. ASSUME Settled(o)
        PROVE  op[o].stage \in {"bytes", "failed"}
    BY <1>2, <2>1 DEF Settled
  <2>. QED  BY <1>7, <2>1, OutcomeIs, OutcomeBecomes
<1>10. op[o].kind # "none"
  BY <1>2 DEF Uploads, Fetches
<1>. QED  BY <1>7, <1>8, <1>9, <1>10, MoveOne

\* An answer arrives.
LEMMA AnswerSimulated ==
  ASSUME SdkInv, SdkInv', FetchInv, NEW l \in Lane, Answer(l)
  PROVE  FetchInv' /\ Simulated
<1>1. PICK o, w : l = <<o, w>> /\ o \in Op /\ w \in 0..Pool
  BY LaneIs
<1>2. call[l].at = "served" /\ stored' = stored
  BY DEF Answer, network
<1>3. CASE w = 0
  <2>1. l = Main(o) /\ l[1] = o
    BY <1>1, <1>3 DEF Main
  <2>2. op' = [op EXCEPT ![o] = MainResolved(o, call[Main(o)].what)]
    BY <2>1 DEF Answer, Resolve
  <2>. QED  BY <1>1, <1>2, <2>1, <2>2, MainAnswerSimulated
<1>4. CASE w # 0
  <2>1. w \in 1..Pool /\ l # Main(o)
    BY <1>1, <1>4, SdkAssumption DEF Main
  <2>2. \/ op' = [op EXCEPT ![o] = WorkerRejected(<<o, w>>)]
        \/ op' = [op EXCEPT ![o] = WorkerResolved(<<o, w>>)]
    BY <1>1, <2>1 DEF Answer, Resolve
  <2>. QED  BY <1>1, <1>2, <2>1, <2>2, WorkerRejectionSimulated, WorkerAnswerSimulated
<1>. QED  BY <1>3, <1>4

\* An attempt fails: it is repeated, which FileStore does not see, or given up.
LEMMA FailureSimulated ==
  ASSUME SdkInv, SdkInv', FetchInv, NEW l \in Lane, Refused(l) \/ Lose(l)
  PROVE  FetchInv' /\ Simulated
<1>1. PICK o, w : l = <<o, w>> /\ o \in Op /\ w \in 0..Pool
  BY LaneIs
<1>2. call[l].at # "idle" /\ stored' = stored /\ (Retry(l) \/ GiveUp(l))
  BY DEF Refused, Lose, network
<1>3. CASE Retry(l)
  <2>1. op' = op
    BY <1>3 DEF Retry
  <2>. QED  BY <1>2, <2>1, MoveNone
<1>4. CASE GiveUp(l) /\ w = 0
  <2>1. l = Main(o) /\ l[1] = o
    BY <1>1, <1>4 DEF Main
  <2>2. op' = [op EXCEPT ![o] = MainRejected(o)]
    BY <1>4, <2>1 DEF GiveUp, Reject
  <2>. QED  BY <1>1, <1>2, <2>1, <2>2, MainRejectionSimulated
<1>5. CASE GiveUp(l) /\ w # 0
  <2>1. w \in 1..Pool /\ l # Main(o)
    BY <1>1, <1>5, SdkAssumption DEF Main
  <2>2. op' = [op EXCEPT ![o] = WorkerRejected(<<o, w>>)]
    BY <1>1, <1>5, <2>1 DEF GiveUp, Reject
  <2>. QED  BY <1>1, <1>2, <2>1, <2>2, WorkerRejectionSimulated
<1>. QED  BY <1>2, <1>3, <1>4, <1>5

----------------------------------------------------------------------------
(* The refinement.                                                         *)

LEMMA RefinementInit ==
  ASSUME Init
  PROVE  FetchInv /\ Abstract!Init
<1>1. op = [o \in Op |-> NoOp] /\ stored = Held
  BY DEF Init
<1>2. \A o \in Op : op[o].kind = "none" /\ ~Settled(o) /\ ~Fetches(o)
  BY <1>1 DEF NoOp, Settled, Fetches
<1>3. \A o \in Op : Asked[o] = [do |-> "nothing"] /\ Outcome[o] = [is |-> "open"]
  BY <1>2, AskedIs, OutcomeIs
<1>4. Asked = [o \in Op |-> [do |-> "nothing"]] /\ Outcome = [o \in Op |-> [is |-> "open"]]
  <2>1. Asked = [o \in Op |-> Asked[o]] /\ Outcome = [o \in Op |-> Outcome[o]]
    BY DEF Asked, Outcome
  <2>. QED  BY <1>3, <2>1
<1>5. Abstract!Init
  BY <1>1, <1>4 DEF Abstract!Init, Abstract!Nothing, Abstract!Open
<1>6. FetchInv
  BY <1>1, <1>2 DEF FetchInv, FetchOK
<1>. QED  BY <1>5, <1>6

LEMMA RefinementStep ==
  ASSUME SdkInv, FetchInv, [Next]_vars
  PROVE  SdkInv' /\ FetchInv' /\ Simulated
<1>1. SdkInv'
  BY SdkInvStep
<1>2. ASSUME NEW o \in Op, UserCalls(o)
      PROVE  FetchInv' /\ Simulated
  BY <1>2, FetchUserStep, BeginSimulated
<1>3. ASSUME NEW o \in Op, MainSteps(o)
      PROVE  FetchInv' /\ Simulated
  BY <1>1, <1>3, MainStepSimulated
<1>4. ASSUME NEW l \in Lane, ClaimPart(l)
      PROVE  FetchInv' /\ Simulated
  BY <1>1, <1>4, ClaimSimulated
<1>5. ASSUME NEW l \in Lane, Discover(l) \/ FoundNode(l)
      PROVE  FetchInv' /\ Simulated
  <2>1. op' = op /\ stored' = stored
    BY <1>5 DEF Discover, FoundNode, network
  <2>. QED  BY <2>1, MoveNone
<1>6. ASSUME NEW l \in Lane, Serve(l)
      PROVE  FetchInv' /\ Simulated
  <2>1. op' = op /\ stored \subseteq stored'
    BY <1>6 DEF Serve
  <2>. QED  BY <1>6, <2>1, FetchNone, ServeSimulated
<1>7. ASSUME NEW l \in Lane, Answer(l)
      PROVE  FetchInv' /\ Simulated
  BY <1>1, <1>7, AnswerSimulated
<1>8. ASSUME NEW l \in Lane, Refused(l) \/ Lose(l)
      PROVE  FetchInv' /\ Simulated
  BY <1>1, <1>8, FailureSimulated
<1>9. CASE Environment \/ UNCHANGED vars
  <2>1. op' = op /\ stored' = stored
    BY <1>9 DEF Environment, vars, network
  <2>. QED  BY <1>1, <2>1, MoveNone
<1>. QED  BY <1>1, <1>2, <1>3, <1>4, <1>5, <1>6, <1>7, <1>8, <1>9 DEF Next, LaneSteps

\* Whatever the SDK, its services and the network do is what FileStore allows:
\* an upload that resolves names a file that is there, whole; a download that
\* resolves is the file named, in order, or the bytes of its manifest
\* (storage.ts:81-142, 176-213, client.ts:20-153).
THEOREM StoreRefinedHolds == Spec => StoreRefined
<1>1. Init => SdkInv /\ FetchInv /\ Abstract!Init
  BY SdkInvInit, RefinementInit
<1>2. SdkInv /\ FetchInv /\ [Next]_vars =>
        SdkInv' /\ FetchInv' /\ [Abstract!Next]_(Abstract!store)
  BY RefinementStep DEF Simulated
<1>. QED  BY <1>1, <1>2, PTL DEF Spec, StoreRefined, Abstract!Spec
=============================================================================
