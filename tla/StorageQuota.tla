---------------------------- MODULE StorageQuota ----------------------------
(***************************************************************************)
(* The byte quota of a storage node (microservices/storage-node: quota.rs, *)
(* the upload and delete handlers of main.rs, and the swarm loop that      *)
(* stores and deletes for them) together with the per-DID quota that the   *)
(* consensus node keeps (accounting.rs).                                   *)
(*                                                                         *)
(* HTTP handlers run concurrently and share one atomic counter, on which   *)
(* each load, compare_exchange and fetch_sub is a step of its own.  The    *)
(* swarm loop takes one command at a time, so that each is one step.  The  *)
(* counter is in memory; the records of stored files are on disk, and those *)
(* that fit are in memory too, where alone a record has a publisher.       *)
(***************************************************************************)
EXTENDS Integers, FiniteSets, Functions

CONSTANTS
  Handler,        \* requests that can be in progress at the same time
  Did,            \* users
  File,           \* file hashes
  Size,           \* Size[f]: bytes of file f
  MaxBytes,       \* max_bytes of the global quota
  UserMax,        \* max_storage_per_user on the consensus node
  Word,           \* the counter wraps around at Word: 2^64 in the code
  MaxRequests,    \* bound of the model: requests in all
  MaxRestarts,    \* bound of the model: restarts of either node
  MaxReplicas     \* bound of the model: records that other nodes put here

ASSUME QuotaAssumption ==
  /\ IsFiniteSet(Handler)
  /\ File # {} /\ Did # {}
  /\ Size \in [File -> Nat \ {0}]
  /\ MaxBytes \in Nat /\ UserMax \in Nat
  /\ Word \in Nat /\ Word > MaxBytes
  /\ MaxRequests \in Nat /\ MaxRestarts \in Nat /\ MaxReplicas \in Nat

VARIABLES
  used,           \* current_bytes of the global quota
  job,            \* job[h]: the request h works on
  disk,           \* files whose manifest is on this node's disk
  memory,         \* those whose manifest is in its memory, too
  own,            \* those that memory has as published by this node
  ledger,         \* ledger[d]: storage_used on the consensus node
  requests,       \* requests so far
  restarts,       \* restarts so far
  replicas,       \* records put by other nodes so far
  \* History, read by the properties only.
  kept,           \* bytes of the uploads accepted and not deleted
  leaked,         \* bytes that requests given up by their client have left reserved
  uploaded,       \* files uploaded to this node and not deleted since
  strayed         \* a restart, or a deletion that left the manifest here, happened

records == <<disk, memory, own>>
counters == <<requests, restarts, replicas>>
history == <<kept, leaked, uploaded, strayed>>
vars == <<used, job, records, ledger, counters, history>>

\* Where a request stands: about to load the counter and to exchange it, to
\* ask the consensus node, to hand the file to the swarm loop; about to load
\* and to subtract for a release; about to pay back on the consensus node.
Step == {"idle", "load", "exchange", "ask", "swarm", "reload", "subtract", "repay"}

\* `then`: the step after a release.
Job == [step: Step, file: File, did: Did, seen: 0..(Word - 1), then: {"idle", "repay"}]

\* No request; whatever it was about is forgotten.
Idle == [step |-> "idle", file |-> CHOOSE f \in File : TRUE, did |-> CHOOSE d \in Did : TRUE,
         seen |-> 0, then |-> "idle"]

Bytes(h) == Size[job[h].file]
At(h, step) == job[h].step = step
Goto(h, step) == job' = [job EXCEPT ![h].step = step]
Finish(h) == job' = [job EXCEPT ![h] = Idle]

Init ==
  /\ used = 0
  /\ job = [h \in Handler |-> Idle]
  /\ disk = {} /\ memory = {} /\ own = {}
  /\ ledger = [d \in Did |-> 0]
  /\ requests = 0 /\ restarts = 0 /\ replicas = 0
  /\ kept = 0 /\ leaked = 0 /\ uploaded = {} /\ strayed = FALSE

Begin(h, j) ==
  /\ At(h, "idle")
  /\ requests < MaxRequests
  /\ requests' = requests + 1
  /\ job' = [job EXCEPT ![h] = j]
  /\ UNCHANGED <<restarts, replicas>>

----------------------------------------------------------------------------
(* PerClassQuota.                                                          *)

\* try_reserve: the first load.
Load(h) ==
  /\ At(h, "load")
  /\ job' = [job EXCEPT ![h].seen = used, ![h].step = "exchange"]
  /\ UNCHANGED <<used, records, ledger, counters, history>>

\* No room for the bytes, by the value last seen: 507.
Refuse(h) ==
  /\ At(h, "exchange")
  /\ job[h].seen + Bytes(h) > MaxBytes
  /\ Finish(h)
  /\ UNCHANGED <<used, records, ledger, counters, history>>

\* Mutant: the new value is stored whatever the counter has become.
ExchangeBlindly(h) ==
  /\ At(h, "exchange")
  /\ job[h].seen + Bytes(h) <= MaxBytes
  /\ used' = job[h].seen + Bytes(h)
  /\ job' = [job EXCEPT ![h].step = "ask", ![h].seen = 0]
  /\ UNCHANGED <<records, ledger, counters, history>>

\* Mutant: the loop goes on with the value it has.
ExchangeStale(h) ==
  /\ At(h, "exchange")
  /\ job[h].seen + Bytes(h) <= MaxBytes
  /\ IF used = job[h].seen
     THEN /\ used' = used + Bytes(h)
          /\ job' = [job EXCEPT ![h].step = "ask", ![h].seen = 0]
     ELSE UNCHANGED <<used, job>>
  /\ UNCHANGED <<records, ledger, counters, history>>

\* compare_exchange_weak, and the loop around it.  (That it may fail with the
\* same value seen again changes nothing.)
Exchange(h) ==
  /\ At(h, "exchange")
  /\ job[h].seen + Bytes(h) <= MaxBytes
  /\ IF used = job[h].seen
     THEN /\ used' = used + Bytes(h)
          /\ job' = [job EXCEPT ![h].step = "ask", ![h].seen = 0]
     ELSE /\ job' = [job EXCEPT ![h].seen = used]
          /\ UNCHANGED used
  /\ UNCHANGED <<records, ledger, counters, history>>

\* release: the load inside min(...).
Reload(h) ==
  /\ At(h, "reload")
  /\ job' = [job EXCEPT ![h].seen = used, ![h].step = "subtract"]
  /\ UNCHANGED <<used, records, ledger, counters, history>>

\* Mutant: a subtraction that does not wrap around.
SubtractedExactly(value, bytes, seen) == value - (IF bytes < seen THEN bytes ELSE seen)

\* fetch_sub of the smaller of the size and what was loaded.
Subtracted(value, bytes, seen) ==
  (value - (IF bytes < seen THEN bytes ELSE seen)) % Word

Subtract(h) ==
  /\ At(h, "subtract")
  /\ used' = Subtracted(used, Bytes(h), job[h].seen)
  /\ IF job[h].then = "idle" THEN Finish(h)
     ELSE job' = [job EXCEPT ![h].step = job[h].then, ![h].seen = 0]
  /\ UNCHANGED <<records, ledger, counters, history>>

----------------------------------------------------------------------------
(* handle_upload, and the two ingest handlers, which do the same.          *)

Upload(h, d, f) ==
  /\ Begin(h, [Idle EXCEPT !.step = "load", !.did = d, !.file = f])
  /\ UNCHANGED <<used, records, ledger, history>>

\* Mutant: the limit is looked at before the bytes are added.
RoomBefore(d, bytes) == ledger[d] <= UserMax

\* Ledger::reserve_storage: within the limit with the bytes added.
Room(d, bytes) == ledger[d] + bytes <= UserMax

\* It reserves, behind its mutex, and the answer reaches the handler.
Granted(h) ==
  /\ At(h, "ask")
  /\ Room(job[h].did, Bytes(h))
  /\ ledger' = [ledger EXCEPT ![job[h].did] = @ + Bytes(h)]
  /\ Goto(h, "swarm")
  /\ UNCHANGED <<used, records, counters, history>>

\* Refused, out of reach, or granted with the answer lost: in all three the
\* handler gives the local bytes back, and these only.
NotGranted(h) ==
  /\ At(h, "ask")
  /\ \/ UNCHANGED ledger
     \/ /\ Room(job[h].did, Bytes(h))
        /\ ledger' = [ledger EXCEPT ![job[h].did] = @ + Bytes(h)]
  /\ Goto(h, "reload")
  /\ UNCHANGED <<used, records, counters, history>>

\* HybridStore::put.  The disk takes every record.  Memory takes one in place of
\* another of its key, and a new one if it has room; its publisher is then this
\* node if this node publishes it.
Put(f, published) ==
  /\ disk' = disk \cup {f}
  /\ \/ /\ memory' = memory \cup {f}
        /\ own' = IF published THEN own \cup {f} ELSE own \ {f}
     \/ /\ f \notin memory
        /\ UNCHANGED <<memory, own>>

\* DhtUpload: shards and manifest are put; the bytes are spent even if the
\* file was here before.  (encode_data refuses nothing but an empty file, and
\* handlers send none.)
Store(h) ==
  /\ At(h, "swarm")
  /\ Put(job[h].file, TRUE)
  /\ kept' = kept + Bytes(h)
  /\ uploaded' = uploaded \cup {job[h].file}
  /\ Finish(h)
  /\ UNCHANGED <<used, ledger, counters, leaked, strayed>>

\* The client hangs up, and the handler is dropped at the `await` it is at: the
\* call to the consensus node, which may have reserved, or the answer to
\* DhtDelete, which has been carried out.
HangUp(h) ==
  /\ \/ At(h, "ask")
     \/ At(h, "reload") /\ job[h].then = "repay"
  /\ \/ UNCHANGED ledger
     \/ /\ At(h, "ask")
        /\ Room(job[h].did, Bytes(h))
        /\ ledger' = [ledger EXCEPT ![job[h].did] = @ + Bytes(h)]
  /\ leaked' = leaked + Bytes(h)
  /\ Finish(h)
  /\ UNCHANGED <<used, records, counters, kept, uploaded, strayed>>

\* release_storage on the consensus node, unless the call is lost.
Repay(h) ==
  /\ At(h, "repay")
  /\ \/ UNCHANGED ledger
     \/ LET d == job[h].did
        IN  ledger' = [ledger EXCEPT ![d] = IF @ > Bytes(h) THEN @ - Bytes(h) ELSE 0]
  /\ Finish(h)
  /\ UNCHANGED <<used, records, counters, history>>

----------------------------------------------------------------------------
(* handle_delete.                                                          *)

\* DhtDelete finds any manifest that is here, but Kademlia removes it only if
\* memory has it as published by this node: not one that another node put here,
\* be it over this node's own, one that did not fit into memory, or one older
\* than the process.  Whoever deletes is paid back all the same.
Delete(h, d, f) ==
  /\ f \in disk
  /\ Begin(h, [Idle EXCEPT !.step = "reload", !.did = d, !.file = f, !.then = "repay"])
  /\ IF f \in own
     THEN /\ disk' = disk \ {f} /\ memory' = memory \ {f} /\ own' = own \ {f}
          /\ kept' = kept - Size[f] /\ uploaded' = uploaded \ {f}
          /\ UNCHANGED strayed
     ELSE /\ strayed' = TRUE
          /\ UNCHANGED <<records, kept, uploaded>>
  /\ UNCHANGED <<used, ledger, leaked>>

----------------------------------------------------------------------------
(* Around the node.                                                        *)

\* Another storage node puts the manifest of its upload here, in place of any.
Replicate(f) ==
  /\ replicas < MaxReplicas
  /\ replicas' = replicas + 1
  /\ Put(f, FALSE)
  /\ UNCHANGED <<used, job, ledger, requests, restarts, history>>

\* The counter starts again at 0, whatever is on disk.
Restart ==
  /\ restarts < MaxRestarts
  /\ restarts' = restarts + 1
  /\ used' = 0
  /\ job' = [h \in Handler |-> Idle]
  /\ memory' = {} /\ own' = {}
  /\ strayed' = TRUE
  /\ UNCHANGED <<disk, ledger, requests, replicas, kept, leaked, uploaded>>

\* The consensus node restarts: Ledger::new starts with an empty map.
LedgerRestart ==
  /\ restarts < MaxRestarts
  /\ restarts' = restarts + 1
  /\ ledger' = [d \in Did |-> 0]
  /\ UNCHANGED <<used, job, records, requests, replicas, history>>

----------------------------------------------------------------------------

\* What a request does once it has begun.
Work(h) ==
  \/ Load(h) \/ Refuse(h) \/ Exchange(h)
  \/ Reload(h) \/ Subtract(h)
  \/ Granted(h) \/ NotGranted(h)
  \/ Store(h) \/ Repay(h)

Next ==
  \/ \E h \in Handler, d \in Did, f \in File : Upload(h, d, f)
  \/ \E h \in Handler, d \in Did, f \in File : Delete(h, d, f)
  \/ \E h \in Handler : Work(h) \/ HangUp(h)
  \/ \E f \in File : Replicate(f)
  \/ Restart
  \/ LedgerRestart

Spec == Init /\ [][Next]_vars

\* Every request is run by the async runtime, and the HTTP client answers or
\* fails.
FairSpec == Spec /\ \A h \in Handler : WF_vars(Work(h))

----------------------------------------------------------------------------
\* Every variable holds values of its kind; the counter fits its word.
TypeOK ==
  /\ used \in 0..(Word - 1)
  /\ job \in [Handler -> Job]
  /\ disk \subseteq File /\ memory \subseteq disk /\ own \subseteq memory
  /\ ledger \in [Did -> Nat]
  /\ requests \in 0..MaxRequests /\ restarts \in 0..MaxRestarts
  /\ replicas \in 0..MaxReplicas
  /\ kept \in Nat /\ leaked \in Nat /\ uploaded \subseteq disk /\ strayed \in BOOLEAN

\* No user is charged more than the network-wide limit, however many uploads
\* ask at once and whatever answers are lost.
LedgerWithinLimit == \A d \in Did : ledger[d] <= UserMax

\* The bytes each request in progress has reserved and not given back.
Held == [h \in Handler |->
  IF job[h].step \in {"ask", "swarm", "reload", "subtract"} THEN Bytes(h) ELSE 0]

\* Until the node restarts, or a deletion gives back bytes for a manifest that it
\* leaves here, the counter is exact: it is the bytes of the uploads accepted and
\* not deleted, of the requests under way, and of those whose client hung up while
\* they held some.  No interleaving of loads and exchanges loses a reservation, and
\* no refusal or failed call leaves one behind.  And it counts every file that has
\* been uploaded here and is still here, whether or not it can be deleted.
CounterIsExact ==
  ~strayed => /\ used = kept + leaked + SumFunction(Held)
              /\ SumFunctionOnSet(Size, uploaded) <= kept

\* The loop of try_reserve may have to run again, but not forever: a request
\* that has begun is answered.
RequestsEnd == \A h \in Handler : ~At(h, "idle") ~> At(h, "idle")

\* "Thread-safe - safe to call from multiple tasks concurrently"
\* (STORAGE_DOCS.md, section 3.4): the counter stays within the quota.
QuotaRespected == used <= MaxBytes
=============================================================================
