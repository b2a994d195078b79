----------------------------- MODULE NodeRouter -----------------------------
(***************************************************************************)
(* NodeRouter of the TypeScript SDK (sdk/typescript/src/router.ts): which  *)
(* machine the requests of each service go to.                             *)
(*                                                                         *)
(* The getters are asynchronous, and callers that find no active node each *)
(* begin a search of their own; between the steps of a search other        *)
(* callers install nodes and invalidate them.  What one caller is doing is *)
(* find[l]; the rest of the state is shared by all callers.                *)
(***************************************************************************)
EXTENDS Naturals, Sequences, Functions

CONSTANTS
  Lane,           \* callers: the main flow of an operation, or a worker of it
  Service,        \* "search", "consensus", "storage"
  Node,           \* machines, each of which runs every service
  NoNode,
  Directory,      \* lists that /discover may answer with
  Fallback,       \* the addresses built into findFastestNode
  OpenProbe,      \* services whose health endpoint needs no signature
  MaxFaults       \* bound of the model: things that go wrong in all

ASSUME RouterAssumption ==
  /\ NoNode \notin Node
  /\ Directory \subseteq Seq(Node) /\ <<>> \notin Directory
  /\ Fallback \in Seq(Node) /\ Fallback # <<>>
  /\ OpenProbe \subseteq Service
  /\ MaxFaults \in Nat

VARIABLES
  active,         \* active[s]: activeSearchNode and its like, NoNode for null
  cache,          \* cache[s].nodes
  fresh,          \* fresh[s]: cache[s].timestamp has not been seen to be five minutes old
  find,           \* find[l]: the search l waits for
  down,           \* machines that answer nobody
  faults          \* things that went wrong so far

router == <<active, cache, fresh, find>>

NoSearch == [at |-> "none", service |-> "storage", nodes |-> <<>>]
Search == [at: {"none", "discover", "ping"}, service: Service, nodes: Seq(Node)]

RouterTypeOK ==
  /\ active \in [Service -> Node \cup {NoNode}]
  /\ cache \in [Service -> Seq(Node)]
  /\ fresh \in [Service -> BOOLEAN]
  /\ find \in [Lane -> Search]
  /\ down \in SUBSET Node
  /\ faults \in 0..MaxFaults

RouterInit ==
  /\ active = [s \in Service |-> NoNode]
  /\ cache = [s \in Service |-> <<>>]
  /\ fresh = [s \in Service |-> FALSE]
  /\ find = [l \in Lane |-> NoSearch]
  /\ down = {}
  /\ faults = 0

\* One more thing goes wrong.
Fault == faults < MaxFaults /\ faults' = faults + 1

\* A getter that finds no active node: getNodesFromRouter answers from the
\* cache, or, five minutes after the cache was filled, asks the router node
\* and holds on to the entry it has read.
BeginSearch(l, s) ==
  \/ /\ fresh[s] /\ cache[s] # <<>>
     /\ find' = [find EXCEPT ![l] = [at |-> "ping", service |-> s, nodes |-> cache[s]]]
     /\ fresh' = fresh
  \/ /\ find' = [find EXCEPT ![l] = [at |-> "discover", service |-> s, nodes |-> cache[s]]]
     /\ fresh' = [fresh EXCEPT ![s] = FALSE]

\* /discover answers with at least one address: the entry is replaced.
Discovered(l) ==
  /\ find[l].at = "discover"
  /\ \E list \in Directory :
       /\ cache' = [cache EXCEPT ![find[l].service] = list]
       /\ find' = [find EXCEPT ![l].at = "ping", ![l].nodes = list]
  /\ fresh' = [fresh EXCEPT ![find[l].service] = TRUE]
  /\ UNCHANGED <<active, down, faults>>

\* /discover fails, times out or knows no node: the addresses are those of
\* the entry read before, which another caller may have replaced since, or
\* the built-in ones.
DiscoveryFails(l) ==
  /\ find[l].at = "discover"
  /\ Fault
  /\ find' = [find EXCEPT ![l].at = "ping", ![l].nodes = IF @ = <<>> THEN Fallback ELSE @]
  /\ UNCHANGED <<active, cache, fresh, down>>

\* The nodes a search may end with.  The probe carries no signature, so a
\* service that asks for one refuses it (storage-node/src/main.rs:290,
\* auth.rs:22) and the search ends with the first address of the list.
Fastest(f) ==
  LET alive == {n \in Range(f.nodes) : n \notin down}
  IN  IF f.service \in OpenProbe /\ alive # {} THEN alive ELSE {Head(f.nodes)}

\* findFastestNode ends, and its result becomes the active node, whatever
\* has been installed or invalidated since it began.
Found(l, n) ==
  /\ find[l].at = "ping"
  /\ \/ n \in Fastest(find[l]) /\ faults' = faults
     \/ n = Head(find[l].nodes) /\ n \notin Fastest(find[l]) /\ Fault \* three seconds were too short
  /\ active' = [active EXCEPT ![find[l].service] = n]
  /\ find' = [find EXCEPT ![l] = NoSearch]
  /\ UNCHANGED <<cache, fresh, down>>

\* A machine fails, or comes back.
Crash(n) ==
  /\ n \notin down
  /\ Fault
  /\ down' = down \cup {n}
  /\ UNCHANGED router

Recover(n) ==
  /\ n \in down
  /\ down' = down \ {n}
  /\ UNCHANGED <<router, faults>>
=============================================================================
