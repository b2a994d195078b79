-------------------------------- MODULE Swarm --------------------------------
(***************************************************************************)
(* The consensus nodes and the event loop of swarm_loop.rs around their    *)
(* managers: transactions broadcast on the gossip topics, votes sent to    *)
(* the committee, self-delivery of a node's own votes, and the execution   *)
(* of finalized transactions.  The loop handles one event at a time and    *)
(* holds the manager's lock while it does, so a handler is one action.     *)
(* (\E x \in {e} names a value that a handler computes once.)              *)
(*                                                                         *)
(* The network delays, reorders, loses and repeats votes: a vote once sent *)
(* stays in `net` and may be delivered at any later time, or never.        *)
(* Copies of transaction data are counted: each is delivered at most once. *)
(***************************************************************************)
EXTENDS PporManager

CONSTANTS
  Kind,           \* Kind[t]: the topic, "name", "cid", "ledger" or "metadata"
  Met,            \* nodes that have announced themselves to each other before
  Direct,         \* the nodes with CONSENSUS_DIRECT_MODE on
  Client,         \* bound of the model: the nodes that clients talk to
  MaxSubmits,     \* bound of the model: broadcasts of one transaction
  MaxRestarts     \* bound of the model: restarts of all nodes

ASSUME SwarmAssumption ==
  /\ Kind \in [Tx -> {"name", "cid", "ledger", "metadata"}]
  /\ Met \subseteq Node /\ Direct \subseteq Node /\ Client \subseteq Node
  /\ MaxSubmits \in Nat /\ MaxRestarts \in Nat

VARIABLES
  mgr,            \* mgr[n]: the manager of n
  peers,          \* peers[n]: the wallets n has a peer id for (wallet_to_peer)
  pending,        \* pending[n]: transactions whose data n holds (pending_*_txs)
  net,            \* votes sent
  mail,           \* mail[n][t]: copies of t's data on their way to n
  submits,        \* submits[t]: broadcasts of t so far
  restarts,       \* restarts so far
  \* History, read by the properties only.
  heard,          \* heard[n][t]: copies of t's data delivered to n
  applied,        \* applied[n][t]: times n executed t
  certified       \* certified[n]: transactions n's own entry was Finalized for

local == <<mgr, peers, pending>>
bounds == <<submits, restarts>>
history == <<heard, applied, certified>>
vars == <<local, net, mail, bounds, history>>

Channel == {"direct", "gossip"}
Message == [via: Channel, to: Node, vote: Vote]

\* Every node starts as the only member of its committee (main.rs), so the
\* committee is formed by the announcements.
Fresh(n) == NewManager(n, {n})

Init ==
  /\ mgr = [n \in Node |-> IF n \in Met THEN SelectCommittee([Fresh(n) EXCEPT
                                !.rep = [p \in Node |-> IF p \in Met THEN InitialRep ELSE 0]])
                           ELSE Fresh(n)]
  /\ peers = [n \in Node |-> IF n \in Met THEN Met \ {n} ELSE {}]
  /\ pending = [n \in Node |-> {}]
  /\ net = {}
  /\ mail = [n \in Node |-> [t \in Tx |-> 0]]
  /\ submits = [t \in Tx |-> 0]
  /\ restarts = 0
  /\ heard = [n \in Node |-> [t \in Tx |-> 0]]
  /\ applied = [n \in Node |-> [t \in Tx |-> 0]]
  /\ certified = [n \in Node |-> {}]

----------------------------------------------------------------------------
(* Sending.                                                                *)

\* Gossip never comes back to the node that published it.
Gossiped(n, votes) == [via: {"gossip"}, to: Node \ {n}, vote: votes]

\* send_pbft_to_committee: straight to the members a peer id is known of, or
\* by gossip if there are none.
SentToCommittee(n, committee, votes) ==
  LET known == (committee \ {n}) \cap peers[n]
  IN  IF known = {} THEN Gossiped(n, votes)
      ELSE [via: {"direct"}, to: known, vote: votes]

\* The first vote of a handler: to the committee in direct mode, to all if not.
SentFirst(n, committee, votes) ==
  IF n \in Direct THEN SentToCommittee(n, committee, votes) ELSE Gossiped(n, votes)

----------------------------------------------------------------------------
(* self_deliver_pbft_chain: the node handles the vote, then its own answer, *)
(* then the answer to that.                                                 *)

Round(c) ==
  IF c.next = {} THEN c
  ELSE LET h == HandleMessage(c.mgr, CHOOSE v \in c.next : TRUE)
       IN  [mgr |-> h.mgr, next |-> h.votes, sent |-> c.sent \cup h.votes]

\* Mutant: the node does not hear its own votes.
ChainOnce(m, votes) == Round([mgr |-> m, next |-> votes, sent |-> {}])

Chain(m, votes) == Round(Round(Round([mgr |-> m, next |-> votes, sent |-> {}])))

----------------------------------------------------------------------------
(* handle_finalized_tx: the data, if the node holds it, is taken from the  *)
(* pending map and executed.  A name needs 100 credits of its owner, a CID *)
(* update a name the node knows: `ok` is the outcome.                      *)

Outcomes(t) == IF Kind[t] \in {"name", "cid"} THEN BOOLEAN ELSE {TRUE}

\* What becomes of the manager's entry; that of a ledger transaction stays.
Settled(m, t) ==
  CASE Kind[t] = "name"              -> DropState(m, t)
    [] Kind[t] \in {"cid", "metadata"} -> ArchiveFinalizedState(m, t)
    [] OTHER                         -> m

\* Mutant: the data executed stays in the pending map.
FinishKeeping(n, m, held, finals) ==
  LET ready == held \cap {v.tx : v \in {w \in finals : w.phase = "Finalized"}}
      final == {t \in Tx : m.states[t].phase = "Finalized"}
  IN  /\ certified' = [certified EXCEPT ![n] = @ \cup final]
      /\ pending' = [pending EXCEPT ![n] = held]
      /\ mgr' = [mgr EXCEPT ![n] = m]
      /\ applied' = [applied EXCEPT ![n] =
                       [t \in Tx |-> IF t \in ready THEN @[t] + 1 ELSE @[t]]]

\* Mutant: any vote of the last two phases leads to execution.
FinishEarly(n, m, held, finals) ==
  LET ready == held \cap {v.tx : v \in {w \in finals : w.phase \in {"Commit", "Finalized"}}}
      final == {t \in Tx : m.states[t].phase = "Finalized"}
  IN  /\ certified' = [certified EXCEPT ![n] = @ \cup final]
      /\ pending' = [pending EXCEPT ![n] = held \ ready]
      /\ mgr' = [mgr EXCEPT ![n] = m]
      /\ applied' = [applied EXCEPT ![n] =
                       [t \in Tx |-> IF t \in ready THEN @[t] + 1 ELSE @[t]]]

\* The end of a handler of n that leaves the manager m and the data `held`,
\* and looks for finality among the votes `finals`.
Finish(n, m, held, finals) ==
  LET ready == held \cap {v.tx : v \in {w \in finals : w.phase = "Finalized"}}
      final == {t \in Tx : m.states[t].phase = "Finalized"}
  IN  /\ certified' = [certified EXCEPT ![n] = @ \cup final]
      /\ \/ /\ ready = {}
            /\ mgr' = [mgr EXCEPT ![n] = m]
            /\ pending' = [pending EXCEPT ![n] = held]
            /\ UNCHANGED applied
         \/ \E t \in ready : \E ok \in Outcomes(t) :
              /\ mgr' = [mgr EXCEPT ![n] = IF ok THEN Settled(m, t) ELSE m]
              /\ pending' = [pending EXCEPT ![n] = held \ {t}]
              /\ applied' = [applied EXCEPT ![n][t] = IF ok THEN @ + 1 ELSE @]

----------------------------------------------------------------------------
(* The handlers.                                                           *)

\* A client's transaction is broadcast by the node that took it.  That node
\* does not validate it: gossip does not come back to it.
Submit(n, t) ==
  /\ submits[t] < MaxSubmits
  /\ submits' = [submits EXCEPT ![t] = @ + 1]
  /\ mail' = [p \in Node |-> [mail[p] EXCEPT ![t] = IF p = n THEN @ ELSE @ + 1]]
  /\ UNCHANGED <<local, net, restarts, history>>

\* The data of t arrives: hold it, validate it, vote and deliver the vote to
\* oneself.  The committee the votes go to is read before all that (mgr[n] is the state before).
HearTx(n, t) ==
  /\ mail[n][t] > 0
  /\ mail' = [mail EXCEPT ![n][t] = @ - 1]
  /\ heard' = [heard EXCEPT ![n][t] = @ + 1]
  /\ \E first \in {MarkValidated(mgr[n], t)} :
     \E c \in {Chain(first.mgr, first.votes)} :
       /\ net' = net \cup SentFirst(n, mgr[n].committee, first.votes)
                     \cup SentToCommittee(n, mgr[n].committee, c.sent)
       /\ Finish(n, c.mgr, pending[n] \cup {t}, c.next)
  /\ UNCHANGED <<peers, bounds>>

\* PbftVote: a vote that was sent to this node.
HearDirect(msg) ==
  /\ msg.via = "direct"
  /\ \E n \in {msg.to}, c \in {Chain(mgr[msg.to], {msg.vote})} :
       /\ net' = net \cup SentToCommittee(n, mgr[n].committee, c.sent)
       /\ Finish(n, c.mgr, pending[n], c.next)
  /\ UNCHANGED <<peers, mail, bounds, heard>>

\* feedo_consensus_ppor: a vote published by gossip.  Only here does a
\* Finalized vote of another node lead to execution.
HearGossip(msg) ==
  /\ msg.via = "gossip"
  /\ \E n \in {msg.to}, first \in {HandleMessage(mgr[msg.to], msg.vote)} :
     \E c \in {Chain(first.mgr, first.votes)} :
       /\ net' = net \cup SentFirst(n, mgr[n].committee, first.votes)
                     \cup SentToCommittee(n, mgr[n].committee, c.sent)
       /\ Finish(n, c.mgr, pending[n], {msg.vote} \cup c.next)
  /\ UNCHANGED <<peers, mail, bounds, heard>>

\* What p announces of itself every minute, by gossip and to each peer.
OwnRep(p) == IF mgr[p].rep[p] = 0 THEN NewcomerRep ELSE mgr[p].rep[p]

HearPeer(n, p) ==
  /\ n # p
  /\ peers' = [peers EXCEPT ![n] = @ \cup {p}]
  /\ mgr' = [mgr EXCEPT ![n] = HearAnnounce(@, p, OwnRep(p))]
  /\ UNCHANGED <<pending, net, mail, bounds, history>>

\* The manager's part of epoch_tick; the snapshot it publishes is in Ppor.
EpochTick(n) ==
  /\ mgr[n].due
  /\ mgr' = [mgr EXCEPT ![n] = CleanupFinalizedStates(RotateEpoch(@), KeepEpochs)]
  /\ UNCHANGED <<peers, pending, net, mail, bounds, history>>

\* The clocks of a node.  The age of an entry matters to a rotation only.
EpochExpires(n) ==
  /\ mgr[n].epoch < MaxEpoch
  /\ mgr' = [mgr EXCEPT ![n].due = TRUE]
  /\ UNCHANGED <<peers, pending, net, mail, bounds, history>>

TxExpires(n, t) ==
  /\ Open(mgr[n], t)
  /\ mgr[n].epoch < MaxEpoch
  /\ mgr' = [mgr EXCEPT ![n].states[t].timedOut = TRUE]
  /\ UNCHANGED <<peers, pending, net, mail, bounds, history>>

\* Nothing of all this is on disk: a node that restarts begins anew.
Restart(n) ==
  /\ restarts < MaxRestarts
  /\ restarts' = restarts + 1
  /\ mgr' = [mgr EXCEPT ![n] = Fresh(n)]
  /\ peers' = [peers EXCEPT ![n] = {}]
  /\ pending' = [pending EXCEPT ![n] = {}]
  /\ UNCHANGED <<net, mail, submits, history>>

Next ==
  \/ \E n \in Client, t \in Tx : Submit(n, t)
  \/ \E n \in Node, t \in Tx : HearTx(n, t)
  \/ \E msg \in net : HearDirect(msg)
  \/ \E msg \in net : HearGossip(msg)
  \/ \E n, p \in Node : HearPeer(n, p)
  \/ \E n \in Node : EpochTick(n)
  \/ \E n \in Node : EpochExpires(n)
  \/ \E n \in Node, t \in Tx : TxExpires(n, t)
  \/ \E n \in Node : Restart(n)

Spec == Init /\ [][Next]_vars

\* The votes that make a difference to n: those of members of its committee
\* that it has not counted, and a gossiped Finalized vote on data it holds.
Pressing(n) ==
  LET counted(v) == CASE v.phase = "Prepare" -> mgr[n].states[v.tx].prepares
                      [] v.phase = "Commit"  -> mgr[n].states[v.tx].commits
                      [] OTHER               -> {v.sender}
      counts(v) == v.sender \in mgr[n].committee \ counted(v)
      executes(msg) == /\ msg.via = "gossip" /\ msg.vote.phase = "Finalized"
                       /\ msg.vote.tx \in pending[n]
  IN  {msg \in net : msg.to = n /\ (counts(msg.vote) \/ executes(msg))}

\* A copy of the data of t reaches n: what HearTx, and no other action, does to mail.
Delivered(n, t) == mail[n][t] > 0 /\ mail' = [mail EXCEPT ![n][t] = @ - 1]

\* Messages that are sent arrive: weak fairness of hearing a transaction, and
\* of hearing a vote that counts.  (The second is spelt out, with what enables
\* the action in the place of ENABLED, which TLC is slow to evaluate.)
Fairness ==
  \A n \in Node :
    /\ \A t \in Tx : WF_mail(Delivered(n, t))
    /\ \/ []<>(Pressing(n) = {})
       \/ []<><<\E msg \in Pressing(n) : HearDirect(msg) \/ HearGossip(msg)>>_vars

FairSpec == Spec /\ Fairness

----------------------------------------------------------------------------
\* Every variable holds values of its kind, every manager is its node's.
TypeOK ==
  /\ \A n \in Node : /\ IsManager(mgr[n])
                     /\ mgr[n].id = n
                     /\ mgr[n].archive \in Seq(ArchiveEntry)
  /\ peers \in [Node -> SUBSET Node]
  /\ pending \in [Node -> SUBSET Tx]
  /\ net \subseteq Message
  /\ mail \in [Node -> [Tx -> 0..MaxSubmits]]
  /\ submits \in [Tx -> 0..MaxSubmits]
  /\ restarts \in 0..MaxRestarts
  /\ heard \in [Node -> [Tx -> 0..MaxSubmits]]
  /\ applied \in [Node -> [Tx -> 0..MaxSubmits]]
  /\ certified \in [Node -> SUBSET Tx]

\* On every node of the network, whatever is lost, repeated or late: an entry
\* past a round of votes holds a quorum of it and was validated here.
NodesAreCertified ==
  \A n \in Node, t \in Tx : /\ Certified(mgr[n].states[t])
                            /\ Checked(mgr[n].states[t])

\* A vote counted anywhere was cast by a node that has received, and checked,
\* the transaction's data: no quorum is made of nodes that have not seen it.
VotesAreBacked ==
  \A n, p \in Node, t \in Tx :
    p \in mgr[n].states[t].prepares \cup mgr[n].states[t].commits => heard[p][t] > 0

\* Finality is never the work of a few: while no node has restarted, a node
\* that had met others has a transaction final only once its data has reached
\* a quorum of a committee of those it had met, newcomers and rotations
\* notwithstanding.  (A node that restarts is a committee of its own.)
FinalityIsShared ==
  restarts = 0 =>
    \A n \in Met : \A t \in certified[n] : \A C \in SUBSET Met :
      Cardinality(C) <= CommitteeSize =>
        Cardinality({p \in Node : heard[p][t] > 0}) >= RequiredVotes(NewState(C))

\* No node executes a transaction before some node has finalized it.
AppliedIsCertified ==
  \A n \in Node, t \in Tx : applied[n][t] > 0 => \E p \in Node : t \in certified[p]

\* "When 2f+1 Commit votes [are] collected", the transaction is Finalized and
\* "executed" (CONSENSUS_DOCS.md, section 4.1): a node executes what its own
\* entry for the transaction, with the votes it counted, made final.
ExecutedOnQuorum ==
  \A n \in Node, t \in Tx : applied[n][t] > 0 => t \in certified[n]

\* A copy of the data delivered to a node is executed at most once, however
\* often the votes on it are repeated and however often the node restarts.
AppliedOncePerCopy ==
  \A n \in Node, t \in Tx :
    applied[n][t] + (IF t \in pending[n] THEN 1 ELSE 0) <= heard[n][t]

\* A validator leaves no quorum unused: when a handler is done, an entry is
\* not waiting for votes it already holds, in whatever order they and the
\* transaction's data came (the network has at most CommitteeSize nodes).
NoQuorumOverlooked ==
  \A n \in Node, t \in Tx : LET s == mgr[n].states[t] IN
    /\ s.phase = "Prepare" => Cardinality(s.prepares) < RequiredVotes(s)
    /\ s.phase = "Commit" => Cardinality(s.commits) < RequiredVotes(s)

\* With every message delivered, a transaction whose data has reached a quorum
\* of the nodes is finalized by every node it has reached, in whatever order
\* data and votes came.  (Not one that fewer have: the node that broadcasts a
\* transaction does not vote on it, so three nodes need a second broadcast.)
HeardIsFinalized ==
  \A n \in Node, t \in Tx :
    /\ heard[n][t] > 0
    /\ Cardinality({p \in Node : heard[p][t] > 0}) >= RequiredVotes(NewState(Node))
    ~> mgr[n].states[t].phase = "Finalized"

\* "Finalized: Transaction is executed" (CONSENSUS_DOCS.md, section 4.1).
FinalizedIsExecuted ==
  \A n \in Node, t \in Tx :
    mgr[n].states[t].phase = "Finalized" /\ t \in pending[n] ~> t \notin pending[n]

\* The committee of an epoch is drawn from a seed "all nodes agree" on
\* (CONSENSUS_DOCS.md, section 4.3): nodes of one epoch with the same
\* reputations have one committee.
CommitteesAgree ==
  \A a, b \in Node :
    (mgr[a].epoch = mgr[b].epoch /\ mgr[a].epoch > 0 /\ mgr[a].rep = mgr[b].rep)
      => mgr[a].committee = mgr[b].committee
----------------------------------------------------------------------------
(* What the network promises, whatever votes it takes (Finality).          *)

Abstract == INSTANCE Finality WITH
  received <- heard,
  final <- certified,
  done <- applied

\* One event at a node finalizes and executes one transaction at most, of which
\* the node holds the data, and which some node has final before the end of it
\* (swarm_loop.rs:163-331, 801-1020).
FinalityRefined == Abstract!Spec
=============================================================================
