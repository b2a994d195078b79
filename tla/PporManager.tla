---------------------------- MODULE PporManager ----------------------------
(***************************************************************************)
(* The data of one consensus node and what every method of PporManager     *)
(* (microservices/consensus-node/src/ppor.rs) does to it, as operators on  *)
(* a record.  The manager lives behind one async mutex and no method       *)
(* awaits, so a method is one step: the modules Ppor (one manager, any     *)
(* caller) and Swarm (many nodes and the event loop around them) turn      *)
(* these operators into actions.                                           *)
(*                                                                         *)
(* Abstracted: hashes, signatures and sequence numbers (no method reads    *)
(* them back), logging, and wall-clock time.  A clock is a flag some       *)
(* action raises: `due` is is_epoch_expired, `timedOut` is is_timed_out.   *)
(* Both stay as they are while one method runs.                            *)
(***************************************************************************)
EXTENDS Integers, FiniteSets, Sequences

CONSTANTS
  Node,           \* wallet addresses of the consensus nodes
  Tx,             \* transaction hashes
  Genesis,        \* "genesis_hash": last_finalized_hash of a new manager
  CommitteeSize,  \* 21 in the code
  InitialRep,     \* 100: reputation of the members of the first committee
  NewcomerRep,    \* 10: reputation of a sender nobody had announced
  PrepareReward,  \* 1: REP_PREPARE_VOTE
  CommitReward,   \* 2: REP_COMMIT_VOTE
  ArchiveSize,    \* 10000: max_archive_size
  KeepEpochs,     \* 2: epochs the archive keeps at a cleanup
  MaxRep,         \* bound of the model: no reputation grows above it
  MaxEpoch,       \* bound of the model: the last epoch
  Score(_, _, _)  \* Score(n, r, seed): the draw hash(seed, n).wrapping_mul(r)

ASSUME NodeAssumption == IsFiniteSet(Node) /\ Node # {}
ASSUME TxAssumption == IsFiniteSet(Tx)
ASSUME GenesisAssumption == Genesis \notin Tx
ASSUME SizeAssumption ==
  /\ CommitteeSize \in Nat \ {0} /\ InitialRep \in Nat \ {0}
  /\ NewcomerRep \in Nat \ {0} /\ ArchiveSize \in Nat \ {0}
  /\ PrepareReward \in Nat /\ CommitReward \in Nat
  /\ KeepEpochs \in Nat
  /\ MaxRep \in Nat \ {0} /\ MaxEpoch \in Nat

\* Two nodes never draw the same score: the draw is a hash of the node's name.
ASSUME ScoreAssumption ==
  \A a, b \in Node, x, y \in 1..MaxRep, h \in Tx \cup {Genesis}, e \in 0..MaxEpoch :
    a # b => Score(a, x, <<h, e>>) # Score(b, y, <<h, e>>)

----------------------------------------------------------------------------
(* One transaction: PporState.                                             *)

VotePhase == {"PrePrepare", "Prepare", "Commit", "Finalized"}

\* `committee` is the one in office when the state was created.
TxState ==
  [phase: VotePhase \cup {"None"}, prepares: SUBSET Node, commits: SUBSET Node,
   committee: SUBSET Node, validated: BOOLEAN, timedOut: BOOLEAN]

\* No entry for this hash in the map of states.
NoState ==
  [phase |-> "None", prepares |-> {}, commits |-> {}, committee |-> {},
   validated |-> FALSE, timedOut |-> FALSE]

NewState(committee) ==
  [phase |-> "PrePrepare", prepares |-> {}, commits |-> {}, committee |-> committee,
   validated |-> FALSE, timedOut |-> FALSE]

RequiredVotes(s) ==
  LET n == Cardinality(s.committee)
  IN  IF n <= 1 THEN 1 ELSE (2 * n) \div 3 + 1

\* Mutant: one vote at a time, the ones before it forgotten.
RecordedForgetting(s, phase, sender) ==
  CASE phase = "Prepare" -> [s EXCEPT !.prepares = {sender}]
    [] phase = "Commit"  -> [s EXCEPT !.commits = {sender}]
    [] OTHER             -> s

\* The vote is recorded whatever the phase of the transaction ...
Recorded(s, phase, sender) ==
  CASE phase = "Prepare" -> [s EXCEPT !.prepares = @ \cup {sender}]
    [] phase = "Commit"  -> [s EXCEPT !.commits = @ \cup {sender}]
    [] OTHER             -> s

\* Mutant: the second round counts the votes of the first.
CompletesOnPrepares(s, phase) ==
  /\ s.phase = phase
  /\ \/ phase = "PrePrepare" /\ s.validated
     \/ phase \in {"Prepare", "Commit"} /\ Cardinality(s.prepares) >= RequiredVotes(s)

\* Mutant: a proposal is enough to start voting.
CompletesUnvalidated(s, phase) ==
  /\ s.phase = phase
  /\ \/ phase = "PrePrepare"
     \/ phase = "Prepare" /\ Cardinality(s.prepares) >= RequiredVotes(s)
     \/ phase = "Commit" /\ Cardinality(s.commits) >= RequiredVotes(s)

\* Mutant: the quorum is looked for whatever the phase of the transaction.
CompletesInAnyPhase(s, phase) ==
  \/ phase = "PrePrepare" /\ s.phase = "PrePrepare" /\ s.validated
  \/ phase = "Prepare" /\ Cardinality(s.prepares) >= RequiredVotes(s)
  \/ phase = "Commit" /\ Cardinality(s.commits) >= RequiredVotes(s)

\* Mutant: a quorum is exactly so many votes.
CompletesExactly(s, phase) ==
  /\ s.phase = phase
  /\ \/ phase = "PrePrepare" /\ s.validated
     \/ phase = "Prepare" /\ Cardinality(s.prepares) = RequiredVotes(s)
     \/ phase = "Commit" /\ Cardinality(s.commits) = RequiredVotes(s)

\* Mutant: a quorum is so many votes besides the node's own, which is recorded too.
CompletesOneShort(s, phase) ==
  /\ s.phase = phase
  /\ \/ phase = "PrePrepare" /\ s.validated
     \/ phase = "Prepare" /\ Cardinality(s.prepares) + 1 >= RequiredVotes(s)
     \/ phase = "Commit" /\ Cardinality(s.commits) + 1 >= RequiredVotes(s)

\* ... and only a vote of the current phase can complete a quorum.
Completes(s, phase) ==
  /\ s.phase = phase
  /\ \/ phase = "PrePrepare" /\ s.validated
     \/ phase = "Prepare" /\ Cardinality(s.prepares) >= RequiredVotes(s)
     \/ phase = "Commit" /\ Cardinality(s.commits) >= RequiredVotes(s)

Following(phase) ==
  CASE phase = "PrePrepare" -> "Prepare"
    [] phase = "Prepare"    -> "Commit"
    [] OTHER                -> "Finalized"

ProcessMessage(s, phase, sender) ==
  LET r == Recorded(s, phase, sender)
  IN  IF Completes(r, phase) THEN [r EXCEPT !.phase = Following(phase)] ELSE r

----------------------------------------------------------------------------
(* The manager.                                                            *)

ArchiveEntry == [tx: Tx, epoch: Nat]

\* A manager, whatever its archive holds (that is a Seq(ArchiveEntry)).
\* rep[n] = 0: n is not in the reputation table (a reputation is at least 1).
IsManager(m) ==
  m \in [id: Node, states: [Tx -> TxState], committee: SUBSET Node, rep: [Node -> Nat],
         epoch: Nat, last: Tx \cup {Genesis}, due: BOOLEAN, archive: {m.archive}]

Known(m) == {n \in Node : m.rep[n] > 0}
IsValidator(m) == m.id \in m.committee
Open(m, t) == m.states[t].phase # "None"

\* new_with_committee_and_epoch: the addresses it is given, or the node alone.
NewManager(n, addrs) ==
  LET first == IF addrs = {} THEN {n} ELSE addrs
  IN  [id |-> n, states |-> [t \in Tx |-> NoState], committee |-> first,
       rep |-> [p \in Node |-> IF p \in first THEN InitialRep ELSE 0],
       epoch |-> 0, last |-> Genesis, due |-> FALSE, archive |-> <<>>]

\* select_committee_weighted: the CommitteeSize known nodes of highest score.
SelectCommittee(m) ==
  LET score(n) == Score(n, m.rep[n], <<m.last, m.epoch>>)
      ahead(n) == {p \in Known(m) : score(p) > score(n)}
  IN  [m EXCEPT !.committee = {n \in Known(m) : Cardinality(ahead(n)) < CommitteeSize}]

\* rotate_epoch drops every timed-out transaction, the finalized ones too.
RotateEpoch(m) ==
  SelectCommittee([m EXCEPT
    !.states = [t \in Tx |-> IF m.states[t].timedOut THEN NoState ELSE m.states[t]],
    !.epoch = @ + 1,
    !.due = FALSE])

MaybeRotateEpoch(m) == IF m.due THEN RotateEpoch(m) ELSE m

\* Mutant: the floor of 1 forgotten.
AdjustedBelowOne(r, delta) == (IF r = 0 THEN NewcomerRep ELSE r) + delta

Adjusted(r, delta) ==
  LET old == IF r = 0 THEN NewcomerRep ELSE r
  IN  IF old + delta < 1 THEN 1 ELSE old + delta

AdjustReputation(m, n, delta) == [m EXCEPT !.rep[n] = Adjusted(@, delta)]

\* A node heard of for the first time, with the reputation r.
Learn(m, n, r) == IF m.rep[n] = 0 THEN [m EXCEPT !.rep[n] = r] ELSE m

\* The entry for t, created for the committee in office if there is none.
Entered(m, t) ==
  IF Open(m, t) THEN m ELSE [m EXCEPT !.states[t] = NewState(m.committee)]

Vote == [phase: VotePhase, tx: Tx, sender: Node]

\* What a method that may answer with a vote returns: the manager it leaves
\* behind and the set of the votes, one at most, that it asks to send.
Outcome(m, votes) == [mgr |-> m, votes |-> votes]

\* A phase change is announced by the members of the committee only.
Announced(m, t, phase) ==
  Outcome(m, IF IsValidator(m) THEN {[phase |-> phase, tx |-> t, sender |-> m.id]} ELSE {})

\* Mutant: the seed taken from the first quorum already.
RewardedEarly(m, t, phase, sender) ==
  CASE phase = "Prepare" -> AdjustReputation(m, sender, PrepareReward)
    [] OTHER             -> [AdjustReputation(m, sender, CommitReward) EXCEPT !.last = t]

\* The effect of a phase change that a vote of `sender` brought about.
Rewarded(m, t, phase, sender) ==
  CASE phase = "Prepare" -> AdjustReputation(m, sender, PrepareReward)
    [] phase = "Commit"  -> AdjustReputation(m, sender, CommitReward)
    [] OTHER             -> [m EXCEPT !.last = t]

\* handle_message.  The entry is created, and the sender learned, before the
\* sender's membership of the committee in office is looked at.
HandleMessage(m, v) ==
  LET known == Learn(MaybeRotateEpoch(m), v.sender, NewcomerRep)
      seen  == Entered(known, v.tx)
      old   == seen.states[v.tx]
      new   == ProcessMessage(old, v.phase, v.sender)
      done  == [seen EXCEPT !.states[v.tx] = new]
  IN  IF v.sender \notin seen.committee THEN Outcome(seen, {})
      ELSE IF new.phase = old.phase THEN Outcome(done, {})
      ELSE Announced(Rewarded(done, v.tx, new.phase, v.sender), v.tx, new.phase)

\* mark_validated.  The votes that came before the transaction's data are not
\* counted again: the node's own vote, if it may cast one, does that.
MarkValidated(m, t) ==
  LET seen == Entered(MaybeRotateEpoch(m), t)
      done == [seen EXCEPT !.states[t].validated = TRUE]
  IN  IF seen.states[t].phase = "PrePrepare"
      THEN Announced([done EXCEPT !.states[t].phase = "Prepare"], t, "Prepare")
      ELSE Outcome(done, {})

\* propose: a validator opens the transaction anew, whatever was there.
Propose(m, t) ==
  IF IsValidator(m)
  THEN Announced([m EXCEPT !.states[t] = NewState(m.committee)], t, "PrePrepare")
  ELSE Outcome(m, {})

\* The handler of a peer announcement: learn the peer, then elect again with
\* the seed of the current epoch.
HearAnnounce(m, n, r) == SelectCommittee(Learn(m, n, r))

\* handle_finalized_tx drops the state of an applied name registration ...
DropState(m, t) == [m EXCEPT !.states[t] = NoState]

\* Mutant: the archive is never trimmed.
ArchiveUntrimmed(m, t) ==
  IF Open(m, t)
  THEN [DropState(m, t) EXCEPT !.archive = Append(@, [tx |-> t, epoch |-> m.epoch])]
  ELSE m

\* ... and archives that of a CID or metadata update, whatever its phase.
ArchiveFinalizedState(m, t) ==
  LET full == Append(m.archive, [tx |-> t, epoch |-> m.epoch])
      kept == IF Len(full) > ArchiveSize THEN Tail(full) ELSE full
  IN  IF Open(m, t) THEN [DropState(m, t) EXCEPT !.archive = kept] ELSE m

\* cleanup_finalized_states(keep): `keep` epochs of the archive stay.
\* kept[i]: what is retained of the first i entries.
CleanupFinalizedStates(m, keep) ==
  LET kept[i \in 0..Len(m.archive)] ==
        IF i = 0 THEN <<>>
        ELSE IF m.archive[i].epoch + keep >= m.epoch
             THEN Append(kept[i - 1], m.archive[i])
             ELSE kept[i - 1]
  IN  [m EXCEPT !.archive = kept[Len(m.archive)]]

\* cleanup_timed_out: the members who voted in neither round lose 3 points.
\* The penalties are applied one by one, for every transaction dropped.
CleanupTimedOut(m) ==
  LET stale == {t \in Tx : m.states[t].timedOut /\ m.states[t].phase # "Finalized"}
      missed(n) == {t \in stale : n \in m.states[t].committee
                                       \ (m.states[t].prepares \cup m.states[t].commits)}
  IN  [m EXCEPT
        !.states = [t \in Tx |-> IF t \in stale THEN NoState ELSE m.states[t]],
        !.rep = [n \in Node |-> IF missed(n) = {} THEN m.rep[n]
                                ELSE Adjusted(m.rep[n], -3 * Cardinality(missed(n)))]]

----------------------------------------------------------------------------
(* What every manager owes its callers; Ppor and Swarm check it.           *)

\* The votes an entry holds are a quorum of every round it is past.
Certified(s) ==
  /\ s.phase \in {"Commit", "Finalized"} => Cardinality(s.prepares) >= RequiredVotes(s)
  /\ s.phase = "Finalized" => Cardinality(s.commits) >= RequiredVotes(s)

\* An entry past PrePrepare is one whose data this node has checked.
Checked(s) == s.phase \notin {"None", "PrePrepare"} => s.validated

\* Committees and voters are in the reputation table.
AllKnown(m) ==
  /\ m.committee \subseteq Known(m)
  /\ \A t \in Tx : LET s == m.states[t] IN
       s.prepares \cup s.commits \cup s.committee \subseteq Known(m)
=============================================================================
