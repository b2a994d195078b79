----------------------------- MODULE PporManager_proofs -----------------------------
(***************************************************************************)
(* Safety of one PporManager, for every set of nodes and transactions,     *)
(* every committee size and every draw.  The invariant is inductive method *)
(* by method: one lemma per operator of PporManager says that it takes a   *)
(* sound manager to a sound manager, the lemma of a method cites those of  *)
(* the operators it is composed of, and the step lemma cites the methods'. *)
(***************************************************************************)
EXTENDS PporManager, FiniteSetTheorems, SequenceTheorems, TLAPS

SoundState(s) == s \in TxState /\ Certified(s) /\ Checked(s)

SoundManager(m) ==
  /\ IsManager(m)
  /\ \A t \in Tx : SoundState(m.states[t])
  /\ AllKnown(m)

----------------------------------------------------------------------------
(* Sets of votes and quorums.                                              *)

\* The quorum of an entry is a positive number.
LEMMA RequiredVotesType ==
  ASSUME NEW s \in TxState
  PROVE  RequiredVotes(s) \in Nat \ {0}
<1>1. s.committee \subseteq Node
  BY DEF TxState
<1>2. Cardinality(s.committee) \in Nat
  BY <1>1, NodeAssumption, FS_Subset, FS_CardinalityType
<1>. QED
  BY <1>2 DEF RequiredVotes

\* Votes are counted: a set of voters has a size, and one more vote does not
\* make it smaller.
LEMMA MoreVotes ==
  ASSUME NEW V \in SUBSET Node, NEW n \in Node
  PROVE  /\ Cardinality(V) \in Nat
         /\ Cardinality(V \cup {n}) \in Nat
         /\ Cardinality(V \cup {n}) >= Cardinality(V)
<1>1. IsFiniteSet(V) /\ IsFiniteSet(V \cup {n})
  BY NodeAssumption, FS_Subset, V \cup {n} \subseteq Node
<1>2. Cardinality(V) <= Cardinality(V \cup {n})
  BY <1>1, FS_Subset, V \subseteq V \cup {n}
<1>. QED
  BY <1>1, <1>2, FS_CardinalityType

----------------------------------------------------------------------------
(* One entry.                                                              *)

\* No entry, and a new one, are sound.
LEMMA FreshIsSound ==
  ASSUME NEW C \in SUBSET Node
  PROVE  SoundState(NoState) /\ SoundState(NewState(C))
BY DEF SoundState, NoState, NewState, TxState, VotePhase, Certified, Checked

\* Recording a vote keeps a sound entry sound, its phase, its committee and
\* its check.
LEMMA RecordedIsSound ==
  ASSUME NEW s, SoundState(s), NEW p \in VotePhase, NEW n \in Node
  PROVE  /\ SoundState(Recorded(s, p, n))
         /\ Recorded(s, p, n).phase = s.phase
         /\ Recorded(s, p, n).committee = s.committee
         /\ Recorded(s, p, n).validated = s.validated
         /\ Recorded(s, p, n).prepares \subseteq s.prepares \cup {n}
         /\ Recorded(s, p, n).commits \subseteq s.commits \cup {n}
<1>. DEFINE r == Recorded(s, p, n)
<1>0. s \in TxState /\ Certified(s) /\ Checked(s)
  BY DEF SoundState
<1>1. /\ r \in TxState
      /\ r.phase = s.phase /\ r.committee = s.committee /\ r.validated = s.validated
      /\ r.prepares \in {s.prepares, s.prepares \cup {n}}
      /\ r.commits \in {s.commits, s.commits \cup {n}}
  BY <1>0 DEF Recorded, TxState, VotePhase
<1>2. RequiredVotes(r) = RequiredVotes(s)
  BY <1>1 DEF RequiredVotes
<1>3. RequiredVotes(s) \in Nat
  BY <1>0, RequiredVotesType
<1>4. /\ Cardinality(s.prepares) \in Nat /\ Cardinality(s.commits) \in Nat
      /\ Cardinality(r.prepares) \in Nat /\ Cardinality(r.commits) \in Nat
      /\ Cardinality(r.prepares) >= Cardinality(s.prepares)
      /\ Cardinality(r.commits) >= Cardinality(s.commits)
  <2>1. s.prepares \in SUBSET Node /\ s.commits \in SUBSET Node
    BY <1>0 DEF TxState
  <2>2. \A V \in SUBSET Node :
          /\ Cardinality(V) \in Nat /\ Cardinality(V \cup {n}) \in Nat
          /\ Cardinality(V \cup {n}) >= Cardinality(V) /\ Cardinality(V) >= Cardinality(V)
    BY MoreVotes
  <2>. QED
    BY <2>1, <2>2, <1>1
<1>5. Certified(r)
  BY <1>0, <1>1, <1>2, <1>3, <1>4 DEF Certified
<1>6. Checked(r)
  BY <1>0, <1>1 DEF Checked
<1>. QED
  BY <1>1, <1>5, <1>6 DEF SoundState

\* A vote of a node takes a sound entry to a sound entry of the same
\* committee; the only new voter is the sender.
LEMMA ProcessMessageIsSound ==
  ASSUME NEW s, SoundState(s), NEW p \in VotePhase, NEW n \in Node, s.phase # "None"
  PROVE  /\ SoundState(ProcessMessage(s, p, n))
         /\ ProcessMessage(s, p, n).committee = s.committee
         /\ ProcessMessage(s, p, n).prepares \subseteq s.prepares \cup {n}
         /\ ProcessMessage(s, p, n).commits \subseteq s.commits \cup {n}
         /\ ProcessMessage(s, p, n).phase # "None"
<1>. DEFINE r == Recorded(s, p, n)
            q == [r EXCEPT !.phase = Following(p)]
<1>1. /\ SoundState(r) /\ r.phase = s.phase /\ r.committee = s.committee
      /\ r.prepares \subseteq s.prepares \cup {n}
      /\ r.commits \subseteq s.commits \cup {n}
  BY RecordedIsSound
<1>2. ASSUME Completes(r, p)
      PROVE  SoundState(q) /\ q.committee = s.committee /\ q.prepares = r.prepares
             /\ q.commits = r.commits /\ q.phase # "None"
  <2>1. r \in TxState /\ Certified(r) /\ Checked(r)
    BY <1>1 DEF SoundState
  <2>2. /\ q \in TxState /\ q.phase = Following(p) /\ q.committee = r.committee
        /\ q.prepares = r.prepares /\ q.commits = r.commits /\ q.validated = r.validated
    BY <2>1 DEF TxState, VotePhase, Following
  <2>3. RequiredVotes(q) = RequiredVotes(r)
    BY <2>2 DEF RequiredVotes
  <2>4. r.phase = p /\ q.phase # "None"
    BY <1>2, <2>2 DEF Completes, Following
  <2>5. Certified(q)
    BY <1>2, <2>1, <2>2, <2>3 DEF Certified, Completes, Following
  <2>6. Checked(q)
    BY <1>2, <2>1, <2>2 DEF Checked, Completes, Following
  <2>. QED
    BY <1>1, <2>2, <2>4, <2>5, <2>6 DEF SoundState
<1>. QED
  BY <1>1, <1>2 DEF ProcessMessage

----------------------------------------------------------------------------
(* The steps a method is made of.                                          *)

\* The nodes an entry names.
Named(s) == s.prepares \cup s.commits \cup s.committee

\* A manager with the entries of a sound one, who knows at least as many
\* nodes and seats known ones, is sound.
LEMMA EntriesKept ==
  ASSUME NEW m, SoundManager(m), NEW w, IsManager(w), w.states = m.states,
         Known(m) \subseteq Known(w), w.committee \subseteq Known(w)
  PROVE  SoundManager(w)
BY DEF SoundManager, AllKnown

\* A sound entry that names known nodes may take the place of another.
LEMMA EntryReplaced ==
  ASSUME NEW m, SoundManager(m), NEW t \in Tx, NEW s, SoundState(s),
         Named(s) \subseteq Known(m)
  PROVE  SoundManager([m EXCEPT !.states[t] = s]) /\ [m EXCEPT !.states[t] = s].id = m.id
<1>. DEFINE w == [m EXCEPT !.states[t] = s]
<1>1. IsManager(m) /\ s \in TxState
  BY DEF SoundManager, SoundState
<1>2. IsManager(w) /\ w.committee = m.committee /\ w.rep = m.rep
      /\ w.states = [m.states EXCEPT ![t] = s] /\ w.id = m.id
  BY <1>1 DEF IsManager
<1>3. \A u \in Tx : w.states[u] = IF u = t THEN s ELSE m.states[u]
  BY <1>1, <1>2 DEF IsManager
<1>4. Known(w) = Known(m)
  BY <1>2 DEF Known
<1>. QED
  BY <1>2, <1>3, <1>4 DEF SoundManager, AllKnown, Named

\* A reputation set to a positive number.
LEMMA ReputationSet ==
  ASSUME NEW m, SoundManager(m), NEW n \in Node, NEW r \in Nat \ {0}
  PROVE  /\ SoundManager([m EXCEPT !.rep[n] = r])
         /\ Known(m) \cup {n} \subseteq Known([m EXCEPT !.rep[n] = r])
         /\ [m EXCEPT !.rep[n] = r].id = m.id
<1>. DEFINE w == [m EXCEPT !.rep[n] = r]
<1>1. IsManager(m)
  BY DEF SoundManager
<1>2. IsManager(w) /\ w.committee = m.committee /\ w.states = m.states
      /\ w.rep = [m.rep EXCEPT ![n] = r] /\ w.id = m.id
  BY <1>1 DEF IsManager
<1>3. \A p \in Node : w.rep[p] = IF p = n THEN r ELSE m.rep[p]
  BY <1>1, <1>2 DEF IsManager
<1>4. Known(m) \cup {n} \subseteq Known(w)
  BY <1>3 DEF Known
<1>5. w.committee \subseteq Known(w)
  BY <1>2, <1>4 DEF SoundManager, AllKnown
<1>. QED
  BY <1>2, <1>4, <1>5, EntriesKept

\* An adjusted reputation is positive whatever the adjustment: the floor.
LEMMA AdjustedType ==
  ASSUME NEW r \in Nat, NEW d \in Int
  PROVE  Adjusted(r, d) \in Nat \ {0}
BY SizeAssumption DEF Adjusted

\* An adjustment touches the reputations only, and names no stranger.
LEMMA AdjustReputationIsSound ==
  ASSUME NEW m, SoundManager(m), NEW n \in Node, NEW d \in Int
  PROVE  SoundManager(AdjustReputation(m, n, d)) /\ AdjustReputation(m, n, d).id = m.id
<1>1. m.rep[n] \in Nat
  BY DEF SoundManager, IsManager
<1>2. AdjustReputation(m, n, d) = [m EXCEPT !.rep[n] = Adjusted(m.rep[n], d)]
  BY DEF SoundManager, IsManager, AdjustReputation
<1>. QED
  BY <1>1, <1>2, AdjustedType, ReputationSet

\* Once learned, a node is known.
LEMMA LearnIsSound ==
  ASSUME NEW m, SoundManager(m), NEW n \in Node, NEW r \in Nat \ {0}
  PROVE  /\ SoundManager(Learn(m, n, r)) /\ Learn(m, n, r).id = m.id
         /\ n \in Known(Learn(m, n, r))
<1>1. CASE m.rep[n] = 0
  BY <1>1, ReputationSet DEF Learn
<1>2. CASE m.rep[n] # 0
  <2>1. m.rep[n] \in Nat
    BY DEF SoundManager, IsManager
  <2>. QED
    BY <1>2, <2>1 DEF Learn, Known
<1>. QED
  BY <1>1, <1>2

\* An election seats known nodes only.
LEMMA SelectCommitteeIsSound ==
  ASSUME NEW m, SoundManager(m)
  PROVE  SoundManager(SelectCommittee(m)) /\ SelectCommittee(m).id = m.id
<1>. DEFINE w == SelectCommittee(m)
<1>1. PICK C \in SUBSET Known(m) : w = [m EXCEPT !.committee = C]
  BY DEF SelectCommittee
<1>2. IsManager(m) /\ C \subseteq Node
  BY <1>1 DEF SoundManager, Known
<1>3. IsManager(w) /\ w.states = m.states /\ w.rep = m.rep /\ w.committee = C
      /\ w.id = m.id
  BY <1>1, <1>2 DEF IsManager
<1>4. Known(w) = Known(m)
  BY <1>3 DEF Known
<1>. QED
  BY <1>1, <1>3, <1>4, EntriesKept

\* The draw is a number (a u64 in the code).
ScoresAreNumbers ==
  \A n \in Node, r \in Nat, h \in Tx \cup {Genesis}, e \in Nat :
    Score(n, r, <<h, e>>) \in Nat

\* The manager without the entries in S.
Without(m, S) ==
  [m EXCEPT !.states = [t \in Tx |-> IF t \in S THEN NoState ELSE m.states[t]]]

\* A sound manager may drop any of its entries.
LEMMA EntriesDropped ==
  ASSUME NEW m, SoundManager(m), NEW S \in SUBSET Tx
  PROVE  SoundManager(Without(m, S)) /\ Without(m, S).id = m.id
<1>. DEFINE w == Without(m, S)
<1>1. IsManager(m) /\ SoundState(NoState) /\ Named(NoState) = {}
  BY FreshIsSound DEF SoundManager, NoState, Named
<1>2. /\ w.states = [t \in Tx |-> IF t \in S THEN NoState ELSE m.states[t]]
      /\ w.committee = m.committee /\ w.rep = m.rep /\ w.id = m.id
  BY <1>1 DEF IsManager, Without
<1>3. IsManager(w)
  BY <1>1 DEF IsManager, SoundState, Without
<1>4. Known(w) = Known(m)
  BY <1>2 DEF Known
<1>. QED
  BY <1>1, <1>2, <1>3, <1>4 DEF SoundManager, AllKnown, Named

\* The next epoch begins, its clock restarted.
Later(m) == [m EXCEPT !.epoch = @ + 1, !.due = FALSE]

\* The next epoch leaves entries, seats and reputations alone.
LEMMA EpochMovedOn ==
  ASSUME NEW m, SoundManager(m)
  PROVE  SoundManager(Later(m)) /\ Later(m).id = m.id
<1>. DEFINE w == Later(m)
<1>1. IsManager(m)
  BY DEF SoundManager
<1>2. m.epoch \in Nat /\ m.epoch + 1 \in Nat
  BY <1>1 DEF IsManager
<1>3. /\ w.id = m.id /\ w.states = m.states /\ w.committee = m.committee
      /\ w.rep = m.rep /\ w.epoch = m.epoch + 1 /\ w.last = m.last
      /\ w.due = FALSE /\ w.archive = m.archive
  BY <1>1 DEF IsManager, Later
<1>4. IsManager(w)
  BY <1>1, <1>2, <1>3 DEF IsManager, Later
<1>5. Known(w) = Known(m)
  BY <1>3 DEF Known
<1>. QED
  BY <1>3, <1>4, <1>5, EntriesKept DEF SoundManager, AllKnown

\* A rotation, and what every handler does of it when it is due.
LEMMA RotateEpochIsSound ==
  ASSUME NEW m, SoundManager(m)
  PROVE  /\ SoundManager(RotateEpoch(m)) /\ RotateEpoch(m).id = m.id
         /\ SoundManager(MaybeRotateEpoch(m)) /\ MaybeRotateEpoch(m).id = m.id
<1>. DEFINE w == Without(m, {t \in Tx : m.states[t].timedOut})
<1>1. SoundManager(w) /\ w.id = m.id
  BY EntriesDropped
<1>2. RotateEpoch(m) = SelectCommittee(Later(w))
  BY DEF RotateEpoch, Later, Without, SoundManager, IsManager
<1>. HIDE DEF w
<1>3. SoundManager(RotateEpoch(m)) /\ RotateEpoch(m).id = m.id
  BY <1>1, <1>2, EpochMovedOn, SelectCommitteeIsSound
<1>. QED
  BY <1>3 DEF MaybeRotateEpoch

\* Opening an entry for the committee in office.
LEMMA EnteredIsSound ==
  ASSUME NEW m, SoundManager(m), NEW t \in Tx
  PROVE  /\ SoundManager(Entered(m, t))
         /\ Entered(m, t).states[t].phase # "None"
         /\ Entered(m, t).id = m.id
         /\ Entered(m, t).rep = m.rep
         /\ Entered(m, t).committee = m.committee
<1>1. m.committee \in SUBSET Node /\ Named(NewState(m.committee)) \subseteq Known(m)
      /\ NewState(m.committee).phase # "None"
  BY DEF SoundManager, IsManager, AllKnown, Named, NewState
<1>2. /\ SoundManager([m EXCEPT !.states[t] = NewState(m.committee)])
      /\ [m EXCEPT !.states[t] = NewState(m.committee)].id = m.id
  BY <1>1, FreshIsSound, EntryReplaced
<1>. QED
  BY <1>1, <1>2 DEF Entered, Open, SoundManager, IsManager

----------------------------------------------------------------------------
(* The methods.                                                            *)

\* A manager is sound from its construction on.
LEMMA NewManagerIsSound ==
  ASSUME NEW n \in Node, NEW C \in SUBSET Node
  PROVE  SoundManager(NewManager(n, C)) /\ NewManager(n, C).id = n
<1>. DEFINE m == NewManager(n, C)
            first == IF C = {} THEN {n} ELSE C
<1>1. /\ m.id = n /\ m.states = [t \in Tx |-> NoState] /\ m.committee = first
      /\ m.rep = [p \in Node |-> IF p \in first THEN InitialRep ELSE 0]
  BY DEF NewManager
<1>2. SoundState(NoState) /\ Named(NoState) = {}
  BY FreshIsSound DEF NoState, Named
<1>3. IsManager(m)
  BY <1>2, SizeAssumption DEF IsManager, NewManager, SoundState
<1>4. m.committee \subseteq Known(m)
  BY <1>1, SizeAssumption DEF Known
<1>. QED
  BY <1>1, <1>2, <1>3, <1>4 DEF SoundManager, AllKnown, Named

\* The effect of a phase change keeps a manager sound.
LEMMA RewardedIsSound ==
  ASSUME NEW m, SoundManager(m), NEW t \in Tx, NEW p, NEW n \in Node
  PROVE  SoundManager(Rewarded(m, t, p, n)) /\ Rewarded(m, t, p, n).id = m.id
<1>1. CASE p = "Prepare" \/ p = "Commit"
  <2>1. PrepareReward \in Int /\ CommitReward \in Int
    BY SizeAssumption
  <2>. QED
    BY <1>1, <2>1, AdjustReputationIsSound DEF Rewarded
<1>2. CASE p \notin {"Prepare", "Commit"}
  <2>. DEFINE w == [m EXCEPT !.last = t]
  <2>1. Rewarded(m, t, p, n) = w
    BY <1>2 DEF Rewarded
  <2>2. IsManager(w) /\ w.states = m.states /\ w.committee = m.committee /\ w.rep = m.rep
        /\ w.id = m.id
    BY DEF SoundManager, IsManager
  <2>3. Known(w) = Known(m)
    BY <2>2 DEF Known
  <2>. QED
    BY <2>1, <2>2, <2>3, EntriesKept DEF SoundManager, AllKnown
<1>. QED
  BY <1>1, <1>2

\* handle_message, for any vote of any node.
LEMMA HandleMessageIsSound ==
  ASSUME NEW m, SoundManager(m), NEW v \in Vote
  PROVE  SoundManager(HandleMessage(m, v).mgr) /\ HandleMessage(m, v).mgr.id = m.id
<1>. DEFINE known == Learn(MaybeRotateEpoch(m), v.sender, NewcomerRep)
            seen  == Entered(known, v.tx)
            old   == seen.states[v.tx]
            new   == ProcessMessage(old, v.phase, v.sender)
            done  == [seen EXCEPT !.states[v.tx] = new]
<1>0. v.phase \in VotePhase /\ v.tx \in Tx /\ v.sender \in Node
  BY DEF Vote
<1>1. SoundManager(known) /\ v.sender \in Known(known) /\ known.id = m.id
  BY <1>0, RotateEpochIsSound, LearnIsSound, SizeAssumption
<1>2. /\ SoundManager(seen) /\ v.sender \in Known(seen) /\ seen.id = m.id
      /\ SoundState(old) /\ old.phase # "None" /\ Named(old) \subseteq Known(seen)
  <2>. HIDE DEF known
  <2>1. /\ SoundManager(seen) /\ seen.rep = known.rep /\ old.phase # "None"
        /\ seen.id = known.id
    BY <1>0, <1>1, EnteredIsSound
  <2>. HIDE DEF seen
  <2>. QED
    BY <1>0, <1>1, <2>1 DEF Known, SoundManager, AllKnown, Named
<1>3. SoundManager(done) /\ done.id = m.id
  <2>. HIDE DEF seen
  <2>1. /\ SoundState(new) /\ new.committee = old.committee
        /\ new.prepares \subseteq old.prepares \cup {v.sender}
        /\ new.commits \subseteq old.commits \cup {v.sender}
    BY <1>0, <1>2, ProcessMessageIsSound
  <2>2. Named(new) \subseteq Known(seen)
    BY <1>2, <2>1 DEF Named
  <2>. QED
    BY <1>0, <1>2, <2>1, <2>2, EntryReplaced
<1>4. /\ SoundManager(Rewarded(done, v.tx, new.phase, v.sender))
      /\ Rewarded(done, v.tx, new.phase, v.sender).id = m.id
  <2>. HIDE DEF done, new
  <2>. QED
    BY <1>0, <1>3, RewardedIsSound
<1>5. HandleMessage(m, v).mgr \in {seen, done, Rewarded(done, v.tx, new.phase, v.sender)}
  BY DEF HandleMessage, Outcome, Announced
<1>. QED
  BY <1>2, <1>3, <1>4, <1>5

\* mark_validated, whatever votes came first.
LEMMA MarkValidatedIsSound ==
  ASSUME NEW m, SoundManager(m), NEW t \in Tx
  PROVE  SoundManager(MarkValidated(m, t).mgr) /\ MarkValidated(m, t).mgr.id = m.id
<1>. DEFINE seen == Entered(MaybeRotateEpoch(m), t)
            s    == seen.states[t]
            done == [seen EXCEPT !.states[t].validated = TRUE]
            next == [done EXCEPT !.states[t].phase = "Prepare"]
<1>1. SoundManager(seen) /\ s.phase # "None" /\ seen.id = m.id
  BY RotateEpochIsSound, EnteredIsSound
<1>. HIDE DEF seen
<1>2. /\ IsManager(seen) /\ s \in TxState /\ Certified(s) /\ Checked(s)
      /\ Named(s) \subseteq Known(seen)
  BY <1>1 DEF SoundManager, SoundState, AllKnown, Named
<1>3. SoundManager(done) /\ done.id = m.id
  <2>. DEFINE r == [s EXCEPT !.validated = TRUE]
  <2>1. done = [seen EXCEPT !.states[t] = r]
    BY <1>2 DEF IsManager
  <2>2. /\ r \in TxState /\ r.phase = s.phase /\ r.prepares = s.prepares
        /\ r.commits = s.commits /\ r.committee = s.committee /\ r.validated = TRUE
    BY <1>2 DEF TxState
  <2>3. SoundState(r) /\ Named(r) = Named(s)
    BY <1>2, <2>2 DEF SoundState, Certified, RequiredVotes, Checked, Named
  <2>. QED
    BY <1>1, <1>2, <2>1, <2>3, EntryReplaced
<1>4. ASSUME s.phase = "PrePrepare" PROVE SoundManager(next) /\ next.id = m.id
  <2>. DEFINE r == [s EXCEPT !.validated = TRUE, !.phase = "Prepare"]
  <2>1. next = [seen EXCEPT !.states[t] = r]
    BY <1>2 DEF IsManager, TxState
  <2>2. /\ r \in TxState /\ r.phase = "Prepare" /\ r.prepares = s.prepares
        /\ r.commits = s.commits /\ r.committee = s.committee /\ r.validated = TRUE
    BY <1>2 DEF TxState, VotePhase
  <2>3. SoundState(r) /\ Named(r) = Named(s)
    BY <2>2 DEF SoundState, Certified, Checked, Named
  <2>. QED
    BY <1>1, <1>2, <2>1, <2>3, EntryReplaced
<1>. QED
  BY <1>3, <1>4 DEF MarkValidated, Outcome, Announced, seen

\* propose, whether or not the node is a validator.
LEMMA ProposeIsSound ==
  ASSUME NEW m, SoundManager(m), NEW t \in Tx
  PROVE  SoundManager(Propose(m, t).mgr) /\ Propose(m, t).mgr.id = m.id
<1>1. m.committee \in SUBSET Node /\ Named(NewState(m.committee)) \subseteq Known(m)
  BY DEF SoundManager, IsManager, AllKnown, Named, NewState
<1>2. /\ SoundManager([m EXCEPT !.states[t] = NewState(m.committee)])
      /\ [m EXCEPT !.states[t] = NewState(m.committee)].id = m.id
  BY <1>1, FreshIsSound, EntryReplaced
<1>. QED
  BY <1>2 DEF Propose, Announced, Outcome

\* The entry of an applied transaction goes, to the archive or not.
LEMMA DropIsSound ==
  ASSUME NEW m, SoundManager(m), NEW t \in Tx
  PROVE  /\ SoundManager(DropState(m, t)) /\ DropState(m, t).id = m.id
         /\ SoundManager(ArchiveFinalizedState(m, t))
         /\ ArchiveFinalizedState(m, t).id = m.id
<1>. DEFINE w == DropState(m, t)
<1>1. SoundManager(w) /\ w.id = m.id
  BY FreshIsSound, EntryReplaced DEF DropState, NoState, Named
<1>. HIDE DEF w
<1>2. ASSUME NEW a
      PROVE  SoundManager([w EXCEPT !.archive = a]) /\ [w EXCEPT !.archive = a].id = m.id
  <2>. DEFINE x == [w EXCEPT !.archive = a]
  <2>1. IsManager(x) /\ x.states = w.states /\ x.committee = w.committee /\ x.rep = w.rep
        /\ x.id = w.id
    BY <1>1 DEF SoundManager, IsManager
  <2>2. Known(x) = Known(w)
    BY <2>1 DEF Known
  <2>. QED
    BY <1>1, <2>1, <2>2, EntriesKept DEF SoundManager, AllKnown
<1>3. \E a : ArchiveFinalizedState(m, t) \in {m, [w EXCEPT !.archive = a]}
  BY DEF ArchiveFinalizedState, w
<1>. QED
  BY <1>1, <1>2, <1>3 DEF w

\* The cleanup of the archive concerns nothing else.
LEMMA CleanupFinalizedIsSound ==
  ASSUME NEW m, SoundManager(m), NEW k
  PROVE  /\ SoundManager(CleanupFinalizedStates(m, k))
         /\ CleanupFinalizedStates(m, k).id = m.id
<1>. DEFINE w == CleanupFinalizedStates(m, k)
<1>1. \E a : w = [m EXCEPT !.archive = a]
  BY DEF CleanupFinalizedStates
<1>2. IsManager(w) /\ w.states = m.states /\ w.committee = m.committee /\ w.rep = m.rep
      /\ w.id = m.id
  BY <1>1 DEF SoundManager, IsManager
<1>3. Known(w) = Known(m)
  BY <1>2 DEF Known
<1>. QED
  BY <1>2, <1>3, EntriesKept DEF SoundManager, AllKnown

\* cleanup_timed_out: the penalties, then the entries dropped.
LEMMA CleanupTimedOutIsSound ==
  ASSUME NEW m, SoundManager(m)
  PROVE  SoundManager(CleanupTimedOut(m)) /\ CleanupTimedOut(m).id = m.id
<1>. DEFINE stale == {t \in Tx : m.states[t].timedOut /\ m.states[t].phase # "Finalized"}
            missed(n) == {t \in stale : n \in m.states[t].committee
                                       \ (m.states[t].prepares \cup m.states[t].commits)}
            rep == [n \in Node |-> IF missed(n) = {} THEN m.rep[n]
                                   ELSE Adjusted(m.rep[n], -3 * Cardinality(missed(n)))]
            w == [m EXCEPT !.rep = rep]
<1>1. IsManager(m)
  BY DEF SoundManager
<1>2. ASSUME NEW n \in Node
      PROVE  rep[n] \in Nat /\ (m.rep[n] > 0 => rep[n] > 0)
  <2>1. m.rep[n] \in Nat
    BY <1>1 DEF IsManager
  <2>2. missed(n) \in SUBSET Tx
    OBVIOUS
  <2>3. ASSUME NEW M \in SUBSET Tx
        PROVE  Adjusted(m.rep[n], -3 * Cardinality(M)) \in Nat \ {0}
    <3>1. Cardinality(M) \in Nat
      BY TxAssumption, FS_Subset, FS_CardinalityType
    <3>2. -3 * Cardinality(M) \in Int
      BY <3>1
    <3>. QED
      BY <2>1, <3>2, AdjustedType
  <2>4. rep[n] = IF missed(n) = {} THEN m.rep[n]
                 ELSE Adjusted(m.rep[n], -3 * Cardinality(missed(n)))
    OBVIOUS
  <2>5. Adjusted(m.rep[n], -3 * Cardinality(missed(n))) \in Nat \ {0}
    BY <2>2, <2>3
  <2>. HIDE DEF missed, rep
  <2>. QED
    BY <2>1, <2>4, <2>5
<1>3. SoundManager(w) /\ w.id = m.id
  <2>. HIDE DEF rep
  <2>1. rep \in [Node -> Nat]
    BY <1>2 DEF rep
  <2>2. IsManager(w) /\ w.states = m.states /\ w.committee = m.committee /\ w.rep = rep
        /\ w.id = m.id
    BY <1>1, <2>1 DEF IsManager
  <2>3. Known(m) \subseteq Known(w)
    BY <1>2, <2>2 DEF Known
  <2>. QED
    BY <2>2, <2>3, EntriesKept DEF SoundManager, AllKnown
<1>4. CleanupTimedOut(m) = Without(w, stale)
  <2>1. w.states = m.states
    BY <1>1 DEF IsManager
  <2>. QED
    BY <1>1, <2>1 DEF CleanupTimedOut, Without, IsManager
<1>5. SoundManager(Without(w, stale)) /\ Without(w, stale).id = m.id
  <2>1. stale \in SUBSET Tx
    OBVIOUS
  <2>. HIDE DEF w, stale
  <2>. QED
    BY <1>3, <2>1, EntriesDropped
<1>. QED
  BY <1>4, <1>5

\* A clock that goes off changes nothing else.
LEMMA ClocksAreSound ==
  ASSUME NEW m, SoundManager(m)
  PROVE  /\ SoundManager([m EXCEPT !.due = TRUE]) /\ [m EXCEPT !.due = TRUE].id = m.id
         /\ \A t \in Tx : /\ SoundManager([m EXCEPT !.states[t].timedOut = TRUE])
                          /\ [m EXCEPT !.states[t].timedOut = TRUE].id = m.id
<1>1. SoundManager([m EXCEPT !.due = TRUE]) /\ [m EXCEPT !.due = TRUE].id = m.id
  <2>. DEFINE w == [m EXCEPT !.due = TRUE]
  <2>1. IsManager(w) /\ w.states = m.states /\ w.committee = m.committee /\ w.rep = m.rep
        /\ w.id = m.id
    BY DEF SoundManager, IsManager
  <2>2. Known(w) = Known(m)
    BY <2>1 DEF Known
  <2>. QED
    BY <2>1, <2>2, EntriesKept DEF SoundManager, AllKnown
<1>2. ASSUME NEW t \in Tx
      PROVE  /\ SoundManager([m EXCEPT !.states[t].timedOut = TRUE])
             /\ [m EXCEPT !.states[t].timedOut = TRUE].id = m.id
  <2>. DEFINE s == m.states[t]
              r == [s EXCEPT !.timedOut = TRUE]
  <2>1. s \in TxState /\ Certified(s) /\ Checked(s) /\ Named(s) \subseteq Known(m)
    BY DEF SoundManager, SoundState, AllKnown, Named
  <2>2. /\ r \in TxState /\ r.phase = s.phase /\ r.prepares = s.prepares
        /\ r.commits = s.commits /\ r.committee = s.committee /\ r.validated = s.validated
    BY <2>1 DEF TxState
  <2>3. SoundState(r) /\ Named(r) = Named(s)
    BY <2>1, <2>2 DEF SoundState, Certified, RequiredVotes, Checked, Named
  <2>4. [m EXCEPT !.states[t].timedOut = TRUE] = [m EXCEPT !.states[t] = r]
    BY DEF SoundManager, IsManager
  <2>. QED
    BY <2>1, <2>3, <2>4, EntryReplaced
<1>. QED
  BY <1>1, <1>2

----------------------------------------------------------------------------
(* The archive.                                                            *)

\* Induction, for a set of naturals instead of a predicate: the minimal number
\* outside the set, if there is one, has a predecessor in it.
LEMMA NatInduct ==
  ASSUME NEW T \in SUBSET Nat, 0 \in T, \A n \in T : n + 1 \in T
  PROVE  T = Nat
<1>1. SUFFICES ASSUME Nat \ T # {} PROVE FALSE
  OBVIOUS
<1>2. PICK n \in Nat \ T : \A m \in Nat \ T : ~(<<m, n>> \in OpToRel(<, Nat))
  BY <1>1, NatLessThanWellFounded, WFMin
<1>3. \A m \in Nat \ T : ~(m < n)
  BY <1>2 DEF OpToRel
<1>4. n # 0 /\ n - 1 \in Nat /\ n - 1 < n
  OBVIOUS
<1>5. n - 1 \in T
  BY <1>3, <1>4
<1>6. (n - 1) + 1 \in T
  BY <1>5
<1>. QED
  BY <1>6

\* The entries of an archive, and their epochs.
LEMMA ArchiveEntries ==
  ASSUME NEW a \in Seq(ArchiveEntry)
  PROVE  /\ Len(a) \in Nat
         /\ \A i \in 1..Len(a) : a[i] \in ArchiveEntry /\ a[i].epoch \in Nat
<1>1. Len(a) \in Nat /\ \A i \in 1..Len(a) : a[i] \in ArchiveEntry
  BY LenProperties, ElementOfSeq
<1>2. \A x \in ArchiveEntry : x.epoch \in Nat
  BY DEF ArchiveEntry
<1>. QED
  BY <1>1, <1>2

\* An archive that is a log up to epoch e: no longer than it may be, in order,
\* and of no later epoch.
Log(a, e) ==
  /\ a \in Seq(ArchiveEntry)
  /\ Len(a) <= ArchiveSize
  /\ \A i \in 1..Len(a) : a[i].epoch <= e
  /\ \A i, j \in 1..Len(a) : i < j => a[i].epoch <= a[j].epoch

\* Epochs pass over a log.
LEMMA LogLater ==
  ASSUME NEW a, NEW e \in Nat, NEW f \in Nat, Log(a, e), e <= f
  PROVE  Log(a, f)
<1>1. \A i \in 1..Len(a) : a[i].epoch \in Nat
  BY ArchiveEntries DEF Log
<1>. QED
  BY <1>1 DEF Log

\* An entry of the current epoch at the end of a log, and the first one gone
\* if the log is then too long.
LEMMA LogGrows ==
  ASSUME NEW a, NEW e \in Nat, Log(a, e), NEW t \in Tx
  PROVE  LET full == Append(a, [tx |-> t, epoch |-> e])
         IN  Log(IF Len(full) > ArchiveSize THEN Tail(full) ELSE full, e)
<1>. DEFINE x == [tx |-> t, epoch |-> e]
            full == Append(a, x)
<1>1. x \in ArchiveEntry /\ x.epoch = e /\ a \in Seq(ArchiveEntry) /\ Len(a) \in Nat
  BY LenProperties DEF ArchiveEntry, Log
<1>. HIDE DEF x
<1>2. /\ full \in Seq(ArchiveEntry) /\ Len(full) = Len(a) + 1
      /\ \A i \in 1..Len(full) : full[i] = IF i = Len(full) THEN x ELSE a[i]
  <2>1. /\ full \in Seq(ArchiveEntry) /\ Len(full) = Len(a) + 1 /\ full[Len(a) + 1] = x
        /\ \A i \in 1..Len(a) : full[i] = a[i]
    BY <1>1, AppendProperties
  <2>. QED
    BY <1>1, <2>1
<1>3. \A i \in 1..Len(a) : a[i].epoch \in Nat /\ a[i].epoch <= e
  BY <1>1, ArchiveEntries DEF Log
<1>4. /\ \A i \in 1..Len(full) : full[i].epoch <= e
      /\ \A i, j \in 1..Len(full) : i < j => full[i].epoch <= full[j].epoch
  <2>. HIDE DEF full
  <2>1. \A i \in 1..Len(full) : full[i].epoch = IF i = Len(full) THEN e ELSE a[i].epoch
    BY <1>1, <1>2
  <2>2. \A i \in 1..Len(full) : i # Len(full) => i \in 1..Len(a)
    BY <1>1, <1>2
  <2>3. \A i, j \in 1..Len(a) : i < j => a[i].epoch <= a[j].epoch
    BY DEF Log
  <2>4. \A i \in 1..Len(full) : full[i].epoch <= e
    BY <1>3, <2>1, <2>2
  <2>5. ASSUME NEW i \in 1..Len(full), NEW j \in 1..Len(full), i < j
        PROVE  full[i].epoch <= full[j].epoch
    <3>1. i # Len(full)
      BY <1>1, <1>2, <2>5
    <3>2. CASE j = Len(full)
      BY <1>3, <2>1, <2>2, <3>1, <3>2
    <3>3. CASE j # Len(full)
      BY <2>1, <2>2, <2>3, <2>5, <3>1, <3>3
    <3>. QED
      BY <3>2, <3>3
  <2>. QED
    BY <2>4, <2>5
<1>5. Len(a) <= ArchiveSize /\ ArchiveSize \in Nat \ {0}
  BY SizeAssumption DEF Log
<1>. HIDE DEF full
<1>6. CASE Len(full) > ArchiveSize
  <2>. DEFINE tail == Tail(full)
  <2>1. full # <<>>
    <3>1. Len(full) # 0
      BY <1>1, <1>2
    <3>. QED
      BY <1>2, <3>1, EmptySeq
  <2>2. /\ tail \in Seq(ArchiveEntry) /\ Len(tail) = Len(full) - 1
        /\ \A i \in 1..Len(tail) : tail[i] = full[i + 1]
    BY <1>2, <2>1, HeadTailProperties
  <2>3. \A i \in 1..Len(tail) : i + 1 \in 1..Len(full)
    BY <1>1, <1>2, <2>2
  <2>4. Len(tail) <= ArchiveSize
    BY <1>1, <1>2, <1>5, <2>2
  <2>. HIDE DEF tail
  <2>5. \A i \in 1..Len(tail) : tail[i].epoch <= e
    BY <1>4, <2>2, <2>3
  <2>6. \A i, j \in 1..Len(tail) : i < j => tail[i].epoch <= tail[j].epoch
    BY <1>4, <2>2, <2>3
  <2>7. Log(tail, e)
    BY <2>2, <2>4, <2>5, <2>6 DEF Log
  <2>. QED
    BY <1>6, <2>7 DEF full, tail, x
<1>7. CASE ~(Len(full) > ArchiveSize)
  <2>1. Len(full) <= ArchiveSize
    BY <1>1, <1>2, <1>5, <1>7
  <2>2. Log(full, e)
    BY <1>2, <1>4, <2>1 DEF Log
  <2>. QED
    BY <1>7, <2>2 DEF full, x
<1>. QED
  BY <1>6, <1>7

\* What the cleanup computes: kept[i] is what stays of the first i entries.
Retains(kept, a, keep, epoch) ==
  kept = [i \in 0..Len(a) |->
            IF i = 0 THEN <<>>
            ELSE IF a[i].epoch + keep >= epoch THEN Append(kept[i - 1], a[i])
            ELSE kept[i - 1]]

\* There is such a function, whatever the archive.
LEMMA RetainsExists ==
  ASSUME NEW a, NEW keep, NEW epoch, Len(a) \in Nat
  PROVE  \E kept : Retains(kept, a, keep, epoch)
<1>. DEFINE After(i, before) == IF a[i].epoch + keep >= epoch THEN Append(before, a[i]) ELSE before
            Upto(k, n) == k = [i \in 0..n |-> IF i = 0 THEN <<>> ELSE After(i, k[i - 1])]
            Good == {n \in Nat : \E k : Upto(k, n)}
<1>. HIDE DEF After
<1>1. 0 \in Good
  <2>1. Upto([i \in 0..0 |-> <<>>], 0)
    OBVIOUS
  <2>. QED
    BY <2>1
<1>2. ASSUME NEW n \in Good PROVE n + 1 \in Good
  <2>1. PICK k : Upto(k, n)
    OBVIOUS
  <2>. DEFINE h == [i \in 0..(n + 1) |-> IF i = 0 THEN <<>> ELSE After(i, k[i - 1])]
  <2>2. n \in Nat
    OBVIOUS
  <2>3. \A i \in 0..n : h[i] = k[i]
    <3>1. \A i \in 0..n : k[i] = IF i = 0 THEN <<>> ELSE After(i, k[i - 1])
      BY <2>1
    <3>2. \A i \in 0..n : i \in 0..(n + 1)
      BY <2>2
    <3>. QED
      BY <3>1, <3>2
  <2>4. Upto(h, n + 1)
    <3>1. \A i \in 0..(n + 1) : i # 0 => i - 1 \in 0..n
      BY <2>2
    <3>2. \A i \in 0..(n + 1) : i # 0 => h[i - 1] = k[i - 1]
      BY <2>3, <3>1
    <3>. QED
      BY <3>2
  <2>5. \E f : Upto(f, n + 1)
    <3>. HIDE DEF Upto, h
    <3>. QED
      BY <2>4
  <2>. HIDE DEF Upto
  <2>. QED
    BY <2>2, <2>5
<1>3. Good = Nat
  <2>. HIDE DEF Good
  <2>1. Good \in SUBSET Nat
    BY DEF Good
  <2>. QED
    BY <1>1, <1>2, <2>1, NatInduct
<1>4. PICK k : Upto(k, Len(a))
  BY <1>3
<1>5. Retains(k, a, keep, epoch)
  BY <1>4 DEF Retains, After
<1>. QED
  BY <1>5

\* What is retained of a log is a log: the cleanup keeps the order and makes
\* up no entry.
LEMMA RetainedIsALog ==
  ASSUME NEW a, NEW e \in Nat, Log(a, e), NEW keep \in Nat, NEW kept, Retains(kept, a, keep, e)
  PROVE  Log(kept[Len(a)], e)
<1>0. /\ a \in Seq(ArchiveEntry) /\ Len(a) \in Nat
      /\ \A i \in 1..Len(a) : a[i] \in ArchiveEntry /\ a[i].epoch \in Nat /\ a[i].epoch <= e
      /\ \A i, j \in 1..Len(a) : i < j => a[i].epoch <= a[j].epoch
  BY ArchiveEntries DEF Log
<1>1. /\ kept[0] = <<>>
      /\ \A i \in 1..Len(a) : kept[i] \in {kept[i - 1], Append(kept[i - 1], a[i])}
  <2>1. \A i \in 0..Len(a) : kept[i] = IF i = 0 THEN <<>>
                                       ELSE IF a[i].epoch + keep >= e THEN Append(kept[i - 1], a[i])
                                       ELSE kept[i - 1]
    BY DEF Retains
  <2>2. 0 \in 0..Len(a) /\ \A i \in 1..Len(a) : i \in 0..Len(a) /\ i # 0
    BY <1>0
  <2>. QED
    BY <2>1, <2>2
<1>. DEFINE Picked(k, n) == /\ k \in Seq(ArchiveEntry) /\ Len(k) <= n
                            /\ \A x \in 1..Len(k) : \E j \in 1..n : k[x] = a[j]
                            /\ \A x, y \in 1..Len(k) : x < y => k[x].epoch <= k[y].epoch
            Good == {n \in Nat : n <= Len(a) => Picked(kept[n], n)}
<1>2. 0 \in Good
  <2>1. <<>> \in Seq(ArchiveEntry) /\ Len(<<>>) = 0
    BY EmptySeq
  <2>2. 1..0 = {}
    OBVIOUS
  <2>3. Picked(<<>>, 0)
    BY <2>1, <2>2
  <2>. HIDE DEF Picked
  <2>. QED
    BY <1>1, <2>3
<1>3. ASSUME NEW n \in Good PROVE n + 1 \in Good
  <2>0. n \in Nat
    OBVIOUS
  <2>. SUFFICES ASSUME n + 1 <= Len(a) PROVE Picked(kept[n + 1], n + 1)
    BY <2>0
  <2>. DEFINE k == kept[n]
  <2>1. Picked(k, n) /\ n + 1 \in 1..Len(a)
    BY <1>0, <2>0
  <2>2. kept[n + 1] \in {k, Append(k, a[n + 1])}
    BY <1>1, <2>0, <2>1
  <2>. HIDE DEF Good, k
  <2>3. Picked(k, n + 1)
    <3>1. Len(k) \in Nat
      BY <2>1, LenProperties
    <3>. QED
      BY <2>0, <2>1, <3>1
  <2>4. Picked(Append(k, a[n + 1]), n + 1)
    <3>. DEFINE g == Append(k, a[n + 1])
    <3>0. k \in Seq(ArchiveEntry) /\ Len(k) \in Nat /\ Len(k) <= n /\ a[n + 1] \in ArchiveEntry
      BY <1>0, <2>1, LenProperties
    <3>1. /\ g \in Seq(ArchiveEntry) /\ Len(g) = Len(k) + 1 /\ g[Len(k) + 1] = a[n + 1]
          /\ \A x \in 1..Len(k) : g[x] = k[x]
      BY <3>0, AppendProperties
    <3>. HIDE DEF g
    <3>2. \A x \in 1..Len(g) : x # Len(g) => x \in 1..Len(k)
      BY <3>0, <3>1
    <3>3. \A x \in 1..Len(g) : \E j \in 1..(n + 1) : g[x] = a[j]
      <4>. TAKE x \in 1..Len(g)
      <4>1. CASE x = Len(g)
        <5>1. n + 1 \in 1..(n + 1) /\ g[x] = a[n + 1]
          BY <2>0, <3>0, <3>1, <4>1
        <5>. QED
          BY <5>1
      <4>2. CASE x # Len(g)
        <5>1. x \in 1..Len(k) /\ g[x] = k[x]
          BY <3>1, <3>2, <4>2
        <5>2. PICK j \in 1..n : k[x] = a[j]
          BY <2>1, <5>1
        <5>3. j \in 1..(n + 1)
          BY <2>0
        <5>. QED
          BY <5>1, <5>2, <5>3
      <4>. QED
        BY <4>1, <4>2
    <3>4. ASSUME NEW x \in 1..Len(g), NEW y \in 1..Len(g), x < y
          PROVE  g[x].epoch <= g[y].epoch
      <4>1. x # Len(g)
        BY <3>0, <3>1, <3>4
      <4>2. x \in 1..Len(k) /\ g[x] = k[x]
        BY <3>1, <3>2, <4>1
      <4>3. CASE y = Len(g)
        <5>1. PICK j \in 1..n : k[x] = a[j]
          BY <2>1, <4>2
        <5>2. j \in 1..Len(a) /\ j < n + 1 /\ n + 1 \in 1..Len(a)
          BY <1>0, <2>0, <2>1
        <5>3. a[j].epoch <= a[n + 1].epoch
          BY <1>0, <5>2
        <5>4. g[y] = a[n + 1]
          BY <3>1, <4>3
        <5>. QED
          BY <4>2, <5>1, <5>3, <5>4
      <4>4. CASE y # Len(g)
        <5>1. y \in 1..Len(k) /\ g[y] = k[y]
          BY <3>1, <3>2, <4>4
        <5>. QED
          BY <2>1, <3>4, <4>2, <5>1
      <4>. QED
        BY <4>3, <4>4
    <3>5. Len(g) <= n + 1
      BY <2>0, <3>0, <3>1
    <3>. QED
      BY <3>1, <3>3, <3>4, <3>5 DEF g
  <2>. HIDE DEF Picked
  <2>. QED
    BY <2>2, <2>3, <2>4
<1>4. Good = Nat
  <2>. HIDE DEF Good
  <2>1. Good \in SUBSET Nat
    BY DEF Good
  <2>. QED
    BY <1>2, <1>3, <2>1, NatInduct
<1>. DEFINE k == kept[Len(a)]
<1>5. Picked(k, Len(a))
  <2>1. Len(a) \in Good
    BY <1>0, <1>4
  <2>. HIDE DEF Picked
  <2>. QED
    BY <1>0, <2>1
<1>. HIDE DEF k
<1>6. Len(k) <= ArchiveSize
  <2>1. Len(a) <= ArchiveSize /\ Len(k) <= Len(a) /\ Len(k) \in Nat /\ ArchiveSize \in Nat
    BY <1>5, SizeAssumption, LenProperties DEF Log
  <2>. QED
    BY <1>0, <2>1
<1>7. \A x \in 1..Len(k) : k[x].epoch <= e
  BY <1>0, <1>5
<1>. QED
  BY <1>5, <1>6, <1>7 DEF Log, k

\* A manager whose archive is a log of the epochs so far.
Archives(m) == m.epoch \in Nat /\ Log(m.archive, m.epoch)

\* What a call that is not about the archive does to it: nothing, in the same
\* epoch or the next.
Aside(m, w) == w.archive = m.archive /\ w.epoch \in {m.epoch, m.epoch + 1}

LEMMA AsideArchives ==
  ASSUME NEW m, Archives(m), NEW w, Aside(m, w)
  PROVE  Archives(w)
BY LogLater DEF Archives, Aside

\* The archive and the seed through the parts of a method.
LEMMA PartsAside ==
  ASSUME NEW m, IsManager(m)
  PROVE  /\ /\ SelectCommittee(m).archive = m.archive /\ SelectCommittee(m).epoch = m.epoch
            /\ SelectCommittee(m).last = m.last /\ SelectCommittee(m).states = m.states
         /\ /\ RotateEpoch(m).archive = m.archive /\ RotateEpoch(m).epoch = m.epoch + 1
            /\ RotateEpoch(m).last = m.last
            /\ RotateEpoch(m).states =
                 [t \in Tx |-> IF m.states[t].timedOut THEN NoState ELSE m.states[t]]
         /\ \A n \in Node, r \in Nat :
              /\ Learn(m, n, r).archive = m.archive /\ Learn(m, n, r).epoch = m.epoch
              /\ Learn(m, n, r).last = m.last /\ Learn(m, n, r).states = m.states
         /\ \A t \in Tx :
              /\ Entered(m, t).archive = m.archive /\ Entered(m, t).epoch = m.epoch
              /\ Entered(m, t).last = m.last
              /\ Entered(m, t).states =
                   IF Open(m, t) THEN m.states ELSE [m.states EXCEPT ![t] = NewState(m.committee)]
<1>1. \A w : w = SelectCommittee(m) =>
        w.archive = m.archive /\ w.epoch = m.epoch /\ w.last = m.last /\ w.states = m.states
  BY DEF SelectCommittee, IsManager
<1>2. /\ RotateEpoch(m).archive = m.archive /\ RotateEpoch(m).epoch = m.epoch + 1
      /\ RotateEpoch(m).last = m.last
      /\ RotateEpoch(m).states =
           [t \in Tx |-> IF m.states[t].timedOut THEN NoState ELSE m.states[t]]
  BY DEF RotateEpoch, SelectCommittee, IsManager
<1>3. \A n \in Node, r \in Nat :
        /\ Learn(m, n, r).archive = m.archive /\ Learn(m, n, r).epoch = m.epoch
        /\ Learn(m, n, r).last = m.last /\ Learn(m, n, r).states = m.states
  BY DEF Learn, IsManager
<1>4. \A t \in Tx :
        /\ Entered(m, t).archive = m.archive /\ Entered(m, t).epoch = m.epoch
        /\ Entered(m, t).last = m.last
        /\ Entered(m, t).states =
             IF Open(m, t) THEN m.states ELSE [m.states EXCEPT ![t] = NewState(m.committee)]
  BY DEF Entered, Open, IsManager
<1>. QED
  BY <1>1, <1>2, <1>3, <1>4

\* cleanup_finalized_states leaves a log.
LEMMA CleanupFinalizedArchives ==
  ASSUME NEW m, IsManager(m), Archives(m), NEW keep \in Nat
  PROVE  Archives(CleanupFinalizedStates(m, keep))
<1>. DEFINE w == CleanupFinalizedStates(m, keep)
            kept == CHOOSE k : Retains(k, m.archive, keep, m.epoch)
<1>1. w = [m EXCEPT !.archive = kept[Len(m.archive)]]
  BY DEF CleanupFinalizedStates, Retains
<1>2. Len(m.archive) \in Nat
  BY ArchiveEntries DEF Archives, Log
<1>3. Retains(kept, m.archive, keep, m.epoch)
  BY <1>2, RetainsExists
<1>. HIDE DEF kept
<1>4. Log(kept[Len(m.archive)], m.epoch)
  BY <1>3, RetainedIsALog DEF Archives
<1>5. w.archive = kept[Len(m.archive)] /\ w.epoch = m.epoch
  BY <1>1 DEF IsManager
<1>. QED
  BY <1>4, <1>5 DEF Archives

\* archive_finalized_state leaves a log.
LEMMA ArchiveFinalizedArchives ==
  ASSUME NEW m, IsManager(m), Archives(m), NEW t \in Tx
  PROVE  Archives(ArchiveFinalizedState(m, t))
<1>. DEFINE full == Append(m.archive, [tx |-> t, epoch |-> m.epoch])
            kept == IF Len(full) > ArchiveSize THEN Tail(full) ELSE full
            w    == ArchiveFinalizedState(m, t)
<1>1. Log(kept, m.epoch)
  BY LogGrows DEF Archives
<1>. HIDE DEF kept
<1>2. CASE Open(m, t)
  <2>1. w = [DropState(m, t) EXCEPT !.archive = kept]
    BY <1>2 DEF ArchiveFinalizedState, kept
  <2>2. w.archive = kept /\ w.epoch = m.epoch
    BY <2>1 DEF DropState, IsManager
  <2>. QED
    BY <1>1, <2>2 DEF Archives
<1>3. CASE ~Open(m, t)
  <2>1. w = m
    BY <1>3 DEF ArchiveFinalizedState
  <2>. QED
    BY <2>1
<1>. QED
  BY <1>2, <1>3

\* handle_message and mark_validated leave the archive alone.
LEMMA HandleMessageAside ==
  ASSUME NEW m, SoundManager(m), NEW v \in Vote
  PROVE  Aside(m, HandleMessage(m, v).mgr)
<1>. DEFINE turned == MaybeRotateEpoch(m)
            known  == Learn(turned, v.sender, NewcomerRep)
            seen   == Entered(known, v.tx)
            new    == ProcessMessage(seen.states[v.tx], v.phase, v.sender)
            done   == [seen EXCEPT !.states[v.tx] = new]
            given  == Rewarded(done, v.tx, new.phase, v.sender)
<1>0. v.tx \in Tx /\ v.sender \in Node
  BY DEF Vote
<1>1. SoundManager(turned) /\ Aside(m, turned)
  BY RotateEpochIsSound, PartsAside DEF MaybeRotateEpoch, Aside, SoundManager
<1>2. SoundManager(known) /\ Aside(m, known)
  <2>. HIDE DEF turned
  <2>. QED
    <3>1. NewcomerRep \in Nat /\ NewcomerRep \in Nat \ {0} /\ IsManager(turned)
      BY <1>1, SizeAssumption DEF SoundManager
    <3>2. SoundManager(known)
      BY <1>0, <1>1, <3>1, LearnIsSound
    <3>3. known.archive = turned.archive /\ known.epoch = turned.epoch
      BY <1>0, <3>1, PartsAside
    <3>. QED
      BY <1>1, <3>2, <3>3 DEF Aside
<1>3. SoundManager(seen) /\ Aside(m, seen)
  <2>. HIDE DEF known
  <2>. QED
    BY <1>0, <1>2, EnteredIsSound, PartsAside DEF Aside, SoundManager
<1>. HIDE DEF seen, new
<1>4. Aside(m, done) /\ Aside(m, given)
  <2>1. done.archive = seen.archive /\ done.epoch = seen.epoch
    BY <1>3 DEF SoundManager, IsManager
  <2>2. given.archive = seen.archive /\ given.epoch = seen.epoch
    BY <1>3 DEF SoundManager, IsManager, Rewarded, AdjustReputation
  <2>. QED
    BY <1>3, <2>1, <2>2 DEF Aside
<1>5. HandleMessage(m, v).mgr \in {seen, done, given}
  BY DEF HandleMessage, Outcome, Announced, seen, new
<1>. QED
  BY <1>3, <1>4, <1>5

LEMMA MarkValidatedAside ==
  ASSUME NEW m, SoundManager(m), NEW t \in Tx
  PROVE  Aside(m, MarkValidated(m, t).mgr)
<1>. DEFINE turned == MaybeRotateEpoch(m)
            seen   == Entered(turned, t)
            done   == [seen EXCEPT !.states[t].validated = TRUE]
            next   == [done EXCEPT !.states[t].phase = "Prepare"]
<1>1. SoundManager(turned) /\ Aside(m, turned)
  BY RotateEpochIsSound, PartsAside DEF MaybeRotateEpoch, Aside, SoundManager
<1>2. SoundManager(seen) /\ Aside(m, seen)
  <2>. HIDE DEF turned
  <2>. QED
    BY <1>1, EnteredIsSound, PartsAside DEF Aside, SoundManager
<1>. HIDE DEF seen
<1>3. /\ done.archive = seen.archive /\ done.epoch = seen.epoch
      /\ next.archive = seen.archive /\ next.epoch = seen.epoch
  BY <1>2 DEF SoundManager, IsManager
<1>4. MarkValidated(m, t).mgr \in {done, next}
  BY DEF MarkValidated, Outcome, Announced, seen
<1>. QED
  BY <1>2, <1>3, <1>4 DEF Aside

\* The other methods, and the clocks.
LEMMA OthersAside ==
  ASSUME NEW m, SoundManager(m)
  PROVE  /\ \A t \in Tx : /\ Aside(m, Propose(m, t).mgr) /\ Aside(m, DropState(m, t))
                          /\ Aside(m, [m EXCEPT !.states[t].timedOut = TRUE])
         /\ \A n \in Node, r \in Nat \ {0} : Aside(m, HearAnnounce(m, n, r))
         /\ Aside(m, CleanupTimedOut(m))
         /\ Aside(m, [m EXCEPT !.due = TRUE])
<1>0. IsManager(m)
  BY DEF SoundManager
<1>1. ASSUME NEW t \in Tx
      PROVE  /\ Aside(m, Propose(m, t).mgr) /\ Aside(m, DropState(m, t))
             /\ Aside(m, [m EXCEPT !.states[t].timedOut = TRUE])
  BY <1>0 DEF Aside, Propose, Announced, Outcome, DropState, IsManager
<1>2. ASSUME NEW n \in Node, NEW r \in Nat \ {0}
      PROVE  Aside(m, HearAnnounce(m, n, r))
  <2>. DEFINE w == Learn(m, n, r)
  <2>1. IsManager(w) /\ w.archive = m.archive /\ w.epoch = m.epoch
    BY <1>0, LearnIsSound, PartsAside DEF SoundManager
  <2>. HIDE DEF w
  <2>2. SelectCommittee(w).archive = w.archive /\ SelectCommittee(w).epoch = w.epoch
    BY <2>1, PartsAside
  <2>. QED
    BY <2>1, <2>2 DEF HearAnnounce, Aside, w
<1>3. Aside(m, CleanupTimedOut(m))
  BY <1>0 DEF Aside, CleanupTimedOut, IsManager
<1>4. Aside(m, [m EXCEPT !.due = TRUE])
  BY <1>0 DEF Aside, IsManager
<1>. QED
  BY <1>1, <1>2, <1>3, <1>4

----------------------------------------------------------------------------
(* The entries.                                                            *)

\* The entry for t once the rotation that is due, if one is, has been made.
Turned(m, t) == IF m.due /\ m.states[t].timedOut THEN NoState ELSE m.states[t]

\* What handle_message and mark_validated look at before they do their work:
\* the rotation made, the sender learned, the entry opened.
SeenByVote(m, v) == Entered(Learn(MaybeRotateEpoch(m), v.sender, NewcomerRep), v.tx)
SeenByCheck(m, t) == Entered(MaybeRotateEpoch(m), t)

LEMMA TurnedEntries ==
  ASSUME NEW m, SoundManager(m)
  PROVE  /\ SoundManager(MaybeRotateEpoch(m))
         /\ MaybeRotateEpoch(m).last = m.last
         /\ MaybeRotateEpoch(m).epoch = IF m.due THEN m.epoch + 1 ELSE m.epoch
         /\ \A t \in Tx : MaybeRotateEpoch(m).states[t] = Turned(m, t)
<1>1. IsManager(m)
  BY DEF SoundManager
<1>2. CASE m.due
  <2>. DEFINE w == RotateEpoch(m)
  <2>1. SoundManager(w) /\ MaybeRotateEpoch(m) = w
    BY <1>2, RotateEpochIsSound DEF MaybeRotateEpoch
  <2>2. /\ w.last = m.last /\ w.epoch = m.epoch + 1
        /\ w.states = [t \in Tx |-> IF m.states[t].timedOut THEN NoState ELSE m.states[t]]
    BY <1>1, PartsAside
  <2>. HIDE DEF w
  <2>3. \A t \in Tx : w.states[t] = Turned(m, t)
    BY <1>2, <2>2 DEF Turned
  <2>. QED
    BY <1>2, <2>1, <2>2, <2>3
<1>3. CASE ~m.due
  BY <1>3 DEF MaybeRotateEpoch, Turned
<1>. QED
  BY <1>2, <1>3

\* The entry that is opened is new; the others are those of before, without
\* the ones the rotation dropped.
LEMMA SeenEntries ==
  ASSUME NEW m, SoundManager(m), NEW v \in Vote
  PROVE  LET seen == SeenByVote(m, v)
         IN  /\ SoundManager(seen) /\ seen.last = m.last
             /\ seen.epoch = IF m.due THEN m.epoch + 1 ELSE m.epoch
             /\ \A t \in Tx : seen.states[t] = IF t = v.tx /\ Turned(m, t).phase = "None"
                                               THEN NewState(seen.committee) ELSE Turned(m, t)
<1>. DEFINE turned == MaybeRotateEpoch(m)
            known  == Learn(turned, v.sender, NewcomerRep)
            seen   == SeenByVote(m, v)
<1>0. v.tx \in Tx /\ v.sender \in Node /\ NewcomerRep \in Nat /\ NewcomerRep \in Nat \ {0}
  BY SizeAssumption DEF Vote
<1>1. /\ SoundManager(turned) /\ IsManager(turned) /\ turned.last = m.last
      /\ turned.epoch = IF m.due THEN m.epoch + 1 ELSE m.epoch
      /\ \A t \in Tx : turned.states[t] = Turned(m, t)
  BY TurnedEntries DEF SoundManager
<1>. HIDE DEF turned
<1>2. /\ SoundManager(known) /\ IsManager(known) /\ known.last = turned.last
      /\ known.epoch = turned.epoch /\ known.states = turned.states
  BY <1>0, <1>1, LearnIsSound, PartsAside DEF SoundManager
<1>3. seen = Entered(known, v.tx)
  BY DEF SeenByVote, turned
<1>. HIDE DEF known, seen
<1>4. /\ SoundManager(seen) /\ seen.last = known.last /\ seen.epoch = known.epoch
      /\ seen.states = IF Open(known, v.tx) THEN known.states
                       ELSE [known.states EXCEPT ![v.tx] = NewState(known.committee)]
      /\ seen.committee = known.committee
  BY <1>0, <1>2, <1>3, EnteredIsSound, PartsAside
<1>5. \A t \in Tx : seen.states[t] = IF t = v.tx /\ Turned(m, t).phase = "None"
                                     THEN NewState(seen.committee) ELSE Turned(m, t)
  BY <1>0, <1>1, <1>2, <1>4 DEF Open, IsManager
<1>. QED
  BY <1>1, <1>2, <1>4, <1>5 DEF seen

LEMMA SeenToCheck ==
  ASSUME NEW m, SoundManager(m), NEW u \in Tx
  PROVE  LET seen == SeenByCheck(m, u)
         IN  /\ SoundManager(seen) /\ seen.last = m.last
             /\ seen.epoch = IF m.due THEN m.epoch + 1 ELSE m.epoch
             /\ \A t \in Tx : seen.states[t] = IF t = u /\ Turned(m, t).phase = "None"
                                               THEN NewState(seen.committee) ELSE Turned(m, t)
<1>. DEFINE turned == MaybeRotateEpoch(m)
            seen   == SeenByCheck(m, u)
<1>1. /\ SoundManager(turned) /\ IsManager(turned) /\ turned.last = m.last
      /\ turned.epoch = IF m.due THEN m.epoch + 1 ELSE m.epoch
      /\ \A t \in Tx : turned.states[t] = Turned(m, t)
  BY TurnedEntries DEF SoundManager
<1>2. seen = Entered(turned, u)
  BY DEF SeenByCheck
<1>. HIDE DEF turned, seen
<1>3. /\ SoundManager(seen) /\ seen.last = turned.last /\ seen.epoch = turned.epoch
      /\ seen.states = IF Open(turned, u) THEN turned.states
                       ELSE [turned.states EXCEPT ![u] = NewState(turned.committee)]
      /\ seen.committee = turned.committee
  BY <1>1, <1>2, EnteredIsSound, PartsAside
<1>4. \A t \in Tx : seen.states[t] = IF t = u /\ Turned(m, t).phase = "None"
                                     THEN NewState(seen.committee) ELSE Turned(m, t)
  BY <1>1, <1>3 DEF Open, IsManager
<1>. QED
  BY <1>1, <1>3, <1>4 DEF seen

\* What a vote does to the manager that has seen it.
LEMMA HandledEntries ==
  ASSUME NEW m, SoundManager(m), NEW v \in Vote
  PROVE  LET seen == SeenByVote(m, v)
             old  == seen.states[v.tx]
             new  == ProcessMessage(old, v.phase, v.sender)
             w    == HandleMessage(m, v).mgr
         IN  /\ w.epoch = seen.epoch
             /\ \A t \in Tx : t # v.tx => w.states[t] = seen.states[t]
             /\ w.states[v.tx] = IF v.sender \in seen.committee THEN new ELSE old
             /\ w.last = IF v.sender \in seen.committee /\ new.phase # old.phase
                            /\ new.phase \notin {"Prepare", "Commit"}
                         THEN v.tx ELSE m.last
<1>. DEFINE seen  == SeenByVote(m, v)
            old   == seen.states[v.tx]
            new   == ProcessMessage(old, v.phase, v.sender)
            done  == [seen EXCEPT !.states[v.tx] = new]
            given == Rewarded(done, v.tx, new.phase, v.sender)
            w     == HandleMessage(m, v).mgr
<1>0. v.tx \in Tx /\ v.sender \in Node
  BY DEF Vote
<1>1. SoundManager(seen) /\ IsManager(seen) /\ seen.last = m.last
  BY SeenEntries DEF SoundManager
<1>2. w = IF v.sender \notin seen.committee THEN seen
          ELSE IF new.phase = old.phase THEN done ELSE given
  BY DEF HandleMessage, SeenByVote, Outcome, Announced
<1>. HIDE DEF seen, new, w
<1>3. /\ done.epoch = seen.epoch /\ done.last = seen.last
      /\ done.states = [seen.states EXCEPT ![v.tx] = new]
  BY <1>1 DEF IsManager
<1>4. /\ given.epoch = seen.epoch /\ given.states = done.states
      /\ given.last = IF new.phase \notin {"Prepare", "Commit"} THEN v.tx ELSE seen.last
  BY <1>0, <1>1 DEF IsManager, Rewarded, AdjustReputation
<1>5. \A t \in Tx : done.states[t] = IF t = v.tx THEN new ELSE seen.states[t]
  BY <1>0, <1>1, <1>3 DEF IsManager
<1>. HIDE DEF done, given
<1>6. /\ w.epoch = seen.epoch
      /\ \A t \in Tx : t # v.tx => w.states[t] = seen.states[t]
  BY <1>0, <1>2, <1>3, <1>4, <1>5
<1>7. w.states[v.tx] = IF v.sender \in seen.committee THEN new ELSE old
  <2>1. CASE v.sender \notin seen.committee
    BY <1>2, <2>1
  <2>2. CASE v.sender \in seen.committee
    <3>1. w.states = done.states /\ done.states[v.tx] = new
      BY <1>0, <1>2, <1>4, <1>5, <2>2
    <3>. QED
      BY <2>2, <3>1
  <2>. QED
    BY <2>1, <2>2
<1>8. w.last = IF v.sender \in seen.committee /\ new.phase # old.phase
                  /\ new.phase \notin {"Prepare", "Commit"}
               THEN v.tx ELSE m.last
  BY <1>1, <1>2, <1>3, <1>4
<1>. QED
  BY <1>6, <1>7, <1>8 DEF seen, new, w

\* What the check of a transaction's data does to the manager that has seen it.
LEMMA CheckedEntries ==
  ASSUME NEW m, SoundManager(m), NEW u \in Tx
  PROVE  LET seen == SeenByCheck(m, u)
             s    == seen.states[u]
             w    == MarkValidated(m, u).mgr
         IN  /\ w.epoch = seen.epoch /\ w.last = m.last
             /\ \A t \in Tx : t # u => w.states[t] = seen.states[t]
             /\ w.states[u] = IF s.phase = "PrePrepare"
                              THEN [s EXCEPT !.validated = TRUE, !.phase = "Prepare"]
                              ELSE [s EXCEPT !.validated = TRUE]
<1>. DEFINE seen == SeenByCheck(m, u)
            s    == seen.states[u]
            done == [seen EXCEPT !.states[u].validated = TRUE]
            next == [done EXCEPT !.states[u].phase = "Prepare"]
            w    == MarkValidated(m, u).mgr
<1>1. /\ IsManager(seen) /\ seen.last = m.last /\ s \in TxState
  BY SeenToCheck DEF SoundManager, SoundState
<1>2. w = IF s.phase = "PrePrepare" THEN next ELSE done
  BY DEF MarkValidated, SeenByCheck, Outcome, Announced
<1>. HIDE DEF seen, w
<1>3. /\ done.epoch = seen.epoch /\ done.last = seen.last
      /\ done.states = [seen.states EXCEPT ![u] = [s EXCEPT !.validated = TRUE]]
  BY <1>1 DEF IsManager
<1>4. /\ next.epoch = seen.epoch /\ next.last = seen.last
      /\ next.states = [seen.states EXCEPT ![u] = [s EXCEPT !.validated = TRUE, !.phase = "Prepare"]]
  BY <1>1 DEF IsManager, TxState
<1>. HIDE DEF done, next
<1>5. DOMAIN seen.states = Tx
  BY <1>1 DEF IsManager
<1>6. w \in {done, next}
  BY <1>2
<1>7. w.epoch = seen.epoch /\ w.last = m.last
  BY <1>1, <1>3, <1>4, <1>6
<1>8. /\ \A t \in Tx : t # u => w.states[t] = seen.states[t]
      /\ w.states[u] = IF s.phase = "PrePrepare"
                       THEN [s EXCEPT !.validated = TRUE, !.phase = "Prepare"]
                       ELSE [s EXCEPT !.validated = TRUE]
  <2>. DEFINE r == IF s.phase = "PrePrepare"
                   THEN [s EXCEPT !.validated = TRUE, !.phase = "Prepare"]
                   ELSE [s EXCEPT !.validated = TRUE]
  <2>1. w.states = [seen.states EXCEPT ![u] = r]
    BY <1>2, <1>3, <1>4
  <2>. HIDE DEF r
  <2>2. (\A t \in Tx : t # u => w.states[t] = seen.states[t]) /\ w.states[u] = r
    BY <1>5, <2>1
  <2>. QED
    BY <2>2 DEF r
<1>. QED
  BY <1>7, <1>8 DEF seen, w

----------------------------------------------------------------------------
(* The committee.                                                          *)

\* An election leaves no seat empty while there is somebody to take it: the
\* committee is at least as large as any set of known nodes that fits into one.
\* (Of those not elected take one with the fewest ahead of it; all of these
\* are elected, or they would have fewer still ahead of them.)
LEMMA ElectionSeats ==
  ASSUME ScoresAreNumbers, NEW m, IsManager(m),
         NEW D \in SUBSET Known(m), Cardinality(D) <= CommitteeSize
  PROVE  Cardinality(D) <= Cardinality(SelectCommittee(m).committee)
<1>. DEFINE score(n) == Score(n, m.rep[n], <<m.last, m.epoch>>)
            ahead(n) == {p \in Known(m) : score(p) > score(n)}
            seats    == {n \in Known(m) : Cardinality(ahead(n)) < CommitteeSize}
            left     == Known(m) \ seats
<1>1. SelectCommittee(m).committee = seats
  BY DEF SelectCommittee, IsManager
<1>2. /\ \A n \in Known(m) : score(n) \in Nat
      /\ IsFiniteSet(Known(m)) /\ IsFiniteSet(D) /\ Cardinality(D) \in Nat
      /\ CommitteeSize \in Nat
  <2>1. Known(m) \subseteq Node
    BY DEF Known
  <2>2. \A n \in Known(m) : score(n) \in Nat
    BY <2>1 DEF ScoresAreNumbers, IsManager
  <2>. QED
    BY <2>1, <2>2, NodeAssumption, SizeAssumption, FS_Subset, FS_CardinalityType
<1>. HIDE DEF score
<1>3. \A n \in Known(m) :
        /\ ahead(n) \subseteq Known(m) /\ IsFiniteSet(ahead(n)) /\ Cardinality(ahead(n)) \in Nat
        /\ \A p \in ahead(n) : ahead(p) \subseteq ahead(n) \ {p}
  <2>. SUFFICES ASSUME NEW n \in Known(m)
                PROVE  /\ ahead(n) \subseteq Known(m) /\ IsFiniteSet(ahead(n))
                       /\ Cardinality(ahead(n)) \in Nat
                       /\ \A p \in ahead(n) : ahead(p) \subseteq ahead(n) \ {p}
    OBVIOUS
  <2>1. ahead(n) \subseteq Known(m)
    OBVIOUS
  <2>2. IsFiniteSet(ahead(n)) /\ Cardinality(ahead(n)) \in Nat
    BY <1>2, <2>1, FS_Subset, FS_CardinalityType
  <2>3. ASSUME NEW p \in ahead(n), NEW q \in ahead(p)
        PROVE  q \in ahead(n) \ {p}
    <3>1. /\ score(n) \in Nat /\ score(p) \in Nat /\ score(q) \in Nat
          /\ score(p) > score(n) /\ score(q) > score(p) /\ q \in Known(m)
      BY <1>2
    <3>. QED
      BY <3>1
  <2>. QED
    BY <2>1, <2>2, <2>3
<1>4. seats \subseteq Known(m) /\ IsFiniteSet(seats) /\ Cardinality(seats) \in Nat
  <2>1. seats \subseteq Known(m)
    OBVIOUS
  <2>. HIDE DEF seats
  <2>. QED
    BY <1>2, <2>1, FS_Subset, FS_CardinalityType
<1>5. CASE left = {}
  <2>1. D \subseteq seats
    BY <1>5
  <2>. HIDE DEF seats
  <2>. QED
    BY <1>1, <1>4, <2>1, FS_Subset
<1>6. CASE left # {}
  <2>. DEFINE sizes == {Cardinality(ahead(n)) : n \in left}
  <2>1. sizes \in SUBSET Nat /\ sizes # {}
    <3>1. \A n \in left : Cardinality(ahead(n)) \in Nat
      BY <1>3
    <3>. HIDE DEF left, ahead
    <3>2. \A j \in sizes : \E n \in left : j = Cardinality(ahead(n))
      OBVIOUS
    <3>. QED
      BY <1>6, <3>1, <3>2
  <2>2. PICK k \in sizes : \A j \in sizes : ~(<<j, k>> \in OpToRel(<, Nat))
    BY <2>1, NatLessThanWellFounded, WFMin
  <2>3. \A j \in sizes : ~(j < k)
    BY <2>1, <2>2 DEF OpToRel
  <2>4. PICK n \in left : k = Cardinality(ahead(n))
    BY <2>2
  <2>5. ASSUME NEW p \in ahead(n), p \notin seats
        PROVE  FALSE
    <3>1. p \in left /\ n \in Known(m) /\ p \in Known(m)
      BY <2>5
    <3>2. ~(Cardinality(ahead(p)) < Cardinality(ahead(n)))
      BY <2>3, <2>4, <3>1
    <3>. DEFINE A == ahead(n)
                B == ahead(p)
    <3>3. /\ B \subseteq A \ {p} /\ IsFiniteSet(A) /\ p \in A
          /\ Cardinality(A) \in Nat /\ Cardinality(B) \in Nat
      BY <1>3, <2>5, <3>1
    <3>. HIDE DEF A, B
    <3>4. IsFiniteSet(A \ {p}) /\ Cardinality(A \ {p}) = Cardinality(A) - 1
      BY <3>3, FS_RemoveElement
    <3>5. Cardinality(B) <= Cardinality(A \ {p})
      BY <3>3, <3>4, FS_Subset
    <3>6. ~(Cardinality(B) < Cardinality(A))
      BY <3>2 DEF A, B
    <3>. QED
      BY <3>3, <3>4, <3>5, <3>6
  <2>6. n \in Known(m) /\ ~(Cardinality(ahead(n)) < CommitteeSize)
    BY <2>4
  <2>. DEFINE A == ahead(n)
  <2>7. A \subseteq seats /\ Cardinality(A) \in Nat /\ ~(Cardinality(A) < CommitteeSize)
    BY <1>3, <2>5, <2>6
  <2>. HIDE DEF A, seats
  <2>8. Cardinality(A) <= Cardinality(seats)
    BY <1>4, <2>7, FS_Subset
  <2>. QED
    BY <1>1, <1>2, <1>4, <2>7, <2>8
<1>. QED
  BY <1>5, <1>6
=============================================================================
