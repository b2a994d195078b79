---------------------------- MODULE Ppor_proofs ----------------------------
(***************************************************************************)
(* Safety of one manager under any calls.  Each method keeps a sound       *)
(* manager sound (PporManager_proofs); what is left is to go through the   *)
(* actions.                                                                *)
(***************************************************************************)
EXTENDS Ppor, PporManager_proofs

\* The inductive invariant: a sound manager that is still this node's.
Inv == SoundManager(mgr) /\ mgr.id = Self

\* A new manager is sound.
LEMMA InitInv == Init => Inv
BY SelfAssumption, NewManagerIsSound DEF Init, Inv

\* Every method, and every clock, keeps the manager sound.
LEMMA NextInv == Inv /\ [Next]_vars => Inv'
<1>. SUFFICES ASSUME Inv, [Next]_vars PROVE Inv'
  OBVIOUS
<1>0. SoundManager(mgr) /\ mgr.id = Self
  BY DEF Inv
<1>1. ASSUME NEW v \in Vote, Handle(v) PROVE Inv'
  BY <1>0, <1>1, HandleMessageIsSound DEF Handle, Inv
<1>2. ASSUME NEW t \in Tx, Validate(t) PROVE Inv'
  BY <1>0, <1>2, MarkValidatedIsSound DEF Validate, Inv
<1>3. ASSUME NEW t \in Tx, OpenAnew(t) PROVE Inv'
  BY <1>0, <1>3, ProposeIsSound DEF OpenAnew, Inv
<1>4. ASSUME NEW n \in Node, NEW r \in AnnouncedRep, Hear(n, r) PROVE Inv'
  BY <1>0, <1>4, AnnouncedAssumption, LearnIsSound, SelectCommitteeIsSound
     DEF Hear, HearAnnounce, Inv
<1>5. ASSUME NEW t \in Tx, Drop(t) PROVE Inv'
  BY <1>0, <1>5, DropIsSound DEF Drop, Inv
<1>6. ASSUME NEW t \in Tx, Archive(t) PROVE Inv'
  BY <1>0, <1>6, DropIsSound DEF Archive, Inv
<1>7. CASE Cleanup
  BY <1>0, <1>7, CleanupTimedOutIsSound DEF Cleanup, Inv
<1>8. CASE EpochTick
  <2>. DEFINE m == RotateEpoch(mgr)
  <2>1. SoundManager(m) /\ m.id = mgr.id
    BY <1>0, RotateEpochIsSound
  <2>2. mgr' = CleanupFinalizedStates(m, KeepEpochs)
    BY <1>8 DEF EpochTick
  <2>. HIDE DEF m
  <2>. QED
    BY <1>0, <2>1, <2>2, CleanupFinalizedIsSound DEF Inv
<1>9. CASE EpochExpires
  BY <1>0, <1>9, ClocksAreSound DEF EpochExpires, Inv
<1>10. ASSUME NEW t \in Tx, TxExpires(t) PROVE Inv'
  BY <1>0, <1>10, ClocksAreSound DEF TxExpires, Inv
<1>11. CASE UNCHANGED vars
  BY <1>0, <1>11 DEF Inv, vars
<1>. QED
  BY <1>1, <1>2, <1>3, <1>4, <1>5, <1>6, <1>7, <1>8, <1>9, <1>10, <1>11 DEF Next

\* So the manager is always sound.
LEMMA Invariance == Spec => []Inv
BY InitInv, NextInv, PTL DEF Spec

\* For every set of nodes, every committee size, every draw and every order of
\* calls: an entry past a round of votes holds a quorum of that round.
THEOREM QuorumCertificateHolds == Spec => []QuorumCertificate
<1>1. Inv => QuorumCertificate
  BY DEF Inv, SoundManager, SoundState, QuorumCertificate
<1>. QED
  BY <1>1, Invariance, PTL

\* No entry leaves PrePrepare before this node has checked its data.
THEOREM ValidatedFirstHolds == Spec => []ValidatedFirst
<1>1. Inv => ValidatedFirst
  BY DEF Inv, SoundManager, SoundState, ValidatedFirst
<1>. QED
  BY <1>1, Invariance, PTL

\* Whoever sits on a committee or had a vote counted is in the reputation
\* table, so that no adjustment falls back on the newcomer's reputation.
THEOREM VotersAreKnownHolds == Spec => []VotersAreKnown
<1>1. Inv => VotersAreKnown
  BY DEF Inv, SoundManager, VotersAreKnown
<1>. QED
  BY <1>1, Invariance, PTL

----------------------------------------------------------------------------
(* The archive.                                                            *)

\* Every method but two leaves the archive alone, and those two leave a log.
LEMMA NextArchives == Inv /\ Archives(mgr) /\ [Next]_vars => Archives(mgr)'
<1>. SUFFICES ASSUME Inv, Archives(mgr), [Next]_vars PROVE Archives(mgr)'
  OBVIOUS
<1>0. SoundManager(mgr) /\ IsManager(mgr) /\ KeepEpochs \in Nat
  BY SizeAssumption DEF Inv, SoundManager
<1>1. ASSUME Aside(mgr, mgr') PROVE Archives(mgr)'
  BY <1>1, AsideArchives DEF Archives
<1>2. ASSUME NEW v \in Vote, Handle(v) PROVE Archives(mgr)'
  BY <1>0, <1>1, <1>2, HandleMessageAside DEF Handle
<1>3. ASSUME NEW t \in Tx, Validate(t) PROVE Archives(mgr)'
  BY <1>0, <1>1, <1>3, MarkValidatedAside DEF Validate
<1>4. ASSUME NEW t \in Tx, OpenAnew(t) \/ Drop(t) \/ TxExpires(t) PROVE Archives(mgr)'
  <2>1. Aside(mgr, Propose(mgr, t).mgr) /\ Aside(mgr, DropState(mgr, t))
    BY <1>0, OthersAside
  <2>2. Aside(mgr, [mgr EXCEPT !.states[t].timedOut = TRUE])
    BY <1>0, OthersAside
  <2>3. mgr' \in {Propose(mgr, t).mgr, DropState(mgr, t), [mgr EXCEPT !.states[t].timedOut = TRUE]}
    BY <1>4 DEF OpenAnew, Drop, TxExpires
  <2>. QED
    BY <1>1, <2>1, <2>2, <2>3
<1>5. ASSUME NEW n \in Node, NEW r \in AnnouncedRep, Hear(n, r) PROVE Archives(mgr)'
  BY <1>0, <1>1, <1>5, OthersAside, AnnouncedAssumption DEF Hear
<1>6. ASSUME NEW t \in Tx, Archive(t) PROVE Archives(mgr)'
  <2>1. Archives(ArchiveFinalizedState(mgr, t))
    BY <1>0, ArchiveFinalizedArchives
  <2>. QED
    BY <1>6, <2>1 DEF Archive, Archives
<1>7. CASE Cleanup \/ EpochExpires
  BY <1>0, <1>1, <1>7, OthersAside DEF Cleanup, EpochExpires
<1>8. CASE EpochTick
  <2>. DEFINE m == RotateEpoch(mgr)
  <2>1. IsManager(m) /\ Aside(mgr, m)
    BY <1>0, RotateEpochIsSound, PartsAside DEF Aside, SoundManager
  <2>. HIDE DEF m
  <2>2. Archives(CleanupFinalizedStates(m, KeepEpochs))
    BY <1>0, <2>1, AsideArchives, CleanupFinalizedArchives
  <2>. QED
    BY <1>8, <2>2 DEF EpochTick, Archives, m
<1>9. CASE UNCHANGED vars
  BY <1>9 DEF vars, Archives
<1>. QED
  BY <1>2, <1>3, <1>4, <1>5, <1>6, <1>7, <1>8, <1>9 DEF Next

LEMMA InitArchives == Init => Archives(mgr)
<1>1. ASSUME Init PROVE mgr.epoch = 0 /\ mgr.archive = <<>>
  BY <1>1 DEF Init, NewManager
<1>2. <<>> \in Seq(ArchiveEntry) /\ Len(<<>>) = 0 /\ 1..0 = {}
  BY EmptySeq
<1>3. Log(<<>>, 0)
  BY <1>2, SizeAssumption DEF Log
<1>. QED
  BY <1>1, <1>3 DEF Archives

LEMMA ArchiveInvariance == Spec => []Archives(mgr)
BY InitArchives, NextArchives, Invariance, PTL DEF Spec

\* The manager stays a manager, this node's, and its archive a sequence of
\* entries, whatever is called.
THEOREM TypeOKHolds == Spec => []TypeOK
<1>1. Inv /\ Archives(mgr) => TypeOK
  BY DEF Inv, SoundManager, Archives, Log, TypeOK
<1>. QED
  BY <1>1, Invariance, ArchiveInvariance, PTL

\* The archive is never longer than it may be, holds nothing of a later epoch,
\* and is in order, through archiving, trimming, rotations and cleanups.
THEOREM ArchiveIsALogHolds == Spec => []ArchiveIsALog
<1>1. Archives(mgr) => ArchiveIsALog
  BY DEF Archives, Log, ArchiveIsALog
<1>. QED
  BY <1>1, ArchiveInvariance, PTL

----------------------------------------------------------------------------
(* Steps.                                                                  *)

\* A vote moves an entry on by one phase or none, and takes no vote back.
LEMMA VoteMovesForward ==
  ASSUME NEW s, SoundState(s), NEW p \in VotePhase, NEW n \in Node
  PROVE  LET r == ProcessMessage(s, p, n)
         IN  /\ Forward(s, r)
             /\ r.phase # s.phase => r.phase = Following(s.phase) /\ s.phase \in VotePhase \ {"Finalized"}
<1>. DEFINE q == Recorded(s, p, n)
            r == ProcessMessage(s, p, n)
<1>1. /\ SoundState(q) /\ q \in TxState /\ s \in TxState
      /\ q.phase = s.phase /\ q.committee = s.committee
      /\ s.prepares \subseteq q.prepares /\ s.commits \subseteq q.commits
  <2>1. SoundState(q) /\ q.phase = s.phase /\ q.committee = s.committee
    BY RecordedIsSound
  <2>2. s.prepares \subseteq q.prepares /\ s.commits \subseteq q.commits
    BY DEF SoundState, TxState, VotePhase, Recorded
  <2>. QED
    BY <2>1, <2>2 DEF SoundState
<1>2. r = IF Completes(q, p) THEN [q EXCEPT !.phase = Following(p)] ELSE q
  BY DEF ProcessMessage
<1>. HIDE DEF q, r
<1>3. CASE Completes(q, p)
  <2>1. s.phase = p /\ p \in {"PrePrepare", "Prepare", "Commit"}
    BY <1>1, <1>3 DEF Completes
  <2>2. /\ r.phase = Following(p) /\ r.prepares = q.prepares /\ r.commits = q.commits
        /\ r.committee = q.committee
    BY <1>1, <1>2, <1>3 DEF TxState
  <2>3. Rank(r.phase) = Rank(s.phase) + 1
    BY <2>1, <2>2 DEF Rank, Following
  <2>. QED
    BY <1>1, <2>1, <2>2, <2>3 DEF Forward, r, VotePhase
<1>4. CASE ~Completes(q, p)
  BY <1>1, <1>2, <1>4 DEF Forward, r
<1>. QED
  BY <1>3, <1>4

\* The entries of a manager that becomes w, as EntriesMoveForward has them.
MovesOn(m, w) ==
  \A t \in Tx : Open(m, t) =>
    \/ Forward(m.states[t], w.states[t])
    \/ w.states[t] \in {NoState, NewState(m.committee)}
    \/ m.states[t].timedOut /\ w.epoch > m.epoch

\* The seed of a manager that becomes w, as SeedFollowsFinality has it.
Seeds(m, w) ==
  w.last # m.last => /\ m.states[w.last].phase # "Finalized"
                     /\ w.states[w.last].phase = "Finalized"

\* An entry left as it is has moved forward.
LEMMA ForwardIsReflexive == \A s : Forward(s, s)
BY DEF Forward

\* An entry is only lost to a rotation that dropped it.
LEMMA TurnedMovesOn ==
  ASSUME NEW m, SoundManager(m), NEW w, w.epoch = IF m.due THEN m.epoch + 1 ELSE m.epoch,
         NEW t \in Tx, Open(m, t),
         Turned(m, t).phase # "None" => Forward(Turned(m, t), w.states[t])
  PROVE  \/ Forward(m.states[t], w.states[t])
         \/ m.states[t].timedOut /\ w.epoch > m.epoch
<1>1. m.epoch \in Nat
  BY DEF SoundManager, IsManager
<1>. QED
  BY <1>1 DEF Turned, Open

LEMMA HandleMovesOn ==
  ASSUME NEW m, SoundManager(m), NEW v \in Vote
  PROVE  MovesOn(m, HandleMessage(m, v).mgr) /\ Seeds(m, HandleMessage(m, v).mgr)
<1>. DEFINE seen == SeenByVote(m, v)
            old  == seen.states[v.tx]
            new  == ProcessMessage(old, v.phase, v.sender)
            w    == HandleMessage(m, v).mgr
<1>0. v.phase \in VotePhase /\ v.tx \in Tx /\ v.sender \in Node
  BY DEF Vote
<1>1. /\ SoundManager(seen) /\ seen.last = m.last
      /\ seen.epoch = IF m.due THEN m.epoch + 1 ELSE m.epoch
      /\ \A t \in Tx : seen.states[t] = IF t = v.tx /\ Turned(m, t).phase = "None"
                                        THEN NewState(seen.committee) ELSE Turned(m, t)
  BY SeenEntries
<1>2. /\ w.epoch = seen.epoch
      /\ \A t \in Tx : t # v.tx => w.states[t] = seen.states[t]
      /\ w.states[v.tx] = IF v.sender \in seen.committee THEN new ELSE old
      /\ w.last = IF v.sender \in seen.committee /\ new.phase # old.phase
                     /\ new.phase \notin {"Prepare", "Commit"}
                  THEN v.tx ELSE m.last
  BY HandledEntries
<1>3. SoundState(old)
  BY <1>0, <1>1 DEF SoundManager
<1>4. /\ Forward(old, new)
      /\ new.phase # old.phase =>
           new.phase = Following(old.phase) /\ old.phase \in VotePhase \ {"Finalized"}
  BY <1>0, <1>3, VoteMovesForward
<1>. HIDE DEF seen, new, w
<1>5. ASSUME NEW t \in Tx, Open(m, t)
      PROVE  \/ Forward(m.states[t], w.states[t])
             \/ m.states[t].timedOut /\ w.epoch > m.epoch
  <2>1. ASSUME Turned(m, t).phase # "None"
        PROVE  Forward(Turned(m, t), w.states[t])
    <3>1. seen.states[t] = Turned(m, t)
      BY <1>1, <2>1
    <3>2. CASE t # v.tx
      BY <1>2, <3>1, <3>2, ForwardIsReflexive
    <3>3. CASE t = v.tx
      BY <1>2, <1>4, <3>1, <3>3, ForwardIsReflexive
    <3>. QED
      BY <3>2, <3>3
  <2>. QED
    BY <1>1, <1>2, <1>5, <2>1, TurnedMovesOn
<1>6. MovesOn(m, w)
  BY <1>5 DEF MovesOn
<1>7. ASSUME w.last # m.last
      PROVE  m.states[w.last].phase # "Finalized" /\ w.states[w.last].phase = "Finalized"
  <2>1. /\ v.sender \in seen.committee /\ new.phase # old.phase
        /\ new.phase \notin {"Prepare", "Commit"} /\ w.last = v.tx
    BY <1>2, <1>7
  <2>2. old.phase = "Commit" /\ new.phase = "Finalized"
    BY <1>4, <2>1 DEF Following, VotePhase
  <2>3. old = m.states[v.tx]
    <3>1. old = Turned(m, v.tx)
      BY <1>0, <1>1, <2>2 DEF NewState
    <3>. QED
      BY <2>2, <3>1 DEF Turned, NoState
  <2>. QED
    BY <1>2, <2>1, <2>2, <2>3
<1>. QED
  BY <1>6, <1>7 DEF Seeds, w

LEMMA CheckMovesOn ==
  ASSUME NEW m, SoundManager(m), NEW u \in Tx
  PROVE  MovesOn(m, MarkValidated(m, u).mgr) /\ Seeds(m, MarkValidated(m, u).mgr)
<1>. DEFINE seen == SeenByCheck(m, u)
            s    == seen.states[u]
            w    == MarkValidated(m, u).mgr
<1>1. /\ SoundManager(seen) /\ seen.last = m.last
      /\ seen.epoch = IF m.due THEN m.epoch + 1 ELSE m.epoch
      /\ \A t \in Tx : seen.states[t] = IF t = u /\ Turned(m, t).phase = "None"
                                        THEN NewState(seen.committee) ELSE Turned(m, t)
  BY SeenToCheck
<1>2. /\ w.epoch = seen.epoch /\ w.last = m.last
      /\ \A t \in Tx : t # u => w.states[t] = seen.states[t]
      /\ w.states[u] = IF s.phase = "PrePrepare"
                       THEN [s EXCEPT !.validated = TRUE, !.phase = "Prepare"]
                       ELSE [s EXCEPT !.validated = TRUE]
  BY CheckedEntries
<1>3. s \in TxState
  BY <1>1 DEF SoundManager, SoundState
<1>. HIDE DEF seen, w
<1>4. Forward(s, w.states[u])
  <2>1. CASE s.phase = "PrePrepare"
    <3>1. w.states[u] = [s EXCEPT !.validated = TRUE, !.phase = "Prepare"]
      BY <1>2, <2>1
    <3>. QED
      BY <1>3, <2>1, <3>1 DEF Forward, Rank, TxState
  <2>2. CASE s.phase # "PrePrepare"
    <3>1. w.states[u] = [s EXCEPT !.validated = TRUE]
      BY <1>2, <2>2
    <3>. QED
      BY <1>3, <3>1 DEF Forward, TxState
  <2>. QED
    BY <2>1, <2>2
<1>5. ASSUME NEW t \in Tx, Open(m, t)
      PROVE  \/ Forward(m.states[t], w.states[t])
             \/ m.states[t].timedOut /\ w.epoch > m.epoch
  <2>1. ASSUME Turned(m, t).phase # "None"
        PROVE  Forward(Turned(m, t), w.states[t])
    <3>1. seen.states[t] = Turned(m, t)
      BY <1>1, <2>1
    <3>2. CASE t # u
      BY <1>2, <3>1, <3>2, ForwardIsReflexive
    <3>3. CASE t = u
      BY <1>4, <3>1, <3>3
    <3>. QED
      BY <3>2, <3>3
  <2>. QED
    BY <1>1, <1>2, <1>5, <2>1, TurnedMovesOn
<1>6. MovesOn(m, w)
  BY <1>5 DEF MovesOn
<1>7. Seeds(m, w)
  BY <1>2 DEF Seeds
<1>. QED
  BY <1>6, <1>7 DEF w

\* The entries and the seed through the other methods and the clocks.
LEMMA OthersMoveOn ==
  ASSUME NEW m, SoundManager(m)
  PROVE  /\ \A t \in Tx : \A w \in {Propose(m, t).mgr, DropState(m, t), ArchiveFinalizedState(m, t),
                                    [m EXCEPT !.states[t].timedOut = TRUE]} :
              MovesOn(m, w) /\ Seeds(m, w)
         /\ \A n \in Node, r \in Nat \ {0} :
              MovesOn(m, HearAnnounce(m, n, r)) /\ Seeds(m, HearAnnounce(m, n, r))
         /\ MovesOn(m, CleanupTimedOut(m)) /\ Seeds(m, CleanupTimedOut(m))
         /\ \A k : LET w == CleanupFinalizedStates(RotateEpoch(m), k)
                   IN  MovesOn(m, w) /\ Seeds(m, w)
         /\ MovesOn(m, [m EXCEPT !.due = TRUE]) /\ Seeds(m, [m EXCEPT !.due = TRUE])
<1>0. IsManager(m) /\ m.epoch \in Nat
  BY DEF SoundManager, IsManager
\* What changes the entry of one transaction to nothing, a new one or one
\* with its clock run out.
<1>1. ASSUME NEW w, w.last = m.last,
             \A t \in Tx : \/ w.states[t] \in {m.states[t], NoState, NewState(m.committee)}
                           \/ w.states[t] = [m.states[t] EXCEPT !.timedOut = TRUE]
                           \/ m.states[t].timedOut /\ w.epoch > m.epoch
      PROVE  MovesOn(m, w) /\ Seeds(m, w)
  <2>1. \A t \in Tx : Forward(m.states[t], [m.states[t] EXCEPT !.timedOut = TRUE])
    BY <1>0 DEF IsManager, TxState, Forward
  <2>. QED
    BY <1>1, <2>1, ForwardIsReflexive DEF MovesOn, Seeds
<1>2. ASSUME NEW t \in Tx, NEW w, w.last = m.last, NEW s, w.states = [m.states EXCEPT ![t] = s],
             s \in {NoState, NewState(m.committee), [m.states[t] EXCEPT !.timedOut = TRUE]}
      PROVE  MovesOn(m, w) /\ Seeds(m, w)
  <2>1. \A u \in Tx : w.states[u] = IF u = t THEN s ELSE m.states[u]
    BY <1>0, <1>2 DEF IsManager
  <2>. QED
    BY <1>1, <1>2, <2>1
<1>3. ASSUME NEW w, w.last = m.last, w.states = m.states
      PROVE  MovesOn(m, w) /\ Seeds(m, w)
  BY <1>1, <1>3
<1>4. ASSUME NEW t \in Tx
      PROVE  MovesOn(m, Propose(m, t).mgr) /\ Seeds(m, Propose(m, t).mgr)
  <2>. DEFINE w == Propose(m, t).mgr
  <2>1. CASE IsValidator(m)
    <3>1. w.last = m.last /\ w.states = [m.states EXCEPT ![t] = NewState(m.committee)]
      BY <1>0, <2>1 DEF Propose, Announced, Outcome, IsManager
    <3>. HIDE DEF w
    <3>. QED
      BY <1>2, <3>1 DEF w
  <2>2. CASE ~IsValidator(m)
    BY <1>3, <2>2 DEF Propose, Outcome
  <2>. QED
    BY <2>1, <2>2
<1>5. ASSUME NEW t \in Tx
      PROVE  /\ MovesOn(m, DropState(m, t)) /\ Seeds(m, DropState(m, t))
             /\ MovesOn(m, ArchiveFinalizedState(m, t)) /\ Seeds(m, ArchiveFinalizedState(m, t))
  <2>1. DropState(m, t).last = m.last /\ DropState(m, t).states = [m.states EXCEPT ![t] = NoState]
    BY <1>0 DEF DropState, IsManager
  <2>. DEFINE w == ArchiveFinalizedState(m, t)
  <2>2. CASE Open(m, t)
    <3>1. w.last = m.last /\ w.states = [m.states EXCEPT ![t] = NoState]
      <4>1. PICK a : w = [DropState(m, t) EXCEPT !.archive = a]
        BY <2>2 DEF ArchiveFinalizedState
      <4>. QED
        BY <1>0, <2>1, <4>1 DEF DropState, IsManager
    <3>. HIDE DEF w
    <3>. QED
      BY <1>2, <2>1, <3>1 DEF w
  <2>3. CASE ~Open(m, t)
    BY <1>2, <1>3, <2>1, <2>3 DEF ArchiveFinalizedState
  <2>. QED
    BY <2>2, <2>3
<1>6. ASSUME NEW t \in Tx
      PROVE  LET w == [m EXCEPT !.states[t].timedOut = TRUE] IN MovesOn(m, w) /\ Seeds(m, w)
  <2>. DEFINE w == [m EXCEPT !.states[t].timedOut = TRUE]
  <2>1. w.last = m.last /\ w.states = [m.states EXCEPT ![t] = [m.states[t] EXCEPT !.timedOut = TRUE]]
    BY <1>0 DEF IsManager
  <2>. HIDE DEF w
  <2>. QED
    BY <1>2, <2>1 DEF w
<1>7. ASSUME NEW n \in Node, NEW r \in Nat \ {0}
      PROVE  MovesOn(m, HearAnnounce(m, n, r)) /\ Seeds(m, HearAnnounce(m, n, r))
  <2>. DEFINE w == Learn(m, n, r)
  <2>1. IsManager(w) /\ w.last = m.last /\ w.states = m.states
    BY <1>0, LearnIsSound, PartsAside DEF SoundManager
  <2>. HIDE DEF w
  <2>2. SelectCommittee(w).last = m.last /\ SelectCommittee(w).states = m.states
    BY <2>1, PartsAside
  <2>. QED
    BY <1>3, <2>2 DEF HearAnnounce, w
<1>8. MovesOn(m, CleanupTimedOut(m)) /\ Seeds(m, CleanupTimedOut(m))
  <2>. DEFINE w == CleanupTimedOut(m)
  <2>1. /\ w.last = m.last
        /\ \A t \in Tx : w.states[t] \in {NoState, m.states[t]}
    BY <1>0 DEF CleanupTimedOut, IsManager
  <2>. HIDE DEF w
  <2>. QED
    BY <1>1, <2>1 DEF w
<1>9. ASSUME NEW k
      PROVE  LET w == CleanupFinalizedStates(RotateEpoch(m), k) IN MovesOn(m, w) /\ Seeds(m, w)
  <2>. DEFINE x == RotateEpoch(m)
              w == CleanupFinalizedStates(x, k)
  <2>1. /\ IsManager(x) /\ x.last = m.last /\ x.epoch = m.epoch + 1
        /\ x.states = [t \in Tx |-> IF m.states[t].timedOut THEN NoState ELSE m.states[t]]
    BY <1>0, RotateEpochIsSound, PartsAside DEF SoundManager
  <2>. HIDE DEF x
  <2>2. PICK a : w = [x EXCEPT !.archive = a]
    BY DEF CleanupFinalizedStates
  <2>3. w.last = m.last /\ w.epoch = m.epoch + 1 /\ w.states = x.states
    BY <2>1, <2>2 DEF IsManager
  <2>4. \A t \in Tx : w.states[t] \in {NoState, m.states[t]}
    BY <2>1, <2>3
  <2>. HIDE DEF w
  <2>5. MovesOn(m, w) /\ Seeds(m, w)
    BY <1>1, <2>3, <2>4
  <2>. QED
    BY <2>5 DEF w, x
<1>10. MovesOn(m, [m EXCEPT !.due = TRUE]) /\ Seeds(m, [m EXCEPT !.due = TRUE])
  <2>. DEFINE w == [m EXCEPT !.due = TRUE]
  <2>1. w.last = m.last /\ w.states = m.states
    BY <1>0 DEF IsManager
  <2>. HIDE DEF w
  <2>. QED
    BY <1>3, <2>1 DEF w
<1>. QED
  BY <1>4, <1>5, <1>6, <1>7, <1>8, <1>9, <1>10

LEMMA NextMovesOn ==
  ASSUME Inv, Next
  PROVE  MovesOn(mgr, mgr') /\ Seeds(mgr, mgr')
<1>0. SoundManager(mgr)
  BY DEF Inv
<1>1. ASSUME NEW v \in Vote, Handle(v) PROVE MovesOn(mgr, mgr') /\ Seeds(mgr, mgr')
  BY <1>0, <1>1, HandleMovesOn DEF Handle
<1>2. ASSUME NEW t \in Tx, Validate(t) PROVE MovesOn(mgr, mgr') /\ Seeds(mgr, mgr')
  BY <1>0, <1>2, CheckMovesOn DEF Validate
<1>3. ASSUME NEW t \in Tx, OpenAnew(t) \/ Drop(t) \/ Archive(t) \/ TxExpires(t)
      PROVE  MovesOn(mgr, mgr') /\ Seeds(mgr, mgr')
  <2>1. mgr' \in {Propose(mgr, t).mgr, DropState(mgr, t), ArchiveFinalizedState(mgr, t),
                  [mgr EXCEPT !.states[t].timedOut = TRUE]}
    BY <1>3 DEF OpenAnew, Drop, Archive, TxExpires
  <2>2. \A w \in {Propose(mgr, t).mgr, DropState(mgr, t), ArchiveFinalizedState(mgr, t),
                  [mgr EXCEPT !.states[t].timedOut = TRUE]} : MovesOn(mgr, w) /\ Seeds(mgr, w)
    BY <1>0, OthersMoveOn
  <2>. QED
    BY <2>1, <2>2
<1>4. ASSUME NEW n \in Node, NEW r \in AnnouncedRep, Hear(n, r)
      PROVE  MovesOn(mgr, mgr') /\ Seeds(mgr, mgr')
  BY <1>0, <1>4, OthersMoveOn, AnnouncedAssumption DEF Hear
<1>5. CASE Cleanup
  BY <1>0, <1>5, OthersMoveOn DEF Cleanup
<1>6. CASE EpochTick
  BY <1>0, <1>6, OthersMoveOn DEF EpochTick
<1>7. CASE EpochExpires
  BY <1>0, <1>7, OthersMoveOn DEF EpochExpires
<1>. QED
  BY <1>1, <1>2, <1>3, <1>4, <1>5, <1>6, <1>7 DEF Next

\* No call takes a phase, a vote or the committee back from an entry, whatever
\* rotations, elections and late checks come between: it is dropped, proposed
\* anew, or moves forward.
THEOREM EntriesMoveForwardHolds == Spec => EntriesMoveForward
<1>1. Inv /\ [Next]_vars =>
        [\A t \in Tx : Open(mgr, t) =>
           \/ Forward(mgr.states[t], mgr'.states[t])
           \/ mgr'.states[t] \in {NoState, NewState(mgr.committee)}
           \/ mgr.states[t].timedOut /\ mgr'.epoch > mgr.epoch]_vars
  BY NextMovesOn DEF MovesOn
<1>. QED
  BY <1>1, Invariance, PTL DEF Spec, EntriesMoveForward

\* The seed changes only with a finalization, to the transaction finalized:
\* no other call, and no second vote for it, moves the next election.
THEOREM SeedFollowsFinalityHolds == Spec => SeedFollowsFinality
<1>1. Inv /\ [Next]_vars =>
        [mgr'.last # mgr.last =>
           /\ mgr.states[mgr'.last].phase # "Finalized"
           /\ mgr'.states[mgr'.last].phase = "Finalized"]_vars
  BY NextMovesOn DEF Seeds
<1>. QED
  BY <1>1, Invariance, PTL DEF Spec, SeedFollowsFinality
----------------------------------------------------------------------------
(* Reputations.                                                            *)

\* The parts of a method forget nobody: they leave the table alone, or set one
\* reputation to a positive number.
LEMMA PartsForgetNobody ==
  ASSUME NEW m, SoundManager(m)
  PROVE  /\ Known(SelectCommittee(m)) = Known(m)
         /\ Known(MaybeRotateEpoch(m)) = Known(m) /\ Known(RotateEpoch(m)) = Known(m)
         /\ \A n \in Node, r \in Nat \ {0} : Known(m) \subseteq Known(Learn(m, n, r))
         /\ \A t \in Tx : Known(Entered(m, t)) = Known(m)
         /\ \A t \in Tx, n \in Node, p \in VotePhase :
              Known(m) \subseteq Known(Rewarded(m, t, p, n))
<1>0. IsManager(m)
  BY DEF SoundManager
<1>1. SelectCommittee(m).rep = m.rep /\ RotateEpoch(m).rep = m.rep
  BY <1>0 DEF SelectCommittee, RotateEpoch, IsManager
<1>2. \A n \in Node, r \in Nat \ {0} : Known(m) \subseteq Known(Learn(m, n, r))
  BY ReputationSet DEF Learn
<1>3. \A t \in Tx : Entered(m, t).rep = m.rep
  BY EnteredIsSound
<1>4. ASSUME NEW n \in Node, NEW d \in Int
      PROVE  Known(m) \subseteq Known(AdjustReputation(m, n, d))
  <2>1. Adjusted(m.rep[n], d) \in Nat \ {0}
    BY <1>0, AdjustedType DEF IsManager
  <2>2. AdjustReputation(m, n, d) = [m EXCEPT !.rep[n] = Adjusted(m.rep[n], d)]
    BY <1>0 DEF IsManager, AdjustReputation
  <2>. QED
    BY <2>1, <2>2, ReputationSet
<1>5. ASSUME NEW t \in Tx, NEW n \in Node, NEW p \in VotePhase
      PROVE  Known(m) \subseteq Known(Rewarded(m, t, p, n))
  <2>1. PrepareReward \in Int /\ CommitReward \in Int
    BY SizeAssumption
  <2>2. CASE p \in {"Prepare", "Commit"}
    BY <1>4, <2>1, <2>2 DEF Rewarded
  <2>3. CASE p \notin {"Prepare", "Commit"}
    <3>1. Rewarded(m, t, p, n).rep = m.rep
      BY <1>0, <2>3 DEF Rewarded, IsManager
    <3>. QED
      BY <3>1 DEF Known
  <2>. QED
    BY <2>2, <2>3
<1>. QED
  BY <1>1, <1>2, <1>3, <1>5 DEF Known, MaybeRotateEpoch

\* handle_message, with the rotation, the newcomer and the reward in it.
LEMMA HandleForgetsNobody ==
  ASSUME NEW m, SoundManager(m), NEW v \in Vote
  PROVE  Known(m) \subseteq Known(HandleMessage(m, v).mgr)
<1>. DEFINE turned == MaybeRotateEpoch(m)
            known  == Learn(turned, v.sender, NewcomerRep)
            seen   == Entered(known, v.tx)
            old    == seen.states[v.tx]
            new    == ProcessMessage(old, v.phase, v.sender)
            done   == [seen EXCEPT !.states[v.tx] = new]
            given  == Rewarded(done, v.tx, new.phase, v.sender)
<1>0. v.phase \in VotePhase /\ v.tx \in Tx /\ v.sender \in Node /\ NewcomerRep \in Nat \ {0}
  BY SizeAssumption DEF Vote
<1>1. SoundManager(turned) /\ Known(turned) = Known(m)
  BY RotateEpochIsSound, PartsForgetNobody
<1>. HIDE DEF turned
<1>2. /\ SoundManager(known) /\ Known(m) \subseteq Known(known)
      /\ v.sender \in Known(known)
  BY <1>0, <1>1, LearnIsSound, PartsForgetNobody
<1>. HIDE DEF known
<1>3. /\ SoundManager(seen) /\ Known(seen) = Known(known)
      /\ SoundState(old) /\ old.phase # "None"
  BY <1>0, <1>2, EnteredIsSound, PartsForgetNobody DEF SoundManager
<1>4. Named(old) \subseteq Known(seen)
  <2>. HIDE DEF seen
  <2>. QED
    BY <1>0, <1>3 DEF SoundManager, AllKnown, Named
<1>. HIDE DEF seen
<1>5. /\ SoundState(new) /\ Named(new) \subseteq Known(seen)
  <2>1. /\ SoundState(new) /\ new.committee = old.committee
        /\ new.prepares \subseteq old.prepares \cup {v.sender}
        /\ new.commits \subseteq old.commits \cup {v.sender}
    BY <1>0, <1>3, ProcessMessageIsSound DEF new
  <2>. QED
    BY <1>2, <1>3, <1>4, <2>1 DEF Named
<1>6. SoundManager(done) /\ Known(done) = Known(seen)
  <2>1. SoundManager(done)
    BY <1>0, <1>3, <1>5, EntryReplaced
  <2>2. done.rep = seen.rep
    BY <1>3 DEF SoundManager, IsManager
  <2>. QED
    BY <2>1, <2>2 DEF Known
<1>7. new.phase \in VotePhase => Known(done) \subseteq Known(given)
  <2>. HIDE DEF done, new
  <2>. QED
    BY <1>0, <1>6, PartsForgetNobody
<1>8. new.phase # old.phase => new.phase \in VotePhase
  BY <1>0, <1>3, VoteMovesForward DEF Following, VotePhase
<1>9. \/ HandleMessage(m, v).mgr \in {seen, done}
      \/ HandleMessage(m, v).mgr = given /\ new.phase # old.phase
  <2>. HIDE DEF old
  <2>1. HandleMessage(m, v).mgr =
          IF v.sender \notin seen.committee THEN seen
          ELSE IF new.phase = old.phase THEN done ELSE given
    BY DEF HandleMessage, Outcome, Announced, turned, known, seen, old
  <2>. QED
    BY <2>1
<1>. QED
  BY <1>2, <1>3, <1>6, <1>7, <1>8, <1>9

\* The other methods and the clocks.
LEMMA OthersForgetNobody ==
  ASSUME NEW m, SoundManager(m)
  PROVE  /\ \A t \in Tx : /\ Known(MarkValidated(m, t).mgr) = Known(m)
                          /\ Known(Propose(m, t).mgr) = Known(m)
                          /\ Known(DropState(m, t)) = Known(m)
                          /\ Known(ArchiveFinalizedState(m, t)) = Known(m)
                          /\ Known([m EXCEPT !.states[t].timedOut = TRUE]) = Known(m)
         /\ \A n \in Node, r \in Nat \ {0} : Known(m) \subseteq Known(HearAnnounce(m, n, r))
         /\ \A k \in Nat : Known(CleanupFinalizedStates(RotateEpoch(m), k)) = Known(m)
         /\ Known([m EXCEPT !.due = TRUE]) = Known(m)
<1>0. IsManager(m)
  BY DEF SoundManager
<1>1. ASSUME NEW t \in Tx
      PROVE  Known(MarkValidated(m, t).mgr) = Known(m)
  <2>. DEFINE seen == SeenByCheck(m, t)
              done == [seen EXCEPT !.states[t].validated = TRUE]
              next == [done EXCEPT !.states[t].phase = "Prepare"]
  <2>1. SoundManager(seen) /\ Known(seen) = Known(m)
    BY RotateEpochIsSound, EnteredIsSound, PartsForgetNobody DEF SeenByCheck
  <2>. HIDE DEF seen
  <2>2. done.rep = seen.rep /\ next.rep = seen.rep
    BY <2>1 DEF SoundManager, IsManager
  <2>3. MarkValidated(m, t).mgr \in {done, next}
    BY DEF MarkValidated, Outcome, Announced, seen, SeenByCheck
  <2>. QED
    BY <2>1, <2>2, <2>3 DEF Known
<1>2. ASSUME NEW t \in Tx
      PROVE  /\ Propose(m, t).mgr.rep = m.rep /\ DropState(m, t).rep = m.rep
             /\ ArchiveFinalizedState(m, t).rep = m.rep
             /\ [m EXCEPT !.states[t].timedOut = TRUE].rep = m.rep
  BY <1>0 DEF Propose, Announced, Outcome, DropState, ArchiveFinalizedState, IsManager
<1>3. ASSUME NEW n \in Node, NEW r \in Nat \ {0}
      PROVE  Known(m) \subseteq Known(HearAnnounce(m, n, r))
  <2>. DEFINE w == Learn(m, n, r)
  <2>1. SoundManager(w) /\ Known(m) \subseteq Known(w)
    BY LearnIsSound, PartsForgetNobody
  <2>. HIDE DEF w
  <2>2. Known(SelectCommittee(w)) = Known(w)
    BY <2>1, PartsForgetNobody
  <2>. QED
    BY <2>1, <2>2 DEF HearAnnounce, w
<1>4. ASSUME NEW k \in Nat
      PROVE  Known(CleanupFinalizedStates(RotateEpoch(m), k)) = Known(m)
  <2>. DEFINE w == RotateEpoch(m)
  <2>1. SoundManager(w) /\ Known(w) = Known(m)
    BY RotateEpochIsSound, PartsForgetNobody
  <2>. HIDE DEF w
  <2>2. CleanupFinalizedStates(w, k).rep = w.rep
    BY <2>1 DEF CleanupFinalizedStates, SoundManager, IsManager
  <2>. QED
    BY <2>1, <2>2 DEF Known, w
<1>5. [m EXCEPT !.due = TRUE].rep = m.rep
  BY <1>0 DEF IsManager
<1>. QED
  BY <1>1, <1>2, <1>3, <1>4, <1>5 DEF Known

\* cleanup_timed_out, whatever penalties one call adds up.
LEMMA CleanupForgetsNobody ==
  ASSUME NEW m, SoundManager(m)
  PROVE  Known(m) \subseteq Known(CleanupTimedOut(m))
<1>. DEFINE stale == {t \in Tx : m.states[t].timedOut /\ m.states[t].phase # "Finalized"}
            missed(n) == {t \in stale : n \in m.states[t].committee
                                       \ (m.states[t].prepares \cup m.states[t].commits)}
<1>1. SUFFICES ASSUME NEW n \in Node, m.rep[n] > 0
               PROVE  CleanupTimedOut(m).rep[n] > 0
  BY DEF Known
<1>2. m.rep[n] \in Nat
  BY DEF SoundManager, IsManager
<1>3. CleanupTimedOut(m).rep[n] = IF missed(n) = {} THEN m.rep[n]
                                  ELSE Adjusted(m.rep[n], -3 * Cardinality(missed(n)))
  BY DEF CleanupTimedOut, SoundManager, IsManager
<1>4. -3 * Cardinality(missed(n)) \in Int
  <2>1. missed(n) \in SUBSET Tx
    OBVIOUS
  <2>. HIDE DEF missed
  <2>2. Cardinality(missed(n)) \in Nat
    BY <2>1, TxAssumption, FS_Subset, FS_CardinalityType
  <2>. QED
    BY <2>2
<1>. HIDE DEF missed
<1>5. Adjusted(m.rep[n], -3 * Cardinality(missed(n))) \in Nat \ {0}
  BY <1>2, <1>4, AdjustedType
<1>. QED
  BY <1>1, <1>2, <1>3, <1>5

\* A reputation never sinks below 1, whatever penalties, rewards, rotations and
\* announcements come in whatever order (ppor.rs, adjust_reputation and its
\* floor): a node in the table stays there, and is never again taken for a
\* newcomer, with the newcomer's reputation.
THEOREM ReputationsStayPositive ==
  Spec => [][\A n \in Node : mgr.rep[n] >= 1 => mgr'.rep[n] >= 1]_vars
<1>1. ASSUME Inv, Inv', Next
      PROVE  Known(mgr) \subseteq Known(mgr')
  <2>0. SoundManager(mgr) /\ KeepEpochs \in Nat
    BY <1>1, SizeAssumption DEF Inv
  <2>1. ASSUME NEW v \in Vote, Handle(v) PROVE Known(mgr) \subseteq Known(mgr')
    BY <2>0, <2>1, HandleForgetsNobody DEF Handle
  <2>2. ASSUME NEW t \in Tx, Validate(t) \/ OpenAnew(t) \/ Drop(t) \/ Archive(t) \/ TxExpires(t)
        PROVE  Known(mgr) \subseteq Known(mgr')
    <3>1. /\ Known(MarkValidated(mgr, t).mgr) = Known(mgr)
          /\ Known(Propose(mgr, t).mgr) = Known(mgr)
          /\ Known(DropState(mgr, t)) = Known(mgr)
          /\ Known(ArchiveFinalizedState(mgr, t)) = Known(mgr)
          /\ Known([mgr EXCEPT !.states[t].timedOut = TRUE]) = Known(mgr)
      BY <2>0, OthersForgetNobody
    <3>. QED
      BY <2>2, <3>1 DEF Validate, OpenAnew, Drop, Archive, TxExpires
  <2>3. ASSUME NEW n \in Node, NEW r \in AnnouncedRep, Hear(n, r)
        PROVE  Known(mgr) \subseteq Known(mgr')
    BY <2>0, <2>3, OthersForgetNobody, AnnouncedAssumption DEF Hear
  <2>4. CASE Cleanup
    BY <2>0, <2>4, CleanupForgetsNobody DEF Cleanup
  <2>5. CASE EpochTick
    BY <2>0, <2>5, OthersForgetNobody DEF EpochTick
  <2>6. CASE EpochExpires
    BY <2>0, <2>6, OthersForgetNobody DEF EpochExpires
  <2>. QED
    BY <1>1, <2>1, <2>2, <2>3, <2>4, <2>5, <2>6 DEF Next
<1>2. ASSUME Inv, Inv', [Next]_vars
      PROVE  [\A n \in Node : mgr.rep[n] >= 1 => mgr'.rep[n] >= 1]_vars
  <2>1. \A n \in Node : mgr.rep[n] \in Nat /\ mgr'.rep[n] \in Nat
    BY <1>2 DEF Inv, SoundManager, IsManager
  <2>. QED
    BY <1>1, <1>2, <2>1 DEF Known
<1>3. Inv /\ Inv' /\ [Next]_vars =>
        [\A n \in Node : mgr.rep[n] >= 1 => mgr'.rep[n] >= 1]_vars
  BY <1>2
<1>. QED
  BY <1>3, Invariance, PTL DEF Spec
=============================================================================
