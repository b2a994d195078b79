---------------------------- MODULE Swarm_proofs ----------------------------
(***************************************************************************)
(* Safety of the network, for every set of nodes, of transactions and of   *)
(* nodes in direct mode, and whatever the network does with votes.  To the *)
(* soundness of each manager (PporManager_proofs) this adds where votes    *)
(* come from: an entry is validated, and a vote is cast or counted, only   *)
(* where the data has been heard; and a Finalized vote is cast only by a   *)
(* node whose entry is Finalized.                                          *)
(***************************************************************************)
EXTENDS Swarm, PporManager_proofs

\* Where entries and votes may come from: B holds the pairs of a node and a
\* transaction whose data has reached it.
Backed(m, B) ==
  \A t \in Tx : LET s == m.states[t] IN
    /\ s.validated => <<m.id, t>> \in B
    /\ \A p \in s.prepares \cup s.commits : <<p, t>> \in B

----------------------------------------------------------------------------
(* What the methods do to the entries of a manager.                        *)

\* A manager with no more validations and votes than another is backed by
\* what backs that one; more may back it as well.
LEMMA BackedKept ==
  ASSUME NEW m, NEW w, NEW B, NEW D, Backed(m, B), B \subseteq D, w.id = m.id,
         \A t \in Tx : /\ w.states[t].validated => m.states[t].validated
                       /\ w.states[t].prepares \subseteq m.states[t].prepares
                       /\ w.states[t].commits \subseteq m.states[t].commits
  PROVE  Backed(w, D)
BY DEF Backed

\* An election touches the committee only.
LEMMA SelectKeeps ==
  ASSUME NEW m, IsManager(m)
  PROVE  /\ SelectCommittee(m).states = m.states
         /\ SelectCommittee(m).due = m.due
         /\ SelectCommittee(m).id = m.id
<1>1. PICK C : SelectCommittee(m) = [m EXCEPT !.committee = C]
  BY DEF SelectCommittee
<1>. QED
  BY <1>1 DEF IsManager

\* A rotation keeps or drops an entry, and restarts the clock.
LEMMA RotationKeeps ==
  ASSUME NEW m, SoundManager(m)
  PROVE  /\ RotateEpoch(m).due = FALSE
         /\ MaybeRotateEpoch(m).due = FALSE
         /\ \A t \in Tx : /\ RotateEpoch(m).states[t] \in {m.states[t], NoState}
                          /\ MaybeRotateEpoch(m).states[t] \in {m.states[t], NoState}
         /\ ~m.due => MaybeRotateEpoch(m).states = m.states
<1>. DEFINE w == Without(m, {t \in Tx : m.states[t].timedOut})
<1>1. IsManager(m) /\ SoundManager(w) /\ SoundManager(Later(w))
  BY EntriesDropped, EpochMovedOn DEF SoundManager
<1>2. RotateEpoch(m) = SelectCommittee(Later(w))
  BY DEF RotateEpoch, Later, Without, SoundManager, IsManager
<1>3. w.states = [t \in Tx |-> IF t \in {u \in Tx : m.states[u].timedOut}
                               THEN NoState ELSE m.states[t]]
  BY <1>1 DEF Without, IsManager
<1>4. Later(w).states = w.states /\ Later(w).due = FALSE
  <2>1. IsManager(w)
    BY <1>1 DEF SoundManager
  <2>. HIDE DEF w
  <2>. QED
    BY <2>1 DEF Later, IsManager
<1>5. RotateEpoch(m).states = w.states /\ RotateEpoch(m).due = FALSE
  <2>1. IsManager(Later(w))
    BY <1>1 DEF SoundManager
  <2>. HIDE DEF w
  <2>. QED
    BY <1>2, <1>4, <2>1, SelectKeeps
<1>6. m.due \in BOOLEAN
  BY <1>1 DEF IsManager
<1>7. \A t \in Tx : RotateEpoch(m).states[t] \in {m.states[t], NoState}
  BY <1>3, <1>5
<1>. QED
  BY <1>5, <1>6, <1>7 DEF MaybeRotateEpoch

\* Learning a node changes the reputations only.
LEMMA LearnKeeps ==
  ASSUME NEW m, IsManager(m), NEW n, NEW r
  PROVE  Learn(m, n, r).states = m.states /\ Learn(m, n, r).due = m.due
BY DEF Learn, IsManager

\* Opening an entry leaves the open ones alone.
LEMMA EnteredKeeps ==
  ASSUME NEW m, IsManager(m), NEW t \in Tx
  PROVE  /\ Entered(m, t).due = m.due
         /\ \A u \in Tx : \/ Entered(m, t).states[u] = m.states[u]
                          \/ ~Open(m, u) /\ Entered(m, t).states[u] = NewState(m.committee)
BY DEF Entered, Open, IsManager

\* The effect of a phase change leaves the entries alone.
LEMMA RewardedKeeps ==
  ASSUME NEW m, IsManager(m), NEW t, NEW p, NEW n
  PROVE  Rewarded(m, t, p, n).states = m.states /\ Rewarded(m, t, p, n).due = m.due
<1>1. CASE p = "Prepare" \/ p = "Commit"
  BY <1>1 DEF Rewarded, AdjustReputation, IsManager
<1>2. CASE p \notin {"Prepare", "Commit"}
  BY <1>2 DEF Rewarded, IsManager
<1>. QED
  BY <1>1, <1>2

\* A vote validates nothing and adds no voter but its sender; what it brings
\* about is a phase that validation had to precede; Finalized is final.
LEMMA ProcessMessageKeeps ==
  ASSUME NEW s, SoundState(s), NEW p \in VotePhase, NEW n \in Node, s.phase # "None"
  PROVE  LET r == ProcessMessage(s, p, n) IN
         /\ r.validated = s.validated
         /\ r.phase # s.phase => r.phase \in {"Prepare", "Commit", "Finalized"}
         /\ s.phase = "Finalized" => r.phase = "Finalized"
<1>. DEFINE r == Recorded(s, p, n)
            q == [r EXCEPT !.phase = Following(p)]
<1>1. r \in TxState /\ r.phase = s.phase /\ r.validated = s.validated
  BY RecordedIsSound DEF SoundState
<1>2. q.phase = Following(p) /\ q.validated = r.validated
  BY <1>1 DEF TxState
<1>3. Following(p) \in {"Prepare", "Commit", "Finalized"}
  BY DEF Following
<1>4. Completes(r, p) => r.phase = p /\ p \in {"PrePrepare", "Prepare", "Commit"}
  BY DEF Completes
<1>. HIDE DEF r, q
<1>. QED
  BY <1>1, <1>2, <1>3, <1>4 DEF ProcessMessage, r, q

\* What handle_message keeps: entries are validated by nobody and gain the
\* sender at most; the clock is restarted; a vote is cast for a validated entry
\* and names its phase; a Finalized entry stays unless the epoch has expired.
Keeps(m, v, h) ==
  /\ h.mgr.due = FALSE
  /\ \A w \in h.votes :
       /\ w \in Vote /\ w.sender = m.id /\ w.tx = v.tx
       /\ w.phase = h.mgr.states[v.tx].phase
       /\ h.mgr.states[v.tx].validated
  /\ \A t \in Tx :
       /\ h.mgr.states[t].validated => m.states[t].validated
       /\ \A p \in h.mgr.states[t].prepares \cup h.mgr.states[t].commits :
            \/ p \in m.states[t].prepares \cup m.states[t].commits
            \/ t = v.tx /\ p = v.sender
       /\ ~m.due /\ m.states[t].phase = "Finalized"
            => h.mgr.states[t].phase = "Finalized"

\* handle_message does, for any vote of any node.
LEMMA HandleMessageKeeps ==
  ASSUME NEW m, SoundManager(m), NEW v \in Vote
  PROVE  Keeps(m, v, HandleMessage(m, v))
<1>. DEFINE now   == MaybeRotateEpoch(m)
            known == Learn(now, v.sender, NewcomerRep)
            seen  == Entered(known, v.tx)
            old   == seen.states[v.tx]
            new   == ProcessMessage(old, v.phase, v.sender)
            done  == [seen EXCEPT !.states[v.tx] = new]
            paid  == Rewarded(done, v.tx, new.phase, v.sender)
            h     == HandleMessage(m, v)
<1>0. v.phase \in VotePhase /\ v.tx \in Tx /\ v.sender \in Node
  BY DEF Vote
<1>1. SoundManager(now) /\ now.id = m.id /\ now.due = FALSE
      /\ (\A t \in Tx : now.states[t] \in {m.states[t], NoState})
      /\ (~m.due => now.states = m.states)
  BY RotateEpochIsSound, RotationKeeps
<1>2. SoundManager(known) /\ known.id = m.id /\ known.due = FALSE
      /\ known.states = now.states
  <2>. HIDE DEF now
  <2>. QED
    BY <1>0, <1>1, LearnIsSound, LearnKeeps, SizeAssumption DEF SoundManager
<1>3. SoundManager(seen) /\ seen.id = m.id /\ seen.due = FALSE /\ old.phase # "None"
      /\ \A u \in Tx : \/ seen.states[u] = known.states[u]
                       \/ /\ known.states[u].phase = "None"
                          /\ seen.states[u] = NewState(known.committee)
  <2>. HIDE DEF known
  <2>1. IsManager(known)
    BY <1>2 DEF SoundManager
  <2>. QED
    BY <1>0, <1>2, <2>1, EnteredIsSound, EnteredKeeps DEF Open
<1>4. /\ SoundState(old) /\ SoundState(new) /\ new.validated = old.validated
      /\ new.prepares \subseteq old.prepares \cup {v.sender}
      /\ new.commits \subseteq old.commits \cup {v.sender}
      /\ new.phase # old.phase => new.phase \in {"Prepare", "Commit", "Finalized"}
      /\ old.phase = "Finalized" => new.phase = "Finalized"
  <2>. HIDE DEF seen
  <2>1. SoundState(old)
    BY <1>0, <1>3 DEF SoundManager
  <2>. HIDE DEF old
  <2>. QED
    BY <1>0, <1>3, <2>1, ProcessMessageIsSound, ProcessMessageKeeps
<1>5. /\ IsManager(seen) /\ IsManager(done) /\ done.due = FALSE /\ done.id = m.id
      /\ \A u \in Tx : done.states[u] = IF u = v.tx THEN new ELSE seen.states[u]
  <2>1. IsManager(seen) /\ new \in TxState
    BY <1>3, <1>4 DEF SoundManager, SoundState
  <2>. HIDE DEF seen, new
  <2>. QED
    BY <1>0, <1>3, <2>1 DEF IsManager
<1>6. paid.states = done.states /\ paid.due = FALSE /\ paid.id = m.id
  <2>1. paid.states = done.states /\ paid.due = done.due
    <3>. HIDE DEF done, new
    <3>. QED
      BY <1>5, RewardedKeeps
  <2>2. paid.id = done.id
    <3>. HIDE DEF done, new
    <3>. QED
      BY <1>5 DEF Rewarded, AdjustReputation, IsManager
  <2>. QED
    BY <1>5, <2>1, <2>2
<1>7. /\ h.mgr \in {seen, done, paid}
      /\ \/ h.votes = {}
         \/ /\ h.mgr = paid /\ new.phase # old.phase
            /\ h.votes = {[phase |-> new.phase, tx |-> v.tx, sender |-> paid.id]}
  BY DEF HandleMessage, Outcome, Announced
<1>8. \A u \in Tx :
        /\ seen.states[u].validated => m.states[u].validated
        /\ seen.states[u].prepares \cup seen.states[u].commits
             \subseteq m.states[u].prepares \cup m.states[u].commits
        /\ ~m.due /\ m.states[u].phase = "Finalized" => seen.states[u].phase = "Finalized"
  <2>. HIDE DEF seen, known, now
  <2>. QED
    BY <1>1, <1>2, <1>3 DEF NoState, NewState
<1>9. \A u \in Tx :
        /\ done.states[u].validated => m.states[u].validated
        /\ \A p \in done.states[u].prepares \cup done.states[u].commits :
             \/ p \in m.states[u].prepares \cup m.states[u].commits
             \/ u = v.tx /\ p = v.sender
        /\ ~m.due /\ m.states[u].phase = "Finalized" => done.states[u].phase = "Finalized"
  <2>. HIDE DEF seen, new, done
  <2>. QED
    BY <1>0, <1>4, <1>5, <1>8 DEF old
<1>10. ASSUME NEW w \in h.votes
       PROVE  /\ w \in Vote /\ w.sender = m.id /\ w.tx = v.tx
              /\ w.phase = h.mgr.states[v.tx].phase
              /\ h.mgr.states[v.tx].validated
  <2>1. /\ h.mgr = paid /\ new.phase # old.phase
        /\ w = [phase |-> new.phase, tx |-> v.tx, sender |-> paid.id]
    BY <1>7
  <2>2. new.phase \in {"Prepare", "Commit", "Finalized"} /\ new.validated
    BY <1>4, <2>1 DEF SoundState, Checked
  <2>3. m.id \in Node
    BY DEF SoundManager, IsManager
  <2>4. h.mgr.states[v.tx] = new
    <3>. HIDE DEF h, paid, done, new
    <3>. QED
      BY <1>0, <1>5, <1>6, <2>1
  <2>. HIDE DEF h, paid, new
  <2>. QED
    BY <1>0, <1>6, <2>1, <2>2, <2>3, <2>4 DEF Vote, VotePhase
<1>11. h.mgr.due = FALSE
  <2>. HIDE DEF h, paid, done, seen
  <2>. QED
    BY <1>3, <1>5, <1>6, <1>7
<1>12. \A t \in Tx :
         /\ h.mgr.states[t].validated => m.states[t].validated
         /\ \A p \in h.mgr.states[t].prepares \cup h.mgr.states[t].commits :
              \/ p \in m.states[t].prepares \cup m.states[t].commits
              \/ t = v.tx /\ p = v.sender
         /\ ~m.due /\ m.states[t].phase = "Finalized"
              => h.mgr.states[t].phase = "Finalized"
  <2>. HIDE DEF h, paid, done, seen
  <2>. QED
    BY <1>6, <1>7, <1>8, <1>9
<1>. HIDE DEF h
<1>. QED
  BY <1>10, <1>11, <1>12 DEF h, Keeps

\* mark_validated: it validates t alone, counts no vote, and casts a Prepare
\* vote for t if any.
LEMMA MarkValidatedKeeps ==
  ASSUME NEW m, SoundManager(m), NEW t \in Tx
  PROVE  LET h == MarkValidated(m, t) IN
         /\ \A w \in h.votes :
              w \in Vote /\ w.sender = m.id /\ w.tx = t /\ w.phase = "Prepare"
         /\ \A u \in Tx :
              /\ h.mgr.states[u].validated => m.states[u].validated \/ u = t
              /\ h.mgr.states[u].prepares \subseteq m.states[u].prepares
              /\ h.mgr.states[u].commits \subseteq m.states[u].commits
<1>. DEFINE now  == MaybeRotateEpoch(m)
            seen == Entered(now, t)
            done == [seen EXCEPT !.states[t].validated = TRUE]
            next == [done EXCEPT !.states[t].phase = "Prepare"]
            h    == MarkValidated(m, t)
<1>1. SoundManager(now) /\ now.id = m.id
      /\ \A u \in Tx : now.states[u] \in {m.states[u], NoState}
  BY RotateEpochIsSound, RotationKeeps
<1>2. IsManager(seen) /\ seen.id = m.id
      /\ \A u \in Tx : \/ seen.states[u] = now.states[u]
                       \/ seen.states[u] = NewState(now.committee)
  <2>. HIDE DEF now
  <2>. QED
    BY <1>1, EnteredIsSound, EnteredKeeps DEF SoundManager
<1>3. \A u \in Tx :
        /\ seen.states[u].validated => m.states[u].validated
        /\ seen.states[u].prepares \subseteq m.states[u].prepares
        /\ seen.states[u].commits \subseteq m.states[u].commits
  <2>. HIDE DEF seen, now
  <2>. QED
    BY <1>1, <1>2 DEF NoState, NewState
<1>4. /\ done.id = m.id /\ next.id = m.id
      /\ \A u \in Tx :
           /\ done.states[u].prepares = seen.states[u].prepares
           /\ done.states[u].commits = seen.states[u].commits
           /\ next.states[u].prepares = seen.states[u].prepares
           /\ next.states[u].commits = seen.states[u].commits
           /\ u # t => /\ done.states[u].validated = seen.states[u].validated
                       /\ next.states[u].validated = seen.states[u].validated
  <2>. HIDE DEF seen
  <2>. QED
    BY <1>2 DEF IsManager, TxState
<1>5. /\ h.mgr \in {done, next}
      /\ h.votes \subseteq {[phase |-> "Prepare", tx |-> t, sender |-> m.id]}
  BY <1>4 DEF MarkValidated, Outcome, Announced
<1>6. m.id \in Node
  BY DEF SoundManager, IsManager
<1>7. \A u \in Tx :
        /\ h.mgr.states[u].validated => m.states[u].validated \/ u = t
        /\ h.mgr.states[u].prepares \subseteq m.states[u].prepares
        /\ h.mgr.states[u].commits \subseteq m.states[u].commits
  <2>. HIDE DEF h, done, next, seen
  <2>. QED
    BY <1>3, <1>4, <1>5
<1>. HIDE DEF h
<1>. QED
  BY <1>5, <1>6, <1>7 DEF Vote, VotePhase, h

\* The methods without votes validate nothing and count nothing.
LEMMA OtherMethodsKeep ==
  ASSUME NEW m, SoundManager(m), NEW t \in Tx, NEW n \in Node, NEW r \in Nat \ {0},
         NEW k, NEW B, Backed(m, B)
  PROVE  /\ Backed(HearAnnounce(m, n, r), B)
         /\ Backed(CleanupFinalizedStates(RotateEpoch(m), k), B)
         /\ Backed(DropState(m, t), B)
         /\ Backed(ArchiveFinalizedState(m, t), B)
         /\ Backed([m EXCEPT !.due = TRUE], B)
         /\ Backed([m EXCEPT !.states[t].timedOut = TRUE], B)
<1>0. IsManager(m)
  BY DEF SoundManager
<1>1. Backed(HearAnnounce(m, n, r), B)
  <2>. DEFINE w == Learn(m, n, r)
  <2>1. IsManager(w) /\ w.states = m.states /\ w.id = m.id
    BY <1>0, LearnIsSound, LearnKeeps DEF SoundManager
  <2>. HIDE DEF w
  <2>2. HearAnnounce(m, n, r).states = m.states /\ HearAnnounce(m, n, r).id = m.id
    BY <2>1, SelectKeeps DEF HearAnnounce, w
  <2>. QED
    BY <2>2 DEF Backed
<1>2. Backed(CleanupFinalizedStates(RotateEpoch(m), k), B)
  <2>. DEFINE w == RotateEpoch(m)
              x == CleanupFinalizedStates(w, k)
  <2>1. IsManager(w) /\ w.id = m.id /\ \A u \in Tx : w.states[u] \in {m.states[u], NoState}
    BY RotateEpochIsSound, RotationKeeps DEF SoundManager
  <2>. HIDE DEF w
  <2>2. PICK a : x = [w EXCEPT !.archive = a]
    BY DEF CleanupFinalizedStates
  <2>3. x.states = w.states /\ x.id = w.id
    BY <2>1, <2>2 DEF IsManager
  <2>. HIDE DEF x
  <2>4. \A u \in Tx : /\ x.states[u].validated => m.states[u].validated
                      /\ x.states[u].prepares \subseteq m.states[u].prepares
                      /\ x.states[u].commits \subseteq m.states[u].commits
    BY <2>1, <2>3 DEF NoState
  <2>. QED
    BY <2>1, <2>3, <2>4, BackedKept DEF x, w
<1>3. Backed(DropState(m, t), B) /\ IsManager(DropState(m, t))
  <2>. DEFINE w == DropState(m, t)
  <2>1. IsManager(w) /\ w.id = m.id /\ \A u \in Tx : w.states[u] \in {m.states[u], NoState}
    BY <1>0, DropIsSound DEF SoundManager, DropState, IsManager
  <2>. HIDE DEF w
  <2>2. \A u \in Tx : /\ w.states[u].validated => m.states[u].validated
                      /\ w.states[u].prepares \subseteq m.states[u].prepares
                      /\ w.states[u].commits \subseteq m.states[u].commits
    BY <2>1 DEF NoState
  <2>. QED
    BY <2>1, <2>2, BackedKept DEF w
<1>4. Backed(ArchiveFinalizedState(m, t), B)
  <2>. DEFINE w == DropState(m, t)
              x == ArchiveFinalizedState(m, t)
  <2>1. \E a : x \in {m, [w EXCEPT !.archive = a]}
    BY DEF ArchiveFinalizedState
  <2>. HIDE DEF w, x
  <2>2. PICK a : x \in {m, [w EXCEPT !.archive = a]}
    BY <2>1
  <2>3. CASE x = m
    BY <2>3 DEF x
  <2>4. CASE x = [w EXCEPT !.archive = a]
    <3>1. x.states = w.states /\ x.id = w.id
      BY <1>3, <2>4 DEF IsManager, w
    <3>2. Backed(x, B)
      BY <1>3, <3>1 DEF Backed, w
    <3>. QED
      BY <3>2 DEF x
  <2>. QED
    BY <2>2, <2>3, <2>4
<1>5. Backed([m EXCEPT !.due = TRUE], B)
  BY <1>0 DEF Backed, IsManager
<1>6. Backed([m EXCEPT !.states[t].timedOut = TRUE], B)
  <2>. DEFINE w == [m EXCEPT !.states[t].timedOut = TRUE]
  <2>1. w.id = m.id
    BY <1>0 DEF IsManager
  <2>2. \A u \in Tx : /\ w.states[u].validated = m.states[u].validated
                      /\ w.states[u].prepares = m.states[u].prepares
                      /\ w.states[u].commits = m.states[u].commits
    BY <1>0 DEF IsManager, TxState
  <2>. HIDE DEF w
  <2>3. Backed(w, B)
    BY <2>1, <2>2 DEF Backed
  <2>. QED
    BY <2>3 DEF w
<1>. QED
  BY <1>1, <1>2, <1>3, <1>4, <1>5, <1>6

----------------------------------------------------------------------------
(* Self-delivery.                                                          *)

\* What self-delivery keeps, of a node `id` whose entries for the transactions
\* in F were Finalized before it began.
ChainOK(c, id, B, F) ==
  /\ SoundManager(c.mgr) /\ c.mgr.id = id /\ Backed(c.mgr, B)
  /\ \A w \in c.next : w \in Vote /\ <<w.sender, w.tx>> \in B
  /\ \A w \in c.sent : /\ w \in Vote /\ w.sender = id /\ <<id, w.tx>> \in B
                       /\ w.phase = "Finalized" => c.mgr.states[w.tx].phase = "Finalized"
  /\ \A t \in F : t \in Tx /\ c.mgr.states[t].phase = "Finalized"
  /\ F # {} \/ c.sent # {} => ~c.mgr.due

\* One round: the vote delivered has reached B, so the answer has; no Finalized
\* entry is lost on the way, since the clock cannot expire meanwhile.
LEMMA RoundIsOK ==
  ASSUME NEW c, NEW id, NEW B, NEW F, ChainOK(c, id, B, F)
  PROVE  ChainOK(Round(c), id, B, F) /\ Round(c).next \subseteq Round(c).sent
<1>1. CASE c.next = {}
  BY <1>1 DEF Round
<1>2. CASE c.next # {}
  <2>. DEFINE v == CHOOSE x \in c.next : TRUE
              h == HandleMessage(c.mgr, v)
              d == Round(c)
  <2>1. v \in Vote /\ <<v.sender, v.tx>> \in B
    BY <1>2 DEF ChainOK
  <2>2. d = [mgr |-> h.mgr, next |-> h.votes, sent |-> c.sent \cup h.votes]
    BY <1>2 DEF Round
  <2>. HIDE DEF d, v
  <2>3. SoundManager(h.mgr) /\ h.mgr.id = id
    BY <2>1, HandleMessageIsSound DEF ChainOK
  <2>4. /\ h.mgr.due = FALSE
        /\ \A w \in h.votes :
             /\ w \in Vote /\ w.sender = id /\ w.tx = v.tx
             /\ w.phase = h.mgr.states[v.tx].phase
             /\ h.mgr.states[v.tx].validated
        /\ \A t \in Tx :
             /\ h.mgr.states[t].validated => c.mgr.states[t].validated
             /\ \A p \in h.mgr.states[t].prepares \cup h.mgr.states[t].commits :
                  \/ p \in c.mgr.states[t].prepares \cup c.mgr.states[t].commits
                  \/ t = v.tx /\ p = v.sender
             /\ ~c.mgr.due /\ c.mgr.states[t].phase = "Finalized"
                  => h.mgr.states[t].phase = "Finalized"
    <3>1. SoundManager(c.mgr) /\ c.mgr.id = id
      BY DEF ChainOK
    <3>2. Keeps(c.mgr, v, h)
      BY <2>1, <3>1, HandleMessageKeeps
    <3>. HIDE DEF h
    <3>. QED
      BY <3>1, <3>2 DEF Keeps
  <2>. HIDE DEF h
  <2>5. Backed(h.mgr, B)
    BY <2>1, <2>3, <2>4 DEF ChainOK, Backed
  <2>6. v.tx \in Tx
    BY <2>1 DEF Vote
  <2>7. \A w \in h.votes : /\ w \in Vote /\ w.sender = id /\ <<id, w.tx>> \in B
                           /\ w.phase = "Finalized" => h.mgr.states[w.tx].phase = "Finalized"
    BY <2>3, <2>4, <2>5, <2>6 DEF Backed
  <2>8. \A w \in c.sent : /\ w \in Vote /\ w.sender = id /\ <<id, w.tx>> \in B
                          /\ w.phase = "Finalized" => h.mgr.states[w.tx].phase = "Finalized"
    <3>. SUFFICES ASSUME NEW w \in c.sent
                  PROVE  /\ w \in Vote /\ w.sender = id /\ <<id, w.tx>> \in B
                         /\ w.phase = "Finalized" => h.mgr.states[w.tx].phase = "Finalized"
      OBVIOUS
    <3>1. /\ w \in Vote /\ w.sender = id /\ <<id, w.tx>> \in B /\ ~c.mgr.due
          /\ w.phase = "Finalized" => c.mgr.states[w.tx].phase = "Finalized"
      BY DEF ChainOK
    <3>2. w.tx \in Tx
      BY <3>1 DEF Vote
    <3>. QED
      BY <2>4, <3>1, <3>2
  <2>9. \A t \in F : t \in Tx /\ h.mgr.states[t].phase = "Finalized"
    BY <2>4 DEF ChainOK
  <2>10. ChainOK(d, id, B, F) /\ d.next \subseteq d.sent
    BY <2>2, <2>3, <2>4, <2>5, <2>7, <2>8, <2>9 DEF ChainOK
  <2>. QED
    BY <2>10 DEF d
<1>. QED
  BY <1>1, <1>2

\* The three rounds: whatever is left to say at their end has been sent.
LEMMA ChainIsOK ==
  ASSUME NEW m, NEW votes, NEW id, NEW B, NEW F,
         ChainOK([mgr |-> m, next |-> votes, sent |-> {}], id, B, F)
  PROVE  ChainOK(Chain(m, votes), id, B, F)
         /\ Chain(m, votes).next \subseteq Chain(m, votes).sent
<1>. DEFINE c == [mgr |-> m, next |-> votes, sent |-> {}]
<1>1. ChainOK(Round(c), id, B, F)
  BY RoundIsOK
<1>2. ChainOK(Round(Round(c)), id, B, F)
  <2>. HIDE DEF c
  <2>. QED
    BY <1>1, RoundIsOK
<1>3. ChainOK(Round(Round(Round(c))), id, B, F)
      /\ Round(Round(Round(c))).next \subseteq Round(Round(Round(c))).sent
  <2>. HIDE DEF c
  <2>. QED
    BY <1>2, RoundIsOK
<1>. QED
  BY <1>3 DEF Chain

\* What is sent is one of the votes, to a node.
LEMMA SentIsMessage ==
  ASSUME NEW n \in Node, NEW C \in SUBSET Node, NEW votes \in SUBSET Vote
  PROVE  \A msg \in SentFirst(n, C, votes) \cup SentToCommittee(n, C, votes) :
           msg \in Message /\ msg.vote \in votes
BY DEF SentFirst, SentToCommittee, Gossiped, Message, Channel

----------------------------------------------------------------------------
(* The network.                                                            *)

\* Where data has been delivered.
Reached == {b \in Node \X Tx : heard[b[1]][b[2]] > 0}

\* The part of the types that the argument needs.
TypeInv ==
  /\ mgr = [n \in Node |-> mgr[n]]
  /\ pending \in [Node -> SUBSET Tx]
  /\ net \subseteq Message
  /\ mail \in [Node -> [Tx -> Nat]]
  /\ heard \in [Node -> [Tx -> Nat]]
  /\ applied \in [Node -> [Tx -> Nat]]
  /\ certified \in [Node -> SUBSET Tx]

\* Every manager is sound, is its node's and is backed by data delivered.
Sound ==
  \A n \in Node : SoundManager(mgr[n]) /\ mgr[n].id = n /\ Backed(mgr[n], Reached)

\* Every vote on its way was cast where the data had been delivered, and a
\* Finalized vote where the entry was Finalized.
NetBacked ==
  \A msg \in net :
    /\ <<msg.vote.sender, msg.vote.tx>> \in Reached
    /\ msg.vote.phase = "Finalized" => msg.vote.tx \in certified[msg.vote.sender]

\* The inductive invariant.
Inv == TypeInv /\ Sound /\ NetBacked /\ AppliedOncePerCopy /\ AppliedIsCertified

\* Data that arrives leaves what had arrived before.
LEMMA ReachedGrows ==
  ASSUME \A p \in Node, t \in Tx : heard[p][t] \in Nat /\ heard'[p][t] \in Nat
                                   /\ heard[p][t] <= heard'[p][t]
  PROVE  Reached \subseteq Reached'
<1>. SUFFICES ASSUME NEW b \in Reached PROVE b \in Reached'
  OBVIOUS
<1>1. b \in Node \X Tx /\ heard[b[1]][b[2]] > 0
  BY DEF Reached
<1>2. b[1] \in Node /\ b[2] \in Tx
  BY <1>1
<1>3. heard'[b[1]][b[2]] > 0
  BY <1>1, <1>2
<1>. QED
  BY <1>1, <1>3 DEF Reached

\* A step that gives one node another sound manager, takes data away at most
\* and sends nothing keeps the invariant.
LEMMA ManagerStep ==
  ASSUME Inv, NEW n \in Node, NEW w, SoundManager(w), w.id = n, Backed(w, Reached),
         mgr' = [mgr EXCEPT ![n] = w],
         UNCHANGED <<net, mail, heard, applied, certified>>,
         pending' \in [Node -> SUBSET Tx],
         \A p \in Node : pending'[p] \subseteq pending[p]
  PROVE  Inv'
<1>1. TypeInv'
  BY DEF Inv, TypeInv
<1>2. Reached' = Reached
  BY DEF Reached
<1>3. Sound'
  <2>1. \A p \in Node : mgr'[p] = IF p = n THEN w ELSE mgr[p]
    BY DEF Inv, TypeInv
  <2>. QED
    BY <1>2, <2>1 DEF Inv, Sound
<1>4. NetBacked'
  BY <1>2 DEF Inv, NetBacked
<1>5. AppliedIsCertified'
  BY DEF Inv, AppliedIsCertified
<1>6. AppliedOncePerCopy'
  <2>. SUFFICES ASSUME NEW p \in Node, NEW t \in Tx
                PROVE  applied[p][t] + (IF t \in pending'[p] THEN 1 ELSE 0) <= heard[p][t]
    BY DEF AppliedOncePerCopy
  <2>1. applied[p][t] + (IF t \in pending[p] THEN 1 ELSE 0) <= heard[p][t]
    BY DEF Inv, AppliedOncePerCopy
  <2>2. applied[p][t] \in Nat /\ heard[p][t] \in Nat
    BY DEF Inv, TypeInv
  <2>3. t \in pending'[p] => t \in pending[p]
    OBVIOUS
  <2>. QED
    BY <2>1, <2>2, <2>3
<1>. QED
  BY <1>1, <1>3, <1>4, <1>5, <1>6 DEF Inv

\* What becomes of the manager when a transaction is executed.
LEMMA SettledIsSound ==
  ASSUME NEW m, SoundManager(m), NEW t \in Tx, NEW B, Backed(m, B)
  PROVE  SoundManager(Settled(m, t)) /\ Settled(m, t).id = m.id /\ Backed(Settled(m, t), B)
<1>1. /\ SoundManager(DropState(m, t)) /\ DropState(m, t).id = m.id
      /\ SoundManager(ArchiveFinalizedState(m, t)) /\ ArchiveFinalizedState(m, t).id = m.id
  BY DropIsSound
<1>2. Backed(DropState(m, t), B) /\ Backed(ArchiveFinalizedState(m, t), B)
  <2>1. PICK n \in Node : TRUE
    BY NodeAssumption
  <2>. QED
    BY <2>1, 1 \in Nat \ {0}, OtherMethodsKeep
<1>3. Settled(m, t) \in {m, DropState(m, t), ArchiveFinalizedState(m, t)}
  BY DEF Settled
<1>. QED
  BY <1>1, <1>2, <1>3

\* The common end of the handlers.  The data held is of copies delivered and
\* not executed; a Finalized vote found comes from a node that has certified;
\* what is sent is sent by n, of what it has heard.
LEMMA HandlerStep ==
  ASSUME Inv, NEW n \in Node, NEW m, NEW held \in SUBSET Tx, NEW finals \in SUBSET Vote,
         SoundManager(m), m.id = n, Backed(m, Reached'),
         heard' \in [Node -> [Tx -> Nat]], mail' \in [Node -> [Tx -> Nat]],
         \A p \in Node, t \in Tx : heard[p][t] <= heard'[p][t],
         \A t \in held : applied[n][t] + 1 <= heard'[n][t],
         \A v \in finals : v.phase = "Finalized" =>
              \/ m.states[v.tx].phase = "Finalized"
              \/ \E p \in Node : v.tx \in certified[p],
         net' \subseteq Message,
         \A msg \in net' : \/ msg \in net
                           \/ /\ msg.vote.sender = n /\ <<n, msg.vote.tx>> \in Reached'
                              /\ msg.vote.phase = "Finalized"
                                   => m.states[msg.vote.tx].phase = "Finalized",
         Finish(n, m, held, finals)
  PROVE  Inv'
<1>. DEFINE ready == held \cap {v.tx : v \in {w \in finals : w.phase = "Finalized"}}
            final == {t \in Tx : m.states[t].phase = "Finalized"}
<1>0. /\ pending \in [Node -> SUBSET Tx] /\ certified \in [Node -> SUBSET Tx]
      /\ heard \in [Node -> [Tx -> Nat]] /\ applied \in [Node -> [Tx -> Nat]]
      /\ mgr = [p \in Node |-> mgr[p]]
  BY DEF Inv, TypeInv
<1>1. Reached \subseteq Reached'
  BY <1>0, ReachedGrows
<1>2. certified' = [certified EXCEPT ![n] = @ \cup final]
  BY DEF Finish
<1>3. \A p \in Node : certified'[p] = certified[p] \cup (IF p = n THEN final ELSE {})
  BY <1>0, <1>2
<1>4. \/ /\ mgr' = [mgr EXCEPT ![n] = m]
         /\ pending' = [pending EXCEPT ![n] = held]
         /\ applied' = applied
      \/ \E t \in ready : \E ok \in BOOLEAN :
           /\ mgr' = [mgr EXCEPT ![n] = IF ok THEN Settled(m, t) ELSE m]
           /\ pending' = [pending EXCEPT ![n] = held \ {t}]
           /\ applied' = [applied EXCEPT ![n][t] = IF ok THEN @ + 1 ELSE @]
  BY DEF Finish, Outcomes
<1>5. \E w : /\ mgr' = [mgr EXCEPT ![n] = w]
             /\ SoundManager(w) /\ w.id = n /\ Backed(w, Reached')
  <2>1. \A t \in Tx : /\ SoundManager(Settled(m, t)) /\ Settled(m, t).id = n
                      /\ Backed(Settled(m, t), Reached')
    BY SettledIsSound
  <2>. QED
    BY <1>4, <2>1
<1>6. \E k \in SUBSET held :
        /\ pending' = [pending EXCEPT ![n] = k]
        /\ applied' \in [Node -> [Tx -> Nat]]
        /\ \A p \in Node, t \in Tx :
             \/ applied'[p][t] = applied[p][t]
             \/ /\ p = n /\ t \in ready \ k
                /\ applied'[p][t] = applied[p][t] + 1
  <2>1. CASE applied' = applied /\ pending' = [pending EXCEPT ![n] = held]
    BY <1>0, <2>1
  <2>2. ASSUME NEW t \in ready, NEW ok \in BOOLEAN,
               pending' = [pending EXCEPT ![n] = held \ {t}],
               applied' = [applied EXCEPT ![n][t] = IF ok THEN @ + 1 ELSE @]
        PROVE  /\ applied' \in [Node -> [Tx -> Nat]]
               /\ \A p \in Node, u \in Tx :
                    \/ applied'[p][u] = applied[p][u]
                    \/ /\ p = n /\ u \in ready \ (held \ {t})
                       /\ applied'[p][u] = applied[p][u] + 1
    <3>1. t \in Tx
      OBVIOUS
    <3>. HIDE DEF ready
    <3>2. applied[n] \in [Tx -> Nat] /\ applied[n][t] \in Nat
      BY <1>0, <3>1
    <3>. DEFINE k == IF ok THEN applied[n][t] + 1 ELSE applied[n][t]
                row == [applied[n] EXCEPT ![t] = k]
    <3>3. k \in Nat
      BY <3>2
    <3>4. applied' = [applied EXCEPT ![n] = row]
      BY <2>2
    <3>5. k = applied[n][t] \/ k = applied[n][t] + 1
      OBVIOUS
    <3>. HIDE DEF k
    <3>6. row \in [Tx -> Nat] /\ \A u \in Tx : row[u] = IF u = t THEN k ELSE applied[n][u]
      BY <3>2, <3>3
    <3>. HIDE DEF row
    <3>7. applied' \in [Node -> [Tx -> Nat]]
      BY <1>0, <3>4, <3>6
    <3>8. \A p \in Node : applied'[p] = IF p = n THEN row ELSE applied[p]
      BY <1>0, <3>4
    <3>. QED
      BY <3>5, <3>6, <3>7, <3>8
  <2>. HIDE DEF ready
  <2>3. CASE \E t \in ready : \E ok \in BOOLEAN :
               /\ pending' = [pending EXCEPT ![n] = held \ {t}]
               /\ applied' = [applied EXCEPT ![n][t] = IF ok THEN @ + 1 ELSE @]
    <3>1. PICK t \in ready, ok \in BOOLEAN :
               /\ pending' = [pending EXCEPT ![n] = held \ {t}]
               /\ applied' = [applied EXCEPT ![n][t] = IF ok THEN @ + 1 ELSE @]
      BY <2>3
    <3>2. held \ {t} \in SUBSET held
      OBVIOUS
    <3>. QED
      BY <2>2, <3>1, <3>2
  <2>. QED
    BY <1>4, <2>1, <2>3
<1>7. TypeInv'
  <2>1. certified' \in [Node -> SUBSET Tx]
    BY <1>0, <1>2
  <2>2. mgr' = [p \in Node |-> mgr'[p]]
    BY <1>0, <1>5
  <2>3. pending' \in [Node -> SUBSET Tx] /\ applied' \in [Node -> [Tx -> Nat]]
    <3>1. PICK k \in SUBSET held :
            pending' = [pending EXCEPT ![n] = k] /\ applied' \in [Node -> [Tx -> Nat]]
      BY <1>6
    <3>2. k \in SUBSET Tx
      OBVIOUS
    <3>. QED
      BY <1>0, <3>1, <3>2
  <2>. QED
    BY <2>1, <2>2, <2>3 DEF TypeInv
<1>8. Sound'
  <2>1. PICK w : /\ mgr' = [mgr EXCEPT ![n] = w]
                 /\ SoundManager(w) /\ w.id = n /\ Backed(w, Reached')
    BY <1>5
  <2>2. \A p \in Node : mgr'[p] = IF p = n THEN w ELSE mgr[p]
    BY <1>0, <2>1
  <2>3. \A p \in Node : /\ SoundManager(mgr[p]) /\ mgr[p].id = p
                        /\ Backed(mgr[p], Reached)
    BY DEF Inv, Sound
  <2>4. \A p \in Node : Backed(mgr[p], Reached')
    BY <1>1, <2>3 DEF Backed
  <2>. QED
    BY <2>1, <2>2, <2>3, <2>4 DEF Sound
<1>9. NetBacked'
  <2>. SUFFICES ASSUME NEW msg \in net'
                PROVE  /\ <<msg.vote.sender, msg.vote.tx>> \in Reached'
                       /\ msg.vote.phase = "Finalized"
                            => msg.vote.tx \in certified'[msg.vote.sender]
    BY DEF NetBacked
  <2>1. msg.vote.sender \in Node /\ msg.vote.tx \in Tx
    BY DEF Message, Vote
  <2>2. CASE msg \in net
    BY <1>1, <1>3, <2>1, <2>2 DEF Inv, NetBacked
  <2>3. CASE msg \notin net
    BY <1>3, <2>1, <2>3
  <2>. QED
    BY <2>2, <2>3
<1>10. AppliedOncePerCopy'
  <2>. SUFFICES ASSUME NEW p \in Node, NEW t \in Tx
                PROVE  applied'[p][t] + (IF t \in pending'[p] THEN 1 ELSE 0) <= heard'[p][t]
    BY DEF AppliedOncePerCopy
  <2>1. applied[p][t] + (IF t \in pending[p] THEN 1 ELSE 0) <= heard[p][t]
    BY DEF Inv, AppliedOncePerCopy
  <2>2. applied[p][t] \in Nat /\ heard[p][t] \in Nat /\ heard'[p][t] \in Nat
        /\ heard[p][t] <= heard'[p][t]
    BY <1>0
  <2>3. PICK k \in SUBSET held :
          /\ pending' = [pending EXCEPT ![n] = k]
          /\ \/ applied'[p][t] = applied[p][t]
             \/ /\ p = n /\ t \in ready \ k
                /\ applied'[p][t] = applied[p][t] + 1
    BY <1>6
  <2>4. CASE p # n
    <3>1. pending'[p] = pending[p]
      BY <1>0, <2>3, <2>4
    <3>. QED
      BY <2>1, <2>2, <2>3, <2>4, <3>1
  <2>5. CASE p = n /\ t \in held
    <3>1. applied[n][t] + 1 <= heard'[n][t]
      BY <2>5
    <3>2. pending'[n] = k
      BY <1>0, <2>3
    <3>. QED
      BY <2>2, <2>3, <2>5, <3>1, <3>2
  <2>6. CASE p = n /\ t \notin held
    <3>1. pending'[n] = k
      BY <1>0, <2>3
    <3>. QED
      BY <2>1, <2>2, <2>3, <2>6, <3>1
  <2>. QED
    BY <2>4, <2>5, <2>6
<1>11. AppliedIsCertified'
  <2>. SUFFICES ASSUME NEW p \in Node, NEW t \in Tx, applied'[p][t] > 0
                PROVE  \E q \in Node : t \in certified'[q]
    BY DEF AppliedIsCertified
  <2>1. CASE applied[p][t] > 0
    BY <1>3, <2>1 DEF Inv, AppliedIsCertified
  <2>2. CASE t \in ready
    <3>1. PICK v \in finals : v.phase = "Finalized" /\ v.tx = t
      BY <2>2
    <3>. QED
      BY <1>3, <3>1
  <2>. HIDE DEF ready
  <2>. QED
    BY <1>6, <2>1, <2>2
<1>. QED
  BY <1>7, <1>8, <1>9, <1>10, <1>11 DEF Inv
----------------------------------------------------------------------------
(* The actions.                                                            *)

\* Every node starts, and starts again, with a sound manager without entries.
LEMMA FreshManager ==
  ASSUME NEW n \in Node, NEW B
  PROVE  SoundManager(Fresh(n)) /\ Fresh(n).id = n /\ Backed(Fresh(n), B)
<1>1. SoundManager(Fresh(n)) /\ Fresh(n).id = n
  BY NewManagerIsSound DEF Fresh
<1>2. \A t \in Tx : Fresh(n).states[t] = NoState
  BY DEF Fresh, NewManager
<1>. QED
  BY <1>1, <1>2 DEF Backed, NoState

\* So it is at first, the nodes that have met included.
LEMMA InitInv == Init => Inv
<1>. SUFFICES ASSUME Init PROVE Inv
  OBVIOUS
<1>1. TypeInv
  BY DEF Init, TypeInv
<1>2. ASSUME NEW n \in Node
      PROVE  SoundManager(mgr[n]) /\ mgr[n].id = n /\ Backed(mgr[n], Reached)
  <2>. DEFINE rep == [p \in Node |-> IF p \in Met THEN InitialRep ELSE 0]
              w == [Fresh(n) EXCEPT !.rep = rep]
  <2>1. mgr[n] = IF n \in Met THEN SelectCommittee(w) ELSE Fresh(n)
    BY DEF Init
  <2>2. CASE n \in Met
    <3>1. /\ SoundManager(Fresh(n)) /\ IsManager(Fresh(n)) /\ Fresh(n).id = n
          /\ Fresh(n).committee = {n}
          /\ \A t \in Tx : Fresh(n).states[t] = NoState
      BY FreshManager DEF SoundManager, Fresh, NewManager
    <3>2. rep \in [Node -> Nat] /\ rep[n] > 0
      BY <2>2, SizeAssumption
    <3>3. \A p \in Node : Fresh(n).rep[p] > 0 => p = n
      BY DEF Fresh, NewManager
    <3>. HIDE DEF rep
    <3>4. IsManager(w) /\ w.states = Fresh(n).states /\ w.committee = {n} /\ w.id = n
          /\ w.rep = rep
      BY <3>1, <3>2 DEF IsManager
    <3>. HIDE DEF w
    <3>5. Known(Fresh(n)) \subseteq Known(w) /\ w.committee \subseteq Known(w)
      BY <3>2, <3>3, <3>4 DEF Known
    <3>6. SoundManager(w)
      BY <3>1, <3>4, <3>5, EntriesKept
    <3>7. SoundManager(SelectCommittee(w)) /\ SelectCommittee(w).id = n
          /\ SelectCommittee(w).states = w.states
      BY <3>4, <3>6, SelectCommitteeIsSound, SelectKeeps
    <3>. QED
      BY <2>1, <2>2, <3>1, <3>4, <3>7 DEF Backed, NoState
  <2>3. CASE n \notin Met
    BY <2>1, <2>3, FreshManager
  <2>. QED
    BY <2>2, <2>3
<1>3. NetBacked /\ AppliedOncePerCopy /\ AppliedIsCertified
  BY DEF Init, NetBacked, AppliedOncePerCopy, AppliedIsCertified
<1>. QED
  BY <1>1, <1>2, <1>3 DEF Inv, Sound

\* The transaction's data arrives.
LEMMA HearTxInv ==
  ASSUME Inv, NEW n \in Node, NEW t \in Tx, HearTx(n, t)
  PROVE  Inv'
<1>1. PICK first \in {MarkValidated(mgr[n], t)} :
        \E c \in {Chain(first.mgr, first.votes)} :
          /\ net' = net \cup SentFirst(n, mgr[n].committee, first.votes)
                        \cup SentToCommittee(n, mgr[n].committee, c.sent)
          /\ Finish(n, c.mgr, pending[n] \cup {t}, c.next)
  BY DEF HearTx
<1>2. PICK c \in {Chain(first.mgr, first.votes)} :
          /\ net' = net \cup SentFirst(n, mgr[n].committee, first.votes)
                        \cup SentToCommittee(n, mgr[n].committee, c.sent)
          /\ Finish(n, c.mgr, pending[n] \cup {t}, c.next)
  BY <1>1
<1>3. /\ SoundManager(mgr[n]) /\ mgr[n].id = n /\ Backed(mgr[n], Reached)
      /\ mgr[n].committee \in SUBSET Node
  BY DEF Inv, Sound, SoundManager, IsManager
<1>4. /\ heard \in [Node -> [Tx -> Nat]] /\ applied \in [Node -> [Tx -> Nat]]
      /\ mail \in [Node -> [Tx -> Nat]] /\ pending \in [Node -> SUBSET Tx]
      /\ net \subseteq Message
  BY DEF Inv, TypeInv
<1>5. /\ heard' \in [Node -> [Tx -> Nat]]
      /\ \A p \in Node, u \in Tx :
           heard'[p][u] = IF p = n /\ u = t THEN heard[p][u] + 1 ELSE heard[p][u]
  <2>1. heard' = [heard EXCEPT ![n][t] = @ + 1]
    BY DEF HearTx
  <2>. QED
    BY <1>4, <2>1
<1>6. mail' \in [Node -> [Tx -> Nat]]
  <2>1. mail[n][t] > 0 /\ mail' = [mail EXCEPT ![n][t] = @ - 1]
    BY DEF HearTx
  <2>2. mail[n][t] - 1 \in Nat
    BY <1>4, <2>1
  <2>. QED
    BY <1>4, <2>1, <2>2
<1>7. \A p \in Node, u \in Tx : heard[p][u] <= heard'[p][u]
  <2>. SUFFICES ASSUME NEW p \in Node, NEW u \in Tx PROVE heard[p][u] <= heard'[p][u]
    OBVIOUS
  <2>1. heard[p][u] \in Nat
    BY <1>4
  <2>. QED
    BY <1>5, <2>1
<1>8. Reached \subseteq Reached'
  BY <1>4, <1>5, <1>7, ReachedGrows
<1>9. <<n, t>> \in Reached'
  BY <1>4, <1>5 DEF Reached
<1>10. /\ SoundManager(first.mgr) /\ first.mgr.id = n
       /\ \A w \in first.votes :
            w \in Vote /\ w.sender = n /\ w.tx = t /\ w.phase = "Prepare"
       /\ \A u \in Tx :
            /\ first.mgr.states[u].validated => mgr[n].states[u].validated \/ u = t
            /\ first.mgr.states[u].prepares \subseteq mgr[n].states[u].prepares
            /\ first.mgr.states[u].commits \subseteq mgr[n].states[u].commits
  <2>. DEFINE m == mgr[n]
  <2>1. SoundManager(m) /\ m.id = n /\ first = MarkValidated(m, t)
    BY <1>1, <1>3
  <2>. HIDE DEF m
  <2>2. /\ SoundManager(first.mgr) /\ first.mgr.id = n
        /\ \A w \in first.votes :
             w \in Vote /\ w.sender = n /\ w.tx = t /\ w.phase = "Prepare"
        /\ \A u \in Tx :
             /\ first.mgr.states[u].validated => m.states[u].validated \/ u = t
             /\ first.mgr.states[u].prepares \subseteq m.states[u].prepares
             /\ first.mgr.states[u].commits \subseteq m.states[u].commits
    BY <2>1, MarkValidatedIsSound, MarkValidatedKeeps
  <2>. QED
    BY <2>2 DEF m
<1>11. Backed(first.mgr, Reached')
  BY <1>3, <1>8, <1>9, <1>10 DEF Backed
<1>12. ChainOK(c, n, Reached', {}) /\ c.next \subseteq c.sent
  <2>1. ChainOK([mgr |-> first.mgr, next |-> first.votes, sent |-> {}], n, Reached', {})
    BY <1>9, <1>10, <1>11 DEF ChainOK
  <2>. QED
    BY <1>2, <2>1, ChainIsOK
<1>13. /\ SoundManager(c.mgr) /\ c.mgr.id = n /\ Backed(c.mgr, Reached')
       /\ \A w \in c.sent :
            /\ w \in Vote /\ w.sender = n /\ <<n, w.tx>> \in Reached'
            /\ w.phase = "Finalized" => c.mgr.states[w.tx].phase = "Finalized"
  BY <1>12 DEF ChainOK
<1>14. /\ net' \subseteq Message
       /\ \A msg \in net' : msg \in net \/ msg.vote \in first.votes \cup c.sent
  <2>1. first.votes \in SUBSET Vote /\ c.sent \in SUBSET Vote
    BY <1>10, <1>13
  <2>2. /\ \A msg \in SentFirst(n, mgr[n].committee, first.votes) :
             msg \in Message /\ msg.vote \in first.votes
        /\ \A msg \in SentToCommittee(n, mgr[n].committee, c.sent) :
             msg \in Message /\ msg.vote \in c.sent
    BY <1>3, <2>1, SentIsMessage
  <2>. QED
    BY <1>2, <1>4, <2>2
<1>15. \A u \in pending[n] \cup {t} : applied[n][u] + 1 <= heard'[n][u]
  <2>. SUFFICES ASSUME NEW u \in Tx, u \in pending[n] \/ u = t
                PROVE  applied[n][u] + 1 <= heard'[n][u]
    BY <1>4
  <2>1. applied[n][u] + (IF u \in pending[n] THEN 1 ELSE 0) <= heard[n][u]
    BY DEF Inv, AppliedOncePerCopy
  <2>2. applied[n][u] \in Nat /\ heard[n][u] \in Nat
    BY <1>4
  <2>3. heard'[n][u] = IF u = t THEN heard[n][u] + 1 ELSE heard[n][u]
    BY <1>5
  <2>. QED
    BY <2>1, <2>2, <2>3
<1>16. \A msg \in net' : \/ msg \in net
                         \/ /\ msg.vote.sender = n /\ <<n, msg.vote.tx>> \in Reached'
                            /\ msg.vote.phase = "Finalized"
                                 => c.mgr.states[msg.vote.tx].phase = "Finalized"
  BY <1>9, <1>10, <1>13, <1>14
<1>17. /\ pending[n] \cup {t} \in SUBSET Tx /\ c.next \in SUBSET Vote
       /\ \A v \in c.next : v.phase = "Finalized" => c.mgr.states[v.tx].phase = "Finalized"
  BY <1>4, <1>12, <1>13
<1>. DEFINE held == pending[n] \cup {t}
            m == c.mgr
            finals == c.next
<1>18. held \in SUBSET Tx /\ finals \in SUBSET Vote /\ Finish(n, m, held, finals)
  BY <1>2, <1>17
<1>. HIDE DEF held, m, finals
<1>19. SoundManager(m) /\ m.id = n /\ Backed(m, Reached')
  BY <1>13 DEF m
<1>20. \A u \in held : applied[n][u] + 1 <= heard'[n][u]
  BY <1>15 DEF held
<1>21. \A v \in finals : v.phase = "Finalized" =>
          \/ m.states[v.tx].phase = "Finalized"
          \/ \E p \in Node : v.tx \in certified[p]
  BY <1>17 DEF m, finals
<1>22. \A msg \in net' : \/ msg \in net
                         \/ /\ msg.vote.sender = n /\ <<n, msg.vote.tx>> \in Reached'
                            /\ msg.vote.phase = "Finalized"
                                 => m.states[msg.vote.tx].phase = "Finalized"
  BY <1>16 DEF m
<1>. QED
  BY <1>5, <1>6, <1>7, <1>14, <1>18, <1>19, <1>20, <1>21, <1>22, HandlerStep
\* A vote sent to this node arrives.
LEMMA HearDirectInv ==
  ASSUME Inv, NEW msg \in net, HearDirect(msg)
  PROVE  Inv'
<1>. DEFINE n == msg.to
<1>1. PICK c \in {Chain(mgr[n], {msg.vote})} :
        /\ net' = net \cup SentToCommittee(n, mgr[n].committee, c.sent)
        /\ Finish(n, c.mgr, pending[n], c.next)
  BY DEF HearDirect
<1>2. /\ mail' = mail /\ heard' = heard
      /\ heard \in [Node -> [Tx -> Nat]] /\ applied \in [Node -> [Tx -> Nat]]
      /\ mail \in [Node -> [Tx -> Nat]] /\ pending \in [Node -> SUBSET Tx]
      /\ net \subseteq Message
  BY DEF HearDirect, Inv, TypeInv
<1>3. n \in Node /\ msg.vote \in Vote /\ <<msg.vote.sender, msg.vote.tx>> \in Reached
  BY <1>2 DEF Message, Inv, NetBacked
<1>. HIDE DEF n
<1>4. /\ SoundManager(mgr[n]) /\ mgr[n].id = n /\ Backed(mgr[n], Reached)
      /\ mgr[n].committee \in SUBSET Node
  BY <1>3 DEF Inv, Sound, SoundManager, IsManager
<1>5. Reached' = Reached
  BY <1>2 DEF Reached
<1>6. ChainOK(c, n, Reached, {}) /\ c.next \subseteq c.sent
  <2>1. ChainOK([mgr |-> mgr[n], next |-> {msg.vote}, sent |-> {}], n, Reached, {})
    BY <1>3, <1>4 DEF ChainOK
  <2>. QED
    BY <1>1, <2>1, ChainIsOK
<1>7. /\ SoundManager(c.mgr) /\ c.mgr.id = n /\ Backed(c.mgr, Reached)
      /\ \A w \in c.sent :
           /\ w \in Vote /\ w.sender = n /\ <<n, w.tx>> \in Reached
           /\ w.phase = "Finalized" => c.mgr.states[w.tx].phase = "Finalized"
  BY <1>6 DEF ChainOK
<1>8. /\ net' \subseteq Message
      /\ \A x \in net' : x \in net \/ x.vote \in c.sent
  <2>1. c.sent \in SUBSET Vote
    BY <1>7
  <2>2. \A x \in SentToCommittee(n, mgr[n].committee, c.sent) :
          x \in Message /\ x.vote \in c.sent
    BY <1>3, <1>4, <2>1, SentIsMessage
  <2>. QED
    BY <1>1, <1>2, <2>2
<1>. DEFINE held == pending[n]
            m == c.mgr
            finals == c.next
<1>9. held \in SUBSET Tx /\ finals \in SUBSET Vote /\ Finish(n, m, held, finals)
  BY <1>1, <1>2, <1>3, <1>6, <1>7
<1>10. \A u \in held : applied[n][u] + 1 <= heard'[n][u]
  <2>. SUFFICES ASSUME NEW u \in Tx, u \in pending[n]
                PROVE  applied[n][u] + 1 <= heard[n][u]
    BY <1>2, <1>9
  <2>. QED
    BY <1>3 DEF Inv, AppliedOncePerCopy
<1>11. \A v \in finals : v.phase = "Finalized" =>
          \/ m.states[v.tx].phase = "Finalized"
          \/ \E p \in Node : v.tx \in certified[p]
  BY <1>6, <1>7
<1>12. \A x \in net' : \/ x \in net
                       \/ /\ x.vote.sender = n /\ <<n, x.vote.tx>> \in Reached'
                          /\ x.vote.phase = "Finalized"
                               => m.states[x.vote.tx].phase = "Finalized"
  BY <1>5, <1>7, <1>8
<1>13. SoundManager(m) /\ m.id = n /\ Backed(m, Reached')
  BY <1>5, <1>7
<1>14. /\ heard' \in [Node -> [Tx -> Nat]] /\ mail' \in [Node -> [Tx -> Nat]]
       /\ \A p \in Node, t \in Tx : heard[p][t] <= heard'[p][t]
  <2>1. \A p \in Node, t \in Tx : heard[p][t] \in Nat
    BY <1>2
  <2>. QED
    BY <1>2, <2>1
<1>. HIDE DEF held, m, finals
<1>. QED
  BY <1>3, <1>8, <1>9, <1>10, <1>11, <1>12, <1>13, <1>14, HandlerStep

\* A gossiped vote arrives; the node answers, and hears its own answers.
LEMMA HearGossipInv ==
  ASSUME Inv, NEW msg \in net, HearGossip(msg)
  PROVE  Inv'
<1>. DEFINE n == msg.to
<1>1. PICK first \in {HandleMessage(mgr[n], msg.vote)} :
        \E c \in {Chain(first.mgr, first.votes)} :
          /\ net' = net \cup SentFirst(n, mgr[n].committee, first.votes)
                        \cup SentToCommittee(n, mgr[n].committee, c.sent)
          /\ Finish(n, c.mgr, pending[n], {msg.vote} \cup c.next)
  BY DEF HearGossip
<1>2. PICK c \in {Chain(first.mgr, first.votes)} :
        /\ net' = net \cup SentFirst(n, mgr[n].committee, first.votes)
                      \cup SentToCommittee(n, mgr[n].committee, c.sent)
        /\ Finish(n, c.mgr, pending[n], {msg.vote} \cup c.next)
  BY <1>1
<1>3. /\ mail' = mail /\ heard' = heard
      /\ heard \in [Node -> [Tx -> Nat]] /\ applied \in [Node -> [Tx -> Nat]]
      /\ mail \in [Node -> [Tx -> Nat]] /\ pending \in [Node -> SUBSET Tx]
      /\ net \subseteq Message
  BY DEF HearGossip, Inv, TypeInv
<1>4. /\ n \in Node /\ msg.vote \in Vote /\ <<msg.vote.sender, msg.vote.tx>> \in Reached
      /\ msg.vote.sender \in Node /\ msg.vote.tx \in Tx
      /\ msg.vote.phase = "Finalized" => msg.vote.tx \in certified[msg.vote.sender]
  BY <1>3 DEF Message, Vote, Inv, NetBacked
<1>. HIDE DEF n
<1>5. /\ SoundManager(mgr[n]) /\ mgr[n].id = n /\ Backed(mgr[n], Reached)
      /\ mgr[n].committee \in SUBSET Node
  BY <1>4 DEF Inv, Sound, SoundManager, IsManager
<1>6. Reached' = Reached
  BY <1>3 DEF Reached
<1>7. /\ SoundManager(first.mgr) /\ first.mgr.id = n
      /\ Keeps(mgr[n], msg.vote, first)
  BY <1>1, <1>4, <1>5, HandleMessageIsSound, HandleMessageKeeps
<1>8. Backed(first.mgr, Reached)
  BY <1>4, <1>5, <1>7 DEF Backed, Keeps
<1>9. \A w \in first.votes :
        /\ w \in Vote /\ w.sender = n /\ w.tx = msg.vote.tx /\ <<n, w.tx>> \in Reached
        /\ w.phase = first.mgr.states[w.tx].phase
  BY <1>4, <1>5, <1>7, <1>8 DEF Backed, Keeps
<1>. DEFINE F == {t \in Tx : \E w \in first.votes : w.tx = t /\ w.phase = "Finalized"}
<1>10. ChainOK(c, n, Reached, F) /\ c.next \subseteq c.sent
  <2>1. \A t \in F : t \in Tx /\ first.mgr.states[t].phase = "Finalized"
    BY <1>9
  <2>2. first.mgr.due = FALSE
    BY <1>7 DEF Keeps
  <2>. HIDE DEF F
  <2>3. ChainOK([mgr |-> first.mgr, next |-> first.votes, sent |-> {}], n, Reached, F)
    BY <1>7, <1>8, <1>9, <2>1, <2>2 DEF ChainOK
  <2>. QED
    BY <1>2, <2>3, ChainIsOK
<1>11. /\ SoundManager(c.mgr) /\ c.mgr.id = n /\ Backed(c.mgr, Reached)
       /\ \A w \in c.sent :
            /\ w \in Vote /\ w.sender = n /\ <<n, w.tx>> \in Reached
            /\ w.phase = "Finalized" => c.mgr.states[w.tx].phase = "Finalized"
       /\ \A t \in F : c.mgr.states[t].phase = "Finalized"
  BY <1>10 DEF ChainOK
<1>12. \A w \in first.votes : w.phase = "Finalized" => c.mgr.states[w.tx].phase = "Finalized"
  BY <1>4, <1>9, <1>11
<1>. HIDE DEF F
<1>13. /\ net' \subseteq Message
       /\ \A x \in net' : x \in net \/ x.vote \in first.votes \cup c.sent
  <2>1. first.votes \in SUBSET Vote /\ c.sent \in SUBSET Vote
    BY <1>9, <1>11
  <2>2. /\ \A x \in SentFirst(n, mgr[n].committee, first.votes) :
             x \in Message /\ x.vote \in first.votes
        /\ \A x \in SentToCommittee(n, mgr[n].committee, c.sent) :
             x \in Message /\ x.vote \in c.sent
    BY <1>4, <1>5, <2>1, SentIsMessage
  <2>. QED
    BY <1>2, <1>3, <2>2
<1>. DEFINE held == pending[n]
            m == c.mgr
            finals == {msg.vote} \cup c.next
<1>14. held \in SUBSET Tx /\ finals \in SUBSET Vote /\ Finish(n, m, held, finals)
  BY <1>2, <1>3, <1>4, <1>10, <1>11
<1>15. \A u \in held : applied[n][u] + 1 <= heard'[n][u]
  <2>. SUFFICES ASSUME NEW u \in Tx, u \in pending[n]
                PROVE  applied[n][u] + 1 <= heard[n][u]
    BY <1>3, <1>14
  <2>. QED
    BY <1>4 DEF Inv, AppliedOncePerCopy
<1>16. \A v \in finals : v.phase = "Finalized" =>
          \/ m.states[v.tx].phase = "Finalized"
          \/ \E p \in Node : v.tx \in certified[p]
  BY <1>4, <1>10, <1>11
<1>17. \A x \in net' : \/ x \in net
                       \/ /\ x.vote.sender = n /\ <<n, x.vote.tx>> \in Reached'
                          /\ x.vote.phase = "Finalized"
                               => m.states[x.vote.tx].phase = "Finalized"
  BY <1>6, <1>9, <1>11, <1>12, <1>13
<1>18. SoundManager(m) /\ m.id = n /\ Backed(m, Reached')
  BY <1>6, <1>11
<1>19. /\ heard' \in [Node -> [Tx -> Nat]] /\ mail' \in [Node -> [Tx -> Nat]]
       /\ \A p \in Node, t \in Tx : heard[p][t] <= heard'[p][t]
  <2>1. \A p \in Node, t \in Tx : heard[p][t] \in Nat
    BY <1>3
  <2>. QED
    BY <1>3, <2>1
<1>. HIDE DEF held, m, finals
<1>. QED
  BY <1>4, <1>13, <1>14, <1>15, <1>16, <1>17, <1>18, <1>19, HandlerStep

\* What a node announces of itself is a positive reputation.
LEMMA OwnRepType ==
  ASSUME Inv, NEW p \in Node
  PROVE  OwnRep(p) \in Nat \ {0}
<1>1. mgr[p].rep[p] \in Nat
  BY DEF Inv, Sound, SoundManager, IsManager
<1>. QED
  BY <1>1, SizeAssumption DEF OwnRep

\* Every action, and every step that changes nothing, keeps the invariant.
LEMMA NextInv == Inv /\ [Next]_vars => Inv'
<1>. SUFFICES ASSUME Inv, [Next]_vars PROVE Inv'
  OBVIOUS
<1>0. /\ \A n \in Node : SoundManager(mgr[n]) /\ mgr[n].id = n /\ Backed(mgr[n], Reached)
      /\ mgr = [n \in Node |-> mgr[n]]
      /\ pending \in [Node -> SUBSET Tx]
  BY DEF Inv, Sound, TypeInv
<1>1. ASSUME NEW n \in Client, NEW t \in Tx, Submit(n, t) PROVE Inv'
  <2>1. UNCHANGED <<mgr, pending, net, heard, applied, certified>>
    BY <1>1 DEF Submit, local, history
  <2>2. mail' \in [Node -> [Tx -> Nat]]
    <3>1. mail' = [p \in Node |-> [mail[p] EXCEPT ![t] = IF p = n THEN @ ELSE @ + 1]]
      BY <1>1 DEF Submit
    <3>2. ASSUME NEW p \in Node
          PROVE  [mail[p] EXCEPT ![t] = IF p = n THEN @ ELSE @ + 1] \in [Tx -> Nat]
      <4>1. mail[p] \in [Tx -> Nat] /\ mail[p][t] \in Nat
        BY DEF Inv, TypeInv
      <4>2. (IF p = n THEN mail[p][t] ELSE mail[p][t] + 1) \in Nat
        BY <4>1
      <4>. QED
        BY <4>1, <4>2
    <3>. QED
      BY <3>1, <3>2
  <2>3. TypeInv'
    BY <2>1, <2>2 DEF Inv, TypeInv
  <2>4. Reached' = Reached
    BY <2>1 DEF Reached
  <2>. QED
    BY <2>1, <2>3, <2>4
       DEF Inv, Sound, NetBacked, AppliedOncePerCopy, AppliedIsCertified
<1>2. ASSUME NEW n \in Node, NEW t \in Tx, HearTx(n, t) PROVE Inv'
  BY <1>2, HearTxInv
<1>3. ASSUME NEW msg \in net, HearDirect(msg) PROVE Inv'
  BY <1>3, HearDirectInv
<1>4. ASSUME NEW msg \in net, HearGossip(msg) PROVE Inv'
  BY <1>4, HearGossipInv
<1>5. ASSUME NEW n \in Node, NEW p \in Node, HearPeer(n, p) PROVE Inv'
  <2>1. PICK r : r = OwnRep(p)
    OBVIOUS
  <2>2. r \in Nat \ {0}
    BY <2>1, OwnRepType
  <2>. DEFINE m == mgr[n]
              w == HearAnnounce(m, p, r)
  <2>3. SoundManager(m) /\ m.id = n /\ Backed(m, Reached)
    BY <1>0
  <2>4. mgr' = [mgr EXCEPT ![n] = w]
    BY <1>5, <2>1 DEF HearPeer
  <2>. HIDE DEF m
  <2>5. SoundManager(w) /\ w.id = n
    BY <2>2, <2>3, LearnIsSound, SelectCommitteeIsSound DEF HearAnnounce
  <2>6. Backed(w, Reached)
    <3>1. CASE Tx = {}
      BY <3>1 DEF Backed
    <3>2. CASE Tx # {}
      BY <2>2, <2>3, <3>2, OtherMethodsKeep
    <3>. QED
      BY <3>1, <3>2
  <2>7. UNCHANGED <<pending, net, mail, heard, applied, certified>>
    BY <1>5 DEF HearPeer, history
  <2>. HIDE DEF w
  <2>. QED
    BY <1>0, <2>4, <2>5, <2>6, <2>7, ManagerStep
<1>6. ASSUME NEW n \in Node, EpochTick(n) PROVE Inv'
  <2>. DEFINE m == mgr[n]
              x == RotateEpoch(m)
              w == CleanupFinalizedStates(x, KeepEpochs)
  <2>1. SoundManager(m) /\ m.id = n /\ Backed(m, Reached)
    BY <1>0
  <2>2. mgr' = [mgr EXCEPT ![n] = w]
    BY <1>6 DEF EpochTick
  <2>. HIDE DEF m
  <2>3. Backed(w, Reached)
    <3>1. CASE Tx = {}
      BY <3>1 DEF Backed
    <3>2. CASE Tx # {}
      BY <2>1, <3>2, 1 \in Nat \ {0}, OtherMethodsKeep
    <3>. QED
      BY <3>1, <3>2
  <2>4. SoundManager(x) /\ x.id = n
    BY <2>1, RotateEpochIsSound
  <2>. HIDE DEF x
  <2>5. SoundManager(w) /\ w.id = n
    BY <2>4, CleanupFinalizedIsSound
  <2>6. UNCHANGED <<pending, net, mail, heard, applied, certified>>
    BY <1>6 DEF EpochTick, history
  <2>. HIDE DEF w
  <2>. QED
    BY <1>0, <2>2, <2>3, <2>5, <2>6, ManagerStep
<1>7. ASSUME NEW n \in Node, EpochExpires(n) PROVE Inv'
  <2>. DEFINE m == mgr[n]
              w == [m EXCEPT !.due = TRUE]
  <2>1. SoundManager(m) /\ m.id = n /\ Backed(m, Reached)
    BY <1>0
  <2>2. mgr' = [mgr EXCEPT ![n] = w]
    BY <1>0, <1>7 DEF EpochExpires
  <2>. HIDE DEF m
  <2>3. Backed(w, Reached)
    <3>1. CASE Tx = {}
      BY <3>1 DEF Backed
    <3>2. CASE Tx # {}
      BY <2>1, <3>2, 1 \in Nat \ {0}, OtherMethodsKeep
    <3>. QED
      BY <3>1, <3>2
  <2>4. SoundManager(w) /\ w.id = n
    BY <2>1, ClocksAreSound
  <2>5. UNCHANGED <<pending, net, mail, heard, applied, certified>>
    BY <1>7 DEF EpochExpires, history
  <2>. HIDE DEF w
  <2>. QED
    BY <1>0, <2>2, <2>3, <2>4, <2>5, ManagerStep
<1>8. ASSUME NEW n \in Node, NEW t \in Tx, TxExpires(n, t) PROVE Inv'
  <2>. DEFINE m == mgr[n]
              w == [m EXCEPT !.states[t].timedOut = TRUE]
  <2>1. SoundManager(m) /\ m.id = n /\ Backed(m, Reached)
    BY <1>0
  <2>2. mgr' = [mgr EXCEPT ![n] = w]
    BY <1>0, <1>8 DEF TxExpires
  <2>. HIDE DEF m
  <2>3. SoundManager(w) /\ w.id = n /\ Backed(w, Reached)
    BY <2>1, 1 \in Nat \ {0}, ClocksAreSound, OtherMethodsKeep
  <2>4. UNCHANGED <<pending, net, mail, heard, applied, certified>>
    BY <1>8 DEF TxExpires, history
  <2>. HIDE DEF w
  <2>. QED
    BY <1>0, <2>2, <2>3, <2>4, ManagerStep
<1>9. ASSUME NEW n \in Node, Restart(n) PROVE Inv'
  <2>. DEFINE w == Fresh(n)
  <2>1. SoundManager(w) /\ w.id = n /\ Backed(w, Reached)
    BY FreshManager
  <2>2. /\ mgr' = [mgr EXCEPT ![n] = w] /\ pending' = [pending EXCEPT ![n] = {}]
        /\ UNCHANGED <<net, mail, heard, applied, certified>>
    BY <1>9 DEF Restart, history
  <2>3. pending' \in [Node -> SUBSET Tx] /\ \A p \in Node : pending'[p] \subseteq pending[p]
    BY <1>0, <2>2
  <2>. HIDE DEF w
  <2>. QED
    BY <2>1, <2>2, <2>3, ManagerStep
<1>10. CASE UNCHANGED vars
  BY <1>10 DEF vars, local, history, Inv, TypeInv, Sound, Reached, NetBacked,
               AppliedOncePerCopy, AppliedIsCertified
<1>. QED
  BY <1>1, <1>2, <1>3, <1>4, <1>5, <1>6, <1>7, <1>8, <1>9, <1>10 DEF Next

\* So the invariant holds throughout.
LEMMA Invariance == Spec => []Inv
BY InitInv, NextInv, PTL DEF Spec

\* On every node of every network, whatever is lost, repeated or late and
\* whichever nodes restart: an entry past a round of votes holds a quorum of
\* that round and was validated by its node.
THEOREM NodesAreCertifiedHolds == Spec => []NodesAreCertified
<1>1. Inv => NodesAreCertified
  BY DEF Inv, Sound, SoundManager, SoundState, NodesAreCertified
<1>. QED
  BY <1>1, Invariance, PTL

\* No vote is counted, anywhere, of a node the transaction's data has not
\* reached.
THEOREM VotesAreBackedHolds == Spec => []VotesAreBacked
<1>1. Inv => VotesAreBacked
  <2>. SUFFICES ASSUME Inv, NEW n \in Node, NEW p \in Node, NEW t \in Tx,
                       p \in mgr[n].states[t].prepares \cup mgr[n].states[t].commits
                PROVE  heard[p][t] > 0
    BY DEF VotesAreBacked
  <2>1. <<p, t>> \in Reached
    BY DEF Inv, Sound, Backed
  <2>. QED
    BY <2>1 DEF Reached
<1>. QED
  BY <1>1, Invariance, PTL

\* A copy of the data delivered to a node is executed there once at most.
THEOREM AppliedOncePerCopyHolds == Spec => []AppliedOncePerCopy
<1>1. Inv => AppliedOncePerCopy
  BY DEF Inv
<1>. QED
  BY <1>1, Invariance, PTL

\* Nothing is executed that no node has finalized.
THEOREM AppliedIsCertifiedHolds == Spec => []AppliedIsCertified
<1>1. Inv => AppliedIsCertified
  BY DEF Inv
<1>. QED
  BY <1>1, Invariance, PTL

----------------------------------------------------------------------------
(* What a step can make of a manager, and the rest of the types.           *)

\* What the manager of a node is when a handler that delivers votes to it is
\* done, before an execution settles an entry.
Handled(m, w) ==
  \/ \E t \in Tx : w = Chain(MarkValidated(m, t).mgr, MarkValidated(m, t).votes).mgr
  \/ \E v \in Vote : w = Chain(m, {v}).mgr
  \/ \E v \in Vote : w = Chain(HandleMessage(m, v).mgr, HandleMessage(m, v).votes).mgr

\* What one step of the network makes of a manager m that stays in office ...
Works(m, w) ==
  \/ w = m
  \/ Handled(m, w)
  \/ \E x : Handled(m, x) /\ \E t \in Tx : w = Settled(x, t)
  \/ \E p \in Node, r \in Nat \ {0} : w = HearAnnounce(m, p, r)
  \/ w = CleanupFinalizedStates(RotateEpoch(m), KeepEpochs)
  \/ w = [m EXCEPT !.due = TRUE]
  \/ \E t \in Tx : w = [m EXCEPT !.states[t].timedOut = TRUE]

\* ... and of the manager of n, which may restart.
MayBecome(n, m, w) == Works(m, w) \/ w = Fresh(n)

\* The end of a handler of n leaves the manager it was given, or settles an
\* entry of it, and touches no other manager.
LEMMA FinishMoves ==
  ASSUME Inv, NEW n \in Node, NEW w, NEW held \in SUBSET Tx, NEW finals,
         Finish(n, w, held, finals), Handled(mgr[n], w), NEW p \in Node
  PROVE  Works(mgr[p], mgr'[p])
<1>1. mgr = [q \in Node |-> mgr[q]]
  BY DEF Inv, TypeInv
<1>2. \/ mgr' = [mgr EXCEPT ![n] = w]
      \/ \E t \in Tx : mgr' = [mgr EXCEPT ![n] = Settled(w, t)]
  BY DEF Finish, Outcomes
<1>3. CASE p # n
  <2>1. mgr'[p] = mgr[p]
    BY <1>1, <1>2, <1>3
  <2>. QED
    BY <2>1 DEF Works
<1>4. CASE p = n /\ mgr' = [mgr EXCEPT ![n] = w]
  <2>1. mgr'[n] = w
    BY <1>1, <1>4
  <2>. QED
    BY <1>4, <2>1 DEF Works
<1>5. CASE p = n /\ \E t \in Tx : mgr' = [mgr EXCEPT ![n] = Settled(w, t)]
  <2>1. PICK t \in Tx : mgr' = [mgr EXCEPT ![n] = Settled(w, t)]
    BY <1>5
  <2>2. mgr'[n] = Settled(w, t)
    BY <1>1, <2>1
  <2>. QED
    BY <1>5, <2>2 DEF Works
<1>. QED
  BY <1>2, <1>3, <1>4, <1>5

\* Every step does to every manager one of these things.
LEMMA NextMoves ==
  ASSUME Inv, [Next]_vars, NEW p \in Node
  PROVE  \/ Works(mgr[p], mgr'[p])
         \/ restarts' = restarts + 1 /\ mgr'[p] = Fresh(p)
<1>0. /\ mgr = [q \in Node |-> mgr[q]] /\ pending \in [Node -> SUBSET Tx]
      /\ net \subseteq Message
  BY DEF Inv, TypeInv
<1>1. ASSUME NEW n \in Client, NEW t \in Tx, Submit(n, t)
      PROVE  Works(mgr[p], mgr'[p])
  BY <1>1 DEF Submit, local, Works
<1>2. ASSUME NEW n \in Node, NEW t \in Tx, HearTx(n, t)
      PROVE  Works(mgr[p], mgr'[p])
  <2>. DEFINE first == MarkValidated(mgr[n], t)
              w == Chain(first.mgr, first.votes)
              held == pending[n] \cup {t}
  <2>1. Finish(n, w.mgr, held, w.next) /\ held \in SUBSET Tx
    BY <1>0, <1>2 DEF HearTx
  <2>2. Handled(mgr[n], w.mgr)
    BY DEF Handled
  <2>. HIDE DEF w, held
  <2>. QED
    BY <2>1, <2>2, FinishMoves
<1>3. ASSUME NEW msg \in net, HearDirect(msg)
      PROVE  Works(mgr[p], mgr'[p])
  <2>. DEFINE n == msg.to
              w == Chain(mgr[n], {msg.vote})
              held == pending[n]
  <2>0. n \in Node /\ msg.vote \in Vote
    BY <1>0 DEF Message
  <2>1. Finish(n, w.mgr, held, w.next) /\ held \in SUBSET Tx
    BY <1>0, <1>3, <2>0 DEF HearDirect
  <2>2. Handled(mgr[n], w.mgr)
    BY <2>0 DEF Handled
  <2>. HIDE DEF n, w, held
  <2>. QED
    BY <2>0, <2>1, <2>2, FinishMoves
<1>4. ASSUME NEW msg \in net, HearGossip(msg)
      PROVE  Works(mgr[p], mgr'[p])
  <2>. DEFINE n == msg.to
              first == HandleMessage(mgr[n], msg.vote)
              w == Chain(first.mgr, first.votes)
              held == pending[n]
              finals == {msg.vote} \cup w.next
  <2>0. n \in Node /\ msg.vote \in Vote
    BY <1>0 DEF Message
  <2>1. Finish(n, w.mgr, held, finals) /\ held \in SUBSET Tx
    BY <1>0, <1>4, <2>0 DEF HearGossip
  <2>2. Handled(mgr[n], w.mgr)
    BY <2>0 DEF Handled
  <2>. HIDE DEF n, w, held, finals
  <2>. QED
    BY <2>0, <2>1, <2>2, FinishMoves
<1>5. ASSUME NEW n \in Node, NEW q \in Node, HearPeer(n, q)
      PROVE  Works(mgr[p], mgr'[p])
  <2>1. PICK r : r = OwnRep(q)
    OBVIOUS
  <2>2. r \in Nat \ {0}
    BY <2>1, OwnRepType
  <2>3. mgr' = [mgr EXCEPT ![n] = HearAnnounce(mgr[n], q, r)]
    BY <1>5, <2>1 DEF HearPeer
  <2>4. mgr'[p] = mgr[p] \/ mgr'[p] = HearAnnounce(mgr[p], q, r)
    BY <1>0, <2>3
  <2>. QED
    BY <2>2, <2>4 DEF Works
<1>6. ASSUME NEW n \in Node, EpochTick(n)
      PROVE  Works(mgr[p], mgr'[p])
  <2>1. \/ mgr'[p] = mgr[p]
        \/ mgr'[p] = CleanupFinalizedStates(RotateEpoch(mgr[p]), KeepEpochs)
    BY <1>0, <1>6 DEF EpochTick
  <2>. QED
    BY <2>1 DEF Works
<1>7. ASSUME NEW n \in Node, EpochExpires(n)
      PROVE  Works(mgr[p], mgr'[p])
  <2>1. mgr'[p] = mgr[p] \/ mgr'[p] = [mgr[p] EXCEPT !.due = TRUE]
    BY <1>0, <1>7 DEF EpochExpires
  <2>. QED
    BY <2>1 DEF Works
<1>8. ASSUME NEW n \in Node, NEW t \in Tx, TxExpires(n, t)
      PROVE  Works(mgr[p], mgr'[p])
  <2>1. mgr'[p] = mgr[p] \/ mgr'[p] = [mgr[p] EXCEPT !.states[t].timedOut = TRUE]
    BY <1>0, <1>8 DEF TxExpires
  <2>. QED
    BY <2>1 DEF Works
<1>9. ASSUME NEW n \in Node, Restart(n)
      PROVE  \/ Works(mgr[p], mgr'[p])
             \/ restarts' = restarts + 1 /\ mgr'[p] = Fresh(p)
  <2>1. restarts' = restarts + 1 /\ (mgr'[p] = mgr[p] \/ mgr'[p] = Fresh(p))
    BY <1>0, <1>9 DEF Restart
  <2>. QED
    BY <2>1 DEF Works
<1>10. CASE UNCHANGED vars
  BY <1>10 DEF vars, local, Works
<1>. QED
  BY <1>1, <1>2, <1>3, <1>4, <1>5, <1>6, <1>7, <1>8, <1>9, <1>10 DEF Next

\* Self-delivery asks a manager to hear votes, one after the other.
Listens(c) == SoundManager(c.mgr) /\ c.next \subseteq Vote

LEMMA RoundListens ==
  ASSUME NEW c, Listens(c)
  PROVE  /\ Listens(Round(c))
         /\ Archives(c.mgr) => Archives(Round(c).mgr)
<1>1. CASE c.next = {}
  BY <1>1 DEF Round
<1>2. CASE c.next # {}
  <2>. DEFINE m == c.mgr
              v == CHOOSE x \in c.next : TRUE
              h == HandleMessage(m, v)
  <2>1. SoundManager(m) /\ v \in Vote
    BY <1>2 DEF Listens
  <2>2. Round(c) = [mgr |-> h.mgr, next |-> h.votes, sent |-> c.sent \cup h.votes]
    BY <1>2 DEF Round
  <2>. HIDE DEF m, v
  <2>3. SoundManager(h.mgr) /\ Aside(m, h.mgr) /\ h.votes \subseteq Vote
    BY <2>1, HandleMessageIsSound, HandleMessageAside, HandleMessageKeeps DEF Keeps
  <2>. HIDE DEF h
  <2>4. Archives(m) => Archives(h.mgr)
    BY <2>3, AsideArchives
  <2>. QED
    BY <2>2, <2>3, <2>4 DEF Listens, m
<1>. QED
  BY <1>1, <1>2

LEMMA ChainListens ==
  ASSUME NEW m, SoundManager(m), NEW votes \in SUBSET Vote
  PROVE  /\ SoundManager(Chain(m, votes).mgr)
         /\ Archives(m) => Archives(Chain(m, votes).mgr)
<1>. DEFINE c == [mgr |-> m, next |-> votes, sent |-> {}]
            d == Round(c)
            e == Round(d)
<1>1. Listens(c) /\ c.mgr = m
  BY DEF Listens
<1>. HIDE DEF c
<1>2. Listens(d) /\ (Archives(m) => Archives(d.mgr))
  BY <1>1, RoundListens
<1>. HIDE DEF d
<1>3. Listens(e) /\ (Archives(m) => Archives(e.mgr))
  BY <1>2, RoundListens
<1>. HIDE DEF e
<1>4. Listens(Round(e)) /\ (Archives(m) => Archives(Round(e).mgr))
  BY <1>3, RoundListens
<1>. QED
  BY <1>4 DEF Listens, Chain, c, d, e

\* So what a handler leaves is a sound manager, whose archive is a log.
LEMMA HandledIsSound ==
  ASSUME NEW m, SoundManager(m), NEW w, Handled(m, w)
  PROVE  SoundManager(w) /\ (Archives(m) => Archives(w))
<1>1. ASSUME NEW t \in Tx, w = Chain(MarkValidated(m, t).mgr, MarkValidated(m, t).votes).mgr
      PROVE  SoundManager(w) /\ (Archives(m) => Archives(w))
  <2>. DEFINE h == MarkValidated(m, t)
  <2>1. SoundManager(h.mgr) /\ Aside(m, h.mgr) /\ h.votes \in SUBSET Vote
    BY MarkValidatedIsSound, MarkValidatedAside, MarkValidatedKeeps
  <2>2. w = Chain(h.mgr, h.votes).mgr
    BY <1>1
  <2>. HIDE DEF h
  <2>. QED
    BY <2>1, <2>2, AsideArchives, ChainListens
<1>2. ASSUME NEW v \in Vote, w = Chain(m, {v}).mgr
      PROVE  SoundManager(w) /\ (Archives(m) => Archives(w))
  BY <1>2, {v} \in SUBSET Vote, ChainListens
<1>3. ASSUME NEW v \in Vote, w = Chain(HandleMessage(m, v).mgr, HandleMessage(m, v).votes).mgr
      PROVE  SoundManager(w) /\ (Archives(m) => Archives(w))
  <2>. DEFINE h == HandleMessage(m, v)
  <2>1. SoundManager(h.mgr) /\ Aside(m, h.mgr) /\ h.votes \in SUBSET Vote
    BY HandleMessageIsSound, HandleMessageAside, HandleMessageKeeps DEF Keeps
  <2>2. w = Chain(h.mgr, h.votes).mgr
    BY <1>3
  <2>. HIDE DEF h
  <2>. QED
    BY <2>1, <2>2, AsideArchives, ChainListens
<1>. QED
  BY <1>1, <1>2, <1>3 DEF Handled

\* A node starts, and starts again, with an empty archive.
LEMMA FreshArchives ==
  ASSUME NEW n \in Node
  PROVE  Archives(Fresh(n))
<1>1. Fresh(n).archive = <<>> /\ Fresh(n).epoch = 0
  BY DEF Fresh, NewManager
<1>. QED
  BY <1>1, SizeAssumption DEF Archives, Log

\* No step of the network makes an archive anything but a log.
LEMMA MovesArchive ==
  ASSUME NEW n \in Node, NEW m, SoundManager(m), Archives(m), NEW w, MayBecome(n, m, w)
  PROVE  Archives(w)
<1>1. CASE Handled(m, w)
  BY <1>1, HandledIsSound
<1>2. ASSUME NEW x, NEW t \in Tx, Handled(m, x), w = Settled(x, t)
      PROVE  Archives(w)
  <2>1. SoundManager(x) /\ IsManager(x) /\ Archives(x)
    BY <1>2, HandledIsSound DEF SoundManager
  <2>2. Archives(DropState(x, t)) /\ Archives(ArchiveFinalizedState(x, t))
    BY <2>1, OthersAside, AsideArchives, ArchiveFinalizedArchives
  <2>3. w \in {x, DropState(x, t), ArchiveFinalizedState(x, t)}
    BY <1>2 DEF Settled
  <2>. QED
    BY <2>1, <2>2, <2>3
<1>3. ASSUME NEW p \in Node, NEW r \in Nat \ {0}, w = HearAnnounce(m, p, r)
      PROVE  Archives(w)
  BY <1>3, OthersAside, AsideArchives
<1>4. CASE w = CleanupFinalizedStates(RotateEpoch(m), KeepEpochs)
  <2>. DEFINE x == RotateEpoch(m)
  <2>1. SoundManager(x) /\ IsManager(x) /\ Aside(m, x)
    BY RotateEpochIsSound, PartsAside DEF SoundManager, Aside
  <2>2. w = CleanupFinalizedStates(x, KeepEpochs) /\ KeepEpochs \in Nat
    BY <1>4, SizeAssumption
  <2>. HIDE DEF x
  <2>. QED
    BY <2>1, <2>2, AsideArchives, CleanupFinalizedArchives
<1>5. CASE w = [m EXCEPT !.due = TRUE]
  BY <1>5, OthersAside, AsideArchives
<1>6. ASSUME NEW t \in Tx, w = [m EXCEPT !.states[t].timedOut = TRUE]
      PROVE  Archives(w)
  BY <1>6, OthersAside, AsideArchives
<1>7. CASE w = Fresh(n)
  BY <1>7, FreshArchives
<1>. QED
  BY <1>1, <1>2, <1>3, <1>4, <1>5, <1>6, <1>7 DEF MayBecome, Works

\* The bounds of the model, and the archives.  Of the copies of a transaction's
\* data that were broadcast, one at most is on its way to, or was delivered to,
\* each node.
BoundInv ==
  /\ \A n \in Node : Archives(mgr[n])
  /\ peers \in [Node -> SUBSET Node]
  /\ submits \in [Tx -> 0..MaxSubmits]
  /\ restarts \in 0..MaxRestarts
  /\ \A n \in Node, t \in Tx : mail[n][t] + heard[n][t] <= submits[t]

LEMMA InitBounds == Init => BoundInv
<1>. SUFFICES ASSUME Init PROVE BoundInv
  OBVIOUS
<1>1. ASSUME NEW n \in Node PROVE Archives(mgr[n])
  <2>. DEFINE rep == [p \in Node |-> IF p \in Met THEN InitialRep ELSE 0]
              w == [Fresh(n) EXCEPT !.rep = rep]
  <2>1. mgr[n] = IF n \in Met THEN SelectCommittee(w) ELSE Fresh(n)
    BY DEF Init
  <2>2. IsManager(Fresh(n)) /\ Archives(Fresh(n))
    BY FreshManager, FreshArchives DEF SoundManager
  <2>3. rep \in [Node -> Nat]
    BY SizeAssumption
  <2>. HIDE DEF rep
  <2>4. IsManager(w) /\ Aside(Fresh(n), w)
    BY <2>2, <2>3 DEF IsManager, Aside
  <2>. HIDE DEF w
  <2>5. Archives(w) /\ Aside(w, SelectCommittee(w))
    BY <2>2, <2>4, AsideArchives, PartsAside DEF Aside
  <2>. QED
    BY <2>1, <2>2, <2>5, AsideArchives
<1>2. /\ peers \in [Node -> SUBSET Node] /\ submits \in [Tx -> 0..MaxSubmits]
      /\ restarts \in 0..MaxRestarts
  BY SwarmAssumption DEF Init
<1>3. \A n \in Node, t \in Tx : mail[n][t] + heard[n][t] <= submits[t]
  BY DEF Init
<1>. QED
  BY <1>1, <1>2, <1>3 DEF BoundInv

\* A broadcast puts one copy on its way to each other node, and the copies
\* that arrive are the ones that were on their way.
LEMMA NextBounds == Inv /\ Inv' /\ BoundInv /\ [Next]_vars => BoundInv'
<1>. SUFFICES ASSUME Inv, Inv', BoundInv, [Next]_vars PROVE BoundInv'
  OBVIOUS
<1>1. ASSUME NEW n \in Node PROVE Archives(mgr'[n])
  <2>1. SoundManager(mgr[n]) /\ Archives(mgr[n])
    BY DEF Inv, Sound, BoundInv
  <2>2. MayBecome(n, mgr[n], mgr'[n])
    BY NextMoves DEF MayBecome
  <2>. QED
    BY <2>1, <2>2, MovesArchive
<1>2. peers' \in [Node -> SUBSET Node]
  <2>1. peers \in [Node -> SUBSET Node]
    BY DEF BoundInv
  <2>2. ASSUME NEW n \in Node, NEW p \in Node, HearPeer(n, p)
        PROVE  peers' \in [Node -> SUBSET Node]
    BY <2>1, <2>2 DEF HearPeer
  <2>3. ASSUME NEW n \in Node, Restart(n)
        PROVE  peers' \in [Node -> SUBSET Node]
    BY <2>1, <2>3 DEF Restart
  <2>. QED
    BY <2>1, <2>2, <2>3 DEF Next, vars, local, Submit, HearTx, HearDirect, HearGossip,
                            EpochTick, EpochExpires, TxExpires
<1>3. restarts' \in 0..MaxRestarts
  <2>1. restarts \in 0..MaxRestarts /\ MaxRestarts \in Nat
    BY SwarmAssumption DEF BoundInv
  <2>2. \/ restarts' = restarts
        \/ restarts < MaxRestarts /\ restarts' = restarts + 1
    BY DEF Next, vars, bounds, Submit, HearTx, HearDirect, HearGossip, HearPeer,
           EpochTick, EpochExpires, TxExpires, Restart
  <2>. QED
    BY <2>1, <2>2
<1>4. /\ submits \in [Tx -> 0..MaxSubmits]
      /\ \A p \in Node, u \in Tx :
           /\ mail[p][u] \in Nat /\ heard[p][u] \in Nat /\ submits[u] \in Nat
           /\ mail[p][u] + heard[p][u] <= submits[u]
  <2>1. mail \in [Node -> [Tx -> Nat]] /\ heard \in [Node -> [Tx -> Nat]]
    BY DEF Inv, TypeInv
  <2>. QED
    BY <2>1, SwarmAssumption DEF BoundInv
<1>5. /\ submits' \in [Tx -> 0..MaxSubmits]
      /\ \A p \in Node, u \in Tx : mail'[p][u] + heard'[p][u] <= submits'[u]
  <2>1. ASSUME NEW n \in Client, NEW t \in Tx, Submit(n, t)
        PROVE  /\ submits' \in [Tx -> 0..MaxSubmits]
               /\ \A p \in Node, u \in Tx : mail'[p][u] + heard'[p][u] <= submits'[u]
    <3>1. /\ submits[t] < MaxSubmits /\ submits' = [submits EXCEPT ![t] = @ + 1]
          /\ mail' = [p \in Node |-> [mail[p] EXCEPT ![t] = IF p = n THEN @ ELSE @ + 1]]
          /\ heard' = heard
      BY <2>1 DEF Submit, history
    <3>2. submits' \in [Tx -> 0..MaxSubmits]
      BY <1>4, <3>1, SwarmAssumption
    <3>3. \A u \in Tx : submits'[u] = IF u = t THEN submits[u] + 1 ELSE submits[u]
      BY <1>4, <3>1
    <3>4. ASSUME NEW p \in Node, NEW u \in Tx
          PROVE  mail'[p][u] + heard'[p][u] <= submits'[u]
      <4>1. mail[p] \in [Tx -> Nat]
        BY DEF Inv, TypeInv
      <4>2. mail'[p][u] = IF u = t /\ p # n THEN mail[p][u] + 1 ELSE mail[p][u]
        BY <3>1, <4>1
      <4>. QED
        BY <1>4, <3>1, <3>3, <4>2
    <3>. QED
      BY <3>2, <3>4
  <2>2. ASSUME NEW n \in Node, NEW t \in Tx, HearTx(n, t)
        PROVE  /\ submits' \in [Tx -> 0..MaxSubmits]
               /\ \A p \in Node, u \in Tx : mail'[p][u] + heard'[p][u] <= submits'[u]
    <3>1. /\ mail[n][t] > 0 /\ mail' = [mail EXCEPT ![n][t] = @ - 1]
          /\ heard' = [heard EXCEPT ![n][t] = @ + 1] /\ submits' = submits
      BY <2>2 DEF HearTx, bounds
    <3>2. mail \in [Node -> [Tx -> Nat]] /\ heard \in [Node -> [Tx -> Nat]]
      BY DEF Inv, TypeInv
    <3>3. ASSUME NEW p \in Node, NEW u \in Tx
          PROVE  mail'[p][u] + heard'[p][u] <= submits'[u]
      <4>1. /\ mail'[p][u] = IF p = n /\ u = t THEN mail[p][u] - 1 ELSE mail[p][u]
            /\ heard'[p][u] = IF p = n /\ u = t THEN heard[p][u] + 1 ELSE heard[p][u]
        BY <3>1, <3>2
      <4>. QED
        BY <1>4, <3>1, <4>1
    <3>. QED
      BY <1>4, <3>1, <3>3
  <2>3. CASE UNCHANGED <<mail, heard, submits>>
    BY <1>4, <2>3
  <2>4. \/ \E n \in Client, t \in Tx : Submit(n, t)
        \/ \E n \in Node, t \in Tx : HearTx(n, t)
        \/ UNCHANGED <<mail, heard, submits>>
    BY DEF Next, vars, bounds, history, HearDirect, HearGossip, HearPeer, EpochTick,
           EpochExpires, TxExpires, Restart
  <2>. QED
    BY <2>1, <2>2, <2>3, <2>4
<1>. QED
  BY <1>1, <1>2, <1>3, <1>5 DEF BoundInv

LEMMA Bounds == Spec => []BoundInv
BY Invariance, InitBounds, NextBounds, PTL DEF Spec

\* Type correctness: no variable ever leaves its type, the archives are
\* sequences of entries, and no more copies of a transaction's data arrive at a
\* node, nor are executed there, than were broadcast.
THEOREM TypeOKHolds == Spec => []TypeOK
<1>1. Inv /\ BoundInv => TypeOK
  <2>. SUFFICES ASSUME Inv, BoundInv PROVE TypeOK
    OBVIOUS
  <2>1. \A n \in Node : IsManager(mgr[n]) /\ mgr[n].id = n
    BY DEF Inv, Sound, SoundManager
  <2>2. \A n \in Node : mgr[n].archive \in Seq(ArchiveEntry)
    BY DEF BoundInv, Archives, Log
  <2>3. /\ peers \in [Node -> SUBSET Node] /\ pending \in [Node -> SUBSET Tx]
        /\ net \subseteq Message /\ submits \in [Tx -> 0..MaxSubmits]
        /\ restarts \in 0..MaxRestarts /\ certified \in [Node -> SUBSET Tx]
        /\ mail \in [Node -> [Tx -> Nat]] /\ heard \in [Node -> [Tx -> Nat]]
        /\ applied \in [Node -> [Tx -> Nat]]
    BY DEF Inv, TypeInv, BoundInv
  <2>4. ASSUME NEW n \in Node, NEW t \in Tx
        PROVE  /\ mail[n][t] \in 0..MaxSubmits /\ heard[n][t] \in 0..MaxSubmits
               /\ applied[n][t] \in 0..MaxSubmits
    <3>1. /\ mail[n][t] \in Nat /\ heard[n][t] \in Nat /\ applied[n][t] \in Nat
          /\ submits[t] \in 0..MaxSubmits /\ MaxSubmits \in Nat
      BY <2>3, SwarmAssumption
    <3>2. mail[n][t] + heard[n][t] <= submits[t]
      BY DEF BoundInv
    <3>3. applied[n][t] + (IF t \in pending[n] THEN 1 ELSE 0) <= heard[n][t]
      BY DEF Inv, AppliedOncePerCopy
    <3>. QED
      BY <3>1, <3>2, <3>3
  <2>5. /\ mail \in [Node -> [Tx -> 0..MaxSubmits]]
        /\ heard \in [Node -> [Tx -> 0..MaxSubmits]]
        /\ applied \in [Node -> [Tx -> 0..MaxSubmits]]
    BY <2>3, <2>4
  <2>. QED
    BY <2>1, <2>2, <2>3, <2>5 DEF TypeOK
<1>. QED
  BY <1>1, Invariance, Bounds, PTL

----------------------------------------------------------------------------
(* No quorum is overlooked, in a network that fits into one committee.     *)

\* Everybody can be elected.
OneCommittee == Cardinality(Node) <= CommitteeSize /\ ScoresAreNumbers

\* An entry that is not waiting for votes it already holds.
Counted(s) ==
  /\ s.phase = "Prepare" => Cardinality(s.prepares) < RequiredVotes(s)
  /\ s.phase = "Commit" => Cardinality(s.commits) < RequiredVotes(s)

\* A validator is a member of its own committee: without its own vote nothing
\* would make it count the votes that came before the data.
Seated(m) == m.id \in m.committee

Attentive(m) == Seated(m) /\ \A t \in Tx : Counted(m.states[t])

\* The manager has changed the phase of v.tx and has yet to hear its own vote
\* v on that: the one entry that may hold a quorum it has not noticed.
Owes(m, v) ==
  /\ Seated(m) /\ ~m.due
  /\ v.sender = m.id /\ v.phase = m.states[v.tx].phase
  /\ \A t \in Tx : t # v.tx => Counted(m.states[t])

\* With so many seats the committee is everybody known.
LEMMA EveryoneIsElected ==
  ASSUME OneCommittee, NEW m, IsManager(m)
  PROVE  SelectCommittee(m).committee = Known(m)
<1>. DEFINE score(n) == Score(n, m.rep[n], <<m.last, m.epoch>>)
            ahead(n) == {p \in Known(m) : score(p) > score(n)}
<1>1. SelectCommittee(m).committee = {n \in Known(m) : Cardinality(ahead(n)) < CommitteeSize}
  BY DEF SelectCommittee, IsManager
<1>2. ASSUME NEW n \in Known(m)
      PROVE  Cardinality(ahead(n)) < CommitteeSize
  <2>1. n \in Node /\ Known(m) \subseteq Node
    BY DEF Known
  <2>2. score(n) \in Nat
    BY <2>1 DEF OneCommittee, ScoresAreNumbers, IsManager
  <2>3. ahead(n) \subseteq Node \ {n}
    BY <2>1, <2>2
  <2>4. /\ IsFiniteSet(Node \ {n}) /\ Cardinality(Node) \in Nat
        /\ Cardinality(Node \ {n}) = Cardinality(Node) - 1
    BY <2>1, NodeAssumption, FS_RemoveElement, FS_CardinalityType
  <2>. HIDE DEF ahead
  <2>5. Cardinality(ahead(n)) <= Cardinality(Node \ {n}) /\ Cardinality(ahead(n)) \in Nat
    BY <2>3, <2>4, FS_Subset, FS_CardinalityType
  <2>. QED
    BY <2>4, <2>5, SizeAssumption DEF OneCommittee
<1>. QED
  BY <1>1, <1>2

\* A node that is in the reputation table is elected; a seated one is in it.
LEMMA SeatIsKept ==
  ASSUME OneCommittee, NEW m, SoundManager(m), Seated(m)
  PROVE  /\ Seated(SelectCommittee(m)) /\ Seated(RotateEpoch(m)) /\ Seated(MaybeRotateEpoch(m))
         /\ \A n \in Node, r \in Nat \ {0} : Seated(Learn(m, n, r)) /\ Seated(HearAnnounce(m, n, r))
<1>1. IsManager(m) /\ m.id \in Known(m)
  BY DEF SoundManager, AllKnown, Seated
<1>2. ASSUME NEW w, IsManager(w), w.id = m.id, m.id \in Known(w)
      PROVE  Seated(SelectCommittee(w))
  BY <1>2, EveryoneIsElected, SelectKeeps DEF Seated
<1>3. Seated(SelectCommittee(m))
  BY <1>1, <1>2
<1>4. Seated(RotateEpoch(m))
  <2>. DEFINE x == Without(m, {t \in Tx : m.states[t].timedOut})
              w == Later(x)
  <2>1. SoundManager(x) /\ x.id = m.id /\ x.rep = m.rep
    BY <1>1, EntriesDropped DEF Without, IsManager
  <2>. HIDE DEF x
  <2>2. SoundManager(w) /\ w.id = m.id
    BY <2>1, EpochMovedOn
  <2>3. w.rep = m.rep /\ IsManager(w)
    BY <2>1, <2>2 DEF Later, SoundManager, IsManager
  <2>4. RotateEpoch(m) = SelectCommittee(w)
    BY <1>1 DEF RotateEpoch, Later, Without, IsManager, x
  <2>. HIDE DEF w
  <2>. QED
    BY <1>1, <1>2, <2>2, <2>3, <2>4 DEF Known
<1>5. ASSUME NEW n \in Node, NEW r \in Nat \ {0}
      PROVE  Seated(Learn(m, n, r)) /\ Seated(HearAnnounce(m, n, r))
  <2>. DEFINE w == Learn(m, n, r)
  <2>1. w.committee = m.committee
    BY <1>1 DEF Learn, IsManager
  <2>2. SoundManager(w) /\ w.id = m.id
    BY LearnIsSound
  <2>. HIDE DEF w
  <2>3. m.id \in Known(w) /\ IsManager(w) /\ Seated(w)
    BY <2>1, <2>2 DEF SoundManager, AllKnown, Seated
  <2>. QED
    BY <1>2, <2>2, <2>3 DEF HearAnnounce, w
<1>. QED
  BY <1>3, <1>4, <1>5 DEF MaybeRotateEpoch

\* A vote either leaves an entry that is not waiting for votes it holds, or
\* completes the round it belongs to.
LEMMA VoteIsCounted ==
  ASSUME NEW s \in TxState, NEW p \in VotePhase, NEW n \in Node,
         Counted(s) \/ s.phase = p
  PROVE  LET r == ProcessMessage(s, p, n) IN
         \/ r.phase = s.phase /\ Counted(r)
         \/ /\ s.phase = p /\ p \in {"PrePrepare", "Prepare", "Commit"}
            /\ r.phase = Following(p) /\ r.phase # s.phase
<1>. DEFINE r == Recorded(s, p, n)
            q == [r EXCEPT !.phase = Following(p)]
<1>1. /\ r \in TxState /\ r.phase = s.phase /\ r.committee = s.committee
      /\ p # "Prepare" => r.prepares = s.prepares
      /\ p # "Commit" => r.commits = s.commits
  BY DEF Recorded, TxState, VotePhase
<1>2. RequiredVotes(r) = RequiredVotes(s)
  BY <1>1 DEF RequiredVotes
<1>3. /\ RequiredVotes(r) \in Nat
      /\ Cardinality(r.prepares) \in Nat /\ Cardinality(r.commits) \in Nat
  BY <1>1, RequiredVotesType, MoreVotes DEF TxState
<1>4. q.phase = Following(p)
  BY <1>1 DEF TxState
<1>. HIDE DEF r, q
<1>5. CASE Completes(r, p)
  <2>1. s.phase = p /\ p \in {"PrePrepare", "Prepare", "Commit"}
    BY <1>1, <1>5 DEF Completes
  <2>2. ProcessMessage(s, p, n) = q /\ Following(p) # p
    BY <1>5, <2>1 DEF ProcessMessage, Following, q, r
  <2>. QED
    BY <1>4, <2>1, <2>2
<1>6. CASE ~Completes(r, p)
  <2>1. ProcessMessage(s, p, n) = r
    BY <1>6 DEF ProcessMessage, r
  <2>2. CASE s.phase = p
    BY <1>1, <1>3, <1>6, <2>1, <2>2 DEF Counted, Completes
  <2>3. CASE s.phase # p
    <3>1. Counted(s)
      BY <2>3
    <3>. QED
      BY <1>1, <1>2, <2>1, <2>3, <3>1 DEF Counted
  <2>. QED
    BY <2>2, <2>3
<1>. QED
  BY <1>5, <1>6

\* handle_message, for an attentive manager or one that hears the vote it owes
\* itself: it leaves an attentive one, or one that owes itself the next vote.
LEMMA HandleAttends ==
  ASSUME OneCommittee, NEW m, SoundManager(m), NEW v \in Vote, Attentive(m) \/ Owes(m, v)
  PROVE  LET h == HandleMessage(m, v) IN
         \/ h.votes = {} /\ Attentive(h.mgr)
         \/ \E w \in Vote : /\ h.votes = {w} /\ Owes(h.mgr, w)
                            /\ v.phase \in {"PrePrepare", "Prepare", "Commit"}
                            /\ w.phase = Following(v.phase)
<1>. DEFINE seen  == SeenByVote(m, v)
            old   == seen.states[v.tx]
            new   == ProcessMessage(old, v.phase, v.sender)
            done  == [seen EXCEPT !.states[v.tx] = new]
            given == Rewarded(done, v.tx, new.phase, v.sender)
            h     == HandleMessage(m, v)
<1>0. v.tx \in Tx /\ v.sender \in Node /\ v.phase \in VotePhase /\ Seated(m)
  BY DEF Vote, Attentive, Owes
<1>1. /\ SoundManager(seen) /\ IsManager(seen) /\ old \in TxState
      /\ \A t \in Tx : seen.states[t] = IF t = v.tx /\ Turned(m, t).phase = "None"
                                        THEN NewState(seen.committee) ELSE Turned(m, t)
  BY <1>0, SeenEntries DEF SoundManager, SoundState
<1>2. Seated(seen) /\ seen.id = m.id
  <2>. DEFINE turned == MaybeRotateEpoch(m)
              known  == Learn(turned, v.sender, NewcomerRep)
  <2>1. SoundManager(turned) /\ Seated(turned) /\ turned.id = m.id
    BY <1>0, SeatIsKept, RotateEpochIsSound
  <2>. HIDE DEF turned
  <2>2. SoundManager(known) /\ Seated(known) /\ known.id = m.id
    BY <1>0, <2>1, SeatIsKept, LearnIsSound, SizeAssumption
  <2>3. seen = Entered(known, v.tx)
    BY DEF SeenByVote, turned
  <2>. HIDE DEF known, seen
  <2>. QED
    BY <1>0, <2>2, <2>3, EnteredIsSound DEF Seated
<1>3. /\ \A t \in Tx : t # v.tx => Counted(seen.states[t])
      /\ Counted(old) \/ (old.phase = v.phase /\ v.sender = m.id)
  <2>1. Counted(NoState) /\ Counted(NewState(seen.committee))
    BY DEF Counted, NoState, NewState
  <2>. HIDE DEF seen
  <2>2. \A t \in Tx : Counted(m.states[t]) => Counted(seen.states[t])
    BY <1>1, <2>1 DEF Turned
  <2>3. CASE Attentive(m)
    <3>1. \A t \in Tx : Counted(seen.states[t])
      BY <2>2, <2>3 DEF Attentive
    <3>. QED
      BY <1>0, <3>1
  <2>4. CASE Owes(m, v)
    <3>1. v.sender = m.id /\ v.phase = m.states[v.tx].phase /\ ~m.due
      BY <2>4 DEF Owes
    <3>2. old = m.states[v.tx] \/ old = NewState(seen.committee)
      BY <1>0, <1>1, <3>1 DEF Turned
    <3>. QED
      BY <2>1, <2>2, <2>4, <3>1, <3>2 DEF Owes
  <2>. QED
    BY <2>3, <2>4
<1>. HIDE DEF seen
<1>4. \/ new.phase = old.phase /\ Counted(new)
      \/ /\ v.phase \in {"PrePrepare", "Prepare", "Commit"}
         /\ new.phase = Following(v.phase) /\ new.phase # old.phase
  <2>1. Counted(old) \/ old.phase = v.phase
    BY <1>3
  <2>. HIDE DEF old
  <2>. QED
    BY <1>0, <1>1, <2>1, VoteIsCounted
<1>5. new \in TxState
  <2>1. SoundState(old) /\ old.phase # "None"
    BY <1>0, <1>1 DEF SoundManager, NewState
  <2>. HIDE DEF old
  <2>. QED
    BY <1>0, <2>1, ProcessMessageIsSound DEF SoundState
<1>6. h = IF v.sender \notin seen.committee THEN Outcome(seen, {})
          ELSE IF new.phase = old.phase THEN Outcome(done, {})
          ELSE Announced(given, v.tx, new.phase)
  BY DEF HandleMessage, SeenByVote, seen
<1>. HIDE DEF new, h
<1>7. /\ IsManager(done) /\ done.id = m.id /\ done.committee = seen.committee
      /\ done.due = seen.due
      /\ \A t \in Tx : done.states[t] = IF t = v.tx THEN new ELSE seen.states[t]
  BY <1>0, <1>1, <1>2, <1>5 DEF IsManager
<1>. HIDE DEF done
<1>8. /\ given.id = m.id /\ given.committee = seen.committee /\ given.due = seen.due
      /\ given.states = done.states
  BY <1>7 DEF Rewarded, AdjustReputation, IsManager
<1>. HIDE DEF given
<1>9. CASE v.sender \notin seen.committee
  <2>1. Counted(old)
    BY <1>2, <1>3, <1>9 DEF Seated
  <2>2. Attentive(seen)
    BY <1>2, <1>3, <2>1 DEF Attentive
  <2>3. h.votes = {} /\ h.mgr = seen
    BY <1>6, <1>9 DEF Outcome
  <2>. QED
    BY <2>2, <2>3 DEF h
<1>10. CASE v.sender \in seen.committee /\ new.phase = old.phase
  <2>1. Counted(new)
    BY <1>4, <1>10
  <2>2. Attentive(done)
    BY <1>2, <1>3, <1>7, <2>1 DEF Attentive, Seated
  <2>3. h.votes = {} /\ h.mgr = done
    BY <1>6, <1>10 DEF Outcome
  <2>. QED
    BY <2>2, <2>3 DEF h
<1>11. CASE v.sender \in seen.committee /\ new.phase # old.phase
  <2>. DEFINE w == [phase |-> new.phase, tx |-> v.tx, sender |-> m.id]
  <2>1. IsValidator(given)
    BY <1>2, <1>8 DEF IsValidator, Seated
  <2>2. h.mgr = given /\ h.votes = {w}
    BY <1>6, <1>8, <1>11, <2>1 DEF Announced, Outcome
  <2>3. w \in Vote
    <3>1. m.id \in Node /\ new.phase \in VotePhase
      BY <1>0, <1>4, <1>11 DEF SoundManager, IsManager, VotePhase, Following
    <3>. QED
      BY <1>0, <3>1 DEF Vote
  <2>4. ~given.due
    BY <2>2, HandleMessageKeeps DEF Keeps, h
  <2>5. Owes(given, w)
    BY <1>0, <1>2, <1>3, <1>7, <1>8, <2>4 DEF Owes, Seated
  <2>. HIDE DEF w
  <2>6. w.phase = Following(v.phase) /\ v.phase \in {"PrePrepare", "Prepare", "Commit"}
    BY <1>4, <1>11 DEF w
  <2>. QED
    BY <2>2, <2>3, <2>5, <2>6 DEF h
<1>. QED
  BY <1>9, <1>10, <1>11

\* mark_validated does the same; the vote it may owe itself is a Prepare vote.
LEMMA MarkAttends ==
  ASSUME OneCommittee, NEW m, SoundManager(m), NEW u \in Tx, Attentive(m)
  PROVE  LET h == MarkValidated(m, u) IN
         \/ h.votes = {} /\ Attentive(h.mgr)
         \/ \E w \in Vote : h.votes = {w} /\ Owes(h.mgr, w) /\ w.phase = "Prepare"
<1>. DEFINE turned == MaybeRotateEpoch(m)
            seen == SeenByCheck(m, u)
            s    == seen.states[u]
            done == [seen EXCEPT !.states[u].validated = TRUE]
            next == [done EXCEPT !.states[u].phase = "Prepare"]
            h    == MarkValidated(m, u)
<1>1. SoundManager(turned) /\ IsManager(turned) /\ turned.due = FALSE /\ Seated(turned)
      /\ turned.id = m.id
  BY SeatIsKept, RotateEpochIsSound, RotationKeeps DEF SoundManager, Attentive
<1>2. /\ SoundManager(seen) /\ IsManager(seen) /\ Seated(seen) /\ seen.id = m.id
      /\ seen.due = FALSE /\ s \in TxState
  <2>1. seen = Entered(turned, u)
    BY DEF SeenByCheck
  <2>. HIDE DEF turned, seen
  <2>. QED
    BY <1>1, <2>1, EnteredIsSound, EnteredKeeps DEF SoundManager, SoundState, Seated
<1>3. \A t \in Tx : Counted(seen.states[t])
  <2>1. Counted(NoState) /\ Counted(NewState(seen.committee))
    BY DEF Counted, NoState, NewState
  <2>2. \A t \in Tx : seen.states[t] = IF t = u /\ Turned(m, t).phase = "None"
                                       THEN NewState(seen.committee) ELSE Turned(m, t)
    BY SeenToCheck
  <2>. HIDE DEF seen
  <2>. QED
    BY <2>1, <2>2 DEF Turned, Attentive
<1>4. h = IF s.phase = "PrePrepare" THEN Announced(next, u, "Prepare") ELSE Outcome(done, {})
  BY DEF MarkValidated, SeenByCheck
<1>. HIDE DEF seen, h
<1>5. /\ done.id = m.id /\ done.committee = seen.committee
      /\ \A t \in Tx : done.states[t] = IF t = u THEN [s EXCEPT !.validated = TRUE]
                                        ELSE seen.states[t]
  BY <1>2 DEF IsManager
<1>6. /\ next.id = m.id /\ next.committee = seen.committee /\ next.due = FALSE
      /\ \A t \in Tx : next.states[t] = IF t = u THEN [s EXCEPT !.validated = TRUE, !.phase = "Prepare"]
                                        ELSE seen.states[t]
  BY <1>2 DEF IsManager, TxState
<1>. HIDE DEF done, next
<1>7. CASE s.phase = "PrePrepare"
  <2>. DEFINE w == [phase |-> "Prepare", tx |-> u, sender |-> m.id]
  <2>1. IsValidator(next)
    BY <1>2, <1>6 DEF IsValidator, Seated
  <2>2. h.mgr = next /\ h.votes = {w}
    BY <1>4, <1>6, <1>7, <2>1 DEF Announced, Outcome
  <2>3. w \in Vote
    BY DEF SoundManager, IsManager, Vote, VotePhase
  <2>4. next.states[u].phase = "Prepare"
    BY <1>2, <1>6 DEF TxState
  <2>5. Owes(next, w)
    BY <1>2, <1>3, <1>6, <2>4 DEF Owes, Seated
  <2>6. w.phase = "Prepare"
    OBVIOUS
  <2>. HIDE DEF w
  <2>. QED
    BY <2>2, <2>3, <2>5, <2>6 DEF h
<1>8. CASE s.phase # "PrePrepare"
  <2>1. Counted([s EXCEPT !.validated = TRUE])
    <3>. DEFINE r == [s EXCEPT !.validated = TRUE]
    <3>1. /\ r.phase = s.phase /\ r.prepares = s.prepares /\ r.commits = s.commits
          /\ r.committee = s.committee
      BY <1>2 DEF TxState
    <3>2. Counted(s)
      BY <1>3
    <3>. HIDE DEF r, s
    <3>. QED
      BY <3>1, <3>2 DEF Counted, RequiredVotes, r
  <2>2. Attentive(done)
    BY <1>2, <1>3, <1>5, <2>1 DEF Attentive, Seated
  <2>3. h.votes = {} /\ h.mgr = done
    BY <1>4, <1>8 DEF Outcome
  <2>. QED
    BY <2>2, <2>3 DEF h
<1>. QED
  BY <1>7, <1>8

\* Self-delivery, with a vote of one of the phases in Q left to hear at most.
Attends(c, Q) ==
  /\ SoundManager(c.mgr)
  /\ \/ c.next = {} /\ Attentive(c.mgr)
     \/ \E v \in Vote : c.next = {v} /\ Owes(c.mgr, v) /\ v.phase \in Q

LEMMA RoundAttends ==
  ASSUME OneCommittee, NEW c, NEW Q, NEW R, Attends(c, Q),
         \A p \in Q \cap {"PrePrepare", "Prepare", "Commit"} : Following(p) \in R
  PROVE  Attends(Round(c), R)
<1>1. CASE c.next = {} /\ Attentive(c.mgr)
  BY <1>1 DEF Round, Attends
<1>2. ASSUME NEW v \in Vote, c.next = {v}, Owes(c.mgr, v), v.phase \in Q
      PROVE  Attends(Round(c), R)
  <2>. DEFINE m == c.mgr
              h == HandleMessage(m, v)
  <2>1. Round(c) = [mgr |-> h.mgr, next |-> h.votes, sent |-> c.sent \cup h.votes]
    BY <1>2 DEF Round
  <2>2. SoundManager(m) /\ Owes(m, v)
    BY <1>2 DEF Attends
  <2>. HIDE DEF m
  <2>3. SoundManager(h.mgr)
    BY <2>2, HandleMessageIsSound
  <2>4. \/ h.votes = {} /\ Attentive(h.mgr)
        \/ \E w \in Vote : /\ h.votes = {w} /\ Owes(h.mgr, w)
                           /\ v.phase \in {"PrePrepare", "Prepare", "Commit"}
                           /\ w.phase = Following(v.phase)
    BY <2>2, HandleAttends
  <2>. HIDE DEF h
  <2>5. \/ h.votes = {} /\ Attentive(h.mgr)
        \/ \E w \in Vote : h.votes = {w} /\ Owes(h.mgr, w) /\ w.phase \in R
    BY <1>2, <2>4
  <2>. QED
    BY <2>1, <2>3, <2>5 DEF Attends
<1>. QED
  BY <1>1, <1>2 DEF Attends

\* Two rounds bring a vote owed to the last phase, which counts no votes.
LEMMA AttendsToTheEnd ==
  ASSUME OneCommittee, NEW c, Attends(c, {"Prepare", "Commit", "Finalized"})
  PROVE  Attentive(Round(Round(c)).mgr) /\ Attends(Round(Round(c)), {"Finalized"})
<1>. DEFINE d == Round(c)
            e == Round(d)
<1>1. Attends(d, {"Commit", "Finalized"})
  BY RoundAttends DEF Following
<1>. HIDE DEF d
<1>2. Attends(e, {"Finalized"})
  BY <1>1, RoundAttends DEF Following
<1>. HIDE DEF e
<1>3. ASSUME NEW v \in Vote, Owes(e.mgr, v), v.phase = "Finalized"
      PROVE  Attentive(e.mgr)
  BY <1>3 DEF Owes, Attentive, Counted
<1>4. Attentive(e.mgr)
  BY <1>2, <1>3 DEF Attends
<1>. QED
  BY <1>2, <1>4 DEF d, e

\* So every handler leaves an attentive manager.
LEMMA HandledAttends ==
  ASSUME OneCommittee, NEW m, SoundManager(m), Attentive(m), NEW w, Handled(m, w)
  PROVE  Attentive(w)
<1>. DEFINE All == {"Prepare", "Commit", "Finalized"}
<1>1. ASSUME NEW x, NEW votes, Attends([mgr |-> x, next |-> votes, sent |-> {}], All)
      PROVE  Attentive(Chain(x, votes).mgr)
  <2>. DEFINE c == [mgr |-> x, next |-> votes, sent |-> {}]
  <2>1. Attends(c, All)
    BY <1>1
  <2>. HIDE DEF c
  <2>2. Attends(Round(c), All)
    BY <2>1, RoundAttends DEF Following
  <2>3. Attentive(Round(Round(Round(c))).mgr)
    BY <2>2, AttendsToTheEnd
  <2>. QED
    BY <2>3 DEF Chain, c
<1>2. ASSUME NEW t \in Tx, w = Chain(MarkValidated(m, t).mgr, MarkValidated(m, t).votes).mgr
      PROVE  Attentive(w)
  <2>. DEFINE h == MarkValidated(m, t)
  <2>1. SoundManager(h.mgr)
    BY MarkValidatedIsSound
  <2>2. \/ h.votes = {} /\ Attentive(h.mgr)
        \/ \E v \in Vote : h.votes = {v} /\ Owes(h.mgr, v) /\ v.phase = "Prepare"
    BY MarkAttends
  <2>3. w = Chain(h.mgr, h.votes).mgr
    BY <1>2
  <2>. HIDE DEF h
  <2>4. Attends([mgr |-> h.mgr, next |-> h.votes, sent |-> {}], All)
    BY <2>1, <2>2 DEF Attends
  <2>. QED
    BY <1>1, <2>3, <2>4
<1>3. ASSUME NEW v \in Vote
      PROVE  LET h == HandleMessage(m, v)
             IN  Attends([mgr |-> h.mgr, next |-> h.votes, sent |-> {}], All)
  <2>. DEFINE h == HandleMessage(m, v)
  <2>1. SoundManager(h.mgr)
    BY HandleMessageIsSound
  <2>2. \/ h.votes = {} /\ Attentive(h.mgr)
        \/ \E x \in Vote : /\ h.votes = {x} /\ Owes(h.mgr, x)
                           /\ v.phase \in {"PrePrepare", "Prepare", "Commit"}
                           /\ x.phase = Following(v.phase)
    BY HandleAttends
  <2>3. \A p \in {"PrePrepare", "Prepare", "Commit"} : Following(p) \in All
    BY DEF Following
  <2>. HIDE DEF h, All
  <2>4. Attends([mgr |-> h.mgr, next |-> h.votes, sent |-> {}], All)
    BY <2>1, <2>2, <2>3 DEF Attends
  <2>. QED
    BY <2>4 DEF h
<1>4. ASSUME NEW v \in Vote, w = Chain(HandleMessage(m, v).mgr, HandleMessage(m, v).votes).mgr
      PROVE  Attentive(w)
  BY <1>1, <1>3, <1>4
<1>5. ASSUME NEW v \in Vote, w = Chain(m, {v}).mgr
      PROVE  Attentive(w)
  <2>. DEFINE c == [mgr |-> m, next |-> {v}, sent |-> {}]
              h == HandleMessage(m, v)
              d == [mgr |-> h.mgr, next |-> h.votes, sent |-> {} \cup h.votes]
  <2>1. Round(c) = d
    <3>1. (CHOOSE x \in {v} : TRUE) = v
      OBVIOUS
    <3>. QED
      BY <3>1 DEF Round
  <2>2. d = [mgr |-> h.mgr, next |-> h.votes, sent |-> h.votes]
    OBVIOUS
  <2>3. Attends([mgr |-> h.mgr, next |-> h.votes, sent |-> {}], All)
    BY <1>3
  <2>. HIDE DEF h
  <2>4. Attends(d, All)
    BY <2>3 DEF Attends
  <2>5. w = Round(Round(Round(c))).mgr
    BY <1>5 DEF Chain
  <2>. HIDE DEF c, d
  <2>. QED
    BY <2>1, <2>4, <2>5, AttendsToTheEnd
<1>. QED
  BY <1>2, <1>4, <1>5 DEF Handled

\* A node alone in its committee, without entries, overlooks nothing.
LEMMA FreshAttends ==
  ASSUME NEW n \in Node
  PROVE  Attentive(Fresh(n))
<1>1. /\ Fresh(n).id = n /\ Fresh(n).committee = {n}
      /\ \A t \in Tx : Fresh(n).states[t] = NoState
  BY DEF Fresh, NewManager
<1>2. Counted(NoState)
  BY DEF Counted, NoState
<1>. QED
  BY <1>1, <1>2 DEF Attentive, Seated

\* And so does every step of the network.
LEMMA MovesAttend ==
  ASSUME OneCommittee, NEW n \in Node, NEW m, SoundManager(m), m.id = n, Attentive(m),
         NEW w, MayBecome(n, m, w)
  PROVE  Attentive(w)
<1>0. IsManager(m) /\ Seated(m) /\ Counted(NoState)
  BY DEF SoundManager, Attentive, Counted, NoState
<1>1. CASE Handled(m, w)
  BY <1>1, HandledAttends
<1>2. ASSUME NEW x, NEW t \in Tx, Handled(m, x), w = Settled(x, t)
      PROVE  Attentive(w)
  <2>1. IsManager(x) /\ Attentive(x)
    BY <1>2, HandledIsSound, HandledAttends DEF SoundManager
  <2>. DEFINE y == DropState(x, t)
  <2>2. /\ IsManager(y) /\ y.id = x.id /\ y.committee = x.committee
        /\ \A u \in Tx : y.states[u] \in {x.states[u], NoState}
    BY <1>2, <2>1, HandledIsSound, DropIsSound DEF SoundManager, DropState, IsManager
  <2>. HIDE DEF y
  <2>3. Attentive(y)
    BY <1>0, <2>1, <2>2 DEF Attentive, Seated
  <2>4. w \in {x, y} \/ \E a : w = [y EXCEPT !.archive = a]
    BY <1>2 DEF Settled, ArchiveFinalizedState, y
  <2>5. ASSUME NEW a, w = [y EXCEPT !.archive = a]
        PROVE  Attentive(w)
    BY <2>2, <2>3, <2>5 DEF Attentive, Seated, IsManager
  <2>. QED
    BY <2>1, <2>3, <2>4, <2>5
<1>3. ASSUME NEW p \in Node, NEW r \in Nat \ {0}, w = HearAnnounce(m, p, r)
      PROVE  Attentive(w)
  <2>. DEFINE x == Learn(m, p, r)
  <2>1. IsManager(x) /\ x.states = m.states
    BY <1>0, LearnIsSound, LearnKeeps DEF SoundManager
  <2>. HIDE DEF x
  <2>2. w.states = m.states
    BY <1>3, <2>1, SelectKeeps DEF HearAnnounce, x
  <2>3. Seated(w)
    BY <1>0, <1>3, SeatIsKept
  <2>. QED
    BY <2>2, <2>3 DEF Attentive
<1>4. CASE w = CleanupFinalizedStates(RotateEpoch(m), KeepEpochs)
  <2>. DEFINE x == RotateEpoch(m)
  <2>1. /\ IsManager(x) /\ Seated(x)
        /\ \A t \in Tx : x.states[t] \in {m.states[t], NoState}
    BY <1>0, RotateEpochIsSound, SeatIsKept, RotationKeeps DEF SoundManager
  <2>. HIDE DEF x
  <2>2. \E a : w = [x EXCEPT !.archive = a]
    BY <1>4 DEF CleanupFinalizedStates, x
  <2>3. w.states = x.states /\ w.id = x.id /\ w.committee = x.committee
    BY <2>1, <2>2 DEF IsManager
  <2>. QED
    BY <1>0, <2>1, <2>3 DEF Attentive, Seated
<1>5. CASE w = [m EXCEPT !.due = TRUE]
  BY <1>0, <1>5 DEF Attentive, Seated, IsManager
<1>6. ASSUME NEW t \in Tx, w = [m EXCEPT !.states[t].timedOut = TRUE]
      PROVE  Attentive(w)
  <2>1. Seated(w)
    BY <1>0, <1>6 DEF Seated, IsManager
  <2>2. \A u \in Tx : /\ w.states[u].phase = m.states[u].phase
                      /\ w.states[u].prepares = m.states[u].prepares
                      /\ w.states[u].commits = m.states[u].commits
                      /\ w.states[u].committee = m.states[u].committee
    BY <1>0, <1>6 DEF IsManager, TxState
  <2>3. \A u \in Tx : RequiredVotes(w.states[u]) = RequiredVotes(m.states[u])
    BY <2>2 DEF RequiredVotes
  <2>. QED
    BY <2>1, <2>2, <2>3 DEF Attentive, Counted
<1>7. CASE w = Fresh(n)
  BY <1>7, FreshAttends
<1>. QED
  BY <1>1, <1>2, <1>3, <1>4, <1>5, <1>6, <1>7 DEF MayBecome, Works

\* Every node is a member of its own committee, throughout, and overlooks
\* nothing.
AttentionInv == \A n \in Node : Attentive(mgr[n])

LEMMA InitAttention ==
  ASSUME OneCommittee
  PROVE  Init => AttentionInv
<1>. SUFFICES ASSUME Init, NEW n \in Node PROVE Attentive(mgr[n])
  BY DEF AttentionInv
<1>. DEFINE rep == [p \in Node |-> IF p \in Met THEN InitialRep ELSE 0]
            w == [Fresh(n) EXCEPT !.rep = rep]
<1>1. mgr[n] = IF n \in Met THEN SelectCommittee(w) ELSE Fresh(n)
  BY DEF Init
<1>2. CASE n \notin Met
  BY <1>1, <1>2, FreshAttends
<1>3. CASE n \in Met
  <2>1. IsManager(Fresh(n)) /\ Fresh(n).id = n /\ Attentive(Fresh(n))
    BY FreshManager, FreshAttends DEF SoundManager
  <2>2. rep \in [Node -> Nat] /\ rep[n] > 0
    BY <1>3, SizeAssumption
  <2>. HIDE DEF rep
  <2>3. IsManager(w) /\ w.states = Fresh(n).states /\ w.id = n /\ w.rep = rep
    BY <2>1, <2>2 DEF IsManager
  <2>. HIDE DEF w
  <2>4. /\ SelectCommittee(w).committee = Known(w) /\ SelectCommittee(w).id = n
        /\ SelectCommittee(w).states = w.states
    BY <2>3, EveryoneIsElected, SelectKeeps
  <2>5. n \in Known(w)
    BY <2>2, <2>3 DEF Known
  <2>. QED
    BY <1>1, <1>3, <2>1, <2>3, <2>4, <2>5 DEF Attentive, Seated
<1>. QED
  BY <1>2, <1>3

LEMMA NextAttention ==
  ASSUME OneCommittee
  PROVE  Inv /\ AttentionInv /\ [Next]_vars => AttentionInv'
<1>. SUFFICES ASSUME Inv, AttentionInv, [Next]_vars, NEW n \in Node
              PROVE  Attentive(mgr'[n])
  BY DEF AttentionInv
<1>1. SoundManager(mgr[n]) /\ mgr[n].id = n /\ Attentive(mgr[n])
  BY DEF Inv, Sound, AttentionInv
<1>2. MayBecome(n, mgr[n], mgr'[n])
  BY NextMoves DEF MayBecome
<1>. QED
  BY <1>1, <1>2, MovesAttend

\* In a network that fits into one committee no validator leaves a quorum
\* unused: whatever the order in which the data and the votes come, whatever
\* is lost or repeated and whoever restarts, an entry never waits for votes
\* it holds.
THEOREM NoQuorumOverlookedHolds ==
  ASSUME OneCommittee
  PROVE  Spec => []NoQuorumOverlooked
<1>1. AttentionInv => NoQuorumOverlooked
  BY DEF AttentionInv, Attentive, Counted, NoQuorumOverlooked
<1>2. Init => AttentionInv
  BY InitAttention
<1>3. Inv /\ AttentionInv /\ [Next]_vars => AttentionInv'
  BY NextAttention
<1>. QED
  BY <1>1, <1>2, <1>3, Invariance, PTL DEF Spec

----------------------------------------------------------------------------
(* Finality is shared: a quorum of the nodes that had met has the data.    *)

\* A committee with as many members as any set of nodes that had met and fits
\* into a committee.
Ample(C) ==
  \A D \in SUBSET Met : Cardinality(D) <= CommitteeSize => Cardinality(D) <= Cardinality(C)

\* A manager that knows the nodes that had met, and whose committees, the one
\* in office and those its entries were opened for, are ample.
Manned(m) ==
  /\ Met \subseteq Known(m)
  /\ Ample(m.committee)
  /\ \A t \in Tx : Open(m, t) => Ample(m.states[t].committee)

\* Whoever knows the nodes that had met elects an ample committee.
LEMMA ElectionIsAmple ==
  ASSUME ScoresAreNumbers, NEW m, IsManager(m), Met \subseteq Known(m),
         \A t \in Tx : Open(m, t) => Ample(m.states[t].committee)
  PROVE  Manned(SelectCommittee(m))
<1>. DEFINE w == SelectCommittee(m)
<1>1. w.rep = m.rep /\ w.states = m.states
  BY DEF SelectCommittee, IsManager
<1>2. ASSUME NEW D \in SUBSET Met, Cardinality(D) <= CommitteeSize
      PROVE  Cardinality(D) <= Cardinality(w.committee)
  BY <1>2, ElectionSeats
<1>. HIDE DEF w
<1>3. Ample(w.committee)
  BY <1>2 DEF Ample
<1>. QED
  BY <1>1, <1>3 DEF Manned, Known, Open, w

\* A rotation that is due, and what handle_message and mark_validated see.
LEMMA SeenIsManned ==
  ASSUME ScoresAreNumbers, NEW m, SoundManager(m), Manned(m)
  PROVE  /\ Manned(RotateEpoch(m)) /\ Manned(MaybeRotateEpoch(m))
         /\ \A v \in Vote : Manned(SeenByVote(m, v))
         /\ \A t \in Tx : Manned(SeenByCheck(m, t))
         /\ \A n \in Node, r \in Nat \ {0} : Manned(HearAnnounce(m, n, r))
<1>0. IsManager(m)
  BY DEF SoundManager
<1>1. Manned(RotateEpoch(m))
  <2>. DEFINE x == Without(m, {t \in Tx : m.states[t].timedOut})
              w == Later(x)
  <2>1. SoundManager(x) /\ x.id = m.id /\ x.rep = m.rep
        /\ x.states = [t \in Tx |-> IF m.states[t].timedOut THEN NoState ELSE m.states[t]]
    BY <1>0, EntriesDropped DEF Without, IsManager
  <2>. HIDE DEF x
  <2>2. SoundManager(w) /\ w.id = m.id
    BY <2>1, EpochMovedOn
  <2>3. w.rep = m.rep /\ IsManager(w) /\ w.states = x.states
    BY <2>1, <2>2 DEF Later, SoundManager, IsManager
  <2>4. RotateEpoch(m) = SelectCommittee(w)
    BY <1>0 DEF RotateEpoch, Later, Without, IsManager, x
  <2>. HIDE DEF w
  <2>5. Met \subseteq Known(w)
    BY <2>3 DEF Manned, Known
  <2>6. \A t \in Tx : Open(w, t) => Ample(w.states[t].committee)
    BY <2>1, <2>3 DEF Manned, Open, NoState
  <2>. QED
    BY <2>3, <2>4, <2>5, <2>6, ElectionIsAmple
<1>. DEFINE turned == MaybeRotateEpoch(m)
<1>2. Manned(turned) /\ SoundManager(turned) /\ IsManager(turned)
  BY <1>1, RotateEpochIsSound DEF MaybeRotateEpoch, SoundManager
<1>3. ASSUME NEW x, SoundManager(x), Manned(x), NEW n \in Node, NEW r \in Nat \ {0}
      PROVE  SoundManager(Learn(x, n, r)) /\ Manned(Learn(x, n, r))
  <2>. DEFINE w == Learn(x, n, r)
  <2>1. IsManager(x) /\ SoundManager(w)
    BY <1>3, LearnIsSound DEF SoundManager
  <2>2. /\ w.states = x.states /\ w.committee = x.committee
        /\ \A p \in Node : x.rep[p] > 0 => w.rep[p] > 0
    BY <2>1 DEF Learn, IsManager
  <2>. HIDE DEF w
  <2>. QED
    BY <1>3, <2>1, <2>2 DEF Manned, Known, Open, w
<1>4. ASSUME NEW x, SoundManager(x), Manned(x), NEW t \in Tx
      PROVE  Manned(Entered(x, t))
  <2>. DEFINE w == Entered(x, t)
  <2>1. IsManager(x)
    BY <1>4 DEF SoundManager
  <2>2. /\ w.rep = x.rep /\ w.committee = x.committee
        /\ \A u \in Tx : \/ w.states[u] = x.states[u]
                         \/ w.states[u] = NewState(x.committee)
    BY <1>4, <2>1, EnteredIsSound, EnteredKeeps
  <2>. HIDE DEF w
  <2>3. NewState(x.committee).committee = x.committee
    BY DEF NewState
  <2>. QED
    BY <1>4, <2>2, <2>3 DEF Manned, Known, Open, w
<1>5. ASSUME NEW v \in Vote
      PROVE  Manned(SeenByVote(m, v))
  <2>. DEFINE known == Learn(turned, v.sender, NewcomerRep)
  <2>0. v.tx \in Tx /\ v.sender \in Node /\ NewcomerRep \in Nat \ {0}
    BY SizeAssumption DEF Vote
  <2>1. SeenByVote(m, v) = Entered(known, v.tx)
    BY DEF SeenByVote
  <2>. HIDE DEF turned
  <2>2. SoundManager(known) /\ Manned(known)
    BY <1>2, <1>3, <2>0
  <2>. HIDE DEF known
  <2>. QED
    BY <1>4, <2>0, <2>1, <2>2
<1>6. ASSUME NEW t \in Tx
      PROVE  Manned(SeenByCheck(m, t))
  BY <1>2, <1>4 DEF SeenByCheck
<1>7. ASSUME NEW n \in Node, NEW r \in Nat \ {0}
      PROVE  Manned(HearAnnounce(m, n, r))
  <2>. DEFINE w == Learn(m, n, r)
  <2>1. SoundManager(w) /\ Manned(w) /\ IsManager(w)
    BY <1>3 DEF SoundManager
  <2>2. HearAnnounce(m, n, r) = SelectCommittee(w)
    BY DEF HearAnnounce
  <2>. HIDE DEF w
  <2>. QED
    BY <2>1, <2>2, ElectionIsAmple DEF Manned
<1>. QED
  BY <1>1, <1>2, <1>5, <1>6, <1>7

\* A vote, or the check of the data, changes no committee and forgets no node.
LEMMA MethodsKeepManned ==
  ASSUME ScoresAreNumbers, NEW m, SoundManager(m), Manned(m)
  PROVE  /\ \A v \in Vote : Manned(HandleMessage(m, v).mgr)
         /\ \A t \in Tx : Manned(MarkValidated(m, t).mgr)
<1>1. ASSUME NEW v \in Vote
      PROVE  Manned(HandleMessage(m, v).mgr)
  <2>. DEFINE seen  == SeenByVote(m, v)
              old   == seen.states[v.tx]
              new   == ProcessMessage(old, v.phase, v.sender)
              done  == [seen EXCEPT !.states[v.tx] = new]
              given == Rewarded(done, v.tx, new.phase, v.sender)
              w     == HandleMessage(m, v).mgr
  <2>0. v.tx \in Tx /\ v.sender \in Node /\ v.phase \in VotePhase
    BY DEF Vote
  <2>1. /\ SoundManager(seen) /\ IsManager(seen) /\ SoundState(old) /\ old.phase # "None"
        /\ Manned(seen)
    <3>1. SoundManager(seen) /\ Manned(seen)
      BY SeenEntries, SeenIsManned
    <3>2. old = IF Turned(m, v.tx).phase = "None" THEN NewState(seen.committee)
                ELSE Turned(m, v.tx)
      BY <2>0, SeenEntries
    <3>3. NewState(seen.committee).phase # "None"
      BY DEF NewState
    <3>. HIDE DEF seen
    <3>. QED
      BY <2>0, <3>1, <3>2, <3>3 DEF SoundManager
  <2>2. w \in {seen, done, given}
    BY DEF HandleMessage, SeenByVote, Outcome, Announced
  <2>. HIDE DEF seen
  <2>3. new \in TxState /\ new.committee = old.committee
    <3>. HIDE DEF old
    <3>. QED
      BY <2>0, <2>1, ProcessMessageIsSound DEF SoundState
  <2>. HIDE DEF new, w
  <2>4. /\ IsManager(done) /\ done.rep = seen.rep /\ done.committee = seen.committee
        /\ \A t \in Tx : done.states[t] = IF t = v.tx THEN new ELSE seen.states[t]
    BY <2>0, <2>1, <2>3 DEF IsManager
  <2>. HIDE DEF done
  <2>5. Manned(done)
    <3>1. \A t \in Tx : Open(seen, t) => Ample(seen.states[t].committee)
      BY <2>1 DEF Manned
    <3>2. Open(seen, v.tx)
      BY <2>1 DEF Open
    <3>3. \A t \in Tx : Open(done, t) => Ample(done.states[t].committee)
      BY <2>0, <2>3, <2>4, <3>1, <3>2 DEF Open
    <3>. QED
      BY <2>1, <2>4, <3>3 DEF Manned, Known
  <2>6. /\ given.states = done.states /\ given.committee = done.committee
        /\ \A p \in Node : done.rep[p] > 0 => given.rep[p] > 0
    <3>1. CASE new.phase = "Prepare" \/ new.phase = "Commit"
      <4>1. PICK d \in Nat : given = [done EXCEPT !.rep[v.sender] = Adjusted(@, d)]
        BY <3>1, SizeAssumption DEF Rewarded, AdjustReputation
      <4>2. done.rep[v.sender] \in Nat
        BY <2>0, <2>4 DEF IsManager
      <4>3. PICK a \in Nat \ {0} : a = Adjusted(done.rep[v.sender], d)
        <5>1. PICK r \in Nat : r = done.rep[v.sender]
          BY <4>2
        <5>2. d \in Int
          OBVIOUS
        <5>3. Adjusted(r, d) \in Nat \ {0}
          BY <5>2, AdjustedType
        <5>. QED
          BY <5>1, <5>3
      <4>4. given = [done EXCEPT !.rep[v.sender] = a]
        BY <2>4, <4>1, <4>3 DEF IsManager
      <4>. HIDE DEF given
      <4>. QED
        BY <2>4, <4>4 DEF IsManager
    <3>2. CASE new.phase \notin {"Prepare", "Commit"}
      BY <2>4, <3>2 DEF Rewarded, IsManager
    <3>. QED
      BY <3>1, <3>2
  <2>. HIDE DEF given
  <2>7. Manned(given)
    BY <2>5, <2>6 DEF Manned, Known, Open
  <2>. QED
    BY <2>1, <2>2, <2>5, <2>7 DEF w
<1>2. ASSUME NEW t \in Tx
      PROVE  Manned(MarkValidated(m, t).mgr)
  <2>. DEFINE seen == SeenByCheck(m, t)
              done == [seen EXCEPT !.states[t].validated = TRUE]
              next == [done EXCEPT !.states[t].phase = "Prepare"]
              w    == MarkValidated(m, t).mgr
  <2>1. SoundManager(seen) /\ IsManager(seen) /\ Manned(seen)
    BY SeenToCheck, SeenIsManned DEF SoundManager
  <2>2. w \in {done, next} /\ Open(seen, t)
    <3>1. w \in {done, next}
      BY DEF MarkValidated, SeenByCheck, Outcome, Announced
    <3>2. seen.states[t] = IF Turned(m, t).phase = "None" THEN NewState(seen.committee)
                           ELSE Turned(m, t)
      BY SeenToCheck
    <3>3. NewState(seen.committee).phase # "None"
      BY DEF NewState
    <3>. HIDE DEF seen
    <3>. QED
      BY <3>1, <3>2, <3>3 DEF Open
  <2>. HIDE DEF seen, w
  <2>3. /\ done.rep = seen.rep /\ done.committee = seen.committee
        /\ \A u \in Tx : /\ done.states[u].committee = seen.states[u].committee
                         /\ u # t => done.states[u].phase = seen.states[u].phase
    BY <2>1 DEF IsManager, TxState
  <2>4. /\ next.rep = seen.rep /\ next.committee = seen.committee
        /\ \A u \in Tx : /\ next.states[u].committee = seen.states[u].committee
                         /\ u # t => next.states[u].phase = seen.states[u].phase
    BY <2>1 DEF IsManager, TxState
  <2>. HIDE DEF done, next
  <2>. QED
    BY <2>1, <2>2, <2>3, <2>4 DEF Manned, Known, Open, w
<1>. QED
  BY <1>1, <1>2

\* So self-delivery does, and every handler.
LEMMA ChainKeepsManned ==
  ASSUME ScoresAreNumbers, NEW m, SoundManager(m), Manned(m), NEW votes \in SUBSET Vote
  PROVE  Manned(Chain(m, votes).mgr)
<1>1. ASSUME NEW c, Listens(c), Manned(c.mgr)
      PROVE  Listens(Round(c)) /\ Manned(Round(c).mgr)
  <2>1. CASE c.next = {}
    BY <1>1, <2>1 DEF Round
  <2>2. CASE c.next # {}
    <3>. DEFINE v == CHOOSE x \in c.next : TRUE
                h == HandleMessage(c.mgr, v)
    <3>1. SoundManager(c.mgr) /\ v \in Vote
      BY <1>1, <2>2 DEF Listens
    <3>2. Round(c).mgr = h.mgr
      BY <2>2 DEF Round
    <3>. HIDE DEF v
    <3>3. Manned(h.mgr)
      BY <1>1, <3>1, MethodsKeepManned
    <3>. QED
      BY <1>1, <3>2, <3>3, RoundListens
  <2>. QED
    BY <2>1, <2>2
<1>. DEFINE c == [mgr |-> m, next |-> votes, sent |-> {}]
            d == Round(c)
            e == Round(d)
<1>2. Listens(c) /\ Manned(c.mgr)
  BY DEF Listens
<1>. HIDE DEF c
<1>3. Listens(d) /\ Manned(d.mgr)
  BY <1>1, <1>2
<1>. HIDE DEF d
<1>4. Listens(e) /\ Manned(e.mgr)
  BY <1>1, <1>3
<1>. HIDE DEF e
<1>5. Manned(Round(e).mgr)
  BY <1>1, <1>4
<1>. QED
  BY <1>5 DEF Chain, c, d, e

LEMMA HandledIsManned ==
  ASSUME ScoresAreNumbers, NEW m, SoundManager(m), Manned(m), NEW w, Handled(m, w)
  PROVE  Manned(w)
<1>1. ASSUME NEW t \in Tx, w = Chain(MarkValidated(m, t).mgr, MarkValidated(m, t).votes).mgr
      PROVE  Manned(w)
  <2>. DEFINE h == MarkValidated(m, t)
  <2>1. SoundManager(h.mgr) /\ Manned(h.mgr) /\ h.votes \in SUBSET Vote
    BY MarkValidatedIsSound, MethodsKeepManned, MarkValidatedKeeps
  <2>2. w = Chain(h.mgr, h.votes).mgr
    BY <1>1
  <2>. HIDE DEF h
  <2>. QED
    BY <2>1, <2>2, ChainKeepsManned
<1>2. ASSUME NEW v \in Vote, w = Chain(m, {v}).mgr
      PROVE  Manned(w)
  BY <1>2, {v} \in SUBSET Vote, ChainKeepsManned
<1>3. ASSUME NEW v \in Vote, w = Chain(HandleMessage(m, v).mgr, HandleMessage(m, v).votes).mgr
      PROVE  Manned(w)
  <2>. DEFINE h == HandleMessage(m, v)
  <2>1. SoundManager(h.mgr) /\ Manned(h.mgr) /\ h.votes \in SUBSET Vote
    BY HandleMessageIsSound, MethodsKeepManned, HandleMessageKeeps DEF Keeps
  <2>2. w = Chain(h.mgr, h.votes).mgr
    BY <1>3
  <2>. HIDE DEF h
  <2>. QED
    BY <2>1, <2>2, ChainKeepsManned
<1>. QED
  BY <1>1, <1>2, <1>3 DEF Handled

\* No step but a restart makes a manager forget whom its node had met.
LEMMA WorksManned ==
  ASSUME ScoresAreNumbers, NEW m, SoundManager(m), Manned(m), NEW w, Works(m, w)
  PROVE  Manned(w)
<1>0. IsManager(m)
  BY DEF SoundManager
<1>1. CASE Handled(m, w)
  BY <1>1, HandledIsManned
<1>2. ASSUME NEW x, NEW t \in Tx, Handled(m, x), w = Settled(x, t)
      PROVE  Manned(w)
  <2>1. SoundManager(x) /\ IsManager(x) /\ Manned(x)
    BY <1>2, HandledIsSound, HandledIsManned DEF SoundManager
  <2>. DEFINE y == DropState(x, t)
  <2>2. /\ IsManager(y) /\ y.rep = x.rep /\ y.committee = x.committee
        /\ \A u \in Tx : y.states[u] \in {x.states[u], NoState}
    BY <2>1, DropIsSound DEF SoundManager, DropState, IsManager
  <2>. HIDE DEF y
  <2>3. Manned(y)
    BY <2>1, <2>2 DEF Manned, Known, Open, NoState
  <2>4. w \in {x, y} \/ \E a : w = [y EXCEPT !.archive = a]
    BY <1>2 DEF Settled, ArchiveFinalizedState, y
  <2>5. ASSUME NEW a, w = [y EXCEPT !.archive = a]
        PROVE  Manned(w)
    BY <2>2, <2>3, <2>5 DEF Manned, Known, Open, IsManager
  <2>. QED
    BY <2>1, <2>3, <2>4, <2>5
<1>3. ASSUME NEW p \in Node, NEW r \in Nat \ {0}, w = HearAnnounce(m, p, r)
      PROVE  Manned(w)
  BY <1>3, SeenIsManned
<1>4. CASE w = CleanupFinalizedStates(RotateEpoch(m), KeepEpochs)
  <2>. DEFINE x == RotateEpoch(m)
  <2>1. IsManager(x) /\ Manned(x)
    BY RotateEpochIsSound, SeenIsManned DEF SoundManager
  <2>. HIDE DEF x
  <2>2. \E a : w = [x EXCEPT !.archive = a]
    BY <1>4 DEF CleanupFinalizedStates, x
  <2>3. w.states = x.states /\ w.rep = x.rep /\ w.committee = x.committee
    BY <2>1, <2>2 DEF IsManager
  <2>. QED
    BY <2>1, <2>3 DEF Manned, Known, Open
<1>5. CASE w = [m EXCEPT !.due = TRUE]
  BY <1>0, <1>5 DEF Manned, Known, Open, IsManager
<1>6. ASSUME NEW t \in Tx, w = [m EXCEPT !.states[t].timedOut = TRUE]
      PROVE  Manned(w)
  <2>1. w.rep = m.rep /\ w.committee = m.committee
    BY <1>0, <1>6 DEF IsManager
  <2>2. \A u \in Tx : /\ w.states[u].phase = m.states[u].phase
                      /\ w.states[u].committee = m.states[u].committee
    BY <1>0, <1>6 DEF IsManager, TxState
  <2>. QED
    BY <2>1, <2>2 DEF Manned, Known, Open
<1>. QED
  BY <1>1, <1>2, <1>3, <1>4, <1>5, <1>6 DEF Works

\* What a handler leaves that delivers votes backed by B, or data that B has.
HandledUpon(m, w, B) ==
  \/ \E t \in Tx : /\ <<m.id, t>> \in B
                   /\ w = Chain(MarkValidated(m, t).mgr, MarkValidated(m, t).votes).mgr
  \/ \E v \in Vote : /\ <<v.sender, v.tx>> \in B
                     /\ w = Chain(m, {v}).mgr
  \/ \E v \in Vote : /\ <<v.sender, v.tx>> \in B
                     /\ w = Chain(HandleMessage(m, v).mgr, HandleMessage(m, v).votes).mgr

\* It is backed by B, and has the same owner.
LEMMA HandledIsBacked ==
  ASSUME NEW m, SoundManager(m), NEW B, Backed(m, B), NEW w, HandledUpon(m, w, B)
  PROVE  Handled(m, w) /\ Backed(w, B) /\ w.id = m.id
<1>0. m.id \in Node
  BY DEF SoundManager, IsManager
<1>1. ASSUME NEW t \in Tx, <<m.id, t>> \in B,
             w = Chain(MarkValidated(m, t).mgr, MarkValidated(m, t).votes).mgr
      PROVE  Backed(w, B) /\ w.id = m.id
  <2>. DEFINE h == MarkValidated(m, t)
  <2>1. /\ SoundManager(h.mgr) /\ h.mgr.id = m.id
        /\ \A x \in h.votes : x \in Vote /\ x.sender = m.id /\ x.tx = t
        /\ \A u \in Tx :
             /\ h.mgr.states[u].validated => m.states[u].validated \/ u = t
             /\ h.mgr.states[u].prepares \subseteq m.states[u].prepares
             /\ h.mgr.states[u].commits \subseteq m.states[u].commits
    BY MarkValidatedIsSound, MarkValidatedKeeps
  <2>2. w = Chain(h.mgr, h.votes).mgr
    BY <1>1
  <2>. HIDE DEF h
  <2>3. Backed(h.mgr, B)
    BY <1>1, <2>1 DEF Backed
  <2>4. ChainOK([mgr |-> h.mgr, next |-> h.votes, sent |-> {}], m.id, B, {})
    BY <1>1, <2>1, <2>3 DEF ChainOK
  <2>5. ChainOK(Chain(h.mgr, h.votes), m.id, B, {})
    BY <2>4, ChainIsOK
  <2>. QED
    BY <2>2, <2>5 DEF ChainOK
<1>2. ASSUME NEW v \in Vote, <<v.sender, v.tx>> \in B, w = Chain(m, {v}).mgr
      PROVE  Backed(w, B) /\ w.id = m.id
  <2>1. ChainOK([mgr |-> m, next |-> {v}, sent |-> {}], m.id, B, {})
    BY <1>2 DEF ChainOK
  <2>2. ChainOK(Chain(m, {v}), m.id, B, {})
    BY <2>1, ChainIsOK
  <2>. QED
    BY <1>2, <2>2 DEF ChainOK
<1>3. ASSUME NEW v \in Vote, <<v.sender, v.tx>> \in B,
             w = Chain(HandleMessage(m, v).mgr, HandleMessage(m, v).votes).mgr
      PROVE  Backed(w, B) /\ w.id = m.id
  <2>. DEFINE h == HandleMessage(m, v)
  <2>1. SoundManager(h.mgr) /\ h.mgr.id = m.id /\ Keeps(m, v, h) /\ v.tx \in Tx
    BY HandleMessageIsSound, HandleMessageKeeps DEF Vote
  <2>2. w = Chain(h.mgr, h.votes).mgr
    BY <1>3
  <2>. HIDE DEF h
  <2>3. Backed(h.mgr, B)
    BY <1>3, <2>1 DEF Backed, Keeps
  <2>4. \A x \in h.votes : x \in Vote /\ <<x.sender, x.tx>> \in B
    BY <2>1, <2>3 DEF Backed, Keeps
  <2>5. ChainOK([mgr |-> h.mgr, next |-> h.votes, sent |-> {}], m.id, B, {})
    BY <2>1, <2>3, <2>4 DEF ChainOK
  <2>6. ChainOK(Chain(h.mgr, h.votes), m.id, B, {})
    BY <2>5, ChainIsOK
  <2>. QED
    BY <2>2, <2>6 DEF ChainOK
<1>4. Handled(m, w)
  BY DEF HandledUpon, Handled
<1>. QED
  BY <1>1, <1>2, <1>3, <1>4 DEF HandledUpon

\* What a node certifies in a step is Finalized in the manager that a handler
\* of it leaves, of data that has arrived by then.
LEMMA NextCertifies ==
  ASSUME Inv, [Next]_vars, NEW p \in Node, NEW t \in Tx, t \in certified'[p] \ certified[p]
  PROVE  \E w : HandledUpon(mgr[p], w, Reached') /\ w.states[t].phase = "Finalized"
<1>0. /\ certified \in [Node -> SUBSET Tx] /\ net \subseteq Message
      /\ heard \in [Node -> [Tx -> Nat]]
      /\ \A n \in Node : mgr[n].id = n
      /\ \A msg \in net : <<msg.vote.sender, msg.vote.tx>> \in Reached
  BY DEF Inv, TypeInv, Sound, NetBacked
<1>1. ASSUME NEW n \in Node, NEW w, NEW held, NEW finals, Finish(n, w, held, finals)
      PROVE  p = n /\ w.states[t].phase = "Finalized"
  BY <1>0, <1>1 DEF Finish
<1>2. ASSUME NEW n \in Node, NEW u \in Tx, HearTx(n, u)
      PROVE  \E w : HandledUpon(mgr[p], w, Reached') /\ w.states[t].phase = "Finalized"
  <2>. DEFINE first == MarkValidated(mgr[n], u)
              w == Chain(first.mgr, first.votes)
              held == pending[n] \cup {u}
  <2>1. Finish(n, w.mgr, held, w.next) /\ heard' = [heard EXCEPT ![n][u] = @ + 1]
    BY <1>2 DEF HearTx
  <2>2. <<n, u>> \in Reached'
    <3>1. heard[n][u] \in Nat /\ heard'[n][u] = heard[n][u] + 1
      BY <1>0, <2>1
    <3>2. heard'[n][u] > 0
      BY <3>1
    <3>. QED
      BY <3>2 DEF Reached
  <2>3. HandledUpon(mgr[n], w.mgr, Reached')
    BY <1>0, <2>2 DEF HandledUpon
  <2>. HIDE DEF w, held
  <2>4. p = n /\ w.mgr.states[t].phase = "Finalized"
    BY <1>1, <2>1
  <2>. QED
    BY <2>3, <2>4
<1>3. ASSUME NEW msg \in net, HearDirect(msg)
      PROVE  \E w : HandledUpon(mgr[p], w, Reached') /\ w.states[t].phase = "Finalized"
  <2>. DEFINE n == msg.to
              w == Chain(mgr[n], {msg.vote})
              held == pending[n]
  <2>1. n \in Node /\ msg.vote \in Vote /\ <<msg.vote.sender, msg.vote.tx>> \in Reached
    BY <1>0 DEF Message
  <2>2. Finish(n, w.mgr, held, w.next) /\ Reached' = Reached
    BY <1>3 DEF HearDirect, Reached
  <2>3. HandledUpon(mgr[n], w.mgr, Reached')
    BY <2>1, <2>2 DEF HandledUpon
  <2>. HIDE DEF n, w, held
  <2>4. p = n /\ w.mgr.states[t].phase = "Finalized"
    BY <1>1, <2>1, <2>2
  <2>. QED
    BY <2>3, <2>4
<1>4. ASSUME NEW msg \in net, HearGossip(msg)
      PROVE  \E w : HandledUpon(mgr[p], w, Reached') /\ w.states[t].phase = "Finalized"
  <2>. DEFINE n == msg.to
              first == HandleMessage(mgr[n], msg.vote)
              w == Chain(first.mgr, first.votes)
              held == pending[n]
              finals == {msg.vote} \cup w.next
  <2>1. n \in Node /\ msg.vote \in Vote /\ <<msg.vote.sender, msg.vote.tx>> \in Reached
    BY <1>0 DEF Message
  <2>2. Finish(n, w.mgr, held, finals) /\ Reached' = Reached
    BY <1>4 DEF HearGossip, Reached
  <2>3. HandledUpon(mgr[n], w.mgr, Reached')
    BY <2>1, <2>2 DEF HandledUpon
  <2>. HIDE DEF n, w, held, finals
  <2>4. p = n /\ w.mgr.states[t].phase = "Finalized"
    BY <1>1, <2>1, <2>2
  <2>. QED
    BY <2>3, <2>4
<1>5. CASE certified' = certified
  BY <1>5
<1>. QED
  BY <1>2, <1>3, <1>4, <1>5
     DEF Next, vars, history, Submit, HearPeer, EpochTick, EpochExpires, TxExpires, Restart

\* Data that has arrived has arrived for good.
LEMMA HeardGrows ==
  ASSUME Inv, [Next]_vars, NEW p \in Node, NEW t \in Tx
  PROVE  heard[p][t] <= heard'[p][t]
<1>1. heard \in [Node -> [Tx -> Nat]]
  BY DEF Inv, TypeInv
<1>2. ASSUME NEW n \in Node, NEW u \in Tx, HearTx(n, u)
      PROVE  heard[p][t] <= heard'[p][t]
  <2>1. heard' = [heard EXCEPT ![n][u] = @ + 1]
    BY <1>2 DEF HearTx
  <2>2. heard'[p][t] = IF p = n /\ t = u THEN heard[p][t] + 1 ELSE heard[p][t]
    BY <1>1, <2>1
  <2>3. heard[p][t] \in Nat
    BY <1>1
  <2>. QED
    BY <2>2, <2>3
<1>3. CASE heard' = heard
  <2>1. heard[p][t] \in Nat
    BY <1>1
  <2>. QED
    BY <1>3, <2>1
<1>. QED
  BY <1>2, <1>3 DEF Next, vars, history, Submit, HearDirect, HearGossip, HearPeer,
                    EpochTick, EpochExpires, TxExpires, Restart

\* A larger committee asks for no fewer votes.
LEMMA RequiredVotesGrow ==
  ASSUME NEW s \in TxState, NEW C \in SUBSET Node,
         Cardinality(C) <= Cardinality(s.committee)
  PROVE  RequiredVotes(NewState(C)) <= RequiredVotes(s)
<1>1. Cardinality(C) \in Nat /\ Cardinality(s.committee) \in Nat
  BY NodeAssumption, FS_Subset, FS_CardinalityType DEF TxState
<1>2. NewState(C).committee = C
  BY DEF NewState
<1>3. ASSUME NEW a \in Nat, NEW b \in Nat, a <= b
      PROVE  (IF a <= 1 THEN 1 ELSE (2 * a) \div 3 + 1) <= (IF b <= 1 THEN 1 ELSE (2 * b) \div 3 + 1)
  BY <1>3
<1>. QED
  BY <1>1, <1>2, <1>3 DEF RequiredVotes

\* While no node has restarted, those that had met man their managers, and
\* what they certify is shared.
SharedInv ==
  /\ restarts = 0 => \A n \in Met : Manned(mgr[n])
  /\ FinalityIsShared

LEMMA InitShared ==
  ASSUME ScoresAreNumbers
  PROVE  Init => SharedInv
<1>. SUFFICES ASSUME Init PROVE SharedInv
  OBVIOUS
<1>1. ASSUME NEW n \in Met PROVE Manned(mgr[n])
  <2>. DEFINE rep == [p \in Node |-> IF p \in Met THEN InitialRep ELSE 0]
              w == [Fresh(n) EXCEPT !.rep = rep]
  <2>0. n \in Node /\ Met \subseteq Node
    BY SwarmAssumption
  <2>1. mgr[n] = SelectCommittee(w)
    BY <2>0 DEF Init
  <2>2. /\ IsManager(Fresh(n))
        /\ \A t \in Tx : Fresh(n).states[t] = NoState
    BY <2>0, FreshManager DEF SoundManager, Fresh, NewManager
  <2>3. rep \in [Node -> Nat] /\ \A p \in Met : rep[p] > 0
    BY <2>0, SizeAssumption
  <2>. HIDE DEF rep
  <2>4. IsManager(w) /\ w.states = Fresh(n).states /\ w.rep = rep
    BY <2>2, <2>3 DEF IsManager
  <2>. HIDE DEF w
  <2>5. Met \subseteq Known(w) /\ \A t \in Tx : ~Open(w, t)
    BY <2>0, <2>2, <2>3, <2>4 DEF Known, Open, NoState
  <2>. QED
    BY <2>1, <2>4, <2>5, ElectionIsAmple
<1>2. FinalityIsShared
  BY SwarmAssumption DEF Init, FinalityIsShared
<1>. QED
  BY <1>1, <1>2 DEF SharedInv

LEMMA NextShared ==
  ASSUME ScoresAreNumbers
  PROVE  Inv /\ Inv' /\ BoundInv /\ SharedInv /\ [Next]_vars => SharedInv'
<1>. SUFFICES ASSUME Inv, Inv', BoundInv, SharedInv, [Next]_vars, restarts' = 0
              PROVE  /\ \A n \in Met : Manned(mgr'[n])
                     /\ \A n \in Met : \A t \in certified'[n] : \A C \in SUBSET Met :
                          Cardinality(C) <= CommitteeSize =>
                            Cardinality({p \in Node : heard'[p][t] > 0})
                              >= RequiredVotes(NewState(C))
  BY DEF SharedInv, FinalityIsShared
<1>1. restarts = 0 /\ restarts' # restarts + 1
  <2>1. restarts \in Nat
    BY SwarmAssumption DEF BoundInv
  <2>2. restarts' \in {restarts, restarts + 1}
    BY DEF Next, vars, bounds, Submit, HearTx, HearDirect, HearGossip, HearPeer,
           EpochTick, EpochExpires, TxExpires, Restart
  <2>. QED
    BY <2>1, <2>2
<1>2. Met \subseteq Node
  BY SwarmAssumption
<1>3. ASSUME NEW n \in Met
      PROVE  SoundManager(mgr[n]) /\ Manned(mgr[n]) /\ mgr[n].id = n /\ Backed(mgr[n], Reached)
  BY <1>1, <1>2 DEF Inv, Sound, SharedInv
<1>4. ASSUME NEW n \in Met
      PROVE  Manned(mgr'[n])
  <2>1. Works(mgr[n], mgr'[n])
    BY <1>1, <1>2, NextMoves
  <2>. QED
    BY <1>3, <2>1, WorksManned
<1>5. ASSUME NEW n \in Met, NEW t \in certified'[n], NEW C \in SUBSET Met,
             Cardinality(C) <= CommitteeSize
      PROVE  Cardinality({p \in Node : heard'[p][t] > 0}) >= RequiredVotes(NewState(C))
  <2>. DEFINE before == {p \in Node : heard[p][t] > 0}
              after  == {p \in Node : heard'[p][t] > 0}
  <2>1. t \in Tx
    BY <1>2 DEF Inv, TypeInv
  <2>2. /\ before \subseteq after
    <3>1. \A p \in Node : heard[p][t] \in Nat /\ heard'[p][t] \in Nat
                          /\ heard[p][t] <= heard'[p][t]
      BY <2>1, HeardGrows DEF Inv, TypeInv
    <3>. QED
      BY <3>1
  <2>3. after \subseteq Node
    OBVIOUS
  <2>4. C \in SUBSET Node /\ NewState(C) \in TxState
    BY <1>2 DEF NewState, TxState, VotePhase
  <2>5. RequiredVotes(NewState(C)) \in Nat
    BY <2>4, RequiredVotesType
  <2>6. CASE t \in certified[n]
    <3>1. Cardinality(before) >= RequiredVotes(NewState(C))
      BY <1>1, <1>5, <2>6 DEF SharedInv, FinalityIsShared
    <3>. HIDE DEF before, after
    <3>2. IsFiniteSet(after) /\ Cardinality(before) <= Cardinality(after)
          /\ Cardinality(before) \in Nat /\ Cardinality(after) \in Nat
      BY <2>2, <2>3, NodeAssumption, FS_Subset, FS_CardinalityType
    <3>. QED
      BY <2>5, <3>1, <3>2 DEF after
  <2>7. CASE t \notin certified[n]
    <3>1. PICK w : HandledUpon(mgr[n], w, Reached') /\ w.states[t].phase = "Finalized"
      BY <1>2, <2>1, <2>7, NextCertifies
    <3>. DEFINE m == mgr[n]
                s == w.states[t]
    <3>2. SoundManager(m) /\ Manned(m) /\ Backed(m, Reached')
      <4>1. Reached \subseteq Reached'
        <5>1. \A p \in Node, u \in Tx : heard[p][u] \in Nat /\ heard'[p][u] \in Nat
                                        /\ heard[p][u] <= heard'[p][u]
          BY HeardGrows DEF Inv, TypeInv
        <5>. QED
          BY <5>1, ReachedGrows
      <4>. QED
        BY <1>3, <4>1 DEF Backed
    <3>. HIDE DEF m
    <3>3. Handled(m, w) /\ Backed(w, Reached')
      BY <3>1, <3>2, HandledIsBacked DEF m
    <3>4. SoundManager(w) /\ Manned(w)
      BY <3>2, <3>3, HandledIsSound, HandledIsManned
    <3>5. s \in TxState /\ Cardinality(s.prepares) >= RequiredVotes(s) /\ Open(w, t)
          /\ s.prepares \subseteq Node
      BY <2>1, <3>1, <3>4 DEF SoundManager, SoundState, Certified, Open, TxState
    <3>6. s.prepares \subseteq after
      BY <2>1, <3>3, <3>5 DEF Backed, Reached
    <3>7. Cardinality(C) <= Cardinality(s.committee)
      BY <1>5, <2>1, <3>4, <3>5 DEF Manned, Ample
    <3>. HIDE DEF s, after
    <3>8. RequiredVotes(NewState(C)) <= RequiredVotes(s) /\ RequiredVotes(s) \in Nat
      BY <2>4, <3>5, <3>7, RequiredVotesGrow, RequiredVotesType
    <3>9. /\ Cardinality(s.prepares) <= Cardinality(after)
          /\ Cardinality(s.prepares) \in Nat /\ Cardinality(after) \in Nat
      BY <2>3, <3>6, NodeAssumption, FS_Subset, FS_CardinalityType
    <3>. QED
      BY <2>5, <3>5, <3>8, <3>9 DEF after
  <2>. QED
    BY <2>6, <2>7
<1>. QED
  BY <1>4, <1>5

\* Finality is never the work of a few: while no node has restarted, what a
\* node that had met others has certified has reached a quorum of a committee
\* of those it had met, for any number of nodes and seats, whatever is lost,
\* late or repeated, whoever joins and however the committees rotate.
THEOREM FinalityIsSharedHolds ==
  ASSUME ScoresAreNumbers
  PROVE  Spec => []FinalityIsShared
<1>1. SharedInv => FinalityIsShared
  BY DEF SharedInv
<1>2. Init => SharedInv
  BY InitShared
<1>3. Inv /\ Inv' /\ BoundInv /\ SharedInv /\ [Next]_vars => SharedInv'
  BY NextShared
<1>. QED
  BY <1>1, <1>2, <1>3, Invariance, Bounds, PTL DEF Spec

----------------------------------------------------------------------------
(* The refinement of Finality.                                             *)

\* The transactions that a manager has Finalized.
FinalIn(m) == {t \in Tx : m.states[t].phase = "Finalized"}

\* handle_message finalizes the transaction voted on, if any.
LEMMA HandleFinalizes ==
  ASSUME NEW m, SoundManager(m), NEW v \in Vote
  PROVE  FinalIn(HandleMessage(m, v).mgr) \subseteq FinalIn(m) \cup {v.tx}
<1>. DEFINE now   == MaybeRotateEpoch(m)
            known == Learn(now, v.sender, NewcomerRep)
            seen  == Entered(known, v.tx)
            old   == seen.states[v.tx]
            new   == ProcessMessage(old, v.phase, v.sender)
            done  == [seen EXCEPT !.states[v.tx] = new]
            paid  == Rewarded(done, v.tx, new.phase, v.sender)
            h     == HandleMessage(m, v)
<1>0. v.phase \in VotePhase /\ v.tx \in Tx /\ v.sender \in Node
  BY DEF Vote
<1>1. SoundManager(now) /\ \A u \in Tx : now.states[u] \in {m.states[u], NoState}
  BY RotateEpochIsSound, RotationKeeps
<1>2. SoundManager(known) /\ known.states = now.states
  <2>. HIDE DEF now
  <2>. QED
    BY <1>0, <1>1, LearnIsSound, LearnKeeps, SizeAssumption DEF SoundManager
<1>3. /\ SoundManager(seen) /\ old.phase # "None"
      /\ \A u \in Tx : \/ seen.states[u] = known.states[u]
                       \/ seen.states[u] = NewState(known.committee)
  <2>. HIDE DEF known
  <2>1. IsManager(known)
    BY <1>2 DEF SoundManager
  <2>. QED
    BY <1>0, <1>2, <2>1, EnteredIsSound, EnteredKeeps DEF Open
<1>4. new \in TxState
  <2>. HIDE DEF seen
  <2>1. SoundState(old)
    BY <1>0, <1>3 DEF SoundManager
  <2>. HIDE DEF old
  <2>2. SoundState(new)
    BY <1>0, <1>3, <2>1, ProcessMessageIsSound
  <2>. QED
    BY <2>2 DEF SoundState
<1>5. /\ IsManager(done)
      /\ \A u \in Tx : u # v.tx => done.states[u] = seen.states[u]
  <2>. HIDE DEF seen, new
  <2>. QED
    BY <1>0, <1>3, <1>4 DEF SoundManager, IsManager
<1>6. paid.states = done.states
  <2>. HIDE DEF done, new
  <2>. QED
    BY <1>5, RewardedKeeps
<1>7. h.mgr \in {seen, done, paid}
  BY DEF HandleMessage, Outcome, Announced
<1>8. \A u \in Tx : u # v.tx /\ h.mgr.states[u].phase = "Finalized"
                      => m.states[u].phase = "Finalized"
  <2>1. \A u \in Tx : u # v.tx => h.mgr.states[u] = seen.states[u]
    <3>. HIDE DEF seen, done, paid, h
    <3>. QED
      BY <1>5, <1>6, <1>7
  <2>. HIDE DEF h, seen, known, now
  <2>. QED
    BY <1>1, <1>2, <1>3, <2>1 DEF NoState, NewState
<1>. HIDE DEF h
<1>. QED
  BY <1>8 DEF FinalIn, h

\* mark_validated finalizes none but the transaction it is about.
LEMMA MarkFinalizes ==
  ASSUME NEW m, SoundManager(m), NEW t \in Tx
  PROVE  FinalIn(MarkValidated(m, t).mgr) \subseteq FinalIn(m) \cup {t}
<1>. DEFINE now  == MaybeRotateEpoch(m)
            seen == Entered(now, t)
            done == [seen EXCEPT !.states[t].validated = TRUE]
            next == [done EXCEPT !.states[t].phase = "Prepare"]
            h    == MarkValidated(m, t)
<1>1. SoundManager(now) /\ \A u \in Tx : now.states[u] \in {m.states[u], NoState}
  BY RotateEpochIsSound, RotationKeeps
<1>2. IsManager(seen)
      /\ \A u \in Tx : \/ seen.states[u] = now.states[u]
                       \/ seen.states[u] = NewState(now.committee)
  <2>. HIDE DEF now
  <2>. QED
    BY <1>1, EnteredIsSound, EnteredKeeps DEF SoundManager
<1>3. \A u \in Tx : u # t => done.states[u] = seen.states[u] /\ next.states[u] = seen.states[u]
  <2>. HIDE DEF seen
  <2>. QED
    BY <1>2 DEF IsManager, TxState
<1>4. h.mgr \in {done, next}
  BY DEF MarkValidated, Outcome, Announced
<1>5. \A u \in Tx : u # t /\ h.mgr.states[u].phase = "Finalized"
                      => m.states[u].phase = "Finalized"
  <2>. HIDE DEF h, done, next, seen, now
  <2>. QED
    BY <1>1, <1>2, <1>3, <1>4 DEF NoState, NewState
<1>. HIDE DEF h
<1>. QED
  BY <1>5 DEF FinalIn, h

\* Self-delivery stays with one transaction.
About(c, t, F) ==
  /\ SoundManager(c.mgr)
  /\ c.next \subseteq Vote /\ \A v \in c.next : v.tx = t
  /\ FinalIn(c.mgr) \subseteq F \cup {t}

LEMMA RoundIsAbout ==
  ASSUME NEW c, NEW t, NEW F, About(c, t, F)
  PROVE  About(Round(c), t, F)
<1>1. CASE c.next = {}
  BY <1>1 DEF Round
<1>2. CASE c.next # {}
  <2>. DEFINE v == CHOOSE x \in c.next : TRUE
              h == HandleMessage(c.mgr, v)
              d == Round(c)
  <2>1. v \in Vote /\ v.tx = t /\ SoundManager(c.mgr)
    BY <1>2 DEF About
  <2>2. d = [mgr |-> h.mgr, next |-> h.votes, sent |-> c.sent \cup h.votes]
    BY <1>2 DEF Round
  <2>. HIDE DEF d, v
  <2>3. /\ SoundManager(h.mgr) /\ FinalIn(h.mgr) \subseteq FinalIn(c.mgr) \cup {v.tx}
        /\ Keeps(c.mgr, v, h)
    BY <2>1, HandleMessageIsSound, HandleFinalizes, HandleMessageKeeps
  <2>. HIDE DEF h
  <2>4. About(d, t, F)
    BY <2>1, <2>2, <2>3 DEF About, Keeps
  <2>. QED
    BY <2>4 DEF d
<1>. QED
  BY <1>1, <1>2

LEMMA ChainIsAbout ==
  ASSUME NEW m, NEW votes, NEW t, NEW F,
         About([mgr |-> m, next |-> votes, sent |-> {}], t, F)
  PROVE  About(Chain(m, votes), t, F)
<1>. DEFINE c == [mgr |-> m, next |-> votes, sent |-> {}]
<1>1. About(Round(c), t, F)
  BY RoundIsAbout
<1>2. About(Round(Round(c)), t, F)
  <2>. HIDE DEF c
  <2>. QED
    BY <1>1, RoundIsAbout
<1>3. About(Round(Round(Round(c))), t, F)
  <2>. HIDE DEF c
  <2>. QED
    BY <1>2, RoundIsAbout
<1>. QED
  BY <1>3 DEF Chain

\* The methods without votes finalize nothing.
LEMMA OthersFinalizeNone ==
  ASSUME NEW m, SoundManager(m), NEW n \in Node, NEW r \in Nat \ {0}, NEW t \in Tx
  PROVE  /\ FinalIn(HearAnnounce(m, n, r)) \subseteq FinalIn(m)
         /\ FinalIn(CleanupFinalizedStates(RotateEpoch(m), KeepEpochs)) \subseteq FinalIn(m)
         /\ FinalIn(Settled(m, t)) \subseteq FinalIn(m)
         /\ FinalIn([m EXCEPT !.due = TRUE]) \subseteq FinalIn(m)
         /\ FinalIn([m EXCEPT !.states[t].timedOut = TRUE]) \subseteq FinalIn(m)
         /\ FinalIn(Fresh(n)) = {}
<1>0. IsManager(m)
  BY DEF SoundManager
<1>1. FinalIn(HearAnnounce(m, n, r)) \subseteq FinalIn(m)
  <2>. DEFINE w == Learn(m, n, r)
  <2>1. IsManager(w) /\ w.states = m.states
    BY <1>0, LearnIsSound, LearnKeeps DEF SoundManager
  <2>. HIDE DEF w
  <2>2. HearAnnounce(m, n, r).states = m.states
    BY <2>1, SelectKeeps DEF HearAnnounce, w
  <2>. QED
    BY <2>2 DEF FinalIn
<1>2. FinalIn(CleanupFinalizedStates(RotateEpoch(m), KeepEpochs)) \subseteq FinalIn(m)
  <2>. DEFINE w == RotateEpoch(m)
              x == CleanupFinalizedStates(w, KeepEpochs)
  <2>1. IsManager(w) /\ \A u \in Tx : w.states[u] \in {m.states[u], NoState}
    BY RotateEpochIsSound, RotationKeeps DEF SoundManager
  <2>. HIDE DEF w
  <2>2. x.states = w.states
    BY <2>1 DEF CleanupFinalizedStates, IsManager
  <2>. HIDE DEF x
  <2>3. FinalIn(x) \subseteq FinalIn(m)
    BY <2>1, <2>2 DEF FinalIn, NoState
  <2>. QED
    BY <2>3 DEF x, w
<1>3. FinalIn(Settled(m, t)) \subseteq FinalIn(m)
  <2>1. /\ \A u \in Tx : DropState(m, t).states[u] \in {m.states[u], NoState}
        /\ \A u \in Tx : ArchiveFinalizedState(m, t).states[u] \in {m.states[u], NoState}
    BY <1>0 DEF DropState, ArchiveFinalizedState, IsManager
  <2>2. Settled(m, t) \in {m, DropState(m, t), ArchiveFinalizedState(m, t)}
    BY DEF Settled
  <2>. QED
    BY <2>1, <2>2 DEF FinalIn, NoState
<1>4. FinalIn([m EXCEPT !.due = TRUE]) \subseteq FinalIn(m)
  BY <1>0 DEF FinalIn, IsManager
<1>5. FinalIn([m EXCEPT !.states[t].timedOut = TRUE]) \subseteq FinalIn(m)
  BY <1>0 DEF FinalIn, IsManager, TxState
<1>6. FinalIn(Fresh(n)) = {}
  BY DEF FinalIn, Fresh, NewManager, NoState
<1>. QED
  BY <1>1, <1>2, <1>3, <1>4, <1>5, <1>6

\* Whatever a node has Finalized, it has certified.
FinalsInv == \A n \in Node : FinalIn(mgr[n]) \subseteq certified[n]

\* The common end of the handlers is one step of Finality, if what they leave
\* and what they look for finality in is about one transaction.
LEMMA HandlerPromises ==
  ASSUME Inv, Inv', FinalsInv, NEW n \in Node, NEW t \in Tx, NEW m, NEW held \in SUBSET Tx,
         NEW finals, \A v \in finals : v.tx = t,
         SoundManager(m), m.id = n, Backed(m, Reached'),
         FinalIn(m) \subseteq FinalIn(mgr[n]) \cup {t},
         heard' = heard \/ heard' = [heard EXCEPT ![n][t] = @ + 1],
         Finish(n, m, held, finals)
  PROVE  Abstract!Next /\ FinalsInv'
<1>. DEFINE ready == held \cap {v.tx : v \in {w \in finals : w.phase = "Finalized"}}
<1>0. /\ certified \in [Node -> SUBSET Tx] /\ applied \in [Node -> [Tx -> Nat]]
      /\ heard' \in [Node -> [Tx -> Nat]] /\ applied' \in [Node -> [Tx -> Nat]]
      /\ mgr = [p \in Node |-> mgr[p]]
  BY DEF Inv, TypeInv
<1>1. /\ certified' = [certified EXCEPT ![n] = @ \cup FinalIn(m)]
      /\ \/ mgr' = [mgr EXCEPT ![n] = m] /\ UNCHANGED applied
         \/ \E u \in ready : \E ok \in BOOLEAN :
              /\ mgr' = [mgr EXCEPT ![n] = IF ok THEN Settled(m, u) ELSE m]
              /\ applied' = [applied EXCEPT ![n][u] = IF ok THEN @ + 1 ELSE @]
  BY DEF Finish, Outcomes, FinalIn
<1>2. ready \subseteq {t}
  OBVIOUS
<1>. HIDE DEF ready
<1>3. FinalIn(m) \subseteq certified[n] \cup {t} /\ FinalIn(mgr[n]) \subseteq certified[n]
  BY DEF FinalsInv
<1>4. Abstract!Decide(n, t) \/ UNCHANGED certified
  <2>1. CASE t \in FinalIn(m)
    <3>1. m.states[t].validated
      <4>1. m.states[t].phase = "Finalized" /\ Checked(m.states[t])
        BY <2>1 DEF FinalIn, SoundManager, SoundState
      <4>. QED
        BY <4>1 DEF Checked
    <3>2. <<n, t>> \in Reached'
      BY <3>1 DEF Backed
    <3>3. heard'[n][t] > 0
      BY <3>2 DEF Reached
    <3>4. certified' = [certified EXCEPT ![n] = @ \cup {t}]
      <4>1. certified[n] \cup FinalIn(m) = certified[n] \cup {t}
        BY <1>3, <2>1
      <4>. QED
        BY <1>1, <4>1
    <3>. QED
      BY <3>3, <3>4 DEF Abstract!Decide
  <2>2. CASE t \notin FinalIn(m)
    <3>1. certified[n] \cup FinalIn(m) = certified[n]
      BY <1>3, <2>2
    <3>2. certified' = [certified EXCEPT ![n] = certified[n]]
      BY <1>1, <3>1
    <3>. QED
      BY <1>0, <3>2
  <2>. QED
    BY <2>1, <2>2
<1>5. Abstract!Execute(n, t) \/ UNCHANGED applied
  <2>. SUFFICES ASSUME applied' # applied PROVE Abstract!Execute(n, t)
    OBVIOUS
  <2>1. applied' = [applied EXCEPT ![n][t] = @ + 1]
    <3>1. PICK ok \in BOOLEAN : applied' = [applied EXCEPT ![n][t] = IF ok THEN @ + 1 ELSE @]
      BY <1>1, <1>2
    <3>2. CASE ~ok
      <4>1. applied' = applied
        BY <1>0, <3>1, <3>2
      <4>. QED
        BY <4>1
    <3>. QED
      BY <3>1, <3>2
  <2>2. applied'[n][t] = applied[n][t] + 1 /\ applied[n][t] \in Nat /\ heard'[n][t] \in Nat
    BY <1>0, <2>1
  <2>3. applied'[n][t] > 0
    BY <2>2
  <2>4. \E p \in Node : t \in certified'[p]
    BY <2>3 DEF Inv, AppliedIsCertified
  <2>5. applied[n][t] < heard'[n][t]
    <3>1. applied'[n][t] + (IF t \in pending'[n] THEN 1 ELSE 0) <= heard'[n][t]
      BY DEF Inv, AppliedOncePerCopy
    <3>. QED
      BY <2>2, <3>1
  <2>. QED
    BY <2>1, <2>4, <2>5 DEF Abstract!Execute
<1>6. Abstract!Next
  BY <1>4, <1>5 DEF Abstract!Next, Abstract!Receive
<1>7. FinalsInv'
  <2>1. PICK w : mgr' = [mgr EXCEPT ![n] = w] /\ FinalIn(w) \subseteq FinalIn(m)
    <3>1. PICK u \in Tx : mgr' = [mgr EXCEPT ![n] = m] \/ mgr' = [mgr EXCEPT ![n] = Settled(m, u)]
      BY <1>1, <1>2
    <3>2. FinalIn(Settled(m, u)) \subseteq FinalIn(m)
      BY 1 \in Nat \ {0}, OthersFinalizeNone
    <3>. QED
      BY <3>1, <3>2
  <2>. SUFFICES ASSUME NEW p \in Node PROVE FinalIn(mgr'[p]) \subseteq certified'[p]
    BY DEF FinalsInv
  <2>2. CASE p = n
    <3>1. mgr'[n] = w /\ certified'[n] = certified[n] \cup FinalIn(m)
      BY <1>0, <1>1, <2>1
    <3>. QED
      BY <2>1, <2>2, <3>1
  <2>3. CASE p # n
    <3>1. mgr'[p] = mgr[p] /\ certified'[p] = certified[p]
      BY <1>0, <1>1, <2>1, <2>3
    <3>. QED
      BY <3>1 DEF FinalsInv
  <2>. QED
    BY <2>2, <2>3
<1>. QED
  BY <1>6, <1>7

\* A step that Finality does not see, and that finalizes nothing.
LEMMA StepUnseen ==
  ASSUME Inv, FinalsInv, NEW n \in Node, NEW w, FinalIn(w) \subseteq FinalIn(mgr[n]),
         mgr' = [mgr EXCEPT ![n] = w], UNCHANGED history
  PROVE  UNCHANGED Abstract!promises /\ FinalsInv'
<1>1. \A p \in Node : mgr'[p] = IF p = n THEN w ELSE mgr[p]
  BY DEF Inv, TypeInv
<1>2. FinalsInv'
  BY <1>1 DEF FinalsInv, history
<1>. QED
  BY <1>2 DEF history, Abstract!promises

LEMMA InitPromises == Init => Abstract!Init /\ FinalsInv
<1>. SUFFICES ASSUME Init PROVE Abstract!Init /\ FinalsInv
  OBVIOUS
<1>1. Abstract!Init
  BY DEF Init, Abstract!Init, Abstract!None
<1>2. ASSUME NEW n \in Node PROVE FinalIn(mgr[n]) = {}
  <2>1. \A t \in Tx : mgr[n].states[t] = NoState
    <3>. DEFINE w == [Fresh(n) EXCEPT !.rep = [p \in Node |-> IF p \in Met THEN InitialRep ELSE 0]]
    <3>1. /\ mgr[n] \in {SelectCommittee(w), Fresh(n)}
      BY DEF Init
    <3>2. IsManager(w)
      BY <1>2, FreshManager, SizeAssumption, SwarmAssumption DEF SoundManager, IsManager
    <3>3. SelectCommittee(w).states = w.states
      BY <3>2, SelectKeeps
    <3>4. w.states = Fresh(n).states /\ Fresh(n).states = [t \in Tx |-> NoState]
      BY DEF Fresh, NewManager
    <3>. HIDE DEF w
    <3>. QED
      BY <3>1, <3>3, <3>4
  <2>. QED
    BY <2>1 DEF FinalIn, NoState
<1>. QED
  BY <1>1, <1>2 DEF FinalsInv

\* What a handler leaves is its node's, and backed by what has arrived.
LEMMA StepIsBacked ==
  ASSUME Inv, Inv', [Next]_vars, NEW n \in Node, NEW w, HandledUpon(mgr[n], w, Reached')
  PROVE  Backed(w, Reached') /\ w.id = n
<1>1. SoundManager(mgr[n]) /\ mgr[n].id = n /\ Backed(mgr[n], Reached)
  BY DEF Inv, Sound
<1>2. Backed(mgr[n], Reached')
  <2>1. \A p \in Node, u \in Tx : heard[p][u] \in Nat /\ heard'[p][u] \in Nat
                                  /\ heard[p][u] <= heard'[p][u]
    BY HeardGrows DEF Inv, TypeInv
  <2>2. Reached \subseteq Reached'
    BY <2>1, ReachedGrows
  <2>. QED
    BY <1>1, <2>2 DEF Backed
<1>. DEFINE m == mgr[n]
            B == Reached'
<1>. HIDE DEF m, B
<1>3. Backed(w, B) /\ w.id = m.id
  BY <1>1, <1>2, HandledIsBacked DEF m, B
<1>. QED
  BY <1>1, <1>3 DEF m, B

\* Every step is a step of Finality, or one that it does not see.
LEMMA NextPromises ==
  ASSUME Inv, Inv', FinalsInv, [Next]_vars
  PROVE  [Abstract!Next]_(Abstract!promises) /\ FinalsInv'
<1>. DEFINE Kept == [Abstract!Next]_(Abstract!promises) /\ FinalsInv'
<1>0. /\ pending \in [Node -> SUBSET Tx] /\ heard \in [Node -> [Tx -> Nat]]
      /\ net \subseteq Message
      /\ \A n \in Node : SoundManager(mgr[n]) /\ mgr[n].id = n /\ Backed(mgr[n], Reached)
      /\ \A msg \in net : <<msg.vote.sender, msg.vote.tx>> \in Reached
  BY DEF Inv, TypeInv, Sound, NetBacked
<1>1. ASSUME NEW n \in Client, NEW t \in Tx, Submit(n, t)
      PROVE  Kept
  BY <1>1 DEF Submit, local, history, FinalsInv, Abstract!promises
<1>2. ASSUME NEW n \in Node, NEW t \in Tx, HearTx(n, t)
      PROVE  Kept
  <2>. DEFINE first == MarkValidated(mgr[n], t)
              w == Chain(first.mgr, first.votes)
              held == pending[n] \cup {t}
  <2>1. Finish(n, w.mgr, held, w.next) /\ heard' = [heard EXCEPT ![n][t] = @ + 1]
    BY <1>2 DEF HearTx
  <2>2. Handled(mgr[n], w.mgr) /\ held \in SUBSET Tx
    BY <1>0 DEF Handled
  <2>3. About(w, t, FinalIn(mgr[n]))
    <3>1. /\ SoundManager(first.mgr)
          /\ \A x \in first.votes : x \in Vote /\ x.tx = t
          /\ FinalIn(first.mgr) \subseteq FinalIn(mgr[n]) \cup {t}
      BY <1>0, MarkValidatedIsSound, MarkValidatedKeeps, MarkFinalizes
    <3>. HIDE DEF first
    <3>2. About([mgr |-> first.mgr, next |-> first.votes, sent |-> {}], t, FinalIn(mgr[n]))
      BY <3>1 DEF About
    <3>. QED
      BY <3>2, ChainIsAbout
  <2>4. Backed(w.mgr, Reached') /\ w.mgr.id = n
    <3>1. <<n, t>> \in Reached'
      <4>1. heard[n][t] \in Nat /\ heard'[n][t] = heard[n][t] + 1
        BY <1>0, <2>1
      <4>2. heard'[n][t] > 0
        BY <4>1
      <4>. QED
        BY <4>2 DEF Reached
    <3>2. HandledUpon(mgr[n], w.mgr, Reached')
      BY <1>0, <3>1 DEF HandledUpon
    <3>. HIDE DEF w
    <3>. QED
      BY <1>0, <3>2, StepIsBacked
  <2>. HIDE DEF w, held
  <2>5. Abstract!Next /\ FinalsInv'
    BY <2>1, <2>2, <2>3, <2>4, HandlerPromises DEF About
  <2>. QED
    BY <2>5
<1>3. ASSUME NEW msg \in net, HearDirect(msg)
      PROVE  Kept
  <2>. DEFINE n == msg.to
              t == msg.vote.tx
              w == Chain(mgr[n], {msg.vote})
              held == pending[n]
  <2>1. n \in Node /\ msg.vote \in Vote /\ t \in Tx /\ <<msg.vote.sender, t>> \in Reached
    BY <1>0 DEF Message, Vote
  <2>2. Finish(n, w.mgr, held, w.next) /\ heard' = heard
    BY <1>3 DEF HearDirect
  <2>3. About(w, t, FinalIn(mgr[n]))
    <3>1. About([mgr |-> mgr[n], next |-> {msg.vote}, sent |-> {}], t, FinalIn(mgr[n]))
      BY <1>0, <2>1 DEF About
    <3>. QED
      BY <3>1, ChainIsAbout
  <2>4. Backed(w.mgr, Reached') /\ w.mgr.id = n
    <3>1. HandledUpon(mgr[n], w.mgr, Reached')
      BY <2>1, <2>2 DEF HandledUpon, Reached
    <3>. HIDE DEF w
    <3>. QED
      BY <1>0, <2>1, <3>1, StepIsBacked
  <2>5. held \in SUBSET Tx
    BY <1>0, <2>1
  <2>. HIDE DEF n, t, w, held
  <2>6. Abstract!Next /\ FinalsInv'
    BY <2>1, <2>2, <2>3, <2>4, <2>5, HandlerPromises DEF About
  <2>. QED
    BY <2>6
<1>4. ASSUME NEW msg \in net, HearGossip(msg)
      PROVE  Kept
  <2>. DEFINE n == msg.to
              t == msg.vote.tx
              first == HandleMessage(mgr[n], msg.vote)
              w == Chain(first.mgr, first.votes)
              held == pending[n]
              finals == {msg.vote} \cup w.next
  <2>1. n \in Node /\ msg.vote \in Vote /\ t \in Tx /\ <<msg.vote.sender, t>> \in Reached
    BY <1>0 DEF Message, Vote
  <2>2. Finish(n, w.mgr, held, finals) /\ heard' = heard
    BY <1>4 DEF HearGossip
  <2>3. About(w, t, FinalIn(mgr[n]))
    <3>1. /\ SoundManager(first.mgr) /\ Keeps(mgr[n], msg.vote, first)
          /\ FinalIn(first.mgr) \subseteq FinalIn(mgr[n]) \cup {t}
      BY <1>0, <2>1, HandleMessageIsSound, HandleMessageKeeps, HandleFinalizes
    <3>. HIDE DEF first
    <3>2. About([mgr |-> first.mgr, next |-> first.votes, sent |-> {}], t, FinalIn(mgr[n]))
      BY <3>1 DEF About, Keeps
    <3>. QED
      BY <3>2, ChainIsAbout
  <2>4. Backed(w.mgr, Reached') /\ w.mgr.id = n
    <3>1. HandledUpon(mgr[n], w.mgr, Reached')
      BY <2>1, <2>2 DEF HandledUpon, Reached
    <3>. HIDE DEF w
    <3>. QED
      BY <1>0, <2>1, <3>1, StepIsBacked
  <2>5. held \in SUBSET Tx
    BY <1>0, <2>1
  <2>6. \A v \in finals : v.tx = t
    <3>. HIDE DEF w
    <3>. QED
      BY <2>3 DEF About
  <2>. HIDE DEF n, t, w, held, finals
  <2>7. Abstract!Next /\ FinalsInv'
    BY <2>1, <2>2, <2>3, <2>4, <2>5, <2>6, HandlerPromises DEF About
  <2>. QED
    BY <2>7
<1>5. ASSUME NEW n \in Node, NEW p \in Node, HearPeer(n, p)
      PROVE  Kept
  <2>. DEFINE w == HearAnnounce(mgr[n], p, OwnRep(p))
  <2>1. OwnRep(p) \in Nat \ {0}
    BY <1>0, OwnRepType
  <2>2. FinalIn(w) \subseteq FinalIn(mgr[n])
    <3>1. PICK t : t \in Tx \/ Tx = {}
      OBVIOUS
    <3>2. CASE Tx = {}
      BY <3>2 DEF FinalIn
    <3>3. CASE t \in Tx
      BY <1>0, <2>1, <3>3, OthersFinalizeNone
    <3>. QED
      BY <3>1, <3>2, <3>3
  <2>3. mgr' = [mgr EXCEPT ![n] = w] /\ UNCHANGED history
    BY <1>5 DEF HearPeer
  <2>. HIDE DEF w
  <2>. QED
    BY <2>2, <2>3, StepUnseen
<1>6. ASSUME NEW n \in Node, EpochTick(n)
      PROVE  Kept
  <2>. DEFINE w == CleanupFinalizedStates(RotateEpoch(mgr[n]), KeepEpochs)
  <2>1. FinalIn(w) \subseteq FinalIn(mgr[n])
    <3>1. PICK t : t \in Tx \/ Tx = {}
      OBVIOUS
    <3>2. CASE Tx = {}
      BY <3>2 DEF FinalIn
    <3>3. CASE t \in Tx
      BY <1>0, <3>3, 1 \in Nat \ {0}, OthersFinalizeNone
    <3>. QED
      BY <3>1, <3>2, <3>3
  <2>2. mgr' = [mgr EXCEPT ![n] = w] /\ UNCHANGED history
    BY <1>6 DEF EpochTick
  <2>. HIDE DEF w
  <2>. QED
    BY <2>1, <2>2, StepUnseen
<1>7. ASSUME NEW n \in Node, EpochExpires(n)
      PROVE  Kept
  <2>. DEFINE w == [mgr[n] EXCEPT !.due = TRUE]
  <2>1. FinalIn(w) \subseteq FinalIn(mgr[n])
    BY <1>0 DEF FinalIn, SoundManager, IsManager
  <2>2. mgr' = [mgr EXCEPT ![n] = w] /\ UNCHANGED history
    BY <1>7 DEF EpochExpires
  <2>. HIDE DEF w
  <2>. QED
    BY <2>1, <2>2, StepUnseen
<1>8. ASSUME NEW n \in Node, NEW t \in Tx, TxExpires(n, t)
      PROVE  Kept
  <2>. DEFINE w == [mgr[n] EXCEPT !.states[t].timedOut = TRUE]
  <2>1. FinalIn(w) \subseteq FinalIn(mgr[n])
    BY <1>0, 1 \in Nat \ {0}, OthersFinalizeNone
  <2>2. mgr' = [mgr EXCEPT ![n] = w] /\ UNCHANGED history
    BY <1>8 DEF TxExpires
  <2>. HIDE DEF w
  <2>. QED
    BY <2>1, <2>2, StepUnseen
<1>9. ASSUME NEW n \in Node, Restart(n)
      PROVE  Kept
  <2>1. FinalIn(Fresh(n)) \subseteq FinalIn(mgr[n])
    BY DEF FinalIn, Fresh, NewManager, NoState
  <2>2. mgr' = [mgr EXCEPT ![n] = Fresh(n)] /\ UNCHANGED history
    BY <1>9 DEF Restart
  <2>. QED
    BY <2>1, <2>2, StepUnseen
<1>10. CASE UNCHANGED vars
  BY <1>10 DEF vars, local, history, FinalsInv, Abstract!promises
<1>. QED
  BY <1>1, <1>2, <1>3, <1>4, <1>5, <1>6, <1>7, <1>8, <1>9, <1>10 DEF Next

\* For any number of nodes, transactions, repetitions and restarts: one event
\* at a node finalizes and executes one transaction at most, of which the node
\* holds the data, and which some node has final before the end of it
\* (swarm_loop.rs:163-331, 801-1020).
THEOREM FinalityRefinedHolds == Spec => FinalityRefined
<1>1. Init => Abstract!Init /\ FinalsInv
  BY InitPromises
<1>2. Inv /\ Inv' /\ FinalsInv /\ [Next]_vars
        => [Abstract!Next]_(Abstract!promises) /\ FinalsInv'
  BY NextPromises
<1>. QED
  BY <1>1, <1>2, Invariance, PTL DEF Spec, FinalityRefined, Abstract!Spec
=============================================================================
