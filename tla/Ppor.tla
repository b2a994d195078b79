-------------------------------- MODULE Ppor --------------------------------
(***************************************************************************)
(* One PporManager and whoever calls it: every method of the class, with   *)
(* any vote of any node, in any order.  That is what the manager's own     *)
(* guarantees must withstand; what the event loop makes of them is in      *)
(* Swarm.                                                                  *)
(***************************************************************************)
EXTENDS PporManager

CONSTANTS
  Self,           \* the node whose manager this is
  FirstCommittee, \* the committee it is constructed with: main.rs passes {Self}
  AnnouncedRep    \* the reputations a peer may announce

ASSUME SelfAssumption == Self \in Node /\ FirstCommittee \subseteq Node
ASSUME AnnouncedAssumption == AnnouncedRep \subseteq Nat \ {0}

VARIABLE
  mgr             \* the manager

vars == <<mgr>>

Init == mgr = NewManager(Self, FirstCommittee)

\* Bound of the model: reputations stay within MaxRep.
Bounded == \A n \in Node : mgr.rep[n] <= MaxRep

Handle(v) ==
  /\ mgr' = HandleMessage(mgr, v).mgr
  /\ Bounded'

Validate(t) == mgr' = MarkValidated(mgr, t).mgr

OpenAnew(t) == mgr' = Propose(mgr, t).mgr

Hear(n, r) == mgr' = HearAnnounce(mgr, n, r)

\* The two ways handle_finalized_tx gets rid of a transaction it applied.
Drop(t) ==
  /\ Open(mgr, t)
  /\ mgr' = DropState(mgr, t)

Archive(t) ==
  /\ Open(mgr, t)
  /\ mgr' = ArchiveFinalizedState(mgr, t)

\* No code of the repository calls it; the method is public.
Cleanup == mgr' = CleanupTimedOut(mgr)

\* epoch_tick: the cleanup (and the snapshot, which only reads) belongs to the
\* rotations that the tick itself performs.
EpochTick ==
  /\ mgr.due
  /\ mgr' = CleanupFinalizedStates(RotateEpoch(mgr), KeepEpochs)

\* The clocks.
EpochExpires ==
  /\ mgr.epoch < MaxEpoch
  /\ ~mgr.due
  /\ mgr' = [mgr EXCEPT !.due = TRUE]

TxExpires(t) ==
  /\ Open(mgr, t)
  /\ ~mgr.states[t].timedOut
  /\ mgr' = [mgr EXCEPT !.states[t].timedOut = TRUE]

Next ==
  \/ \E v \in Vote : Handle(v)
  \/ \E t \in Tx : Validate(t)
  \/ \E t \in Tx : OpenAnew(t)
  \/ \E n \in Node, r \in AnnouncedRep : Hear(n, r)
  \/ \E t \in Tx : Drop(t)
  \/ \E t \in Tx : Archive(t)
  \/ Cleanup
  \/ EpochTick
  \/ EpochExpires
  \/ \E t \in Tx : TxExpires(t)

Spec == Init /\ [][Next]_vars

----------------------------------------------------------------------------
\* The manager is a manager, and it stays this node's.
TypeOK ==
  /\ IsManager(mgr)
  /\ mgr.archive \in Seq(ArchiveEntry)
  /\ mgr.id = Self

\* A transaction is past a round of votes only if the votes its entry holds
\* are a quorum of that round, for the size of the committee the entry was
\* opened for: no rotation, re-election, early vote or late validation lets
\* it slip through.
QuorumCertificate == \A t \in Tx : Certified(mgr.states[t])

\* However many votes of the others arrive first, a transaction does not leave
\* PrePrepare before this node has checked its data.
ValidatedFirst == \A t \in Tx : Checked(mgr.states[t])

\* Every node that sits on a committee, in office or kept in an entry, and
\* every node whose vote was counted, has a reputation to be adjusted.
VotersAreKnown == AllKnown(mgr)

\* The archive reads as a log: epochs in order, none of the future, and never
\* more entries than the manager allows itself.
ArchiveIsALog ==
  LET a == mgr.archive
  IN  /\ Len(a) <= ArchiveSize
      /\ \A i \in 1..Len(a) : a[i].epoch <= mgr.epoch
      /\ \A i, j \in 1..Len(a) : i < j => a[i].epoch <= a[j].epoch

Rank(phase) ==
  CASE phase = "None"       -> 0
    [] phase = "PrePrepare" -> 1
    [] phase = "Prepare"    -> 2
    [] phase = "Commit"     -> 3
    [] OTHER                -> 4

\* No call takes a phase, a vote or the committee it counts by back from a
\* transaction under way, until the entry is dropped or proposed anew; only a
\* rotation that drops a timed-out entry and the call that caused it may leave
\* another one in its place.
Forward(s, r) ==
  /\ Rank(r.phase) \in {Rank(s.phase), Rank(s.phase) + 1}
  /\ s.prepares \subseteq r.prepares
  /\ s.commits \subseteq r.commits
  /\ s.committee = r.committee

EntriesMoveForward ==
  [][\A t \in Tx : Open(mgr, t) =>
       \/ Forward(mgr.states[t], mgr'.states[t])
       \/ mgr'.states[t] \in {NoState, NewState(mgr.committee)}
       \/ mgr.states[t].timedOut /\ mgr'.epoch > mgr.epoch]_vars

\* The seed of the next election changes only when a transaction of this node
\* is finalized, and only to that transaction.
SeedFollowsFinality ==
  [][mgr'.last # mgr.last =>
       /\ mgr.states[mgr'.last].phase # "Finalized"
       /\ mgr'.states[mgr'.last].phase = "Finalized"]_vars
=============================================================================
