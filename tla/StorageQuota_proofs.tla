------------------------ MODULE StorageQuota_proofs ------------------------
(***************************************************************************)
(* Proofs about the quotas, for any number of requests, users and files,   *)
(* any sizes and limits, and any number of restarts.                       *)
(***************************************************************************)
EXTENDS StorageQuota, FiniteSetTheorems, TLAPS

\* The inductive invariant: requests and the counter are of their type, so
\* that what a user is charged is a size, and nobody is charged beyond the limit.
QuotaInv ==
  /\ used \in 0..(Word - 1)
  /\ job \in [Handler -> Job]
  /\ disk \subseteq File
  /\ ledger \in [Did -> Nat]
  /\ LedgerWithinLimit

LEMMA IdleIsAJob == Idle \in Job
BY QuotaAssumption DEF Idle, Job, Step

LEMMA SizesArePositive ==
  ASSUME QuotaInv, NEW h \in Handler
  PROVE  Bytes(h) \in Nat \ {0} /\ job[h].did \in Did /\ job[h] \in Job
BY QuotaAssumption DEF QuotaInv, Job, Bytes

\* A request that goes on to another step, with another value seen.
LEMMA JobGoesOn ==
  ASSUME QuotaInv, NEW h \in Handler, NEW j \in Job, job' = [job EXCEPT ![h] = j],
         used' \in 0..(Word - 1), disk' \subseteq File, ledger' = ledger
  PROVE  QuotaInv'
BY DEF QuotaInv, LedgerWithinLimit

\* Steps that leave the ledger alone: the loads and exchanges of a request.
LEMMA CounterStep ==
  ASSUME QuotaInv, NEW h \in Handler,
         Load(h) \/ Refuse(h) \/ Exchange(h) \/ Reload(h) \/ Subtract(h)
  PROVE  QuotaInv'
<1>. USE SizesArePositive, QuotaAssumption
<1>0. /\ job[h] \in Job /\ used \in 0..(Word - 1) /\ Bytes(h) \in Nat
      /\ job \in [Handler -> Job] /\ disk' \subseteq File /\ ledger' = ledger
  BY DEF QuotaInv, Load, Refuse, Exchange, Reload, Subtract, records
<1>7. \A j \in Job, t \in Step, n \in 0..(Word - 1) : [j EXCEPT !.step = t, !.seen = n] \in Job
  BY DEF Job
<1>8. 0 \in 0..(Word - 1) /\ job[h].then \in Step
  BY <1>0 DEF Job, Step
<1>1. CASE Load(h) \/ Reload(h)
  <2>1. PICK s \in Step : job' = [job EXCEPT ![h].seen = used, ![h].step = s]
    BY <1>1 DEF Load, Reload, Step
  <2>2. job' = [job EXCEPT ![h] = [job[h] EXCEPT !.seen = used, !.step = s]]
    BY <2>1
  <2>3. [job[h] EXCEPT !.seen = used, !.step = s] \in Job
    BY <1>0 DEF Job
  <2>. QED  BY <1>0, <1>1, <2>2, <2>3, JobGoesOn DEF Load, Reload
<1>2. CASE Refuse(h)
  BY <1>0, <1>2, IdleIsAJob, JobGoesOn DEF Refuse, Finish
<1>3. CASE Exchange(h)
  <2>1. CASE used = job[h].seen
    <3>1. used' = used + Bytes(h) /\ used' \in 0..(Word - 1)
      <4>1. used' = used + Bytes(h) /\ used + Bytes(h) <= MaxBytes
        BY <1>3, <2>1 DEF Exchange
      <4>. QED  BY <1>0, <4>1
    <3>2. job' = [job EXCEPT ![h] = [job[h] EXCEPT !.step = "ask", !.seen = 0]]
      BY <1>3, <2>1 DEF Exchange
    <3>3. [job[h] EXCEPT !.step = "ask", !.seen = 0] \in Job
      BY <1>0, <1>7, <1>8 DEF Step
    <3>. QED  BY <1>0, <3>1, <3>2, <3>3, JobGoesOn
  <2>2. CASE used # job[h].seen
    <3>1. used' = used /\ job' = [job EXCEPT ![h] = [job[h] EXCEPT !.seen = used]]
      BY <1>3, <2>2 DEF Exchange
    <3>2. [job[h] EXCEPT !.seen = used] \in Job
      BY <1>0 DEF Job
    <3>. QED  BY <1>0, <3>1, <3>2, JobGoesOn
  <2>. QED  BY <2>1, <2>2
<1>4. CASE Subtract(h)
  <2>1. used' \in 0..(Word - 1)
    <3>1. job[h].seen \in Int
      BY <1>0 DEF Job
    <3>2. used' = Subtracted(used, Bytes(h), job[h].seen)
      BY <1>4 DEF Subtract
    <3>. QED  BY <1>0, <3>1, <3>2 DEF Subtracted
  <2>2. PICK j \in Job : job' = [job EXCEPT ![h] = j]
    <3>1. CASE job[h].then = "idle"
      <4>1. job' = [job EXCEPT ![h] = Idle]
        BY <1>4, <3>1 DEF Subtract, Finish
      <4>. QED  BY <4>1, IdleIsAJob
    <3>2. CASE job[h].then # "idle"
      <4>1. job' = [job EXCEPT ![h] = [job[h] EXCEPT !.step = job[h].then, !.seen = 0]]
        BY <1>4, <3>2 DEF Subtract
      <4>2. [job[h] EXCEPT !.step = job[h].then, !.seen = 0] \in Job
        BY <1>0, <1>7, <1>8
      <4>. QED  BY <4>1, <4>2
    <3>. QED  BY <3>1, <3>2
  <2>. QED  BY <1>0, <2>1, <2>2, JobGoesOn
<1>. QED  BY <1>1, <1>2, <1>3, <1>4

\* Steps of a request that has room, is given up or repays: what is added fits
\* the limit, whoever else is asking.
LEMMA LedgerStep ==
  ASSUME QuotaInv, NEW h \in Handler,
         Granted(h) \/ NotGranted(h) \/ HangUp(h) \/ Repay(h)
  PROVE  QuotaInv'
<1>1. /\ job[h] \in Job /\ job[h].did \in Did /\ Bytes(h) \in Nat
      /\ job \in [Handler -> Job] /\ ledger \in [Did -> Nat] /\ used' = used /\ disk' = disk
  BY SizesArePositive DEF QuotaInv, Granted, NotGranted, HangUp, Repay, records
<1>. DEFINE d == job[h].did
<1>2. job' \in [Handler -> Job]
  <2>1. CASE HangUp(h) \/ Repay(h)
    BY <1>1, <2>1, IdleIsAJob DEF HangUp, Repay, Finish
  <2>2. CASE Granted(h) \/ NotGranted(h)
    <3>1. PICK s \in Step : job' = [job EXCEPT ![h] = [job[h] EXCEPT !.step = s]]
      BY <2>2 DEF Granted, NotGranted, Goto, Step
    <3>2. [job[h] EXCEPT !.step = s] \in Job
      BY <1>1 DEF Job
    <3>. QED  BY <1>1, <3>1, <3>2
  <2>. QED  BY <2>1, <2>2
<1>3. PICK n \in Nat : /\ ledger' = [ledger EXCEPT ![d] = n]
                      /\ n <= UserMax
  <2>1. ledger[d] \in Nat /\ ledger[d] <= UserMax
    BY <1>1 DEF QuotaInv, LedgerWithinLimit
  <2>2. CASE ledger' = ledger
    BY <1>1, <2>1, <2>2
  <2>3. CASE Room(d, Bytes(h)) /\ ledger' = [ledger EXCEPT ![d] = @ + Bytes(h)]
    <3>1. ledger[d] + Bytes(h) <= UserMax /\ ledger[d] + Bytes(h) \in Nat
      BY <1>1, <2>1, <2>3 DEF Room
    <3>2. ledger' = [ledger EXCEPT ![d] = ledger[d] + Bytes(h)]
      BY <2>3
    <3>. QED  BY <3>1, <3>2
  <2>4. CASE ledger' = [ledger EXCEPT ![d] = IF @ > Bytes(h) THEN @ - Bytes(h) ELSE 0]
    <3>1. UserMax \in Nat
      BY QuotaAssumption
    <3>2. CASE ledger[d] > Bytes(h)
      <4>1. ledger[d] - Bytes(h) \in Nat /\ ledger[d] - Bytes(h) <= UserMax
        BY <1>1, <2>1, <3>1, <3>2
      <4>2. ledger' = [ledger EXCEPT ![d] = ledger[d] - Bytes(h)]
        BY <2>4, <3>2
      <4>. QED  BY <4>1, <4>2
    <3>3. CASE ~(ledger[d] > Bytes(h))
      <4>1. ledger' = [ledger EXCEPT ![d] = 0]
        BY <2>4, <3>3
      <4>2. 0 <= UserMax
        BY <3>1
      <4>. QED  BY <4>1, <4>2
    <3>. QED  BY <3>2, <3>3
  <2>. QED  BY <2>2, <2>3, <2>4 DEF Granted, NotGranted, HangUp, Repay
<1>. QED  BY <1>1, <1>2, <1>3 DEF QuotaInv, LedgerWithinLimit

\* The swarm loop stores for a request.
LEMMA LoopStep ==
  ASSUME QuotaInv, NEW h \in Handler, Store(h)
  PROVE  QuotaInv'
<1>1. job[h] \in Job /\ used' \in 0..(Word - 1) /\ disk \subseteq File /\ ledger' = ledger
  BY DEF QuotaInv, Store
<1>. QED  BY <1>1, IdleIsAJob, JobGoesOn DEF Store, Put, Finish, Job

LEMMA BeginStep ==
  ASSUME QuotaInv, NEW h \in Handler, NEW d \in Did, NEW f \in File,
         Upload(h, d, f) \/ Delete(h, d, f)
  PROVE  QuotaInv'
<1>1. /\ [Idle EXCEPT !.step = "load", !.did = d, !.file = f] \in Job
      /\ [Idle EXCEPT !.step = "reload", !.did = d, !.file = f, !.then = "repay"] \in Job
  BY IdleIsAJob DEF Job, Step
<1>2. used' \in 0..(Word - 1) /\ disk' \subseteq File /\ ledger' = ledger
  BY DEF QuotaInv, Upload, Delete, records
<1>. QED  BY <1>1, <1>2, JobGoesOn DEF Upload, Delete, Begin

LEMMA QuotaInvStep ==
  ASSUME QuotaInv, [Next]_vars
  PROVE  QuotaInv'
<1>1. ASSUME NEW h \in Handler, Work(h)
      PROVE  QuotaInv'
  BY <1>1, CounterStep, LedgerStep, LoopStep DEF Work
<1>2. ASSUME NEW f \in File, Replicate(f)
      PROVE  QuotaInv'
  BY <1>2 DEF Replicate, Put, QuotaInv, LedgerWithinLimit
<1>3. CASE Restart
  BY <1>3, IdleIsAJob, QuotaAssumption DEF Restart, QuotaInv, LedgerWithinLimit
<1>4. CASE LedgerRestart
  BY <1>4, QuotaAssumption DEF LedgerRestart, records, QuotaInv, LedgerWithinLimit
<1>5. CASE UNCHANGED vars
  BY <1>5 DEF vars, records, QuotaInv, LedgerWithinLimit
<1>. QED  BY <1>1, <1>2, <1>3, <1>4, <1>5, BeginStep, LedgerStep DEF Next

\* No user is ever charged more than the limit on the consensus node, whatever
\* requests run at once, answers are lost and nodes restart (accounting.rs).
THEOREM LedgerWithinLimitHolds == Spec => []LedgerWithinLimit
<1>1. Init => QuotaInv
  BY IdleIsAJob, QuotaAssumption DEF Init, QuotaInv, LedgerWithinLimit
<1>2. QuotaInv /\ [Next]_vars => QuotaInv'
  BY QuotaInvStep
<1>3. QuotaInv => LedgerWithinLimit
  BY DEF QuotaInv
<1>. QED  BY <1>1, <1>2, <1>3, PTL DEF Spec
----------------------------------------------------------------------------
(* Sums.  The community module adds up a function by a recursion over the  *)
(* subsets of its domain.  That there is such a recursion, and that the    *)
(* order does not matter, is proved by induction on the size of a set: a   *)
(* set of naturals that has 0, and n + 1 with each n, is Nat.              *)

\* The recursion by which the community module adds up a function.
Adds(iter, f, S) ==
  iter = [s \in SUBSET S |->
            IF s = {} THEN 0
            ELSE LET x == CHOOSE y \in s : TRUE IN f[x] + iter[s \ {x}]]

LEMMA SumIsAdded ==
  ASSUME NEW f, NEW S
  PROVE  SumFunctionOnSet(f, S) = (CHOOSE iter : Adds(iter, f, S))[S]
BY DEF SumFunctionOnSet, FoldFunctionOnSet, MapThenFoldSet, Adds

\* Every nonempty set of naturals has a least element.
LEMMA LeastNat ==
  ASSUME NEW T \in SUBSET Nat, T # {}
  PROVE  \E n \in T : \A m \in T : ~(m < n)
<1>1. PICK n \in T : \A m \in T : ~(<<m, n>> \in OpToRel(<, Nat))
  BY NatLessThanWellFounded, WFMin
<1>. QED BY <1>1 DEF OpToRel

\* Induction, for a set of naturals instead of a predicate.
LEMMA Induction ==
  ASSUME NEW T \in SUBSET Nat, 0 \in T, \A n \in T : n + 1 \in T
  PROVE  T = Nat
<1>1. SUFFICES ASSUME Nat \ T # {} PROVE FALSE
  OBVIOUS
<1>2. PICK n \in Nat \ T : \A m \in Nat \ T : ~(m < n)
  BY <1>1, LeastNat
<1>3. n # 0 /\ n - 1 \in Nat /\ n - 1 < n
  BY <1>2
<1>4. n - 1 \in T
  BY <1>2, <1>3
<1>5. (n - 1) + 1 \in T
  BY <1>4
<1>. QED BY <1>2, <1>5

LEMMA SumExists ==
  ASSUME NEW f, NEW S, IsFiniteSet(S)
  PROVE  \E iter : Adds(iter, f, S)
<1>. DEFINE Small(n) == {s \in SUBSET S : Cardinality(s) <= n}
            Pick(s) == CHOOSE y \in s : TRUE
            Sums(g, n) == g = [s \in Small(n) |-> IF s = {} THEN 0 ELSE f[Pick(s)] + g[s \ {Pick(s)}]]
            Good == {n \in Nat : \E g : Sums(g, n)}
<1>0. \A s \in SUBSET S : /\ IsFiniteSet(s) /\ Cardinality(s) \in Nat
                          /\ Cardinality(s) = 0 <=> s = {}
  BY FS_Subset, FS_CardinalityType, FS_EmptySet
<1>1. \A s \in SUBSET S : s # {} => /\ Pick(s) \in s
                                    /\ s \ {Pick(s)} \in SUBSET S
                                    /\ Cardinality(s \ {Pick(s)}) = Cardinality(s) - 1
  <2>. SUFFICES ASSUME NEW s \in SUBSET S, s # {}
       PROVE  Pick(s) \in s /\ Cardinality(s \ {Pick(s)}) = Cardinality(s) - 1
    OBVIOUS
  <2>1. Pick(s) \in s
    OBVIOUS
  <2>. QED BY <1>0, <2>1, FS_RemoveElement
<1>. HIDE DEF Pick
<1>2. 0 \in Good
  <2>1. \A s \in Small(0) : s = {}
    BY <1>0
  <2>2. Sums([s \in Small(0) |-> 0], 0)
    BY <2>1
  <2>. QED BY <2>2
<1>3. ASSUME NEW n \in Good PROVE n + 1 \in Good
  <2>1. PICK g : Sums(g, n)
    BY <1>3
  <2>. DEFINE h == [s \in Small(n + 1) |-> IF s = {} THEN 0 ELSE f[Pick(s)] + g[s \ {Pick(s)}]]
  <2>2. \A s \in Small(n) : s \in Small(n + 1) /\ h[s] = g[s]
    <3>1. SUFFICES ASSUME NEW s \in Small(n) PROVE s \in Small(n + 1) /\ h[s] = g[s]
      OBVIOUS
    <3>2. s \in Small(n + 1)
      BY <1>0
    <3>3. g[s] = IF s = {} THEN 0 ELSE f[Pick(s)] + g[s \ {Pick(s)}]
      BY <2>1
    <3>4. h[s] = IF s = {} THEN 0 ELSE f[Pick(s)] + g[s \ {Pick(s)}]
      BY <3>2
    <3>. QED BY <3>2, <3>3, <3>4
  <2>3. \A s \in Small(n + 1) : s # {} => s \ {Pick(s)} \in Small(n)
    BY <1>0, <1>1
  <2>4. Sums(h, n + 1)
    <3>1. \A s \in Small(n + 1) : s # {} => g[s \ {Pick(s)}] = h[s \ {Pick(s)}]
      BY <2>2, <2>3
    <3>. QED BY <3>1
  <2>5. \E k : Sums(k, n + 1)
    <3>. HIDE DEF Sums, h
    <3>. QED BY <2>4
  <2>. HIDE DEF Sums
  <2>. QED BY <2>5
<1>4. Good = Nat
  <2>. HIDE DEF Good
  <2>1. Good \in SUBSET Nat
    BY DEF Good
  <2>. QED BY <1>2, <1>3, <2>1, Induction
<1>5. PICK g : Sums(g, Cardinality(S))
  BY <1>0, <1>4
<1>6. Small(Cardinality(S)) = SUBSET S
  BY FS_Subset
<1>. QED BY <1>5, <1>6 DEF Adds, Pick
\* What the recursion says of one set.
LEMMA SumStep ==
  ASSUME NEW f, NEW S, NEW iter, Adds(iter, f, S), IsFiniteSet(S)
  PROVE  /\ iter[{}] = 0
         /\ \A s \in SUBSET S : s # {} =>
              \E x \in s : /\ x = CHOOSE y \in s : TRUE
                          /\ iter[s] = f[x] + iter[s \ {x}]
<1>1. \A s \in SUBSET S : iter[s] = IF s = {} THEN 0
                                   ELSE LET x == CHOOSE y \in s : TRUE IN f[x] + iter[s \ {x}]
  BY DEF Adds
<1>2. iter[{}] = 0
  BY <1>1
<1>3. ASSUME NEW s \in SUBSET S, s # {}
      PROVE  \E x \in s : x = (CHOOSE y \in s : TRUE) /\ iter[s] = f[x] + iter[s \ {x}]
  <2>. DEFINE x == CHOOSE y \in s : TRUE
  <2>1. x \in s
    BY <1>3
  <2>2. iter[s] = f[x] + iter[s \ {x}]
    BY <1>1, <1>3
  <2>. QED BY <2>1, <2>2
<1>. QED BY <1>2, <1>3

\* Two functions that agree on a set add up to the same there.
LEMMA SumsAgree ==
  ASSUME NEW f, NEW g, NEW S, NEW i, NEW U, NEW j,
         Adds(i, f, S), Adds(j, g, U), IsFiniteSet(S), IsFiniteSet(U),
         NEW W, W \subseteq S, W \subseteq U, \A x \in W : f[x] = g[x]
  PROVE  i[W] = j[W]
<1>. DEFINE Good == {n \in Nat : \A s \in SUBSET W : Cardinality(s) = n => i[s] = j[s]}
<1>0. \A s \in SUBSET W : /\ IsFiniteSet(s) /\ Cardinality(s) \in Nat
                          /\ Cardinality(s) = 0 <=> s = {}
                          /\ \A x \in s : Cardinality(s \ {x}) = Cardinality(s) - 1
  <2>1. IsFiniteSet(W)
    BY FS_Subset
  <2>. QED BY <2>1, FS_Subset, FS_CardinalityType, FS_EmptySet, FS_RemoveElement
<1>1. 0 \in Good
  <2>1. \A s \in SUBSET W : Cardinality(s) = 0 => s = {}
    BY <1>0
  <2>2. i[{}] = 0 /\ j[{}] = 0
    BY SumStep
  <2>. QED BY <2>1, <2>2
<1>2. ASSUME NEW n \in Good PROVE n + 1 \in Good
  <2>. SUFFICES ASSUME NEW s \in SUBSET W, Cardinality(s) = n + 1 PROVE i[s] = j[s]
    OBVIOUS
  <2>0. s # {} /\ s \in SUBSET S /\ s \in SUBSET U
    BY <1>0
  <2>1. PICK x \in s : x = (CHOOSE y \in s : TRUE) /\ i[s] = f[x] + i[s \ {x}]
    <3>. HIDE DEF Good
    <3>. QED BY <2>0, SumStep
  <2>2. j[s] = g[x] + j[s \ {x}]
    <3>1. PICK y \in s : y = (CHOOSE z \in s : TRUE) /\ j[s] = g[y] + j[s \ {y}]
      <4>. HIDE DEF Good
      <4>. QED BY <2>0, SumStep
    <3>. QED BY <2>1, <3>1
  <2>3. Cardinality(s \ {x}) = n
    BY <1>0
  <2>4. i[s \ {x}] = j[s \ {x}]
    BY <2>3
  <2>. QED BY <2>1, <2>2, <2>4
<1>3. Good = Nat
  <2>. HIDE DEF Good
  <2>1. Good \in SUBSET Nat
    BY DEF Good
  <2>. QED BY <1>1, <1>2, <2>1, Induction
<1>. QED BY <1>0, <1>3

\* Integers add up in any order.
LEMMA SumsCommute ==
  ASSUME NEW f, NEW S, NEW i, Adds(i, f, S), IsFiniteSet(S), \A x \in S : f[x] \in Int
  PROVE  \A s \in SUBSET S : i[s] \in Int /\ \A x \in s : i[s] = f[x] + i[s \ {x}]
<1>. DEFINE Fine(s) == i[s] \in Int /\ \A x \in s : i[s] = f[x] + i[s \ {x}]
            Good == {n \in Nat : \A s \in SUBSET S : Cardinality(s) <= n => Fine(s)}
<1>0. \A s \in SUBSET S : /\ IsFiniteSet(s) /\ Cardinality(s) \in Nat
                          /\ Cardinality(s) = 0 <=> s = {}
                          /\ \A x \in s : Cardinality(s \ {x}) = Cardinality(s) - 1
  BY FS_Subset, FS_CardinalityType, FS_EmptySet, FS_RemoveElement
<1>1. 0 \in Good
  <2>1. \A s \in SUBSET S : Cardinality(s) <= 0 => s = {}
    BY <1>0
  <2>2. Fine({})
    BY SumStep
  <2>. HIDE DEF Fine
  <2>. QED BY <2>1, <2>2
<1>2. ASSUME NEW n \in Good PROVE n + 1 \in Good
  <2>1. ASSUME NEW s \in SUBSET S, Cardinality(s) <= n + 1, s # {}
        PROVE  Fine(s)
    <3>1. PICK y \in s : i[s] = f[y] + i[s \ {y}]
      BY <2>1, SumStep
    <3>2. \A t \in SUBSET S : Cardinality(t) <= n => Fine(t)
      OBVIOUS
    <3>. HIDE DEF Good, Fine
    <3>3. \A z \in s : s \ {z} \in SUBSET S /\ Fine(s \ {z})
      <4>. TAKE z \in s
      <4>1. s \ {z} \in SUBSET S /\ Cardinality(s \ {z}) = Cardinality(s) - 1
        BY <1>0
      <4>2. n \in Nat /\ Cardinality(s) \in Nat
        BY <1>0 DEF Good
      <4>3. Cardinality(s \ {z}) <= n
        BY <2>1, <4>1, <4>2
      <4>. QED BY <3>2, <4>1, <4>3
    <3>4. i[s] \in Int
      <4>1. f[y] \in Int /\ i[s \ {y}] \in Int
        BY <3>3 DEF Fine
      <4>. QED BY <3>1, <4>1
    <3>5. ASSUME NEW x \in s, x # y
          PROVE  i[s] = f[x] + i[s \ {x}]
      <4>. DEFINE r == (s \ {y}) \ {x}
      <4>1. r = (s \ {x}) \ {y}
        OBVIOUS
      <4>. HIDE DEF r
      <4>2. i[s \ {y}] = f[x] + i[r]
        BY <3>3, <3>5 DEF Fine, r
      <4>3. i[s \ {x}] = f[y] + i[r]
        BY <3>3, <3>5, <4>1 DEF Fine
      <4>4. i[r] \in Int
        <5>1. r \in SUBSET S /\ Cardinality(r) = Cardinality(s \ {y}) - 1
          BY <1>0, <3>3, <3>5 DEF r
        <5>2. Cardinality(s \ {y}) = Cardinality(s) - 1 /\ Cardinality(s) \in Nat
          BY <1>0
        <5>3. n \in Nat
          BY DEF Good
        <5>4. Cardinality(r) <= n
          BY <2>1, <5>1, <5>2, <5>3
        <5>. QED BY <3>2, <5>1, <5>4 DEF Fine
      <4>5. f[x] \in Int /\ f[y] \in Int
        OBVIOUS
      <4>. QED BY <3>1, <4>2, <4>3, <4>4, <4>5
    <3>. QED BY <3>1, <3>4, <3>5 DEF Fine
  <2>2. Fine({})
    BY SumStep
  <2>3. \A s \in SUBSET S : Cardinality(s) <= n + 1 => Fine(s)
    <3>. HIDE DEF Fine, Good
    <3>. QED BY <2>1, <2>2
  <2>. HIDE DEF Fine
  <2>. QED BY <2>3
<1>3. Good = Nat
  <2>. HIDE DEF Good
  <2>1. Good \in SUBSET Nat
    BY DEF Good
  <2>. QED BY <1>1, <1>2, <2>1, Induction
<1>4. \A s \in SUBSET S : Fine(s)
  <2>. HIDE DEF Fine
  <2>. TAKE s \in SUBSET S
  <2>1. Cardinality(s) \in Good /\ Cardinality(s) <= Cardinality(s)
    BY <1>0, <1>3
  <2>. QED BY <2>1
<1>. QED BY <1>4

\* The module's sum is such a recursion.
LEMMA SumAdds ==
  ASSUME NEW f, NEW S, IsFiniteSet(S)
  PROVE  \E i : Adds(i, f, S) /\ SumFunctionOnSet(f, S) = i[S]
BY SumExists, SumIsAdded

LEMMA SumEmpty == ASSUME NEW f, NEW S, S = {} PROVE SumFunctionOnSet(f, S) = 0
BY SumAdds, SumStep, FS_EmptySet

\* Functions that agree on a finite set have the same sum over it.
LEMMA SumAgree ==
  ASSUME NEW f, NEW g, NEW S, IsFiniteSet(S), \A x \in S : f[x] = g[x]
  PROVE  SumFunctionOnSet(f, S) = SumFunctionOnSet(g, S)
<1>1. PICK i : Adds(i, f, S) /\ SumFunctionOnSet(f, S) = i[S]
  BY SumAdds
<1>2. PICK j : Adds(j, g, S) /\ SumFunctionOnSet(g, S) = j[S]
  BY SumAdds
<1>. QED BY <1>1, <1>2, SumsAgree

\* A sum of integers is one of its values and the sum of the others.
LEMMA SumRemove ==
  ASSUME NEW f, NEW S, IsFiniteSet(S), \A x \in S : f[x] \in Int, NEW x \in S
  PROVE  /\ SumFunctionOnSet(f, S) \in Int
         /\ SumFunctionOnSet(f, S \ {x}) \in Int
         /\ SumFunctionOnSet(f, S) = f[x] + SumFunctionOnSet(f, S \ {x})
<1>0. IsFiniteSet(S \ {x})
  BY FS_RemoveElement
<1>1. PICK i : Adds(i, f, S) /\ SumFunctionOnSet(f, S) = i[S]
  BY SumAdds
<1>2. PICK j : Adds(j, f, S \ {x}) /\ SumFunctionOnSet(f, S \ {x}) = j[S \ {x}]
  BY <1>0, SumAdds
<1>3. i[S \ {x}] = j[S \ {x}]
  BY <1>0, <1>1, <1>2, SumsAgree
<1>4. i[S] \in Int /\ i[S \ {x}] \in Int /\ i[S] = f[x] + i[S \ {x}]
  BY <1>1, SumsCommute
<1>. QED BY <1>1, <1>2, <1>3, <1>4

\* The sum of naturals is one, and no less than each of them.
LEMMA SumOfNats ==
  ASSUME NEW f, NEW S, IsFiniteSet(S), \A x \in S : f[x] \in Nat
  PROVE  /\ SumFunctionOnSet(f, S) \in Nat
         /\ \A x \in S : f[x] <= SumFunctionOnSet(f, S)
<1>. DEFINE Good == {n \in Nat : \A s \in SUBSET S :
                       Cardinality(s) = n => SumFunctionOnSet(f, s) \in Nat}
<1>0. \A s \in SUBSET S : /\ IsFiniteSet(s) /\ Cardinality(s) \in Nat
                          /\ Cardinality(s) = 0 <=> s = {}
                          /\ \A x \in s : Cardinality(s \ {x}) = Cardinality(s) - 1
  BY FS_Subset, FS_CardinalityType, FS_EmptySet, FS_RemoveElement
<1>1. 0 \in Good
  BY <1>0, SumEmpty
<1>2. ASSUME NEW n \in Good PROVE n + 1 \in Good
  <2>. SUFFICES ASSUME NEW s \in SUBSET S, Cardinality(s) = n + 1
       PROVE  SumFunctionOnSet(f, s) \in Nat
    OBVIOUS
  <2>1. PICK x \in s : TRUE
    BY <1>0
  <2>2. Cardinality(s \ {x}) = n /\ s \ {x} \in SUBSET S
    BY <1>0
  <2>3. SumFunctionOnSet(f, s \ {x}) \in Nat
    BY <2>2
  <2>4. SumFunctionOnSet(f, s) = f[x] + SumFunctionOnSet(f, s \ {x})
    BY <1>0, SumRemove
  <2>. QED BY <2>3, <2>4
<1>3. Good = Nat
  <2>. HIDE DEF Good
  <2>1. Good \in SUBSET Nat
    BY DEF Good
  <2>. QED BY <1>1, <1>2, <2>1, Induction
<1>4. \A s \in SUBSET S : SumFunctionOnSet(f, s) \in Nat
  BY <1>0, <1>3
<1>5. ASSUME NEW x \in S PROVE f[x] <= SumFunctionOnSet(f, S)
  <2>1. SumFunctionOnSet(f, S) = f[x] + SumFunctionOnSet(f, S \ {x})
    BY SumRemove
  <2>2. SumFunctionOnSet(f, S \ {x}) \in Nat
    BY <1>4
  <2>. QED BY <2>1, <2>2
<1>. QED BY <1>4, <1>5

LEMMA SumOfZeros ==
  ASSUME NEW f, NEW S, IsFiniteSet(S), \A x \in S : f[x] = 0
  PROVE  SumFunctionOnSet(f, S) = 0
<1>. DEFINE Good == {n \in Nat : \A s \in SUBSET S :
                       Cardinality(s) = n => SumFunctionOnSet(f, s) = 0}
<1>0. \A s \in SUBSET S : /\ IsFiniteSet(s) /\ Cardinality(s) \in Nat
                          /\ Cardinality(s) = 0 <=> s = {}
                          /\ \A x \in s : Cardinality(s \ {x}) = Cardinality(s) - 1
  BY FS_Subset, FS_CardinalityType, FS_EmptySet, FS_RemoveElement
<1>1. 0 \in Good
  BY <1>0, SumEmpty
<1>2. ASSUME NEW n \in Good PROVE n + 1 \in Good
  <2>. SUFFICES ASSUME NEW s \in SUBSET S, Cardinality(s) = n + 1
       PROVE  SumFunctionOnSet(f, s) = 0
    OBVIOUS
  <2>1. PICK x \in s : TRUE
    BY <1>0
  <2>2. SumFunctionOnSet(f, s \ {x}) = 0
    BY <1>0
  <2>3. SumFunctionOnSet(f, s) = f[x] + SumFunctionOnSet(f, s \ {x})
    BY <1>0, SumRemove
  <2>. QED BY <2>2, <2>3
<1>3. Good = Nat
  <2>. HIDE DEF Good
  <2>1. Good \in SUBSET Nat
    BY DEF Good
  <2>. QED BY <1>1, <1>2, <2>1, Induction
<1>. QED BY <1>0, <1>3

\* A function that changes at one place changes its sum by as much.
LEMMA SumChange ==
  ASSUME NEW f, NEW g, NEW S, IsFiniteSet(S), NEW x \in S,
         \A y \in S : f[y] \in Int /\ g[y] \in Int, \A y \in S \ {x} : f[y] = g[y]
  PROVE  SumFunctionOnSet(g, S) = SumFunctionOnSet(f, S) - f[x] + g[x]
<1>1. SumFunctionOnSet(f, S \ {x}) = SumFunctionOnSet(g, S \ {x})
  BY SumAgree, FS_RemoveElement
<1>0. (\A y \in S : f[y] \in Int) /\ (\A y \in S : g[y] \in Int)
  OBVIOUS
<1>2. /\ SumFunctionOnSet(f, S \ {x}) \in Int
      /\ SumFunctionOnSet(f, S) = f[x] + SumFunctionOnSet(f, S \ {x})
  BY <1>0, SumRemove
<1>3. SumFunctionOnSet(g, S) = g[x] + SumFunctionOnSet(g, S \ {x})
  BY <1>0, SumRemove
<1>. QED BY <1>0, <1>1, <1>2, <1>3

----------------------------------------------------------------------------
(* Types, and what is kept.                                                *)

\* What is kept is never less than the uploaded files that are still here: an
\* upload adds its bytes even where the file was here before, and a deletion
\* that removes a file takes its bytes once.  So it is never negative.  And only
\* uploaded files are removed: a record has this node as its publisher only
\* while it is in memory, and from an upload.
KeptInv ==
  /\ own \subseteq memory /\ memory \subseteq disk
  /\ own \subseteq uploaded /\ uploaded \subseteq disk /\ IsFiniteSet(uploaded)
  /\ kept \in Int /\ kept >= SumFunctionOnSet(Size, uploaded)
  /\ requests \in 0..MaxRequests /\ restarts \in 0..MaxRestarts
  /\ replicas \in 0..MaxReplicas
  /\ leaked \in Nat /\ strayed \in BOOLEAN

\* With one more file the sizes add up to its size more, unless it was there.
LEMMA SizesAdd ==
  ASSUME NEW S, S \subseteq File, IsFiniteSet(S), NEW f \in File
  PROVE  /\ SumFunctionOnSet(Size, S) \in Nat
         /\ IsFiniteSet(S \cup {f}) /\ IsFiniteSet(S \ {f})
         /\ SumFunctionOnSet(Size, S \cup {f}) <= SumFunctionOnSet(Size, S) + Size[f]
         /\ f \in S => SumFunctionOnSet(Size, S \ {f}) = SumFunctionOnSet(Size, S) - Size[f]
<1>1. (\A x \in File : Size[x] \in Nat) /\ (\A x \in File : Size[x] \in Int)
  BY QuotaAssumption
<1>2. IsFiniteSet(S \cup {f}) /\ IsFiniteSet(S \ {f})
  BY FS_AddElement, FS_RemoveElement
<1>3. SumFunctionOnSet(Size, S) \in Nat
  BY <1>1, SumOfNats
<1>4. SumFunctionOnSet(Size, S \cup {f}) <= SumFunctionOnSet(Size, S) + Size[f]
  <2>. DEFINE T == S \cup {f}
  <2>. SUFFICES SumFunctionOnSet(Size, T) <= SumFunctionOnSet(Size, S) + Size[f]
    OBVIOUS
  <2>1. CASE f \in S
    <3>1. T = S
      BY <2>1
    <3>. HIDE DEF T
    <3>. QED  BY <1>1, <1>3, <3>1
  <2>2. CASE f \notin S
    <3>. DEFINE R == T \ {f}
    <3>1. R = S /\ f \in T /\ \A x \in T : Size[x] \in Int
      BY <1>1, <2>2
    <3>2. SumFunctionOnSet(Size, T) = Size[f] + SumFunctionOnSet(Size, R)
      BY <1>2, <3>1, SumRemove
    <3>. HIDE DEF R
    <3>. QED  BY <1>1, <1>3, <3>1, <3>2
  <2>. QED  BY <2>1, <2>2
<1>5. ASSUME f \in S
      PROVE  SumFunctionOnSet(Size, S \ {f}) = SumFunctionOnSet(Size, S) - Size[f]
  <2>1. \A x \in S : Size[x] \in Int
    BY <1>1
  <2>2. /\ SumFunctionOnSet(Size, S \ {f}) \in Int
        /\ SumFunctionOnSet(Size, S) = Size[f] + SumFunctionOnSet(Size, S \ {f})
    BY <1>5, <2>1, SumRemove
  <2>. QED  BY <1>1, <2>2
<1>. QED  BY <1>2, <1>3, <1>4, <1>5

LEMMA KeptInvStep ==
  ASSUME QuotaInv, KeptInv, [Next]_vars
  PROVE  KeptInv'
<1>. USE QuotaAssumption
<1>0. uploaded \subseteq File /\ IsFiniteSet(uploaded) /\ kept \in Int
  BY DEF QuotaInv, KeptInv
<1>1. ASSUME NEW h \in Handler, Work(h)
      PROVE  KeptInv'
  <2>1. CASE Store(h)
    <3>. DEFINE f == job[h].file
    <3>1. f \in File /\ Bytes(h) = Size[f] /\ Bytes(h) \in Nat
      BY SizesArePositive DEF QuotaInv, Job, Bytes
    <3>2. /\ SumFunctionOnSet(Size, uploaded) \in Nat /\ IsFiniteSet(uploaded \cup {f})
          /\ SumFunctionOnSet(Size, uploaded \cup {f}) <= SumFunctionOnSet(Size, uploaded) + Bytes(h)
          /\ SumFunctionOnSet(Size, uploaded \cup {f}) \in Nat
      <4>1. IsFiniteSet(uploaded \cup {f}) /\ uploaded \cup {f} \subseteq File
        BY <1>0, <3>1, SizesAdd
      <4>. QED  BY <1>0, <3>1, <4>1, SizesAdd
    <3>3. kept + Bytes(h) >= SumFunctionOnSet(Size, uploaded \cup {f})
      BY <1>0, <3>1, <3>2 DEF KeptInv
    <3>4. /\ Put(f, TRUE) /\ kept' = kept + Bytes(h) /\ uploaded' = uploaded \cup {f}
          /\ UNCHANGED <<counters, leaked, strayed>>
      BY <2>1 DEF Store
    <3>5. /\ own' \subseteq memory' /\ memory' \subseteq disk'
          /\ own' \subseteq uploaded' /\ uploaded' \subseteq disk'
      BY <3>4 DEF Put, KeptInv
    <3>. QED  BY <1>0, <3>1, <3>2, <3>3, <3>4, <3>5 DEF KeptInv, counters
  <2>2. CASE ~Store(h)
    BY <1>1, <2>2
       DEF Work, Load, Refuse, Exchange, Reload, Subtract, Granted, NotGranted, Repay,
           KeptInv, records, counters, history
  <2>. QED  BY <2>1, <2>2
<1>2. ASSUME NEW h \in Handler, HangUp(h)
      PROVE  KeptInv'
  BY <1>2, SizesArePositive DEF HangUp, KeptInv, records, counters
<1>3. ASSUME NEW h \in Handler, NEW d \in Did, NEW f \in File, Upload(h, d, f)
      PROVE  KeptInv'
  BY <1>3 DEF Upload, Begin, KeptInv, records, history
<1>4. ASSUME NEW h \in Handler, NEW d \in Did, NEW f \in File, Delete(h, d, f)
      PROVE  KeptInv'
  <2>1. /\ requests' \in 0..MaxRequests /\ restarts' = restarts /\ replicas' = replicas
        /\ leaked' = leaked
    BY <1>4 DEF Delete, Begin, KeptInv
  <2>2. CASE f \in own
    <3>1. /\ disk' = disk \ {f} /\ memory' = memory \ {f} /\ own' = own \ {f}
          /\ kept' = kept - Size[f] /\ uploaded' = uploaded \ {f} /\ strayed' = strayed
      BY <1>4, <2>2 DEF Delete
    <3>2. f \in uploaded
      BY <2>2 DEF KeptInv
    <3>3. /\ SumFunctionOnSet(Size, uploaded \ {f}) = SumFunctionOnSet(Size, uploaded) - Size[f]
          /\ SumFunctionOnSet(Size, uploaded) \in Nat /\ IsFiniteSet(uploaded \ {f}) /\ Size[f] \in Nat
      BY <1>0, <3>2, SizesAdd
    <3>4. kept - Size[f] \in Int /\ kept - Size[f] >= SumFunctionOnSet(Size, uploaded \ {f})
      BY <1>0, <3>3 DEF KeptInv
    <3>5. /\ own' \subseteq memory' /\ memory' \subseteq disk'
          /\ own' \subseteq uploaded' /\ uploaded' \subseteq disk'
      BY <3>1 DEF KeptInv
    <3>. QED  BY <2>1, <3>1, <3>3, <3>4, <3>5 DEF KeptInv
  <2>3. CASE f \notin own
    BY <1>4, <2>1, <2>3 DEF Delete, KeptInv, records
  <2>. QED  BY <2>2, <2>3
<1>5. ASSUME NEW f \in File, Replicate(f)
      PROVE  KeptInv'
  <2>1. /\ own' \subseteq memory' /\ memory' \subseteq disk'
        /\ own' \subseteq uploaded /\ uploaded \subseteq disk'
    BY <1>5 DEF Replicate, Put, KeptInv
  <2>. QED  BY <1>5, <2>1 DEF Replicate, KeptInv, history
<1>6. CASE Restart
  BY <1>6 DEF Restart, KeptInv
<1>7. CASE LedgerRestart
  BY <1>7 DEF LedgerRestart, KeptInv, records, history
<1>8. CASE UNCHANGED vars
  BY <1>8 DEF vars, KeptInv, records, counters, history
<1>. QED  BY <1>1, <1>2, <1>3, <1>4, <1>5, <1>6, <1>7, <1>8 DEF Next

LEMMA TypesFollow ==
  ASSUME QuotaInv, KeptInv
  PROVE  TypeOK
<1>1. uploaded \subseteq File /\ IsFiniteSet(uploaded)
  BY DEF QuotaInv, KeptInv
<1>2. SumFunctionOnSet(Size, uploaded) \in Nat
  <2>1. File # {}
    BY QuotaAssumption
  <2>. QED  BY <1>1, <2>1, SizesAdd
<1>3. kept \in Nat
  BY <1>2 DEF KeptInv
<1>. QED  BY <1>3 DEF TypeOK, QuotaInv, KeptInv

LEMMA InitialTypes == Init => QuotaInv /\ KeptInv
<1>1. ASSUME Init PROVE QuotaInv
  BY <1>1, IdleIsAJob, QuotaAssumption DEF Init, QuotaInv, LedgerWithinLimit
<1>2. ASSUME Init PROVE KeptInv
  <2>1. SumFunctionOnSet(Size, uploaded) = 0 /\ IsFiniteSet(uploaded)
    BY <1>2, SumEmpty, FS_EmptySet DEF Init
  <2>2. /\ own \subseteq memory /\ memory \subseteq disk
        /\ own \subseteq uploaded /\ uploaded \subseteq disk
    BY <1>2 DEF Init
  <2>3. /\ kept = 0 /\ leaked = 0 /\ strayed = FALSE
        /\ requests = 0 /\ restarts = 0 /\ replicas = 0
    BY <1>2 DEF Init
  <2>4. strayed \in BOOLEAN /\ leaked \in Nat
    BY <2>3
  <2>5. requests \in 0..MaxRequests /\ restarts \in 0..MaxRestarts /\ replicas \in 0..MaxReplicas
    BY <2>3, QuotaAssumption
  <2>6. kept \in Int /\ kept >= SumFunctionOnSet(Size, uploaded)
    BY <2>1, <2>3
  <2>. QED  BY <2>1, <2>2, <2>4, <2>5, <2>6 DEF KeptInv
<1>. QED  BY <1>1, <1>2

\* Every variable keeps its type; the counter stays a 64-bit word and the
\* bytes of the uploads kept stay a natural number (quota.rs, main.rs).
THEOREM TypeOKHolds == Spec => []TypeOK
<1>1. (QuotaInv /\ KeptInv) /\ [Next]_vars => (QuotaInv /\ KeptInv)'
  BY QuotaInvStep, KeptInvStep
<1>2. QuotaInv /\ KeptInv => TypeOK
  BY TypesFollow
<1>. QED  BY <1>1, <1>2, InitialTypes, PTL DEF Spec

----------------------------------------------------------------------------
(* The counter.                                                            *)

\* On a node without restarts and stray deletions the counter is exact, and a
\* release that has loaded it has seen at least the bytes it gives back: the
\* smaller of the two, which it subtracts, is then what it holds.
CountInv ==
  /\ CounterIsExact
  /\ ~strayed => \A h \in Handler : At(h, "subtract") => job[h].seen >= Bytes(h)

LEMMA HeldIsNat ==
  ASSUME QuotaInv
  PROVE  /\ Held \in [Handler -> Nat]
         /\ \A h \in Handler : Held[h] <= SumFunction(Held)
         /\ SumFunction(Held) \in Nat
<1>1. \A h \in Handler : Bytes(h) \in Nat
  BY SizesArePositive
<1>2. Held \in [Handler -> Nat]
  BY <1>1 DEF Held
<1>3. IsFiniteSet(Handler)
  BY QuotaAssumption
<1>4. /\ SumFunctionOnSet(Held, Handler) \in Nat
      /\ \A h \in Handler : Held[h] <= SumFunctionOnSet(Held, Handler)
  BY <1>2, <1>3, SumOfNats
<1>5. SumFunction(Held) = SumFunctionOnSet(Held, Handler)
  BY <1>2 DEF SumFunction
<1>. QED  BY <1>2, <1>4, <1>5

\* A step of one request changes what is held by what that request holds.
LEMMA HeldChanges ==
  ASSUME QuotaInv, QuotaInv', NEW h \in Handler, NEW j, job' = [job EXCEPT ![h] = j]
  PROVE  SumFunction(Held)' = SumFunction(Held) - Held[h] + Held'[h]
<1>1. Held \in [Handler -> Nat] /\ Held' \in [Handler -> Nat]
  <2>1. Held \in [Handler -> Nat]
    BY HeldIsNat
  <2>2. \A g \in Handler : job'[g] \in Job
    BY DEF QuotaInv
  <2>3. \A g \in Handler : Bytes(g)' \in Nat
    BY <2>2, QuotaAssumption DEF Job, Bytes
  <2>. QED  BY <2>1, <2>3 DEF Held
<1>2. \A g \in Handler \ {h} : Held[g] = Held'[g]
  <2>1. \A g \in Handler \ {h} : job'[g] = job[g]
    BY DEF QuotaInv
  <2>. QED  BY <2>1 DEF Held, Bytes
<1>3. \A g \in Handler : Held[g] \in Int /\ Held'[g] \in Int
  BY <1>1
<1>4. IsFiniteSet(Handler)
  BY QuotaAssumption
<1>5. SumFunctionOnSet(Held', Handler) = SumFunctionOnSet(Held, Handler) - Held[h] + Held'[h]
  BY <1>2, <1>3, <1>4, SumChange
<1>6. /\ SumFunction(Held) = SumFunctionOnSet(Held, Handler)
      /\ SumFunction(Held)' = SumFunctionOnSet(Held', Handler)
  BY <1>1 DEF SumFunction
<1>. QED  BY <1>5, <1>6

\* A step of one request keeps the counter exact when the counter and what is
\* kept or leaked change by what the request holds, and what it has seen covers
\* a release.
LEMMA CountBalances ==
  ASSUME QuotaInv, QuotaInv', KeptInv, KeptInv', CountInv, ~strayed,
         NEW h \in Handler, NEW j \in Job, job' = [job EXCEPT ![h] = j],
         used' - used = (kept' - kept) + (leaked' - leaked) + (Held'[h] - Held[h]),
         j.step = "subtract" => j.seen >= Size[j.file]
  PROVE  CountInv'
<1>1. /\ used \in Int /\ used' \in Int /\ kept \in Int /\ kept' \in Int
      /\ leaked \in Int /\ leaked' \in Int
      /\ SumFunction(Held) \in Int /\ Held[h] \in Int /\ Held'[h] \in Int
  <2>1. SumFunction(Held) \in Int /\ Held[h] \in Int
    BY HeldIsNat
  <2>2. job'[h] \in Job /\ Size[job'[h].file] \in Int
    BY QuotaAssumption DEF QuotaInv, Job
  <2>. QED  BY <2>1, <2>2 DEF QuotaInv, KeptInv, Held, Bytes
<1>2. SumFunction(Held)' = SumFunction(Held) - Held[h] + Held'[h]
  BY HeldChanges
<1>3. used = kept + leaked + SumFunction(Held)
  BY DEF CountInv, CounterIsExact
<1>4. used' = kept' + leaked' + SumFunction(Held)'
  <2>. DEFINE more == (kept' - kept) + (leaked' - leaked)
  <2>1. more \in Int /\ used' - used = more + (Held'[h] - Held[h])
    BY <1>1
  <2>2. kept' + leaked' = kept + leaked + more /\ kept + leaked \in Int
    BY <1>1
  <2>. HIDE DEF more
  <2>3. used' = (kept + leaked + more) + SumFunction(Held)'
    BY <1>1, <1>2, <1>3, <2>1, <2>2
  <2>. QED  BY <2>2, <2>3
<1>5. SumFunctionOnSet(Size, uploaded)' <= kept'
  <2>1. uploaded' \subseteq File /\ IsFiniteSet(uploaded')
    BY DEF QuotaInv, KeptInv
  <2>2. File # {}
    BY QuotaAssumption
  <2>3. SumFunctionOnSet(Size, uploaded') \in Nat
    BY <2>1, <2>2, SizesAdd
  <2>. QED  BY <1>1, <2>3 DEF KeptInv
<1>6. \A g \in Handler : At(g, "subtract")' => job'[g].seen >= Bytes(g)'
  <2>1. \A g \in Handler : job'[g] = IF g = h THEN j ELSE job[g]
    BY DEF QuotaInv
  <2>. QED  BY <2>1 DEF CountInv, At, Bytes
<1>. QED  BY <1>4, <1>5, <1>6 DEF CountInv, CounterIsExact

LEMMA JobMoves ==
  ASSUME NEW j \in Job, NEW t \in Step, NEW n \in 0..(Word - 1)
  PROVE  /\ [j EXCEPT !.step = t, !.seen = n] \in Job
         /\ [j EXCEPT !.step = t, !.seen = n].step = t
         /\ [j EXCEPT !.step = t, !.seen = n].file = j.file
BY DEF Job

\* A request at a given step holds its bytes or none.
LEMMA HeldAt ==
  ASSUME QuotaInv, QuotaInv', NEW h \in Handler, NEW j, job' = [job EXCEPT ![h] = j]
  PROVE  /\ Held[h] = IF job[h].step \in {"ask", "swarm", "reload", "subtract"} THEN Bytes(h) ELSE 0
         /\ Held'[h] = IF j.step \in {"ask", "swarm", "reload", "subtract"} THEN Size[j.file] ELSE 0
BY DEF Held, Bytes, QuotaInv

LEMMA CountInvStep ==
  ASSUME QuotaInv, QuotaInv', KeptInv, KeptInv', CountInv, [Next]_vars
  PROVE  CountInv'
<1>. USE QuotaAssumption
<1>a. CASE strayed'
  BY <1>a DEF CountInv, CounterIsExact
<1>b. CASE ~strayed' /\ UNCHANGED vars
  <2>1. Held' = Held
    BY <1>b DEF vars, Held, Bytes
  <2>. QED  BY <1>b, <2>1 DEF vars, history, CountInv, CounterIsExact, SumFunction, At, Bytes
<1>c. CASE ~strayed' /\ Next
  <2>0. /\ ~strayed /\ used \in 0..(Word - 1) /\ kept \in Int /\ leaked \in Nat
        /\ \A h \in Handler : /\ job[h] \in Job /\ Bytes(h) \in Nat /\ Bytes(h) = Size[job[h].file]
                              /\ job[h].seen \in Nat
    <3>1. ~strayed
      BY <1>c DEF Next, Upload, Delete, Work, Load, Refuse, Exchange, Reload, Subtract, Granted,
             NotGranted, HangUp, Store, Repay, Replicate, Restart, LedgerRestart, history
    <3>. QED  BY <3>1, SizesArePositive DEF QuotaInv, KeptInv, Bytes, Job
  <2>1. ASSUME NEW h \in Handler, Work(h)
        PROVE  CountInv'
    <3>0. job[h] \in Job /\ Bytes(h) \in Nat /\ Bytes(h) = Size[job[h].file] /\ job[h].seen \in Nat
      BY <2>0
    <3>1. CASE Load(h) \/ Reload(h)
      <4>1. PICK s \in {"exchange", "subtract"} :
              /\ job' = [job EXCEPT ![h] = [job[h] EXCEPT !.seen = used, !.step = s]]
              /\ s = "subtract" <=> job[h].step = "reload"
              /\ s = "exchange" <=> job[h].step = "load"
              /\ used' = used /\ kept' = kept /\ leaked' = leaked
        BY <3>1 DEF Load, Reload, At, history
      <4>. DEFINE j == [job[h] EXCEPT !.seen = used, !.step = s]
      <4>2. j \in Job /\ j.step = s /\ j.seen = used /\ j.file = job[h].file
        BY <2>0, <3>0 DEF Job, Step
      <4>6. job' = [job EXCEPT ![h] = j]
        BY <4>1
      <4>. HIDE DEF j
      <4>3. Held'[h] = Held[h]
        <5>1. CASE s = "subtract"
          <6>1. Held[h] = Bytes(h)
            BY <4>1, <5>1 DEF Held
          <6>2. j.step = "subtract"
            BY <4>2, <5>1
          <6>3. Held'[h] = Size[j.file]
            BY <4>6, <6>2, HeldAt
          <6>. QED  BY <3>0, <4>2, <6>1, <6>3
        <5>2. CASE s = "exchange"
          BY <3>0, <4>1, <4>2, <4>6, <5>2, HeldAt
        <5>. QED  BY <5>1, <5>2
      <4>4. s = "subtract" => used >= Bytes(h)
        <5>1. ASSUME s = "subtract" PROVE used >= Bytes(h)
          <6>1. Held[h] = Bytes(h)
            BY <4>1, <5>1 DEF Held
          <6>2. Bytes(h) <= SumFunction(Held) /\ SumFunction(Held) \in Nat
            BY <6>1, HeldIsNat
          <6>3. kept \in Nat
            BY TypesFollow DEF TypeOK
          <6>. QED  BY <2>0, <3>0, <6>2, <6>3 DEF CountInv, CounterIsExact
        <5>. QED  BY <5>1
      <4>5. Held[h] \in Int
        BY HeldIsNat
      <4>7. used' - used = (kept' - kept) + (leaked' - leaked) + (Held'[h] - Held[h])
        BY <2>0, <3>0, <4>1, <4>2, <4>3, <4>4, <4>5, <4>6
      <4>9. j.step = "subtract" => j.seen >= Size[j.file]
        BY <2>0, <3>0, <4>1, <4>2, <4>3, <4>4, <4>5, <4>6
      <4>. QED  BY <2>0, <3>0, <4>1, <4>2, <4>3, <4>4, <4>5, <4>6, <4>7, <4>9, CountBalances
    <3>2. CASE Refuse(h) \/ Repay(h)
      <4>1. job' = [job EXCEPT ![h] = Idle] /\ used' = used /\ kept' = kept /\ leaked' = leaked
        BY <3>2 DEF Refuse, Repay, Finish, history
      <4>2. Held'[h] = 0 /\ Held[h] = 0
        BY <3>2, <4>1, HeldAt DEF Refuse, Repay, At, Idle
      <4>3. Idle.step # "subtract"
        BY DEF Idle
      <4>7. used' - used = (kept' - kept) + (leaked' - leaked) + (Held'[h] - Held[h])
        BY <2>0, <4>1, <4>2, <4>3
      <4>9. Idle.step = "subtract" => Idle.seen >= Size[Idle.file]
        BY <2>0, <4>1, <4>2, <4>3 DEF Idle
      <4>. QED  BY <2>0, <4>1, <4>2, <4>3, IdleIsAJob, <4>7, <4>9, CountBalances
    <3>3. CASE Exchange(h)
      <4>1. CASE used = job[h].seen
        <5>. DEFINE j == [job[h] EXCEPT !.step = "ask", !.seen = 0]
        <5>1. /\ job' = [job EXCEPT ![h] = j]
              /\ used' = used + Bytes(h) /\ kept' = kept /\ leaked' = leaked /\ job[h].step = "exchange"
          BY <3>3, <4>1 DEF Exchange, history, At
        <5>2. j \in Job /\ j.step = "ask" /\ j.file = job[h].file
          <6>1. "ask" \in Step /\ 0 \in 0..(Word - 1)
            BY DEF Step
          <6>. QED  BY <3>0, <6>1, JobMoves
        <5>. HIDE DEF j
        <5>3. Held'[h] = Bytes(h) /\ Held[h] = 0
          BY <3>0, <5>1, <5>2, HeldAt
        <5>7. used' - used = (kept' - kept) + (leaked' - leaked) + (Held'[h] - Held[h])
          BY <2>0, <3>0, <5>1, <5>2, <5>3
        <5>9. j.step = "subtract" => j.seen >= Size[j.file]
          BY <2>0, <3>0, <5>1, <5>2, <5>3
        <5>. QED  BY <2>0, <3>0, <5>1, <5>2, <5>3, <5>7, <5>9, CountBalances
      <4>2. CASE used # job[h].seen
        <5>. DEFINE j == [job[h] EXCEPT !.seen = used]
        <5>1. /\ job' = [job EXCEPT ![h] = j]
              /\ used' = used /\ kept' = kept /\ leaked' = leaked /\ job[h].step = "exchange"
          BY <3>3, <4>2 DEF Exchange, history, At
        <5>2. j \in Job /\ j.step = "exchange"
          BY <2>0, <3>0, <5>1 DEF Job
        <5>. HIDE DEF j
        <5>3. Held'[h] = 0 /\ Held[h] = 0
          BY <5>1, <5>2, HeldAt
        <5>7. used' - used = (kept' - kept) + (leaked' - leaked) + (Held'[h] - Held[h])
          BY <2>0, <5>1, <5>2, <5>3
        <5>9. j.step = "subtract" => j.seen >= Size[j.file]
          BY <2>0, <5>1, <5>2, <5>3
        <5>. QED  BY <2>0, <5>1, <5>2, <5>3, <5>7, <5>9, CountBalances
      <4>. QED  BY <4>1, <4>2
    <3>4. CASE Subtract(h)
      <4>1. job[h].step = "subtract" /\ job[h].seen >= Bytes(h) /\ kept' = kept /\ leaked' = leaked
        BY <2>0, <3>4 DEF Subtract, At, CountInv, history
      <4>2. used >= Bytes(h)
        <5>1. Held[h] = Bytes(h)
          BY <4>1 DEF Held
        <5>2. Bytes(h) <= SumFunction(Held) /\ SumFunction(Held) \in Nat
          BY <5>1, HeldIsNat
        <5>3. kept \in Nat
          BY TypesFollow DEF TypeOK
        <5>. QED  BY <2>0, <3>0, <5>2, <5>3 DEF CountInv, CounterIsExact
      <4>3. used' = used - Bytes(h)
        <5>1. used' = Subtracted(used, Bytes(h), job[h].seen)
          BY <3>4 DEF Subtract
        <5>2. (IF Bytes(h) < job[h].seen THEN Bytes(h) ELSE job[h].seen) = Bytes(h)
          BY <3>0, <4>1
        <5>3. used - Bytes(h) \in 0..(Word - 1)
          BY <2>0, <3>0, <4>2
        <5>4. \A n \in 0..(Word - 1) : n % Word = n
          OBVIOUS
        <5>. QED  BY <5>1, <5>2, <5>3, <5>4 DEF Subtracted
      <4>4. PICK j \in Job : /\ job' = [job EXCEPT ![h] = j]
                             /\ j.step \in {"idle", "repay"}
        <5>1. CASE job[h].then = "idle"
          BY <3>4, <5>1, IdleIsAJob DEF Subtract, Finish, Idle
        <5>2. CASE job[h].then # "idle"
          <6>1. job' = [job EXCEPT ![h] = [job[h] EXCEPT !.step = job[h].then, !.seen = 0]]
            BY <3>4, <5>2 DEF Subtract
          <6>2. job[h].then \in Step /\ job[h].then \in {"idle", "repay"} /\ 0 \in 0..(Word - 1)
            BY <3>0 DEF Job, Step
          <6>3. /\ [job[h] EXCEPT !.step = job[h].then, !.seen = 0] \in Job
                /\ [job[h] EXCEPT !.step = job[h].then, !.seen = 0].step = job[h].then
            <7>1. \A t \in Step : /\ [job[h] EXCEPT !.step = t, !.seen = 0] \in Job
                                 /\ [job[h] EXCEPT !.step = t, !.seen = 0].step = t
              <8>1. job[h] \in Job /\ 0 \in 0..(Word - 1)
                BY <3>0, <6>2
              <8>. QED  BY <8>1 DEF Job
            <7>. QED  BY <6>2, <7>1
          <6>. QED  BY <6>1, <6>2, <6>3
        <5>. QED  BY <5>1, <5>2
      <4>5. Held'[h] = 0 /\ Held[h] = Bytes(h)
        BY <4>1, <4>4, HeldAt
      <4>7. used' - used = (kept' - kept) + (leaked' - leaked) + (Held'[h] - Held[h])
        BY <2>0, <3>0, <4>1, <4>3, <4>4, <4>5
      <4>9. j.step = "subtract" => j.seen >= Size[j.file]
        BY <2>0, <3>0, <4>1, <4>3, <4>4, <4>5
      <4>. QED  BY <2>0, <3>0, <4>1, <4>3, <4>4, <4>5, <4>7, <4>9, CountBalances
    <3>5. CASE Granted(h) \/ NotGranted(h)
      <4>1. PICK j \in Job : /\ job' = [job EXCEPT ![h] = j]
                             /\ j.step \in {"swarm", "reload"} /\ j.file = job[h].file
        <5>1. PICK s \in {"swarm", "reload"} : job' = [job EXCEPT ![h] = [job[h] EXCEPT !.step = s]]
          BY <3>5 DEF Granted, NotGranted, Goto
        <5>2. /\ [job[h] EXCEPT !.step = s] \in Job
              /\ [job[h] EXCEPT !.step = s].step = s
              /\ [job[h] EXCEPT !.step = s].file = job[h].file
          BY <3>0 DEF Job, Step
        <5>. QED  BY <5>1, <5>2
      <4>2. used' = used /\ kept' = kept /\ leaked' = leaked /\ job[h].step = "ask"
        BY <3>5 DEF Granted, NotGranted, history, At
      <4>3. Held'[h] = Bytes(h) /\ Held[h] = Bytes(h)
        BY <3>0, <4>1, <4>2, HeldAt
      <4>7. used' - used = (kept' - kept) + (leaked' - leaked) + (Held'[h] - Held[h])
        BY <2>0, <3>0, <4>1, <4>2, <4>3
      <4>9. j.step = "subtract" => j.seen >= Size[j.file]
        BY <2>0, <3>0, <4>1, <4>2, <4>3
      <4>. QED  BY <2>0, <3>0, <4>1, <4>2, <4>3, <4>7, <4>9, CountBalances
    <3>6. CASE Store(h)
      <4>1. /\ job' = [job EXCEPT ![h] = Idle] /\ used' = used /\ kept' = kept + Bytes(h) /\ leaked' = leaked
            /\ job[h].step = "swarm"
        BY <3>6 DEF Store, Finish, At
      <4>2. Held'[h] = 0 /\ Held[h] = Bytes(h)
        BY <4>1, HeldAt DEF Idle
      <4>7. used' - used = (kept' - kept) + (leaked' - leaked) + (Held'[h] - Held[h])
        BY <2>0, <3>0, <4>1, <4>2
      <4>9. Idle.step = "subtract" => Idle.seen >= Size[Idle.file]
        BY <2>0, <3>0, <4>1, <4>2 DEF Idle
      <4>. QED  BY <2>0, <3>0, <4>1, <4>2, IdleIsAJob, <4>7, <4>9, CountBalances
    <3>. QED  BY <2>1, <3>1, <3>2, <3>3, <3>4, <3>5, <3>6 DEF Work
  <2>7. ASSUME NEW h \in Handler, HangUp(h)
        PROVE  CountInv'
    <3>1. /\ job' = [job EXCEPT ![h] = Idle] /\ used' = used /\ kept' = kept
          /\ leaked' = leaked + Bytes(h) /\ job[h].step \in {"ask", "reload"}
      BY <2>7 DEF HangUp, Finish, At
    <3>2. Held'[h] = 0 /\ Held[h] = Bytes(h) /\ Bytes(h) \in Nat
      BY <2>0, <3>1, HeldAt DEF Idle
    <3>3. used' - used = (kept' - kept) + (leaked' - leaked) + (Held'[h] - Held[h])
      BY <2>0, <3>1, <3>2
    <3>4. Idle.step # "subtract"
      BY DEF Idle
    <3>. QED  BY <2>0, <3>1, <3>3, <3>4, IdleIsAJob, CountBalances
  <2>2. ASSUME NEW h \in Handler, NEW d \in Did, NEW f \in File, Upload(h, d, f)
        PROVE  CountInv'
    <3>. DEFINE j == [Idle EXCEPT !.step = "load", !.did = d, !.file = f]
    <3>1. j \in Job /\ j.step = "load"
      BY IdleIsAJob DEF Job, Step
    <3>. HIDE DEF j
    <3>2. job' = [job EXCEPT ![h] = j] /\ used' = used /\ kept' = kept /\ leaked' = leaked /\ job[h].step = "idle"
      BY <2>2 DEF Upload, Begin, history, At, j
    <3>3. Held'[h] = 0 /\ Held[h] = 0
      BY <3>1, <3>2, HeldAt
    <3>4. used' - used = (kept' - kept) + (leaked' - leaked) + (Held'[h] - Held[h])
      BY <2>0, <3>2, <3>3
    <3>6. j.step = "subtract" => j.seen >= Size[j.file]
      BY <3>1
    <3>. QED  BY <2>0, <3>1, <3>2, <3>4, <3>6, CountBalances
  <2>3. ASSUME NEW h \in Handler, NEW d \in Did, NEW f \in File, Delete(h, d, f)
        PROVE  CountInv'
    <3>. DEFINE j == [Idle EXCEPT !.step = "reload", !.did = d, !.file = f, !.then = "repay"]
    <3>1. j \in Job /\ j.step = "reload" /\ j.file = f
      BY IdleIsAJob DEF Job, Step
    <3>. HIDE DEF j
    <3>2. /\ job' = [job EXCEPT ![h] = j] /\ used' = used /\ job[h].step = "idle"
          /\ kept' = kept - Size[f] /\ leaked' = leaked /\ Size[f] \in Nat
      BY <1>c, <2>3 DEF Delete, Begin, At, j
    <3>3. Held'[h] = Size[f] /\ Held[h] = 0
      BY <3>1, <3>2, HeldAt
    <3>7. used' - used = (kept' - kept) + (leaked' - leaked) + (Held'[h] - Held[h])
      BY <2>0, <3>1, <3>2, <3>3
    <3>9. j.step = "subtract" => j.seen >= Size[j.file]
      BY <2>0, <3>1, <3>2, <3>3
    <3>. QED  BY <2>0, <3>1, <3>2, <3>3, <3>7, <3>9, CountBalances
  <2>4. ASSUME NEW f \in File, Replicate(f)
        PROVE  CountInv'
    BY <2>4 DEF Replicate, CountInv, CounterIsExact, Held, At, Bytes, history
  <2>5. CASE LedgerRestart
    BY <2>5 DEF LedgerRestart, CountInv, CounterIsExact, Held, At, Bytes, history
  <2>6. ~Restart
    BY <1>c DEF Restart
  <2>. QED  BY <1>c, <2>1, <2>2, <2>3, <2>4, <2>5, <2>6, <2>7 DEF Next
<1>. QED  BY <1>a, <1>b, <1>c

LEMMA InitialCount == ASSUME Init PROVE CountInv
<1>1. QuotaInv
  BY InitialTypes
<1>2. \A h \in Handler : Held[h] = 0
  BY DEF Init, Held, Idle
<1>3. SumFunction(Held) = 0
  <2>. DEFINE none == [h \in Handler |-> 0]
  <2>0. Held = none
    BY <1>2 DEF Held
  <2>1. IsFiniteSet(Handler)
    BY QuotaAssumption
  <2>2. ASSUME NEW S \in SUBSET Handler PROVE SumFunctionOnSet(none, S) = 0
    <3>1. IsFiniteSet(S)
      BY <2>1, FS_Subset
    <3>. QED  BY <3>1, SumOfZeros
  <2>. QED  BY <2>0, <2>2 DEF SumFunction
<1>4. \A h \in Handler : ~At(h, "subtract")
  BY DEF Init, At, Idle
<1>5. SumFunctionOnSet(Size, uploaded) = 0
  BY SumEmpty DEF Init
<1>. QED  BY <1>3, <1>4, <1>5 DEF Init, CountInv, CounterIsExact

\* Until the node restarts or a deletion gives back bytes for a manifest that it
\* leaves here, the counter is the bytes kept, those of requests under way and
\* those left by clients that hung up, for any number of requests and in any
\* order of their loads, exchanges and subtractions (quota.rs).  It counts every
\* uploaded file that is still here, also one whose manifest found no room in
\* memory or was overwritten by another node (network.rs, HybridStore).
THEOREM CounterIsExactHolds == Spec => []CounterIsExact
<1>. DEFINE Inv == QuotaInv /\ KeptInv /\ CountInv
<1>1. Init => Inv
  BY InitialTypes, InitialCount
<1>2. Inv /\ [Next]_vars => Inv'
  BY QuotaInvStep, KeptInvStep, CountInvStep
<1>3. Inv => CounterIsExact
  BY DEF CountInv
<1>. QED  BY <1>1, <1>2, <1>3, PTL DEF Spec
=============================================================================
