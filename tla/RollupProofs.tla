---------------------------- MODULE RollupProofs ----------------------------
(***************************************************************************)
(* The rollup queue and the promotion of its results, for any workers,     *)
(* promoters, minutes and bounds.                                          *)
(***************************************************************************)
EXTENDS CanonicalPromotion, WellFoundedInduction, FiniteSetTheorems, TLAPS

(***************************************************************************)
(* The queue: type correctness, and freshness of its results when no       *)
(* ingestion transaction commits between a worker's snapshot and its       *)
(* claim.                                                                  *)
(***************************************************************************)

\* Integer division finds the multiple of P below m.
LEMMA DivisionFindsMultiple ==
    ASSUME NEW P \in Nat \ {0}, NEW q \in Nat, NEW m \in Nat, q * P <= m, m < q * P + P
    PROVE  m \div P = q
BY SMT

\* Every job is one the trigger may create, and its bucket starts at a multiple of its length.
LEMMA JobShape ==
    ASSUME NEW j \in Jobs
    PROVE  /\ \/ MeanRollup /\ j.kind = "mean_rollup" /\ j.res \in {"15min", "1h"}
              \/ PeakFeature /\ j.kind = "peak_feature" /\ j.res = "15min"
           /\ j = [kind |-> j.kind, res |-> j.res, bucket |-> j.bucket]
           /\ \E q \in Nat : j.bucket = q * Points(j.res)
<1>1. PICK n \in Minutes : j \in JobsOf(n) BY DEF Jobs
<1>2. Points15 \in Nat \ {0} /\ Points1h \in Nat \ {0} BY PointsAssumption
<1>3. LastMinute \in Nat /\ n \in Nat BY QueueBoundAssumption DEF Minutes
<1>4. n \div Points15 \in Nat /\ n \div Points1h \in Nat BY <1>2, <1>3
<1> QED BY <1>1, <1>4 DEF JobsOf, Job, BucketStart, Points

\* A minute in the window of a job makes that job dirty: the trigger and the worker
\* agree on the buckets.
LEMMA WindowIsDirtied ==
    ASSUME NEW j \in Jobs, NEW m \in Window(j)
    PROVE  j \in JobsOf(m)
<1>1. Points15 \in Nat \ {0} /\ Points1h \in Nat \ {0} BY PointsAssumption
<1>2. m \in Minutes /\ m \in Nat /\ j.bucket <= m /\ m < j.bucket + Points(j.res)
  BY QueueBoundAssumption DEF Window, Minutes
<1>3. PICK q \in Nat : j.bucket = q * Points(j.res) BY JobShape
<1>4. Points(j.res) \in Nat \ {0} BY <1>1 DEF Points
<1>5. m \div Points(j.res) = q BY <1>2, <1>3, <1>4, DivisionFindsMultiple
<1>6. BucketStart(j.res, m) = j.bucket BY <1>3, <1>5 DEF BucketStart
<1> QED BY <1>6, JobShape DEF JobsOf, Job

\* Empty tables are well typed.
LEMMA QueueTypeInit == Init => TypeOK
BY QueueBoundAssumption DEF Init, TypeOK, MinuteTables, QueueTables

\* The trigger's upserts, the claims and the rollups keep every table well-formed.
LEMMA QueueTypeStep == TypeOK /\ [Next]_vars => TypeOK'
<1> SUFFICES ASSUME TypeOK, [Next]_vars PROVE TypeOK'
  OBVIOUS
<1>1. ASSUME NEW t \in Writers, NEW m \in Minutes, NEW v \in Values \cup {Null}, TriggerExecute(t, m, v)
      PROVE TypeOK'
  BY <1>1, QueueBoundAssumption DEF TriggerExecute, TypeOK, SourceRows, CheckRows
<1>2. ASSUME NEW t \in Writers, TriggerCommit(t) PROVE TypeOK'
  <2> DEFINE m == txn[t].minute
  <2>1. m \in Minutes /\ txn[t].value \in Values \cup {Null} BY <1>2 DEF TriggerCommit, TypeOK
  <2>2. UpsertMinute(minute[m], txn[t].value) \in MinuteRows
    BY <2>1 DEF TypeOK, UpsertMinute, MinuteTables, MinuteRows
  <2>3. minute' \in MinuteTables BY <1>2, <2>1, <2>2 DEF TriggerCommit, TypeOK, MinuteTables
  <2>4. queue' \in QueueTables BY <1>2 DEF TriggerCommit, TypeOK, QueueTables, MarkDirty
  <2> QED BY <1>2, <2>3, <2>4 DEF TriggerCommit, TypeOK
<1>3. ASSUME NEW t \in Writers, TriggerRollback(t) PROVE TypeOK'
  BY <1>3 DEF TriggerRollback, TypeOK
<1>4. ASSUME NEW w \in Workers, NEW cut \in Cuts, WorkerSnapshot(w, cut) PROVE TypeOK'
  BY <1>4 DEF WorkerSnapshot, TypeOK, ingest
<1>5. ASSUME NEW w \in Workers, WorkerClaim(w) PROVE TypeOK'
  <2>1. PICK S \in FirstBatch(Claimable(w)) : claimed' = [claimed EXCEPT ![w] = S] BY <1>5 DEF WorkerClaim
  <2>2. S \subseteq Jobs BY DEF FirstBatch, Claimable
  <2> QED BY <1>5, <2>1, <2>2 DEF WorkerClaim, TypeOK, ingest
<1>6. ASSUME NEW w \in Workers, WorkerCommit(w) PROVE TypeOK'
  <2>1. snap[w].minute \in MinuteTables BY <1>6 DEF WorkerCommit, TypeOK
  <2>2. \A j \in Jobs : SourceIn(snap[w].minute, j) \in SourceRows(j)
    BY <2>1 DEF SourceIn, SourceRows, MinuteTables, Window
  <2>3. \A j \in Jobs : out'[j] \in SourceRows(j) \cup {NoRow} BY <1>6, <2>2 DEF WorkerCommit, TypeOK
  <2>4. \A j \in Jobs : CheckOf(SourceIn(snap[w].minute, j)) \in CheckRows(j)
    BY <2>2 DEF CheckOf, CheckRows
  <2>5. \A j \in Jobs : checks'[j] \in Seq(CheckRows(j)) BY <1>6, <2>4 DEF WorkerCommit, TypeOK
  <2>6. queue' \in QueueTables BY <1>6 DEF WorkerCommit, TypeOK, QueueTables
  <2> QED BY <1>6, <2>3, <2>5, <2>6 DEF WorkerCommit, TypeOK, ingest
<1>7. ASSUME NEW w \in Workers, WorkerRollback(w) PROVE TypeOK'
  BY <1>7, QueueBoundAssumption DEF WorkerRollback, TypeOK, ingest
<1>8. CASE UNCHANGED vars
  BY <1>8 DEF vars, TypeOK
<1> QED BY <1>1, <1>2, <1>3, <1>4, <1>5, <1>6, <1>7, <1>8 DEF Next, IngestStep, WorkerStep

\* Type correctness of the queue.
THEOREM QueueTypeCorrect == Spec => []TypeOK
BY QueueTypeInit, QueueTypeStep, PTL DEF Spec

\* Where the upsert of one minute leaves a source as it was.
LEMMA SourceElsewhere ==
    ASSUME TypeOK, NEW t \in Writers, TriggerCommit(t), NEW j \in Jobs, j \notin JobsOf(txn[t].minute)
    PROVE  Source(j)' = Source(j)
<1>1. \A n \in Window(j) : n # txn[t].minute BY WindowIsDirtied
<1>2. \A n \in Window(j) : minute'[n] = minute[n]
  BY <1>1 DEF TriggerCommit, TypeOK, MinuteTables, Window
<1> QED BY <1>2 DEF Source, SourceIn

\* The events of a minute only grow.
LEMMA MinuteGrows ==
    ASSUME TypeOK, NEW t \in Writers, TriggerCommit(t), NEW n \in Minutes, minute[n] # NoRow
    PROVE  minute'[n] # NoRow /\ minute[n].events \in Nat /\ minute'[n].events \in Nat
           /\ minute[n].events <= minute'[n].events
<1>1. minute[n] \in MinuteRows BY DEF TypeOK, MinuteTables
<1>2. txn[t].minute \in Minutes /\ txn[t].value \in Values \cup {Null} BY DEF TriggerCommit, TypeOK
<1>3. CASE n = txn[t].minute
  <2>1. minute'[n] = [value |-> txn[t].value, events |-> minute[n].events + 1]
    BY <1>3 DEF TriggerCommit, TypeOK, MinuteTables, UpsertMinute
  <2>2. minute'[n] \in MinuteRows BY <1>1, <1>2, <2>1 DEF MinuteRows
  <2> QED BY <1>1, <2>1, <2>2, NoRowAssumption DEF MinuteRows
<1>4. CASE n # txn[t].minute
  BY <1>1, <1>4 DEF TriggerCommit, TypeOK, MinuteTables, MinuteRows
<1> QED BY <1>3, <1>4

\* The queue invariant is inductive when ingestion does not commit inside a window.
LEMMA QueueInvInductive ==
    ASSUME ~ WindowCommits, TypeOK, TypeOK', QueueInv, [Next]_vars
    PROVE  QueueInv'
<1> USE DEF QueueInv
<1>1. ASSUME NEW t \in Writers, NEW m \in Minutes, NEW v \in Values \cup {Null}, TriggerExecute(t, m, v)
      PROVE QueueInv'
  <2>1. \A u \in Writers : TxnJobs(u)' \subseteq IF u = t THEN JobsOf(m) ELSE TxnJobs(u)
    <3>1. txn' = [txn EXCEPT ![t] = [minute |-> m, value |-> v]] BY <1>1 DEF TriggerExecute
    <3> QED BY <3>1 DEF TypeOK, TxnJobs
  <2>2. \A w \in Workers : JobsOf(m) \cap claimed[w] = {}
    <3>1. \A w \in Workers : claimed[w] \subseteq LockedJobs BY DEF LockedJobs
    <3>2. JobsOf(m) \cap LockedJobs = {} BY <1>1 DEF TriggerExecute
    <3> QED BY <3>1, <3>2
  <2>3. LocksDisjoint' BY <1>1, <2>1, <2>2 DEF LocksDisjoint, TriggerExecute
  <2> QED BY <1>1, <2>3 DEF TriggerExecute, SnapshotCurrent, DoneIsFresh, OutputsBehind, Source
<1>2. ASSUME NEW t \in Writers, TriggerCommit(t) PROVE QueueInv'
  <2>1. \A w \in Workers : pc[w] # "snapped" BY <1>2 DEF TriggerCommit
  <2>2. \A w \in Workers : \A j \in claimed[w] : j \in Jobs /\ j \notin JobsOf(txn[t].minute)
    BY <1>2 DEF TypeOK, LocksDisjoint, TxnJobs, TriggerCommit
  <2>3. \A w \in Workers : \A j \in claimed[w] : Source(j)' = Source(j) BY <1>2, <2>2, SourceElsewhere
  <2>4. SnapshotCurrent' BY <1>2, <2>1, <2>3 DEF SnapshotCurrent, TriggerCommit
  <2>5. LocksDisjoint'
    <3>1. \A u \in Writers : TxnJobs(u)' \subseteq TxnJobs(u) BY <1>2 DEF TriggerCommit, TypeOK, TxnJobs
    <3> QED BY <1>2, <3>1 DEF LocksDisjoint, TriggerCommit
  <2>6. DoneIsFresh'
    <3> SUFFICES ASSUME NEW j \in Jobs, queue'[j] = "done" PROVE out'[j] = Source(j)'
      BY DEF DoneIsFresh
    <3>1. j \notin JobsOf(txn[t].minute) /\ queue[j] = "done" BY <1>2 DEF TriggerCommit, MarkDirty
    <3> QED BY <1>2, <3>1, SourceElsewhere DEF DoneIsFresh, TriggerCommit
  <2>7. OutputsBehind'
    <3> SUFFICES ASSUME NEW j \in Jobs, out[j] # NoRow, NEW m \in Window(j), out[j][m] # NoRow
                 PROVE  minute'[m] # NoRow /\ out[j][m].events <= minute'[m].events
      BY <1>2 DEF OutputsBehind, TriggerCommit
    <3>1. m \in Minutes BY DEF Window
    <3>2. minute[m] # NoRow /\ out[j][m].events <= minute[m].events BY DEF OutputsBehind
    <3>3. out[j][m].events \in Nat BY DEF TypeOK, SourceRows, MinuteRows
    <3> QED BY <1>2, <3>1, <3>2, <3>3, MinuteGrows
  <2> QED BY <2>4, <2>5, <2>6, <2>7
<1>3. ASSUME NEW t \in Writers, TriggerRollback(t) PROVE QueueInv'
  <2>1. \A u \in Writers : TxnJobs(u)' \subseteq TxnJobs(u) BY <1>3 DEF TriggerRollback, TypeOK, TxnJobs
  <2>2. LocksDisjoint' BY <1>3, <2>1 DEF LocksDisjoint, TriggerRollback
  <2> QED BY <1>3, <2>2 DEF TriggerRollback, SnapshotCurrent, DoneIsFresh, OutputsBehind, Source
<1>4. ASSUME NEW w \in Workers, NEW cut \in Cuts, WorkerSnapshot(w, cut) PROVE QueueInv'
  <2>1. LocksDisjoint' BY <1>4 DEF WorkerSnapshot, TypeOK, LocksDisjoint, TxnJobs, ingest
  <2>2. claimed[w] = {} BY <1>4 DEF WorkerSnapshot, LocksDisjoint
  <2>3. \A u \in Workers : snap'[u] = IF u = w THEN [minute |-> minute, queue |-> queue, cut |-> cut] ELSE snap[u]
    BY <1>4 DEF WorkerSnapshot, TypeOK
  <2>4. SnapshotCurrent'
    BY <1>4, <2>2, <2>3 DEF WorkerSnapshot, TypeOK, SnapshotCurrent, ingest, Source
  <2> QED BY <1>4, <2>1, <2>4 DEF WorkerSnapshot, DoneIsFresh, OutputsBehind, Source, ingest
<1>5. ASSUME NEW w \in Workers, WorkerClaim(w) PROVE QueueInv'
  <2>1. PICK S \in FirstBatch(Claimable(w)) : claimed' = [claimed EXCEPT ![w] = S] BY <1>5 DEF WorkerClaim
  <2>2. \A j \in S : j \in Jobs /\ j \notin LockedJobs BY DEF FirstBatch, Claimable
  <2>3. \A t \in Writers : TxnJobs(t) \cap S = {} BY <2>2 DEF LockedJobs
  <2>4. LocksDisjoint' BY <1>5, <2>1, <2>3 DEF WorkerClaim, TypeOK, LocksDisjoint, TxnJobs, ingest
  <2>5. snap[w].minute = minute BY <1>5 DEF WorkerClaim, SnapshotCurrent
  <2>6. SnapshotCurrent'
    BY <1>5, <2>1, <2>5 DEF WorkerClaim, TypeOK, SnapshotCurrent, Source, ingest
  <2> QED BY <1>5, <2>4, <2>6 DEF WorkerClaim, DoneIsFresh, OutputsBehind, Source, ingest
<1>6. ASSUME NEW w \in Workers, WorkerCommit(w) PROVE QueueInv'
  <2>1. \A j \in Jobs : out'[j] = IF j \in claimed[w] THEN Source(j) ELSE out[j]
    BY <1>6 DEF WorkerCommit, SnapshotCurrent
  <2>2. \A j \in Jobs : queue'[j] = "done" => j \in claimed[w] \/ queue[j] = "done" BY <1>6 DEF WorkerCommit
  <2>3. minute' = minute /\ txn' = txn BY <1>6 DEF WorkerCommit, ingest
  <2>4. \A j \in Jobs : Source(j)' = Source(j) BY <2>3 DEF Source
  <2>5. DoneIsFresh' BY <2>1, <2>2, <2>4 DEF DoneIsFresh
  <2>6. OutputsBehind'
    <3> SUFFICES ASSUME NEW j \in Jobs, out'[j] # NoRow, NEW m \in Window(j), out'[j][m] # NoRow
                 PROVE  minute[m] # NoRow /\ out'[j][m].events <= minute[m].events
      BY <2>3 DEF OutputsBehind
    <3>1. CASE j \in claimed[w]
      <4>1. out'[j][m] = minute[m] BY <2>1, <3>1 DEF Source, SourceIn
      <4>2. minute[m] \in MinuteRows BY <4>1 DEF TypeOK, MinuteTables, Window
      <4>3. minute[m].events \in Nat BY <4>2 DEF MinuteRows
      <4> QED BY <4>1, <4>3
    <3>2. CASE j \notin claimed[w] BY <2>1, <3>2 DEF OutputsBehind
    <3> QED BY <3>1, <3>2
  <2>7. LocksDisjoint' BY <1>6, <2>3 DEF WorkerCommit, TypeOK, LocksDisjoint, TxnJobs
  <2>8. SnapshotCurrent' BY <1>6, <2>3 DEF WorkerCommit, TypeOK, SnapshotCurrent, Source
  <2> QED BY <2>5, <2>6, <2>7, <2>8
<1>7. ASSUME NEW w \in Workers, WorkerRollback(w) PROVE QueueInv'
  <2>1. LocksDisjoint' BY <1>7 DEF WorkerRollback, TypeOK, LocksDisjoint, TxnJobs, ingest
  <2>2. SnapshotCurrent' BY <1>7 DEF WorkerRollback, TypeOK, SnapshotCurrent, Source, ingest
  <2> QED BY <1>7, <2>1, <2>2 DEF WorkerRollback, DoneIsFresh, OutputsBehind, Source, ingest
<1>8. CASE UNCHANGED vars
  BY <1>8 DEF vars, LocksDisjoint, TxnJobs, SnapshotCurrent, DoneIsFresh, OutputsBehind, Source
<1> QED BY <1>1, <1>2, <1>3, <1>4, <1>5, <1>6, <1>7, <1>8 DEF Next, IngestStep, WorkerStep

\* The invariant holds from the start.
LEMMA QueueInvInit == Init => QueueInv
BY DEF Init, QueueInv, LocksDisjoint, TxnJobs, SnapshotCurrent, DoneIsFresh, OutputsBehind

\* The row locks of the queue serialise rollups with ingestion: claims are disjoint, a claimed
\* row's snapshot is current and outputs lag behind the minutes, provided no ingestion commits
\* between a worker's snapshot and its claim.
THEOREM LocksSerialise ==
    ASSUME ~ WindowCommits
    PROVE  Spec => []QueueInv
<1>1. TypeOK /\ TypeOK' /\ QueueInv /\ [Next]_vars => QueueInv' BY QueueInvInductive
<1> QED BY <1>1, QueueInvInit, QueueTypeCorrect, PTL DEF Spec

\* A done queue row has a rollup of the minutes as they are, under the same proviso.
THEOREM RollupsAreFresh ==
    ASSUME ~ WindowCommits
    PROVE  Spec => []DoneIsFresh
<1>1. QueueInv => DoneIsFresh BY DEF QueueInv
<1> QED BY <1>1, LocksSerialise, PTL

\* A worker pass never replaces a rollup by one with fewer events, under the same proviso.
THEOREM RollupsAdvance ==
    ASSUME ~ WindowCommits
    PROVE  Spec => RollupNeverGoesBack
<1> DEFINE Keeps == \A j \in Jobs : out[j] # NoRow =>
              \A m \in Window(j) : out[j][m] # NoRow =>
                  out'[j][m] # NoRow /\ out'[j][m].events >= out[j][m].events
<1>1. TypeOK /\ QueueInv /\ [Next]_vars => [Keeps]_vars
  <2> SUFFICES ASSUME TypeOK, QueueInv, Next,
                      NEW j \in Jobs, out[j] # NoRow, NEW m \in Window(j), out[j][m] # NoRow
               PROVE  out'[j][m] # NoRow /\ out'[j][m].events >= out[j][m].events
    OBVIOUS
  <2>1. out[j][m].events \in Nat BY DEF TypeOK, SourceRows, MinuteRows
  <2>2. CASE \E w \in Workers : WorkerCommit(w)
    <3>1. PICK w \in Workers : WorkerCommit(w) BY <2>2
    <3>2. CASE j \in claimed[w]
      <4>1. out'[j][m] = minute[m]
        BY <3>1, <3>2 DEF WorkerCommit, QueueInv, SnapshotCurrent, Source, SourceIn
      <4>2. minute[m] # NoRow /\ out[j][m].events <= minute[m].events BY DEF QueueInv, OutputsBehind
      <4>3. minute[m].events \in Nat BY <4>2 DEF TypeOK, MinuteTables, MinuteRows, Window
      <4> QED BY <2>1, <4>1, <4>2, <4>3
    <3>3. CASE j \notin claimed[w]
      BY <2>1, <3>1, <3>3 DEF WorkerCommit
    <3> QED BY <3>2, <3>3
  <2>3. CASE out' = out BY <2>1, <2>3
  <2> QED
    BY <2>2, <2>3 DEF Next, IngestStep, WorkerStep, TriggerExecute, TriggerCommit, TriggerRollback,
                      WorkerSnapshot, WorkerClaim, WorkerRollback
<1> QED BY <1>1, LocksSerialise, QueueTypeCorrect, PTL DEF Spec, RollupNeverGoesBack

(***************************************************************************)
(* Promotion.  Three arguments about a pass.  The policy row, locked from  *)
(* the selection of checks to the commit, keeps the policy in force while  *)
(* the pass writes.  The check positions it picked stay positions, because *)
(* checks only grow.  And of the versions a window goes through, which are *)
(* linearly ordered, at most one has the points of a full window, so that  *)
(* a canonical row is only ever overwritten with itself.                   *)
(***************************************************************************)

\* A pass that holds checks holds the policy row, and that row allows promotion: the
\* row was re-read when it was locked, and SetPolicy waits for it.
PolicyHeld ==
    /\ picked \in [Promoters -> SUBSET (MeanJobs \X Nat)]
    /\ \A p \in Promoters : HoldsPolicy(p) => eligible

\* The checks a pass may pick are pairs of a mean job and a position, and there are
\* none unless the policy allows promotion (EligibleChecks reads its newest version).
LEMMA PickedUnderPolicy ==
    ASSUME NEW p \in Promoters, NEW S \in FirstChecks(EligibleChecks(p))
    PROVE  S \in SUBSET (MeanJobs \X Nat) /\ (S # {} => eligible)
<1>1. S \subseteq EligibleChecks(p) BY DEF FirstChecks
<1>2. EligibleChecks(p) # {} => eligible BY DEF EligibleChecks
<1>3. QualifyingChecks(p) \subseteq MeanJobs \X Nat
  <2> SUFFICES ASSUME NEW c \in QualifyingChecks(p)
               PROVE  c \in MeanJobs \X Nat
      OBVIOUS
  <2>1. PICK j \in MeanJobs : c \in {<<j, i>> : i \in 1..Len(psnap[p].checks[j])}
      BY DEF QualifyingChecks
  <2>2. PICK i \in 1..Len(psnap[p].checks[j]) : c = <<j, i>>
      BY <2>1
  <2>3. i \in Nat BY <2>2
  <2> QED BY <2>2, <2>3
<1>4. EligibleChecks(p) \subseteq MeanJobs \X Nat BY <1>3 DEF EligibleChecks
<1> QED BY <1>1, <1>2, <1>4

\* PolicyHeld holds at the start and is kept by every step.
LEMMA PolicyHeldInit == PInit => PolicyHeld
BY DEF PInit, PolicyHeld, HoldsPolicy

\* Every step of a pass, of the workers and of an operator keeps PolicyHeld.
LEMMA PolicyHeldStep == PolicyHeld /\ [PNext]_allVars => PolicyHeld'
<1> SUFFICES ASSUME PolicyHeld, [PNext]_allVars PROVE PolicyHeld'
    OBVIOUS
<1>1. CASE LiveStep
    BY <1>1 DEF LiveStep, promotion, PolicyHeld, HoldsPolicy
<1>2. ASSUME NEW p \in Promoters, NEW cut \in Cuts, PromoteSnapshot(p, cut) PROVE PolicyHeld'
    BY <1>2 DEF PromoteSnapshot, PolicyHeld, HoldsPolicy
<1>3. ASSUME NEW p \in Promoters, PromoteLock(p) PROVE PolicyHeld'
  <2>1. PICK S \in FirstChecks(EligibleChecks(p)) : picked' = [picked EXCEPT ![p] = S]
      BY <1>3 DEF PromoteLock
  <2>2. S \in SUBSET (MeanJobs \X Nat) /\ (S # {} => eligible)
      BY PickedUnderPolicy
  <2>3. eligible' = eligible BY <1>3 DEF PromoteLock
  <2> QED BY <2>1, <2>2, <2>3 DEF PolicyHeld, HoldsPolicy
<1>4. ASSUME NEW p \in Promoters, PromoteCommit(p) \/ PromoteRollback(p) PROVE PolicyHeld'
  <2>1. picked' = [picked EXCEPT ![p] = {}] /\ eligible' = eligible
      BY <1>4 DEF PromoteCommit, PromoteRollback
  <2> QED BY <2>1 DEF PolicyHeld, HoldsPolicy
<1>5. CASE SetPolicy
    BY <1>5 DEF SetPolicy, PolicyHeld, HoldsPolicy
<1>6. CASE UNCHANGED allVars
    BY <1>6 DEF allVars, promotion, PolicyHeld, HoldsPolicy
<1> QED BY <1>1, <1>2, <1>3, <1>4, <1>5, <1>6 DEF PNext, PromoterStep

\* The upserts of a pass touch only rows of checks it picked, hence only while the
\* policy allows promotion; no other step touches the canonical tables.
LEMMA WriteUnderPolicy ==
    ASSUME PolicyHeld, [PNext]_allVars, NEW j \in MeanJobs, canonical'[j] # canonical[j]
    PROVE  eligible
<1>1. ~ UNCHANGED canonical OBVIOUS
<1>2. PICK p \in Promoters : PromoteCommit(p)
    BY <1>1 DEF PNext, PromoterStep, LiveStep, promotion, allVars, PromoteSnapshot, PromoteLock,
                PromoteRollback, SetPolicy
<1>3. PickedOf(p, j) # {}
    BY <1>2 DEF PromoteCommit
<1>4. HoldsPolicy(p) BY <1>3 DEF PickedOf, HoldsPolicy
<1> QED BY <1>4 DEF PolicyHeld

\* Theorem: no promotion pass writes a canonical row while the policy forbids it, for
\* any number of passes, whatever ingestion, rollup and operators do meanwhile
\* (make_canonical_promotion_command).
THEOREM PromotionObeysPolicy == PSpec => PromotedUnderPolicy
<1>1. PolicyHeld /\ [PNext]_allVars =>
        [\A j \in MeanJobs : canonical'[j] # canonical[j] => eligible]_allVars
    BY WriteUnderPolicy
<1> QED BY <1>1, PolicyHeldInit, PolicyHeldStep, PTL DEF PSpec, PromotedUnderPolicy

(***************************************************************************)
(* Type correctness.                                                       *)
(***************************************************************************)

\* Max finds the greatest of a bounded, nonempty set of numbers: the one whose distance to
\* the bound is least.
LEMMA MaxOfBounded ==
    ASSUME NEW n \in Nat, NEW S \in SUBSET (0..n), S # {}
    PROVE  Max(S) \in S /\ \A y \in S : Max(S) >= y
<1> DEFINE D == {n - x : x \in S}
<1>1. D \subseteq Nat /\ D # {}
    <2>1. \A x \in S : x \in 0..n OBVIOUS
    <2>2. \A x \in 0..n : n - x \in Nat OBVIOUS
    <2>3. D \subseteq Nat BY <2>1, <2>2
    <2>4. PICK x \in S : TRUE OBVIOUS
    <2>5. n - x \in D OBVIOUS
    <2> QED BY <2>3, <2>5
<1>2. PICK d \in D : \A e \in D : <<e, d>> \notin OpToRel(<, Nat)
    BY <1>1, NatLessThanWellFounded, WFMin
<1>3. \A e \in D : ~ (e < d) BY <1>1, <1>2 DEF OpToRel
<1>4. PICK x \in S : d = n - x OBVIOUS
<1>5. \A y \in S : x >= y
    <2> SUFFICES ASSUME NEW y \in S PROVE x >= y
        OBVIOUS
    <2>1. n - y \in D OBVIOUS
    <2>2. x \in 0..n /\ y \in 0..n OBVIOUS
    <2>3. ~ (n - y < n - x) BY <1>3, <1>4, <2>1
    <2> QED BY <2>2, <2>3
<1> HIDE DEF D
<1> QED BY <1>5 DEF Max

\* What a pass read and picked fits the tables: its snapshot has a prefix of each job's checks,
\* and a check is picked only with a rollup to promote.
SnapshotsFit ==
    /\ DOMAIN psnap = Promoters
    /\ picked \in [Promoters -> SUBSET (MeanJobs \X Nat)]
    /\ \A p \in Promoters : picked[p] # {} => ppc[p] = "locked"
    /\ \A p \in Promoters : \A c \in picked[p] : psnap[p].out[c[1]] # NoRow
    /\ \A p \in Promoters : ppc[p] # "idle" => \A j \in MeanJobs :
          /\ Len(psnap[p].checks[j]) \in 0..Len(checks[j])
          /\ psnap[p].out[j] \in SourceRows(j) \cup {NoRow}

PTypeInv == PTypeOK /\ SnapshotsFit

\* Nothing is promoted at the start.
LEMMA PTypeInit == PInit => PTypeInv
BY QueueTypeInit, PromoteAssumption DEF PInit, PTypeInv, PTypeOK, SnapshotsFit

\* Rollup passes append checks and leave the older ones where they are.
LEMMA ChecksGrow ==
    ASSUME TypeOK, Next, NEW j \in Jobs
    PROVE  Len(checks[j]) \in Nat /\ Len(checks'[j]) \in Nat /\ Len(checks[j]) <= Len(checks'[j])
<1>1. checks[j] \in Seq(CheckRows(j)) BY DEF TypeOK
<1>2. CASE checks'[j] = checks[j] BY <1>1, <1>2
<1>3. ASSUME NEW w \in Workers, WorkerCommit(w) PROVE Len(checks'[j]) \in Nat /\ Len(checks[j]) <= Len(checks'[j])
    <2>1. TypeOK' BY QueueTypeStep
    <2>2. checks'[j] \in Seq(CheckRows(j)) BY <2>1 DEF TypeOK
    <2> DEFINE new == CheckOf(SourceIn(snap[w].minute, j))
    <2>3. checks'[j] \in {checks[j], Append(checks[j], new)} BY <1>3 DEF WorkerCommit
    <2> HIDE DEF new
    <2> QED BY <1>1, <2>2, <2>3
<1> QED
    BY <1>1, <1>2, <1>3 DEF Next, IngestStep, WorkerStep, TriggerExecute, TriggerCommit, TriggerRollback,
                            WorkerSnapshot, WorkerClaim, WorkerRollback

\* A pass picks positions of checks its snapshot has, of rows with a rollup.
LEMMA PickedFits ==
    ASSUME NEW p \in Promoters, NEW S \in FirstChecks(EligibleChecks(p)), NEW c \in S
    PROVE  c[1] \in MeanJobs /\ c[2] \in 1..Len(psnap[p].checks[c[1]]) /\ psnap[p].out[c[1]] # NoRow
<1>1. c \in QualifyingChecks(p) BY DEF FirstChecks, EligibleChecks
<1>2. PICK j \in MeanJobs : c \in {<<j, i>> : i \in 1..Len(psnap[p].checks[j])}
    BY <1>1 DEF QualifyingChecks
<1>3. PICK i \in 1..Len(psnap[p].checks[j]) : c = <<j, i>> BY <1>2
<1>4. psnap[p].out[c[1]] # NoRow BY <1>1 DEF QualifyingChecks, Qualifies
<1> QED BY <1>3, <1>4

\* The newest check a pass picked of a job is one of those it picked.
LEMMA NewestIsPicked ==
    ASSUME PTypeInv, NEW p \in Promoters, NEW j \in MeanJobs, PickedOf(p, j) # {}
    PROVE  /\ Newest(PickedOf(p, j)) \in 1..Len(checks[j])
           /\ psnap[p].out[j] # NoRow /\ ppc[p] = "locked"
<1> DEFINE S == PickedOf(p, j)
           n == Len(checks[j])
<1>1. n \in Nat BY DEF PTypeInv, PTypeOK, TypeOK, MeanJobs
<1>2. \A d \in picked[p] : d[1] = j => d[2] \in 1..n BY DEF PTypeInv, PTypeOK
<1>3. S \subseteq 1..n BY <1>2 DEF PickedOf
<1>4. S \in SUBSET (0..n) BY <1>1, <1>3
<1>5. PICK d \in picked[p] : d[1] = j BY DEF PickedOf
<1> HIDE DEF n, S
<1>6. Max(S) \in S BY <1>1, <1>4, MaxOfBounded DEF S
<1> QED BY <1>3, <1>5, <1>6 DEF Newest, S, n, PTypeInv, SnapshotsFit

\* Every step of ingestion, rollup, promotion and operators keeps the types.
LEMMA PTypeStep == PTypeInv /\ [PNext]_allVars => PTypeInv'
<1> SUFFICES ASSUME PTypeInv, [PNext]_allVars PROVE PTypeInv'
    OBVIOUS
<1> USE PromoteAssumption DEF PTypeInv, PTypeOK, SnapshotsFit
<1>t. \A j \in MeanJobs : j \in Jobs BY DEF MeanJobs
<1>s. \A j \in Jobs : checks[j] \in Seq(CheckRows(j)) /\ Len(checks[j]) \in Nat BY DEF TypeOK
<1>1. CASE LiveStep
    <2>1. TypeOK' BY <1>1, QueueTypeStep DEF LiveStep
    <2>2. \A j \in MeanJobs : Len(checks[j]) \in Nat /\ Len(checks'[j]) \in Nat /\ Len(checks[j]) <= Len(checks'[j])
        BY <1>1, <1>t, ChecksGrow DEF LiveStep
    <2>3. UNCHANGED <<eligible, changes, ppc, psnap, picked, canonical>> BY <1>1 DEF LiveStep, promotion
    <2>4. PTypeOK' BY <2>1, <2>2, <2>3
    <2>5. SnapshotsFit' BY <2>2, <2>3
    <2> QED BY <2>4, <2>5
<1>2. ASSUME NEW p \in Promoters, NEW cut \in Cuts, PromoteSnapshot(p, cut) PROVE PTypeInv'
    <2>1. TypeOK' BY <1>2 DEF PromoteSnapshot, TypeOK, vars
    <2>2. UNCHANGED <<checks, eligible, changes, picked, canonical>> BY <1>2 DEF PromoteSnapshot, vars
    <2>3. ppc' \in [Promoters -> {"idle", "snapped", "locked"}] BY <1>2 DEF PromoteSnapshot
    <2>4. PTypeOK' BY <2>1, <2>2, <2>3
    <2>5. picked[p] = {} BY <1>2 DEF PromoteSnapshot
    <2>6. \A j \in MeanJobs : out[j] \in SourceRows(j) \cup {NoRow} BY <1>t DEF TypeOK
    <2>7. psnap'[p].checks = checks /\ psnap'[p].out = out /\ DOMAIN psnap' = Promoters
          /\ \A q \in Promoters \ {p} : psnap'[q] = psnap[q] /\ ppc'[q] = ppc[q]
        BY <1>2 DEF PromoteSnapshot
    <2>8. SnapshotsFit' BY <1>s, <1>t, <2>2, <2>5, <2>6, <2>7
    <2> QED BY <2>4, <2>8
<1>3. ASSUME NEW p \in Promoters, PromoteLock(p) PROVE PTypeInv'
    <2>1. PICK S \in FirstChecks(EligibleChecks(p)) : picked' = [picked EXCEPT ![p] = S]
        BY <1>3 DEF PromoteLock
    <2>2. S \in SUBSET (MeanJobs \X Nat) BY PickedUnderPolicy
    <2>3. \A c \in S : c[1] \in MeanJobs /\ c[2] \in 1..Len(psnap[p].checks[c[1]]) /\ psnap[p].out[c[1]] # NoRow
        BY PickedFits
    <2>4. ppc[p] = "snapped" /\ ppc' = [ppc EXCEPT ![p] = "locked"] /\ UNCHANGED <<vars, eligible, changes, psnap, canonical>>
        BY <1>3 DEF PromoteLock
    <2>5. TypeOK' /\ checks' = checks BY <2>4 DEF TypeOK, vars
    <2>6. \A c \in S : c[2] \in 1..Len(checks[c[1]]) BY <1>s, <1>t, <2>3, <2>4
    <2>7. PTypeOK' BY <2>1, <2>3, <2>4, <2>5, <2>6
    <2>8. SnapshotsFit' BY <2>1, <2>2, <2>3, <2>4, <2>5
    <2> QED BY <2>7, <2>8
<1>4. ASSUME NEW p \in Promoters, PromoteCommit(p) PROVE PTypeInv'
    <2>1. \A j \in MeanJobs : PickedOf(p, j) # {} =>
             Newest(PickedOf(p, j)) \in 1..Len(checks[j]) /\ psnap[p].out[j] # NoRow /\ ppc[p] = "locked"
        BY NewestIsPicked
    <2>2. \A j \in Jobs : checks'[j] \in Seq(CheckRows(j)) /\ Len(checks'[j]) = Len(checks[j])
        <3> SUFFICES ASSUME NEW j \in Jobs PROVE checks'[j] \in Seq(CheckRows(j)) /\ Len(checks'[j]) = Len(checks[j])
            OBVIOUS
        <3>1. CASE j \notin MeanJobs \/ PickedOf(p, j) = {} BY <1>4, <1>s, <3>1 DEF PromoteCommit
        <3>2. CASE j \in MeanJobs /\ PickedOf(p, j) # {}
            <4> DEFINE k == Newest(PickedOf(p, j))
                       new == Mark(checks[j][k])
            <4>1. k \in 1..Len(checks[j]) BY <2>1, <3>2
            <4>2. checks'[j] = [checks[j] EXCEPT ![k] = new] BY <1>4, <3>2, <4>1 DEF PromoteCommit
            <4>3. checks[j][k] \in CheckRows(j) BY <1>s, <4>1
            <4>4. new \in CheckRows(j) BY <4>3 DEF Mark, CheckRows
            <4> HIDE DEF k, new
            <4> QED BY <1>s, <4>1, <4>2, <4>4
        <3> QED BY <3>1, <3>2
    <2>3. TypeOK' BY <1>4, <2>2 DEF PromoteCommit, TypeOK
    <2>4. \A j \in MeanJobs : canonical'[j] # NoRow =>
             canonical'[j].check \in 1..Len(checks'[j]) /\ DOMAIN canonical'[j].src = Window(j)
        <3> SUFFICES ASSUME NEW j \in MeanJobs, canonical'[j] # NoRow
                     PROVE  canonical'[j].check \in 1..Len(checks'[j]) /\ DOMAIN canonical'[j].src = Window(j)
            OBVIOUS
        <3>1. CASE PickedOf(p, j) = {} BY <1>4, <1>t, <2>2, <3>1 DEF PromoteCommit
        <3>2. CASE PickedOf(p, j) # {}
            <4>1. canonical'[j] = [src |-> psnap[p].out[j], check |-> Newest(PickedOf(p, j))]
                BY <1>4, <3>2 DEF PromoteCommit
            <4>2. psnap[p].out[j] \in SourceRows(j) BY <2>1, <3>2
            <4> QED BY <1>t, <2>1, <2>2, <3>2, <4>1, <4>2 DEF SourceRows
        <3> QED BY <3>1, <3>2
    <2>5. /\ picked' = [picked EXCEPT ![p] = {}] /\ psnap' = [psnap EXCEPT ![p] = NoPSnap]
          /\ ppc' = [ppc EXCEPT ![p] = "idle"] /\ UNCHANGED <<eligible, changes>>
        BY <1>4 DEF PromoteCommit
    <2>6. \A q \in Promoters : \A c \in picked'[q] : c[1] \in MeanJobs /\ c[2] \in 1..Len(checks'[c[1]])
        BY <1>t, <2>2, <2>5
    <2>7. PTypeOK' BY <2>3, <2>4, <2>5, <2>6
    <2>8. SnapshotsFit' BY <1>t, <2>2, <2>5
    <2> QED BY <2>7, <2>8
<1>5. ASSUME NEW p \in Promoters, PromoteRollback(p) PROVE PTypeInv'
    <2>1. TypeOK' BY <1>5, QueueBoundAssumption DEF PromoteRollback, TypeOK
    <2> QED BY <1>5, <2>1 DEF PromoteRollback
<1>6. CASE SetPolicy
    <2>1. TypeOK' BY <1>6 DEF SetPolicy, TypeOK, vars
    <2> QED BY <1>6, <2>1 DEF SetPolicy, vars
<1>7. CASE UNCHANGED allVars
    <2>1. TypeOK' BY <1>7 DEF allVars, TypeOK, vars
    <2> QED BY <1>7, <2>1 DEF allVars, vars, promotion
<1> QED BY <1>1, <1>2, <1>3, <1>4, <1>5, <1>6, <1>7 DEF PNext, PromoterStep

\* Theorem: the promotion tables stay well formed beside the queue: a canonical row names a
\* check that exists and covers its job's window, and a pass holds positions of existing checks
\* although checks are appended while it runs.
THEOREM PromotionTypeCorrect == PSpec => []PTypeOK
<1>1. PTypeInv => PTypeOK BY DEF PTypeInv
<1> QED BY <1>1, PTypeInit, PTypeStep, PTL DEF PSpec

(***************************************************************************)
(* Sums over finite tables.  MapThenSumSet recurses on a set by taking an  *)
(* arbitrary element out; what it computes is determined by the equations  *)
(* of that recursion (Sums), about which a smallest counterexample among   *)
(* the subsets of a finite set takes the place of induction.               *)
(***************************************************************************)

\* The element MapThenSumSet takes next, and the equations of its recursion on the subsets of T.
Pick(s) == CHOOSE x \in s : TRUE
Sums(g, w, T) == \A t \in SUBSET T : g[t] = IF t = {} THEN 0 ELSE w[Pick(t)] + g[t \ {Pick(t)}]

AnyPick(g, w, T) == \A t \in SUBSET T : \A x \in t : g[t] = w[x] + g[t \ {x}]

\* A set of finite sets has a member that no other is a proper subset of.
LEMMA MinimalSet ==
    ASSUME NEW S, IsFiniteSet(S), NEW B \in SUBSET (SUBSET S), B # {}
    PROVE  \E T \in B : \A U \in SUBSET T : U # T => U \notin B
<1>1. IsWellFoundedOn(StrictSubsetOrdering(S), SUBSET S)
    BY FS_StrictSubsetOrderingWellFounded, FS_FiniteSubsetsOfFinite
<1>2. PICK T \in B : \A U \in B : <<U, T>> \notin StrictSubsetOrdering(S)
    BY <1>1, WFMin
<1>3. \A U \in SUBSET T : U \in B /\ U # T => <<U, T>> \in StrictSubsetOrdering(S)
    BY DEF StrictSubsetOrdering
<1>4. \A U \in SUBSET T : U # T => U \notin B BY <1>2, <1>3
<1> QED BY <1>4

\* The recursion has one solution on a set at most.
LEMMA SumsAgree ==
    ASSUME NEW S, IsFiniteSet(S), NEW w, NEW g, NEW h, Sums(g, w, S), Sums(h, w, S)
    PROVE  \A t \in SUBSET S : g[t] = h[t]
<1> SUFFICES ASSUME {t \in SUBSET S : g[t] # h[t]} # {} PROVE FALSE
    OBVIOUS
<1> DEFINE B == {t \in SUBSET S : g[t] # h[t]}
<1>0. B \in SUBSET (SUBSET S) /\ B # {} OBVIOUS
<1> HIDE DEF B
<1>1. PICK T \in B : \A U \in SUBSET T : U # T => U \notin B
    BY <1>0, MinimalSet
<1> USE DEF B
<1>2. T \in SUBSET S /\ g[T] # h[T] OBVIOUS
<1>3. T # {} BY <1>2 DEF Sums
<1>4. Pick(T) \in T BY <1>3 DEF Pick
<1>5. g[T \ {Pick(T)}] = h[T \ {Pick(T)}] BY <1>1, <1>2, <1>4
<1>6. g[T] = w[Pick(T)] + g[T \ {Pick(T)}] /\ h[T] = w[Pick(T)] + h[T \ {Pick(T)}]
    BY <1>2, <1>3 DEF Sums
<1> QED BY <1>2, <1>5, <1>6

\* The recursion has a solution on every finite set: on a smallest set without one, it is put
\* together from those of the proper subsets.
LEMMA SumsExist ==
    ASSUME NEW S, IsFiniteSet(S), NEW w \in [S -> Nat]
    PROVE  \E g \in [SUBSET S -> Nat] : Sums(g, w, S)
<1> DEFINE B == {T \in SUBSET S : ~ \E g \in [SUBSET T -> Nat] : Sums(g, w, T)}
<1> SUFFICES ASSUME B # {} PROVE FALSE
    OBVIOUS
<1>0. B \in SUBSET (SUBSET S) /\ B # {} OBVIOUS
<1> HIDE DEF B
<1>1. PICK T \in B : \A U \in SUBSET T : U # T => U \notin B
    BY <1>0, MinimalSet
<1> USE DEF B
<1>2. T \in SUBSET S /\ ~ \E g \in [SUBSET T -> Nat] : Sums(g, w, T) OBVIOUS
<1>3. \A U \in SUBSET T : U # T => \E g \in [SUBSET U -> Nat] : Sums(g, w, U)
    BY <1>1, <1>2
<1> DEFINE G == [U \in SUBSET T |-> CHOOSE g \in [SUBSET U -> Nat] : Sums(g, w, U)]
<1>4. \A U \in SUBSET T : U # T => G[U] \in [SUBSET U -> Nat] /\ Sums(G[U], w, U)
    BY <1>3
<1> HIDE DEF G, B
<1>5. ASSUME NEW U \in SUBSET T, U # T, NEW V \in SUBSET U
      PROVE  G[V][V] = G[U][V]
    <2>1. V \in SUBSET T /\ V # T BY <1>5
    <2>2. Sums(G[V], w, V) /\ Sums(G[U], w, V) BY <1>4, <1>5, <2>1 DEF Sums
    <2>3. IsFiniteSet(V) BY <1>2, <2>1, FS_Subset
    <2> QED BY <2>2, <2>3, SumsAgree
<1> DEFINE Total(t) == IF t = {} THEN 0 ELSE w[Pick(t)] + G[t \ {Pick(t)}][t \ {Pick(t)}]
           g == [t \in SUBSET T |-> Total(t)]
<1>6. \A t \in SUBSET T : t # {} => Pick(t) \in t /\ t \ {Pick(t)} \in SUBSET T /\ t \ {Pick(t)} # T
    BY DEF Pick
<1>7. \A t \in SUBSET T : Total(t) \in Nat
    <2> SUFFICES ASSUME NEW t \in SUBSET T, t # {} PROVE w[Pick(t)] + G[t \ {Pick(t)}][t \ {Pick(t)}] \in Nat
        OBVIOUS
    <2>1. w[Pick(t)] \in Nat BY <1>2, <1>6
    <2> DEFINE u == t \ {Pick(t)}
    <2>2. u \in SUBSET T /\ u # T BY <1>6
    <2>3. G[u] \in [SUBSET u -> Nat] BY <1>4, <2>2
    <2>4. G[u][u] \in Nat BY <2>3
    <2> QED BY <2>1, <2>4
<1>8. \A t \in SUBSET T : t # T => Total(t) = G[t][t]
    <2> SUFFICES ASSUME NEW t \in SUBSET T, t # T PROVE Total(t) = G[t][t]
        OBVIOUS
    <2>1. Sums(G[t], w, t) BY <1>4
    <2>2. CASE t = {} BY <2>1, <2>2 DEF Sums
    <2>3. CASE t # {}
        <3>1. G[t][t] = w[Pick(t)] + G[t][t \ {Pick(t)}] BY <2>1, <2>3 DEF Sums
        <3>2. G[t \ {Pick(t)}][t \ {Pick(t)}] = G[t][t \ {Pick(t)}] BY <1>5
        <3> QED BY <2>3, <3>1, <3>2
    <2> QED BY <2>2, <2>3
<1>9. Sums(g, w, T)
    <2> SUFFICES ASSUME NEW t \in SUBSET T, t # {} PROVE Total(t) = w[Pick(t)] + g[t \ {Pick(t)}]
        BY DEF Sums
    <2>1. g[t \ {Pick(t)}] = G[t \ {Pick(t)}][t \ {Pick(t)}] BY <1>6, <1>8
    <2> QED BY <2>1
<1>10. g \in [SUBSET T -> Nat] BY <1>7
<1> QED BY <1>2, <1>9, <1>10

\* A solution may be computed in any order.
LEMMA AnyOrder ==
    ASSUME NEW S, IsFiniteSet(S), NEW w \in [S -> Nat], NEW g \in [SUBSET S -> Nat], Sums(g, w, S)
    PROVE  AnyPick(g, w, S)
<1> SUFFICES \A T \in SUBSET S : \A x \in T : g[T] = w[x] + g[T \ {x}]
    BY DEF AnyPick
<1> DEFINE B == {T \in SUBSET S : \E x \in T : g[T] # w[x] + g[T \ {x}]}
<1> SUFFICES ASSUME B # {} PROVE FALSE
    OBVIOUS
<1>1. B \in SUBSET (SUBSET S) /\ B # {} OBVIOUS
<1> HIDE DEF B
<1>2. PICK T \in B : \A U \in SUBSET T : U # T => U \notin B
    BY <1>1, MinimalSet
<1> USE DEF B
<1>3. PICK x \in T : T \in SUBSET S /\ g[T] # w[x] + g[T \ {x}] OBVIOUS
<1> DEFINE y == Pick(T)
           TX == T \ {x}
           TY == T \ {y}
           TXY == T \ {x, y}
<1>4. y \in T BY <1>3 DEF Pick
<1>5. g[T] = w[y] + g[TY] BY <1>3 DEF Sums
<1>6. x # y BY <1>3, <1>5
<1>7. /\ TX \in SUBSET T /\ TX # T /\ TY \in SUBSET T /\ TY # T
      /\ y \in TX /\ x \in TY /\ TX \ {y} = TXY /\ TY \ {x} = TXY
    BY <1>3, <1>4, <1>6
<1> HIDE DEF y, TX, TY, TXY
<1>8. TX \notin B /\ TY \notin B BY <1>2, <1>7
<1>9. g[TX] = w[y] + g[TXY] /\ g[TY] = w[x] + g[TXY] BY <1>3, <1>7, <1>8
<1>10. w[x] \in Nat /\ w[y] \in Nat /\ g[TXY] \in Nat BY <1>3, <1>4, <1>7
<1> QED BY <1>3, <1>5, <1>9, <1>10 DEF TX

\* What MapThenSumSet computes of a finite table is a solution of its recursion.
SumOver(w, S) == (CHOOSE f : f = [s \in SUBSET S |-> IF s = {} THEN 0 ELSE w[Pick(s)] + f[s \ {Pick(s)}]])[S]

\* A sum over a finite table is a natural number with that recursion.
LEMMA SumIsSolution ==
    ASSUME NEW S, IsFiniteSet(S), NEW w \in [S -> Nat]
    PROVE  \E g \in [SUBSET S -> Nat] : Sums(g, w, S) /\ SumOver(w, S) = g[S]
<1> DEFINE Step(f) == [s \in SUBSET S |-> IF s = {} THEN 0 ELSE w[Pick(s)] + f[s \ {Pick(s)}]]
           F == CHOOSE f : f = Step(f)
<1>1. PICK g \in [SUBSET S -> Nat] : Sums(g, w, S) BY SumsExist
<1>2. g = Step(g) BY <1>1 DEF Sums
<1> HIDE DEF Step
<1>3. F = Step(F) BY <1>2
<1> HIDE DEF F
<1>4. Sums(F, w, S) BY <1>3 DEF Sums, Step
<1>5. F[S] = g[S] BY <1>1, <1>4, SumsAgree
<1>6. SumOver(w, S) = F[S] BY DEF SumOver, F, Step
<1> QED BY <1>1, <1>5, <1>6

\* Of two tables of positive counts, one of which has everything the other has, the smaller one
\* has a smaller sum unless they are equal.
SameTable(v, P, w, S) == P = S /\ \A x \in S : v[x] = w[x]

\* Equal sums of such tables mean equal tables.
LEMMA SmallerSum ==
    ASSUME NEW S, IsFiniteSet(S), NEW P \in SUBSET S, NEW v \in [P -> Nat], NEW w \in [S -> Nat],
           \A x \in S : w[x] > 0, \A x \in P : v[x] <= w[x], SumOver(v, P) = SumOver(w, S)
    PROVE  SameTable(v, P, w, S)
<1>p. IsFiniteSet(P) BY FS_Subset
<1>q. PICK g \in [SUBSET P -> Nat] : Sums(g, v, P) /\ SumOver(v, P) = g[P] BY <1>p, SumIsSolution
<1>r. PICK h \in [SUBSET S -> Nat] : Sums(h, w, S) /\ SumOver(w, S) = h[S] BY SumIsSolution
<1>e. g[P] = h[S] BY <1>q, <1>r
<1>a. AnyPick(h, w, S) BY <1>r, AnyOrder, Zenon
<1>b. AnyPick(g, v, P) BY <1>p, <1>q, AnyOrder, Zenon
<1>h. \A T \in SUBSET S : \A x \in T : h[T] = w[x] + h[T \ {x}] BY <1>a DEF AnyPick
<1>g. \A T \in SUBSET P : \A x \in T : g[T] = v[x] + g[T \ {x}] BY <1>b DEF AnyPick
<1> DEFINE Le(U) == g[U \cap P] <= h[U] /\ (g[U \cap P] = h[U] => \A x \in U : x \in P /\ v[x] = w[x])
           B == {U \in SUBSET S : ~ Le(U)}
<1>1. B = {}
    <2> SUFFICES ASSUME B # {} PROVE FALSE
        OBVIOUS
    <2>1. B \in SUBSET (SUBSET S) /\ B # {} OBVIOUS
    <2> HIDE DEF B
    <2>2. PICK T \in B : \A U \in SUBSET T : U # T => U \notin B
        BY <2>1, MinimalSet
    <2>3. T \in SUBSET S /\ ~ Le(T) BY DEF B
    <2>4. \A U \in SUBSET T : U # T => Le(U) BY <2>2, <2>3 DEF B
    <2>5. T # {}
        <3>1. g[{}] = 0 /\ h[{}] = 0 BY <1>q, <1>r DEF Sums
        <3>2. T = {} => Le(T) BY <3>1
        <3> QED BY <2>3, <3>2
    <2>6. PICK x \in T : TRUE BY <2>5
    <2> DEFINE U == T \ {x}
    <2>7. Le(U)
        <3>1. U \in SUBSET T /\ U # T OBVIOUS
        <3> HIDE DEF U, Le
        <3> QED BY <2>4, <3>1
    <2>8. h[T] = w[x] + h[U] /\ h[U] \in Nat /\ w[x] \in Nat /\ w[x] > 0
        <3>1. U \in SUBSET S /\ x \in S BY <2>3
        <3> QED BY <1>h, <2>3, <3>1
    <2>9. g[U \cap P] \in Nat /\ U \cap P \in SUBSET P BY <2>3
    <2>10. CASE x \in P
        <3>1. (T \cap P) \ {x} = U \cap P /\ T \cap P \in SUBSET P /\ x \in T \cap P BY <2>10
        <3>3. g[T \cap P] = v[x] + g[U \cap P] BY <1>g, <3>1
        <3>4. v[x] \in Nat /\ v[x] <= w[x] BY <2>10
        <3> HIDE DEF U
        <3>5. g[T \cap P] <= h[T] BY <2>7, <2>8, <2>9, <3>3, <3>4
        <3>6. ASSUME g[T \cap P] = h[T] PROVE \A z \in T : z \in P /\ v[z] = w[z]
            <4>1. g[U \cap P] = h[U] /\ v[x] = w[x] BY <2>7, <2>8, <2>9, <3>3, <3>4, <3>6
            <4> QED BY <2>7, <2>10, <4>1 DEF U
        <3> QED BY <2>3, <3>5, <3>6
    <2>11. CASE x \notin P
        <3>1. T \cap P = U \cap P BY <2>11
        <3>2. g[U \cap P] <= h[U] BY <2>7
        <3> DEFINE a == g[U \cap P]
                   b == h[U]
        <3>3. a \in Nat /\ b \in Nat /\ a <= b /\ g[T \cap P] = a /\ h[T] = w[x] + b BY <2>8, <2>9, <3>1, <3>2
        <3> HIDE DEF a, b
        <3>4. g[T \cap P] <= h[T] /\ g[T \cap P] # h[T] BY <2>8, <3>3
        <3> QED BY <2>3, <3>4
    <2> QED BY <2>10, <2>11
<1>2. Le(S) BY <1>1
<1>3. S \cap P = P OBVIOUS
<1> QED BY <1>e, <1>2, <1>3 DEF SameTable

\* The points a promotion pass compares with 15 or 60 are such a sum.
LEMMA PointsAreSum ==
    ASSUME NEW src
    PROVE  ExpectedPoints(src) = SumOver([m \in Present(src) |-> src[m].events], Present(src))
BY DEF ExpectedPoints, SumOver, MapThenSumSet, MapThenFoldSet, Pick

(***************************************************************************)
(* A canonical row is never rewritten.                                     *)
(***************************************************************************)

\* Version b of a window's minutes has every observation that a has, or a later one.
Below(a, b) ==
    \A m \in DOMAIN a : a[m] # NoRow => b[m] # NoRow /\ (a[m] = b[m] \/ a[m].events < b[m].events)

\* Two versions one of which came before the other and whose points add up to the same
\* number are equal.
LEMMA SamePointsSameRow ==
    ASSUME NEW j, NEW a \in SourceRows(j), NEW b \in SourceRows(j), Below(a, b),
           ExpectedPoints(a) = ExpectedPoints(b)
    PROVE  a = b
<1> DEFINE P == Present(a)
           S == Present(b)
           v == [m \in P |-> a[m].events]
           w == [m \in S |-> b[m].events]
<1>1. P \subseteq S /\ S \subseteq Window(j) BY DEF Present, Below, SourceRows
<1>2. IsFiniteSet(Window(j))
    <2>1. Window(j) \subseteq 0..LastMinute BY DEF Window, Minutes
    <2>2. 0 \in Int /\ LastMinute \in Int BY QueueBoundAssumption
    <2>3. IsFiniteSet(0..LastMinute) BY <2>2, FS_Interval
    <2> QED BY <2>1, <2>3, FS_Subset
<1>3. IsFiniteSet(S) /\ IsFiniteSet(P) BY <1>1, <1>2, FS_Subset
<1>4. \A m \in S : b[m] \in MinuteRows BY <1>1 DEF Present, SourceRows
<1>5. \A m \in P : a[m] \in MinuteRows BY <1>1 DEF Present, SourceRows
<1>6. w \in [S -> Nat] /\ \A m \in S : w[m] > 0 BY <1>4 DEF MinuteRows
<1>7. v \in [P -> Nat] BY <1>5 DEF MinuteRows
<1>8. \A m \in P : v[m] <= w[m]
    <2> SUFFICES ASSUME NEW m \in P PROVE v[m] <= w[m]
        OBVIOUS
    <2>1. a[m] = b[m] \/ a[m].events < b[m].events BY <1>1 DEF Below, Present
    <2>2. a[m].events \in Nat /\ b[m].events \in Nat BY <1>1, <1>4, <1>5 DEF MinuteRows
    <2> QED BY <1>1, <2>1, <2>2
<1>9. SumOver(v, P) = SumOver(w, S) BY PointsAreSum
<1> HIDE DEF v, w, P, S
<1>10. P \in SUBSET S BY <1>1
<1>11. SameTable(v, P, w, S) BY <1>3, <1>6, <1>7, <1>8, <1>9, <1>10, SmallerSum
<1>13. P = S /\ \A m \in S : v[m] = w[m] BY <1>11 DEF SameTable
<1>14. \A m \in Window(j) : a[m] = b[m]
    <2> SUFFICES ASSUME NEW m \in Window(j) PROVE a[m] = b[m]
        OBVIOUS
    <2>1. CASE m \in S
        <3>1. a[m].events = b[m].events BY <1>13, <2>1 DEF v, w
        <3>2. a[m] # NoRow BY <1>13, <2>1 DEF P, Present
        <3>3. a[m] = b[m] \/ a[m].events < b[m].events BY <3>2 DEF Below, SourceRows
        <3>4. b[m].events \in Nat BY <1>4, <2>1 DEF MinuteRows
        <3> QED BY <3>1, <3>3, <3>4
    <2>2. CASE m \notin S
        <3> QED BY <1>13, <2>2 DEF P, S, Present, SourceRows
    <2> QED BY <2>1, <2>2
<1> QED BY <1>14 DEF SourceRows

\* The versions of job j's window that some snapshot, live rollup or canonical row holds.
Past(j) ==
    ({SourceIn(snap[w].minute, j) : w \in {x \in Workers : pc[x] # "idle"}} \cup {out[j]}
     \cup {psnap[p].out[j] : p \in {q \in Promoters : ppc[q] # "idle"}}
     \cup (IF canonical[j] = NoRow THEN {} ELSE {canonical[j].src})) \ {NoRow}

\* They are states the minutes went through one after the other.
LinearHistory ==
    \A j \in MeanJobs : \A a \in Past(j) :
        /\ a \in SourceRows(j) /\ Below(a, Source(j))
        /\ \A b \in Past(j) : Below(a, b) \/ Below(b, a)

\* What is promoted, or about to be, has the points of a full window.
PromotedFull ==
    /\ \A p \in Promoters : \A c \in picked[p] : FullWindow(psnap[p].out[c[1]], c[1].res)
    /\ \A j \in MeanJobs : canonical[j] # NoRow => canonical[j].src # NoRow /\ FullWindow(canonical[j].src, j.res)

HistoryInv == PTypeInv /\ LinearHistory /\ PromotedFull

\* The order on versions is reflexive and transitive.
LEMMA BelowOrder ==
    ASSUME NEW j, NEW a \in SourceRows(j), NEW b \in SourceRows(j), NEW c \in SourceRows(j)
    PROVE  Below(a, a) /\ (Below(a, b) /\ Below(b, c) => Below(a, c))
<1>1. Below(a, a) BY DEF Below
<1>2. ASSUME Below(a, b), Below(b, c), NEW m \in DOMAIN a, a[m] # NoRow
      PROVE  c[m] # NoRow /\ (a[m] = c[m] \/ a[m].events < c[m].events)
    <2>1. m \in Window(j) /\ DOMAIN b = Window(j) BY <1>2 DEF SourceRows
    <2>2. b[m] # NoRow /\ (a[m] = b[m] \/ a[m].events < b[m].events) BY <1>2 DEF Below
    <2>3. c[m] # NoRow /\ (b[m] = c[m] \/ b[m].events < c[m].events) BY <1>2, <2>1, <2>2 DEF Below
    <2>4. a[m] \in MinuteRows /\ b[m] \in MinuteRows /\ c[m] \in MinuteRows
        BY <1>2, <2>1, <2>2, <2>3 DEF SourceRows
    <2>5. a[m].events \in Nat /\ b[m].events \in Nat /\ c[m].events \in Nat BY <2>4 DEF MinuteRows
    <2> QED BY <2>2, <2>3, <2>5
<1> QED BY <1>1, <1>2 DEF Below

\* A step changes the minutes only by a later observation.
LEMMA MinutesAdvance ==
    ASSUME PTypeInv, [PNext]_allVars, NEW j \in MeanJobs
    PROVE  Below(Source(j), Source(j)') /\ Source(j) \in SourceRows(j) /\ Source(j)' \in SourceRows(j)
<1>1. TypeOK /\ TypeOK' BY PTypeStep DEF PTypeInv, PTypeOK
<1>2. minute \in MinuteTables /\ minute' \in MinuteTables BY <1>1 DEF TypeOK
<1>3. Window(j) \subseteq Minutes BY DEF Window
<1>4. Source(j) \in SourceRows(j) /\ Source(j)' \in SourceRows(j)
    BY <1>2, <1>3 DEF Source, SourceIn, SourceRows, MinuteTables
<1>5. \A m \in Minutes : minute[m] # NoRow =>
        minute'[m] # NoRow /\ (minute[m] = minute'[m] \/ minute[m].events < minute'[m].events)
    <2>1. CASE minute' = minute BY <2>1
    <2>2. CASE minute' # minute
        <3>1. PICK t \in Writers : TriggerCommit(t)
            BY <2>2 DEF PNext, PromoterStep, LiveStep, Next, IngestStep, WorkerStep, TriggerExecute, TriggerRollback,
                        WorkerSnapshot, WorkerClaim, WorkerCommit, WorkerRollback, PromoteSnapshot, PromoteLock,
                        PromoteCommit, PromoteRollback, SetPolicy, allVars, vars, ingest
        <3> DEFINE k == txn[t].minute
                   new == UpsertMinute(minute[k], txn[t].value)
        <3>2. minute' = [minute EXCEPT ![k] = new] BY <3>1 DEF TriggerCommit
        <3>3. \A m \in Minutes : minute[m] # NoRow => minute[m].events \in Nat
            BY <1>2 DEF MinuteTables, MinuteRows
        <3>4. k \in Minutes BY <1>1, <3>1 DEF TriggerCommit, TypeOK
        <3>5. minute[k] # NoRow => new.events = minute[k].events + 1 BY DEF UpsertMinute
        <3>6. minute'[k] = new /\ \A m \in Minutes : m # k => minute'[m] = minute[m]
            BY <1>2, <3>2, <3>4 DEF MinuteTables
        <3>7. new # NoRow
            BY <1>2, <3>4, <3>6, NoRowAssumption, <1>1, <3>1 DEF UpsertMinute, TriggerCommit, TypeOK, MinuteRows, MinuteTables
        <3> HIDE DEF new, k
        <3> QED BY <3>3, <3>4, <3>5, <3>6, <3>7
    <2> QED BY <2>1, <2>2
<1>6. \A m \in Window(j) : Source(j)[m] = minute[m] /\ Source(j)'[m] = minute'[m]
    BY DEF Source, SourceIn
<1>7. DOMAIN Source(j) = Window(j) BY DEF Source, SourceIn
<1> QED BY <1>3, <1>4, <1>5, <1>6, <1>7 DEF Below

\* A step copies versions around or reads the current one.
LEMMA PastGrows ==
    ASSUME PTypeInv, [PNext]_allVars, NEW j \in MeanJobs
    PROVE  Past(j)' \subseteq Past(j) \cup {Source(j)}
<1>j. j \in Jobs BY DEF MeanJobs
<1> USE DEF Past
<1>1. ASSUME NEW w \in Workers, NEW cut \in Cuts, WorkerSnapshot(w, cut), UNCHANGED promotion
      PROVE  Past(j)' \subseteq Past(j) \cup {Source(j)}
    BY <1>1 DEF WorkerSnapshot, promotion, Source, PTypeInv, PTypeOK, TypeOK
<1>2. ASSUME NEW w \in Workers, WorkerCommit(w), UNCHANGED promotion
      PROVE  Past(j)' \subseteq Past(j) \cup {Source(j)}
    BY <1>j, <1>2 DEF WorkerCommit, promotion, PTypeInv, PTypeOK, TypeOK
<1>3. ASSUME NEW w \in Workers, WorkerClaim(w) \/ WorkerRollback(w), UNCHANGED promotion
      PROVE  Past(j)' \subseteq Past(j) \cup {Source(j)}
    BY <1>3 DEF WorkerClaim, WorkerRollback, promotion, PTypeInv, PTypeOK, TypeOK
<1>4. ASSUME NEW t \in Writers, IngestStep(t), UNCHANGED promotion
      PROVE  Past(j)' \subseteq Past(j) \cup {Source(j)}
    BY <1>4 DEF IngestStep, TriggerExecute, TriggerCommit, TriggerRollback, promotion
<1>5. ASSUME NEW p \in Promoters, NEW cut \in Cuts, PromoteSnapshot(p, cut)
      PROVE  Past(j)' \subseteq Past(j) \cup {Source(j)}
    BY <1>5 DEF PromoteSnapshot, vars, PTypeInv, PTypeOK, SnapshotsFit
<1>6. ASSUME NEW p \in Promoters, PromoteCommit(p)
      PROVE  Past(j)' \subseteq Past(j) \cup {Source(j)}
    <2>1. ppc[p] # "idle" /\ p \in DOMAIN ppc BY <1>6 DEF PromoteCommit, PTypeInv, PTypeOK
    <2>2. \A q \in Promoters : ppc'[q] # "idle" => ppc[q] # "idle" /\ psnap'[q] = psnap[q]
        BY <1>6 DEF PromoteCommit, PTypeInv, PTypeOK, SnapshotsFit
    <2>3. canonical'[j] = canonical[j] \/ canonical'[j].src = psnap[p].out[j]
        BY <1>6 DEF PromoteCommit
    <2>4. UNCHANGED <<minute, pc, snap, out>> BY <1>6 DEF PromoteCommit
    <2> QED BY <2>1, <2>2, <2>3, <2>4
<1>7. ASSUME NEW p \in Promoters, PromoteLock(p) \/ PromoteRollback(p)
      PROVE  Past(j)' \subseteq Past(j) \cup {Source(j)}
    BY <1>7 DEF PromoteLock, PromoteRollback, vars, PTypeInv, PTypeOK, SnapshotsFit
<1>8. CASE SetPolicy BY <1>8 DEF SetPolicy, vars
<1>9. CASE UNCHANGED allVars BY <1>9 DEF allVars, vars, promotion
<1> QED
    BY <1>1, <1>2, <1>3, <1>4, <1>5, <1>6, <1>7, <1>8, <1>9 DEF PNext, LiveStep, Next, WorkerStep, PromoterStep

\* Nothing is held by anybody at the start.
LEMMA HistoryInit == PInit => HistoryInv
BY PTypeInit DEF PInit, Init, HistoryInv, LinearHistory, PromotedFull, Past, NoSnap, MeanJobs

\* Every step keeps the versions held anywhere in the order the minutes took them.
LEMMA LinearHistoryStep ==
    ASSUME HistoryInv, [PNext]_allVars
    PROVE  LinearHistory'
<1> SUFFICES ASSUME NEW j \in MeanJobs, NEW a \in Past(j)'
             PROVE  /\ a \in SourceRows(j) /\ Below(a, Source(j)')
                    /\ \A b \in Past(j)' : Below(a, b) \/ Below(b, a)
    BY DEF LinearHistory, SourceRows, MinuteRows, Window, Minutes, MeanJobs, Below
<1> DEFINE now == Source(j)
           next == Source(j)'
           before == Past(j)
           after == Past(j)'
<1>1. Below(now, next) /\ now \in SourceRows(j) /\ next \in SourceRows(j)
    BY MinutesAdvance DEF HistoryInv
<1>2. after \subseteq before \cup {now} BY PastGrows DEF HistoryInv
<1>3. \A x \in before : x \in SourceRows(j) /\ Below(x, now) /\ \A y \in before : Below(x, y) \/ Below(y, x)
    BY DEF HistoryInv, LinearHistory
<1>4. a \in after OBVIOUS
<1> HIDE DEF now, next, before, after
<1>5. Below(now, now) BY <1>1, BelowOrder
<1>6. a \in SourceRows(j) /\ Below(a, now) BY <1>1, <1>2, <1>3, <1>4, <1>5
<1>7. Below(a, next) BY <1>1, <1>6, BelowOrder
<1>8. \A b \in after : Below(a, b) \/ Below(b, a) BY <1>2, <1>3, <1>4, <1>5
<1> QED BY <1>6, <1>7, <1>8 DEF after, next

\* A pass picks, and hence promotes, only rollups with the points of a full window.
LEMMA PromotedFullStep ==
    ASSUME HistoryInv, [PNext]_allVars
    PROVE  PromotedFull'
<1> USE DEF HistoryInv, PromotedFull
<1>1. CASE LiveStep BY <1>1 DEF LiveStep, promotion
<1>2. ASSUME NEW p \in Promoters, NEW cut \in Cuts, PromoteSnapshot(p, cut) PROVE PromotedFull'
    <2>1. picked[p] = {} /\ DOMAIN psnap = Promoters BY <1>2 DEF PromoteSnapshot, PTypeInv, PTypeOK, SnapshotsFit
    <2>2. \A q \in Promoters : q # p => psnap'[q] = psnap[q] BY <1>2, <2>1 DEF PromoteSnapshot
    <2>3. UNCHANGED <<picked, canonical>> BY <1>2 DEF PromoteSnapshot
    <2> QED BY <2>1, <2>2, <2>3
<1>3. ASSUME NEW p \in Promoters, PromoteLock(p) PROVE PromotedFull'
    <2>1. PICK S \in FirstChecks(EligibleChecks(p)) : picked' = [picked EXCEPT ![p] = S]
        BY <1>3 DEF PromoteLock
    <2>2. \A c \in S : FullWindow(psnap[p].out[c[1]], c[1].res)
        BY DEF FirstChecks, EligibleChecks, QualifyingChecks, Qualifies
    <2>3. UNCHANGED <<psnap, canonical>> BY <1>3 DEF PromoteLock
    <2>4. DOMAIN picked = Promoters BY DEF PTypeInv, SnapshotsFit
    <2> HIDE DEF FullWindow
    <2> QED BY <2>1, <2>2, <2>3, <2>4
<1>4. ASSUME NEW p \in Promoters, PromoteCommit(p) PROVE PromotedFull'
    <2>1. \A q \in Promoters : picked'[q] = {} \/ (picked'[q] = picked[q] /\ psnap'[q] = psnap[q])
        BY <1>4 DEF PromoteCommit, PTypeInv, SnapshotsFit
    <2>2. \A j \in MeanJobs : PickedOf(p, j) # {} => psnap[p].out[j] # NoRow /\ FullWindow(psnap[p].out[j], j.res)
        <3> SUFFICES ASSUME NEW j \in MeanJobs, PickedOf(p, j) # {}
                     PROVE  psnap[p].out[j] # NoRow /\ FullWindow(psnap[p].out[j], j.res)
            OBVIOUS
        <3>1. PICK c \in picked[p] : c[1] = j BY DEF PickedOf
        <3> QED BY <3>1, NewestIsPicked
    <2>3. \A j \in MeanJobs : canonical'[j] = canonical[j]
             \/ (PickedOf(p, j) # {} /\ canonical'[j].src = psnap[p].out[j])
        BY <1>4 DEF PromoteCommit
    <2> QED BY <2>1, <2>2, <2>3
<1>5. ASSUME NEW p \in Promoters, PromoteRollback(p) PROVE PromotedFull'
    <2>1. \A q \in Promoters : picked'[q] = {} \/ (picked'[q] = picked[q] /\ psnap'[q] = psnap[q])
        BY <1>5 DEF PromoteRollback, PTypeInv, SnapshotsFit
    <2> QED BY <1>5, <2>1 DEF PromoteRollback
<1>6. CASE SetPolicy BY <1>6 DEF SetPolicy
<1>7. CASE UNCHANGED allVars BY <1>7 DEF allVars, promotion
<1> QED BY <1>1, <1>2, <1>3, <1>4, <1>5, <1>6, <1>7 DEF PNext, PromoterStep

\* The whole invariant is kept.
LEMMA HistoryStep == HistoryInv /\ [PNext]_allVars => HistoryInv'
BY PTypeStep, LinearHistoryStep, PromotedFullStep DEF HistoryInv

\* A pass that promotes a row again writes the version that is already there: both were
\* versions of the same window, hence comparable, and both have the points of a full one.
LEMMA SameVersion ==
    ASSUME HistoryInv, [PNext]_allVars, NEW j \in MeanJobs, canonical[j] # NoRow
    PROVE  canonical'[j].src = canonical[j].src
<1>1. CASE canonical' = canonical BY <1>1
<1>2. CASE canonical' # canonical
    <2>1. PICK p \in Promoters : PromoteCommit(p)
        BY <1>2 DEF PNext, PromoterStep, LiveStep, promotion, allVars, PromoteSnapshot, PromoteLock,
                    PromoteRollback, SetPolicy
    <2>2. CASE PickedOf(p, j) = {} BY <2>1, <2>2 DEF PromoteCommit
    <2>3. CASE PickedOf(p, j) # {}
        <3> DEFINE a == psnap[p].out[j]
                   b == canonical[j].src
        <3>1. canonical'[j].src = a BY <2>1, <2>3 DEF PromoteCommit
        <3>2. a # NoRow /\ ppc[p] = "locked" BY <2>3, NewestIsPicked DEF HistoryInv
        <3>3. PICK c \in picked[p] : c[1] = j BY <2>3 DEF PickedOf
        <3>4. FullWindow(a, j.res) BY <3>3 DEF HistoryInv, PromotedFull
        <3>5. FullWindow(b, j.res) BY DEF HistoryInv, PromotedFull
        <3>6. ExpectedPoints(a) = ExpectedPoints(b) BY <3>4, <3>5 DEF FullWindow
        <3>7. a \in Past(j) BY <3>2 DEF Past
        <3>8. b # NoRow BY DEF HistoryInv, PromotedFull
        <3>9. b \in Past(j) BY <3>8 DEF Past
        <3> HIDE DEF a, b
        <3>10. a \in SourceRows(j) /\ b \in SourceRows(j) /\ (Below(a, b) \/ Below(b, a))
            BY <3>7, <3>9 DEF HistoryInv, LinearHistory
        <3>11. a = b BY <3>6, <3>10, SamePointsSameRow
        <3> QED BY <3>1, <3>11 DEF b
    <2> QED BY <2>2, <2>3
<1> QED BY <1>1, <1>2

\* Theorem: promoting a bucket again never changes what its canonical row was computed from,
\* for any number of passes, workers and writers, with minutes observed again and with commits
\* inside a worker's window (the ON CONFLICT DO UPDATE of make_canonical_promotion_command).
THEOREM CanonicalIsStable == PSpec => CanonicalNeverRewritten
<1>1. HistoryInv /\ [PNext]_allVars =>
        [\A j \in MeanJobs : canonical[j] # NoRow => canonical'[j].src = canonical[j].src]_allVars
    BY SameVersion
<1> QED BY <1>1, HistoryInit, HistoryStep, PTL DEF PSpec, CanonicalNeverRewritten
=============================================================================
