-------------------------- MODULE CanonicalPromotion --------------------------
(***************************************************************************)
(* Promotion of live rollups into canonical.measurement_15min / _1h, run   *)
(* beside the ingestion transactions and queue workers of LiveBucketQueue. *)
(*                                                                         *)
(* A promotion pass is again one READ COMMITTED statement.  It reads       *)
(* promotion_check, measurement_policy and the live rollups from its       *)
(* snapshot; FOR UPDATE SKIP LOCKED names no table, so it locks both the   *)
(* check rows and the policy row, re-checking the newest version of each.  *)
(* Inserting a new 1min or queue row takes a key-share lock on the same    *)
(* policy row through its foreign key.                                     *)
(***************************************************************************)
EXTENDS LiveBucketQueue

CONSTANTS
    Promoters,        \* the scheduler's canonical lane, and operators running the script
    PromoteCoverage,  \* the pass's min_coverage_ratio, in percent
    PromoteBatch,     \* checks per pass
    MaxPolicyChanges  \* bound: operator changes of the policy's eligibility

ASSUME PromoteAssumption ==
    PromoteCoverage \in 0..100 /\ PromoteBatch \in Nat \ {0} /\ MaxPolicyChanges \in Nat

VARIABLES
    eligible,   \* the policy's enabled AND canonical_eligible; ingestion may go on without it
    changes,    \* policy changes so far
    ppc,        \* per promoter: "idle", "snapped", "locked"
    psnap,      \* per promoter: the statement's snapshot
    picked,     \* per promoter: eligible_checks, as pairs <<job, index>>
    canonical   \* canonical.measurement_15min / _1h per job

promotion == <<eligible, changes, ppc, psnap, picked, canonical>>
allVars == <<vars, promotion>>

\* Only mean rollups: mart.peak_feature_15min is a forbidden source table.
MeanJobs == {j \in Jobs : j.kind = "mean_rollup"}

NoPSnap == [checks |-> NoRow, out |-> NoRow, eligible |-> FALSE, cut |-> NoCut]

PTypeOK ==
    /\ TypeOK
    /\ eligible \in BOOLEAN /\ changes \in 0..MaxPolicyChanges
    /\ ppc \in [Promoters -> {"idle", "snapped", "locked"}]
    /\ \A p \in Promoters : \A c \in picked[p] :
          c[1] \in MeanJobs /\ c[2] \in 1..Len(checks[c[1]])
    /\ \A j \in MeanJobs : canonical[j] # NoRow =>
          /\ canonical[j].check \in 1..Len(checks[j])
          /\ DOMAIN canonical[j].src = Window(j)

PInit ==
    /\ Init
    /\ eligible = TRUE /\ changes = 0
    /\ ppc = [p \in Promoters |-> "idle"]
    /\ psnap = [p \in Promoters |-> NoPSnap]
    /\ picked = [p \in Promoters |-> {}]
    /\ canonical = [j \in MeanJobs |-> NoRow]

(***************************************************************************)
(* Row locks on the policy.                                                *)
(***************************************************************************)

\* An open transaction that inserted a new 1min row holds the policy in key-share mode.
KeyShare == \E t \in Writers : txn[t] # NoTxn /\ minute[txn[t].minute] = NoRow

HoldsPolicy(p) == picked[p] # {}

(***************************************************************************)
(* A promotion pass.                                                       *)
(***************************************************************************)
PromoteSnapshot(p, cut) ==
    /\ ppc[p] = "idle"
    /\ ppc' = [ppc EXCEPT ![p] = "snapped"]
    /\ psnap' = [psnap EXCEPT ![p] = [checks |-> checks, out |-> out, eligible |-> eligible, cut |-> cut]]
    /\ UNCHANGED <<vars, eligible, changes, picked, canonical>>

\* Mutant: a partial window qualifies.
FullWindowAtMost(src, res) == ExpectedPoints(src) <= Points(res)

\* expected_points = 15 or 60.  The bounds on observed, gap and coverage_ratio in the
\* same conjunction hold of every row the workers write.
FullWindow(src, res) == ExpectedPoints(src) = Points(res)

\* The part of eligible_checks that depends on a check row and its live rollup.
Qualifies(j, check, row, cut) ==
    /\ check.status = "pass"
    /\ ~ check.written
    /\ Covers(check.src, PromoteCoverage)
    /\ Closed(j, cut)
    /\ row # NoRow
    /\ FullWindow(row, j.res)

\* Qualifying in the snapshot and, when the row is locked, in the newest version of
\* the check; the rollup is read from the snapshot both times.
QualifyingChecks(p) ==
    LET s == psnap[p] IN
    {c \in UNION {{<<j, i>> : i \in 1..Len(s.checks[j])} : j \in MeanJobs} :
        /\ Qualifies(c[1], s.checks[c[1]][c[2]], s.out[c[1]], s.cut)
        /\ Qualifies(c[1], checks[c[1]][c[2]], s.out[c[1]], s.cut)}

\* Another session holds the policy row, so SKIP LOCKED skips every joined row.
PolicyLocked(p) == KeyShare \/ \E q \in Promoters \ {p} : HoldsPolicy(q)

\* Mutant: the policy is only read from the snapshot.
EligibleChecksStale(p) ==
    IF psnap[p].eligible /\ ~ PolicyLocked(p) THEN QualifyingChecks(p) ELSE {}

\* The checks the pass may lock: the policy must allow promotion in the snapshot and
\* in its newest version.
EligibleChecks(p) ==
    IF psnap[p].eligible /\ eligible /\ ~ PolicyLocked(p) THEN QualifyingChecks(p) ELSE {}

\* ORDER BY bucket_ts, check_id LIMIT batch_size.  A job's checks are numbered in
\* check_id order; checks of different jobs with one bucket_ts come in any order.
FirstChecks(C) ==
    {S \in SUBSET C :
        /\ Cardinality(S) = IF Cardinality(C) < PromoteBatch THEN Cardinality(C) ELSE PromoteBatch
        /\ \A c \in S, d \in C \ S :
              /\ c[1].bucket <= d[1].bucket
              /\ c[1] = d[1] => c[2] < d[2]}

PromoteLock(p) ==
    /\ ppc[p] = "snapped"
    /\ \E S \in FirstChecks(EligibleChecks(p)) : picked' = [picked EXCEPT ![p] = S]
    /\ ppc' = [ppc EXCEPT ![p] = "locked"]
    /\ UNCHANGED <<vars, eligible, changes, psnap, canonical>>

PickedOf(p, j) == {c[2] : c \in {d \in picked[p] : d[1] = j}}

\* DISTINCT ON ... ORDER BY check_id DESC
Newest(S) == Max(S)

\* Mutant: jsonb_build_object(...) || evidence, where the old value wins.
MarkNothing(check) == check

\* evidence || jsonb_build_object('canonical_write', true, ...)
Mark(check) == [check EXCEPT !.written = TRUE]

\* The upserts, the marking of the one check each row was written for, the commit.
PromoteCommit(p) ==
    /\ ppc[p] = "locked"
    /\ canonical' = [j \in MeanJobs |->
          IF PickedOf(p, j) = {} THEN canonical[j]
          ELSE [src |-> psnap[p].out[j], check |-> Newest(PickedOf(p, j))]]
    /\ checks' = [j \in Jobs |->
          IF j \notin MeanJobs \/ PickedOf(p, j) = {} THEN checks[j]
          ELSE [checks[j] EXCEPT ![Newest(PickedOf(p, j))] = Mark(@)]]
    /\ picked' = [picked EXCEPT ![p] = {}]
    /\ psnap' = [psnap EXCEPT ![p] = NoPSnap]
    /\ ppc' = [ppc EXCEPT ![p] = "idle"]
    /\ UNCHANGED <<minute, queue, txn, inserted, pc, snap, claimed, out, rollbacks, eligible, changes>>

\* An exception leaves the connection block: everything is rolled back.
PromoteRollback(p) ==
    /\ ppc[p] # "idle"
    /\ rollbacks < MaxRollbacks
    /\ rollbacks' = rollbacks + 1
    /\ picked' = [picked EXCEPT ![p] = {}]
    /\ psnap' = [psnap EXCEPT ![p] = NoPSnap]
    /\ ppc' = [ppc EXCEPT ![p] = "idle"]
    /\ UNCHANGED <<minute, queue, txn, inserted, pc, snap, claimed, out, checks, eligible, changes, canonical>>

\* The operator enables or disables the policy for promotion; the UPDATE waits for
\* a pass that holds the row.
SetPolicy ==
    /\ changes < MaxPolicyChanges
    /\ \A p \in Promoters : ~ HoldsPolicy(p)
    /\ eligible' = ~ eligible
    /\ changes' = changes + 1
    /\ UNCHANGED <<vars, ppc, psnap, picked, canonical>>

PromoterStep(p) ==
    \/ \E cut \in Cuts : PromoteSnapshot(p, cut)
    \/ PromoteLock(p)
    \/ PromoteCommit(p)
    \/ PromoteRollback(p)

\* Ingestion and rollup beside a pass: a new 1min row waits for the policy row.
LiveStep ==
    /\ Next
    /\ (\E p \in Promoters : HoldsPolicy(p)) =>
          \A t \in Writers : txn[t] = NoTxn /\ txn'[t] # NoTxn => minute[txn'[t].minute] # NoRow
    /\ UNCHANGED promotion

PNext ==
    \/ LiveStep
    \/ \E p \in Promoters : PromoterStep(p)
    \/ SetPolicy

PSpec == PInit /\ [][PNext]_allVars

(***************************************************************************)
(* Fairness: open ingestion transactions end; the scheduler's lane runs    *)
(* pass after pass, and the replay clock it passes as max_bucket_ts leaves *)
(* every bucket behind (NoCut).                                            *)
(***************************************************************************)
PFairSpec ==
    /\ PSpec
    /\ \A t \in Writers : WF_allVars((TriggerCommit(t) \/ TriggerRollback(t)) /\ UNCHANGED promotion)
    /\ \A p \in Promoters :
          WF_allVars(PromoteSnapshot(p, NoCut)) /\ WF_allVars(PromoteLock(p)) /\ WF_allVars(PromoteCommit(p))

(***************************************************************************)
(* Properties.                                                             *)
(***************************************************************************)

\* A promoted row covers its whole window: every minute of the bucket was reported,
\* although the pass only compares a sum of points with 15 or 60.
CanonicalWindowComplete ==
    \A j \in MeanJobs : canonical[j] # NoRow => Present(canonical[j].src) = Window(j)

\* ON CONFLICT DO UPDATE never changes what a canonical row was computed from: of all
\* the versions a live rollup goes through, one at most passes the gate, and no
\* concurrent pass brings back another.
CanonicalNeverRewritten ==
    [][\A j \in MeanJobs : canonical[j] # NoRow => canonical'[j].src = canonical[j].src]_allVars

\* No pass writes a row while the policy row in force forbids it, even when the policy
\* changed after the pass took its snapshot.
PromotedUnderPolicy ==
    [][\A j \in MeanJobs : canonical'[j] # canonical[j] => eligible]_allVars

\* Promotion drains: a pass check of a full window is eventually marked as written,
\* although every pass marks only the newest check of a row, unless the row changes
\* or the policy forbids it.
Promotable(j) ==
    eligible /\ \E i \in 1..Len(checks[j]) : Qualifies(j, checks[j][i], out[j], NoCut)
PromotionDrains == \A j \in MeanJobs : Promotable(j) ~> ~ Promotable(j)

\* Coverage below the threshold blocks promotion: a canonical row meets the coverage
\* the rollup worker and the promotion pass ask for.
CanonicalCoverage ==
    \A j \in MeanJobs : canonical[j] # NoRow => Covers(canonical[j].src, MinCoverage)
=============================================================================
