------------------------- MODULE AnomalyDeployment -------------------------
(***************************************************************************)
(* The anomaly champion of one horizon: a directory of models and a        *)
(* training summary that live side by side in the deployed root and are    *)
(* swapped one after the other.  As for P-Max the horizon's flock is held  *)
(* throughout, each rename is a step, any of them may raise and the        *)
(* process may die between two; unlike P-Max nothing renames both parts at *)
(* once, so a swap can stop between the directory and its summary.         *)
(***************************************************************************)
CONSTANTS
    Models,        \* validated candidates that may be promoted
    NoPart,        \* a directory or file that does not exist
    AnomalyFaults  \* a subset of {"crash", "oserror"}

ASSUME AnomalyAssumption == NoPart \notin Models /\ AnomalyFaults \subseteq {"crash", "oserror"}

VARIABLES
    active,     \* [dir, sum]: the horizon directory and train_summary in place
    aside,      \* [dir, sum]: their .retired names
    failed,     \* [dir, sum]: their .failed-smoke names
    stage,      \* [dir, sum]: the staged copies
    backups,    \* archive roots rollback may be given
    swap,       \* the operation that holds the lock
    good,       \* history: the last pair that passed its smoke test or was rolled back to
    damaged     \* history: a crash or an OS error has happened

avars == <<active, aside, failed, stage, backups, swap, good, damaged>>

Pair == [dir : Models \cup {NoPart}, sum : Models \cup {NoPart}]
Both(m) == [dir |-> m, sum |-> m]
NoPair == Both(NoPart)
NoSwap == [kind |-> "none", pc |-> "idle", moved |-> FALSE, backup |-> NoPair]
SwapPcs == {"idle", "backup", "retire_dir", "retire_sum", "place_dir", "place_sum", "smoke", "undo",
            "back_dir", "back_sum", "clean_dir", "clean_sum"}

AnomalyInit ==
    /\ \E m \in Models \cup {NoPart} : active = Both(m)
    /\ aside = NoPair /\ failed = NoPair /\ stage = NoPair /\ backups = {}
    /\ swap = NoSwap /\ good = active /\ damaged = FALSE

SwapTo(pc) == swap' = [swap EXCEPT !.pc = pc]
\* Mutant: a missing backup is recorded as one.
UnlockAlways == swap' = NoSwap /\ backups' = backups \cup {swap.backup}

Unlock == swap' = NoSwap /\ backups' = backups \cup ({swap.backup} \ {NoPair})

\* Both entry points refuse while a retired part is lying about.
BeginSwap(kind, m) ==
    /\ swap = NoSwap /\ aside = NoPair
    /\ stage' = m
    /\ swap' = [NoSwap EXCEPT !.kind = kind, !.pc = "backup"]
    /\ UNCHANGED <<active, aside, failed, backups, good, damaged>>

promote_horizon(m) == BeginSwap("promote", Both(m))

\* _copy_horizon_artifacts needs the directory and the summary.
rollback_horizon(b) == b.dir # NoPart /\ b.sum # NoPart /\ BeginSwap("rollback", b)

backup_active_horizon ==
    /\ swap.pc = "backup"
    /\ swap' = [swap EXCEPT !.pc = "retire_dir", !.backup = active]
    /\ UNCHANGED <<active, aside, failed, stage, backups, good, damaged>>

RetireDir ==
    /\ swap.pc = "retire_dir"
    /\ swap' = [swap EXCEPT !.pc = "retire_sum", !.moved = active.dir # NoPart]
    /\ aside' = [aside EXCEPT !.dir = active.dir]
    /\ active' = [active EXCEPT !.dir = NoPart]
    /\ UNCHANGED <<failed, stage, backups, good, damaged>>

RetireSum ==
    /\ swap.pc = "retire_sum" /\ SwapTo("place_dir")
    /\ aside' = [aside EXCEPT !.sum = active.sum]
    /\ active' = [active EXCEPT !.sum = NoPart]
    /\ UNCHANGED <<failed, stage, backups, good, damaged>>

PlaceDir ==
    /\ swap.pc = "place_dir" /\ SwapTo("place_sum")
    /\ active' = [active EXCEPT !.dir = stage.dir]
    /\ stage' = [stage EXCEPT !.dir = NoPart]
    /\ UNCHANGED <<aside, failed, backups, good, damaged>>

PlaceSum ==
    /\ swap.pc = "place_sum"
    /\ active' = [active EXCEPT !.sum = stage.sum]
    /\ stage' = NoPair
    /\ IF swap.kind = "promote" THEN SwapTo("smoke") /\ UNCHANGED good
                                ELSE SwapTo("clean_dir") /\ good' = active'
    /\ UNCHANGED <<aside, failed, backups, damaged>>

\* Mutant: only the directory is put back.
PutBackDirOnly ==
    /\ active' = [dir |-> IF active.dir = NoPart THEN aside.dir ELSE active.dir, sum |-> active.sum]
    /\ aside' = [dir |-> IF active.dir = NoPart THEN NoPart ELSE aside.dir, sum |-> NoPart]

\* Each retired part whose place is empty is renamed back.
PutBack ==
    /\ active' = [dir |-> IF active.dir = NoPart THEN aside.dir ELSE active.dir,
                  sum |-> IF active.sum = NoPart THEN aside.sum ELSE active.sum]
    /\ aside' = [dir |-> IF active.dir = NoPart THEN NoPart ELSE aside.dir,
                 sum |-> IF active.sum = NoPart THEN NoPart ELSE aside.sum]

\* The except branch of the swap; its own renames may raise too.
SwapFails ==
    /\ "oserror" \in AnomalyFaults
    /\ swap.pc \in {"backup", "retire_dir", "retire_sum", "place_dir", "place_sum"}
    /\ stage' = NoPair /\ damaged' = TRUE
    /\ \/ PutBack /\ swap' = NoSwap /\ UNCHANGED backups
       \/ Unlock /\ UNCHANGED <<active, aside>>
    /\ UNCHANGED <<failed, good>>

\* Mutant: a failed smoke test is reported and nothing is undone.
smoke_horizon_reported ==
    /\ swap.pc = "smoke"
    /\ \/ SwapTo("clean_dir") /\ good' = active /\ UNCHANGED backups
       \/ Unlock /\ UNCHANGED good
    /\ UNCHANGED <<active, aside, failed, stage, damaged>>

smoke_horizon ==
    /\ swap.pc = "smoke"
    /\ \/ SwapTo("clean_dir") /\ good' = active
       \/ SwapTo("undo") /\ UNCHANGED good
    /\ UNCHANGED <<active, aside, failed, stage, backups, damaged>>

\* A failed smoke test of the first deployment leaves it active; otherwise the new parts
\* are set aside, the directory first.
SetAside ==
    /\ swap.pc = "undo"
    /\ IF swap.moved
       THEN SwapTo("back_dir") /\ failed' = active /\ active' = NoPair /\ UNCHANGED backups
       ELSE Unlock /\ UNCHANGED <<active, failed>>
    /\ UNCHANGED <<aside, stage, good, damaged>>

BackDir ==
    /\ swap.pc = "back_dir" /\ SwapTo("back_sum")
    /\ active' = [active EXCEPT !.dir = aside.dir]
    /\ aside' = [aside EXCEPT !.dir = NoPart]
    /\ UNCHANGED <<failed, stage, backups, good, damaged>>

\* Mutant: the summary of the failed model is put back.
BackSumOfFailed ==
    /\ swap.pc = "back_sum" /\ Unlock
    /\ active' = [active EXCEPT !.sum = failed.sum]
    /\ failed' = NoPair
    /\ UNCHANGED <<aside, stage, good, damaged>>

BackSum ==
    /\ swap.pc = "back_sum" /\ Unlock
    /\ active' = [active EXCEPT !.sum = aside.sum]
    /\ aside' = [aside EXCEPT !.sum = NoPart]
    /\ failed' = NoPair
    /\ UNCHANGED <<stage, good, damaged>>

\* A rename of the restore raises: the failed parts fill the places that are empty.
BackFails ==
    /\ "oserror" \in AnomalyFaults /\ swap.pc \in {"back_dir", "back_sum"}
    /\ active' = [dir |-> IF active.dir = NoPart THEN failed.dir ELSE active.dir,
                  sum |-> IF active.sum = NoPart THEN failed.sum ELSE active.sum]
    /\ failed' = [dir |-> IF active.dir = NoPart THEN NoPart ELSE failed.dir,
                  sum |-> IF active.sum = NoPart THEN NoPart ELSE failed.sum]
    /\ Unlock /\ damaged' = TRUE
    /\ UNCHANGED <<aside, stage, good>>

\* Removing the retired parts: here an OS error is not caught and ends the operation.
CleanDir ==
    /\ swap.pc = "clean_dir" /\ SwapTo("clean_sum")
    /\ aside' = [aside EXCEPT !.dir = NoPart]
    /\ UNCHANGED <<active, failed, stage, backups, good, damaged>>

CleanSum ==
    /\ swap.pc = "clean_sum" /\ Unlock
    /\ aside' = NoPair
    /\ UNCHANGED <<active, failed, stage, good, damaged>>

CleanFails ==
    /\ "oserror" \in AnomalyFaults /\ swap.pc \in {"clean_dir", "clean_sum"}
    /\ Unlock /\ damaged' = TRUE
    /\ UNCHANGED <<active, aside, failed, stage, good>>

CrashSwap ==
    /\ "crash" \in AnomalyFaults /\ swap # NoSwap
    /\ Unlock /\ damaged' = TRUE
    /\ UNCHANGED <<active, aside, failed, stage, good>>

SwapStep ==
    \/ backup_active_horizon \/ RetireDir \/ RetireSum \/ PlaceDir \/ PlaceSum
    \/ smoke_horizon \/ SetAside \/ BackDir \/ BackSum \/ CleanDir \/ CleanSum

AnomalyNext ==
    \/ \E m \in Models : promote_horizon(m)
    \/ \E b \in backups : rollback_horizon(b)
    \/ SwapStep \/ SwapFails \/ BackFails \/ CleanFails \/ CrashSwap

AnomalySpec == AnomalyInit /\ [][AnomalyNext]_avars

----------------------------------------------------------------------------
SwapRows == [kind : {"none", "promote", "rollback"}, pc : SwapPcs, moved : BOOLEAN, backup : Pair]

\* Types of the parts, of the operation in progress and of the history variables.
AnomalyTypeOK ==
    /\ active \in Pair /\ aside \in Pair /\ failed \in Pair /\ stage \in Pair /\ good \in Pair
    /\ backups \subseteq Pair \ {NoPair} /\ damaged \in BOOLEAN
    /\ swap \in SwapRows

\* Wherever promote_candidate or rollback_deployment stops, both parts of the last good
\* pair are still in the deployed root, in place or under their retired names.
GoodPairSurvives ==
    /\ good.dir \in {NoPart, active.dir, aside.dir}
    /\ good.sum \in {NoPart, active.sum, aside.sum}

\* Between operations, and as long as nothing died or raised, the summary in place belongs
\* to the directory in place although they are renamed one after the other.
PartsMatch == swap = NoSwap /\ ~damaged => active.dir = active.sum

\* Between operations only a horizon that never had a good pair can serve one whose smoke
\* test failed: "no_previous_deployment" leaves it active.
UnprovenOnlyAtFirst == swap = NoSwap /\ ~damaged /\ active # good => good = NoPair

\* The pair that the operation replaces: its parts are renamed one after the other, so it
\* may be in two places.
OldPair ==
    [dir |-> IF swap.pc \in {"retire_sum", "place_dir", "place_sum", "smoke", "undo", "back_dir"}
             THEN aside.dir ELSE active.dir,
     sum |-> IF swap.pc \in {"place_dir", "place_sum", "smoke", "undo", "back_dir", "back_sum"}
             THEN aside.sum ELSE active.sum]

\* The last good pair is the old one as long as nothing has replaced it, and the parts of
\* the old, the new and the archived pairs belong together unless something died or raised.
OldAndNew ==
    /\ swap.pc # "idle" => good.dir \in {NoPart, OldPair.dir} /\ good.sum \in {NoPart, OldPair.sum}
    /\ swap.pc \in {"retire_sum", "place_dir", "place_sum", "smoke", "undo"} /\ ~swap.moved => aside.dir = NoPart
    /\ swap.pc \in {"backup", "retire_dir"} => aside = NoPair
    /\ ~damaged =>
          /\ swap.pc # "idle" => OldPair.dir = OldPair.sum /\ good \in {NoPair, OldPair}
          /\ swap.pc \in {"backup", "retire_dir", "retire_sum", "place_dir"} => stage.dir = stage.sum
          /\ swap.pc = "place_sum" => active.dir = stage.sum
          /\ swap.pc \in {"smoke", "undo"} => active.dir = active.sum
          /\ \A b \in backups \cup {swap.backup} : b.dir = b.sum

\* Anomaly promotion: both parts of the last good pair survive, and directory and summary
\* belong together (anomaly/promotion.py).
AnomalyInv == AnomalyTypeOK /\ GoodPairSurvives /\ PartsMatch /\ UnprovenOnlyAtFirst /\ OldAndNew
============================================================================
