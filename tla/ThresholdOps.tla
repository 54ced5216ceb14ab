---------------------------- MODULE ThresholdOps ----------------------------
(***************************************************************************)
(* The batch commands that build, validate, promote and roll back the file *)
(* of anomaly warning thresholds (scripts/serving/anomaly_threshold_ops.py)*)
(* An operator runs one command at a time; a command is a sequence of file *)
(* operations and may be killed between any two of them.                   *)
(*                                                                         *)
(* A threshold file is [v, part]: which rows the build computed and how    *)
(* much of the file is on disk.  "empty" has lost its header, "partial"    *)
(* has the header and some rows.  The rows are abstracted to what          *)
(* validate_threshold_file tells apart: missing bounds (Bad), low samples  *)
(* (Thin), and the level of the upper bounds (Level).                      *)
(***************************************************************************)
EXTENDS Naturals, FiniteSets, Sequences

CONSTANTS TRuns,            \* run ids of candidates
          Rows,             \* what a build may find in the database
          Bad,              \* rows with missing or inverted bounds
          Thin,             \* rows with too few samples
          Level,            \* [Rows -> Nat]: the size of the upper bounds
          NoFile,
          MaxPromotions,    \* bound on the archived of a run
          ThresholdFaults   \* subset of {"crash", "db", "replace"}

ASSUME NoFileAssumption == NoFile \notin [v : Rows, part : {"whole", "partial", "empty"}] \cup {"pass", "warn", "fail"}
ASSUME ThresholdAssumption ==
    /\ Bad \subseteq Rows /\ Thin \subseteq Rows
    /\ Level \in [Rows -> Nat]
    /\ MaxPromotions \in Nat
    /\ ThresholdFaults \subseteq {"crash", "db", "replace"}

VARIABLES csv,        \* [TRuns -> file]: <candidate>/val_thresholds.csv
          verdict,    \* [TRuns -> ...]: the result in <candidate>/validation.json
          made,       \* the candidate directories that exist
          inforce,    \* artifacts/anomaly/thresholds/val_thresholds.csv
          staged,     \* .val_thresholds.csv.promoting
          archived,   \* the val_thresholds.csv of each archive, in order of stamps
          cmd         \* the running command and its program counter

tvars == <<csv, verdict, made, inforce, staged, archived, cmd>>

WholeFile(v) == [v |-> v, part |-> "whole"]
ThresholdFiles == [v : Rows, part : {"whole", "partial", "empty"}]
IsWhole(file) == file # NoFile /\ file.part = "whole"
Results == {"pass", "warn", "fail"}
NoCommand == [name |-> "none", pc |-> "idle"]

ThresholdInit ==
    /\ csv = [r \in TRuns |-> NoFile]
    /\ verdict = [r \in TRuns |-> NoFile]
    /\ made = {}
    /\ inforce = NoFile /\ staged = NoFile
    /\ archived = <<>>
    /\ cmd = NoCommand

At(name, pc) == cmd.name = name /\ cmd.pc = pc
StepTo(pc) == cmd' = [cmd EXCEPT !.pc = pc]
Finish == cmd' = NoCommand

-----------------------------------------------------------------------------
(* Reading and judging a file. *)

\* read_threshold_rows refuses a missing file and a file without its header.
Readable(file) == file # NoFile /\ file.part # "empty"

\* The deployed file is compared only when it exists.
Comparable(old) == old = NoFile \/ Readable(old)

Changed(file, old) == old # NoFile /\ Level[file.v] # Level[old.v]

\* Mutant: rows without numeric bounds are skipped, not reported.
validate_threshold_file_skipping_bounds(file, old) ==
    IF file.part # "whole" THEN "fail"
    ELSE IF file.v \in Thin \/ Changed(file, old) THEN "warn" ELSE "pass"

validate_threshold_file(file, old) ==
    IF file.part # "whole" \/ file.v \in Bad THEN "fail"
    ELSE IF file.v \in Thin \/ Changed(file, old) THEN "warn"
    ELSE "pass"

-----------------------------------------------------------------------------
(* build [--overwrite] *)

build_candidate(r, overwrite) ==
    /\ cmd = NoCommand
    /\ r \in made => overwrite                  \* "candidate already exists"
    /\ cmd' = [name |-> "build", pc |-> "remove", run |-> r]
    /\ UNCHANGED <<csv, verdict, made, inforce, staged, archived>>

\* Mutant: an overwriting build keeps the directory and its validation.json.
RemoveTreeKept ==
    /\ At("build", "remove")
    /\ made' = made \cup {cmd.run}
    /\ StepTo("query")
    /\ UNCHANGED <<csv, verdict, inforce, staged, archived>>

\* Mutant: the directory of an overwritten candidate is forgotten.
RemoveTreeNoMkdir ==
    /\ At("build", "remove")
    /\ csv' = [csv EXCEPT ![cmd.run] = NoFile]
    /\ verdict' = [verdict EXCEPT ![cmd.run] = NoFile]
    /\ made' = made \ {cmd.run}
    /\ StepTo("query")
    /\ UNCHANGED <<inforce, staged, archived>>

\* shutil.rmtree removes one file after the other, then the directory; mkdir.
RemoveTree ==
    /\ At("build", "remove")
    /\ LET r == cmd.run IN
       \/ /\ csv[r] # NoFile
          /\ csv' = [csv EXCEPT ![r] = NoFile]
          /\ UNCHANGED <<verdict, made, cmd>>
       \/ /\ verdict[r] # NoFile
          /\ verdict' = [verdict EXCEPT ![r] = NoFile]
          /\ UNCHANGED <<csv, made, cmd>>
       \/ /\ csv[r] = NoFile /\ verdict[r] = NoFile
          /\ made' = made \cup {r}
          /\ StepTo("query")
          /\ UNCHANGED <<csv, verdict>>
    /\ UNCHANGED <<inforce, staged, archived>>

\* The query succeeds with some rows, or raises and leaves an empty candidate.
QueryRows ==
    /\ At("build", "query")
    /\ \/ \E v \in Rows : cmd' = [name |-> "build", pc |-> "open", run |-> cmd.run, v |-> v]
       \/ "db" \in ThresholdFaults /\ Finish
    /\ UNCHANGED <<csv, verdict, made, inforce, staged, archived>>

\* The file grows: truncated by open("w"), header and rows, closed.
WriteCsv ==
    /\ cmd.name = "build" /\ cmd.pc \in {"open", "rows", "close"}
    /\ LET r == cmd.run
           part == CASE cmd.pc = "open" -> "empty"
                     [] cmd.pc = "rows" -> "partial"
                     [] cmd.pc = "close" -> "whole"
       IN csv' = [csv EXCEPT ![r] = [v |-> cmd.v, part |-> part]]
    /\ CASE cmd.pc = "open" -> StepTo("rows")
         [] cmd.pc = "rows" -> StepTo("close")
         [] cmd.pc = "close" -> Finish
    /\ UNCHANGED <<verdict, made, inforce, staged, archived>>

-----------------------------------------------------------------------------
(* validate *)

\* Raises, writing nothing, when either file cannot be read.
validate_threshold(r) ==
    /\ cmd = NoCommand
    /\ r \in made /\ Readable(csv[r]) /\ Comparable(inforce)
    /\ verdict' = [verdict EXCEPT ![r] = validate_threshold_file(csv[r], inforce)]
    /\ UNCHANGED <<csv, made, inforce, staged, archived, cmd>>

-----------------------------------------------------------------------------
(* promote --confirm [--allow-warn] [--revalidate] *)

Accepted(result, allowWarn) == result = "pass" \/ (result = "warn" /\ allowWarn)

\* A stored validation.json is taken as it is, without --revalidate.
promote_threshold(r, allowWarn, revalidate) ==
    /\ cmd = NoCommand
    /\ r \in made
    /\ Len(archived) < MaxPromotions
    /\ LET fresh == verdict[r] = NoFile \/ revalidate
           result == IF fresh THEN validate_threshold_file(csv[r], inforce)
                     ELSE verdict[r]
       IN /\ fresh => Readable(csv[r]) /\ Comparable(inforce)
          /\ verdict' = [verdict EXCEPT ![r] = result]
          /\ IF Accepted(result, allowWarn)
             THEN cmd' = [name |-> "promote", pc |-> "archive", run |-> r]
             ELSE cmd' = NoCommand
    /\ UNCHANGED <<csv, made, inforce, staged, archived>>

\* A new archive directory, then a copy of the current file into it.
ArchiveCurrent ==
    /\ cmd.name = "promote"
    /\ \/ /\ cmd.pc = "archive"
          /\ archived' = Append(archived, NoFile)
          /\ StepTo(IF inforce = NoFile THEN "stage" ELSE "backup")
       \/ /\ cmd.pc = "backup"
          /\ archived' = [archived EXCEPT ![Len(archived)] =
                              [v |-> inforce.v, part |-> "empty"]]
          /\ StepTo("backed")
       \/ /\ cmd.pc = "backed"
          /\ archived' = [archived EXCEPT ![Len(archived)] = inforce]
          /\ StepTo("stage")
    /\ UNCHANGED <<csv, verdict, made, inforce, staged>>

\* shutil.copy2 to the temporary file; it raises if the candidate has no file.
StageCandidate ==
    /\ cmd.name = "promote"
    /\ \/ /\ cmd.pc = "stage" /\ csv[cmd.run] # NoFile
          /\ staged' = [v |-> csv[cmd.run].v, part |-> "empty"]
          /\ StepTo("staging")
       \/ /\ cmd.pc = "stage" /\ csv[cmd.run] = NoFile
          /\ Finish
          /\ UNCHANGED staged
       \/ /\ cmd.pc = "staging"
          /\ staged' = csv[cmd.run]
          /\ StepTo("replace")
    /\ UNCHANGED <<csv, verdict, made, inforce, archived>>

\* Mutant: an existing file is overwritten in place.
ReplaceInPlace ==
    /\ At("promote", "replace")
    /\ \/ inforce # NoFile /\ inforce' = [staged EXCEPT !.part = "partial"] /\ UNCHANGED cmd
       \/ inforce' = staged /\ Finish
    /\ UNCHANGED <<csv, verdict, made, staged, archived>>

\* tmp_file.replace(deployed_file) is one rename.  When it raises, the backup
\* is copied over the deployed file.
Replace ==
    /\ At("promote", "replace")
    /\ \/ /\ inforce' = staged
          /\ Finish
       \/ /\ "replace" \in ThresholdFaults
          /\ IF archived[Len(archived)] = NoFile THEN Finish ELSE StepTo("undo")
          /\ UNCHANGED inforce
    /\ staged' = NoFile
    /\ UNCHANGED <<csv, verdict, made, archived>>

\* shutil.copy2(source, inforce): truncate, then write.
CopyOver(source) ==
    \/ /\ cmd.pc \in {"undo", "copy"}
       /\ inforce' = [v |-> source.v, part |-> "empty"]
       /\ StepTo("copying")
    \/ /\ cmd.pc = "copying"
       /\ inforce' = source
       /\ Finish

UndoReplace ==
    /\ cmd.name = "promote" /\ cmd.pc \in {"undo", "copying"}
    /\ CopyOver(archived[Len(archived)])
    /\ UNCHANGED <<csv, verdict, made, staged, archived>>

-----------------------------------------------------------------------------
(* rollback --confirm --archive-root *)

\* An archive is validated on its own before it is copied back.
rollback(a) ==
    /\ cmd = NoCommand
    /\ Readable(archived[a])
    /\ validate_threshold_file(archived[a], NoFile) # "fail"
    /\ cmd' = [name |-> "rollback", pc |-> "copy", from |-> a]
    /\ UNCHANGED <<csv, verdict, made, inforce, staged, archived>>

\* Mutant: the archived file is moved back, not copied.
RestoreArchiveMoved ==
    /\ cmd.name = "rollback"
    /\ \/ /\ cmd.pc = "copy"
          /\ inforce' = [v |-> archived[cmd.from].v, part |-> "empty"]
          /\ archived' = [archived EXCEPT ![cmd.from] = NoFile]
          /\ StepTo("copying")
       \/ /\ cmd.pc = "copying"
          /\ inforce' = [inforce EXCEPT !.part = "whole"]
          /\ Finish
          /\ UNCHANGED archived
    /\ UNCHANGED <<csv, verdict, made, staged>>

\* The file being replaced is not archived, and the copy is not a rename.
RestoreArchive ==
    /\ cmd.name = "rollback"
    /\ CopyOver(archived[cmd.from])
    /\ UNCHANGED <<csv, verdict, made, staged, archived>>

\* The process is killed: the files stay as they are, a copy in its middle
\* keeps some of the rows or none.
KillCommand ==
    /\ "crash" \in ThresholdFaults
    /\ cmd # NoCommand
    /\ Finish
    /\ IF cmd.pc = "copying"
       THEN \E part \in {"empty", "partial"} : inforce' = [inforce EXCEPT !.part = part]
       ELSE UNCHANGED inforce
    /\ IF cmd.name = "promote" /\ cmd.pc = "backed"
       THEN \E part \in {"empty", "partial"} :
                archived' = [archived EXCEPT ![Len(archived)].part = part]
       ELSE UNCHANGED archived
    /\ UNCHANGED <<csv, verdict, made, staged>>

-----------------------------------------------------------------------------
CommandStep == \/ RemoveTree \/ QueryRows \/ WriteCsv
               \/ ArchiveCurrent \/ StageCandidate \/ Replace \/ UndoReplace
               \/ RestoreArchive

ThresholdNext ==
    \/ \E r \in TRuns, overwrite \in BOOLEAN : build_candidate(r, overwrite)
    \/ \E r \in TRuns : validate_threshold(r)
    \/ \E r \in TRuns, w, f \in BOOLEAN : promote_threshold(r, w, f)
    \/ \E a \in DOMAIN archived : rollback(a)
    \/ CommandStep
    \/ KillCommand

ThresholdSpec == ThresholdInit /\ [][ThresholdNext]_tvars

-----------------------------------------------------------------------------
BuildCommands == [name : {"build"}, pc : {"remove", "query"}, run : TRuns]
WriteCommands == [name : {"build"}, pc : {"open", "rows", "close"}, run : TRuns, v : Rows]
PromoteCommands ==
    [name : {"promote"}, run : TRuns,
     pc : {"archive", "backup", "backed", "stage", "staging", "replace", "undo", "copying"}]
RollbackCommands == [name : {"rollback"}, pc : {"copy", "copying"}, from : DOMAIN archived]

\* The state of the files and of the running command has its type; a candidate
\* with files has a directory.
ThresholdTypeOK ==
    /\ csv \in [TRuns -> ThresholdFiles \cup {NoFile}]
    /\ verdict \in [TRuns -> Results \cup {NoFile}]
    /\ \A r \in TRuns : csv[r] # NoFile \/ verdict[r] # NoFile => r \in made
    /\ made \subseteq TRuns
    /\ {inforce, staged} \subseteq ThresholdFiles \cup {NoFile}
    /\ archived \in Seq(ThresholdFiles \cup {NoFile})
    /\ cmd \in {NoCommand} \cup BuildCommands \cup WriteCommands \cup PromoteCommands \cup RollbackCommands

\* What inference loads never has rows without bounds, whichever commands and
\* stored verdicts brought it there (validate_threshold_file, promote_threshold,
\* rollback).
DeployedVetted == IsWhole(inforce) => inforce.v \notin Bad

\* A validation.json that accepts a candidate is about the complete file that
\* lies beside it, however the commands that wrote the two were interrupted:
\* promote trusts that verdict without reading the rows again.
VerdictOfWholeFile ==
    \A r \in TRuns : verdict[r] \in {"pass", "warn"} /\ csv[r] # NoFile =>
        IsWhole(csv[r])

\* Once thresholds are in service a complete copy of thresholds that were in
\* service remains on disk - in place or in an archive - through every kill and
\* every failed rename, so a rollback can restore service.
CompleteCopySurvives ==
    inforce # NoFile => IsWhole(inforce) \/ \E a \in DOMAIN archived : IsWhole(archived[a])

\* While a promotion is not undoing a failed rename, readers of the deployed
\* file see the old file or the new one, never a part of either.
PromotionIsAtomic ==
    [][cmd.name = "promote" /\ cmd.pc \notin {"undo", "copying"} /\ inforce' # inforce
       => IsWhole(inforce')]_tvars

LastArchived == archived[Len(archived)]

\* A command finds the files as its steps so far left them: a build has no verdict beside the
\* rows it writes, a promotion has an accepted file and a copy of the one in force, a rollback
\* a complete archive; and no file that was ever accepted lacks bounds.
CommandShape ==
    /\ \A r \in TRuns : verdict[r] \in {"pass", "warn"} /\ csv[r] # NoFile => csv[r].v \notin Bad
    /\ \A a \in DOMAIN archived : IsWhole(archived[a]) => archived[a].v \notin Bad
    /\ cmd.name = "build" /\ cmd.pc # "remove" => verdict[cmd.run] = NoFile /\ cmd.run \in made
    /\ cmd.name = "promote" => verdict[cmd.run] \in {"pass", "warn"} /\ (cmd.pc # "archive" => archived # <<>>)
    /\ At("promote", "backup") => inforce # NoFile /\ LastArchived = NoFile
    /\ At("promote", "backed") => inforce # NoFile /\ LastArchived # NoFile /\ LastArchived.part = "empty"
    /\ cmd.name = "promote" /\ cmd.pc \in {"stage", "staging", "replace", "undo"} => LastArchived = inforce
    /\ cmd.name = "promote" /\ cmd.pc \in {"undo", "copying"} => LastArchived # NoFile
    /\ At("promote", "staging") => csv[cmd.run] # NoFile
    /\ At("promote", "replace") => IsWhole(staged) /\ staged.v \notin Bad
    /\ cmd.name = "rollback" => IsWhole(archived[cmd.from])
    /\ cmd.pc = "copying" => inforce # NoFile /\ inforce.part = "empty"

\* Thresholds: what inference loads was vetted, a verdict is about the file beside it, and a
\* complete copy survives every interrupted command (anomaly_threshold_ops.py).
ThresholdInv ==
    ThresholdTypeOK /\ DeployedVetted /\ VerdictOfWholeFile /\ CompleteCopySurvives /\ CommandShape
=============================================================================
