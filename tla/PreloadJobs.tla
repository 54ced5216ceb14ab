---------------------------- MODULE PreloadJobs ----------------------------
(***************************************************************************)
(* The scripts that fill the model output tables from files and from the   *)
(* reference tables: scripts/database/load_outputs_2023.py ("outputs"),    *)
(* load_anomaly_warnings_batch.py ("batch"), load_anomaly_warnings_gap.py  *)
(* ("gap"), load_anomaly_warnings_gap_unique.py ("gap_unique") and         *)
(* load_anomaly_features_split.py ("split").                               *)
(*                                                                         *)
(* They are started by hand, over each other's leftovers and beside the    *)
(* live writer; the warning loaders share the run id of their log row.     *)
(* Every insert is a transaction that may commit, fail, or commit and      *)
(* lose its answer; a process may die between any two.                     *)
(***************************************************************************)
EXTENDS Integers, Sequences, FiniteSets

CONSTANTS Loaders,     \* processes
          Files,       \* what there may be to load: "warnings", "features", "pmax" -> sequence of [key, usable]
          LiveKeys,    \* keys of the warning table that only the live writer has
          StartAt,     \* START_AT_FILE of the batch loader: the row it resumes at
          BatchSize,   \* BATCH_SIZE; for features the hours of a day
          MaxStarts    \* bound on the scripts started

Tables == {"warnings", "features", "pmax"}
ASSUME PreloadAssumption ==
    /\ StartAt \in Nat \ {0} /\ BatchSize \in Nat \ {0}
    /\ \A f \in Files : DOMAIN f = Tables /\ \A t \in Tables : DOMAIN f[t] \subseteq Nat

VARIABLES files,   \* the rows of the prediction files and of the reference tables
          preloaded,  \* table -> set of keys
          run_log,     \* table -> the log row of its run: status, and the script that wrote it last
          loader,  \* process -> its script
          starts
lvars == <<files, preloaded, run_log, loader, starts>>

Off == [kind |-> "off", table |-> "none", rest |-> <<>>, work |-> {}, expected |-> 0, final |-> -1]

\* A set of rows is the set of their positions in the files, and is gone through in that order.
KeysOf(t, rows) == {files[t][i].key : i \in rows}

\* load_outputs_2023: the rows of the period; load_pmax and load_anomaly_features filter alike.
Usable(t) == {i \in DOMAIN files[t] : files[t][i].usable}

\* gap: make_rows without the existing_keys, repetitions included.
missing_rows == {i \in Usable("warnings") : files["warnings"][i].key \notin preloaded["warnings"]}

\* gap_unique: make_rows without the keys seen, in the table or earlier in the files.
unseen_rows ==
    {i \in missing_rows : \A j \in Usable("warnings") : j < i => files["warnings"][j].key # files["warnings"][i].key}

\* batch: make_rows of the files from START_AT_FILE on.
rows_from_start_at == {i \in Usable("warnings") : i >= StartAt}

\* split: the hours whose measurements make an electric or a heat feature row.
sufficient_rows == Usable("features")

\* What main() of a script has to insert into table t.
Todo(kind, t) == CASE kind = "gap" -> missing_rows
                   [] kind = "gap_unique" -> unseen_rows
                   [] kind = "batch" -> rows_from_start_at
                   [] kind = "split" -> sufficient_rows
                   [] OTHER -> Usable(t)

Chunk(rows) == [rows |-> rows, tries |-> 0]
\* The number of rows before i.
Rank(rows, i) == Cardinality({j \in rows : j < i})
Batches(rows) == {Chunk({j \in rows : Rank(rows, j) \div BatchSize = Rank(rows, i) \div BatchSize}) : i \in rows}

\* load_anomaly_warnings of load_outputs_2023 stages every file and inserts in one statement.
Plan(kind, t) == IF kind = "outputs" /\ t = "warnings" THEN {Chunk(Todo(kind, t))} ELSE Batches(Todo(kind, t))

PreloadInit ==
    /\ files \in Files
    /\ preloaded = [t \in Tables |-> {}]
    /\ run_log = [t \in Tables |-> [status |-> "none", by |-> "off"]]
    /\ loader = [p \in Loaders |-> Off]
    /\ starts = 0

Begin(kind, tables) ==
    [kind |-> kind, table |-> Head(tables), rest |-> Tail(tables), work |-> Plan(kind, Head(tables)),
     expected |-> Cardinality(preloaded[Head(tables)]) + Cardinality(Todo(kind, Head(tables))), final |-> -1]

\* Start a script.  load_outputs_2023 has a --skip option for each of its three parts.
StartScript(p) ==
    /\ loader[p] = Off /\ starts < MaxStarts
    /\ starts' = starts + 1
    /\ \E s \in {<<"batch", <<"warnings">>>>, <<"gap", <<"warnings">>>>, <<"gap_unique", <<"warnings">>>>,
                 <<"split", <<"features">>>>, <<"outputs", <<"pmax", "features", "warnings">>>>,
                 <<"outputs", <<"features", "warnings">>>>, <<"outputs", <<"warnings">>>>} :
         loader' = [loader EXCEPT ![p] = Begin(s[1], s[2])]
    /\ UNCHANGED <<files, preloaded, run_log>>

Singles(c, tries) == {[rows |-> {i}, tries |-> tries] : i \in c.rows}
Halves(c) == LET front == {i \in c.rows : Rank(c.rows, i) < Cardinality(c.rows) \div 2}
             IN  {Chunk(front), Chunk(c.rows \ front)}

\* What is tried instead of a chunk that failed; {} when the exception leaves the script.
\* insert_batch of gap: three attempts, then row by row, once.  Of gap_unique: three attempts, then
\* halves, and a single row once more.  insert_window of split: three attempts, then hour by hour.
AfterError(kind, c) ==
    IF kind \in {"outputs", "batch"} \/ c.tries = 3 THEN {}
    ELSE IF c.tries < 2 THEN {[c EXCEPT !.tries = @ + 1]}
    ELSE CASE kind = "gap" -> Singles(c, 3)
           [] kind = "gap_unique" /\ Cardinality(c.rows) = 1 -> Singles(c, 3)
           [] kind = "gap_unique" /\ Cardinality(c.rows) > 1 -> Halves(c)
           [] kind = "split" /\ Cardinality(c.rows) > 1 -> Singles(c, 0)
           [] OTHER -> {}

\* Mutant: the exception of a chunk is caught outside the loop over the chunks.
Raised_caught(p) == loader' = [loader EXCEPT ![p].work = {}]
\* An exception leaves main(); nothing is logged.
Raised(p) == loader' = [loader EXCEPT ![p] = Off]

\* INSERT ... ON CONFLICT DO UPDATE of one statement fails on a key that occurs twice.
Refused(j, c) == /\ j.kind = "outputs" /\ j.table = "warnings"
                 /\ Cardinality(KeysOf(j.table, c.rows)) < Cardinality(c.rows)
\* The log row of load_outputs_2023's warnings is in the transaction of the rows.
Commit(j, c) == /\ preloaded' = [preloaded EXCEPT ![j.table] = @ \cup KeysOf(j.table, c.rows)]
                /\ run_log' = IF j.kind = "outputs" /\ j.table = "warnings"
                              THEN [run_log EXCEPT !["warnings"] = [status |-> "success", by |-> "outputs"]] ELSE run_log

\* One transaction, of the first chunk: it commits, it fails, or it commits and the answer is lost.
InsertChunk(p) ==
    \E c \in loader[p].work :
    LET j == loader[p] IN
    /\ \A d \in j.work \ {c} : \A i \in d.rows : \E k \in c.rows : k < i
    /\ \/ ~Refused(j, c) /\ Commit(j, c) /\ loader' = [loader EXCEPT ![p].work = @ \ {c}]
       \/ /\ (~Refused(j, c) /\ Commit(j, c)) \/ UNCHANGED <<preloaded, run_log>>
          /\ IF AfterError(j.kind, c) = {} THEN Raised(p)
             ELSE loader' = [loader EXCEPT ![p].work = (@ \ {c}) \cup AfterError(j.kind, c)]
    /\ UNCHANGED <<files, starts>>

\* count_actual of gap_unique, in a transaction of its own.
count_actual(p) ==
    /\ loader[p].kind = "gap_unique" /\ loader[p].work = {} /\ loader[p].final < 0
    /\ loader' = [loader EXCEPT ![p].final = Cardinality(preloaded["warnings"])]
    /\ UNCHANGED <<files, preloaded, run_log, starts>>

LogStatus(j) == IF j.kind = "gap_unique" /\ j.final # j.expected THEN "degraded" ELSE "success"

\* write_log; the features of load_outputs_2023 have none and its warnings already have theirs.
\* Then the next table of the script, or its end.
write_log(p) ==
    LET j == loader[p] IN
    /\ j.kind # "off" /\ j.work = {} /\ (j.kind = "gap_unique" => j.final >= 0)
    /\ run_log' = IF j.kind = "outputs" /\ j.table # "pmax" THEN run_log
              ELSE [run_log EXCEPT ![j.table] = [status |-> LogStatus(j), by |-> j.kind]]
    /\ loader' = [loader EXCEPT ![p] = IF j.rest = <<>> THEN Off ELSE Begin(j.kind, j.rest)]
    /\ UNCHANGED <<files, preloaded, starts>>

Die(p) == loader[p] # Off /\ loader' = [loader EXCEPT ![p] = Off] /\ UNCHANGED <<files, preloaded, run_log, starts>>

\* The serving sink writes warnings of the same period.
LiveWrite(k) == /\ k \notin preloaded["warnings"]
                /\ preloaded' = [preloaded EXCEPT !["warnings"] = @ \cup {k}]
                /\ UNCHANGED <<files, run_log, loader, starts>>

PreloadNext == \/ \E p \in Loaders : StartScript(p) \/ InsertChunk(p) \/ count_actual(p) \/ write_log(p) \/ Die(p)
               \/ \E k \in LiveKeys : LiveWrite(k)
PreloadSpec == PreloadInit /\ [][PreloadNext]_lvars

-----------------------------------------------------------------------------
\* A log row that says success is the log of a complete load: every row of the period is in the
\* table, whichever scripts ran, failed, retried or died before.  The batch loader is left out: it
\* resumes at a file named in the script and logs success whatever was loaded before that file
\* (load_anomaly_warnings_gap_unique.py:148-157, load_anomaly_features_split.py:126-148).
LoggedIsLoaded == \A t \in Tables : run_log[t].status = "success" /\ run_log[t].by # "batch"
                                      => KeysOf(t, Usable(t)) \subseteq preloaded[t]
=============================================================================
