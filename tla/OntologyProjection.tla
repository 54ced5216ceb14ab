------------------------- MODULE OntologyProjection -------------------------
(***************************************************************************)
(* The ontology schema: load_ontology_projection.py writes the meters,     *)
(* their groups, redundancy pairs and triples from the source files in one *)
(* transaction and logs the source hashes; scripts/ontology/load_db.py     *)
(* reads them back, statement by statement, to regenerate the RDF files.   *)
(*                                                                         *)
(* A row is its key, <<table, name>>; what a table stores of it is the     *)
(* version of the sources it was written from.  Source files do not change *)
(* while a loader parses and hashes them.                                  *)
(***************************************************************************)
EXTENDS Naturals, Sequences, FiniteSets, Functions

CONSTANTS Revisions,    \* revisions of the source files that pass the expected counts
          RowsIn,       \* revision -> keys of its rows
          Needs,        \* revision -> key -> keys its foreign keys name
          Projectors,   \* runs of the loader
          Fetchers,     \* runs of the reader
          LegacySchema, \* whether cms_metadata exists
          NoProjector

\* The REFERENCES of the tables.
References ==
    [meter           |-> {"building", "equipment_group", "meter_role", "hardware_model"},
     redundancy_pair |-> {"meter", "equipment_group"},
     building |-> {}, equipment_group |-> {}, meter_role |-> {}, hardware_model |-> {}, measurement_code |-> {}, triple |-> {}]

\* A revision of the sources is complete in itself, and a meter has its hardware (NOT NULL).
ASSUME OntologyAssumption ==
    /\ \A v \in Revisions : \A k \in RowsIn[v] :
          /\ k[1] \in DOMAIN References
          /\ Needs[v][k] \subseteq {p \in RowsIn[v] : p[1] \in References[k[1]]}
          /\ k[1] = "meter" => \E p \in Needs[v][k] : p[1] = "hardware_model"
    /\ NoProjector \notin Projectors

VARIABLES revision,  \* of the files on disk
          ontology,  \* the committed tables: key -> revision
          load_log,  \* its committed row: status and revision
          writing,   \* the transaction that holds the log row: owner, tables, log
          projector, \* loader -> where it stands, the next table, its revision
          fetcher    \* reader -> where it stands, what it has read, whether a commit came in between
ovars == <<revision, ontology, load_log, writing, projector, fetcher>>

NoLog == [status |-> "none", of |-> "none"]
NoWrite == [owner |-> NoProjector, tables |-> <<>>, log |-> NoLog]
Unfetched == [at |-> "check", meters |-> {}, pairs |-> {}, hardware |-> {}, straddled |-> FALSE]
OntologyInit == /\ revision \in Revisions
                /\ ontology = <<>> /\ load_log = NoLog /\ writing = NoWrite
                /\ projector = [l \in Projectors |-> [at |-> "new", table |-> 1, of |-> "none"]]
                /\ fetcher = [f \in Fetchers |-> Unfetched]

ChangeSources == /\ revision' \in Revisions \ {revision}
                 /\ UNCHANGED <<ontology, load_log, writing, projector, fetcher>>

-----------------------------------------------------------------------------
InTable(t, keys) == {k \in keys : k[1] = t}

\* The order the tables are written in: parents first.
\* Mutant: the pairs before the meters.
LoadOrder_pairs_first == <<"building", "equipment_group", "meter_role", "hardware_model", "redundancy_pair", "meter", "measurement_code", "triple">>
LoadOrder == <<"building", "equipment_group", "meter_role", "hardware_model", "meter", "redundancy_pair", "measurement_code", "triple">>

MoveTo(l, where) == projector' = [projector EXCEPT ![l].at = where]

\* load_sources: counts other than the expected ones end the run, so a revision is one that has them.
load_sources(l) ==
    /\ projector[l].at = "new"
    /\ projector' = [projector EXCEPT ![l] = [at |-> "connect", table |-> 1, of |-> revision]]
    /\ UNCHANGED <<revision, ontology, load_log, writing, fetcher>>

\* The first write of the transaction is the log row, the same one for all runs: whoever has
\* written it makes the others wait until it ends.
LogStarted(l) ==
    /\ projector[l].at = "connect" /\ writing.owner = NoProjector
    /\ writing' = [owner |-> l, tables |-> ontology, log |-> [status |-> "started", of |-> projector[l].of]]
    /\ MoveTo(l, "write")
    /\ UNCHANGED <<revision, ontology, load_log, fetcher>>

\* Mutant: a row that is there already is left alone.
Upserted_ignoring(tables, keys, v) == [k \in keys \cup DOMAIN tables |-> IF k \in DOMAIN tables THEN tables[k] ELSE v]
Upserted(tables, keys, v) == [k \in keys \cup DOMAIN tables |-> IF k \in keys THEN v ELSE tables[k]]

\* Mutant: the triples of earlier loads stay.
Cleared_never(tables, t) == tables
Cleared(tables, t) == IF t = "triple" THEN Restrict(tables, DOMAIN tables \ InTable(t, DOMAIN tables)) ELSE tables

\* upsert_many of one table; the triples of the file are deleted first.  A row that names a missing
\* parent raises.
upsert_many(l) ==
    LET n == projector[l].table
        v == projector[l].of
        rows == InTable(LoadOrder[n], RowsIn[v])
        kept == Cleared(writing.tables, LoadOrder[n])
    IN /\ projector[l].at = "write" /\ n \in DOMAIN LoadOrder
       /\ IF UNION {Needs[v][k] : k \in rows} \subseteq DOMAIN kept \cup rows
          THEN /\ writing' = [writing EXCEPT !.tables = Upserted(kept, rows, v)]
               /\ projector' = [projector EXCEPT ![l].table = n + 1]
          ELSE /\ writing' = NoWrite
               /\ MoveTo(l, "dangling")
       /\ UNCHANGED <<revision, ontology, load_log, fetcher>>

\* The log row turns to success and the transaction commits.
CommitLoad(l) ==
    /\ projector[l].at = "write" /\ projector[l].table = Len(LoadOrder) + 1
    /\ ontology' = writing.tables
    /\ load_log' = [writing.log EXCEPT !.status = "success"]
    /\ writing' = NoWrite
    /\ MoveTo(l, "verify")
    /\ fetcher' = [f \in Fetchers |-> [fetcher[f] EXCEPT !.straddled = fetcher[f].at \in {"pairs", "hardware"} \/ @]]
    /\ UNCHANGED revision

\* verify prints counts of what is there; nothing depends on them.
verify(l) == /\ projector[l].at = "verify"
             /\ MoveTo(l, "done")
             /\ UNCHANGED <<revision, ontology, load_log, writing, fetcher>>

\* The process dies or a statement fails: rollback.  The operator may start over.
LoadFails(l) ==
    /\ projector[l].at \notin {"new", "done", "dangling"}
    /\ writing' = IF writing.owner = l THEN NoWrite ELSE writing
    /\ MoveTo(l, "new")
    /\ UNCHANGED <<revision, ontology, load_log, fetcher>>

-----------------------------------------------------------------------------
Keys(t) == InTable(t, DOMAIN ontology)
NeedsOf(k) == Needs[ontology[k]][k]

\* check_metadata_tables: the ontology schema if its tables exist, else the older one, else no source.
check_metadata_tables(f) ==
    /\ fetcher[f].at = "check"
    /\ fetcher' = [fetcher EXCEPT ![f].at = IF load_log # NoLog THEN "meters"
                                            ELSE IF LegacySchema THEN "legacy" ELSE "no_source"]
    /\ UNCHANGED <<revision, ontology, load_log, writing, projector>>

\* _fetch_cms_metadata: nobody writes that schema, its three SELECTs are one step.
fetch_cms_metadata(f) ==
    /\ fetcher[f].at = "legacy"
    /\ fetcher' = [fetcher EXCEPT ![f].at = "fetched"]
    /\ UNCHANGED <<revision, ontology, load_log, writing, projector>>

\* _fetch_ontology_metadata: three SELECTs, each of what is committed by then.
fetch_ontology_metadata(f) ==
    /\ \/ /\ fetcher[f].at = "meters"
          /\ fetcher' = [fetcher EXCEPT ![f].at = "pairs", ![f].meters = Keys("meter")]
       \/ /\ fetcher[f].at = "pairs"
          /\ fetcher' = [fetcher EXCEPT ![f].at = "hardware",
                                        ![f].pairs = {NeedsOf(p) : p \in Keys("redundancy_pair")}]
       \/ /\ fetcher[f].at = "hardware"
          /\ fetcher' = [fetcher EXCEPT ![f].at = "fetched",
                                        ![f].hardware = {m \in Keys("meter") : NeedsOf(m) \cap Keys("hardware_model") # {}}]
    /\ UNCHANGED <<revision, ontology, load_log, writing, projector>>

OntologyNext == \/ ChangeSources
                \/ \E l \in Projectors : \/ load_sources(l) \/ LogStarted(l) \/ upsert_many(l)
                                         \/ CommitLoad(l) \/ verify(l) \/ LoadFails(l)
                \/ \E f \in Fetchers : check_metadata_tables(f) \/ fetch_cms_metadata(f) \/ fetch_ontology_metadata(f)
OntologySpec == OntologyInit /\ [][OntologyNext]_ovars

-----------------------------------------------------------------------------
\* What the log calls a success is there: every row of the named sources in the version of those
\* sources, and no triple of others, whatever loads ran side by side or died (load_projection).
LogNamesContent ==
    load_log # NoLog =>
        /\ load_log.status = "success"
        /\ \A k \in RowsIn[load_log.of] : k \in DOMAIN ontology /\ ontology[k] = load_log.of
        /\ Keys("triple") = InTable("triple", RowsIn[load_log.of])

\* The tables are written in an order their foreign keys allow: complete sources always load,
\* into an empty schema and over any earlier revision.
NeverDangling == \A l \in Projectors : projector[l].at # "dangling"

\* What a reader has fetched belongs together unless a load was committed while it read: both
\* meters of a pair are among the meters, and each meter has its hardware (load_db.py:149-240).
FetchBelongsTogether ==
    \A f \in Fetchers : fetcher[f].at = "fetched" /\ ~fetcher[f].straddled =>
        /\ \A p \in fetcher[f].pairs : InTable("meter", p) \subseteq fetcher[f].meters
        /\ fetcher[f].hardware = fetcher[f].meters

OntologyInv == LogNamesContent /\ NeverDangling /\ FetchBelongsTogether
=============================================================================
