-------------------------------- MODULE Ingest ---------------------------------
(***************************************************************************)
(* How the knowledge base follows the main branch (ingest_apply.py and      *)
(* supabase_writer.py): a run takes a checkout, goes through the MANIFEST   *)
(* and replaces in knowledge_sources and knowledge_chunks what has changed. *)
(*                                                                         *)
(* The workflow and people start runs; several may be under way, each with  *)
(* a checkout of its own.  A statement of SQL is a step (READ COMMITTED):   *)
(* it sees what is committed, the first write of a row locks it to the end  *)
(* of the transaction, and what a transaction writes appears at its commit. *)
(*                                                                         *)
(* The rows one commit inserted are one batch: the text they are pieces of  *)
(* and their number, which is one for each chunk and agent.                 *)
(***************************************************************************)
EXTENDS Convert, FiniteSetsExt, SequencesExt

CONSTANTS
    Runs,       \* processes of ingest_apply
    Manifest,   \* the order of the MANIFEST
    Size,       \* the chunks a text is cut into
    MaxChunks,  \* --max-chunks, what a run may embed
    MaxRuns     \* bound: runs started

ASSUME IngestAssumption ==
    /\ Manifest \in Seq(Sources)
    /\ Size \in [Texts -> Nat \ {0}]
    /\ MaxChunks \in Nat /\ MaxRuns \in Nat
    /\ "nobody" \notin Runs

VARIABLES
    sources,    \* knowledge_sources: for each path its row
    chunks,     \* knowledge_chunks: for each path the batches of rows
    lock,       \* who has an uncommitted write of the path's row
    migrated,   \* f3_provenance_retrieve.sql has been run
    run, begun

ingestVars == <<convertVars, sources, chunks, lock, migrated, run, begun>>

Nobody == "nobody"
NoRow == [hash |-> NoText, agents |-> {}, count |-> 0, provenance |-> "unset"]

\* A run that is not under way.  One that is has its checkout, the place in the MANIFEST,
\* what it has embedded, what it read or is about to replace, the sources it has written and
\* those it passed over (skipped for the budget, or failed), and whether it was ever not alone.
NoRun == [at |-> "idle", tree |-> [s \in Sources |-> NoEntry], place |-> 1, used |-> 0,
          seen |-> NoRow, gone |-> {}, wrote |-> {}, skipped |-> {}, failed |-> {}, alone |-> TRUE]

UnderWay(r) == run[r].at \notin {"idle", "ended"}

Path(r) == Manifest[run[r].place]
Entry(r) == run[r].tree[Path(r)]
Has(r, at) == run[r].at = at /\ run[r].place <= Len(Manifest)

RowsOf(batches) == MapThenSumSet(LAMBDA b : b.rows, batches)

\* load_meta and the rules for dates and authority: no sidecar is no fault, a sidecar of
\* another text is.
Accepted(entry) ==
    entry.meta = NoMeta \/ (entry.meta.hash = entry.md /\ entry.meta.says # "broken")

\* to_source_columns: without a sidecar, what git says.
Provenance(entry) == IF entry.meta = NoMeta THEN "git" ELSE entry.meta.says

\* The row upsert_source writes; before the migration there is nowhere to put the provenance.
Row(entry) ==
    [hash |-> entry.md, agents |-> entry.agents, count |-> Size[entry.md],
     provenance |-> IF migrated THEN Provenance(entry) ELSE "unset"]

\* The rows that are committed with it.
Batch(by, entry) ==
    [by |-> by, text |-> entry.md, rows |-> Size[entry.md] * Cardinality(entry.agents)]

IngestInit ==
    /\ ConvertInit
    /\ migrated = FALSE
    /\ \E known \in {{}, {s \in Sources : work[s] # NoEntry}} :
        /\ sources = [s \in Sources |-> IF s \in known THEN Row(work[s]) ELSE NoRow]
        /\ chunks = [s \in Sources |-> IF s \in known THEN {Batch(Nobody, work[s])} ELSE {}]
    /\ lock = [s \in Sources |-> Nobody]
    /\ run = [r \in Runs |-> NoRun]
    /\ begun = 0

Turns(r, doing) == run' = [run EXCEPT ![r] = doing]

\* What is asked of a run that ended is asked before anything else happens to the tables.
NotAlone(r) == IF UnderWay(r) THEN [run[r] EXCEPT !.alone = FALSE] ELSE NoRun

\* On to the next source of the MANIFEST, and the end of the run after the last.
Onward(doing) ==
    [doing EXCEPT !.at = IF doing.place = Len(Manifest) THEN "ended" ELSE "next",
                  !.place = @ + 1, !.seen = NoRow, !.gone = {}]

\* An exception at a source: the run goes on to the next, and will report it.
Failing(r) == [Onward(run[r]) EXCEPT !.failed = @ \union {Path(r)}]

-----------------------------------------------------------------------------
\* main: a run of the workflow, or of a person, on what main is now.
Begin(r) ==
    /\ ~UnderWay(r) /\ begun < MaxRuns
    /\ begun' = begun + 1
    /\ run' = [q \in Runs |->
                 IF q = r THEN [NoRun EXCEPT !.at = "next", !.tree = main,
                                             !.alone = \A p \in Runs \ {r} : ~UnderWay(p)]
                 ELSE NotAlone(q)]
    /\ UNCHANGED <<convertVars, sources, chunks, lock, migrated>>

\* Not in the MANIFEST, no file, no text: nothing is done.  A sidecar that is not accepted
\* is a failure of the run, and so is a database that cannot be asked.
LeaveOut(r) ==
    /\ Has(r, "next")
    /\ \/ /\ Entry(r).agents = {} \/ Entry(r).md = NoText
          /\ Turns(r, Onward(run[r]))
       \/ /\ Entry(r).agents # {} /\ Entry(r).md # NoText
          /\ Turns(r, Failing(r))
    /\ UNCHANGED <<convertVars, sources, chunks, lock, migrated, begun>>

\* source_state, its first SELECT.
Look(r) ==
    /\ Has(r, "next")
    /\ Entry(r).agents # {} /\ Entry(r).md # NoText /\ Accepted(Entry(r))
    /\ Turns(r, [run[r] EXCEPT !.at = "count", !.seen = sources[Path(r)]])
    /\ UNCHANGED <<convertVars, sources, chunks, lock, migrated, begun>>

\* Mutant: the rows are not counted.
IsUnchangedByHash(entry, seen, rows) ==
    seen # NoRow /\ seen.hash = entry.md /\ seen.agents = entry.agents

\* The same text for the same agents, and all its rows are there.
IsUnchanged(entry, seen, rows) ==
    /\ seen # NoRow /\ seen.hash = entry.md /\ seen.agents = entry.agents
    /\ rows = seen.count * Cardinality(seen.agents)

Same(r) == IsUnchanged(Entry(r), run[r].seen, RowsOf(chunks[Path(r)]))

\* The second SELECT finds all as it should be: update_source_provenance is next.
Count(r) ==
    /\ Has(r, "count") /\ Same(r)
    /\ Turns(r, [run[r] EXCEPT !.at = "same"])
    /\ UNCHANGED <<convertVars, sources, chunks, lock, migrated, begun>>

\* It is a transaction of its own: it waits for the row, and asks again whether there is
\* anything to change.  Where it fails it may have been committed all the same.
Refresh(r) ==
    /\ Has(r, "same")
    /\ LET s == Path(r)
           provenance == Provenance(Entry(r))
           differs == migrated /\ sources[s] # NoRow /\ sources[s].provenance # provenance
       IN \/ ~differs /\ UNCHANGED sources /\ Turns(r, Onward(run[r]))
          \/ UNCHANGED sources /\ Turns(r, Failing(r))
          \/ /\ differs /\ lock[s] = Nobody
             /\ sources' = [sources EXCEPT ![s].provenance = provenance]
             /\ Turns(r, Onward(run[r])) \/ Turns(r, Failing(r))
    /\ UNCHANGED <<convertVars, chunks, lock, migrated, begun>>

Fits(r) == Size[Entry(r).md] <= MaxChunks - run[r].used

\* SKIPPED_QUOTA: a source is embedded whole or not at all.  It is no failure.
OverBudget(r) ==
    /\ Has(r, "count") /\ ~Same(r) /\ ~Fits(r)
    /\ Turns(r, [Onward(run[r]) EXCEPT !.skipped = @ \union {Path(r)}])
    /\ UNCHANGED <<convertVars, sources, chunks, lock, migrated, begun>>

\* embed_with_retry for each chunk; what was embedded of a source that fails is not counted.
Embed(r) ==
    /\ Has(r, "count") /\ ~Same(r) /\ Fits(r)
    /\ \/ Turns(r, [run[r] EXCEPT !.at = "upsert", !.seen = NoRow, !.used = @ + Size[Entry(r).md]])
       \/ Turns(r, Failing(r))
    /\ UNCHANGED <<convertVars, sources, chunks, lock, migrated, begun>>

-----------------------------------------------------------------------------
(* replace_chunks, one transaction *)

\* Mutant: every statement is committed by itself, and keeps nobody waiting.
UpsertAlone(r) ==
    /\ Has(r, "upsert")
    /\ Turns(r, [run[r] EXCEPT !.at = "delete"])
    /\ UNCHANGED <<convertVars, sources, chunks, lock, migrated, begun>>

\* has_f3_columns and upsert_source, which waits while another run has the row.
Upsert(r) ==
    /\ Has(r, "upsert") /\ lock[Path(r)] = Nobody
    /\ lock' = [lock EXCEPT ![Path(r)] = r]
    /\ Turns(r, [run[r] EXCEPT !.at = "delete"])
    /\ UNCHANGED <<convertVars, sources, chunks, migrated, begun>>

\* delete_chunks: what is committed now.
Delete(r) ==
    /\ Has(r, "delete")
    /\ Turns(r, [run[r] EXCEPT !.at = "insert", !.gone = chunks[Path(r)]])
    /\ UNCHANGED <<convertVars, sources, chunks, lock, migrated, begun>>

\* What a commit leaves of a source.
Committed(r, s) ==
    /\ sources' = [sources EXCEPT ![s] = Row(Entry(r))]
    /\ chunks' = [chunks EXCEPT ![s] =
           (@ \ run[r].gone) \union {Batch(r, Entry(r))}]

\* insert_chunks and the commit.  An exception takes everything back; when what failed is
\* the answer to the commit, everything is there and the run does not know.
Commit(r) ==
    /\ Has(r, "insert")
    /\ LET s == Path(r)
       IN /\ \/ Committed(r, s) /\ Turns(r, [Onward(run[r]) EXCEPT !.wrote = @ \union {s}])
             \/ Committed(r, s) /\ Turns(r, Failing(r))
             \/ /\ UNCHANGED <<sources, chunks>>
                /\ Turns(r, Failing(r))
          /\ lock' = [lock EXCEPT ![s] = Nobody]
    /\ UNCHANGED <<convertVars, migrated, begun>>

-----------------------------------------------------------------------------
\* cancel-in-progress, Ctrl-C: the transaction is rolled back.
Cancel(r) ==
    /\ UnderWay(r) /\ faults < MaxFaults
    /\ faults' = faults + 1
    /\ lock' = [s \in Sources |-> IF lock[s] = r THEN Nobody ELSE lock[s]]
    /\ Turns(r, NoRun)
    /\ UNCHANGED <<work, main, conv, edits, sources, chunks, migrated, begun>>

\* The developer runs the migration while no run is under way: the rows there are keep
\* what they have, which is no provenance.
Migrate ==
    /\ ~migrated /\ \A r \in Runs : ~UnderWay(r)
    /\ migrated' = TRUE
    /\ run' = [r \in Runs |-> NotAlone(r)]
    /\ UNCHANGED <<convertVars, sources, chunks, lock, begun>>

\* Somebody removes a row of a source by hand in the SQL editor, while no transaction has the
\* source.
RowLost ==
    /\ faults < MaxFaults
    /\ faults' = faults + 1
    /\ \E s \in Sources : \E b \in chunks[s] :
        /\ lock[s] = Nobody
        /\ chunks' = [chunks EXCEPT ![s] =
               (@ \ {b}) \union (IF b.rows = 1 THEN {} ELSE {[b EXCEPT !.rows = @ - 1]})]
    /\ run' = [r \in Runs |-> NotAlone(r)]
    /\ UNCHANGED <<work, main, conv, edits, sources, lock, migrated, begun>>

Repository == ConvertNext /\ UNCHANGED <<sources, chunks, lock, migrated, run, begun>>

RunStep(r) ==
    \/ Begin(r) \/ LeaveOut(r) \/ Look(r) \/ Count(r) \/ Refresh(r) \/ OverBudget(r) \/ Embed(r)
    \/ Upsert(r) \/ Delete(r) \/ Commit(r) \/ Cancel(r)

KnowledgeBase == Migrate \/ RowLost \/ (\E r \in Runs : RunStep(r))

IngestNext == Repository \/ KnowledgeBase

IngestSpec == IngestInit /\ [][IngestNext]_ingestVars

-----------------------------------------------------------------------------
(* Properties *)

\* What is found of a source is one document: all rows of its chunks are of the text its row
\* names, and of a converted document they are of a whole one, whatever runs replace it at
\* the same time and wherever one of them, or a conversion, is killed.
SourcesAreWhole ==
    \A s \in Sources : \A b \in chunks[s] :
        /\ chunks[s] = {b}
        /\ b.text = sources[s].hash
        /\ s \in Converted => b.text \in Texts

\* "O RAG da rede reflecte o Git": the knowledge base has the source as the checkout has it.
Reflects(s, entry) ==
    /\ sources[s] = Row(entry)
    /\ RowsOf(chunks[s]) = Size[entry.md] * Cardinality(entry.agents)

\* A run that nobody disturbed leaves all that it did not skip or report as failed as its
\* checkout has it, text, rows and provenance, whatever it found: rows lost, an old schema,
\* or what a cancelled run left behind.
RunLeavesCheckout ==
    \A r \in Runs : run[r].at = "ended" /\ run[r].alone =>
        \A s \in Range(Manifest) \ (run[r].skipped \union run[r].failed) :
            LET entry == run[r].tree[s]
            IN entry.agents # {} /\ entry.md # NoText => Reflects(s, entry)

\* The budget delays a source and does not starve it: a run that skips one that would fit,
\* and that nothing failed in, has written another, so that the next run has less to do.
SkippedForProgress ==
    \A r \in Runs : run[r].at = "ended" =>
        \A s \in run[r].skipped :
            Size[run[r].tree[s].md] <= MaxChunks /\ run[r].failed = {} => run[r].wrote # {}

================================================================================
