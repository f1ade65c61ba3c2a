------------------------------- MODULE MCStores -------------------------------
(***************************************************************************)
(* The two stores the repository keeps in one Postgres, for TLC: the memory *)
(* L4 and the knowledge base L5.  They share no table, no file and no lock, *)
(* so every behaviour is about one of them, and the other stays as it was.  *)
(***************************************************************************)
EXTENDS MemoryL4, Ingest, TLC

CONSTANTS p1, p2

VARIABLE store

stores == <<vars, ingestVars, store>>

\* Commands, workers and runs are interchangeable.
Interchangeable == Permutations(Procs)

ManifestOrder == <<"doc", "note">>
Lengths == [text \in Texts |-> IF text = "long" THEN 2 ELSE 1]

\* The knowledge base begins with a short pack, and with or without a document; for the
\* memory it does not matter.
StoresInit ==
    /\ Init /\ IngestInit
    /\ store \in {"L4", "L5"}
    /\ work["note"].md = "short"
    /\ store = "L4" => work["doc"] = NoEntry /\ sources["note"] = NoRow

\* What happens in the repository disturbs a run only through the checkout the next run
\* takes: it is enough to let it happen before the runs under way have done anything.
Untouched == begun < MaxRuns /\ \A r \in Runs : UnderWay(r) => run[r].at = "next" /\ run[r].place = 1

\* A process that has read nothing and written nothing has only made up its mind: it is
\* enough to let it do so just before its first statement.
Undisturbed(p) ==
    \A q \in Procs \ {p} : ~(proc[q].op \in {"remember", "write"} /\ proc[q].fact = 0 /\ proc[q].facts = {})

\* Bound: facts of agents ever written, by all workers together.
FewProposals == Cardinality({i \in Ids : rows[i].agent}) <= MaxFacts

StoresNext ==
    /\ \/ /\ store = "L4" /\ UNCHANGED ingestVars
          /\ \E p \in Procs : Undisturbed(p) /\ (Person(p) \/ Worker(p) \/ Kill(p))
          /\ FewProposals'
       \/ store = "L5" /\ Untouched /\ Repository /\ UNCHANGED vars
       \/ store = "L5" /\ KnowledgeBase /\ UNCHANGED vars
    /\ UNCHANGED store

StoresSpec == StoresInit /\ [][StoresNext]_stores

=============================================================================
