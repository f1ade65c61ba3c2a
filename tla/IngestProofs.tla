------------------------------ MODULE IngestProofs ------------------------------
(***************************************************************************)
(* What a source has in the knowledge base is one document, the budget      *)
(* starves no source, and a run that nobody disturbs leaves its checkout,   *)
(* for any number of runs, sources, edits and kills.                        *)
(*                                                                         *)
(* The lock of the source's row is what makes it so: between its DELETE and *)
(* its commit a run knows all rows of the source (Fine), and the test of   *)
(* the pull request is what keeps a half-written document out (Good).  Of a *)
(* run that is alone, what it read is what is there, and what it has been   *)
(* through stays as its checkout has it (Current).                          *)
(***************************************************************************)
EXTENDS Ingest, FiniteSetTheorems, TLAPS

Says == {"active", "revoked", "broken"}
Agents == Readers \union {{}}

Meta == [hash : Texts \union {NoText}, says : Says]
Entries == [md : Texts \union {NoText, Torn}, meta : Meta, agents : Agents]

Rows == [hash : Texts \union {NoText}, agents : Agents, count : Nat,
         provenance : Says \union {"git", "unset"}]
Batches == [by : Runs \union {Nobody}, text : Texts, rows : Int]

RunRecords == [at : {"idle", "next", "count", "same", "upsert", "delete", "insert", "ended"},
               tree : [Sources -> Entries], place : Nat \ {0}, used : Nat, seen : Rows,
               gone : SUBSET Batches, wrote : SUBSET Sources, skipped : SUBSET Sources,
               failed : SUBSET Sources, alone : BOOLEAN]

\* Only a conversion leaves half a file.
Packs(tree) == \A s \in Sources \ Converted : tree[s].md # Torn

\* A checkout: what it lists and has is whole.
Good(tree) == \A s \in Sources : tree[s].agents # {} /\ tree[s].md # NoText => tree[s].md \in Texts

ConvOK ==
    /\ conv.source \in Converted \/ conv.at = "idle"
    /\ conv.at # "idle" => conv.text \in Texts
    /\ conv.part \in Texts \union {NoText, Torn, Failed}
    /\ conv.out \in Texts \union {NoText, Failed}
    /\ conv.at \in {"opens", "md", "meta"} => conv.out \in Texts
    /\ conv = [at |-> conv.at, source |-> conv.source, text |-> conv.text,
               part |-> conv.part, out |-> conv.out]

TreesOK ==
    /\ work \in [Sources -> Entries] /\ Packs(work)
    /\ main \in [Sources -> Entries] /\ Good(main)

StoreOK ==
    /\ migrated \in BOOLEAN
    /\ sources \in [Sources -> Rows]
    /\ chunks \in [Sources -> SUBSET Batches]
    /\ lock \in [Sources -> Runs \union {Nobody}]

Writing == {"delete", "insert"}
Deciding == {"count", "same", "upsert"} \union Writing

Source(d) == Manifest[d.place]

\* Where a run is that has come as far as d.
Fine(r, d, locks, batches) ==
    /\ Good(d.tree)
    /\ d.at \in Deciding =>
           d.place <= Len(Manifest) /\ d.tree[Source(d)].agents # {} /\ d.tree[Source(d)].md \in Texts
    /\ d.at \in Writing => locks[Source(d)] = r
    /\ d.at = "insert" => d.gone = batches[Source(d)]

\* What one that has neither written nor failed may still embed.
Thrifty(d) ==
    /\ d.failed = {} /\ d.wrote = {} /\ d.at \notin {"upsert"} \union Writing => d.used = 0
    /\ \A s \in d.skipped :
           /\ d.tree[s].md \in Texts
           /\ d.failed # {} \/ d.wrote # {} \/ Size[d.tree[s].md] > MaxChunks

Whole(s) ==
    \A b \in chunks[s] : chunks[s] = {b} /\ b.text = sources[s].hash /\ b.text \in Texts

IngestInv ==
    /\ ConvOK /\ TreesOK /\ StoreOK
    /\ run \in [Runs -> RunRecords]
    /\ \A r \in Runs : Fine(r, run[r], lock, chunks) /\ Thrifty(run[r])
    /\ \A s \in Sources : Whole(s)

-----------------------------------------------------------------------------
(* Helpers *)

LEMMA EmptyTree ==
  /\ NoRow \in Rows
  /\ NoRun \in RunRecords
  /\ Good(NoRun.tree)
BY DEF NoRun, NoRow, RunRecords, Rows, Good, NoEntry, NoMeta, Entries, Meta, Says, Agents

LEMMA PathIsSource ==
  ASSUME NEW d \in RunRecords, d.place <= Len(Manifest)
  PROVE  Source(d) \in Sources
BY IngestAssumption DEF Source, RunRecords

\* The row a commit writes, and the rows of its chunks.
LEMMA WhatIsCommitted ==
  ASSUME NEW entry \in Entries, entry.md \in Texts, NEW by \in Runs \union {Nobody}
  PROVE  /\ Row(entry) \in Rows /\ Row(entry).hash = entry.md
         /\ Batch(by, entry) \in Batches /\ Batch(by, entry).text = entry.md
<1>1. Size[entry.md] \in Nat
  BY IngestAssumption
<1>2. IsFiniteSet(entry.agents)
  BY ConvertAssumption, FS_EmptySet DEF Entries, Agents
<1>3. Cardinality(entry.agents) \in Nat
  BY <1>2, FS_CardinalityType
<1>4. Size[entry.md] * Cardinality(entry.agents) \in Int
  BY <1>1, <1>3
<1>5. Provenance(entry) \in Says \union {"git"}
  BY DEF Provenance, Entries, Meta
<1> QED
  BY <1>1, <1>4, <1>5 DEF Row, Batch, Rows, Batches, Entries, Meta, Agents

-----------------------------------------------------------------------------
(* The initial states, and the repository *)

LEMMA FirstTrees ==
  ASSUME ConvertInit
  PROVE  /\ ConvOK /\ TreesOK
         /\ \A s \in Sources : work[s] \in Entries /\ (work[s] # NoEntry => work[s].md \in Texts)
<1>1. ASSUME NEW s \in Sources
      PROVE  /\ work[s] \in Entries
             /\ work[s] # NoEntry => work[s].md \in Texts
             /\ s \notin Converted => work[s].md \in Texts
  BY ConvertAssumption
     DEF ConvertInit, Initially, Pack, Document, NoEntry, NoMeta, Entries, Meta, Says, Agents
<1>2. work \in [Sources -> Entries]
  BY <1>1 DEF ConvertInit
<1>3. \A s \in Sources : work[s].agents # {} => work[s] # NoEntry
  BY DEF NoEntry
<1>4. Torn \notin Texts
  BY ConvertAssumption DEF Torn
<1>5. TreesOK
  BY <1>1, <1>2, <1>3, <1>4 DEF TreesOK, Packs, Good, ConvertInit
<1>6. ConvOK
  BY DEF ConvOK, ConvertInit, NoConversion
<1> QED
  BY <1>1, <1>5, <1>6

LEMMA InvInit == IngestInit => IngestInv
<1> SUFFICES ASSUME IngestInit PROVE IngestInv
  OBVIOUS
<1>1. ConvertInit
  BY DEF IngestInit
<1>2. ConvOK /\ TreesOK
  BY <1>1, FirstTrees
<1>3. PICK known \in {{}, {s \in Sources : work[s] # NoEntry}} :
        /\ sources = [s \in Sources |-> IF s \in known THEN Row(work[s]) ELSE NoRow]
        /\ chunks = [s \in Sources |-> IF s \in known THEN {Batch(Nobody, work[s])} ELSE {}]
  BY DEF IngestInit
<1>4. ASSUME NEW s \in Sources
      PROVE  sources[s] \in Rows /\ chunks[s] \in SUBSET Batches /\ Whole(s)
  <2>1. CASE s \in known
    <3>1. work[s] \in Entries /\ work[s].md \in Texts
      BY <1>1, <2>1, FirstTrees
    <3>2. /\ Row(work[s]) \in Rows /\ Row(work[s]).hash = work[s].md
          /\ Batch(Nobody, work[s]) \in Batches /\ Batch(Nobody, work[s]).text = work[s].md
      BY <3>1, WhatIsCommitted
    <3> QED
      BY <1>3, <2>1, <3>1, <3>2 DEF Whole
  <2>2. CASE s \notin known
    BY <1>3, <2>2, EmptyTree DEF Whole
  <2> QED
    BY <2>1, <2>2
<1>5. StoreOK
  BY <1>3, <1>4 DEF StoreOK, IngestInit
<1>6. run \in [Runs -> RunRecords] /\ \A r \in Runs : run[r] = NoRun
  BY EmptyTree DEF IngestInit
<1>7. \A r \in Runs : Fine(r, run[r], lock, chunks) /\ Thrifty(run[r])
  BY <1>6, EmptyTree DEF Fine, Thrifty, NoRun, Deciding, Writing
<1> QED
  BY <1>2, <1>4, <1>5, <1>6, <1>7 DEF IngestInv

LEMMA ConversionKeeps ==
  ASSUME ConvOK, TreesOK, Conversion
  PROVE  ConvOK' /\ TreesOK'
<1> USE DEF ConvOK
<1>0. /\ conv.source \in Converted \/ conv.at = "idle"
      /\ conv.at # "idle" => conv.source \in Sources
      /\ ({Torn, NoText, Failed} \intersect Texts = {})
  BY ConvertAssumption DEF Torn, NoText, Failed
<1>1. CASE ConvertStarts
  BY <1>1 DEF ConvertStarts, NoConversion, TreesOK, Packs, Good
<1>2. CASE ChildWrites
  BY <1>2 DEF ChildWrites, TreesOK, Packs, Good
<1>3. CASE ChildFails
  BY <1>3 DEF ChildFails, TreesOK, Packs, Good
<1>4. CASE ChildPublishes
  BY <1>4 DEF ChildPublishes, TreesOK, Packs, Good
<1>5. CASE ChildDies
  BY <1>5 DEF ChildDies, TreesOK, Packs, Good
<1>6. CASE ParentReads
  BY <1>6 DEF ParentReads, NoConversion, TreesOK, Packs, Good
<1>7. CASE WriteMd
  <2>1. ConvOK'
    BY <1>7 DEF WriteMd
  <2>2. main' = main /\ conv.source \in Converted /\ conv.out \in Texts
    BY <1>7 DEF WriteMd
  <2>3. PICK md \in Texts \union {Torn} : work' = [work EXCEPT ![conv.source].md = md]
    BY <1>7, <2>2 DEF WriteMd
  <2>4. work' \in [Sources -> Entries] /\ Packs(work')
    BY <1>0, <2>2, <2>3 DEF TreesOK, Entries, Packs
  <2> QED
    BY <2>1, <2>2, <2>4 DEF TreesOK
<1>8. CASE WriteMeta
  <2>1. ConvOK'
    BY <1>8 DEF WriteMeta, NoConversion
  <2>2. main' = main /\ conv.source \in Sources /\ conv.out \in Texts
    BY <1>0, <1>8 DEF WriteMeta
  <2>3. work' \in [Sources -> Entries] /\ Packs(work')
    BY <1>8, <2>2 DEF WriteMeta, TreesOK, Entries, Meta, Says, Packs
  <2> QED
    BY <2>1, <2>2, <2>3 DEF TreesOK
<1>9. CASE ConvertKilled
  <2>1. ConvOK' /\ main' = main
    BY <1>9 DEF ConvertKilled, NoConversion
  <2>2. work' \in [Sources -> Entries] /\ Packs(work')
    <3>1. CASE work' = work
      BY <3>1 DEF TreesOK, Packs
    <3>2. CASE work' = [work EXCEPT ![conv.source].meta = [hash |-> NoText, says |-> "broken"]]
      <4>1. conv.source \in Sources
        BY <1>0, <1>9 DEF ConvertKilled
      <4> QED
        BY <3>2, <4>1 DEF TreesOK, Entries, Meta, Says, Packs
    <3> QED
      BY <1>9, <3>1, <3>2 DEF ConvertKilled
  <2> QED
    BY <2>1, <2>2 DEF TreesOK
<1> QED
  BY <1>1, <1>2, <1>3, <1>4, <1>5, <1>6, <1>7, <1>8, <1>9 DEF Conversion

LEMMA EditKeeps ==
  ASSUME ConvOK, TreesOK, NEW s \in Sources, NEW entry \in Entries, Edit(s, entry),
         s \in Converted \/ entry.md # Torn
  PROVE  ConvOK' /\ TreesOK'
<1>1. ConvOK' /\ main' = main
  BY DEF Edit, ConvOK
<1>2. work' \in [Sources -> Entries] /\ Packs(work')
  BY DEF Edit, TreesOK, Packs
<1> QED
  BY <1>1, <1>2 DEF TreesOK

LEMMA RepositoryKeeps ==
  ASSUME ConvOK, TreesOK, ConvertNext
  PROVE  ConvOK' /\ TreesOK'
<1>0. {Torn, NoText} \intersect Texts = {} /\ Torn # NoText /\ Converted \subseteq Sources
  BY ConvertAssumption DEF Torn, NoText
<1>1. CASE Conversion
  BY <1>1, ConversionKeeps
<1>2. CASE EditMd
  <2>1. PICK s \in Sources \ Converted, text \in Texts \union {NoText} :
            Edit(s, [work[s] EXCEPT !.md = text])
    BY <1>2 DEF EditMd
  <2>2. [work[s] EXCEPT !.md = text] \in Entries /\ [work[s] EXCEPT !.md = text].md # Torn
    BY <1>0 DEF TreesOK, Entries
  <2> QED
    BY <2>1, <2>2, EditKeeps
<1>3. CASE EditMeta
  <2>1. PICK s \in Sources, says \in Says :
          \/ work[s].meta # NoMeta /\ Edit(s, [work[s] EXCEPT !.meta.says = says])
          \/ /\ s \notin Converted /\ work[s].md # NoText
             /\ Edit(s, [work[s] EXCEPT !.meta = [hash |-> work[s].md, says |-> says]])
    BY <1>3 DEF EditMeta, Says
  <2>2. /\ [work[s] EXCEPT !.meta.says = says] \in Entries
        /\ [work[s] EXCEPT !.meta.says = says].md = work[s].md
    BY SMTT(30) DEF TreesOK, Entries, Meta
  <2>3. ASSUME s \notin Converted, work[s].md # NoText
        PROVE  /\ [work[s] EXCEPT !.meta = [hash |-> work[s].md, says |-> says]] \in Entries
               /\ [work[s] EXCEPT !.meta = [hash |-> work[s].md, says |-> says]].md = work[s].md
    BY <2>3 DEF TreesOK, Entries, Meta, Packs
  <2>4. s \in Converted \/ work[s].md # Torn
    BY DEF TreesOK, Packs
  <2> QED
    BY <2>1, <2>2, <2>3, <2>4, EditKeeps
<1>4. CASE EditManifest
  <2>1. PICK s \in Sources, agents \in Agents : Edit(s, [work[s] EXCEPT !.agents = agents])
    BY <1>4 DEF EditManifest, Agents
  <2>2. /\ [work[s] EXCEPT !.agents = agents] \in Entries
        /\ [work[s] EXCEPT !.agents = agents].md = work[s].md
    BY DEF TreesOK, Entries
  <2>3. s \in Converted \/ work[s].md # Torn
    BY DEF TreesOK, Packs
  <2> QED
    BY <2>1, <2>2, <2>3, EditKeeps
<1>5. CASE Merge
  <2>1. ConvOK' /\ work' = work /\ main' = work
    BY <1>5 DEF Merge, ConvOK
  <2>2. ASSUME NEW s \in Sources, work[s].agents # {}, work[s].md # NoText
        PROVE  work[s].md \in Texts
    <3>1. work[s] \in Entries
      BY DEF TreesOK
    <3>2. CASE s \in Converted
      BY <1>5, <2>2, <3>1, <3>2 DEF Merge, Validated, Entries, Meta
    <3>3. CASE s \notin Converted
      BY <2>2, <3>1, <3>3 DEF TreesOK, Packs, Entries
    <3> QED
      BY <3>2, <3>3
  <2> QED
    BY <2>1, <2>2 DEF TreesOK, Packs, Good
<1> QED
  BY <1>1, <1>2, <1>3, <1>4, <1>5 DEF ConvertNext

-----------------------------------------------------------------------------
(* The runs *)

\* A run between two sources, or at its end, has nothing to lose.
LEMMA BetweenSources ==
  ASSUME NEW r, NEW d, NEW locks, NEW batches, Good(d.tree), d.at \in {"idle", "next", "ended"}
  PROVE  Fine(r, d, locks, batches)
BY DEF Fine, Deciding, Writing

LEMMA OnwardIs ==
  ASSUME NEW d \in RunRecords, Good(d.tree)
  PROVE  /\ Onward(d) \in RunRecords
         /\ Onward(d).at \in {"next", "ended"} /\ Onward(d).tree = d.tree
         /\ Onward(d).used = d.used /\ Onward(d).wrote = d.wrote
         /\ Onward(d).failed = d.failed /\ Onward(d).skipped = d.skipped
<1> DEFINE at == IF d.place = Len(Manifest) THEN "ended" ELSE "next"
<1>1. Onward(d) = [d EXCEPT !.at = at, !.place = @ + 1, !.seen = NoRow, !.gone = {}]
  BY Zenon DEF Onward
<1>2. d.place + 1 \in Nat \ {0}
  BY DEF RunRecords
<1>3. at \in {"next", "ended"}
  OBVIOUS
<1> HIDE DEF at
<1> QED
  BY <1>1, <1>2, <1>3, EmptyTree DEF RunRecords

\* A step of r that changes of the tables no row another run has locked.
LEMMA TurnKeeps ==
  ASSUME IngestInv, NEW r \in Runs, NEW d \in RunRecords, Turns(r, d),
         Fine(r, d, lock', chunks'), Thrifty(d),
         \A s \in Sources : lock[s] \in Runs \ {r} => lock'[s] = lock[s] /\ chunks'[s] = chunks[s],
         UNCHANGED <<work, main, conv>>, StoreOK', \A s \in Sources : Whole(s)'
  PROVE  IngestInv'
<1>1. run' \in [Runs -> RunRecords]
  BY DEF IngestInv, Turns
<1>2. ASSUME NEW q \in Runs
      PROVE  Fine(q, run'[q], lock', chunks') /\ Thrifty(run'[q])
  <2>1. CASE q = r
    BY <2>1 DEF IngestInv, Turns
  <2>2. CASE q # r
    <3>1. run'[q] = run[q] /\ Fine(q, run[q], lock, chunks) /\ Thrifty(run[q])
      BY <2>2 DEF IngestInv, Turns
    <3>2. run[q].at \in Writing => Source(run[q]) \in Sources /\ lock[Source(run[q])] = q
      BY <3>1, PathIsSource DEF IngestInv, Fine, Deciding
    <3> QED
      BY <2>2, <3>1, <3>2 DEF Fine, Writing
  <2> QED
    BY <2>1, <2>2
<1>3. ConvOK' /\ TreesOK'
  BY DEF IngestInv, ConvOK, TreesOK, Packs, Good
<1> QED
  BY <1>1, <1>2, <1>3 DEF IngestInv

\* A step of r that leaves the tables alone.
LEMMA LocalKeeps ==
  ASSUME IngestInv, NEW r \in Runs, NEW d \in RunRecords, Turns(r, d),
         Fine(r, d, lock, chunks), Thrifty(d),
         UNCHANGED <<convertVars, sources, chunks, lock, migrated, begun>>
  PROVE  IngestInv'
<1>1. StoreOK' /\ \A s \in Sources : Whole(s)'
  BY DEF IngestInv, StoreOK, Whole
<1> QED
  BY <1>1, TurnKeeps DEF convertVars

\* Nothing becomes of a run that is disturbed but that it is not alone, or has ended.
LEMMA NotAloneIs ==
  ASSUME IngestInv, NEW r \in Runs
  PROVE  /\ NotAlone(r) \in RunRecords /\ Fine(r, NotAlone(r), lock, chunks) /\ Thrifty(NotAlone(r))
         /\ NotAlone(r).at \in Writing =>
                run[r].at \in Writing /\ NotAlone(r).place = run[r].place
<1>1. CASE UnderWay(r)
  <2> DEFINE d == run[r]
             e == [d EXCEPT !.alone = FALSE]
  <2>1. d \in RunRecords /\ Fine(r, d, lock, chunks) /\ Thrifty(d)
    BY DEF IngestInv
  <2>2. /\ e \in RunRecords /\ e.at = d.at /\ e.tree = d.tree /\ e.place = d.place
        /\ e.used = d.used /\ e.gone = d.gone /\ e.wrote = d.wrote
        /\ e.skipped = d.skipped /\ e.failed = d.failed
    BY <2>1 DEF RunRecords
  <2>3. NotAlone(r) = e
    BY <1>1 DEF NotAlone
  <2> HIDE DEF d, e
  <2>4. Fine(r, e, lock, chunks) /\ Thrifty(e)
    BY <2>1, <2>2 DEF Fine, Thrifty, Source
  <2> QED
    BY <2>2, <2>3, <2>4 DEF d
<1>2. CASE ~UnderWay(r)
  BY <1>2, EmptyTree DEF NotAlone, NoRun, Fine, Thrifty, Writing, Deciding
<1> QED
  BY <1>1, <1>2

LEMMA BeginKeeps ==
  ASSUME IngestInv, NEW r \in Runs, Begin(r)
  PROVE  IngestInv'
<1> DEFINE d == [NoRun EXCEPT !.at = "next", !.tree = main,
                              !.alone = \A p \in Runs \ {r} : ~UnderWay(p)]
<1>1. d \in RunRecords /\ d.at = "next" /\ d.tree = main
  BY EmptyTree DEF IngestInv, TreesOK, RunRecords, NoRun
<1>2. Fine(r, d, lock, chunks)
  BY <1>1, BetweenSources DEF IngestInv, TreesOK
<1>3. Thrifty(d)
  BY DEF Thrifty, NoRun
<1>4. run' = [q \in Runs |-> IF q = r THEN d ELSE NotAlone(q)]
  BY DEF Begin
<1> HIDE DEF d
<1>5. run' \in [Runs -> RunRecords] /\ \A q \in Runs : Fine(q, run'[q], lock, chunks) /\ Thrifty(run'[q])
  BY <1>1, <1>2, <1>3, <1>4, NotAloneIs
<1>6. UNCHANGED <<work, main, conv, sources, chunks, lock, migrated>>
  BY DEF Begin, convertVars
<1>7. ConvOK' /\ TreesOK' /\ StoreOK' /\ \A s \in Sources : Whole(s)'
  BY <1>6 DEF IngestInv, ConvOK, TreesOK, Packs, Good, StoreOK, Whole
<1> QED
  BY <1>5, <1>6, <1>7 DEF IngestInv

LEMMA LeaveOutKeeps ==
  ASSUME IngestInv, NEW r \in Runs, LeaveOut(r)
  PROVE  IngestInv'
<1> DEFINE d == run[r]
           on == Onward(d)
           off == [on EXCEPT !.failed = @ \union {Path(r)}]
<1>1. d \in RunRecords /\ Good(d.tree) /\ Thrifty(d) /\ Path(r) \in Sources /\ d.at = "next"
  BY PathIsSource DEF IngestInv, Fine, LeaveOut, Has, Path, Source
<1>2. /\ on \in RunRecords /\ on.at \in {"next", "ended"} /\ on.tree = d.tree
      /\ on.used = d.used /\ on.wrote = d.wrote /\ on.failed = d.failed /\ on.skipped = d.skipped
  BY <1>1, OnwardIs
<1>3. Turns(r, on) \/ Turns(r, off)
  BY DEF LeaveOut, Failing
<1> HIDE DEF d, on
<1>4. /\ off \in RunRecords /\ off.at = on.at /\ off.tree = on.tree
      /\ off.failed # {} /\ off.skipped = on.skipped
  BY <1>1, <1>2 DEF RunRecords
<1>5. UNCHANGED <<convertVars, sources, chunks, lock, migrated, begun>>
  BY DEF LeaveOut
<1>6. CASE Turns(r, on)
  <2>1. Fine(r, on, lock, chunks) /\ Thrifty(on)
    BY <1>1, <1>2, BetweenSources DEF Thrifty, Writing
  <2> QED
    BY <1>2, <1>5, <1>6, <2>1, LocalKeeps
<1>7. CASE Turns(r, off)
  <2> HIDE DEF off
  <2>1. Fine(r, off, lock, chunks) /\ Thrifty(off)
    BY <1>1, <1>2, <1>4, BetweenSources DEF Thrifty
  <2> QED
    BY <1>4, <1>5, <1>7, <2>1, LocalKeeps
<1> QED
  BY <1>3, <1>6, <1>7

\* What holds of a run at a source it may write.
LEMMA AtSource ==
  ASSUME IngestInv, NEW r \in Runs
  PROVE  /\ run[r] \in RunRecords /\ Good(run[r].tree) /\ Thrifty(run[r])
         /\ run[r].place <= Len(Manifest) => Path(r) \in Sources /\ Entry(r) \in Entries
         /\ run[r].at \in Deciding =>
                run[r].place <= Len(Manifest) /\ Entry(r).agents # {} /\ Entry(r).md \in Texts
         /\ run[r].at \in Writing => lock[Path(r)] = r
         /\ run[r].at = "insert" => run[r].gone = chunks[Path(r)]
<1>1. run[r] \in RunRecords /\ Fine(r, run[r], lock, chunks) /\ Thrifty(run[r])
  BY DEF IngestInv
<1>2. run[r].place <= Len(Manifest) => Path(r) \in Sources
  BY <1>1, PathIsSource DEF Path, Source
<1>3. run[r].tree \in [Sources -> Entries]
  BY <1>1 DEF RunRecords
<1> QED
  BY <1>1, <1>2, <1>3 DEF Fine, Source, Path, Entry

LEMMA LookKeeps ==
  ASSUME IngestInv, NEW r \in Runs, Look(r)
  PROVE  IngestInv'
<1> DEFINE d == [run[r] EXCEPT !.at = "count", !.seen = sources[Path(r)]]
<1>1. /\ run[r].at = "next" /\ run[r].place <= Len(Manifest)
      /\ Entry(r).agents # {} /\ Entry(r).md # NoText /\ Turns(r, d)
      /\ UNCHANGED <<convertVars, sources, chunks, lock, migrated, begun>>
  BY DEF Look, Has
<1>2. run[r] \in RunRecords /\ Good(run[r].tree) /\ Thrifty(run[r]) /\ Path(r) \in Sources
  BY <1>1, AtSource
<1>3. Entry(r).md \in Texts
  BY <1>1, <1>2 DEF Good, Entry
<1>4. sources[Path(r)] \in Rows
  BY <1>2 DEF IngestInv, StoreOK
<1>5. /\ d \in RunRecords /\ d.at = "count" /\ d.tree = run[r].tree /\ d.place = run[r].place
      /\ d.used = run[r].used /\ d.wrote = run[r].wrote /\ d.failed = run[r].failed
      /\ d.skipped = run[r].skipped
  BY <1>2, <1>4 DEF RunRecords
<1> HIDE DEF d
<1>6. Fine(r, d, lock, chunks)
  BY <1>1, <1>2, <1>3, <1>5 DEF Fine, Source, Path, Entry, Writing
<1>7. Thrifty(d)
  BY <1>1, <1>2, <1>5 DEF Thrifty, Writing
<1> QED
  BY <1>1, <1>5, <1>6, <1>7, LocalKeeps

LEMMA CountKeeps ==
  ASSUME IngestInv, NEW r \in Runs, Count(r)
  PROVE  IngestInv'
<1> DEFINE d == [run[r] EXCEPT !.at = "same"]
<1>1. /\ run[r].at = "count" /\ Turns(r, d)
      /\ UNCHANGED <<convertVars, sources, chunks, lock, migrated, begun>>
  BY DEF Count, Has
<1>2. /\ run[r] \in RunRecords /\ Good(run[r].tree) /\ Thrifty(run[r])
      /\ run[r].place <= Len(Manifest) /\ Entry(r).agents # {} /\ Entry(r).md \in Texts
  BY <1>1, AtSource DEF Deciding
<1>3. /\ d \in RunRecords /\ d.at = "same" /\ d.tree = run[r].tree /\ d.place = run[r].place
      /\ d.used = run[r].used /\ d.wrote = run[r].wrote /\ d.failed = run[r].failed
      /\ d.skipped = run[r].skipped
  BY <1>2 DEF RunRecords
<1> HIDE DEF d
<1>4. Fine(r, d, lock, chunks)
  BY <1>2, <1>3 DEF Fine, Source, Path, Entry, Writing
<1>5. Thrifty(d)
  BY <1>1, <1>2, <1>3 DEF Thrifty, Writing
<1> QED
  BY <1>1, <1>3, <1>4, <1>5, LocalKeeps

LEMMA OverBudgetKeeps ==
  ASSUME IngestInv, NEW r \in Runs, OverBudget(r)
  PROVE  IngestInv'
<1> DEFINE on == Onward(run[r])
           d == [on EXCEPT !.skipped = @ \union {Path(r)}]
<1>1. /\ run[r].at = "count" /\ ~Fits(r) /\ Turns(r, d)
      /\ UNCHANGED <<convertVars, sources, chunks, lock, migrated, begun>>
  BY DEF OverBudget, Has
<1>2. /\ run[r] \in RunRecords /\ Good(run[r].tree) /\ Thrifty(run[r]) /\ Path(r) \in Sources
      /\ Entry(r).md \in Texts
  BY <1>1, AtSource DEF Deciding
<1>3. /\ on \in RunRecords /\ on.at \in {"next", "ended"} /\ on.tree = run[r].tree
      /\ on.used = run[r].used /\ on.wrote = run[r].wrote
      /\ on.failed = run[r].failed /\ on.skipped = run[r].skipped
  BY <1>2, OnwardIs
<1> HIDE DEF on
<1>4. /\ d \in RunRecords /\ d.at = on.at /\ d.tree = on.tree /\ d.used = on.used
      /\ d.wrote = on.wrote /\ d.failed = on.failed /\ d.skipped = on.skipped \union {Path(r)}
  BY <1>2, <1>3 DEF RunRecords
<1> HIDE DEF d
<1>5. Fine(r, d, lock, chunks)
  BY <1>2, <1>3, <1>4, BetweenSources
<1>6. run[r].used = 0 => Size[run[r].tree[Path(r)].md] > MaxChunks
  BY <1>1, <1>2, IngestAssumption DEF Fits, Entry
<1>7. Thrifty(d)
  BY <1>1, <1>2, <1>3, <1>4, <1>6 DEF Thrifty, Writing, Entry
<1> QED
  BY <1>1, <1>4, <1>5, <1>7, LocalKeeps

LEMMA EmbedKeeps ==
  ASSUME IngestInv, NEW r \in Runs, Embed(r)
  PROVE  IngestInv'
<1> DEFINE d == [run[r] EXCEPT !.at = "upsert", !.seen = NoRow, !.used = @ + Size[Entry(r).md]]
           on == Onward(run[r])
           off == [on EXCEPT !.failed = @ \union {Path(r)}]
<1>1. /\ run[r].at = "count" /\ (Turns(r, d) \/ Turns(r, off))
      /\ UNCHANGED <<convertVars, sources, chunks, lock, migrated, begun>>
  BY DEF Embed, Has, Failing
<1>2. /\ run[r] \in RunRecords /\ Good(run[r].tree) /\ Thrifty(run[r]) /\ Path(r) \in Sources
      /\ run[r].place <= Len(Manifest) /\ Entry(r).agents # {} /\ Entry(r).md \in Texts
  BY <1>1, AtSource DEF Deciding
<1>3. CASE Turns(r, d)
  <2>1. Size[Entry(r).md] \in Nat
    BY <1>2, IngestAssumption
  <2>2. run[r].used + Size[Entry(r).md] \in Nat
    BY <1>2, <2>1 DEF RunRecords
  <2>3. /\ d \in RunRecords /\ d.at = "upsert" /\ d.tree = run[r].tree /\ d.place = run[r].place
        /\ d.wrote = run[r].wrote /\ d.failed = run[r].failed /\ d.skipped = run[r].skipped
    BY <1>2, <2>2, EmptyTree DEF RunRecords
  <2> HIDE DEF d
  <2>4. Fine(r, d, lock, chunks)
    BY <1>2, <2>3 DEF Fine, Source, Path, Entry, Writing
  <2>5. Thrifty(d)
    BY <1>2, <2>3 DEF Thrifty
  <2> QED
    BY <1>1, <1>3, <2>3, <2>4, <2>5, LocalKeeps
<1>4. CASE Turns(r, off)
  <2>1. /\ on \in RunRecords /\ on.at \in {"next", "ended"} /\ on.tree = run[r].tree
        /\ on.skipped = run[r].skipped
    BY <1>2, OnwardIs
  <2> HIDE DEF on
  <2>2. /\ off \in RunRecords /\ off.at = on.at /\ off.tree = on.tree /\ off.failed # {}
        /\ off.skipped = on.skipped
    BY <1>2, <2>1 DEF RunRecords
  <2> HIDE DEF off
  <2>3. Fine(r, off, lock, chunks) /\ Thrifty(off)
    BY <1>2, <2>1, <2>2, BetweenSources DEF Thrifty
  <2> QED
    BY <1>1, <1>4, <2>2, <2>3, LocalKeeps
<1> QED
  BY <1>1, <1>3, <1>4

LEMMA RefreshKeeps ==
  ASSUME IngestInv, NEW r \in Runs, Refresh(r)
  PROVE  IngestInv'
<1> DEFINE on == Onward(run[r])
           off == [on EXCEPT !.failed = @ \union {Path(r)}]
<1>1. /\ run[r].at = "same" /\ UNCHANGED <<convertVars, chunks, lock, migrated, begun>>
      /\ Turns(r, on) \/ Turns(r, off)
      /\ \/ UNCHANGED sources
         \/ sources' = [sources EXCEPT ![Path(r)].provenance = Provenance(Entry(r))]
  BY DEF Refresh, Has, Failing
<1>2. /\ run[r] \in RunRecords /\ Good(run[r].tree) /\ Thrifty(run[r])
      /\ Path(r) \in Sources /\ Entry(r) \in Entries
  BY <1>1, AtSource DEF Deciding
<1>3. /\ on \in RunRecords /\ on.at \in {"next", "ended"} /\ on.tree = run[r].tree
      /\ on.used = run[r].used /\ on.wrote = run[r].wrote
      /\ on.failed = run[r].failed /\ on.skipped = run[r].skipped
  BY <1>2, OnwardIs
<1> HIDE DEF on
<1>4. /\ off \in RunRecords /\ off.at = on.at /\ off.tree = on.tree /\ off.failed # {}
      /\ off.skipped = on.skipped
  BY <1>2, <1>3 DEF RunRecords
<1> HIDE DEF off
<1>5. Fine(r, on, lock', chunks') /\ Thrifty(on)
  BY <1>1, <1>2, <1>3, BetweenSources DEF Thrifty, Writing
<1>6. Fine(r, off, lock', chunks') /\ Thrifty(off)
  BY <1>2, <1>3, <1>4, BetweenSources DEF Thrifty
<1>7. Provenance(Entry(r)) \in Says \union {"git"}
  BY <1>2 DEF Provenance, Entries, Meta
<1>8. sources' \in [Sources -> Rows] /\ \A s \in Sources : sources'[s].hash = sources[s].hash
  BY <1>1, <1>2, <1>7, SMTT(30) DEF IngestInv, StoreOK, Rows
<1>9. StoreOK' /\ \A s \in Sources : Whole(s)'
  BY <1>1, <1>8 DEF IngestInv, StoreOK, Whole
<1> QED
  BY <1>1, <1>3, <1>4, <1>5, <1>6, <1>9, TurnKeeps DEF convertVars

LEMMA UpsertKeeps ==
  ASSUME IngestInv, NEW r \in Runs, Upsert(r)
  PROVE  IngestInv'
<1> DEFINE d == [run[r] EXCEPT !.at = "delete"]
<1>1. /\ run[r].at = "upsert" /\ lock[Path(r)] = Nobody /\ Turns(r, d)
      /\ lock' = [lock EXCEPT ![Path(r)] = r]
      /\ UNCHANGED <<convertVars, sources, chunks, migrated, begun>>
  BY DEF Upsert, Has
<1>2. /\ run[r] \in RunRecords /\ Good(run[r].tree) /\ Thrifty(run[r]) /\ Path(r) \in Sources
      /\ run[r].place <= Len(Manifest) /\ Entry(r).agents # {} /\ Entry(r).md \in Texts
  BY <1>1, AtSource DEF Deciding
<1>3. /\ d \in RunRecords /\ d.at = "delete" /\ d.tree = run[r].tree /\ d.place = run[r].place
      /\ d.wrote = run[r].wrote /\ d.failed = run[r].failed /\ d.skipped = run[r].skipped
  BY <1>2 DEF RunRecords
<1> HIDE DEF d
<1>4. lock'[Path(r)] = r /\ lock' \in [Sources -> Runs \union {Nobody}]
  BY <1>1, <1>2 DEF IngestInv, StoreOK
<1>5. Fine(r, d, lock', chunks') /\ Thrifty(d)
  BY <1>2, <1>3, <1>4 DEF Fine, Thrifty, Source, Path, Entry, Writing
<1>6. \A s \in Sources : lock[s] \in Runs \ {r} => lock'[s] = lock[s] /\ chunks'[s] = chunks[s]
  BY <1>1, IngestAssumption DEF IngestInv, StoreOK, Nobody
<1>7. StoreOK' /\ \A s \in Sources : Whole(s)'
  BY <1>1, <1>4 DEF IngestInv, StoreOK, Whole
<1> QED
  BY <1>1, <1>3, <1>5, <1>6, <1>7, TurnKeeps DEF convertVars

LEMMA DeleteKeeps ==
  ASSUME IngestInv, NEW r \in Runs, Delete(r)
  PROVE  IngestInv'
<1> DEFINE d == [run[r] EXCEPT !.at = "insert", !.gone = chunks[Path(r)]]
<1>1. /\ run[r].at = "delete" /\ Turns(r, d)
      /\ UNCHANGED <<convertVars, sources, chunks, lock, migrated, begun>>
  BY DEF Delete, Has
<1>2. /\ run[r] \in RunRecords /\ Good(run[r].tree) /\ Thrifty(run[r]) /\ Path(r) \in Sources
      /\ run[r].place <= Len(Manifest) /\ Entry(r).agents # {} /\ Entry(r).md \in Texts
      /\ lock[Path(r)] = r
  BY <1>1, AtSource DEF Deciding, Writing
<1>3. chunks[Path(r)] \in SUBSET Batches
  BY <1>2 DEF IngestInv, StoreOK
<1>4. /\ d \in RunRecords /\ d.at = "insert" /\ d.tree = run[r].tree /\ d.place = run[r].place
      /\ d.wrote = run[r].wrote /\ d.failed = run[r].failed /\ d.skipped = run[r].skipped
      /\ d.gone = chunks[Path(r)]
  BY <1>2, <1>3 DEF RunRecords
<1> HIDE DEF d
<1>5. Fine(r, d, lock, chunks) /\ Thrifty(d)
  BY <1>2, <1>4 DEF Fine, Thrifty, Source, Path, Entry, Writing
<1> QED
  BY <1>1, <1>4, <1>5, LocalKeeps

LEMMA CommitKeeps ==
  ASSUME IngestInv, NEW r \in Runs, Commit(r)
  PROVE  IngestInv'
<1> DEFINE s == Path(r)
           on == Onward(run[r])
           well == [on EXCEPT !.wrote = @ \union {s}]
           off == [on EXCEPT !.failed = @ \union {s}]
<1>1. /\ run[r].at = "insert"
      /\ lock' = [lock EXCEPT ![s] = Nobody]
      /\ UNCHANGED <<convertVars, migrated, begun>>
      /\ Committed(r, s) \/ UNCHANGED <<sources, chunks>>
      /\ Turns(r, well) \/ Turns(r, off)
  BY DEF Commit, Has, Failing
<1>2. /\ run[r] \in RunRecords /\ Good(run[r].tree) /\ Thrifty(run[r]) /\ s \in Sources
      /\ Entry(r) \in Entries /\ Entry(r).md \in Texts
      /\ lock[s] = r /\ run[r].gone = chunks[s]
  BY <1>1, AtSource DEF Deciding, Writing
<1>3. /\ on \in RunRecords /\ on.at \in {"next", "ended"} /\ on.tree = run[r].tree
      /\ on.skipped = run[r].skipped
  BY <1>2, OnwardIs
<1> HIDE DEF s, on
<1>4. /\ well \in RunRecords /\ well.at = on.at /\ well.tree = on.tree /\ well.wrote # {}
      /\ well.skipped = on.skipped
      /\ off \in RunRecords /\ off.at = on.at /\ off.tree = on.tree /\ off.failed # {}
      /\ off.skipped = on.skipped
  BY <1>2, <1>3 DEF RunRecords
<1> HIDE DEF well, off
<1>5. /\ Fine(r, well, lock', chunks') /\ Thrifty(well)
      /\ Fine(r, off, lock', chunks') /\ Thrifty(off)
  BY <1>2, <1>3, <1>4, BetweenSources DEF Thrifty
<1>6. lock' \in [Sources -> Runs \union {Nobody}] /\ \A q \in Sources : q # s => lock'[q] = lock[q]
  BY <1>1, <1>2 DEF IngestInv, StoreOK
<1>7. /\ sources' \in [Sources -> Rows] /\ chunks' \in [Sources -> SUBSET Batches]
      /\ \A q \in Sources : Whole(q)' /\ (q # s => chunks'[q] = chunks[q])
  <2>1. CASE UNCHANGED <<sources, chunks>>
    BY <2>1 DEF IngestInv, StoreOK, Whole
  <2>2. CASE Committed(r, s)
    <3> DEFINE row == Row(Entry(r))
               b == Batch(r, Entry(r))
    <3>1. row \in Rows /\ row.hash = Entry(r).md /\ b \in Batches /\ b.text = Entry(r).md
      BY <1>2, WhatIsCommitted
    <3>2. /\ sources' = [sources EXCEPT ![s] = row]
          /\ chunks' = [chunks EXCEPT ![s] = (chunks[s] \ run[r].gone) \union {b}]
      BY <2>2 DEF Committed
    <3> HIDE DEF row, b
    <3>3. /\ sources' \in [Sources -> Rows] /\ sources'[s] = row
          /\ \A q \in Sources : q # s => sources'[q] = sources[q]
      BY <1>2, <3>1, <3>2 DEF IngestInv, StoreOK
    <3>4. /\ chunks' \in [Sources -> SUBSET Batches] /\ chunks'[s] = {b}
          /\ \A q \in Sources : q # s => chunks'[q] = chunks[q]
      BY <1>2, <3>1, <3>2 DEF IngestInv, StoreOK
    <3>5. \A q \in Sources : Whole(q)'
      BY <1>2, <3>1, <3>3, <3>4 DEF IngestInv, Whole
    <3> QED
      BY <3>3, <3>4, <3>5
  <2> QED
    BY <1>1, <2>1, <2>2
<1>8. StoreOK'
  BY <1>1, <1>6, <1>7 DEF IngestInv, StoreOK
<1>9. \A q \in Sources : lock[q] \in Runs \ {r} => lock'[q] = lock[q] /\ chunks'[q] = chunks[q]
  BY <1>2, <1>6, <1>7
<1>10. UNCHANGED <<work, main, conv>>
  BY <1>1 DEF convertVars
<1> QED
  BY <1>1, <1>4, <1>5, <1>7, <1>8, <1>9, <1>10, TurnKeeps

-----------------------------------------------------------------------------
(* What happens to them *)

LEMMA CancelKeeps ==
  ASSUME IngestInv, NEW r \in Runs, Cancel(r)
  PROVE  IngestInv'
<1>1. /\ Turns(r, NoRun) /\ UNCHANGED <<work, main, conv, sources, chunks, migrated>>
      /\ lock' = [s \in Sources |-> IF lock[s] = r THEN Nobody ELSE lock[s]]
  BY DEF Cancel
<1>2. Fine(r, NoRun, lock', chunks') /\ Thrifty(NoRun)
  BY EmptyTree, BetweenSources DEF NoRun, Thrifty
<1>3. lock' \in [Sources -> Runs \union {Nobody}]
  BY <1>1 DEF IngestInv, StoreOK
<1>4. StoreOK' /\ \A s \in Sources : Whole(s)'
  BY <1>1, <1>3 DEF IngestInv, StoreOK, Whole
<1>5. \A s \in Sources : lock[s] \in Runs \ {r} => lock'[s] = lock[s] /\ chunks'[s] = chunks[s]
  BY <1>1
<1> QED
  BY <1>1, <1>2, <1>4, <1>5, EmptyTree, TurnKeeps

\* Something happens to the tables that touches no row a run has locked.
LEMMA DisturbedKeeps ==
  ASSUME IngestInv, run' = [r \in Runs |-> NotAlone(r)],
         UNCHANGED <<work, main, conv, lock>>, StoreOK', \A s \in Sources : Whole(s)',
         \A s \in Sources : lock[s] # Nobody => chunks'[s] = chunks[s]
  PROVE  IngestInv'
<1>1. ASSUME NEW r \in Runs
      PROVE  run'[r] \in RunRecords /\ Fine(r, run'[r], lock', chunks') /\ Thrifty(run'[r])
  <2> DEFINE d == NotAlone(r)
  <2>1. d \in RunRecords /\ Fine(r, d, lock, chunks) /\ Thrifty(d)
    BY NotAloneIs
  <2>2. run'[r] = d
    OBVIOUS
  <2> HIDE DEF d
  <2>3. d.at = "insert" => Source(d) \in Sources /\ lock[Source(d)] = r
    BY <2>1, PathIsSource DEF Fine, Deciding, Writing
  <2>4. Fine(r, d, lock', chunks')
    BY <2>1, <2>3, IngestAssumption DEF Fine, Nobody
  <2> QED
    BY <2>1, <2>2, <2>4
<1>2. run' \in [Runs -> RunRecords]
  BY <1>1
<1>3. ConvOK' /\ TreesOK'
  BY DEF IngestInv, ConvOK, TreesOK, Packs, Good
<1> QED
  BY <1>1, <1>2, <1>3 DEF IngestInv

LEMMA MigrateKeeps == IngestInv /\ Migrate => IngestInv'
<1> SUFFICES ASSUME IngestInv, Migrate PROVE IngestInv'
  OBVIOUS
<1>1. /\ run' = [r \in Runs |-> NotAlone(r)] /\ migrated' = TRUE
      /\ UNCHANGED <<convertVars, sources, chunks, lock, begun>>
  BY DEF Migrate
<1>2. StoreOK' /\ \A s \in Sources : Whole(s)'
  BY <1>1 DEF IngestInv, StoreOK, Whole
<1> QED
  BY <1>1, <1>2, DisturbedKeeps DEF convertVars

LEMMA RowLostKeeps == IngestInv /\ RowLost => IngestInv'
<1> SUFFICES ASSUME IngestInv, RowLost PROVE IngestInv'
  OBVIOUS
<1>0. PICK s \in Sources : \E b \in chunks[s] :
        /\ lock[s] = Nobody
        /\ chunks' = [chunks EXCEPT ![s] =
               (@ \ {b}) \union (IF b.rows = 1 THEN {} ELSE {[b EXCEPT !.rows = @ - 1]})]
  BY DEF RowLost
<1>1. PICK b \in chunks[s] :
        /\ lock[s] = Nobody
        /\ chunks' = [chunks EXCEPT ![s] =
               (@ \ {b}) \union (IF b.rows = 1 THEN {} ELSE {[b EXCEPT !.rows = @ - 1]})]
  BY <1>0
<1>2. /\ run' = [r \in Runs |-> NotAlone(r)]
      /\ UNCHANGED <<work, main, conv, sources, lock, migrated>>
  BY DEF RowLost
<1> DEFINE c == [b EXCEPT !.rows = @ - 1]
<1>3. b \in Batches /\ chunks[s] = {b} /\ b.text = sources[s].hash /\ b.text \in Texts
  BY DEF IngestInv, StoreOK, Whole
<1>4. c \in Batches /\ c.text = b.text
  BY <1>3 DEF Batches
<1>5. chunks'[s] = {} \/ chunks'[s] = {c}
  BY <1>1, <1>3 DEF IngestInv, StoreOK
<1> HIDE DEF c
<1>6. \A q \in Sources : q # s => chunks'[q] = chunks[q]
  BY <1>1 DEF IngestInv, StoreOK
<1>7. chunks' \in [Sources -> SUBSET Batches]
  <2>1. chunks' = [q \in Sources |-> chunks'[q]]
    BY <1>1 DEF IngestInv, StoreOK
  <2>2. \A q \in Sources : chunks'[q] \in SUBSET Batches
    BY <1>4, <1>5, <1>6 DEF IngestInv, StoreOK
  <2> QED
    BY <2>1, <2>2
<1>8. StoreOK'
  BY <1>2, <1>7 DEF IngestInv, StoreOK
<1>9. \A q \in Sources : Whole(q)'
  BY <1>2, <1>3, <1>4, <1>5, <1>6 DEF IngestInv, Whole
<1>10. \A q \in Sources : lock[q] # Nobody => chunks'[q] = chunks[q]
  BY <1>1, <1>6
<1> QED
  BY <1>2, <1>8, <1>9, <1>10, DisturbedKeeps

LEMMA OtherStepsKeep ==
  ASSUME IngestInv, Repository \/ UNCHANGED ingestVars
  PROVE  IngestInv'
<1>1. ConvOK' /\ TreesOK'
  <2>1. CASE ConvertNext
    BY <2>1, RepositoryKeeps DEF IngestInv
  <2>2. CASE UNCHANGED convertVars
    BY <2>2 DEF convertVars, IngestInv, ConvOK, TreesOK, Packs, Good
  <2> QED
    BY <2>1, <2>2 DEF Repository, ingestVars
<1>2. UNCHANGED <<sources, chunks, lock, migrated, run>>
  BY DEF Repository, ingestVars
<1>3. StoreOK' /\ \A s \in Sources : Whole(s)'
  BY <1>2 DEF IngestInv, StoreOK, Whole
<1> QED
  BY <1>1, <1>2, <1>3 DEF IngestInv

LEMMA InvNext == IngestInv /\ [IngestNext]_ingestVars => IngestInv'
<1> SUFFICES ASSUME IngestInv, [IngestNext]_ingestVars PROVE IngestInv'
  OBVIOUS
<1>1. CASE Repository \/ UNCHANGED ingestVars
  BY <1>1, OtherStepsKeep
<1>2. CASE Migrate \/ RowLost
  BY <1>2, MigrateKeeps, RowLostKeeps
<1>3. ASSUME NEW r \in Runs, RunStep(r) PROVE IngestInv'
  BY <1>3, BeginKeeps, LeaveOutKeeps, LookKeeps, CountKeeps, RefreshKeeps, OverBudgetKeeps,
     EmbedKeeps, UpsertKeeps, DeleteKeeps, CommitKeeps, CancelKeeps DEF RunStep
<1> QED
  BY <1>1, <1>2, <1>3 DEF IngestNext, KnowledgeBase

-----------------------------------------------------------------------------
(* Theorems *)

\* The types, where every run is, and what is in the tables, for any number of runs, sources
\* and edits.
THEOREM IngestInvariant == IngestSpec => []IngestInv
BY InvInit, InvNext, PTL DEF IngestSpec

LEMMA InvWhole == IngestInv => SourcesAreWhole
BY DEF IngestInv, Whole, SourcesAreWhole

\* All rows of a source's chunks are of one text, the one its row names, and of a converted
\* document they are of a whole one: what runs at the same time, a cancelled run or a killed
\* conversion leave of a source is never a mixture.
THEOREM SourcesStayWhole == IngestSpec => []SourcesAreWhole
BY IngestInvariant, InvWhole, PTL

LEMMA InvProgress == IngestInv => SkippedForProgress
<1> SUFFICES ASSUME IngestInv, NEW r \in Runs, run[r].at = "ended", NEW s \in run[r].skipped,
                    Size[run[r].tree[s].md] <= MaxChunks, run[r].failed = {}
             PROVE  run[r].wrote # {}
  BY DEF SkippedForProgress
<1>1. Thrifty(run[r])
  BY DEF IngestInv
<1>2. Size[run[r].tree[s].md] \in Nat /\ MaxChunks \in Nat
  BY <1>1, IngestAssumption DEF Thrifty
<1> QED
  BY <1>1, <1>2 DEF Thrifty

\* The budget of a run starves no source that fits into it: where nothing fails and one is
\* skipped, another was written.
THEOREM BudgetStarvesNone == IngestSpec => []SkippedForProgress
BY IngestInvariant, InvProgress, PTL

-----------------------------------------------------------------------------
(* A run that is alone *)

\* One commit's rows, all there.
Full(batches, n) == \E b \in batches : batches = {b} /\ b.rows = n

\* The source has the row, and the rows of its chunks, that the checkout gives it.
Mirrors(entry, row, batches, new) ==
    /\ row = [hash |-> entry.md, agents |-> entry.agents, count |-> Size[entry.md],
              provenance |-> IF new THEN Provenance(entry) ELSE "unset"]
    /\ Full(batches, Size[entry.md] * Cardinality(entry.agents))

\* What is true of the tables for a run that nobody disturbs: what it read is what is there,
\* and what it has been through is as it has it.
Current(d, held, batches, new) ==
    /\ d.at = "count" => d.seen = held[Source(d)]
    /\ d.at = "same" =>
         LET s == Source(d)
             entry == d.tree[s]
         IN /\ held[s].hash = entry.md /\ held[s].agents = entry.agents
            /\ held[s].count = Size[entry.md]
            /\ Full(batches[s], Size[entry.md] * Cardinality(entry.agents))
    /\ d.at = "ended" => d.place > Len(Manifest)
    /\ \A i \in 1 .. d.place - 1 :
         LET s == Manifest[i]
         IN s \notin d.skipped \union d.failed /\ d.tree[s].agents # {} /\ d.tree[s].md # NoText
                => Mirrors(d.tree[s], held[s], batches[s], new)

StandsAlone(r) ==
    run[r].at # "idle" /\ run[r].alone =>
        /\ \A p \in Runs \ {r} : ~UnderWay(p)
        /\ Current(run[r], sources, chunks, migrated)

\* A row counts the chunks of its own text, and has no provenance before there is a column.
Regular(s) ==
    /\ sources[s].hash \in Texts => sources[s].count = Size[sources[s].hash]
    /\ ~migrated => sources[s].provenance = "unset"

CheckoutInv ==
    /\ \A r \in Runs : StandsAlone(r)
    /\ \A s \in Sources : Regular(s)

\* What no row of a source, and one batch of them, come to.
LEMMA NoRows == RowsOf({}) = 0
<1> DEFINE pick(s) == CHOOSE x \in s : TRUE
           Fold(g) == [s \in SUBSET {} |->
                         IF s = {} THEN 0 ELSE pick(s).rows + g[s \ {pick(s)}]]
           iter == CHOOSE g : g = Fold(g)
<1>1. RowsOf({}) = iter[{}]
  BY DEF RowsOf, MapThenSumSet, MapThenFoldSet
<1>2. Fold([s \in SUBSET {} |-> 0]) = [s \in SUBSET {} |-> 0]
  OBVIOUS
<1> HIDE DEF Fold
<1>3. iter = Fold(iter)
  BY <1>2
<1> QED
  BY <1>1, <1>3 DEF Fold

LEMMA RowsOfOne == ASSUME NEW b, b.rows \in Int PROVE RowsOf({b}) = b.rows
<1> DEFINE pick(s) == CHOOSE x \in s : TRUE
           Fold(g) == [s \in SUBSET {b} |->
                         IF s = {} THEN 0 ELSE pick(s).rows + g[s \ {pick(s)}]]
           one == [s \in SUBSET {b} |-> IF s = {} THEN 0 ELSE b.rows]
           iter == CHOOSE g : g = Fold(g)
<1>1. RowsOf({b}) = iter[{b}]
  BY DEF RowsOf, MapThenSumSet, MapThenFoldSet
<1>2. pick({b}) = b /\ {b} \ {b} = {}
  OBVIOUS
<1> HIDE DEF pick
<1>3. ASSUME NEW s \in SUBSET {b} PROVE Fold(one)[s] = one[s]
  <2>1. s = {} \/ s = {b}
    OBVIOUS
  <2>2. CASE s = {}
    BY <2>2
  <2>3. CASE s = {b}
    <3>1. Fold(one)[s] = b.rows + one[{}]
      BY <2>3, <1>2
    <3>2. one[{}] = 0 /\ one[s] = b.rows
      BY <2>3
    <3> QED
      BY <3>1, <3>2
  <2> QED
    BY <2>1, <2>2, <2>3
<1>4. Fold(one) = one
  BY <1>3
<1> HIDE DEF Fold, one
<1>5. iter = Fold(iter)
  BY <1>4
<1> HIDE DEF iter
<1>6. iter[{}] = 0 /\ iter[{b}] = b.rows + iter[{}]
  BY <1>2, <1>5 DEF Fold
<1> QED
  BY <1>1, <1>6

LEMMA SomeRows == ASSUME NEW x \in Nat \ {0}, NEW y \in Nat \ {0} PROVE x * y # 0
OBVIOUS

\* A listed source with a text has rows.
LEMMA RowsOfAnEntry ==
  ASSUME NEW entry \in Entries, entry.md \in Texts, entry.agents # {}
  PROVE  Size[entry.md] * Cardinality(entry.agents) # 0
<1>1. Size[entry.md] \in Nat \ {0}
  BY IngestAssumption
<1>2. IsFiniteSet(entry.agents)
  BY ConvertAssumption, FS_EmptySet DEF Entries, Agents
<1>3. Cardinality(entry.agents) \in Nat \ {0}
  BY <1>2, FS_CardinalityType, FS_EmptySet
<1> QED
  BY <1>1, <1>3, SomeRows

\* As many rows as there should be are one batch of them.
LEMMA CountedIsFull ==
  ASSUME StoreOK, NEW s \in Sources, Whole(s), NEW n, n # 0
  PROVE  RowsOf(chunks[s]) = n <=> Full(chunks[s], n)
<1>1. CASE chunks[s] = {}
  BY <1>1, NoRows DEF Full
<1>2. CASE chunks[s] # {}
  <2>1. PICK b \in chunks[s] : chunks[s] = {b}
    BY <1>2 DEF Whole
  <2>2. b.rows \in Int
    BY DEF StoreOK, Batches
  <2>3. RowsOf(chunks[s]) = b.rows
    BY <2>1, <2>2, RowsOfOne
  <2> QED
    BY <2>1, <2>3 DEF Full
<1> QED
  BY <1>1, <1>2

\* The next source of the MANIFEST: all is as the checkout has it where it was so before, and
\* at the source the run has been at.
LEMMA OnwardCurrent ==
  ASSUME NEW d \in RunRecords, NEW e \in RunRecords, d.place <= Len(Manifest),
         NEW held, NEW batches, NEW new, Current(d, held, batches, new),
         NEW held2, NEW batches2,
         \A s \in Sources : s # Source(d) => held2[s] = held[s] /\ batches2[s] = batches[s],
         e.tree = d.tree, e.place = d.place + 1,
         d.skipped \subseteq e.skipped, d.failed \subseteq e.failed,
         e.at = IF d.place = Len(Manifest) THEN "ended" ELSE "next",
         LET s == Source(d)
         IN s \notin e.skipped \union e.failed /\ d.tree[s].agents # {} /\ d.tree[s].md # NoText
                => Mirrors(d.tree[s], held2[s], batches2[s], new)
  PROVE  Current(e, held2, batches2, new)
<1>1. d.place \in Nat \ {0} /\ Len(Manifest) \in Nat
  BY IngestAssumption DEF RunRecords
<1>2. e.at \notin {"count", "same"} /\ (e.at = "ended" => e.place > Len(Manifest))
  BY <1>1
<1>3. ASSUME NEW i \in 1 .. e.place - 1,
             Manifest[i] \notin e.skipped \union e.failed,
             e.tree[Manifest[i]].agents # {}, e.tree[Manifest[i]].md # NoText
      PROVE  Mirrors(e.tree[Manifest[i]], held2[Manifest[i]], batches2[Manifest[i]], new)
  <2>1. i \in 1 .. Len(Manifest) /\ Manifest[i] \in Sources
    BY <1>1, IngestAssumption
  <2>2. CASE Manifest[i] = Source(d)
    BY <1>3, <2>2
  <2>3. CASE Manifest[i] # Source(d)
    <3>1. i \in 1 .. d.place - 1
      BY <1>1, <2>3 DEF Source
    <3>2. Mirrors(d.tree[Manifest[i]], held[Manifest[i]], batches[Manifest[i]], new)
      BY <1>3, <3>1 DEF Current
    <3> QED
      BY <2>1, <2>3, <3>2
  <2> QED
    BY <2>2, <2>3
<1> QED
  BY <1>2, <1>3 DEF Current

\* A step at a source that leaves the tables as they are.
LEMMA StayingCurrent ==
  ASSUME NEW d \in RunRecords, NEW e \in RunRecords, NEW held, NEW batches, NEW new,
         Current(d, held, batches, new), e.at # "ended",
         e.tree = d.tree, e.place = d.place, e.skipped = d.skipped, e.failed = d.failed,
         e.at = "count" => e.seen = held[Source(d)],
         e.at = "same" =>
             LET s == Source(d)
                 entry == d.tree[s]
             IN /\ held[s].hash = entry.md /\ held[s].agents = entry.agents
                /\ held[s].count = Size[entry.md]
                /\ Full(batches[s], Size[entry.md] * Cardinality(entry.agents))
  PROVE  Current(e, held, batches, new)
BY DEF Current, Source

\* A step of a run under way is a step of all runs that are alone.
LEMMA TurnStands ==
  ASSUME IngestInv, CheckoutInv, NEW r \in Runs, UnderWay(r), NEW d, Turns(r, d),
         UNCHANGED migrated,
         d.at # "idle" /\ d.alone =>
             run[r].alone /\ (Current(run[r], sources, chunks, migrated)
                                  => Current(d, sources', chunks', migrated)),
         \A s \in Sources : Regular(s)'
  PROVE  CheckoutInv'
<1>1. run'[r] = d /\ \A q \in Runs \ {r} : run'[q] = run[q]
  BY DEF IngestInv, Turns
<1>2. ASSUME NEW q \in Runs, run'[q].at # "idle", run'[q].alone
      PROVE  /\ \A p \in Runs \ {q} : run'[p].at \in {"idle", "ended"}
             /\ Current(run'[q], sources', chunks', migrated')
  <2>1. CASE q = r
    <3>1. run[r].at # "idle" /\ run[r].alone
      BY <1>1, <1>2, <2>1 DEF UnderWay
    <3>2. (\A p \in Runs \ {r} : ~UnderWay(p)) /\ Current(run[r], sources, chunks, migrated)
      BY <3>1 DEF CheckoutInv, StandsAlone
    <3> QED
      BY <1>1, <1>2, <2>1, <3>2 DEF UnderWay
  <2>2. CASE q # r
    BY <1>1, <1>2, <2>2 DEF CheckoutInv, StandsAlone
  <2> QED
    BY <2>1, <2>2
<1> QED
  BY <1>2 DEF CheckoutInv, StandsAlone, UnderWay

\* A step of a run that leaves the tables alone.
LEMMA LocalStands ==
  ASSUME IngestInv, CheckoutInv, NEW r \in Runs, UnderWay(r), NEW d, Turns(r, d),
         d.at # "idle" /\ d.alone =>
             run[r].alone /\ (Current(run[r], sources, chunks, migrated)
                                  => Current(d, sources, chunks, migrated)),
         UNCHANGED <<convertVars, sources, chunks, lock, migrated, begun>>
  PROVE  CheckoutInv'
<1>1. \A s \in Sources : Regular(s)'
  BY DEF CheckoutInv, Regular
<1> QED
  BY <1>1, TurnStands

\* What the record of a run that goes on to its next source is.
LEMMA NextSource ==
  ASSUME NEW d \in RunRecords, NEW s \in Sources, NEW e,
         \/ e = Onward(d)
         \/ e = [Onward(d) EXCEPT !.failed = @ \union {s}]
         \/ e = [Onward(d) EXCEPT !.wrote = @ \union {s}]
         \/ e = [Onward(d) EXCEPT !.skipped = @ \union {s}]
  PROVE  /\ e \in RunRecords /\ e.alone = d.alone /\ e.tree = d.tree /\ e.place = d.place + 1
         /\ d.skipped \subseteq e.skipped /\ d.failed \subseteq e.failed
         /\ e.at = IF d.place = Len(Manifest) THEN "ended" ELSE "next"
<1> DEFINE at == IF d.place = Len(Manifest) THEN "ended" ELSE "next"
           on == [d EXCEPT !.at = at, !.place = @ + 1, !.seen = NoRow, !.gone = {}]
<1>1. Onward(d) = on
  BY Zenon DEF Onward
<1>2. d.place + 1 \in Nat \ {0} /\ at \in {"next", "ended"}
  BY DEF RunRecords
<1> HIDE DEF at
<1>3. /\ on \in RunRecords /\ on.alone = d.alone /\ on.tree = d.tree /\ on.place = d.place + 1
      /\ on.skipped = d.skipped /\ on.failed = d.failed /\ on.at = at
  BY <1>2, EmptyTree DEF RunRecords
<1> HIDE DEF on
<1>4. /\ e \in RunRecords /\ e.alone = d.alone /\ e.tree = d.tree /\ e.place = d.place + 1
      /\ d.skipped \subseteq e.skipped /\ d.failed \subseteq e.failed
      /\ e.at = at
  BY <1>1, <1>3 DEF RunRecords
<1> QED
  BY <1>4 DEF at

\* A run that passes a source over, or fails at it, has nothing to answer for there.
LEMMA PassedOver ==
  ASSUME IngestInv, CheckoutInv, NEW r \in Runs, UnderWay(r), run[r].place <= Len(Manifest),
         LET on == Onward(run[r])
         IN \/ Turns(r, [on EXCEPT !.failed = @ \union {Path(r)}])
            \/ Turns(r, [on EXCEPT !.skipped = @ \union {Path(r)}])
            \/ Turns(r, on) /\ (Entry(r).agents = {} \/ Entry(r).md = NoText),
         UNCHANGED migrated, \A s \in Sources : Regular(s)',
         \A s \in Sources : s # Path(r) => sources'[s] = sources[s] /\ chunks'[s] = chunks[s]
  PROVE  CheckoutInv'
<1> DEFINE on == Onward(run[r])
           off == [on EXCEPT !.failed = @ \union {Path(r)}]
           over == [on EXCEPT !.skipped = @ \union {Path(r)}]
<1>1. run[r] \in RunRecords /\ Path(r) \in Sources /\ Path(r) = Source(run[r])
  BY AtSource DEF Path, Source
<1>2. on \in RunRecords
  BY <1>1, NextSource
<1>3. Path(r) \in off.failed /\ Path(r) \in over.skipped
  BY <1>2 DEF RunRecords
<1> HIDE DEF on, off, over
<1>4. PICK e \in {on, off, over} :
        /\ Turns(r, e)
        /\ Path(r) \notin e.skipped \union e.failed
               => Entry(r).agents = {} \/ Entry(r).md = NoText
  BY <1>3 DEF on, off, over
<1>5. /\ e \in RunRecords /\ e.alone = run[r].alone /\ e.tree = run[r].tree
      /\ e.place = run[r].place + 1
      /\ run[r].skipped \subseteq e.skipped /\ run[r].failed \subseteq e.failed
      /\ e.at = IF run[r].place = Len(Manifest) THEN "ended" ELSE "next"
  BY <1>1, NextSource DEF on, off, over
<1>6. Current(run[r], sources, chunks, migrated) => Current(e, sources', chunks', migrated)
  BY <1>1, <1>4, <1>5, OnwardCurrent DEF Entry
<1> QED
  BY <1>4, <1>5, <1>6, TurnStands

LEMMA LeaveOutStands ==
  ASSUME IngestInv, CheckoutInv, NEW r \in Runs, LeaveOut(r)
  PROVE  CheckoutInv'
<1>1. UnderWay(r) /\ run[r].place <= Len(Manifest)
  BY DEF LeaveOut, Has, UnderWay
<1>2. UNCHANGED <<sources, chunks, migrated>>
  BY DEF LeaveOut
<1>3. \A s \in Sources : Regular(s)'
  BY <1>2 DEF CheckoutInv, Regular
<1>4. \/ Turns(r, [Onward(run[r]) EXCEPT !.failed = @ \union {Path(r)}])
      \/ Turns(r, Onward(run[r])) /\ (Entry(r).agents = {} \/ Entry(r).md = NoText)
  BY DEF LeaveOut, Failing
<1> QED
  BY <1>1, <1>2, <1>3, <1>4, PassedOver

LEMMA OverBudgetStands ==
  ASSUME IngestInv, CheckoutInv, NEW r \in Runs, OverBudget(r)
  PROVE  CheckoutInv'
<1>1. UnderWay(r) /\ run[r].place <= Len(Manifest)
  BY DEF OverBudget, Has, UnderWay
<1>2. UNCHANGED <<sources, chunks, migrated>>
  BY DEF OverBudget
<1>3. \A s \in Sources : Regular(s)'
  BY <1>2 DEF CheckoutInv, Regular
<1>4. Turns(r, [Onward(run[r]) EXCEPT !.skipped = @ \union {Path(r)}])
  BY DEF OverBudget
<1> QED
  BY <1>1, <1>2, <1>3, <1>4, PassedOver

LEMMA LookStands ==
  ASSUME IngestInv, CheckoutInv, NEW r \in Runs, Look(r)
  PROVE  CheckoutInv'
<1> DEFINE d == [run[r] EXCEPT !.at = "count", !.seen = sources[Path(r)]]
<1>1. /\ UnderWay(r) /\ run[r].place <= Len(Manifest) /\ Turns(r, d)
      /\ UNCHANGED <<convertVars, sources, chunks, lock, migrated, begun>>
  BY DEF Look, Has, UnderWay
<1>2. run[r] \in RunRecords /\ Path(r) \in Sources
  BY <1>1, AtSource
<1>3. sources[Path(r)] \in Rows
  BY <1>2 DEF IngestInv, StoreOK
<1>4. /\ d \in RunRecords /\ d.at = "count" /\ d.tree = run[r].tree /\ d.place = run[r].place
      /\ d.failed = run[r].failed /\ d.skipped = run[r].skipped /\ d.alone = run[r].alone
      /\ d.seen = sources[Source(run[r])]
  BY <1>2, <1>3 DEF RunRecords, Path, Source
<1> HIDE DEF d
<1>5. Current(run[r], sources, chunks, migrated) => Current(d, sources, chunks, migrated)
  BY <1>2, <1>4, StayingCurrent
<1> QED
  BY <1>1, <1>4, <1>5, LocalStands

LEMMA CountStands ==
  ASSUME IngestInv, CheckoutInv, NEW r \in Runs, Count(r)
  PROVE  CheckoutInv'
<1> DEFINE d == [run[r] EXCEPT !.at = "same"]
           s == Path(r)
<1>1. /\ UnderWay(r) /\ run[r].at = "count" /\ Same(r) /\ Turns(r, d)
      /\ UNCHANGED <<convertVars, sources, chunks, lock, migrated, begun>>
  BY DEF Count, Has, UnderWay
<1>2. /\ run[r] \in RunRecords /\ s \in Sources /\ s = Source(run[r])
      /\ Entry(r) \in Entries /\ Entry(r).agents # {} /\ Entry(r).md \in Texts
      /\ Entry(r) = run[r].tree[s]
  BY <1>1, AtSource DEF Deciding, Path, Source, Entry
<1> HIDE DEF s
<1>3. /\ d \in RunRecords /\ d.at = "same" /\ d.tree = run[r].tree /\ d.place = run[r].place
      /\ d.failed = run[r].failed /\ d.skipped = run[r].skipped /\ d.alone = run[r].alone
  BY <1>2, SMTT(30) DEF RunRecords
<1> HIDE DEF d
<1>4. ASSUME Current(run[r], sources, chunks, migrated)
      PROVE  Current(d, sources, chunks, migrated)
  <2>1. run[r].seen = sources[s]
    BY <1>1, <1>2, <1>4 DEF Current
  <2>2. /\ sources[s].hash = Entry(r).md /\ sources[s].agents = Entry(r).agents
        /\ RowsOf(chunks[s]) = sources[s].count * Cardinality(Entry(r).agents)
    BY <1>1, <2>1 DEF Same, IsUnchanged, s
  <2>3. sources[s].count = Size[Entry(r).md]
    BY <1>2, <2>2 DEF CheckoutInv, Regular
  <2>4. StoreOK /\ Whole(s)
    BY <1>2 DEF IngestInv
  <2>5. Size[Entry(r).md] * Cardinality(Entry(r).agents) # 0
    BY <1>2, RowsOfAnEntry
  <2>6. Full(chunks[s], Size[Entry(r).md] * Cardinality(Entry(r).agents))
    BY <1>2, <2>2, <2>3, <2>4, <2>5, CountedIsFull
  <2> QED
    BY <1>2, <1>3, <1>4, <2>2, <2>3, <2>6, StayingCurrent
<1> QED
  BY <1>1, <1>3, <1>4, LocalStands

LEMMA RefreshStands ==
  ASSUME IngestInv, CheckoutInv, NEW r \in Runs, Refresh(r)
  PROVE  CheckoutInv'
<1> DEFINE s == Path(r)
           p == Provenance(Entry(r))
           on == Onward(run[r])
           off == [on EXCEPT !.failed = @ \union {s}]
           differs == migrated /\ sources[s] # NoRow /\ sources[s].provenance # p
<1>1. /\ UnderWay(r) /\ run[r].at = "same" /\ run[r].place <= Len(Manifest)
      /\ UNCHANGED <<convertVars, chunks, lock, migrated, begun>>
      /\ Turns(r, on) \/ Turns(r, off)
      /\ \/ UNCHANGED sources /\ (~differs \/ Turns(r, off))
         \/ differs /\ sources' = [sources EXCEPT ![s].provenance = p]
  BY SMTT(30) DEF Refresh, Has, UnderWay, Failing
<1>2. /\ run[r] \in RunRecords /\ s \in Sources /\ s = Source(run[r])
      /\ Entry(r) \in Entries /\ Entry(r).md \in Texts
      /\ Entry(r) = run[r].tree[s]
  BY <1>1, AtSource DEF Deciding, Path, Source, Entry
<1>3. sources \in [Sources -> Rows] /\ migrated \in BOOLEAN
  BY DEF IngestInv, StoreOK
<1> HIDE DEF s, p, on
<1>4. /\ \A q \in Sources : q # s => sources'[q] = sources[q]
      /\ sources'[s].hash = sources[s].hash /\ sources'[s].count = sources[s].count
      /\ sources'[s].agents = sources[s].agents
      /\ \/ sources'[s].provenance = sources[s].provenance /\ (~differs \/ Turns(r, off))
         \/ sources'[s].provenance = p /\ differs
      /\ sources'[s] = [hash |-> sources[s].hash, agents |-> sources[s].agents,
                        count |-> sources[s].count, provenance |-> sources'[s].provenance]
  BY <1>1, <1>2, <1>3 DEF Rows
<1>5. \A q \in Sources : Regular(q)'
  BY <1>1, <1>4 DEF CheckoutInv, Regular
<1>6. CASE Turns(r, off)
  BY <1>1, <1>2, <1>4, <1>5, <1>6, PassedOver DEF on, s
<1>7. CASE Turns(r, on) /\ ~Turns(r, off)
  <2>1. /\ on \in RunRecords /\ on.alone = run[r].alone /\ on.tree = run[r].tree
        /\ on.place = run[r].place + 1
        /\ run[r].skipped \subseteq on.skipped /\ run[r].failed \subseteq on.failed
        /\ on.at = IF run[r].place = Len(Manifest) THEN "ended" ELSE "next"
    BY <1>2, NextSource DEF on
  <2>2. ASSUME Current(run[r], sources, chunks, migrated)
        PROVE  Current(on, sources', chunks', migrated)
    <3>1. /\ sources[s].hash = Entry(r).md /\ sources[s].agents = Entry(r).agents
          /\ sources[s].count = Size[Entry(r).md]
          /\ Full(chunks[s], Size[Entry(r).md] * Cardinality(Entry(r).agents))
      BY <1>1, <1>2, <2>2 DEF Current
    <3>2. sources[s] # NoRow
      BY <1>2, <3>1, ConvertAssumption DEF NoRow, NoText
    <3>3. sources'[s].provenance = IF migrated THEN p ELSE "unset"
      <4>1. ~migrated => sources[s].provenance = "unset"
        BY <1>2 DEF CheckoutInv, Regular
      <4> QED
        BY <1>3, <1>4, <1>7, <3>2, <4>1
    <3>4. Mirrors(Entry(r), sources'[s], chunks'[s], migrated)
      BY <1>1, <1>4, <3>1, <3>3 DEF Mirrors, p
    <3> QED
      BY <1>1, <1>2, <1>4, <2>1, <2>2, <3>4, OnwardCurrent, SMTT(30)
  <2> QED
    BY <1>1, <1>5, <1>7, <2>1, <2>2, TurnStands
<1> QED
  BY <1>1, <1>6, <1>7

LEMMA EmbedStands ==
  ASSUME IngestInv, CheckoutInv, NEW r \in Runs, Embed(r)
  PROVE  CheckoutInv'
<1> DEFINE d == [run[r] EXCEPT !.at = "upsert", !.seen = NoRow, !.used = @ + Size[Entry(r).md]]
           off == [Onward(run[r]) EXCEPT !.failed = @ \union {Path(r)}]
<1>1. /\ UnderWay(r) /\ run[r].at = "count" /\ run[r].place <= Len(Manifest)
      /\ Turns(r, d) \/ Turns(r, off)
      /\ UNCHANGED <<convertVars, sources, chunks, lock, migrated, begun>>
  BY DEF Embed, Has, Failing, UnderWay
<1>2. run[r] \in RunRecords /\ Entry(r).md \in Texts
  BY <1>1, AtSource DEF Deciding
<1>3. CASE Turns(r, d)
  <2>1. Size[Entry(r).md] \in Nat
    BY <1>2, IngestAssumption
  <2>2. run[r].used + Size[Entry(r).md] \in Nat
    BY <1>2, <2>1 DEF RunRecords
  <2>3. /\ d \in RunRecords /\ d.at = "upsert" /\ d.tree = run[r].tree /\ d.place = run[r].place
        /\ d.failed = run[r].failed /\ d.skipped = run[r].skipped /\ d.alone = run[r].alone
    BY <1>2, <2>2, EmptyTree DEF RunRecords
  <2> HIDE DEF d
  <2>4. Current(run[r], sources, chunks, migrated) => Current(d, sources, chunks, migrated)
    BY <1>2, <2>3, StayingCurrent
  <2> QED
    BY <1>1, <1>3, <2>3, <2>4, LocalStands
<1>4. CASE Turns(r, off)
  <2>1. \A s \in Sources : Regular(s)'
    BY <1>1 DEF CheckoutInv, Regular
  <2> QED
    BY <1>1, <1>4, <2>1, PassedOver
<1> QED
  BY <1>1, <1>3, <1>4

LEMMA UpsertStands ==
  ASSUME IngestInv, CheckoutInv, NEW r \in Runs, Upsert(r)
  PROVE  CheckoutInv'
<1> DEFINE d == [run[r] EXCEPT !.at = "delete"]
<1>1. UnderWay(r) /\ Turns(r, d) /\ UNCHANGED <<sources, chunks, migrated>>
  BY DEF Upsert, Has, UnderWay
<1>2. run[r] \in RunRecords
  BY AtSource
<1>3. /\ d \in RunRecords /\ d.at = "delete" /\ d.tree = run[r].tree /\ d.place = run[r].place
      /\ d.failed = run[r].failed /\ d.skipped = run[r].skipped /\ d.alone = run[r].alone
  BY <1>2 DEF RunRecords
<1> HIDE DEF d
<1>4. Current(run[r], sources, chunks, migrated) => Current(d, sources, chunks, migrated)
  BY <1>2, <1>3, StayingCurrent
<1>5. \A s \in Sources : Regular(s)'
  BY <1>1 DEF CheckoutInv, Regular
<1> QED
  BY <1>1, <1>3, <1>4, <1>5, TurnStands

LEMMA DeleteStands ==
  ASSUME IngestInv, CheckoutInv, NEW r \in Runs, Delete(r)
  PROVE  CheckoutInv'
<1> DEFINE d == [run[r] EXCEPT !.at = "insert", !.gone = chunks[Path(r)]]
<1>1. /\ UnderWay(r) /\ run[r].at = "delete" /\ Turns(r, d)
      /\ UNCHANGED <<convertVars, sources, chunks, lock, migrated, begun>>
  BY DEF Delete, Has, UnderWay
<1>2. run[r] \in RunRecords /\ Path(r) \in Sources
  BY <1>1, AtSource DEF Deciding, Writing
<1>3. chunks[Path(r)] \in SUBSET Batches
  BY <1>2 DEF IngestInv, StoreOK
<1>4. /\ d \in RunRecords /\ d.at = "insert" /\ d.tree = run[r].tree /\ d.place = run[r].place
      /\ d.failed = run[r].failed /\ d.skipped = run[r].skipped /\ d.alone = run[r].alone
  BY <1>2, <1>3 DEF RunRecords
<1> HIDE DEF d
<1>5. Current(run[r], sources, chunks, migrated) => Current(d, sources, chunks, migrated)
  BY <1>2, <1>4, StayingCurrent
<1> QED
  BY <1>1, <1>4, <1>5, LocalStands

LEMMA CommitStands ==
  ASSUME IngestInv, CheckoutInv, NEW r \in Runs, Commit(r)
  PROVE  CheckoutInv'
<1> DEFINE s == Path(r)
           on == Onward(run[r])
           well == [on EXCEPT !.wrote = @ \union {s}]
           off == [on EXCEPT !.failed = @ \union {s}]
           row == Row(Entry(r))
           b == Batch(r, Entry(r))
<1>1. /\ UnderWay(r) /\ run[r].at = "insert" /\ run[r].place <= Len(Manifest) /\ UNCHANGED migrated
      /\ Committed(r, s) \/ UNCHANGED <<sources, chunks>>
      /\ (Turns(r, well) /\ Committed(r, s)) \/ Turns(r, off)
  BY DEF Commit, Has, Failing, UnderWay
<1>2. /\ run[r] \in RunRecords /\ s \in Sources /\ s = Source(run[r])
      /\ Entry(r) \in Entries /\ Entry(r).md \in Texts /\ Entry(r) = run[r].tree[s]
      /\ run[r].gone = chunks[s]
  BY <1>1, AtSource DEF Deciding, Writing, Path, Source, Entry
<1>3. Committed(r, s) =>
          /\ sources' = [sources EXCEPT ![s] = row]
          /\ chunks' = [chunks EXCEPT ![s] = (chunks[s] \ run[r].gone) \union {b}]
  BY DEF Committed
<1>4. /\ row = [hash |-> Entry(r).md, agents |-> Entry(r).agents, count |-> Size[Entry(r).md],
                provenance |-> IF migrated THEN Provenance(Entry(r)) ELSE "unset"]
      /\ b.rows = Size[Entry(r).md] * Cardinality(Entry(r).agents)
  BY DEF Row, Batch
<1> HIDE DEF s, on, row, b
<1>5. /\ Committed(r, s) => sources'[s] = row /\ chunks'[s] = {b}
      /\ ~Committed(r, s) => sources'[s] = sources[s] /\ chunks'[s] = chunks[s]
      /\ \A q \in Sources : q # s => sources'[q] = sources[q] /\ chunks'[q] = chunks[q]
  BY <1>1, <1>2, <1>3 DEF IngestInv, StoreOK
<1>6. \A q \in Sources : Regular(q)'
  BY <1>1, <1>4, <1>5 DEF CheckoutInv, Regular
<1>7. CASE Turns(r, off)
  BY <1>1, <1>2, <1>5, <1>6, <1>7, PassedOver DEF on, s
<1>8. CASE Turns(r, well) /\ Committed(r, s)
  <2>1. /\ well \in RunRecords /\ well.alone = run[r].alone /\ well.tree = run[r].tree
        /\ well.place = run[r].place + 1
        /\ run[r].skipped \subseteq well.skipped /\ run[r].failed \subseteq well.failed
        /\ well.at = IF run[r].place = Len(Manifest) THEN "ended" ELSE "next"
    BY <1>2, NextSource DEF on
  <2> HIDE DEF well
  <2>2. Mirrors(Entry(r), sources'[s], chunks'[s], migrated)
    BY <1>4, <1>5, <1>8 DEF Mirrors, Full
  <2>3. Current(run[r], sources, chunks, migrated) => Current(well, sources', chunks', migrated)
    BY <1>1, <1>2, <1>5, <2>1, <2>2, OnwardCurrent
  <2> QED
    BY <1>1, <1>6, <1>8, <2>1, <2>3, TurnStands
<1> QED
  BY <1>1, <1>7, <1>8

LEMMA CancelStands ==
  ASSUME IngestInv, CheckoutInv, NEW r \in Runs, Cancel(r)
  PROVE  CheckoutInv'
<1>1. UnderWay(r) /\ Turns(r, NoRun) /\ UNCHANGED <<sources, chunks, migrated>> /\ NoRun.at = "idle"
  BY DEF Cancel, NoRun
<1>2. \A s \in Sources : Regular(s)'
  BY <1>1 DEF CheckoutInv, Regular
<1> QED
  BY <1>1, <1>2, TurnStands

LEMMA BeginStands ==
  ASSUME IngestInv, CheckoutInv, NEW r \in Runs, Begin(r)
  PROVE  CheckoutInv'
<1> DEFINE d == [NoRun EXCEPT !.at = "next", !.tree = main,
                              !.alone = \A p \in Runs \ {r} : ~UnderWay(p)]
<1>1. /\ d.at = "next" /\ d.place = 1
      /\ d.alone = (\A p \in Runs \ {r} : ~UnderWay(p))
  BY DEF NoRun
<1>2. run' = [q \in Runs |-> IF q = r THEN d ELSE NotAlone(q)]
  BY DEF Begin
<1> HIDE DEF d
<1>3. UNCHANGED <<sources, chunks, migrated>>
  BY DEF Begin
<1>4. \A s \in Sources : Regular(s)'
  BY <1>3 DEF CheckoutInv, Regular
<1>5. ASSUME NEW q \in Runs \ {r}
      PROVE  /\ run'[q].at = "idle" \/ ~run'[q].alone
             /\ ~UnderWay(q) => run'[q].at = "idle"
  <2>1. run'[q] = NotAlone(q) /\ run[q] \in RunRecords
    BY <1>2 DEF IngestInv
  <2> QED
    BY <2>1 DEF NotAlone, NoRun, RunRecords
<1>6. Current(d, sources', chunks', migrated')
  BY <1>1 DEF Current
<1>7. ASSUME NEW q \in Runs, run'[q].at # "idle", run'[q].alone
      PROVE  /\ \A p \in Runs \ {q} : run'[p].at = "idle"
             /\ Current(run'[q], sources', chunks', migrated')
  BY <1>1, <1>2, <1>5, <1>6, <1>7
<1> QED
  BY <1>4, <1>7 DEF CheckoutInv, StandsAlone, UnderWay

\* Where the tables are changed from outside nobody is alone.
LEMMA DisturbedStands ==
  ASSUME IngestInv, run' = [r \in Runs |-> NotAlone(r)], \A s \in Sources : Regular(s)'
  PROVE  CheckoutInv'
<1>1. ASSUME NEW r \in Runs PROVE run'[r].at = "idle" \/ ~run'[r].alone
  <2>1. run'[r] = NotAlone(r) /\ run[r] \in RunRecords
    BY DEF IngestInv
  <2> QED
    BY <2>1 DEF NotAlone, NoRun, RunRecords
<1> QED
  BY <1>1 DEF CheckoutInv, StandsAlone

LEMMA CheckoutInit == IngestInit => CheckoutInv
<1> SUFFICES ASSUME IngestInit PROVE CheckoutInv
  OBVIOUS
<1>1. \A r \in Runs : StandsAlone(r)
  BY DEF IngestInit, StandsAlone, NoRun
<1>2. PICK known \in {{}, {s \in Sources : work[s] # NoEntry}} :
        sources = [s \in Sources |-> IF s \in known THEN Row(work[s]) ELSE NoRow]
  BY DEF IngestInit
<1>3. ~migrated /\ NoText \notin Texts
  BY ConvertAssumption DEF IngestInit, NoText
<1>4. \A s \in Sources : Regular(s)
  BY <1>2, <1>3 DEF Regular, Row, NoRow
<1> QED
  BY <1>1, <1>4 DEF CheckoutInv

LEMMA CheckoutNext == IngestInv /\ CheckoutInv /\ [IngestNext]_ingestVars => CheckoutInv'
<1> SUFFICES ASSUME IngestInv, CheckoutInv, [IngestNext]_ingestVars PROVE CheckoutInv'
  OBVIOUS
<1>1. CASE Repository \/ UNCHANGED ingestVars
  <2>1. UNCHANGED <<sources, chunks, migrated, run>>
    BY <1>1 DEF Repository, ingestVars
  <2> QED
    BY <2>1 DEF CheckoutInv, StandsAlone, Regular, UnderWay
<1>2. CASE Migrate
  <2>1. \A s \in Sources : Regular(s)'
    BY <1>2 DEF Migrate, CheckoutInv, Regular
  <2> QED
    BY <1>2, <2>1, DisturbedStands DEF Migrate
<1>3. CASE RowLost
  <2>1. run' = [r \in Runs |-> NotAlone(r)] /\ UNCHANGED <<sources, migrated>>
    BY <1>3 DEF RowLost
  <2>2. \A s \in Sources : Regular(s)'
    BY <2>1 DEF CheckoutInv, Regular
  <2> QED
    BY <2>1, <2>2, DisturbedStands
<1>4. ASSUME NEW r \in Runs, RunStep(r) PROVE CheckoutInv'
  BY <1>4, BeginStands, LeaveOutStands, LookStands, CountStands, RefreshStands, OverBudgetStands,
     EmbedStands, UpsertStands, DeleteStands, CommitStands, CancelStands DEF RunStep
<1> QED
  BY <1>1, <1>2, <1>3, <1>4 DEF IngestNext, KnowledgeBase

\* What is true of the tables while a run is alone, wherever it is.
THEOREM CheckoutInvariant == IngestSpec => []CheckoutInv
BY IngestInvariant, CheckoutInit, CheckoutNext, PTL DEF IngestSpec

LEMMA InvCheckout == IngestInv /\ CheckoutInv => RunLeavesCheckout
<1> SUFFICES ASSUME IngestInv, CheckoutInv,
                    NEW r \in Runs, run[r].at = "ended", run[r].alone,
                    NEW s \in Range(Manifest) \ (run[r].skipped \union run[r].failed),
                    run[r].tree[s].agents # {}, run[r].tree[s].md # NoText
             PROVE  Reflects(s, run[r].tree[s])
  BY DEF RunLeavesCheckout
<1> DEFINE entry == run[r].tree[s]
<1>1. PICK i \in DOMAIN Manifest : s = Manifest[i]
  BY DEF Range
<1>2. i \in 1 .. Len(Manifest) /\ s \in Sources
  BY <1>1, IngestAssumption
<1>3. run[r] \in RunRecords /\ Good(run[r].tree) /\ StoreOK /\ Whole(s)
  BY <1>2, AtSource DEF IngestInv
<1>4. entry \in Entries /\ entry.md \in Texts
  BY <1>2, <1>3 DEF RunRecords, Good
<1>5. Current(run[r], sources, chunks, migrated)
  BY DEF CheckoutInv, StandsAlone
<1>6. i \in 1 .. run[r].place - 1
  BY <1>2, <1>3, <1>5 DEF Current, RunRecords
<1>7. Mirrors(entry, sources[s], chunks[s], migrated)
  BY <1>1, <1>5, <1>6 DEF Current
<1>8. RowsOf(chunks[s]) = Size[entry.md] * Cardinality(entry.agents)
  BY <1>2, <1>3, <1>4, <1>7, RowsOfAnEntry, CountedIsFull DEF Mirrors
<1> QED
  BY <1>7, <1>8 DEF Reflects, Row, Mirrors

\* A run that nobody disturbed leaves every source it neither skipped nor failed at as its
\* checkout has it, for any MANIFEST, tables, budget and history before it.
THEOREM RunsLeaveTheirCheckout == IngestSpec => []RunLeavesCheckout
BY IngestInvariant, CheckoutInvariant, InvCheckout, PTL

=============================================================================
