-------------------------------- MODULE Convert --------------------------------
(***************************************************************************)
(* How a document gets into the repository (ingest_document.py): the        *)
(* conversion in a child process, the two files it leaves in the working    *)
(* tree, what people edit by hand, and the test of the pull request that    *)
(* everything passes on its way to the main branch.                         *)
(*                                                                         *)
(* A text is a value and stands for its own SHA-256.  The limits that a     *)
(* document is refused for before it is converted leave nothing behind.     *)
(***************************************************************************)
EXTENDS Integers, Sequences, FiniteSets

CONSTANTS
    Sources,    \* paths of .md files the MANIFEST may list
    Converted,  \* those under docs/knowledge/ingested, written by write_ingested
    Texts,      \* what a document or a person may say
    Readers,    \* the sets of agents a source may be listed for
    MaxEdits,   \* bound: edits and conversions
    MaxFaults   \* bound: kills, and rows removed by hand

ASSUME ConvertAssumption ==
    /\ Converted \subseteq Sources
    /\ \A agents \in Readers : IsFiniteSet(agents)
    /\ MaxEdits \in Nat /\ MaxFaults \in Nat
    /\ {"none", "torn", "error"} \intersect Texts = {}

VARIABLES
    work,       \* the working tree: each .md, its .meta.yaml and its MANIFEST line
    main,       \* the main branch
    conv,       \* the conversion under way: parent, child and their two files
    edits, faults

convertVars == <<work, main, conv, edits, faults>>

\* What is left of a file whose writer was killed; no file, or none with a text in it.
Torn == "torn"
NoText == "none"
Failed == "error"

\* A sidecar: the hash it declares, and the status it gives the document, "broken" for one
\* that is refused for it or for a date its class requires.
NoMeta == [hash |-> NoText, says |-> "active"]

NoConversion == [at |-> "idle", source |-> NoText, text |-> NoText, part |-> NoText, out |-> NoText]

NoEntry == [md |-> NoText, meta |-> NoMeta, agents |-> {}]

\* What a person wrote by hand, and what the test of the pull request lets through of a
\* conversion.
Pack(text, agents) == [md |-> text, meta |-> NoMeta, agents |-> agents]
Document(text, agents) == [md |-> text, meta |-> [hash |-> text, says |-> "active"], agents |-> agents]

Initially(s) ==
    IF s \in Converted THEN {NoEntry} \union {Document(text, agents) : text \in Texts, agents \in Readers}
    ELSE {Pack(text, agents) : text \in Texts, agents \in Readers}

\* The packs written by hand are there and listed, and some documents.
ConvertInit ==
    /\ work \in [Sources -> UNION {Initially(s) : s \in Sources}]
    /\ \A s \in Sources : work[s] \in Initially(s)
    /\ main = work
    /\ conv = NoConversion
    /\ edits = 0 /\ faults = 0

-----------------------------------------------------------------------------
(* The conversion *)

\* ingest_document starts the child when the document is within the limits.
ConvertStarts ==
    /\ conv.at = "idle" /\ edits < MaxEdits
    /\ \E s \in Converted, text \in Texts :
           conv' = [NoConversion EXCEPT !.at = "child", !.source = s, !.text = text]
    /\ edits' = edits + 1
    /\ UNCHANGED <<work, main, faults>>

\* _write_all puts the result into the .part file piece by piece.
ChildWrites ==
    /\ conv.at = "child"
    /\ \/ conv.part = NoText /\ conv' = [conv EXCEPT !.part = Torn]
       \/ conv.part = Torn /\ conv' = [conv EXCEPT !.part = conv.text]
    /\ UNCHANGED <<work, main, edits, faults>>

\* The conversion fails, or MemoryError at any point before the result is written: the file
\* is truncated and gets the error that was made ready before the limit was set.
ChildFails ==
    /\ conv.at = "child" /\ conv.part \in {NoText, Torn}
    /\ conv' = [conv EXCEPT !.part = Failed]
    /\ UNCHANGED <<work, main, edits, faults>>

\* os.replace: the result appears whole.
ChildPublishes ==
    /\ conv.at = "child" /\ conv.part \in {conv.text, Failed}
    /\ conv' = [conv EXCEPT !.at = "parent", !.out = conv.part]
    /\ UNCHANGED <<work, main, edits, faults>>

\* The time is over, or the operating system ends the child.
ChildDies ==
    /\ conv.at = "child"
    /\ conv' = [conv EXCEPT !.at = "parent"]
    /\ UNCHANGED <<work, main, edits, faults>>

\* The parent takes a result it can read and that is not an error; write_ingested goes on
\* when neither file is there, or with --overwrite.
ParentReads ==
    /\ conv.at = "parent"
    /\ \/ conv' = NoConversion
       \/ conv.out \in Texts /\ conv' = [conv EXCEPT !.at = "opens"]
    /\ UNCHANGED <<work, main, edits, faults>>

\* write_ingested: the .md, which write_bytes empties first, and then the .meta.yaml.
WriteMd ==
    /\ \/ conv.at = "opens" /\ work' = [work EXCEPT ![conv.source].md = Torn]
          /\ conv' = [conv EXCEPT !.at = "md"]
       \/ conv.at = "md" /\ work' = [work EXCEPT ![conv.source].md = conv.out]
          /\ conv' = [conv EXCEPT !.at = "meta"]
    /\ UNCHANGED <<main, edits, faults>>

WriteMeta ==
    /\ conv.at = "meta"
    /\ work' = [work EXCEPT ![conv.source].meta = [hash |-> conv.out, says |-> "active"]]
    /\ conv' = NoConversion
    /\ UNCHANGED <<main, edits, faults>>

\* Ctrl-C: what has been written stays as it is.  Inside the write of the sidecar it stays
\* with some of its fields.
ConvertKilled ==
    /\ conv.at # "idle" /\ faults < MaxFaults
    /\ faults' = faults + 1 /\ conv' = NoConversion
    /\ \/ UNCHANGED work
       \/ /\ conv.at = "meta"
          /\ work' = [work EXCEPT ![conv.source].meta = [hash |-> NoText, says |-> "broken"]]
    /\ UNCHANGED <<main, edits>>

Conversion ==
    \/ ConvertStarts \/ ChildWrites \/ ChildFails \/ ChildPublishes \/ ChildDies
    \/ ParentReads \/ WriteMd \/ WriteMeta \/ ConvertKilled

-----------------------------------------------------------------------------
(* People *)

Edit(s, entry) ==
    /\ edits < MaxEdits /\ entry # work[s]
    /\ work' = [work EXCEPT ![s] = entry]
    /\ edits' = edits + 1
    /\ UNCHANGED <<main, conv, faults>>

\* A pack is written by hand, or removed; its sidecar, if it has one, is not brought along.
EditMd == \E s \in Sources \ Converted, text \in Texts \union {NoText} :
    Edit(s, [work[s] EXCEPT !.md = text])

\* A sidecar for what the .md says now, or an edit of what the sidecar says of it.
EditMeta == \E s \in Sources, says \in {"active", "revoked", "broken"} :
    \/ work[s].meta # NoMeta /\ Edit(s, [work[s] EXCEPT !.meta.says = says])
    \/ /\ s \notin Converted /\ work[s].md # NoText
       /\ Edit(s, [work[s] EXCEPT !.meta = [hash |-> work[s].md, says |-> says]])

\* The line of the MANIFEST, for one or more agents; none takes the source out.
EditManifest == \E s \in Sources, agents \in Readers \union {{}} :
    Edit(s, [work[s] EXCEPT !.agents = agents])

\* validate_ingested: the .md, the sidecar and the hash.
Validated(entry) == entry.md # NoText /\ entry.meta # NoMeta /\ entry.meta.hash = entry.md

\* The test of the pull request (test_ingest_pipeline.py) is about what the MANIFEST lists
\* of converted documents; the merge takes the working tree as it is.
Merge ==
    /\ work # main
    /\ \A s \in Converted : work[s].agents # {} => Validated(work[s])
    /\ main' = work
    /\ UNCHANGED <<work, conv, edits, faults>>

ConvertNext == Conversion \/ EditMd \/ EditMeta \/ EditManifest \/ Merge

================================================================================
