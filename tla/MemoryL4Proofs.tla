---------------------------- MODULE MemoryL4Proofs ----------------------------
(***************************************************************************)
(* The properties of MemoryL4 for any number of processes and facts.  The   *)
(* table only grows, and what a row records of the past is never taken back *)
(* (Kept); so what a stale look found out is still true in that weaker form *)
(* when it is used.                                                         *)
(***************************************************************************)
EXTENDS MemoryL4, SequenceTheorems, TLAPS

Row == [status : {"candidate", "active", "archived", "superseded"},
        supersedes : Nat, superseded_by : Nat,
        promoted : BOOLEAN, archived : BOOLEAN, agent : BOOLEAN]

Process == [op : {"idle", "remember", "promote", "approve", "reject", "write"},
            status : Correctable, fact : Nat, request : Nat, facts : SUBSET Nat, left : Nat]

\* The links of a table lead to rows of it, and its statuses agree with its history.
TableOK(t) ==
    /\ t \in Seq(Row)
    /\ \A i \in DOMAIN t :
           /\ t[i].supersedes \in {0} \union DOMAIN t
           /\ t[i].status = "active" => t[i].promoted
           /\ t[i].status = "archived" => t[i].archived
           /\ t[i].status = "superseded" => t[i].superseded_by # 0
           /\ t[i].superseded_by # 0 =>
                  /\ t[i].superseded_by \in DOMAIN t
                  /\ t[t[i].superseded_by].supersedes = i
                  /\ t[t[i].superseded_by].promoted

\* No row is lost, and none forgets who wrote it, what it corrects and what became of it.
Kept(t, u) ==
    /\ DOMAIN t \subseteq DOMAIN u
    /\ \A i \in DOMAIN t :
           /\ u[i].supersedes = t[i].supersedes /\ (u[i].agent <=> t[i].agent)
           /\ t[i].promoted => u[i].promoted
           /\ t[i].archived => u[i].archived

Done(response, i) == IF response = "approve" THEN rows[i].promoted ELSE rows[i].archived

\* Where a process is: its fact is in the table, what it has decided so far is done, and
\* what it has written nobody else has.
ProcOK(p) ==
    /\ proc[p] \in Process
    /\ proc[p].op \in {"remember", "promote", "approve"} => proc[p].fact \in {0} \union Ids
    /\ proc[p].op = "promote" => proc[p].fact # 0
    /\ proc[p].op \in Responses =>
           /\ proc[p].request \in DOMAIN requests
           /\ \A i \in requests[proc[p].request] \ proc[p].facts : Done(proc[p].op, i)
    /\ proc[p].op = "write" =>
           /\ proc[p].facts \subseteq Ids
           /\ \A r \in DOMAIN requests : proc[p].facts \intersect requests[r] = {}

RequestsOK ==
    /\ requests \in Seq(SUBSET Nat)
    /\ \A r \in DOMAIN requests : requests[r] \subseteq Ids
    /\ \A r, s \in DOMAIN requests : r # s => requests[r] \intersect requests[s] = {}

DecisionsOK ==
    \A d \in decisions :
        /\ d.request \in DOMAIN requests
        /\ \A i \in requests[d.request] : Done(d.response, i)

OwnFacts ==
    \A p, q \in Procs :
        (p # q /\ proc[p].op = "write" /\ proc[q].op = "write") =>
            proc[p].facts \intersect proc[q].facts = {}

MemoryInv ==
    /\ TableOK(rows)
    /\ proc \in [Procs -> Process]
    /\ \A p \in Procs : ProcOK(p)
    /\ RequestsOK
    /\ DecisionsOK
    /\ OwnFacts
    /\ EveryProposalIsAsked

-----------------------------------------------------------------------------
(* The table *)

LEMMA AppendOK ==
  ASSUME NEW t, TableOK(t), NEW f \in Row,
         f.supersedes \in {0} \union DOMAIN t, f.superseded_by = 0,
         f.status \in Correctable, f.status = "active" => f.promoted
  PROVE  /\ TableOK(Append(t, f)) /\ Kept(t, Append(t, f))
         /\ DOMAIN Append(t, f) = DOMAIN t \union {Len(t) + 1}
         /\ Len(Append(t, f)) = Len(t) + 1
         /\ Len(t) + 1 \notin DOMAIN t
         /\ \A i \in DOMAIN t : Append(t, f)[i] = t[i]
         /\ Append(t, f)[Len(t) + 1] = f
<1> DEFINE u == Append(t, f)
<1>1. /\ u \in Seq(Row) /\ Len(u) = Len(t) + 1 /\ DOMAIN u = DOMAIN t \union {Len(t) + 1}
      /\ Len(t) + 1 \notin DOMAIN t /\ u[Len(t) + 1] = f
      /\ \A i \in DOMAIN t : u[i] = t[i]
  BY DEF TableOK
<1> HIDE DEF u
<1>2. Kept(t, u)
  BY <1>1 DEF Kept
<1>3. TableOK(u)
  <2> SUFFICES ASSUME NEW i \in DOMAIN u
               PROVE  /\ u[i].supersedes \in {0} \union DOMAIN u
                      /\ u[i].status = "active" => u[i].promoted
                      /\ u[i].status = "archived" => u[i].archived
                      /\ u[i].status = "superseded" => u[i].superseded_by # 0
                      /\ u[i].superseded_by # 0 =>
                             /\ u[i].superseded_by \in DOMAIN u
                             /\ u[u[i].superseded_by].supersedes = i
                             /\ u[u[i].superseded_by].promoted
    BY <1>1 DEF TableOK
  <2>1. CASE i \in DOMAIN t
    BY <1>1, <2>1 DEF TableOK
  <2>2. CASE i = Len(t) + 1
    BY <1>1, <2>2 DEF TableOK, Correctable
  <2> QED
    BY <1>1, <2>1, <2>2
<1> QED
  BY <1>1, <1>2, <1>3 DEF u

LEMMA SupersedeOK ==
  ASSUME NEW t, TableOK(t), NEW new \in DOMAIN t, NEW old,
         t[new].supersedes = old, t[new].promoted
  PROVE  /\ TableOK(Supersede(t, old, new)) /\ Kept(t, Supersede(t, old, new))
         /\ DOMAIN Supersede(t, old, new) = DOMAIN t
<1> DEFINE u == [t EXCEPT ![old].status = "superseded", ![old].superseded_by = new]
<1>1. CASE old # 0 /\ t[old].status \in Correctable
  <2>1. old \in DOMAIN t /\ new \in Nat
    BY <1>1 DEF TableOK
  <2> DEFINE row == [t[old] EXCEPT !.status = "superseded", !.superseded_by = new]
  <2>5. t \in Seq(Row) /\ DOMAIN t = 1 .. Len(t) /\ \A i \in DOMAIN t : t[i] \in Row
    BY DEF TableOK
  <2>11. row \in Row
    BY <2>1, <2>5 DEF Row
  <2>12. u = [t EXCEPT ![old] = row]
    OBVIOUS
  <2> HIDE DEF row, u
  <2>2. u \in Seq(Row) /\ DOMAIN u = DOMAIN t
    <3>1. [t EXCEPT ![old] = row] \in Seq(Row) /\ Len([t EXCEPT ![old] = row]) = Len(t)
      BY <2>1, <2>5, <2>11, ExceptSeq
    <3> QED
      BY <2>5, <2>12, <3>1
  <2>13. u[old] = row /\ \A i \in DOMAIN t : i # old => u[i] = t[i]
    BY <2>1, <2>12
  <2>3. u[old] = [t[old] EXCEPT !.status = "superseded", !.superseded_by = new]
    BY <2>13 DEF row
  <2>4. \A i \in DOMAIN t : i # old => u[i] = t[i]
    BY <2>13
  <2> HIDE DEF u
  <2>6. \A i \in DOMAIN t : /\ u[i].supersedes = t[i].supersedes /\ (u[i].promoted <=> t[i].promoted)
                            /\ (u[i].archived <=> t[i].archived) /\ (u[i].agent <=> t[i].agent)
    <3>1. /\ u[old].supersedes = t[old].supersedes /\ (u[old].promoted <=> t[old].promoted)
          /\ (u[old].archived <=> t[old].archived) /\ (u[old].agent <=> t[old].agent)
      BY <2>1, <2>3, <2>5 DEF Row
    <3> QED
      BY <2>4, <3>1
  <2>7. u[old].status = "superseded" /\ u[old].superseded_by = new
    BY <2>1, <2>3, <2>5 DEF Row
  <2>8. new # 0
    BY DEF TableOK
  <2>9. TableOK(u)
    BY <2>1, <2>2, <2>4, <2>6, <2>7, <2>8 DEF TableOK
  <2>10. Kept(t, u)
    BY <2>2, <2>6 DEF Kept
  <2> QED
    BY <1>1, <2>2, <2>9, <2>10 DEF Supersede, u
<1>2. CASE ~(old # 0 /\ t[old].status \in Correctable)
  BY <1>2 DEF Supersede, Kept
<1> QED
  BY <1>1, <1>2

LEMMA PromotedOK ==
  ASSUME TableOK(rows), NEW i \in Ids
  PROVE  /\ TableOK(Promoted(i)) /\ Kept(rows, Promoted(i)) /\ DOMAIN Promoted(i) = Ids
         /\ Promoted(i)[i].promoted
<1> DEFINE row == [rows[i] EXCEPT !.status = "active", !.promoted = TRUE]
           u == [rows EXCEPT ![i].status = "active", ![i].promoted = TRUE]
<1>2. rows \in Seq(Row) /\ Ids = 1 .. Len(rows) /\ \A j \in Ids : rows[j] \in Row
  BY DEF TableOK, Ids
<1>11. row \in Row
  BY <1>2 DEF Row
<1>12. u = [rows EXCEPT ![i] = row]
  OBVIOUS
<1> HIDE DEF row, u
<1>1. u \in Seq(Row) /\ DOMAIN u = Ids
  <2>1. [rows EXCEPT ![i] = row] \in Seq(Row) /\ Len([rows EXCEPT ![i] = row]) = Len(rows)
    BY <1>2, <1>11, ExceptSeq
  <2> QED
    BY <1>2, <1>12, <2>1
<1>13. u[i] = row /\ \A j \in Ids : j # i => u[j] = rows[j]
  BY <1>2, <1>12
<1>3. u[i] = [rows[i] EXCEPT !.status = "active", !.promoted = TRUE]
  BY <1>13 DEF row
<1>4. \A j \in Ids : j # i => u[j] = rows[j]
  BY <1>13
<1>5. \A j \in Ids : /\ u[j].supersedes = rows[j].supersedes /\ u[j].superseded_by = rows[j].superseded_by
                     /\ (u[j].archived <=> rows[j].archived) /\ (u[j].agent <=> rows[j].agent)
                     /\ rows[j].promoted => u[j].promoted
  <2>1. /\ u[i].supersedes = rows[i].supersedes /\ u[i].superseded_by = rows[i].superseded_by
        /\ (u[i].archived <=> rows[i].archived) /\ (u[i].agent <=> rows[i].agent)
        /\ u[i].promoted
    BY <1>2, <1>3 DEF Row
  <2> QED
    BY <1>4, <2>1
<1>6. u[i].status = "active" /\ u[i].promoted
  BY <1>2, <1>3 DEF Row
<1>7. TableOK(u)
  BY <1>1, <1>4, <1>5, <1>6 DEF TableOK, Ids
<1>8. Kept(rows, u)
  BY <1>1, <1>5 DEF Kept, Ids
<1>9. Promoted(i) = Supersede(u, rows[i].supersedes, i)
  BY DEF Promoted, u
<1>10. TableOK(Promoted(i)) /\ Kept(u, Promoted(i)) /\ DOMAIN Promoted(i) = Ids
  BY <1>1, <1>5, <1>6, <1>7, <1>9, SupersedeOK
<1> QED
  BY <1>1, <1>6, <1>8, <1>10 DEF Kept, Ids

LEMMA ArchivedOK ==
  ASSUME TableOK(rows), NEW i \in Ids
  PROVE  /\ TableOK(Archived(i)) /\ Kept(rows, Archived(i)) /\ DOMAIN Archived(i) = Ids
         /\ Archived(i)[i].archived
<1> DEFINE row == [rows[i] EXCEPT !.status = "archived", !.archived = TRUE]
           u == [rows EXCEPT ![i].status = "archived", ![i].archived = TRUE]
<1>2. rows \in Seq(Row) /\ Ids = 1 .. Len(rows) /\ \A j \in Ids : rows[j] \in Row
  BY DEF TableOK, Ids
<1>11. row \in Row
  BY <1>2 DEF Row
<1>12. u = [rows EXCEPT ![i] = row]
  OBVIOUS
<1> HIDE DEF row, u
<1>1. u \in Seq(Row) /\ DOMAIN u = Ids
  <2>1. [rows EXCEPT ![i] = row] \in Seq(Row) /\ Len([rows EXCEPT ![i] = row]) = Len(rows)
    BY <1>2, <1>11, ExceptSeq
  <2> QED
    BY <1>2, <1>12, <2>1
<1>13. u[i] = row /\ \A j \in Ids : j # i => u[j] = rows[j]
  BY <1>2, <1>12
<1>3. u[i] = [rows[i] EXCEPT !.status = "archived", !.archived = TRUE]
  BY <1>13 DEF row
<1>4. \A j \in Ids : j # i => u[j] = rows[j]
  BY <1>13
<1>5. \A j \in Ids : /\ u[j].supersedes = rows[j].supersedes /\ u[j].superseded_by = rows[j].superseded_by
                     /\ (u[j].promoted <=> rows[j].promoted) /\ (u[j].agent <=> rows[j].agent)
                     /\ rows[j].archived => u[j].archived
  <2>1. /\ u[i].supersedes = rows[i].supersedes /\ u[i].superseded_by = rows[i].superseded_by
        /\ (u[i].promoted <=> rows[i].promoted) /\ (u[i].agent <=> rows[i].agent)
        /\ u[i].archived
    BY <1>2, <1>3 DEF Row
  <2> QED
    BY <1>4, <2>1
<1>6. u[i].status = "archived" /\ u[i].archived
  BY <1>2, <1>3 DEF Row
<1>7. TableOK(u)
  BY <1>1, <1>4, <1>5, <1>6 DEF TableOK, Ids
<1>8. Kept(rows, u)
  BY <1>1, <1>5 DEF Kept, Ids
<1> QED
  BY <1>1, <1>6, <1>7, <1>8 DEF Archived, u

-----------------------------------------------------------------------------
(* What the steps of one process leave of the others *)

\* A step of p on the table and the queue: the others are where they were, and what was
\* done is done.
LEMMA OthersOK ==
  ASSUME MemoryInv, NEW p \in Procs, NEW doing, Goto(p, doing),
         TableOK(rows'), Kept(rows, rows'), UNCHANGED requests
  PROVE  /\ proc'[p] = doing /\ (doing \in Process => proc' \in [Procs -> Process])
         /\ \A q \in Procs \ {p} : proc'[q] = proc[q] /\ ProcOK(q)'
         /\ RequestsOK'
<1>1. proc'[p] = doing /\ (doing \in Process => proc' \in [Procs -> Process]) /\ \A q \in Procs \ {p} : proc'[q] = proc[q]
  BY DEF Goto, MemoryInv
<1>2. Ids \subseteq Ids'
  BY DEF Kept, Ids
<1>3. RequestsOK'
  BY <1>2 DEF MemoryInv, RequestsOK
<1>4. ASSUME NEW q \in Procs \ {p}
      PROVE  ProcOK(q)'
  <2>1. ProcOK(q) /\ proc'[q] = proc[q]
    BY <1>1, <1>4 DEF MemoryInv
  <2>2. ASSUME NEW i \in requests[proc[q].request], proc[q].op \in Responses, Done(proc[q].op, i)
        PROVE  Done(proc[q].op, i)'
    <3>1. i \in Ids
      BY <2>1, <2>2 DEF MemoryInv, RequestsOK, ProcOK
    <3> QED
      BY <2>1, <2>2, <3>1 DEF Done, Kept, Ids
  <2> QED
    BY <1>2, <2>1, <2>2 DEF ProcOK
<1> QED
  BY <1>1, <1>3, <1>4

LEMMA DecisionsKept ==
  ASSUME MemoryInv, Kept(rows, rows'), UNCHANGED <<requests, decisions>>
  PROVE  DecisionsOK'
<1> SUFFICES ASSUME NEW d \in decisions, NEW i \in requests[d.request]
             PROVE  Done(d.response, i)'
  BY DEF MemoryInv, DecisionsOK
<1>1. d.request \in DOMAIN requests /\ Done(d.response, i)
  BY DEF MemoryInv, DecisionsOK
<1>2. i \in Ids
  BY <1>1 DEF MemoryInv, RequestsOK
<1> QED
  BY <1>1, <1>2 DEF Done, Kept, Ids

\* A step of a process that writes nothing of an agent's.
LEMMA CommandStep ==
  ASSUME MemoryInv, NEW p \in Procs, NEW doing, Goto(p, doing),
         proc[p].op # "write", doing.op = "write" => doing.facts = {},
         TableOK(rows'), Kept(rows, rows'), \A i \in Ids' \ Ids : ~rows'[i].agent,
         UNCHANGED <<requests, lost>>, DecisionsOK', ProcOK(p)'
  PROVE  MemoryInv'
<1>1. /\ proc'[p] = doing /\ (doing \in Process => proc' \in [Procs -> Process])
      /\ \A q \in Procs \ {p} : proc'[q] = proc[q] /\ ProcOK(q)'
      /\ RequestsOK'
  BY OthersOK
<1>2. OwnFacts'
  BY <1>1 DEF MemoryInv, OwnFacts
<1>3. EveryProposalIsAsked'
  <2> SUFFICES ASSUME NEW i \in Ids', rows'[i].agent
               PROVE  \/ i \in lost
                      \/ \E q \in Procs : proc'[q].op = "write" /\ i \in proc'[q].facts
                      \/ \E r \in DOMAIN requests :
                             i \in requests[r] /\ \A t \in DOMAIN requests \ {r} : i \notin requests[t]
    BY DEF EveryProposalIsAsked
  <2>1. i \in Ids /\ rows[i].agent
    BY DEF Kept, Ids
  <2>2. ASSUME NEW q \in Procs, proc[q].op = "write"
        PROVE  proc'[q] = proc[q]
    BY <1>1, <2>2
  <2> QED
    BY <2>1, <2>2 DEF MemoryInv, EveryProposalIsAsked
<1>4. proc' \in [Procs -> Process]
  BY <1>1 DEF ProcOK
<1> QED
  BY <1>1, <1>2, <1>3, <1>4 DEF MemoryInv

-----------------------------------------------------------------------------
(* The steps of a person's commands *)

LEMMA IdleOK ==
  ASSUME NEW p, proc'[p] = Idle
  PROVE  ProcOK(p)'
BY DEF ProcOK, Idle, Process, Correctable, Responses

LEMMA SameTable == TableOK(rows) => Kept(rows, rows)
BY DEF Kept, TableOK

LEMMA RememberReadsInv ==
  ASSUME MemoryInv, NEW p \in Procs, RememberReads(p)
  PROVE  MemoryInv'
<1>1. PICK status \in Correctable, old \in {0} \union Ids :
          Goto(p, [Idle EXCEPT !.op = "remember", !.status = status, !.fact = old])
  BY DEF RememberReads
<1> DEFINE doing == [Idle EXCEPT !.op = "remember", !.status = status, !.fact = old]
<1>2. /\ TableOK(rows) /\ UNCHANGED <<rows, requests, decisions, lost>> /\ proc[p].op # "write"
      /\ old \in Nat
  BY DEF RememberReads, MemoryInv, TableOK, Ids
<1>3. /\ doing \in Process /\ doing.op = "remember" /\ doing.fact = old
  BY <1>2 DEF Idle, Process
<1> HIDE DEF doing
<1>4. TableOK(rows') /\ Kept(rows, rows')
  BY <1>2, SameTable
<1>5. proc'[p] = doing
  BY <1>1, <1>2, <1>4, OthersOK DEF doing
<1>6. ProcOK(p)'
  BY <1>2, <1>3, <1>5 DEF ProcOK, Responses, Ids
<1> QED
  BY <1>1, <1>2, <1>3, <1>4, <1>6, DecisionsKept, CommandStep DEF doing, Ids

LEMMA RememberWritesInv ==
  ASSUME MemoryInv, NEW p \in Procs, RememberWrites(p)
  PROVE  MemoryInv'
<1> DEFINE status == proc[p].status
           old == proc[p].fact
           f == Fact(status, old, FALSE)
           new == Append(rows, f)
<1>1. TableOK(rows) /\ ProcOK(p) /\ proc[p].op = "remember"
  BY DEF MemoryInv, RememberWrites
<1>2. status \in Correctable /\ old \in {0} \union Ids /\ old \in Nat
  BY <1>1 DEF ProcOK, Process
<1>3. /\ f \in Row /\ f.supersedes = old /\ f.superseded_by = 0 /\ f.status = status
      /\ f.status = "active" => f.promoted
      /\ ~f.agent
  BY <1>2 DEF Fact, Row, Correctable
<1> HIDE DEF f
<1>4. /\ TableOK(new) /\ Kept(rows, new) /\ DOMAIN new = Ids \union {Len(rows) + 1}
      /\ Len(new) = Len(rows) + 1 /\ new[Len(new)] = f
  BY <1>1, <1>2, <1>3, AppendOK DEF Ids
<1>5. rows' = IF status = "active" THEN Supersede(new, old, Len(new)) ELSE new
  BY DEF RememberWrites, f
<1> HIDE DEF new, status, old
<1>6. /\ TableOK(rows') /\ Kept(new, rows') /\ DOMAIN rows' = DOMAIN new
  <2>1. CASE status = "active"
    <3>1. Len(new) \in DOMAIN new /\ new[Len(new)].supersedes = old /\ new[Len(new)].promoted
      BY <1>3, <1>4, <2>1
    <3> QED
      BY <1>4, <1>5, <2>1, <3>1, SupersedeOK
  <2>2. CASE status # "active"
    BY <1>4, <1>5, <2>2 DEF Kept
  <2> QED
    BY <2>1, <2>2
<1>7. Kept(rows, rows')
  BY <1>4, <1>6 DEF Kept
<1>8. \A i \in Ids' \ Ids : ~rows'[i].agent
  BY <1>3, <1>4, <1>6 DEF Kept, Ids
<1>9. Goto(p, Idle) /\ UNCHANGED <<requests, decisions, lost>>
  BY DEF RememberWrites
<1>10. ProcOK(p)'
  BY <1>6, <1>7, <1>9, OthersOK, IdleOK
<1>11. Idle.op = "idle"
  BY DEF Idle
<1> QED
  BY <1>1, <1>6, <1>7, <1>8, <1>9, <1>10, <1>11, DecisionsKept, CommandStep

LEMMA PromoteReadsInv ==
  ASSUME MemoryInv, NEW p \in Procs, PromoteReads(p)
  PROVE  MemoryInv'
<1>1. PICK i \in Ids : Goto(p, [Idle EXCEPT !.op = "promote", !.fact = i])
  BY DEF PromoteReads
<1> DEFINE doing == [Idle EXCEPT !.op = "promote", !.fact = i]
<1>2. /\ TableOK(rows) /\ UNCHANGED <<rows, requests, decisions, lost>> /\ proc[p].op # "write"
      /\ i \in Nat \ {0}
  BY DEF PromoteReads, MemoryInv, TableOK, Ids
<1>3. /\ doing \in Process /\ doing.op = "promote" /\ doing.fact = i
  BY <1>2 DEF Idle, Process, Correctable
<1> HIDE DEF doing
<1>4. TableOK(rows') /\ Kept(rows, rows')
  BY <1>2, SameTable
<1>5. proc'[p] = doing
  BY <1>1, <1>2, <1>4, OthersOK DEF doing
<1>6. ProcOK(p)'
  BY <1>2, <1>3, <1>5 DEF ProcOK, Responses, Ids
<1> QED
  BY <1>1, <1>2, <1>3, <1>4, <1>6, DecisionsKept, CommandStep DEF doing, Ids

LEMMA PromoteWritesInv ==
  ASSUME MemoryInv, NEW p \in Procs, PromoteWrites(p)
  PROVE  MemoryInv'
<1>1. TableOK(rows) /\ proc[p].op = "promote" /\ proc[p].fact \in Ids
  BY DEF PromoteWrites, MemoryInv, ProcOK
<1>2. rows' = Promoted(proc[p].fact) /\ Goto(p, Idle) /\ UNCHANGED <<requests, decisions, lost>>
  BY DEF PromoteWrites
<1>3. TableOK(rows') /\ Kept(rows, rows') /\ Ids' = Ids
  BY <1>1, <1>2, PromotedOK DEF Ids
<1>4. ProcOK(p)' /\ Idle.op = "idle"
  BY <1>2, <1>3, OthersOK, IdleOK DEF Idle
<1> QED
  BY <1>1, <1>2, <1>3, <1>4, DecisionsKept, CommandStep

LEMMA ForgetInv ==
  ASSUME MemoryInv, NEW p \in Procs, Forget(p)
  PROVE  MemoryInv'
<1>1. PICK i \in Ids : rows' = Archived(i)
  BY DEF Forget
<1>2. TableOK(rows) /\ ProcOK(p) /\ proc[p].op = "idle" /\ UNCHANGED <<requests, decisions, proc, lost>>
  BY DEF Forget, MemoryInv
<1>3. TableOK(rows') /\ Kept(rows, rows') /\ Ids' = Ids
  BY <1>1, <1>2, ArchivedOK DEF Ids
<1>4. Goto(p, proc[p])
  BY <1>2 DEF Goto, MemoryInv
<1>5. ProcOK(p)'
  BY <1>2 DEF ProcOK, Responses
<1> QED
  BY <1>2, <1>3, <1>4, <1>5, DecisionsKept, CommandStep

-----------------------------------------------------------------------------
(* The steps of decide *)

LEMMA DecideReadsInv ==
  ASSUME MemoryInv, NEW p \in Procs, DecideReads(p)
  PROVE  MemoryInv'
<1>1. PICK r \in DOMAIN requests, response \in Responses :
          Goto(p, [Idle EXCEPT !.op = response, !.request = r, !.facts = requests[r]])
  BY DEF DecideReads, Undecided
<1> DEFINE doing == [Idle EXCEPT !.op = response, !.request = r, !.facts = requests[r]]
<1>2. /\ TableOK(rows) /\ UNCHANGED <<rows, requests, decisions, lost>> /\ proc[p].op # "write"
      /\ r \in Nat /\ requests[r] \in SUBSET Nat
  BY DEF DecideReads, MemoryInv, RequestsOK
<1>3. /\ doing \in Process /\ doing.op = response /\ doing.fact = 0
      /\ doing.request = r /\ doing.facts = requests[r]
  BY <1>2 DEF Idle, Process, Correctable, Responses
<1> HIDE DEF doing
<1>4. TableOK(rows') /\ Kept(rows, rows')
  BY <1>2, SameTable
<1>5. proc'[p] = doing
  BY <1>1, <1>2, <1>4, OthersOK DEF doing
<1>6. ProcOK(p)'
  BY <1>2, <1>3, <1>5 DEF ProcOK, Responses, Ids
<1>7. doing.op # "write"
  BY <1>3 DEF Responses
<1> QED
  BY <1>1, <1>2, <1>4, <1>6, <1>7, DecisionsKept, CommandStep DEF doing, Ids

\* One more fact of a request is through, and it is as the decision wants it.
LEMMA ThroughOK ==
  ASSUME MemoryInv, NEW p \in Procs, NEW response \in Responses, proc[p].op = response,
         NEW i, Goto(p, Through(p, i)),
         TableOK(rows'), Kept(rows, rows'), \A j \in Ids' \ Ids : ~rows'[j].agent,
         UNCHANGED <<requests, decisions, lost>>, Done(response, i)'
  PROVE  MemoryInv'
<1> DEFINE doing == Through(p, i)
<1>1. ProcOK(p) /\ RequestsOK
  BY DEF MemoryInv
<1>2. /\ doing \in Process /\ doing.op = proc[p].op /\ doing.fact = 0
      /\ doing.request = proc[p].request /\ doing.facts = proc[p].facts \ {i}
  BY <1>1 DEF Through, ProcOK, Process
<1> HIDE DEF doing
<1>3. proc'[p] = doing
  BY OthersOK DEF doing
<1>4. ASSUME NEW j \in requests[proc[p].request] \ doing.facts
      PROVE  Done(response, j)'
  <2>1. CASE j = i
    BY <2>1
  <2>2. CASE j # i
    <3>1. Done(response, j) /\ j \in Ids
      BY <1>1, <1>2, <1>4, <2>2 DEF ProcOK, RequestsOK
    <3> QED
      BY <3>1 DEF Done, Kept, Ids
  <2> QED
    BY <2>1, <2>2
<1>5. ProcOK(p)'
  <2>1. proc[p].request \in DOMAIN requests
    BY <1>1 DEF ProcOK
  <2>2. \A j \in requests[proc'[p].request] \ proc'[p].facts : Done(response, j)'
    BY <1>2, <1>3, <1>4
  <2> QED
    BY <1>2, <1>3, <2>1, <2>2 DEF ProcOK, Responses
<1>6. doing.op # "write" /\ proc[p].op # "write"
  BY <1>2 DEF Responses
<1> QED
  BY <1>5, <1>6, DecisionsKept, CommandStep DEF doing

LEMMA ApproveReadsInv ==
  ASSUME MemoryInv, NEW p \in Procs, ApproveReads(p)
  PROVE  MemoryInv'
<1>1. /\ TableOK(rows) /\ ProcOK(p) /\ proc[p].op = "approve"
      /\ UNCHANGED <<rows, requests, decisions, lost>>
  BY DEF MemoryInv, ApproveReads
<1>2. TableOK(rows') /\ Kept(rows, rows') /\ Ids' = Ids
  BY <1>1, SameTable DEF Ids
<1>3. PICK i \in Ids :
        \/ rows[i].status = "active" /\ Goto(p, Through(p, i))
        \/ rows[i].status = "candidate" /\ Goto(p, [proc[p] EXCEPT !.fact = i])
        \/ Goto(p, Idle)
  BY DEF ApproveReads
<1>4. CASE rows[i].status = "active" /\ Goto(p, Through(p, i))
  <2>1. rows[i].promoted
    BY <1>1, <1>4 DEF TableOK, Ids
  <2>2. Done("approve", i)'
    BY <1>1, <2>1 DEF Done
  <2> QED
    BY <1>1, <1>2, <1>4, <2>2, ThroughOK DEF Responses
<1>5. CASE Goto(p, [proc[p] EXCEPT !.fact = i])
  <2> DEFINE doing == [proc[p] EXCEPT !.fact = i]
  <2>1. i \in Nat
    BY <1>1 DEF TableOK, Ids
  <2>2. /\ doing \in Process /\ doing.op = "approve" /\ doing.fact = i
        /\ doing.request = proc[p].request /\ doing.facts = proc[p].facts
    BY <1>1, <2>1 DEF ProcOK, Process
  <2> HIDE DEF doing
  <2>3. proc'[p] = doing
    BY <1>1, <1>2, <1>5, OthersOK DEF doing
  <2>4. ProcOK(p)'
    BY <1>1, <2>2, <2>3 DEF ProcOK, Responses, Done, Ids
  <2> QED
    BY <1>1, <1>2, <1>5, <2>2, <2>4, DecisionsKept, CommandStep DEF doing
<1>6. CASE Goto(p, Idle)
  <2>1. ProcOK(p)' /\ Idle.op = "idle"
    BY <1>1, <1>2, <1>6, OthersOK, IdleOK DEF Idle
  <2> QED
    BY <1>1, <1>2, <1>6, <2>1, DecisionsKept, CommandStep
<1> QED
  BY <1>3, <1>4, <1>5, <1>6

LEMMA ApproveWritesInv ==
  ASSUME MemoryInv, NEW p \in Procs, ApproveWrites(p)
  PROVE  MemoryInv'
<1>1. TableOK(rows) /\ proc[p].op = "approve" /\ proc[p].fact \in Ids
  BY DEF ApproveWrites, MemoryInv, ProcOK
<1>2. PICK i \in Ids : rows' = Promoted(i) /\ Goto(p, Through(p, i))
  BY <1>1 DEF ApproveWrites
<1>3. TableOK(rows') /\ Kept(rows, rows') /\ Ids' = Ids /\ rows'[i].promoted
  BY <1>1, <1>2, PromotedOK DEF Ids
<1>4. Done("approve", i)' /\ UNCHANGED <<requests, decisions, lost>>
  BY <1>3 DEF Done, ApproveWrites
<1> QED
  BY <1>1, <1>2, <1>3, <1>4, ThroughOK DEF Responses

LEMMA RejectOneInv ==
  ASSUME MemoryInv, NEW p \in Procs, RejectOne(p)
  PROVE  MemoryInv'
<1>1. TableOK(rows) /\ proc[p].op = "reject"
  BY DEF RejectOne, MemoryInv
<1>2. PICK i \in Ids : rows' = Archived(i) /\ Goto(p, Through(p, i))
  BY DEF RejectOne
<1>3. TableOK(rows') /\ Kept(rows, rows') /\ Ids' = Ids /\ rows'[i].archived
  BY <1>1, <1>2, ArchivedOK DEF Ids
<1>4. Done("reject", i)' /\ UNCHANGED <<requests, decisions, lost>>
  BY <1>3 DEF Done, RejectOne
<1> QED
  BY <1>1, <1>2, <1>3, <1>4, ThroughOK DEF Responses

LEMMA DecideEndsInv ==
  ASSUME MemoryInv, NEW p \in Procs, DecideEnds(p)
  PROVE  MemoryInv'
<1>1. /\ TableOK(rows) /\ ProcOK(p) /\ proc[p].op \in Responses /\ proc[p].facts = {}
      /\ Goto(p, Idle) /\ UNCHANGED <<rows, requests, lost>>
      /\ decisions' = decisions \union {[request |-> proc[p].request, response |-> proc[p].op]}
  BY DEF DecideEnds, MemoryInv
<1>2. TableOK(rows') /\ Kept(rows, rows') /\ Ids' = Ids
  BY <1>1, SameTable DEF Ids
<1>3. DecisionsOK'
  <2> SUFFICES ASSUME NEW d \in decisions'
               PROVE  /\ d.request \in DOMAIN requests
                      /\ \A i \in requests[d.request] : Done(d.response, i)
    BY <1>1 DEF DecisionsOK, Done
  <2>1. CASE d \in decisions
    BY <2>1 DEF MemoryInv, DecisionsOK
  <2>2. CASE d = [request |-> proc[p].request, response |-> proc[p].op]
    BY <1>1, <2>2 DEF ProcOK
  <2> QED
    BY <1>1, <2>1, <2>2
<1>4. ProcOK(p)' /\ Idle.op = "idle"
  BY <1>1, <1>2, OthersOK, IdleOK DEF Idle
<1>5. proc[p].op # "write"
  BY <1>1 DEF Responses
<1> QED
  BY <1>1, <1>2, <1>3, <1>4, <1>5, CommandStep

-----------------------------------------------------------------------------
(* The steps of a worker *)

LEMMA WorkerStartsInv ==
  ASSUME MemoryInv, NEW p \in Procs, WorkerStarts(p)
  PROVE  MemoryInv'
<1>1. PICK n \in 1 .. MaxFacts : Goto(p, [Idle EXCEPT !.op = "write", !.left = n])
  BY DEF WorkerStarts
<1> DEFINE doing == [Idle EXCEPT !.op = "write", !.left = n]
<1>2. /\ TableOK(rows) /\ UNCHANGED <<rows, requests, decisions, lost>> /\ proc[p].op # "write"
      /\ n \in Nat
  BY MemoryAssumption DEF WorkerStarts, MemoryInv
<1>3. /\ doing \in Process /\ doing.op = "write" /\ doing.facts = {}
  BY <1>2 DEF Idle, Process, Correctable
<1> HIDE DEF doing
<1>4. TableOK(rows') /\ Kept(rows, rows')
  BY <1>2, SameTable
<1>5. proc'[p] = doing
  BY <1>1, <1>2, <1>4, OthersOK DEF doing
<1>6. ProcOK(p)'
  BY <1>3, <1>5 DEF ProcOK, Responses
<1> QED
  BY <1>1, <1>2, <1>3, <1>4, <1>6, DecisionsKept, CommandStep DEF doing, Ids

\* A worker writes at most one more fact, and what it forgets of its own is lost.
LEMMA WorkerStep ==
  ASSUME MemoryInv, NEW p \in Procs, proc[p].op = "write",
         NEW doing \in Process, Goto(p, doing), doing.op \in {"write", "idle"},
         TableOK(rows'), Kept(rows, rows'), UNCHANGED <<requests, decisions>>,
         doing.op = "write" => doing.facts \subseteq proc[p].facts \union (Ids' \ Ids),
         lost \subseteq lost',
         \A i \in proc[p].facts \union (Ids' \ Ids) :
             i \in lost' \/ (doing.op = "write" /\ i \in doing.facts)
  PROVE  MemoryInv'
<1>1. /\ proc'[p] = doing /\ proc' \in [Procs -> Process]
      /\ \A q \in Procs \ {p} : proc'[q] = proc[q] /\ ProcOK(q)'
      /\ RequestsOK'
  BY OthersOK
<1>2. ProcOK(p) /\ OwnFacts /\ RequestsOK /\ \A q \in Procs : ProcOK(q)
  BY DEF MemoryInv
<1>3. ProcOK(p)'
  <2>1. doing.op = "write" => \A r \in DOMAIN requests : doing.facts \intersect requests[r] = {}
    BY <1>2 DEF ProcOK, RequestsOK
  <2>2. doing.op = "write" => doing.facts \subseteq Ids'
    BY <1>2 DEF ProcOK, Kept, Ids
  <2> QED
    BY <1>1, <2>1, <2>2 DEF ProcOK, Responses
<1>4. OwnFacts'
  <2>1. ASSUME NEW q \in Procs \ {p}, proc[q].op = "write", doing.op = "write"
        PROVE  doing.facts \intersect proc[q].facts = {}
    BY <1>2, <2>1 DEF OwnFacts, ProcOK
  <2> QED
    BY <1>1, <1>2, <2>1 DEF OwnFacts
<1>5. EveryProposalIsAsked'
  <2> SUFFICES ASSUME NEW i \in Ids', rows'[i].agent
               PROVE  \/ i \in lost'
                      \/ \E q \in Procs : proc'[q].op = "write" /\ i \in proc'[q].facts
                      \/ \E r \in DOMAIN requests :
                             i \in requests[r] /\ \A t \in DOMAIN requests \ {r} : i \notin requests[t]
    BY DEF EveryProposalIsAsked
  <2>1. CASE i \in proc[p].facts \union (Ids' \ Ids)
    BY <1>1, <2>1
  <2>2. CASE i \notin proc[p].facts \union (Ids' \ Ids)
    <3>1. i \in Ids /\ rows[i].agent
      BY <2>2 DEF Kept, Ids
    <3>2. \/ i \in lost
          \/ \E q \in Procs \ {p} : proc[q].op = "write" /\ i \in proc[q].facts
          \/ \E r \in DOMAIN requests :
                 i \in requests[r] /\ \A t \in DOMAIN requests \ {r} : i \notin requests[t]
      BY <2>2, <3>1 DEF MemoryInv, EveryProposalIsAsked
    <3> QED
      BY <1>1, <3>2
  <2> QED
    BY <2>1, <2>2
<1> QED
  BY <1>1, <1>3, <1>4, <1>5, DecisionsKept DEF MemoryInv

LEMMA AgentFact ==
  ASSUME TableOK(rows), rows' = Append(rows, Fact("candidate", 0, TRUE))
  PROVE  /\ TableOK(rows') /\ Kept(rows, rows')
         /\ Ids' = Ids \union {Len(rows')} /\ Len(rows') \notin Ids
         /\ Len(rows') \in Nat
<1> DEFINE f == Fact("candidate", 0, TRUE)
<1>1. /\ f \in Row /\ f.supersedes \in {0} \union Ids /\ f.superseded_by = 0
      /\ f.status \in Correctable /\ f.status = "candidate"
  BY DEF Fact, Row, Correctable
<1> HIDE DEF f
<1>2. /\ TableOK(Append(rows, f)) /\ Kept(rows, Append(rows, f))
      /\ DOMAIN Append(rows, f) = DOMAIN rows \union {Len(rows) + 1}
      /\ Len(Append(rows, f)) = Len(rows) + 1 /\ Len(rows) + 1 \notin DOMAIN rows
  BY <1>1, AppendOK DEF Ids
<1>3. rows' = Append(rows, f) /\ Len(rows) \in Nat
  BY DEF f, TableOK
<1>4. TableOK(rows') /\ Kept(rows, rows')
  BY <1>2, <1>3
<1>5. Len(rows') = Len(rows) + 1
  BY <1>2, <1>3
<1>6. Ids' = Ids \union {Len(rows) + 1} /\ Len(rows) + 1 \notin Ids
  BY <1>2, <1>3 DEF Ids
<1>7. Len(rows') \in Nat
  BY <1>3, <1>5
<1>8. Ids' = Ids \union {Len(rows')} /\ Len(rows') \notin Ids
  BY <1>5, <1>6
<1> QED
  BY <1>4, <1>7, <1>8

LEMMA WorkerWritesInv ==
  ASSUME MemoryInv, NEW p \in Procs, WorkerWrites(p)
  PROVE  MemoryInv'
<1> DEFINE doing == [proc[p] EXCEPT !.left = @ - 1, !.facts = @ \union {Len(rows')}]
<1>1. /\ TableOK(rows) /\ proc[p] \in Process /\ proc[p].op = "write" /\ proc[p].left > 0
      /\ Goto(p, doing) /\ UNCHANGED <<requests, decisions>> /\ UNCHANGED lost
      /\ rows' = Append(rows, Fact("candidate", 0, TRUE))
  BY DEF WorkerWrites, Writing, MemoryInv
<1>2. /\ TableOK(rows') /\ Kept(rows, rows')
      /\ Ids' = Ids \union {Len(rows')} /\ Len(rows') \notin Ids
      /\ Len(rows') \in Nat
  BY <1>1, AgentFact
<1>3. /\ doing \in Process /\ doing.op = "write" /\ doing.facts = proc[p].facts \union {Len(rows')}
  <2>1. proc[p].left - 1 \in Nat /\ proc[p].facts \union {Len(rows')} \in SUBSET Nat
    BY <1>1, <1>2 DEF Process
  <2> QED
    BY <1>1, <2>1 DEF Process
<1> HIDE DEF doing
<1>4. /\ doing.facts \subseteq proc[p].facts \union (Ids' \ Ids)
      /\ \A i \in proc[p].facts \union (Ids' \ Ids) : i \in doing.facts
  BY <1>2, <1>3
<1> QED
  BY <1>1, <1>2, <1>3, <1>4, WorkerStep

LEMMA FactRefusedInv ==
  ASSUME MemoryInv, NEW p \in Procs, FactRefused(p)
  PROVE  MemoryInv'
<1> DEFINE doing == [proc[p] EXCEPT !.left = @ - 1]
<1>1. /\ TableOK(rows) /\ proc[p] \in Process /\ proc[p].op = "write" /\ proc[p].left > 0
      /\ Goto(p, doing) /\ UNCHANGED <<requests, decisions>> /\ UNCHANGED <<rows, lost>>
  BY DEF FactRefused, Writing, MemoryInv
<1>2. TableOK(rows') /\ Kept(rows, rows') /\ Ids' = Ids
  BY <1>1, SameTable DEF Ids
<1>3. doing \in Process /\ doing.op = "write" /\ doing.facts = proc[p].facts
  BY <1>1 DEF Process
<1> HIDE DEF doing
<1> QED
  BY <1>1, <1>2, <1>3, WorkerStep

LEMMA ConnectionFailsInv ==
  ASSUME MemoryInv, NEW p \in Procs, ConnectionFails(p)
  PROVE  MemoryInv'
<1> DEFINE doing == [proc[p] EXCEPT !.left = 0]
<1>1. /\ TableOK(rows) /\ proc[p] \in Process /\ proc[p].op = "write"
      /\ Goto(p, doing) /\ UNCHANGED <<requests, decisions>>
  BY DEF ConnectionFails, Writing, MemoryInv
<1>2. doing \in Process /\ doing.op = "write" /\ doing.facts = proc[p].facts
  BY <1>1 DEF Process
<1> HIDE DEF doing
<1>3. CASE UNCHANGED <<rows, lost>>
  <2>1. TableOK(rows') /\ Kept(rows, rows') /\ Ids' = Ids
    BY <1>1, <1>3, SameTable DEF Ids
  <2> QED
    BY <1>1, <1>2, <1>3, <2>1, WorkerStep
<1>4. CASE /\ rows' = Append(rows, Fact("candidate", 0, TRUE))
           /\ lost' = lost \union {Len(rows')}
  <2>1. /\ TableOK(rows') /\ Kept(rows, rows')
        /\ Ids' = Ids \union {Len(rows')} /\ Len(rows') \notin Ids
    BY <1>1, <1>4, AgentFact
  <2> QED
    BY <1>1, <1>2, <1>4, <2>1, WorkerStep
<1> QED
  BY <1>3, <1>4 DEF ConnectionFails

LEMMA KillInv ==
  ASSUME MemoryInv, NEW p \in Procs, Kill(p)
  PROVE  MemoryInv'
<1>1. TableOK(rows) /\ Goto(p, Idle) /\ UNCHANGED <<rows, requests, decisions>>
  BY DEF Kill, MemoryInv
<1>2. TableOK(rows') /\ Kept(rows, rows') /\ Ids' = Ids
  BY <1>1, SameTable DEF Ids
<1>3. Idle \in Process /\ Idle.op = "idle"
  BY DEF Idle, Process, Correctable
<1>4. CASE proc[p].op = "write"
  <2>1. lost' = lost \union proc[p].facts
    BY <1>4 DEF Kill
  <2> QED
    BY <1>1, <1>2, <1>3, <1>4, <2>1, WorkerStep
<1>5. CASE proc[p].op # "write"
  <2>1. ProcOK(p)' /\ UNCHANGED lost
    BY <1>1, <1>2, <1>5, OthersOK, IdleOK DEF Kill
  <2> QED
    BY <1>1, <1>2, <1>3, <1>5, <2>1, DecisionsKept, CommandStep
<1> QED
  BY <1>4, <1>5

LEMMA WorkerAsksInv ==
  ASSUME MemoryInv, NEW p \in Procs, WorkerAsks(p)
  PROVE  MemoryInv'
<1> DEFINE mine == proc[p].facts
           n == Len(requests) + 1
<1>1. /\ TableOK(rows) /\ ProcOK(p) /\ RequestsOK /\ proc[p].op = "write"
      /\ Goto(p, Idle) /\ UNCHANGED <<rows, decisions, lost>>
  BY DEF WorkerAsks, MemoryInv
<1>2. TableOK(rows') /\ Kept(rows, rows') /\ Ids' = Ids
  BY <1>1, SameTable DEF Ids
<1>3. Idle \in Process /\ Idle.op = "idle"
  BY DEF Idle, Process, Correctable
<1>4. CASE mine = {}
  <2>1. UNCHANGED <<requests, decisions>> /\ lost \subseteq lost'
    BY <1>1, <1>4 DEF WorkerAsks
  <2> QED
    BY <1>1, <1>2, <1>3, <1>4, <2>1, WorkerStep
<1>5. CASE mine # {}
  <2>1. mine \in SUBSET Nat /\ mine \subseteq Ids
    BY <1>1 DEF ProcOK, Process
  <2>2. requests' = Append(requests, mine) /\ requests \in Seq(SUBSET Nat)
    BY <1>1, <1>5 DEF WorkerAsks, RequestsOK
  <2> HIDE DEF mine
  <2>3. /\ requests' \in Seq(SUBSET Nat)
        /\ DOMAIN requests' = DOMAIN requests \union {n} /\ n \notin DOMAIN requests
        /\ \A r \in DOMAIN requests : requests'[r] = requests[r]
        /\ requests'[n] = mine
    BY <2>1, <2>2
  <2> HIDE DEF n
  <2>4. \A r \in DOMAIN requests : mine \intersect requests[r] = {}
    BY <1>1 DEF ProcOK, mine
  <2>5. RequestsOK'
    BY <1>1, <1>2, <2>1, <2>3, <2>4 DEF RequestsOK
  <2>6. proc'[p] = Idle /\ proc' \in [Procs -> Process] /\ \A q \in Procs \ {p} : proc'[q] = proc[q]
    BY <1>1, <1>3 DEF Goto, MemoryInv
  <2>7. \A q \in Procs : ProcOK(q)'
    <3> SUFFICES ASSUME NEW q \in Procs, q # p
                 PROVE  ProcOK(q)'
      BY <2>6, IdleOK
    <3>1. ProcOK(q) /\ proc'[q] = proc[q]
      BY <2>6 DEF MemoryInv
    <3>2. proc[q].op = "write" => proc[q].facts \intersect mine = {}
      BY <1>1 DEF MemoryInv, OwnFacts, mine
    <3>3. \A response, i : Done(response, i)' <=> Done(response, i)
      BY <1>1 DEF Done
    <3> QED
      BY <1>2, <2>3, <3>1, <3>2, <3>3 DEF ProcOK
  <2>8. DecisionsOK'
    BY <1>1, <2>3 DEF MemoryInv, DecisionsOK, Done
  <2>9. OwnFacts'
    BY <1>3, <2>6 DEF MemoryInv, OwnFacts
  <2>10. EveryProposalIsAsked'
    <3> SUFFICES ASSUME NEW i \in Ids, rows[i].agent
                 PROVE  \/ i \in lost
                        \/ \E q \in Procs : proc'[q].op = "write" /\ i \in proc'[q].facts
                        \/ \E r \in DOMAIN requests' :
                               /\ i \in requests'[r]
                               /\ \A t \in DOMAIN requests' \ {r} : i \notin requests'[t]
      BY <1>1 DEF EveryProposalIsAsked, Ids
    <3>1. CASE i \in mine
      <4>1. \A t \in DOMAIN requests' \ {n} : i \notin requests'[t]
        BY <2>3, <2>4, <3>1
      <4> QED
        BY <2>3, <3>1, <4>1
    <3>2. CASE i \notin mine
      <4>1. \/ i \in lost
            \/ \E q \in Procs \ {p} : proc[q].op = "write" /\ i \in proc[q].facts
            \/ \E r \in DOMAIN requests :
                   i \in requests[r] /\ \A t \in DOMAIN requests \ {r} : i \notin requests[t]
        BY <3>2 DEF MemoryInv, EveryProposalIsAsked, mine
      <4>2. CASE \E r \in DOMAIN requests :
                     i \in requests[r] /\ \A t \in DOMAIN requests \ {r} : i \notin requests[t]
        BY <2>3, <3>2, <4>2
      <4> QED
        BY <2>6, <4>1, <4>2
    <3> QED
      BY <3>1, <3>2
  <2> QED
    BY <1>2, <2>5, <2>6, <2>7, <2>8, <2>9, <2>10 DEF MemoryInv
<1> QED
  BY <1>4, <1>5

-----------------------------------------------------------------------------
LEMMA MemoryInitInv == Init => MemoryInv
<1> SUFFICES ASSUME Init PROVE MemoryInv
  OBVIOUS
<1>1. rows = <<>> /\ requests = <<>> /\ decisions = {} /\ proc = [p \in Procs |-> Idle]
  BY DEF Init
<1>2. TableOK(rows) /\ Ids = {}
  BY <1>1 DEF TableOK, Ids
<1>3. Idle \in Process /\ Idle.op = "idle"
  BY DEF Idle, Process, Correctable
<1>4. proc \in [Procs -> Process] /\ \A p \in Procs : ProcOK(p)
  BY <1>1, <1>3 DEF ProcOK, Responses
<1>5. RequestsOK /\ DecisionsOK
  BY <1>1 DEF RequestsOK, DecisionsOK
<1>6. OwnFacts
  BY <1>1, <1>3 DEF OwnFacts
<1> QED
  BY <1>2, <1>4, <1>5, <1>6 DEF MemoryInv, EveryProposalIsAsked

LEMMA MemoryNextInv == MemoryInv /\ [Next]_vars => MemoryInv'
<1> SUFFICES ASSUME MemoryInv, [Next]_vars PROVE MemoryInv'
  OBVIOUS
<1>1. CASE UNCHANGED vars
  BY <1>1 DEF vars, MemoryInv, TableOK, ProcOK, RequestsOK, DecisionsOK, OwnFacts,
              EveryProposalIsAsked, Done, Ids
<1>2. CASE Next
  <2>1. PICK p \in Procs : Person(p) \/ Worker(p) \/ Kill(p)
    BY <1>2 DEF Next
  <2>2. CASE Person(p)
    BY <2>2, RememberReadsInv, RememberWritesInv, PromoteReadsInv, PromoteWritesInv, ForgetInv,
       DecideReadsInv, ApproveReadsInv, ApproveWritesInv, RejectOneInv, DecideEndsInv DEF Person
  <2>3. CASE Worker(p)
    BY <2>3, WorkerStartsInv, WorkerWritesInv, FactRefusedInv, ConnectionFailsInv, WorkerAsksInv
       DEF Worker
  <2>4. CASE Kill(p)
    BY <2>4, KillInv
  <2> QED
    BY <2>1, <2>2, <2>3, <2>4
<1> QED
  BY <1>1, <1>2

\* The inductive invariant: the links of the table lead where they should, no row forgets its
\* past, and what each process carries from its last look is still true in that weaker form.
THEOREM MemoryInvariant == Spec => []MemoryInv
<1> QED
  BY MemoryInitInv, MemoryNextInv, PTL DEF Spec

\* No fact goes before the one that corrects it has been promoted (_supersede), for any number
\* of commands and facts.
THEOREM CorrectionsWait == Spec => []CorrectionWaits
<1>1. MemoryInv => CorrectionWaits
  BY DEF MemoryInv, TableOK, CorrectionWaits, Ids
<1> QED
  BY <1>1, MemoryInvariant, PTL

\* Every decision on file was carried out on all facts of its request (decide).
THEOREM DecisionsAreCarriedOut == Spec => []DecisionsTakeEffect
<1>1. MemoryInv => DecisionsTakeEffect
  BY DEF MemoryInv, DecisionsOK, DecisionsTakeEffect, Done
<1> QED
  BY <1>1, MemoryInvariant, PTL

\* Every fact of an agent is in exactly one request, about to be, or of a worker that was cut
\* off (write_memories, request_promotion).
THEOREM ProposalsAreAsked == Spec => []EveryProposalIsAsked
<1>1. MemoryInv => EveryProposalIsAsked
  BY DEF MemoryInv
<1> QED
  BY <1>1, MemoryInvariant, PTL

=============================================================================
