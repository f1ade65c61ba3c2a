------------------------------- MODULE MemoryL4 -------------------------------
(***************************************************************************)
(* The semantic memory (memory_l4.py): one table of facts of one scope,     *)
(* written by the workers of runs (memory_wiring.write_memories) and by the *)
(* commands a person gives, and the requests and decisions about promotion  *)
(* kept in files beside a run.                                              *)
(*                                                                         *)
(* Every command and every worker is a process with a connection of its     *)
(* own.  A statement of SQL, or the statements up to a commit, is one step; *)
(* what was read before it may be stale (READ COMMITTED, no row is locked   *)
(* by a SELECT).  A process may be killed, or lose its connection, between  *)
(* any two steps.                                                           *)
(*                                                                         *)
(* A fact is its place in the table.  What it says never changes (trigger   *)
(* memory_l4_guard_update) and no row is deleted, so a row is its status,   *)
(* its two links and whether it was ever promoted or archived.              *)
(***************************************************************************)
EXTENDS Integers, Sequences, FiniteSets

CONSTANTS
    Procs,      \* commands and workers that may run at the same time
    MaxRows,    \* bound: facts ever written
    MaxFacts,   \* bound: facts a step proposes
    MaxLost     \* bound: facts whose writer was cut off before it asked about them

ASSUME MemoryAssumption == MaxRows \in Nat /\ MaxFacts \in Nat /\ MaxLost \in Nat

VARIABLES
    rows,       \* memory_l4, in the order of the inserts
    requests,   \* memory_ids of each promotion request, in the order of the file
    decisions,  \* the decisions file: request and response
    proc,       \* what each process is doing
    lost        \* facts of agents whose writer was cut off before it asked

vars == <<rows, requests, decisions, proc, lost>>

Ids == DOMAIN rows
Responses == {"approve", "reject"}
Correctable == {"candidate", "active"}

\* The status is the one INSERT gives; a fact written active was promoted by its author.
Fact(status, old, agent) ==
    [status |-> status, supersedes |-> old, superseded_by |-> 0,
     promoted |-> status = "active", archived |-> FALSE, agent |-> agent]

\* A process: its operation, and as far as the operation has them the status and the fact it
\* is about (0: none yet), the request it decides, the facts it has left to decide or has
\* written, and how many it has left to write.
Idle == [op |-> "idle", status |-> "candidate", fact |-> 0, request |-> 0, facts |-> {}, left |-> 0]

Goto(p, doing) == proc' = [proc EXCEPT ![p] = doing]

\* UPDATE ... SET status = 'superseded' WHERE id = old AND status IN ('candidate', 'active').
Supersede(table, old, new) ==
    IF old # 0 /\ table[old].status \in Correctable
    THEN [table EXCEPT ![old].status = "superseded", ![old].superseded_by = new]
    ELSE table

\* The table when promote has written: the fact, and with it what it corrects.
Promoted(i) ==
    Supersede([rows EXCEPT ![i].status = "active", ![i].promoted = TRUE], rows[i].supersedes, i)

\* The table when forget has written; a fact that is archived already stays as it is.
Archived(i) == [rows EXCEPT ![i].status = "archived", ![i].archived = TRUE]

Init ==
    /\ rows = <<>> /\ requests = <<>> /\ decisions = {} /\ lost = {}
    /\ proc = [p \in Procs |-> Idle]

-----------------------------------------------------------------------------
(* Commands of a person *)

\* remember looks the old fact up; it refuses one that is archived or superseded.
RememberReads(p) ==
    /\ proc[p].op = "idle" /\ Len(rows) < MaxRows
    /\ \E status \in Correctable, old \in {0} \union {i \in Ids : rows[i].status \in Correctable} :
           Goto(p, [Idle EXCEPT !.op = "remember", !.status = status, !.fact = old])
    /\ UNCHANGED <<rows, requests, decisions, lost>>

\* Mutant: the old fact goes as soon as the new one is written.
RememberSupersedes(p) ==
    /\ proc[p].op = "remember" /\ Len(rows) < MaxRows
    /\ LET new == Append(rows, Fact(proc[p].status, proc[p].fact, FALSE))
       IN rows' = Supersede(new, proc[p].fact, Len(new))
    /\ Goto(p, Idle)
    /\ UNCHANGED <<requests, decisions, lost>>

\* The insert, and for a fact that is active at once its correction, in one commit.
RememberWrites(p) ==
    /\ proc[p].op = "remember" /\ Len(rows) < MaxRows
    /\ LET status == proc[p].status
           old == proc[p].fact
           new == Append(rows, Fact(status, old, FALSE))
       IN rows' = IF status = "active" THEN Supersede(new, old, Len(new)) ELSE new
    /\ Goto(p, Idle)
    /\ UNCHANGED <<requests, decisions, lost>>

\* promote looks the fact up: an active one is returned as it is, of the others only a
\* candidate can be promoted.  What follows the look does not ask again.
PromoteReads(p) ==
    /\ proc[p].op = "idle"
    /\ \E i \in Ids :
           /\ rows[i].status = "candidate"
           /\ Goto(p, [Idle EXCEPT !.op = "promote", !.fact = i])
    /\ UNCHANGED <<rows, requests, decisions, lost>>

PromoteWrites(p) ==
    /\ proc[p].op = "promote"
    /\ rows' = Promoted(proc[p].fact)
    /\ Goto(p, Idle)
    /\ UNCHANGED <<requests, decisions, lost>>

Forget(p) ==
    /\ proc[p].op = "idle"
    /\ \E i \in Ids : rows' = Archived(i)
    /\ UNCHANGED <<requests, decisions, proc, lost>>

-----------------------------------------------------------------------------
(* decide: a person answers a request *)

Undecided == {r \in DOMAIN requests : \A d \in decisions : d.request # r}

DecideReads(p) ==
    /\ proc[p].op = "idle"
    /\ \E r \in Undecided, response \in Responses :
           Goto(p, [Idle EXCEPT !.op = response, !.request = r, !.facts = requests[r]])
    /\ UNCHANGED <<rows, requests, decisions, lost>>

\* The fact whose turn it is: they are taken in the order they were written.
Turn(p, i) == i \in proc[p].facts /\ \A j \in proc[p].facts : i <= j

\* What is left of a request when the fact i is through.
Through(p, i) == [proc[p] EXCEPT !.facts = @ \ {i}, !.fact = 0]

\* Mutant: a fact that cannot be promoted is passed over.
ApproveGoesOn(p) ==
    /\ proc[p].op = "approve" /\ proc[p].fact = 0
    /\ \E i \in Ids :
           /\ Turn(p, i)
           /\ \/ rows[i].status # "candidate" /\ Goto(p, Through(p, i))
              \/ rows[i].status = "candidate" /\ Goto(p, [proc[p] EXCEPT !.fact = i])
    /\ UNCHANGED <<rows, requests, decisions, lost>>

\* approve, the look of promote: an active fact needs nothing, a candidate is promoted next.
\* Of any other promote raises, and decide with it: the rest of the request and the decision
\* are left out.
ApproveReads(p) ==
    /\ proc[p].op = "approve" /\ proc[p].fact = 0
    /\ \E i \in Ids :
           /\ Turn(p, i)
           /\ \/ rows[i].status = "active" /\ Goto(p, Through(p, i))
              \/ rows[i].status = "candidate" /\ Goto(p, [proc[p] EXCEPT !.fact = i])
              \/ rows[i].status \notin Correctable /\ Goto(p, Idle)
    /\ UNCHANGED <<rows, requests, decisions, lost>>

ApproveWrites(p) ==
    /\ proc[p].op = "approve" /\ proc[p].fact # 0
    /\ rows' = Promoted(proc[p].fact)
    /\ Goto(p, Through(p, proc[p].fact))
    /\ UNCHANGED <<requests, decisions, lost>>

RejectOne(p) ==
    /\ proc[p].op = "reject"
    /\ \E i \in Ids : Turn(p, i) /\ rows' = Archived(i) /\ Goto(p, Through(p, i))
    /\ UNCHANGED <<requests, decisions, lost>>

\* The decision is recorded when all facts of the request have been through.
DecideEnds(p) ==
    /\ proc[p].op \in Responses /\ proc[p].facts = {}
    /\ decisions' = decisions \union {[request |-> proc[p].request, response |-> proc[p].op]}
    /\ Goto(p, Idle)
    /\ UNCHANGED <<rows, requests, lost>>

-----------------------------------------------------------------------------
(* The worker of a step that proposed facts *)

\* The facts beyond the step's maximum are left out before anything is written.
WorkerStarts(p) ==
    /\ proc[p].op = "idle"
    /\ \E n \in 1 .. MaxFacts : Goto(p, [Idle EXCEPT !.op = "write", !.left = n])
    /\ UNCHANGED <<rows, requests, decisions, lost>>

Writing(p) == proc[p].op = "write" /\ proc[p].left > 0

\* An agent writes candidates only, and corrects nothing.
WorkerWrites(p) ==
    /\ Writing(p) /\ Len(rows) < MaxRows
    /\ rows' = Append(rows, Fact("candidate", 0, TRUE))
    /\ Goto(p, [proc[p] EXCEPT !.left = @ - 1, !.facts = @ \union {Len(rows')}])
    /\ UNCHANGED <<requests, decisions, lost>>

\* L4Error: the next fact is tried.
FactRefused(p) ==
    /\ Writing(p)
    /\ Goto(p, [proc[p] EXCEPT !.left = @ - 1])
    /\ UNCHANGED <<rows, requests, decisions, lost>>

\* Mutant: a failure leaves write_memories, and what was written before it is not asked about.
ConnectionFailsOut(p) ==
    /\ Writing(p)
    /\ Goto(p, Idle)
    /\ UNCHANGED <<rows, requests, decisions, lost>>

\* Any other exception ends the loop.  What failed may be the answer to a commit: then the
\* fact is in the table and the worker does not know.
ConnectionFails(p) ==
    /\ Writing(p)
    /\ Goto(p, [proc[p] EXCEPT !.left = 0])
    /\ \/ UNCHANGED <<rows, lost>>
       \/ /\ Len(rows) < MaxRows /\ Cardinality(lost) < MaxLost
          /\ rows' = Append(rows, Fact("candidate", 0, TRUE))
          /\ lost' = lost \union {Len(rows')}
    /\ UNCHANGED <<requests, decisions>>

\* request_promotion: one request for all facts written, none for nothing.
WorkerAsks(p) ==
    /\ proc[p].op = "write" /\ proc[p].left = 0
    /\ requests' = IF proc[p].facts = {} THEN requests ELSE Append(requests, proc[p].facts)
    /\ Goto(p, Idle)
    /\ UNCHANGED <<rows, decisions, lost>>

-----------------------------------------------------------------------------
\* Killed, or an exception of the driver in a person's command.
Kill(p) ==
    /\ proc[p].op # "idle"
    /\ lost' = IF proc[p].op = "write" THEN lost \union proc[p].facts ELSE lost
    /\ Cardinality(lost') <= MaxLost
    /\ Goto(p, Idle)
    /\ UNCHANGED <<rows, requests, decisions>>

Person(p) ==
    \/ RememberReads(p) \/ RememberWrites(p)
    \/ PromoteReads(p) \/ PromoteWrites(p)
    \/ Forget(p)
    \/ DecideReads(p) \/ ApproveReads(p) \/ ApproveWrites(p) \/ RejectOne(p) \/ DecideEnds(p)

Worker(p) == WorkerStarts(p) \/ WorkerWrites(p) \/ FactRefused(p) \/ ConnectionFails(p) \/ WorkerAsks(p)

Next == \E p \in Procs : Person(p) \/ Worker(p) \/ Kill(p)

Spec == Init /\ [][Next]_vars

-----------------------------------------------------------------------------
(* Properties *)

\* A fact is superseded only by one that says it corrects it and that a person has promoted,
\* however the promotions of several corrections, kills and stale looks fall together.
CorrectionWaits ==
    \A i \in Ids : rows[i].status = "superseded" =>
        /\ rows[i].superseded_by \in Ids
        /\ LET new == rows[rows[i].superseded_by] IN new.supersedes = i /\ new.promoted

\* A decision on file was carried out: every fact of an approved request was promoted and of
\* a rejected one archived, also when other commands worked on the same facts and when an
\* earlier attempt to decide was cut off in the middle.
DecisionsTakeEffect ==
    \A d \in decisions : \A i \in requests[d.request] :
        IF d.response = "approve" THEN rows[i].promoted ELSE rows[i].archived

\* Nothing an agent wrote is forgotten in the queue: each of its facts is in exactly one
\* request, or its worker is still going to ask, or was cut off.
EveryProposalIsAsked ==
    \A i \in Ids : rows[i].agent =>
        \/ i \in lost
        \/ \E p \in Procs : proc[p].op = "write" /\ i \in proc[p].facts
        \/ \E r \in DOMAIN requests :
               i \in requests[r] /\ \A s \in DOMAIN requests \ {r} : i \notin requests[s]

=============================================================================
