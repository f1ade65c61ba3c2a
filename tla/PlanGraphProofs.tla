--------------------------- MODULE PlanGraphProofs ---------------------------
(***************************************************************************)
(* What the search and the queue of graph.py do to a plan of any length,     *)
(* with any ids and dependencies.  IInv follows the search (a step on the    *)
(* call stack leads to every step above it, a finished step is on no cycle)  *)
(* and the queue (an in-degree is what the steps ordered so far leave of     *)
(* depends_on), which is what the properties of PlanGraph rest on.  PolicyInv *)
(* adds the rules of PlanPolicy, and what they promise of the order that a   *)
(* run walks.  RouterInv adds what the router has decided, and that a plan   *)
(* of its own depends on earlier steps alone and ends in its approval.       *)
(***************************************************************************)
EXTENDS Router, FiniteSetTheorems, FunctionTheorems, WellFoundedInduction, TLAPS

USE GraphAssumption

-----------------------------------------------------------------------------
(* Facts about the data *)

\* A list holds at most as many things as it has entries, and as many if it repeats none.
LEMMA SeqSet ==
  ASSUME NEW S, NEW s \in Seq(S)
  PROVE  /\ IsFiniteSet(ToSet(s)) /\ Cardinality(ToSet(s)) \in Nat
         /\ Cardinality(ToSet(s)) <= Len(s)
         /\ Cardinality(ToSet(s)) = Len(s) <=>
                \A i, j \in 1 .. Len(s) : s[i] = s[j] => i = j
<1> DEFINE I == 1 .. Len(s)
<1> DEFINE f == [i \in I |-> s[i]]
<1>1. Len(s) \in Nat /\ DOMAIN s = I
  OBVIOUS
<1>2. IsFiniteSet(I) /\ Cardinality(I) = Len(s)
  BY <1>1, FS_Interval
<1>3. f \in Surjection(I, ToSet(s))
  BY <1>1 DEF Surjection, ToSet
<1>4. /\ IsFiniteSet(ToSet(s)) /\ Cardinality(ToSet(s)) <= Len(s)
      /\ Cardinality(ToSet(s)) = Len(s) <=> f \in Injection(I, ToSet(s))
  BY <1>2, <1>3, FS_Surjection
<1>5. f \in Injection(I, ToSet(s)) <=> \A i, j \in I : s[i] = s[j] => i = j
  BY <1>1 DEF Injection, IsInjective, ToSet
<1> QED
  BY <1>4, <1>5, FS_CardinalityType

LEMMA SeqEntry ==
  ASSUME NEW S, NEW s \in Seq(S), NEW k \in 1 .. Len(s)
  PROVE  s[k] \in S
OBVIOUS

LEMMA SeqAppend ==
  ASSUME NEW S, NEW s \in Seq(S), NEW e \in S
  PROVE  /\ Append(s, e) \in Seq(S) /\ Len(Append(s, e)) = Len(s) + 1
         /\ ToSet(Append(s, e)) = ToSet(s) \union {e}
         /\ \A k \in 1 .. Len(s) : Append(s, e)[k] = s[k]
         /\ Append(s, e)[Len(s) + 1] = e
<1>1. /\ Append(s, e) \in Seq(S) /\ Len(Append(s, e)) = Len(s) + 1
      /\ \A k \in 1 .. Len(s) : Append(s, e)[k] = s[k]
      /\ Append(s, e)[Len(s) + 1] = e
  OBVIOUS
<1>2. DOMAIN s = 1 .. Len(s) /\ DOMAIN Append(s, e) = 1 .. Len(s) + 1 /\ Len(s) \in Nat
  OBVIOUS
<1>3. ToSet(Append(s, e)) = ToSet(s) \union {e}
  <2>1. ASSUME NEW x \in ToSet(Append(s, e)) PROVE x \in ToSet(s) \union {e}
    <3>1. PICK k \in 1 .. Len(s) + 1 : x = Append(s, e)[k]
      BY <1>2 DEF ToSet
    <3> QED
      BY <1>1, <1>2, <3>1 DEF ToSet
  <2>2. ASSUME NEW x \in ToSet(s) PROVE x \in ToSet(Append(s, e))
    <3>1. PICK k \in 1 .. Len(s) : x = s[k]
      BY <1>2 DEF ToSet
    <3> QED
      BY <1>1, <1>2, <3>1 DEF ToSet
  <2>3. e \in ToSet(Append(s, e))
    BY <1>1, <1>2 DEF ToSet
  <2> QED
    BY <2>1, <2>2, <2>3
<1> QED
  BY <1>1, <1>3

LEMMA SeqFront ==
  ASSUME NEW S, NEW s \in Seq(S), s # <<>>
  PROVE  /\ Front(s) \in Seq(S) /\ Len(Front(s)) = Len(s) - 1
         /\ \A k \in 1 .. Len(s) - 1 : Front(s)[k] = s[k]
<1> SUFFICES ASSUME NEW n \in Nat, n = Len(s) - 1
             PROVE  /\ SubSeq(s, 1, n) \in Seq(S) /\ Len(SubSeq(s, 1, n)) = n
                    /\ \A k \in 1 .. n : SubSeq(s, 1, n)[k] = s[k]
  <2>1. Len(s) - 1 \in Nat
    OBVIOUS
  <2> QED
    BY <2>1 DEF Front
<1>1. n <= Len(s)
  OBVIOUS
<1>2. SubSeq(s, 1, n) \in Seq(S)
  BY <1>1
<1>3. Len(SubSeq(s, 1, n)) = n
  BY <1>1
<1>4. \A k \in 1 .. n : SubSeq(s, 1, n)[k] = s[k]
  BY <1>1
<1> QED
  BY <1>2, <1>3, <1>4

LEMMA SeqTail ==
  ASSUME NEW S, NEW s \in Seq(S), s # <<>>
  PROVE  /\ Tail(s) \in Seq(S) /\ Head(s) \in S /\ Head(s) \in ToSet(s)
         /\ ToSet(Tail(s)) \subseteq ToSet(s)
         /\ ToSet(s) = ToSet(Tail(s)) \union {Head(s)}
<1>1. /\ Len(s) \in Nat /\ Len(s) >= 1 /\ DOMAIN s = 1 .. Len(s) /\ Head(s) = s[1]
      /\ Tail(s) \in Seq(S) /\ Len(Tail(s)) = Len(s) - 1 /\ DOMAIN Tail(s) = 1 .. Len(s) - 1
      /\ \A k \in 1 .. Len(s) - 1 : Tail(s)[k] = s[k + 1]
  OBVIOUS
<1>2. \A k \in 1 .. Len(s) : k = 1 \/ k - 1 \in 1 .. Len(s) - 1
  BY <1>1
<1>3. \A k \in 1 .. Len(s) - 1 : k + 1 \in 1 .. Len(s)
  BY <1>1
<1>4. \A x \in ToSet(Tail(s)) : x \in ToSet(s)
  BY <1>1, <1>3 DEF ToSet
<1>5. ASSUME NEW x \in ToSet(s), x # Head(s) PROVE x \in ToSet(Tail(s))
  <2>1. PICK k \in 1 .. Len(s) : x = s[k]
    BY <1>1 DEF ToSet
  <2>2. k - 1 \in 1 .. Len(s) - 1 /\ Tail(s)[k - 1] = s[k]
    BY <1>1, <1>2, <1>5, <2>1
  <2> QED
    BY <1>1, <2>1, <2>2 DEF ToSet
<1>6. Head(s) \in ToSet(s) /\ Head(s) \in S
  BY <1>1 DEF ToSet
<1> QED
  BY <1>1, <1>4, <1>5, <1>6

-----------------------------------------------------------------------------
(* The plan *)

Shape == ids \in Seq(Ids) /\ deps \in [Places -> Seq(Ids)]
Unique == \A i, j \in Places : ids[i] = ids[j] => i = j
Known == \A i \in Places : ToSet(deps[i]) \subseteq StepIds

\* What CheckIds establishes.
Sound == Shape /\ Unique /\ Known

LEMMA PlaceOfId ==
  ASSUME Shape, NEW sid \in StepIds
  PROVE  PlaceOf(sid) \in Places /\ ids[PlaceOf(sid)] = sid
<1>1. \E i \in Places : ids[i] = sid
  BY DEF StepIds, ToSet, Places, Shape
<1> QED
  BY <1>1 DEF PlaceOf

LEMMA PlaceOfPlace ==
  ASSUME Sound, NEW i \in Places
  PROVE  ids[i] \in StepIds /\ PlaceOf(ids[i]) = i
<1>1. ids[i] \in StepIds
  BY DEF StepIds, ToSet, Places, Sound, Shape
<1> QED
  BY <1>1, PlaceOfId DEF Sound, Unique

\* Direct in terms of ids.
LEMMA DirectId ==
  ASSUME Sound, NEW i \in Places, NEW sid \in ToSet(deps[i])
  PROVE  sid \in StepIds /\ PlaceOf(sid) \in Direct(i)
<1>1. sid \in StepIds
  BY DEF Sound, Known
<1> QED
  BY <1>1, PlaceOfId DEF Direct, Needs, Sound

LEMMA AncestorsHold ==
  ASSUME NEW i \in Places
  PROVE  /\ Ancestors(i) \subseteq Places /\ Direct(i) \subseteq Ancestors(i)
         /\ \A k \in Ancestors(i) : Direct(k) \subseteq Ancestors(i)
BY DEF Ancestors, Direct

LEMMA AncestorsLeast ==
  ASSUME NEW i \in Places, NEW S \in SUBSET Places,
         Direct(i) \subseteq S, \A k \in S : Direct(k) \subseteq S
  PROVE  Ancestors(i) \subseteq S
BY DEF Ancestors

LEMMA AncestorsOfAncestor ==
  ASSUME NEW i \in Places, NEW k \in Ancestors(i)
  PROVE  k \in Places /\ Ancestors(k) \subseteq Ancestors(i)
<1>1. k \in Places /\ Ancestors(i) \in SUBSET Places
  BY AncestorsHold
<1>2. Direct(k) \subseteq Ancestors(i) /\ \A j \in Ancestors(i) : Direct(j) \subseteq Ancestors(i)
  BY AncestorsHold
<1> QED
  BY <1>1, <1>2, AncestorsLeast

-----------------------------------------------------------------------------
(* The search *)

\* The call stack st with rt roots begun, the ids in vis open and those in dn finished;
\* called holds the id a call is about to be made for.
Search(st, rt, vis, dn, called) ==
    /\ st \in Seq([sid : StepIds, next : Nat \ {0}])
    /\ rt \in 0 .. Len(ids)
    /\ vis = {st[k].sid : k \in 1 .. Len(st)}
    /\ dn \subseteq StepIds /\ dn \cap vis = {}
    /\ \A k, l \in 1 .. Len(st) : st[k].sid = st[l].sid => k = l
    /\ \A k, l \in 1 .. Len(st) : k < l => PlaceOf(st[l].sid) \in Ancestors(PlaceOf(st[k].sid))
    /\ \A k \in 1 .. Len(st) : \A n \in DOMAIN deps[PlaceOf(st[k].sid)] :
           n < st[k].next =>
               \/ deps[PlaceOf(st[k].sid)][n] \in dn
               \/ k < Len(st) /\ deps[PlaceOf(st[k].sid)][n] = st[k + 1].sid
               \/ k = Len(st) /\ deps[PlaceOf(st[k].sid)][n] \in called
    /\ \A i \in Places : ids[i] \in dn => ToSet(deps[i]) \subseteq dn /\ i \notin Ancestors(i)
    /\ \A i \in 1 .. rt :
           \/ ids[i] \in dn
           \/ st # <<>> /\ ids[i] = st[1].sid
           \/ st = <<>> /\ ids[i] \in called

LEMMA CallOfStack ==
  ASSUME NEW st, NEW rt, NEW vis, NEW dn, NEW called, Search(st, rt, vis, dn, called),
         NEW k \in 1 .. Len(st)
  PROVE  st[k] \in [sid : StepIds, next : Nat \ {0}] /\ st[k].sid \in StepIds /\ st[k].next \in Nat \ {0}
<1> DEFINE F == [sid : StepIds, next : Nat \ {0}]
<1>1. st \in Seq(F)
  BY DEF Search
<1>2. st[k] \in F
  <2> HIDE DEF F
  <2> QED
    BY <1>1, SeqEntry
<1> QED
  BY <1>2

\* A call for a finished id returns at once.
LEMMA EnterDone ==
  ASSUME NEW st, NEW rt, NEW vis, NEW dn, NEW sid, Search(st, rt, vis, dn, {sid}), sid \in dn
  PROVE  Search(st, rt, vis, dn, {})
BY DEF Search

\* A call for an open id closes a cycle.
LEMMA EnterOpen ==
  ASSUME Sound, NEW st, NEW rt, NEW vis, NEW dn, NEW sid \in StepIds,
         Search(st, rt, vis, dn, {sid}), sid \in vis,
         st # <<>> => PlaceOf(sid) \in Direct(PlaceOf(st[Len(st)].sid))
  PROVE  HasCycle
<1>1. PICK k \in 1 .. Len(st) : sid = st[k].sid
  BY DEF Search
<1>2. Len(st) \in Nat /\ Len(st) \in 1 .. Len(st) /\ st # <<>>
  BY <1>1 DEF Search
<1> DEFINE top == PlaceOf(st[Len(st)].sid)
<1>3. st[Len(st)].sid \in StepIds
  BY <1>2, CallOfStack
<1>4. top \in Places /\ PlaceOf(sid) \in Places
  BY <1>3, PlaceOfId DEF Sound
<1>5. PlaceOf(sid) \in Ancestors(top)
  BY <1>2, <1>4, AncestorsHold
<1>6. top = PlaceOf(sid) \/ top \in Ancestors(PlaceOf(sid))
  BY <1>1, <1>2 DEF Search
<1>7. PlaceOf(sid) \in Ancestors(PlaceOf(sid))
  BY <1>4, <1>5, <1>6, AncestorsOfAncestor
<1> QED
  BY <1>4, <1>7 DEF HasCycle

\* Any other call opens the id.
LEMMA EnterNew ==
  ASSUME Sound, NEW st, NEW rt, NEW vis, NEW dn, NEW sid \in StepIds,
         Search(st, rt, vis, dn, {sid}), sid \notin dn \union vis,
         st # <<>> => PlaceOf(sid) \in Direct(PlaceOf(st[Len(st)].sid))
  PROVE  Search(Append(st, [sid |-> sid, next |-> 1]), rt, vis \union {sid}, dn, {})
<1> DEFINE F == [sid : StepIds, next : Nat \ {0}]
<1> DEFINE e == [sid |-> sid, next |-> 1]
<1> DEFINE t == Append(st, e)
<1> DEFINE n == Len(st)
<1>1. st \in Seq(F) /\ e \in F /\ n \in Nat
  BY DEF Search
<1>2. /\ t \in Seq(F) /\ Len(t) = n + 1
      /\ \A k \in 1 .. n : t[k] = st[k]
      /\ t[n + 1] = e
  BY <1>1, SeqAppend
<1> HIDE DEF t
<1>3. \A k \in 1 .. n + 1 : k \in 1 .. n \/ k = n + 1
  BY <1>1
<1>4. vis \union {sid} = {t[k].sid : k \in 1 .. Len(t)}
  <2>1. vis = {st[k].sid : k \in 1 .. n}
    BY DEF Search
  <2>2. ASSUME NEW x \in vis PROVE \E k \in 1 .. n + 1 : x = t[k].sid
    <3>1. PICK k \in 1 .. n : x = st[k].sid
      BY <2>1
    <3>2. k \in 1 .. n + 1 /\ x = t[k].sid
      BY <1>1, <1>2, <3>1
    <3> QED
      BY <3>2
  <2>3. sid = t[n + 1].sid /\ n + 1 \in 1 .. n + 1
    BY <1>1, <1>2
  <2>4. ASSUME NEW k \in 1 .. n + 1 PROVE t[k].sid \in vis \union {sid}
    BY <1>2, <1>3, <2>1
  <2> QED
    BY <1>2, <2>2, <2>3, <2>4
<1>5. dn \cap (vis \union {sid}) = {} /\ dn \subseteq StepIds /\ rt \in 0 .. Len(ids)
  BY DEF Search
<1>6. \A k, l \in 1 .. Len(t) : t[k].sid = t[l].sid => k = l
  <2>1. \A k \in 1 .. n : st[k].sid # sid
    BY DEF Search
  <2>2. \A k, l \in 1 .. n : t[k].sid = t[l].sid => k = l
    BY <1>2 DEF Search
  <2>3. \A k \in 1 .. n : t[k].sid # t[n + 1].sid
    BY <1>2, <2>1
  <2> QED
    BY <1>2, <1>3, <2>2, <2>3
<1>7. \A k, l \in 1 .. Len(t) : k < l => PlaceOf(t[l].sid) \in Ancestors(PlaceOf(t[k].sid))
  <2>1. ASSUME NEW k \in 1 .. n, NEW l \in 1 .. n, k < l
        PROVE PlaceOf(t[l].sid) \in Ancestors(PlaceOf(t[k].sid))
    BY <1>2, <2>1 DEF Search
  <2>2. ASSUME NEW k \in 1 .. n PROVE PlaceOf(sid) \in Ancestors(PlaceOf(st[k].sid))
    <3>1. n \in 1 .. n /\ st # <<>> /\ st[n].sid \in StepIds /\ st[k].sid \in StepIds
      <4>1. n \in 1 .. n /\ st # <<>>
        BY <1>1, <2>2
      <4> QED
        BY <4>1, CallOfStack
    <3>2. PlaceOf(st[n].sid) \in Places /\ PlaceOf(st[k].sid) \in Places
      BY <3>1, PlaceOfId DEF Sound
    <3>3. PlaceOf(sid) \in Ancestors(PlaceOf(st[n].sid))
      BY <3>1, <3>2, AncestorsHold
    <3>4. k = n \/ PlaceOf(st[n].sid) \in Ancestors(PlaceOf(st[k].sid))
      BY <1>1, <3>1 DEF Search
    <3> QED
      BY <3>2, <3>3, <3>4, AncestorsOfAncestor
  <2>3. ASSUME NEW k \in 1 .. n PROVE PlaceOf(t[n + 1].sid) \in Ancestors(PlaceOf(t[k].sid))
    BY <1>2, <2>2
  <2>4. \A k, l \in 1 .. n + 1 : k < l => k \in 1 .. n
    BY <1>1
  <2> QED
    BY <1>2, <1>3, <2>1, <2>3, <2>4
<1>8. \A k \in 1 .. Len(t) : \A m \in DOMAIN deps[PlaceOf(t[k].sid)] :
           m < t[k].next =>
               \/ deps[PlaceOf(t[k].sid)][m] \in dn
               \/ k < Len(t) /\ deps[PlaceOf(t[k].sid)][m] = t[k + 1].sid
               \/ k = Len(t) /\ deps[PlaceOf(t[k].sid)][m] \in {}
  <2> SUFFICES ASSUME NEW k \in 1 .. n + 1, NEW m \in DOMAIN deps[PlaceOf(t[k].sid)], m < t[k].next
               PROVE  \/ deps[PlaceOf(t[k].sid)][m] \in dn
                      \/ k < n + 1 /\ deps[PlaceOf(t[k].sid)][m] = t[k + 1].sid
    BY <1>2
  <2>1. CASE k \in 1 .. n
    <3>1. \/ deps[PlaceOf(st[k].sid)][m] \in dn
          \/ k < n /\ deps[PlaceOf(st[k].sid)][m] = st[k + 1].sid
          \/ k = n /\ deps[PlaceOf(st[k].sid)][m] \in {sid}
      BY <1>2, <2>1 DEF Search
    <3>2. k < n => k + 1 \in 1 .. n
      BY <1>1, <2>1
    <3> QED
      BY <1>1, <1>2, <2>1, <3>1, <3>2, SMTT(30)
  <2>2. CASE k = n + 1
    <3>1. t[k].sid = sid /\ t[k].next = 1 /\ PlaceOf(sid) \in Places
      BY <1>2, <2>2, PlaceOfId DEF Sound
    <3>2. deps[PlaceOf(sid)] \in Seq(Ids)
      BY <3>1 DEF Sound, Shape
    <3>3. m \in Nat /\ m >= 1
      BY <3>1, <3>2
    <3> QED
      BY <3>1, <3>3
  <2> QED
    BY <1>3, <2>1, <2>2
<1>9. \A i \in Places : ids[i] \in dn => ToSet(deps[i]) \subseteq dn /\ i \notin Ancestors(i)
  BY DEF Search
<1>10. \A i \in 1 .. rt : ids[i] \in dn \/ (t # <<>> /\ ids[i] = t[1].sid)
  <2>1. t # <<>>
    BY <1>1, <1>2
  <2>2. CASE st = <<>>
    <3>1. n = 0 /\ t[1].sid = sid
      BY <1>2, <2>2
    <3> QED
      BY <2>1, <2>2, <3>1 DEF Search
  <2>3. CASE st # <<>>
    <3>1. 1 \in 1 .. n
      BY <1>1, <2>3
    <3>2. t[1] = st[1]
      BY <1>2, <3>1
    <3> QED
      BY <2>1, <2>3, <3>2 DEF Search
  <2> QED
    BY <2>2, <2>3
<1> QED
  BY <1>2, <1>4, <1>5, <1>6, <1>7, <1>8, <1>9, <1>10 DEF Search, t

\* for s in plan.steps: the next root is called.
LEMMA CallRoot ==
  ASSUME Sound, NEW rt, NEW vis, NEW dn, Search(<<>>, rt, vis, dn, {}), rt < Len(ids)
  PROVE  Search(<<>>, rt + 1, vis, dn, {ids[rt + 1]})
<1>1. rt \in Nat /\ rt + 1 \in 0 .. Len(ids) /\ Len(ids) \in Nat
  BY DEF Search, Sound, Shape
<1>2. \A i \in 1 .. rt + 1 : i \in 1 .. rt \/ i = rt + 1
  BY <1>1
<1> QED
  BY <1>1, <1>2 DEF Search

\* for d in depends_on: the next entry is called.
LEMMA CallDep ==
  ASSUME Sound, NEW st, NEW rt, NEW vis, NEW dn, Search(st, rt, vis, dn, {}), st # <<>>,
         st[Len(st)].next <= Len(deps[PlaceOf(st[Len(st)].sid)])
  PROVE  LET top   == st[Len(st)]
             sid   == deps[PlaceOf(top.sid)][top.next]
             below == [st EXCEPT ![Len(st)].next = @ + 1]
         IN  /\ sid \in StepIds /\ below # <<>>
             /\ Search(below, rt, vis, dn, {sid})
             /\ PlaceOf(sid) \in Direct(PlaceOf(below[Len(below)].sid))
<1> DEFINE F == [sid : StepIds, next : Nat \ {0}]
<1> DEFINE n == Len(st)
<1> DEFINE top == st[n]
<1> DEFINE i == PlaceOf(top.sid)
<1> DEFINE sid == deps[i][top.next]
<1> DEFINE below == [st EXCEPT ![n].next = @ + 1]
<1>1. st \in Seq(F) /\ n \in Nat /\ n \in 1 .. n
  BY DEF Search
<1>2. top \in F /\ top.sid \in StepIds /\ top.next \in Nat \ {0}
  BY <1>1, CallOfStack
<1>3. i \in Places /\ deps[i] \in Seq(Ids)
  BY <1>2, PlaceOfId DEF Sound, Shape
<1>4. top.next \in DOMAIN deps[i] /\ sid \in ToSet(deps[i])
  BY <1>2, <1>3 DEF ToSet
<1>5. sid \in StepIds /\ PlaceOf(sid) \in Direct(i)
  BY <1>3, <1>4, DirectId
<1>6. [top EXCEPT !.next = @ + 1] \in F
  BY <1>2
<1>7. below = [st EXCEPT ![n] = [top EXCEPT !.next = @ + 1]]
  OBVIOUS
<1>8. below \in Seq(F) /\ Len(below) = n
  <2> HIDE DEF F
  <2> QED
    BY <1>1, <1>6, <1>7
<1>9. /\ below[n].sid = top.sid /\ below[n].next = top.next + 1
      /\ \A k \in 1 .. n : k # n => below[k] = st[k]
  BY <1>1, <1>2, <1>7
<1>10. \A k \in 1 .. n : below[k].sid = st[k].sid
  BY <1>9
<1> HIDE DEF below
<1>11. \A k \in 1 .. n : \A m \in DOMAIN deps[PlaceOf(below[k].sid)] :
           m < below[k].next =>
               \/ deps[PlaceOf(below[k].sid)][m] \in dn
               \/ k < n /\ deps[PlaceOf(below[k].sid)][m] = below[k + 1].sid
               \/ k = n /\ deps[PlaceOf(below[k].sid)][m] \in {sid}
  <2> SUFFICES ASSUME NEW k \in 1 .. n, NEW m \in DOMAIN deps[PlaceOf(below[k].sid)], m < below[k].next
               PROVE  \/ deps[PlaceOf(below[k].sid)][m] \in dn
                      \/ k < n /\ deps[PlaceOf(below[k].sid)][m] = below[k + 1].sid
                      \/ k = n /\ deps[PlaceOf(below[k].sid)][m] \in {sid}
    OBVIOUS
  <2>1. \A j \in DOMAIN deps[PlaceOf(st[k].sid)] :
            j < st[k].next => \/ deps[PlaceOf(st[k].sid)][j] \in dn
                              \/ k < n /\ deps[PlaceOf(st[k].sid)][j] = st[k + 1].sid
    BY DEF Search
  <2>2. CASE k # n
    <3>1. k + 1 \in 1 .. n
      BY <1>1, <2>2
    <3> QED
      BY <1>9, <1>10, <2>1, <2>2, <3>1
  <2>3. CASE k = n
    <3>1. m \in Nat
      BY <1>3, <1>10, <2>3
    <3>2. m < top.next \/ m = top.next
      BY <1>2, <1>9, <2>3, <3>1
    <3> QED
      BY <1>10, <2>1, <2>3, <3>2
  <2> QED
    BY <2>2, <2>3
<1>12. below # <<>> /\ 1 \in 1 .. n
  BY <1>1, <1>8
<1>13. Search(below, rt, vis, dn, {sid})
  <2>1. vis = {below[k].sid : k \in 1 .. Len(below)}
    <3>1. vis = {st[k].sid : k \in 1 .. n}
      BY DEF Search
    <3>2. {below[k].sid : k \in 1 .. n} = {st[k].sid : k \in 1 .. n}
      BY <1>10
    <3> QED
      BY <1>8, <3>1, <3>2
  <2>2. rt \in 0 .. Len(ids) /\ dn \subseteq StepIds /\ dn \cap vis = {}
    BY DEF Search
  <2>3. \A k, l \in 1 .. n : below[k].sid = below[l].sid => k = l
    BY <1>10 DEF Search
  <2>4. \A k, l \in 1 .. n : k < l => PlaceOf(below[l].sid) \in Ancestors(PlaceOf(below[k].sid))
    BY <1>10 DEF Search
  <2>5. \A j \in Places : ids[j] \in dn => ToSet(deps[j]) \subseteq dn /\ j \notin Ancestors(j)
    BY DEF Search
  <2>6. \A j \in 1 .. rt : ids[j] \in dn \/ ids[j] = below[1].sid
    BY <1>10, <1>12 DEF Search
  <2> QED
    BY <1>8, <1>11, <1>12, <2>1, <2>2, <2>3, <2>4, <2>5, <2>6 DEF Search
<1> QED
  BY <1>5, <1>8, <1>9, <1>12, <1>13 DEF below

\* The innermost call returns: its step is finished, and is on no cycle.
LEMMA ReturnDep ==
  ASSUME Sound, NEW st, NEW rt, NEW vis, NEW dn, Search(st, rt, vis, dn, {}), st # <<>>,
         st[Len(st)].next > Len(deps[PlaceOf(st[Len(st)].sid)])
  PROVE  Search(Front(st), rt, vis \ {st[Len(st)].sid}, dn \union {st[Len(st)].sid}, {})
<1> DEFINE F == [sid : StepIds, next : Nat \ {0}]
<1> DEFINE n == Len(st)
<1> DEFINE x == st[n].sid
<1> DEFINE i == PlaceOf(x)
<1> DEFINE fr == Front(st)
<1> DEFINE all == dn \union {x}
<1>1. st \in Seq(F) /\ n \in Nat /\ n \in 1 .. n
  BY DEF Search
<1>2. x \in StepIds /\ st[n].next \in Nat \ {0}
  BY <1>1, CallOfStack
<1>3. i \in Places /\ ids[i] = x /\ deps[i] \in Seq(Ids)
  BY <1>2, PlaceOfId DEF Sound, Shape
<1>4. fr \in Seq(F) /\ Len(fr) = n - 1 /\ \A k \in 1 .. n - 1 : fr[k] = st[k]
  <2> HIDE DEF F
  <2> QED
    BY <1>1, SeqFront
<1> HIDE DEF fr
<1>5. \A k \in 1 .. n : k \in 1 .. n - 1 \/ k = n
  BY <1>1
<1>6. \A k \in 1 .. n - 1 : k \in 1 .. n /\ k < n /\ k + 1 \in 1 .. n
  BY <1>1
<1>7. ToSet(deps[i]) \subseteq dn
  <2>1. \A m \in DOMAIN deps[i] : m < st[n].next
    BY <1>2, <1>3
  <2>2. \A m \in DOMAIN deps[i] : deps[i][m] \in dn
    BY <1>1, <2>1 DEF Search
  <2> QED
    BY <2>2 DEF ToSet
<1>8. x \notin dn /\ x \in vis
  BY <1>1 DEF Search
<1>9. i \notin Ancestors(i)
  <2> DEFINE S == {j \in Places : ids[j] \in dn}
  <2>1. \A j \in Direct(i) : j \in S
    BY <1>7 DEF Direct, Needs
  <2>2. \A k \in S : Direct(k) \subseteq S
    BY DEF Direct, Needs, Search
  <2>3. Ancestors(i) \subseteq S
    BY <1>3, <2>1, <2>2, AncestorsLeast
  <2> QED
    BY <1>3, <1>8, <2>3
<1>10. \A j \in Places : ids[j] \in all => ToSet(deps[j]) \subseteq all /\ j \notin Ancestors(j)
  <2> SUFFICES ASSUME NEW j \in Places, ids[j] \in all
               PROVE  ToSet(deps[j]) \subseteq all /\ j \notin Ancestors(j)
    OBVIOUS
  <2>1. CASE ids[j] \in dn
    BY <2>1 DEF Search
  <2>2. CASE ids[j] = x
    <3>1. j = i
      BY <2>2, PlaceOfPlace
    <3> QED
      BY <1>7, <1>9, <3>1
  <2> QED
    BY <2>1, <2>2
<1>11. vis \ {x} = {fr[k].sid : k \in 1 .. Len(fr)}
  <2>1. vis = {st[k].sid : k \in 1 .. n}
    BY DEF Search
  <2>2. \A k \in 1 .. n - 1 : st[k].sid # x
    BY <1>1, <1>6 DEF Search
  <2>3. ASSUME NEW y \in vis \ {x} PROVE \E k \in 1 .. n - 1 : y = fr[k].sid
    <3>1. PICK k \in 1 .. n : y = st[k].sid
      BY <2>1
    <3>2. k \in 1 .. n - 1
      BY <1>5, <2>3, <3>1
    <3> QED
      BY <1>4, <3>1, <3>2
  <2>4. ASSUME NEW k \in 1 .. n - 1 PROVE fr[k].sid \in vis \ {x}
    BY <1>4, <1>6, <2>1, <2>2
  <2> QED
    BY <1>4, <2>3, <2>4
<1>12. all \subseteq StepIds /\ all \cap (vis \ {x}) = {} /\ rt \in 0 .. Len(ids)
  BY <1>2 DEF Search
<1>13. /\ \A k, l \in 1 .. n - 1 : fr[k].sid = fr[l].sid => k = l
       /\ \A k, l \in 1 .. n - 1 : k < l => PlaceOf(fr[l].sid) \in Ancestors(PlaceOf(fr[k].sid))
  BY <1>4, <1>6 DEF Search
<1>14. \A k \in 1 .. n - 1 : \A m \in DOMAIN deps[PlaceOf(fr[k].sid)] :
           m < fr[k].next =>
               \/ deps[PlaceOf(fr[k].sid)][m] \in all
               \/ k < n - 1 /\ deps[PlaceOf(fr[k].sid)][m] = fr[k + 1].sid
  <2> SUFFICES ASSUME NEW k \in 1 .. n - 1, NEW m \in DOMAIN deps[PlaceOf(st[k].sid)], m < st[k].next
               PROVE  \/ deps[PlaceOf(st[k].sid)][m] \in all
                      \/ k < n - 1 /\ deps[PlaceOf(st[k].sid)][m] = fr[k + 1].sid
    BY <1>4
  <2>1. deps[PlaceOf(st[k].sid)][m] \in dn \/ deps[PlaceOf(st[k].sid)][m] = st[k + 1].sid
    BY <1>6 DEF Search
  <2>2. k + 1 = n \/ (k < n - 1 /\ k + 1 \in 1 .. n - 1)
    BY <1>1
  <2> QED
    BY <1>4, <2>1, <2>2
<1>15. \A j \in 1 .. rt : ids[j] \in all \/ (fr # <<>> /\ ids[j] = fr[1].sid)
  <2>1. n = 1 \/ (fr # <<>> /\ 1 \in 1 .. n - 1)
    BY <1>1, <1>4
  <2>2. \A j \in 1 .. rt : ids[j] \in dn \/ ids[j] = st[1].sid
    BY DEF Search
  <2> QED
    BY <1>4, <2>1, <2>2
<1>16. /\ \A k, l \in 1 .. Len(fr) : fr[k].sid = fr[l].sid => k = l
       /\ \A k, l \in 1 .. Len(fr) : k < l => PlaceOf(fr[l].sid) \in Ancestors(PlaceOf(fr[k].sid))
  BY <1>4, <1>13
<1>17. \A k \in 1 .. Len(fr) : \A m \in DOMAIN deps[PlaceOf(fr[k].sid)] :
           m < fr[k].next =>
               \/ deps[PlaceOf(fr[k].sid)][m] \in all
               \/ k < Len(fr) /\ deps[PlaceOf(fr[k].sid)][m] = fr[k + 1].sid
               \/ k = Len(fr) /\ deps[PlaceOf(fr[k].sid)][m] \in {}
  BY <1>4, <1>14
<1>18. Search(fr, rt, vis \ {x}, all, {})
  BY <1>4, <1>10, <1>11, <1>12, <1>15, <1>16, <1>17 DEF Search
<1> QED
  BY <1>18 DEF fr

\* All roots are finished: no step is on a cycle.
LEMMA SearchEnds ==
  ASSUME Sound, NEW vis, NEW dn, Search(<<>>, Len(ids), vis, dn, {})
  PROVE  ~HasCycle
<1>1. \A i \in Places : i \in 1 .. Len(ids)
  BY DEF Places
<1> QED
  BY <1>1 DEF Search, HasCycle

-----------------------------------------------------------------------------
(* The queue *)

\* The steps ordered so far that the loop over plan.steps has taken off step i: the last
\* one only when the loop has passed i.
Taken(i, a, sn, ord) ==
    IF ord = <<>> THEN {} ELSE IF i < a THEN sn ELSE sn \ {Last(ord)}

\* Nothing is left of the in-degree of step i: its dependencies are in sn, each listed once.
Settled(i, sn) ==
    /\ ToSet(deps[i]) \subseteq sn
    /\ Cardinality(ToSet(deps[i])) = Len(deps[i])

Queue(ind, rd, a, sn, ord) ==
    /\ ind \in [Places -> Int] /\ rd \in Seq(StepIds) /\ a \in 1 .. Len(ids) + 1
    /\ ord \in Seq(StepIds) /\ sn = ToSet(ord)
    /\ \A j, k \in 1 .. Len(ord) : ord[j] = ord[k] => j = k
    /\ \A j \in 1 .. Len(ord) : \A d \in ToSet(deps[PlaceOf(ord[j])]) :
           \E k \in 1 .. Len(ord) : k < j /\ ord[k] = d
    /\ \A i \in Places :
           ind[i] = Len(deps[i]) - Cardinality(Taken(i, a, sn, ord) \cap ToSet(deps[i]))
    /\ \A sid \in ToSet(rd) \union sn : Settled(PlaceOf(sid), sn)
    /\ \A i \in Places :
           (ord # <<>> \/ i < a) /\ Settled(i, Taken(i, a, sn, ord)) => ids[i] \in ToSet(rd) \union sn

LEMMA DepsFinite ==
  ASSUME Sound, NEW i \in Places
  PROVE  /\ IsFiniteSet(ToSet(deps[i])) /\ Len(deps[i]) \in Nat
         /\ Cardinality(ToSet(deps[i])) \in Nat /\ Cardinality(ToSet(deps[i])) <= Len(deps[i])
<1>1. deps[i] \in Seq(Ids)
  BY DEF Sound, Shape
<1> QED
  BY <1>1, SeqSet

LEMMA DepsTaken ==
  ASSUME Sound, NEW i \in Places, NEW T
  PROVE  /\ IsFiniteSet(T \cap ToSet(deps[i])) /\ Cardinality(T \cap ToSet(deps[i])) \in Nat
         /\ Cardinality(T \cap ToSet(deps[i])) <= Cardinality(ToSet(deps[i]))
         /\ Cardinality(T \cap ToSet(deps[i])) = Cardinality(ToSet(deps[i])) => ToSet(deps[i]) \subseteq T
<1>1. T \cap ToSet(deps[i]) \in SUBSET ToSet(deps[i])
  OBVIOUS
<1>2. /\ IsFiniteSet(T \cap ToSet(deps[i]))
      /\ Cardinality(T \cap ToSet(deps[i])) <= Cardinality(ToSet(deps[i]))
      /\ Cardinality(T \cap ToSet(deps[i])) = Cardinality(ToSet(deps[i])) =>
             ToSet(deps[i]) = T \cap ToSet(deps[i])
  BY <1>1, DepsFinite, FS_Subset
<1>3. Cardinality(T \cap ToSet(deps[i])) \in Nat
  BY <1>2, FS_CardinalityType
<1> QED
  BY <1>2, <1>3

\* Nothing is taken off before the first step is ordered.
LEMMA TakenNone ==
  ASSUME NEW i, NEW a, NEW sn
  PROVE  /\ Taken(i, a, sn, <<>>) = {}
         /\ Cardinality(Taken(i, a, sn, <<>>) \cap ToSet(deps[i])) = 0
<1>1. {} \cap ToSet(deps[i]) = {}
  OBVIOUS
<1> QED
  BY <1>1, FS_EmptySet DEF Taken

LEMMA SettledNone ==
  ASSUME Sound, NEW i \in Places
  PROVE  Settled(i, {}) <=> Len(deps[i]) = 0
<1>1. ASSUME Len(deps[i]) = 0 PROVE ToSet(deps[i]) = {}
  <2>1. Cardinality(ToSet(deps[i])) = 0
    BY <1>1, DepsFinite
  <2> QED
    BY <2>1, DepsFinite, FS_EmptySet
<1> QED
  BY <1>1, FS_EmptySet DEF Settled

LEMMA QueueStarts ==
  ASSUME Sound
  PROVE  Queue([i \in Places |-> Len(deps[i])], <<>>, 1, {}, <<>>)
<1>1. ToSet(<<>>) = {} /\ <<>> \in Seq(StepIds) /\ Len(<<>>) = 0
  BY DEF ToSet
<1>2. \A i \in Places : Len(deps[i]) \in Nat
  BY DepsFinite
<1>3. \A i \in Places : Len(deps[i]) = Len(deps[i]) - Cardinality(Taken(i, 1, {}, <<>>) \cap ToSet(deps[i]))
  BY <1>2, TakenNone, SMTT(30)
<1>4. \A i \in Places : ~(i < 1)
  BY DEF Places
<1>5. 1 \in 1 .. Len(ids) + 1
  BY DEF Sound, Shape
<1>6. [i \in Places |-> Len(deps[i])] \in [Places -> Int]
  BY <1>2
<1> QED
  BY <1>1, <1>3, <1>4, <1>5, <1>6 DEF Queue

\* ready = [s.id for s in plan.steps if indeg[s.id] == 0]
LEMMA QueueRoot ==
  ASSUME Sound, NEW ind, NEW rd, NEW a \in Places, NEW sn, Queue(ind, rd, a, sn, <<>>)
  PROVE  Queue(ind, IF ind[a] = 0 THEN Append(rd, ids[a]) ELSE rd, a + 1, sn, <<>>)
<1> DEFINE r == IF ind[a] = 0 THEN Append(rd, ids[a]) ELSE rd
<1>1. sn = {} /\ rd \in Seq(StepIds) /\ ids[a] \in StepIds /\ PlaceOf(ids[a]) = a
  BY PlaceOfPlace DEF Queue, ToSet
<1>2. r \in Seq(StepIds) /\ ToSet(r) = ToSet(rd) \union (IF ind[a] = 0 THEN {ids[a]} ELSE {})
  BY <1>1, SeqAppend
<1>4. a \in Nat /\ Len(ids) \in Nat /\ a + 1 \in 1 .. Len(ids) + 1 /\ Places \subseteq Nat
  BY DEF Places, Sound, Shape
<1>5. ind[a] = Len(deps[a])
  <2>1. ind[a] = Len(deps[a]) - Cardinality(Taken(a, a, sn, <<>>) \cap ToSet(deps[a]))
    BY DEF Queue
  <2> QED
    BY <2>1, TakenNone, DepsFinite
<1>6. ind[a] = 0 <=> Settled(a, sn)
  BY <1>1, <1>5, SettledNone
<1>7. \A sid \in ToSet(r) \union sn : Settled(PlaceOf(sid), sn)
  BY <1>1, <1>2, <1>6 DEF Queue
<1>9. \A i \in Places : i < a + 1 /\ Settled(i, Taken(i, a + 1, sn, <<>>)) => ids[i] \in ToSet(r) \union sn
  <2> SUFFICES ASSUME NEW i \in Places, i < a + 1, Settled(i, {}) PROVE ids[i] \in ToSet(r) \union sn
    BY TakenNone
  <2>1. CASE i = a
    BY <1>1, <1>2, <1>6, <2>1
  <2>2. CASE i < a
    <3>1. Taken(i, a, sn, <<>>) = {}
      BY TakenNone
    <3>2. ids[i] \in ToSet(rd) \union sn
      BY <2>2, <3>1 DEF Queue
    <3> QED
      BY <1>2, <3>2
  <2> QED
    BY <1>4, <2>1, <2>2
<1>10. \A i \in Places : Taken(i, a + 1, sn, <<>>) = Taken(i, a, sn, <<>>)
  BY DEF Taken
<1> HIDE DEF r
<1>11. Queue(ind, r, a + 1, sn, <<>>)
  BY <1>2, <1>4, <1>7, <1>9, <1>10 DEF Queue
<1> QED
  BY <1>11 DEF r

\* The inner loop: what the step just ordered leaves of the in-degree of step a.
LEMMA QueueFollow ==
  ASSUME Sound, NEW ind, NEW rd, NEW a \in Places, NEW sn, NEW ord, Queue(ind, rd, a, sn, ord),
         ord # <<>>, Needs(a, Last(ord))
  PROVE  Queue([ind EXCEPT ![a] = @ - 1], IF ind[a] = 1 THEN Append(rd, ids[a]) ELSE rd, a + 1, sn, ord)
<1> DEFINE in == [ind EXCEPT ![a] = @ - 1]
<1> DEFINE r == IF ind[a] = 1 THEN Append(rd, ids[a]) ELSE rd
<1> DEFINE last == Last(ord)
<1>1. rd \in Seq(StepIds) /\ ids[a] \in StepIds /\ PlaceOf(ids[a]) = a
  BY PlaceOfPlace DEF Queue
<1>2. r \in Seq(StepIds) /\ ToSet(r) = ToSet(rd) \union (IF ind[a] = 1 THEN {ids[a]} ELSE {})
  BY <1>1, SeqAppend
<1>3. a \in Nat /\ Len(ids) \in Nat /\ a + 1 \in 1 .. Len(ids) + 1 /\ Places \subseteq Nat
  BY DEF Places, Sound, Shape
<1>4. ind \in [Places -> Int] /\ ind[a] \in Int
  BY DEF Queue
<1>5. in \in [Places -> Int] /\ in[a] = ind[a] - 1 /\ \A i \in Places : i # a => in[i] = ind[i]
  BY <1>4
<1>6. last \in sn /\ last \in ToSet(deps[a])
  <2>1. ord \in Seq(StepIds) /\ sn = ToSet(ord)
    BY DEF Queue
  <2> QED
    BY <2>1 DEF Needs, Last, ToSet
<1>7. Taken(a, a, sn, ord) = sn \ {last} /\ Taken(a, a + 1, sn, ord) = sn
  BY <1>3 DEF Taken
<1>8. \A i \in Places : i # a => Taken(i, a + 1, sn, ord) = Taken(i, a, sn, ord)
  BY <1>3 DEF Taken
<1>9. Cardinality(sn \cap ToSet(deps[a])) = Cardinality((sn \ {last}) \cap ToSet(deps[a])) + 1
  <2>1. sn \cap ToSet(deps[a]) = ((sn \ {last}) \cap ToSet(deps[a])) \union {last}
    BY <1>6
  <2>2. last \notin (sn \ {last}) \cap ToSet(deps[a])
    OBVIOUS
  <2>3. IsFiniteSet((sn \ {last}) \cap ToSet(deps[a]))
    BY DepsTaken
  <2> QED
    BY <2>1, <2>2, <2>3, FS_AddElement
<1>10. ind[a] = Len(deps[a]) - Cardinality((sn \ {last}) \cap ToSet(deps[a]))
  BY <1>7 DEF Queue
<1>11. in[a] = Len(deps[a]) - Cardinality(sn \cap ToSet(deps[a]))
  <2>1. /\ Len(deps[a]) \in Nat /\ Cardinality(sn \cap ToSet(deps[a])) \in Nat
        /\ Cardinality((sn \ {last}) \cap ToSet(deps[a])) \in Nat
    BY DepsFinite, DepsTaken
  <2> QED
    BY <1>5, <1>9, <1>10, <2>1
<1>12. in[a] = 0 <=> Settled(a, sn)
  <2>1. /\ Len(deps[a]) \in Nat /\ Cardinality(ToSet(deps[a])) \in Nat
        /\ Cardinality(ToSet(deps[a])) <= Len(deps[a])
    BY DepsFinite
  <2>2. /\ Cardinality(sn \cap ToSet(deps[a])) \in Nat
        /\ Cardinality(sn \cap ToSet(deps[a])) <= Cardinality(ToSet(deps[a]))
        /\ Cardinality(sn \cap ToSet(deps[a])) = Cardinality(ToSet(deps[a])) => ToSet(deps[a]) \subseteq sn
    BY DepsTaken
  <2>3. ToSet(deps[a]) \subseteq sn => sn \cap ToSet(deps[a]) = ToSet(deps[a])
    OBVIOUS
  <2>4. Len(deps[a]) = Cardinality(sn \cap ToSet(deps[a])) <=> Settled(a, sn)
    <3>1. ASSUME Settled(a, sn) PROVE Len(deps[a]) = Cardinality(sn \cap ToSet(deps[a]))
      <4>1. sn \cap ToSet(deps[a]) = ToSet(deps[a])
        BY <3>1, <2>3 DEF Settled
      <4> QED
        BY <3>1, <4>1 DEF Settled
    <3>2. ASSUME Len(deps[a]) = Cardinality(sn \cap ToSet(deps[a])) PROVE Settled(a, sn)
      <4>1. Cardinality(sn \cap ToSet(deps[a])) = Cardinality(ToSet(deps[a]))
        BY <3>2, <2>1, <2>2
      <4> QED
        BY <3>2, <4>1, <2>2 DEF Settled
    <3> QED
      BY <3>1, <3>2
  <2>5. in[a] = 0 <=> Len(deps[a]) = Cardinality(sn \cap ToSet(deps[a]))
    <3> HIDE DEF in
    <3> QED
      BY <1>11, <2>1, <2>2
  <2> QED
    BY <2>4, <2>5
<1>13. ind[a] = 1 <=> Settled(a, sn)
  BY <1>4, <1>5, <1>12
<1>14. \A sid \in ToSet(r) \union sn : Settled(PlaceOf(sid), sn)
  BY <1>1, <1>2, <1>13 DEF Queue
<1>15. \A i \in Places : Settled(i, Taken(i, a + 1, sn, ord)) => ids[i] \in ToSet(r) \union sn
  <2> SUFFICES ASSUME NEW i \in Places, Settled(i, Taken(i, a + 1, sn, ord)) PROVE ids[i] \in ToSet(r) \union sn
    OBVIOUS
  <2>1. CASE i = a
    BY <1>2, <1>7, <1>13, <2>1
  <2>2. CASE i # a
    BY <1>2, <1>8, <2>2 DEF Queue
  <2> QED
    BY <2>1, <2>2
<1>16. \A i \in Places : in[i] = Len(deps[i]) - Cardinality(Taken(i, a + 1, sn, ord) \cap ToSet(deps[i]))
  <2> SUFFICES ASSUME NEW i \in Places
               PROVE  in[i] = Len(deps[i]) - Cardinality(Taken(i, a + 1, sn, ord) \cap ToSet(deps[i]))
    OBVIOUS
  <2>1. CASE i = a
    BY <1>7, <1>11, <2>1
  <2>2. CASE i # a
    BY <1>5, <1>8, <2>2 DEF Queue
  <2> QED
    BY <2>1, <2>2
<1> HIDE DEF r, in, last
<1>17. Queue(in, r, a + 1, sn, ord)
  BY <1>2, <1>3, <1>5, <1>14, <1>15, <1>16 DEF Queue
<1> QED
  BY <1>17 DEF r, in

\* A step that does not depend on it is passed over.
LEMMA QueuePass ==
  ASSUME Sound, NEW ind, NEW rd, NEW a \in Places, NEW sn, NEW ord, Queue(ind, rd, a, sn, ord),
         ord # <<>>, ~Needs(a, Last(ord))
  PROVE  Queue(ind, rd, a + 1, sn, ord)
<1>1. a \in Nat /\ Len(ids) \in Nat /\ a + 1 \in 1 .. Len(ids) + 1 /\ Places \subseteq Nat
  BY DEF Places, Sound, Shape
<1>2. Taken(a, a, sn, ord) = sn \ {Last(ord)} /\ Taken(a, a + 1, sn, ord) = sn
  BY <1>1 DEF Taken
<1>3. \A i \in Places : i # a => Taken(i, a + 1, sn, ord) = Taken(i, a, sn, ord)
  BY <1>1 DEF Taken
<1>4. Last(ord) \notin ToSet(deps[a])
  BY DEF Needs
<1>5. \A i \in Places : Taken(i, a + 1, sn, ord) \cap ToSet(deps[i]) = Taken(i, a, sn, ord) \cap ToSet(deps[i])
  BY <1>2, <1>3, <1>4
<1>6. \A i \in Places : Settled(i, Taken(i, a + 1, sn, ord)) <=> Settled(i, Taken(i, a, sn, ord))
  BY <1>2, <1>3, <1>4 DEF Settled
<1> QED
  BY <1>1, <1>5, <1>6 DEF Queue

\* ready.pop(0): the head of the queue is ordered, unless it already was.
LEMMA QueuePop ==
  ASSUME Sound, NEW ind, NEW rd, NEW a, NEW sn, NEW ord, Queue(ind, rd, a, sn, ord),
         a \notin Places, rd # <<>>
  PROVE  IF Head(rd) \in sn THEN Queue(ind, Tail(rd), a, sn, ord)
         ELSE Queue(ind, Tail(rd), 1, sn \union {Head(rd)}, Append(ord, Head(rd)))
<1> DEFINE h == Head(rd)
<1> DEFINE t == Tail(rd)
<1>1. rd \in Seq(StepIds) /\ ord \in Seq(StepIds) /\ sn = ToSet(ord) /\ Len(ord) \in Nat
  BY DEF Queue
<1>2. t \in Seq(StepIds) /\ h \in StepIds /\ ToSet(rd) = ToSet(t) \union {h}
  BY <1>1, SeqTail
<1>3. a \in Nat /\ Places \subseteq Nat \ {0} /\ (\A i \in Places : i < a) /\ 1 \in 1 .. Len(ids) + 1
  BY DEF Queue, Places, Sound, Shape
<1>4. \A i \in Places : Taken(i, a, sn, ord) = sn
  <2>1. ord = <<>> => sn = {}
    BY <1>1 DEF ToSet
  <2> QED
    BY <1>3, <2>1 DEF Taken
<1> HIDE DEF h, t
<1>5. CASE h \in sn
  <2>1. ToSet(t) \union sn = ToSet(rd) \union sn
    BY <1>2, <1>5
  <2>2. Queue(ind, t, a, sn, ord)
    BY <1>2, <2>1 DEF Queue
  <2> QED
    BY <1>5, <2>2 DEF h, t
<1>6. CASE h \notin sn
  <2> DEFINE o == Append(ord, h)
  <2> DEFINE n == Len(ord)
  <2> DEFINE s == sn \union {h}
  <2>1. /\ o \in Seq(StepIds) /\ Len(o) = n + 1 /\ ToSet(o) = s
        /\ \A k \in 1 .. n : o[k] = ord[k]
        /\ o[n + 1] = h
    BY <1>1, <1>2, SeqAppend
  <2>2. o # <<>> /\ Last(o) = h
    <3>1. Len(o) # 0 /\ Len(<<>>) = 0
      BY <1>1, <2>1
    <3> QED
      BY <2>1, <3>1 DEF Last
  <2> HIDE DEF o
  <2>3. \A k \in 1 .. n + 1 : k \in 1 .. n \/ k = n + 1
    BY <1>1
  <2>4. \A j, k \in 1 .. Len(o) : o[j] = o[k] => j = k
    <3>1. \A j, k \in 1 .. n : o[j] = o[k] => j = k
      BY <2>1 DEF Queue
    <3>2. \A k \in 1 .. n : o[k] # o[n + 1]
      BY <1>1, <1>6, <2>1 DEF ToSet
    <3> QED
      BY <2>1, <2>3, <3>1, <3>2
  <2>5. Settled(PlaceOf(h), sn)
    BY <1>2 DEF Queue
  <2>6. \A j \in 1 .. Len(o) : \A d \in ToSet(deps[PlaceOf(o[j])]) :
             \E k \in 1 .. Len(o) : k < j /\ o[k] = d
    <3> SUFFICES ASSUME NEW j \in 1 .. n + 1, NEW d \in ToSet(deps[PlaceOf(o[j])])
                 PROVE  \E k \in 1 .. n + 1 : k < j /\ o[k] = d
      BY <2>1
    <3>1. CASE j \in 1 .. n
      <4>1. PICK k \in 1 .. n : k < j /\ ord[k] = d
        BY <2>1, <3>1 DEF Queue
      <4>2. k \in 1 .. n + 1 /\ o[k] = d
        BY <1>1, <2>1, <4>1
      <4> QED
        BY <4>1, <4>2
    <3>2. CASE j = n + 1
      <4>1. d \in sn
        BY <2>1, <2>5, <3>2 DEF Settled
      <4>2. PICK k \in 1 .. n : ord[k] = d
        BY <1>1, <4>1 DEF ToSet
      <4>3. k \in 1 .. n + 1 /\ k < j /\ o[k] = d
        BY <1>1, <2>1, <3>2, <4>2
      <4> QED
        BY <4>3
    <3> QED
      BY <2>3, <3>1, <3>2
  <2>7. \A i \in Places : Taken(i, 1, s, o) = sn
    <3>1. \A i \in Places : ~(i < 1)
      BY <1>3
    <3>2. s \ {h} = sn
      BY <1>6
    <3> QED
      BY <2>2, <3>1, <3>2 DEF Taken
  <2>8. \A i \in Places : ind[i] = Len(deps[i]) - Cardinality(Taken(i, 1, s, o) \cap ToSet(deps[i]))
    BY <1>4, <2>7 DEF Queue
  <2>9. ToSet(t) \union s = ToSet(rd) \union sn
    BY <1>2
  <2>10. \A sid \in ToSet(t) \union s : Settled(PlaceOf(sid), s)
    BY <2>9 DEF Queue, Settled
  <2>11. \A i \in Places : Settled(i, Taken(i, 1, s, o)) => ids[i] \in ToSet(t) \union s
    BY <1>3, <1>4, <2>7, <2>9 DEF Queue
  <2>12. ind \in [Places -> Int]
    BY DEF Queue
  <2> HIDE DEF s
  <2>13. Queue(ind, t, 1, s, o)
    BY <1>2, <1>3, <2>1, <2>4, <2>6, <2>8, <2>10, <2>11, <2>12 DEF Queue
  <2> QED
    BY <1>6, <2>13 DEF h, t, s, o
<1> QED
  BY <1>5, <1>6

\* How many steps are ordered says whether all are.
LEMMA AllOrdered ==
  ASSUME Sound, NEW ind, NEW rd, NEW a, NEW sn, NEW ord, Queue(ind, rd, a, sn, ord)
  PROVE  Len(ord) = Len(ids) <=> ToSet(ord) = StepIds
<1>1. ord \in Seq(StepIds) /\ ids \in Seq(Ids)
  BY DEF Queue, Sound, Shape
<1>2. IsFiniteSet(ToSet(ord)) /\ Cardinality(ToSet(ord)) = Len(ord)
  BY <1>1, SeqSet DEF Queue
<1>3. IsFiniteSet(StepIds) /\ Cardinality(StepIds) = Len(ids)
  BY <1>1, SeqSet DEF StepIds, Sound, Unique, Places
<1>4. ToSet(ord) \in SUBSET StepIds
  BY <1>1 DEF ToSet
<1> QED
  BY <1>2, <1>3, <1>4, FS_Subset

\* A queue that ordered as many steps as there are ordered them well.
LEMMA QueueOrders ==
  ASSUME Sound, NEW ind, NEW rd, NEW a, NEW sn, NEW ord, Queue(ind, rd, a, sn, ord),
         Len(ord) = Len(ids)
  PROVE  /\ NothingTwice
         /\ ToSet(ord) = StepIds
         /\ \A i, j \in DOMAIN ord : Needs(PlaceOf(ord[j]), ord[i]) => i < j
<1>1. ToSet(ord) = StepIds
  BY AllOrdered
<1>2. NothingTwice
  <2> SUFFICES ASSUME NEW i \in Places PROVE Cardinality(ToSet(deps[i])) = Len(deps[i])
    BY DEF NothingTwice
  <2>1. ids[i] \in sn /\ PlaceOf(ids[i]) = i
    BY <1>1, PlaceOfPlace DEF Queue
  <2> QED
    BY <2>1 DEF Queue, Settled
<1>3. ASSUME NEW i \in DOMAIN ord, NEW j \in DOMAIN ord, Needs(PlaceOf(ord[j]), ord[i])
      PROVE  i < j
  <2>1. DOMAIN ord = 1 .. Len(ord)
    BY DEF Queue
  <2>2. PICK k \in 1 .. Len(ord) : k < j /\ ord[k] = ord[i]
    BY <1>3, <2>1 DEF Queue, Needs
  <2> QED
    BY <2>1, <2>2 DEF Queue
<1> QED
  BY <1>1, <1>2, <1>3

\* An empty queue that left steps unordered, in a graph without a cycle: take an unordered
\* step with the fewest ancestors; what it depends on is ordered, so only an entry that its
\* depends_on repeats can keep its in-degree up.
LEMMA QueueStuck ==
  ASSUME Sound, ~HasCycle, NEW ind, NEW a, NEW sn, NEW ord, Queue(ind, <<>>, a, sn, ord),
         a \notin Places, Len(ord) # Len(ids)
  PROVE  ~NothingTwice
<1> SUFFICES ASSUME NothingTwice PROVE FALSE
  OBVIOUS
<1> DEFINE U == {i \in Places : ids[i] \notin sn}
<1> DEFINE T == {Ancestors(i) : i \in U}
<1>1. sn = ToSet(ord) /\ ord \in Seq(StepIds)
  BY DEF Queue
<1>2. U # {}
  <2>1. ToSet(ord) # StepIds /\ ToSet(ord) \subseteq StepIds
    BY <1>1, AllOrdered DEF ToSet
  <2>2. PICK sid \in StepIds : sid \notin sn
    BY <1>1, <2>1
  <2> QED
    BY <2>2, PlaceOfId DEF Sound
<1>3. IsFiniteSet(Places)
  <2>1. Len(ids) \in Int /\ 1 \in Int
    BY DEF Sound, Shape
  <2> QED
    BY <2>1, FS_Interval DEF Places
<1>4. T \subseteq FiniteSubsetsOf(Places) /\ T # {}
  <2>1. \A i \in Places : Ancestors(i) \in SUBSET Places /\ IsFiniteSet(Ancestors(i))
    BY <1>3, AncestorsHold, FS_Subset
  <2> QED
    BY <1>2, <2>1 DEF FiniteSubsetsOf
<1>5. IsWellFoundedOn(StrictSubsetOrdering(Places), FiniteSubsetsOf(Places))
  BY FS_StrictSubsetOrderingWellFounded
<1>6. PICK least \in T : \A other \in T : ~ (<<other, least>> \in StrictSubsetOrdering(Places))
  <2> HIDE DEF T
  <2> QED
    BY <1>4, <1>5, WFMin
<1>7. PICK i \in U : least = Ancestors(i)
  OBVIOUS
<1>8. i \in Places /\ ids[i] \notin sn /\ i < a
  BY DEF Queue, Places, Sound, Shape
<1>9. Taken(i, a, sn, ord) = sn
  <2>1. ord = <<>> => sn = {}
    BY <1>1 DEF ToSet
  <2> QED
    BY <1>8, <2>1 DEF Taken
<1>10. ~Settled(i, sn)
  <2>1. ids[i] \notin ToSet(<<>>) \union sn
    BY <1>8 DEF ToSet
  <2> QED
    BY <1>8, <1>9, <2>1 DEF Queue
<1>11. PICK d \in ToSet(deps[i]) : d \notin sn
  BY <1>8, <1>10 DEF Settled, NothingTwice
<1> DEFINE j == PlaceOf(d)
<1>12. j \in Direct(i) /\ j \in Places /\ ids[j] = d
  <2>1. d \in StepIds
    BY <1>8, DirectId
  <2> QED
    BY <1>8, <2>1, DirectId, PlaceOfId DEF Sound
<1>13. j \in U /\ j \in Ancestors(i) /\ j \notin Ancestors(j)
  BY <1>8, <1>11, <1>12, AncestorsHold DEF HasCycle
<1>14. Ancestors(j) \subseteq Ancestors(i) /\ Ancestors(i) \subseteq Places /\ Ancestors(j) \subseteq Places
  BY <1>8, <1>12, <1>13, AncestorsOfAncestor, AncestorsHold
<1>15. <<Ancestors(j), Ancestors(i)>> \in StrictSubsetOrdering(Places)
  BY <1>13, <1>14 DEF StrictSubsetOrdering
<1>16. Ancestors(j) \in T
  BY <1>13
<1> QED
  BY <1>6, <1>7, <1>15, <1>16

-----------------------------------------------------------------------------
(* The invariant *)

IInv ==
    /\ phase \in {"unread", "check", "dfs", "valid", "kahn", "ordered", "raised"}
    /\ error # "none" <=> phase = "raised"
    /\ phase # "unread" => Shape
    /\ phase \in {"unread", "check"} => root = 0 /\ stack = <<>> /\ visiting = {} /\ done = {}
    /\ phase = "dfs" => Sound /\ Search(stack, root, visiting, done, {})
    /\ phase \in {"valid", "kahn", "ordered"} => Sound /\ ~HasCycle
    /\ phase \in {"unread", "check", "dfs", "valid"} => ready = <<>> /\ at = 1 /\ seen = {} /\ order = <<>>
    /\ phase \in {"kahn", "ordered"} => Queue(indeg, ready, at, seen, order)
    /\ phase = "ordered" => Len(order) = Len(ids)
    /\ error = "cycle detected" => HasCycle
    /\ error = "could not order steps" => ~NothingTwice

\* What is said of a plan stays true while the plan does.
LEMMA SamePlan ==
  ASSUME UNCHANGED plan
  PROVE  /\ Shape' <=> Shape
         /\ Sound' <=> Sound
         /\ HasCycle' <=> HasCycle
         /\ NothingTwice' <=> NothingTwice
         /\ Search(stack, root, visiting, done, {})' <=> Search(stack', root', visiting', done', {})
         /\ Queue(indeg, ready, at, seen, order)' <=> Queue(indeg', ready', at', seen', order')
<1>1. ids' = ids /\ deps' = deps
  BY DEF plan
<1>2. Shape' <=> Shape
  BY <1>1 DEF Shape, Places
<1>3. Sound' <=> Sound
  BY <1>1, <1>2 DEF Sound, Unique, Known, StepIds, Places
<1>4. HasCycle' <=> HasCycle
  BY <1>1 DEF HasCycle, Ancestors, Direct, Needs, Places
<1>5. NothingTwice' <=> NothingTwice
  BY <1>1 DEF NothingTwice, Places
<1>6. Search(stack, root, visiting, done, {})' <=> Search(stack', root', visiting', done', {})
  BY <1>1 DEF Search, StepIds, PlaceOf, Ancestors, Direct, Needs, Places
<1>7. Queue(indeg, ready, at, seen, order)' <=> Queue(indeg', ready', at', seen', order')
  BY <1>1 DEF Queue, StepIds, PlaceOf, Settled, Taken, Places
<1> QED
  BY <1>2, <1>3, <1>4, <1>5, <1>6, <1>7

LEMMA InitInv == Init => IInv
BY DEF Init, IInv

\* Any plan may be loaded.
LEMMA LoadInv ==
  ASSUME IInv, phase = "unread", NEW steps \in Seq(Ids), NEW d \in [1 .. Len(steps) -> Seq(Ids)],
         LoadPlan(steps, d)
  PROVE  IInv'
BY DEF IInv, LoadPlan, dfs, kahn, Shape, Places

\* A plan is refused for a reason that is neither of the graph's two.
LEMMA RaiseInv ==
  ASSUME IInv, phase # "unread", NEW what, Raise(what), UNCHANGED <<plan, dfs, kahn>>,
         what \notin {"none", "cycle detected", "could not order steps"}
  PROVE  IInv'
<1>1. Shape'
  BY SamePlan DEF IInv
<1> QED
  BY <1>1 DEF IInv, Raise

LEMMA CheckIdsInv ==
  ASSUME IInv, CheckIds
  PROVE  IInv'
<1> DEFINE unique == Cardinality(StepIds) = Len(ids)
<1>1. phase = "check" /\ error = "none" /\ Shape /\ UNCHANGED <<plan, dfs, kahn>>
  BY DEF IInv, CheckIds
<1>2. CASE ~unique
  <2>1. Raise("step ids must be unique")
    BY <1>2 DEF CheckIds
  <2> QED
    BY <1>1, <2>1, RaiseInv
<1>3. CASE unique /\ ~Known
  <2>1. Raise("depends on unknown")
    BY <1>3 DEF CheckIds, Known
  <2> QED
    BY <1>1, <2>1, RaiseInv
<1>4. CASE unique /\ Known
  <2>1. phase' = "dfs" /\ error' = error
    BY <1>4 DEF CheckIds, Known
  <2>2. Unique
    <3>1. ids \in Seq(Ids)
      BY <1>1 DEF Shape
    <3> QED
      BY <1>4, <3>1, SeqSet DEF StepIds, Unique, Places
  <2>3. Sound
    BY <1>1, <1>4, <2>2 DEF Sound
  <2>4. root' = 0 /\ stack' = <<>> /\ visiting' = {} /\ done' = {}
    BY <1>1 DEF IInv, dfs
  <2>5. Search(<<>>, 0, {}, {}, {})
    <3>1. Len(<<>>) = 0 /\ <<>> \in Seq([sid : StepIds, next : Nat \ {0}])
      OBVIOUS
    <3>2. 0 \in 0 .. Len(ids) /\ 1 .. 0 = {}
      BY <1>1 DEF Shape
    <3> QED
      BY <3>1, <3>2 DEF Search
  <2>6. Search(stack', root', visiting', done', {})
    BY <2>4, <2>5
  <2>7. Sound' /\ Search(stack, root, visiting, done, {})' /\ Shape'
    BY <1>1, <2>3, <2>6, SamePlan DEF Sound
  <2> QED
    BY <1>1, <2>1, <2>7 DEF IInv, kahn
<1> QED
  BY <1>2, <1>3, <1>4

\* A call of dfs keeps the search in order or has found a cycle.
LEMMA EnterInv ==
  ASSUME Sound, NEW rt, NEW below, NEW sid \in StepIds, Enter(sid, below),
         Search(below, rt, visiting, done, {sid}),
         below # <<>> => PlaceOf(sid) \in Direct(PlaceOf(below[Len(below)].sid))
  PROVE  \/ UNCHANGED <<phase, error>> /\ Search(stack', rt, visiting', done, {})
         \/ Raise("cycle detected") /\ HasCycle
<1>1. CASE sid \in done
  BY <1>1, EnterDone DEF Enter
<1>2. CASE sid \notin done /\ sid \in visiting
  <2>1. HasCycle
    BY <1>2, EnterOpen
  <2> QED
    BY <1>2, <2>1 DEF Enter
<1>3. CASE sid \notin done \union visiting
  <2>1. Search(Append(below, [sid |-> sid, next |-> 1]), rt, visiting \union {sid}, done, {})
    BY <1>3, EnterNew
  <2> QED
    BY <1>3, <2>1 DEF Enter
<1> QED
  BY <1>1, <1>2, <1>3

\* What the steps of the search leave to show.
LEMMA SearchInv ==
  ASSUME IInv, phase = "dfs", UNCHANGED <<plan, kahn>>,
         \/ UNCHANGED <<phase, error>> /\ Search(stack', root', visiting', done', {})
         \/ Raise("cycle detected") /\ HasCycle
  PROVE  IInv'
<1>1. Sound' /\ Shape' /\ (HasCycle' <=> HasCycle)
  BY SamePlan DEF IInv, Sound
<1>2. CASE UNCHANGED <<phase, error>> /\ Search(stack', root', visiting', done', {})
  <2>1. Search(stack, root, visiting, done, {})'
    BY <1>2, SamePlan
  <2> QED
    BY <1>1, <1>2, <2>1 DEF IInv, kahn
<1>3. CASE Raise("cycle detected") /\ HasCycle
  BY <1>1, <1>3 DEF IInv, Raise
<1> QED
  BY <1>2, <1>3

LEMMA DfsInv ==
  ASSUME IInv, DfsRoot \/ DfsCall \/ DfsReturn
  PROVE  IInv'
<1>1. phase = "dfs" /\ Sound /\ Search(stack, root, visiting, done, {}) /\ UNCHANGED <<plan, kahn>>
  BY DEF IInv, DfsRoot, DfsCall, DfsReturn
<1>2. CASE DfsRoot
  <2>1. stack = <<>> /\ root < Len(ids) /\ root' = root + 1 /\ done' = done /\ Enter(ids[root + 1], <<>>)
    BY <1>2 DEF DfsRoot
  <2>2. root + 1 \in Places
    BY <1>1, <2>1 DEF Search, Places, Sound, Shape
  <2>3. ids[root + 1] \in StepIds
    BY <1>1, <2>2, PlaceOfPlace
  <2>4. Search(<<>>, root + 1, visiting, done, {ids[root + 1]})
    BY <1>1, <2>1, CallRoot
  <2> QED
    BY <1>1, <2>1, <2>3, <2>4, EnterInv, SearchInv
<1>3. CASE DfsCall
  <2> DEFINE n == Len(stack)
  <2> DEFINE sid == deps[PlaceOf(stack[n].sid)][stack[n].next]
  <2> DEFINE below == [stack EXCEPT ![n].next = @ + 1]
  <2>1. /\ stack # <<>> /\ stack[n].next <= Len(deps[PlaceOf(stack[n].sid)])
        /\ Enter(sid, below)
        /\ root' = root /\ done' = done
    BY <1>3, SMTT(30) DEF DfsCall, Top
  <2>2. /\ sid \in StepIds /\ below # <<>>
        /\ Search(below, root, visiting, done, {sid})
        /\ PlaceOf(sid) \in Direct(PlaceOf(below[Len(below)].sid))
    BY <1>1, <2>1, CallDep
  <2> HIDE DEF sid, below
  <2>3. \/ UNCHANGED <<phase, error>> /\ Search(stack', root, visiting', done, {})
        \/ Raise("cycle detected") /\ HasCycle
    BY <1>1, <2>1, <2>2, EnterInv
  <2> QED
    BY <1>1, <2>1, <2>3, SearchInv
<1>4. CASE DfsReturn
  <2>1. /\ stack # <<>> /\ stack[Len(stack)].next > Len(deps[PlaceOf(stack[Len(stack)].sid)])
        /\ visiting' = visiting \ {stack[Len(stack)].sid}
        /\ done' = done \union {stack[Len(stack)].sid}
        /\ stack' = Front(stack) /\ UNCHANGED <<phase, error, root>>
    BY <1>4 DEF DfsReturn, Top
  <2>2. Search(stack', root', visiting', done', {})
    BY <1>1, <2>1, ReturnDep
  <2> QED
    BY <1>1, <2>1, <2>2, SearchInv
<1> QED
  BY <1>2, <1>3, <1>4

LEMMA DfsEndInv ==
  ASSUME IInv, DfsEnd
  PROVE  IInv'
<1>1. /\ phase = "dfs" /\ stack = <<>> /\ root = Len(ids) /\ phase' = "valid"
      /\ UNCHANGED <<plan, error, dfs, kahn>> /\ Sound /\ Search(stack, root, visiting, done, {})
  BY DEF IInv, DfsEnd
<1>2. ~HasCycle
  BY <1>1, SearchEnds
<1>3. Sound' /\ Shape' /\ ~HasCycle'
  BY <1>1, <1>2, SamePlan DEF Sound
<1> QED
  BY <1>1, <1>3 DEF IInv, kahn

LEMMA StartKahnInv ==
  ASSUME IInv, StartKahn
  PROVE  IInv'
<1>1. /\ phase = "valid" /\ phase' = "kahn" /\ error' = error /\ UNCHANGED plan
      /\ indeg' = [j \in Places |-> Len(deps[j])]
      /\ ready' = <<>> /\ at' = 1 /\ seen' = {} /\ order' = <<>>
      /\ Sound /\ ~HasCycle
  BY DEF IInv, StartKahn
<1>2. Queue(indeg', ready', at', seen', order')
  BY <1>1, QueueStarts
<1>3. Queue(indeg, ready, at, seen, order)' /\ Sound' /\ Shape' /\ ~HasCycle'
  BY <1>1, <1>2, SamePlan DEF Sound
<1> QED
  BY <1>1, <1>3 DEF IInv

\* What the steps of the queue leave to show.
LEMMA QueueInv ==
  ASSUME IInv, phase = "kahn", UNCHANGED <<plan, phase, error>>,
         Queue(indeg', ready', at', seen', order')
  PROVE  IInv'
<1>1. Queue(indeg, ready, at, seen, order)' /\ Sound' /\ Shape' /\ ~HasCycle'
  BY SamePlan DEF IInv, Sound
<1> QED
  BY <1>1 DEF IInv

LEMMA KahnInv ==
  ASSUME IInv, KahnRoots \/ KahnFollow \/ KahnPop
  PROVE  IInv'
<1>1. phase = "kahn" /\ Sound /\ Queue(indeg, ready, at, seen, order) /\ UNCHANGED <<plan, phase, error>>
  BY DEF IInv, KahnRoots, KahnFollow, KahnPop
<1>2. CASE KahnRoots
  BY <1>1, <1>2, QueueRoot, QueueInv DEF KahnRoots
<1>3. CASE KahnFollow
  <2>1. at \in Places /\ order # <<>> /\ at' = at + 1 /\ seen' = seen /\ order' = order
    BY <1>3 DEF KahnFollow
  <2>2. CASE Needs(at, Last(order))
    <3>1. /\ indeg' = [indeg EXCEPT ![at] = @ - 1]
          /\ ready' = IF indeg[at] = 1 THEN Append(ready, ids[at]) ELSE ready
      BY <1>3, <2>2 DEF KahnFollow
    <3>2. Queue([indeg EXCEPT ![at] = @ - 1],
                IF indeg[at] = 1 THEN Append(ready, ids[at]) ELSE ready, at + 1, seen, order)
      BY <1>1, <2>1, <2>2, QueueFollow
    <3>3. Queue(indeg', ready', at', seen', order')
      BY <2>1, <3>1, <3>2, Zenon
    <3> QED
      BY <1>1, <3>3, QueueInv
  <2>3. CASE ~Needs(at, Last(order))
    <3>1. indeg' = indeg /\ ready' = ready
      BY <1>3, <2>3 DEF KahnFollow
    <3>2. Queue(indeg, ready, at + 1, seen, order)
      BY <1>1, <2>1, <2>3, QueuePass
    <3> QED
      BY <1>1, <2>1, <3>1, <3>2, QueueInv
  <2> QED
    BY <2>2, <2>3
<1>4. CASE KahnPop
  <2>1. at \notin Places /\ ready # <<>> /\ ready' = Tail(ready) /\ indeg' = indeg
    BY <1>4 DEF KahnPop
  <2>2. CASE Head(ready) \in seen
    <3>1. at' = at /\ seen' = seen /\ order' = order
      BY <1>4, <2>2 DEF KahnPop
    <3>2. Queue(indeg, Tail(ready), at, seen, order)
      BY <1>1, <2>1, <2>2, QueuePop
    <3> QED
      BY <1>1, <2>1, <3>1, <3>2, QueueInv
  <2>3. CASE Head(ready) \notin seen
    <3>1. /\ at' = 1 /\ seen' = seen \union {Head(ready)}
          /\ order' = Append(order, Head(ready))
      BY <1>4, <2>3 DEF KahnPop
    <3>2. Queue(indeg, Tail(ready), 1, seen \union {Head(ready)}, Append(order, Head(ready)))
      BY <1>1, <2>1, <2>3, QueuePop
    <3>3. Queue(indeg', ready', at', seen', order')
      BY <2>1, <3>1, <3>2
    <3> QED
      BY <1>1, <3>3, QueueInv
  <2> QED
    BY <2>2, <2>3
<1> QED
  BY <1>2, <1>3, <1>4

LEMMA KahnEndInv ==
  ASSUME IInv, KahnEnd
  PROVE  IInv'
<1>1. /\ phase = "kahn" /\ at \notin Places /\ ready = <<>> /\ UNCHANGED <<plan, dfs, kahn>>
      /\ error = "none" /\ Sound /\ ~HasCycle /\ Queue(indeg, ready, at, seen, order)
  BY DEF IInv, KahnEnd
<1>2. Sound' /\ Shape' /\ ~HasCycle' /\ (NothingTwice' <=> NothingTwice)
  BY <1>1, SamePlan DEF Sound
<1>3. Queue(indeg, ready, at, seen, order)'
  <2>1. Queue(indeg', ready', at', seen', order')
    BY <1>1 DEF kahn
  <2> QED
    BY <1>1, <2>1, SamePlan
<1>4. CASE Len(order) = Len(ids)
  <2>1. phase' = "ordered" /\ error' = error /\ order' = order /\ ids' = ids
    BY <1>1, <1>4 DEF KahnEnd, plan, kahn
  <2> QED
    BY <1>1, <1>2, <1>3, <1>4, <2>1 DEF IInv
<1>5. CASE Len(order) # Len(ids)
  <2>1. ~NothingTwice
    BY <1>1, <1>5, QueueStuck
  <2>2. phase' = "raised" /\ error' = "could not order steps"
    BY <1>5 DEF KahnEnd, Raise
  <2> QED
    BY <1>2, <2>1, <2>2 DEF IInv
<1> QED
  BY <1>4, <1>5

LEMMA StutterInv ==
  ASSUME IInv, UNCHANGED vars
  PROVE  IInv'
<1>1. UNCHANGED plan /\ UNCHANGED <<phase, error, dfs, kahn>>
  BY DEF vars, plan, dfs, kahn
<1>2. /\ Search(stack, root, visiting, done, {})' <=> Search(stack, root, visiting, done, {})
      /\ Queue(indeg, ready, at, seen, order)' <=> Queue(indeg, ready, at, seen, order)
  BY <1>1, SamePlan DEF dfs, kahn
<1>3. ids' = ids /\ error' = error /\ phase' = phase
  BY <1>1 DEF plan
<1> QED
  BY <1>1, <1>2, <1>3, SamePlan DEF IInv, dfs, kahn

\* Once a plan is loaded, the search and the queue keep the invariant, whoever loaded it.
LEMMA WorkInv ==
  ASSUME IInv, Validate \/ TopoOrder \/ UNCHANGED vars
  PROVE  IInv'
BY CheckIdsInv, DfsInv, DfsEndInv, StartKahnInv, KahnInv, KahnEndInv, StutterInv DEF Validate, TopoOrder

LEMMA ReadFileInv ==
  ASSUME IInv, ReadFile
  PROVE  IInv'
<1>1. PICK steps \in IdLists :
          phase = "unread" /\ \E d \in [1 .. Len(steps) -> DepLists] : LoadPlan(steps, d)
  BY DEF ReadFile
<1>5. PICK d \in [1 .. Len(steps) -> DepLists] : LoadPlan(steps, d)
  BY <1>1
<1>2. steps \in Seq(Ids)
  BY GraphAssumption
<1>3. DepLists \subseteq Seq(Ids)
  BY DEF DepLists
<1>4. d \in [1 .. Len(steps) -> Seq(Ids)]
  BY <1>3
<1> QED
  BY <1>1, <1>2, <1>4, <1>5, LoadInv

\* IInv is inductive.
THEOREM GraphInvariant == Spec => []IInv
<1>1. ASSUME IInv, [Next]_vars PROVE IInv'
  BY <1>1, ReadFileInv, WorkInv DEF Next, Finished
<1> QED
  BY <1>1, InitInv, PTL DEF Spec

-----------------------------------------------------------------------------
(* What it says of every plan *)

LEMMA InvCycle == IInv => CycleIsFound
BY DEF IInv, CycleIsFound

LEMMA InvOrder == IInv => OrderRespectsDeps
<1> SUFFICES ASSUME IInv, phase = "ordered"
             PROVE  /\ ToSet(order) = StepIds /\ Len(order) = Len(ids)
                    /\ \A i, j \in DOMAIN order : Needs(PlaceOf(order[j]), order[i]) => i < j
  BY DEF OrderRespectsDeps
<1> QED
  BY QueueOrders DEF IInv

LEMMA InvRepeats == IInv => OnlyRepeatsAreUnorderable
<1>1. IInv /\ phase = "ordered" => NothingTwice
  BY QueueOrders DEF IInv
<1> QED
  BY <1>1 DEF IInv, OnlyRepeatsAreUnorderable

\* validate_plan refuses a plan for its cycle exactly when it has one.
THEOREM SearchFindsCycles == Spec => []CycleIsFound
BY GraphInvariant, InvCycle, PTL

\* What topo_order returns is all the steps, each after what it depends on.
THEOREM OrderIsTopological == Spec => []OrderRespectsDeps
BY GraphInvariant, InvOrder, PTL

\* A plan without a cycle has no order exactly when a depends_on lists an id twice.
THEOREM RepeatsAlone == Spec => []OnlyRepeatsAreUnorderable
BY GraphInvariant, InvRepeats, PTL

-----------------------------------------------------------------------------
(* The waves *)

LEMMA NatLeast ==
  ASSUME NEW T \in SUBSET Nat, T # {}
  PROVE  \E k \in T : \A n \in T : k <= n
<1>1. PICK k \in T : \A n \in T : <<n, k>> \notin OpToRel(<, Nat)
  BY NatLessThanWellFounded, WFMin
<1>2. \A n \in T : ~(n < k)
  BY <1>1 DEF OpToRel
<1> QED
  BY <1>2

\* h is what the waves hold, as far as the n-th.
IsPlaced(h, n) ==
    /\ h \in [0 .. n -> SUBSET Places]
    /\ h[0] = {}
    /\ \A k \in 1 .. n : h[k] = h[k - 1] \union WaveAfter(h[k - 1])

\* There is one for each n: the next wave can always be formed.
LEMMA WavesExist == \A n \in Nat : \E h : IsPlaced(h, n)
<1> DEFINE T == {n \in Nat : ~(\E h : IsPlaced(h, n))}
<1> SUFFICES ASSUME T # {} PROVE FALSE
  OBVIOUS
<1>1. PICK m \in T : \A n \in T : m <= n
  BY NatLeast
<1>2. CASE m = 0
  <2>1. IsPlaced([k \in 0 .. 0 |-> {}], 0)
    BY DEF IsPlaced
  <2> QED
    BY <1>1, <1>2, <2>1
<1>3. CASE m # 0
  <2>1. m - 1 \in Nat /\ m - 1 \notin T
    BY <1>1, <1>3
  <2>2. PICK h : IsPlaced(h, m - 1)
    BY <2>1
  <2> DEFINE last == h[m - 1] \union WaveAfter(h[m - 1])
             g == [k \in 0 .. m |-> IF k = m THEN last ELSE h[k]]
  <2>3. h[m - 1] \in SUBSET Places /\ last \in SUBSET Places
    BY <2>1, <2>2 DEF IsPlaced, WaveAfter
  <2> HIDE DEF last
  <2>4. g \in [0 .. m -> SUBSET Places] /\ g[0] = {}
    BY <1>3, <2>1, <2>2, <2>3 DEF IsPlaced
  <2>5. ASSUME NEW k \in 1 .. m PROVE g[k] = g[k - 1] \union WaveAfter(g[k - 1])
    <3>1. CASE k = m
      BY <2>1, <3>1 DEF last
    <3>2. CASE k # m
      <4>1. k \in 1 .. m - 1 /\ k - 1 \in 0 .. m /\ k - 1 # m /\ k \in 0 .. m
        BY <2>1, <3>2
      <4>2. g[k] = h[k] /\ g[k - 1] = h[k - 1]
        BY <3>2, <4>1
      <4> QED
        BY <2>2, <4>1, <4>2 DEF IsPlaced
    <3> QED
      BY <3>1, <3>2
  <2> HIDE DEF g
  <2>6. IsPlaced(g, m)
    BY <2>4, <2>5 DEF IsPlaced
  <2> QED
    BY <1>1, <2>6
<1> QED
  BY <1>2, <1>3

LEMMA PlacedIs == ASSUME Shape PROVE IsPlaced(Placed, Len(ids))
<1> DEFINE N == Len(ids)
           Extend(h) == [k \in 0 .. N |->
                           IF k = 0 THEN {} ELSE h[k - 1] \union WaveAfter(h[k - 1])]
           placed == CHOOSE h : h = Extend(h)
<1>1. N \in Nat
  BY DEF Shape
<1>2. Placed = placed
  BY DEF Placed
<1>3. PICK h : IsPlaced(h, N)
  BY <1>1, WavesExist
<1>4. h = Extend(h)
  BY <1>3 DEF IsPlaced
<1> HIDE DEF Extend
<1>5. placed = Extend(placed)
  BY <1>4
<1> HIDE DEF placed
<1>6. /\ placed = [k \in 0 .. N |-> placed[k]] /\ placed[0] = {}
      /\ \A k \in 1 .. N : placed[k] = placed[k - 1] \union WaveAfter(placed[k - 1])
  <2>1. placed = [k \in 0 .. N |-> IF k = 0 THEN {} ELSE placed[k - 1] \union WaveAfter(placed[k - 1])]
    BY <1>5 DEF Extend
  <2>2. placed = [k \in 0 .. N |-> placed[k]]
    BY <2>1
  <2>3. ASSUME NEW k \in 0 .. N
        PROVE  placed[k] = IF k = 0 THEN {} ELSE placed[k - 1] \union WaveAfter(placed[k - 1])
    BY <2>1
  <2>4. 0 \in 0 .. N /\ \A k \in 1 .. N : k \in 0 .. N /\ k # 0
    BY <1>1
  <2> QED
    BY <2>2, <2>3, <2>4
<1> DEFINE T == {k \in 0 .. N : ~(placed[k] \in SUBSET Places)}
<1>7. T = {}
  <2> SUFFICES ASSUME T # {} PROVE FALSE
    OBVIOUS
  <2>0. T \subseteq Nat
    BY <1>1
  <2> HIDE DEF T
  <2>1. PICK m \in T : \A k \in T : m <= k
    BY <2>0, NatLeast
  <2> USE DEF T
  <2>2. m # 0 /\ m \in 1 .. N /\ m - 1 \in 0 .. N /\ m - 1 \notin T
    BY <1>1, <1>6, <2>1
  <2>3. placed[m - 1] \in SUBSET Places
    BY <2>2
  <2>4. placed[m] \in SUBSET Places
    BY <1>6, <2>2, <2>3 DEF WaveAfter
  <2> QED
    BY <2>1, <2>4
<1>8. placed \in [0 .. N -> SUBSET Places]
  BY <1>6, <1>7
<1> QED
  BY <1>2, <1>6, <1>8 DEF IsPlaced

\* A later wave adds to the earlier ones.
LEMMA PlacedGrows ==
  ASSUME Shape, NEW a \in 0 .. Len(ids), NEW b \in 0 .. Len(ids), a <= b
  PROVE  Placed[a] \subseteq Placed[b]
<1> DEFINE N == Len(ids)
           T == {k \in 0 .. N : a <= k /\ ~(Placed[a] \subseteq Placed[k])}
<1>1. N \in Nat /\ IsPlaced(Placed, N)
  BY PlacedIs DEF Shape
<1> SUFFICES ASSUME T # {} PROVE FALSE
  OBVIOUS
<1>0. T \subseteq Nat
  BY <1>1
<1> HIDE DEF T
<1>2. PICK m \in T : \A k \in T : m <= k
  BY <1>0, NatLeast
<1> USE DEF T
<1>3. m # a /\ m \in 1 .. N /\ m - 1 \in 0 .. N /\ a <= m - 1 /\ m - 1 \notin T
  BY <1>1, <1>2
<1>4. Placed[a] \subseteq Placed[m - 1]
  BY <1>3
<1>5. Placed[m - 1] \subseteq Placed[m]
  BY <1>1, <1>3 DEF IsPlaced
<1> QED
  BY <1>2, <1>4, <1>5

\* The first k waves hold at least the first k steps of the order.
LEMMA OrderIsPlaced ==
  ASSUME IInv, phase = "ordered", NEW k \in 1 .. Len(ids)
  PROVE  PlaceOf(order[k]) \in Placed[k]
<1> DEFINE N == Len(ids)
           T == {n \in 1 .. N : PlaceOf(order[n]) \notin Placed[n]}
<1>1. Sound /\ Shape /\ N \in Nat /\ IsPlaced(Placed, N)
  BY PlacedIs DEF IInv, Sound, Shape
<1>2. /\ ToSet(order) = StepIds /\ Len(order) = N
      /\ \A i, j \in DOMAIN order : Needs(PlaceOf(order[j]), order[i]) => i < j
  BY InvOrder DEF OrderRespectsDeps
<1>3. DOMAIN order = 1 .. N
  BY <1>1, <1>2 DEF IInv, Queue
<1> SUFFICES ASSUME T # {} PROVE FALSE
  OBVIOUS
<1>0. T \subseteq Nat
  BY <1>1
<1> HIDE DEF T
<1>4. PICK m \in T : \A n \in T : m <= n
  BY <1>0, NatLeast
<1> USE DEF T
<1> DEFINE i == PlaceOf(order[m])
<1>5. i \in Places /\ m \in 1 .. N /\ m - 1 \in 0 .. N
  <2>1. order[m] \in StepIds
    BY <1>2, <1>3, <1>4 DEF ToSet
  <2> QED
    BY <1>1, <1>4, <2>1, PlaceOfId
<1> HIDE DEF i
<1>6. ASSUME NEW d \in ToSet(deps[i]) PROVE d \in {ids[j] : j \in Placed[m - 1]}
  <2>1. d \in StepIds
    BY <1>1, <1>5 DEF Sound, Known
  <2>2. PICK l \in 1 .. N : order[l] = d
    BY <1>2, <1>3, <2>1 DEF ToSet
  <2>3. l < m
    BY <1>2, <1>3, <1>4, <1>6, <2>2 DEF Needs, i
  <2>4. l \notin T
    BY <1>4, <2>3
  <2>5. PlaceOf(d) \in Placed[l] /\ ids[PlaceOf(d)] = d
    BY <1>1, <2>1, <2>2, <2>4, PlaceOfId
  <2>6. Placed[l] \subseteq Placed[m - 1]
    <3>1. l \in 0 .. N /\ l <= m - 1
      BY <1>1, <1>5, <2>3
    <3> QED
      BY <1>1, <1>5, <3>1, PlacedGrows
  <2> QED
    BY <2>5, <2>6
<1>7. i \in Placed[m - 1] \union WaveAfter(Placed[m - 1])
  BY <1>5, <1>6 DEF WaveAfter
<1>8. i \in Placed[m]
  BY <1>1, <1>5, <1>7 DEF IsPlaced
<1> QED
  BY <1>4, <1>8 DEF i

\* A step that some wave holds has one that is its own.
LEMMA OwnWave ==
  ASSUME Shape, NEW i \in Placed[Len(ids)]
  PROVE  WaveOf(i) \in 1 .. Len(ids) /\ i \in Placed[WaveOf(i)] /\ i \notin Placed[WaveOf(i) - 1]
<1> DEFINE N == Len(ids)
           T == {k \in 0 .. N : i \in Placed[k]}
<1>1. N \in Nat /\ IsPlaced(Placed, N)
  BY PlacedIs DEF Shape
<1>2. N \in T
  BY <1>1
<1>0. T \subseteq Nat
  BY <1>1
<1> HIDE DEF T
<1>3. PICK m \in T : \A k \in T : m <= k
  BY <1>0, <1>2, NatLeast
<1> USE DEF T
<1>4. m # 0 /\ m \in 1 .. N /\ m - 1 \in 0 .. N /\ m - 1 \notin T
  BY <1>1, <1>3 DEF IsPlaced
<1>5. i \in Placed[m] \ Placed[m - 1]
  BY <1>3, <1>4
<1>6. \E k \in 1 .. N : i \in Placed[k] \ Placed[k - 1]
  BY <1>4, <1>5
<1> QED
  BY <1>6 DEF WaveOf

LEMMA InvWaves == IInv => WavesAgree
<1> SUFFICES ASSUME IInv, phase = "ordered"
             PROVE  /\ Placed[Len(ids)] = Places
                    /\ \A i, j \in Places : Needs(j, ids[i]) => WaveOf(i) < WaveOf(j)
  BY DEF WavesAgree
<1> DEFINE N == Len(ids)
<1>1. Sound /\ Shape /\ N \in Nat /\ IsPlaced(Placed, N)
  BY PlacedIs DEF IInv, Sound, Shape
<1>2. ToSet(order) = StepIds /\ DOMAIN order = 1 .. N
  BY <1>1, InvOrder, SMTT(30) DEF OrderRespectsDeps, IInv, Queue
<1>3. Placed[N] = Places
  <2>1. ASSUME NEW i \in Places PROVE i \in Placed[N]
    <3>1. PICK k \in 1 .. N : order[k] = ids[i]
      BY <1>1, <1>2, PlaceOfPlace DEF ToSet
    <3>2. PlaceOf(order[k]) = i
      BY <1>1, <3>1, PlaceOfPlace
    <3>3. i \in Placed[k]
      BY <3>2, OrderIsPlaced
    <3>4. k \in 0 .. N /\ N \in 0 .. N /\ k <= N
      BY <1>1
    <3> QED
      BY <1>1, <3>3, <3>4, PlacedGrows
  <2>2. Placed[N] \in SUBSET Places
    BY <1>1 DEF IsPlaced
  <2> QED
    BY <2>1, <2>2
<1>4. ASSUME NEW i \in Places, NEW j \in Places, Needs(j, ids[i])
      PROVE  WaveOf(i) < WaveOf(j)
  <2> DEFINE a == WaveOf(i)
             b == WaveOf(j)
  <2>1. /\ a \in 1 .. N /\ i \in Placed[a] /\ i \notin Placed[a - 1]
        /\ b \in 1 .. N /\ j \in Placed[b] /\ j \notin Placed[b - 1]
    BY <1>1, <1>3, OwnWave
  <2> HIDE DEF a, b
  <2>2. a - 1 \in 0 .. N /\ b - 1 \in 0 .. N /\ a \in Nat /\ b \in Nat
    BY <1>1, <2>1
  <2>3. j \in WaveAfter(Placed[b - 1])
    BY <1>1, <2>1 DEF IsPlaced
  <2>4. Placed[b - 1] \in SUBSET Places
    BY <1>1, <2>2 DEF IsPlaced
  <2>5. PICK l \in Placed[b - 1] : ids[l] = ids[i]
    BY <1>4, <2>3 DEF WaveAfter, Needs
  <2>6. i \in Placed[b - 1]
    BY <1>1, <2>4, <2>5 DEF Sound, Unique
  <2>7. ~(b - 1 <= a - 1)
    BY <1>1, <2>1, <2>2, <2>6, PlacedGrows
  <2> QED
    BY <2>2, <2>7 DEF a, b
<1> QED
  BY <1>3, <1>4

\* The waves of LangGraph and the order of the native engine agree on every plan: each step
\* has a wave, and it comes after the waves of all it depends on.
THEOREM WavesFollowTheOrder == Spec => []WavesAgree
BY GraphInvariant, InvWaves, PTL

-----------------------------------------------------------------------------
(* The rules of policy.py *)

\* A plan that is being ordered has passed check_plan, and still says what it said there; the
\* approvals it names are gates of it.
PolicyInv ==
    /\ IInv
    /\ phase \in {"unread", "check", "dfs"} => ~checked
    /\ phase \in {"kahn", "ordered"} => checked
    /\ phase = "unread" => file.gates = {}
    /\ \A g \in file.gates : g \in Places /\ file.kind[g] = "gate"
    /\ checked => Accepts(file)

LEMMA PolicyInitInv == PolicyInit => PolicyInv
BY InitInv DEF PolicyInit, PolicyInv, Init, Unread, FileOf

\* What the rules say of a plan stays true while the plan and what it says do.
LEMMA SameRules ==
  ASSUME UNCHANGED <<plan, file>>
  PROVE  Places' = Places /\ (Accepts(file)' <=> Accepts(file))
<1>1. ids' = ids /\ deps' = deps /\ file' = file
  BY DEF plan
<1>2. Accepts(file)' <=> Accepts(file)
  BY <1>1 DEF Accepts, DeliveryRule, ReviewRule, LeaderRule, Covered, WorkBehind, Needed, InVertical,
              Ancestors, Direct, Needs, Places
<1> QED
  BY <1>1, <1>2 DEF Places

\* A plan is loaded that names no final approvals yet.
LEMMA PolicyLoadInv ==
  ASSUME PolicyInv, phase = "unread", NEW steps \in Seq(Ids), NEW d \in [1 .. Len(steps) -> Seq(Ids)],
         LoadPlan(steps, d), checked' = checked, file'.gates = {}
  PROVE  PolicyInv'
<1>1. IInv'
  BY LoadInv DEF PolicyInv
<1>2. phase' = "check" /\ ~checked
  BY DEF PolicyInv, LoadPlan
<1> QED
  BY <1>1, <1>2 DEF PolicyInv

LEMMA PolicyReadInv ==
  ASSUME PolicyInv, Load
  PROVE  PolicyInv'
<1>1. IInv'
  BY ReadFileInv DEF PolicyInv, Load
<1>2. phase = "unread" /\ phase' = "check" /\ UNCHANGED <<file, checked>>
  BY DEF Load, ReadFile, LoadPlan, policyVars
<1> QED
  BY <1>1, <1>2 DEF PolicyInv

LEMMA PolicySearchInv ==
  ASSUME PolicyInv, Validate \/ Finished, UNCHANGED policyVars
  PROVE  PolicyInv'
<1>1. IInv'
  BY WorkInv DEF PolicyInv, Finished
<1>2. UNCHANGED plan
  BY DEF Validate, CheckIds, DfsRoot, DfsCall, DfsReturn, DfsEnd, Finished, vars, plan
<1>3. Places' = Places /\ (Accepts(file)' <=> Accepts(file)) /\ UNCHANGED <<file, checked>>
  BY <1>2, SameRules DEF policyVars
<1>4. phase' \in {"kahn", "ordered"} => phase' = phase
  BY DEF Validate, CheckIds, DfsRoot, DfsCall, DfsReturn, DfsEnd, Enter, Raise, Finished, vars
<1>5. /\ phase' \in {"unread", "check", "dfs"} => phase \in {"unread", "check", "dfs"}
      /\ phase' = "unread" => phase = "unread"
  BY DEF Validate, CheckIds, DfsRoot, DfsCall, DfsReturn, DfsEnd, Enter, Raise, Finished, vars
<1> QED
  BY <1>1, <1>3, <1>4, <1>5 DEF PolicyInv

LEMMA PolicyCheckInv ==
  ASSUME PolicyInv, CheckPlan
  PROVE  PolicyInv'
<1>1. phase = "valid" /\ ~checked
  BY DEF CheckPlan
<1>2. CASE Refuse
  <2>1. IInv'
    BY <1>1, <1>2, RaiseInv DEF PolicyInv, Refuse
  <2>2. phase' = "raised" /\ UNCHANGED <<plan, file, checked>>
    BY <1>2 DEF Refuse, Raise, policyVars
  <2>3. Places' = Places
    BY <2>2, SameRules
  <2> QED
    BY <1>1, <2>1, <2>2, <2>3 DEF PolicyInv
<1>3. CASE /\ IF file = Unread THEN file' \in Files ELSE UNCHANGED file
           /\ Accepts(file') /\ checked' = TRUE /\ UNCHANGED vars
  <2>1. IInv'
    BY <1>3, WorkInv DEF PolicyInv
  <2>2. ids' = ids /\ deps' = deps /\ phase' = phase /\ Places' = Places
    BY <1>3 DEF vars, Places
  <2>3. \A g \in file'.gates : g \in Places /\ file'.kind[g] = "gate"
    BY <1>3 DEF PolicyInv, Files, Gates
  <2>4. Accepts(file)'
    <3>1. Places # {} /\ DeliveryRule(file') /\ ReviewRule(file') /\ LeaderRule(file')
      BY <1>3 DEF Accepts
    <3>2. \A i : Direct(i)' = Direct(i) /\ Ancestors(i)' = Ancestors(i)
      BY <2>2 DEF Ancestors, Direct, Needs, Places
    <3>3. DeliveryRule(file)'
      <4>1. Covered(file)' = Covered(file')
        BY <2>2 DEF Covered, Ancestors, Direct, Needs, Places
      <4>2. InVertical(file)' = InVertical(file')
        BY <2>2 DEF InVertical, Places
      <4> QED
        BY <2>2, <3>1, <4>1, <4>2 DEF DeliveryRule
    <3>4. ReviewRule(file)'
      BY <2>2, <3>1, <3>2 DEF ReviewRule, WorkBehind, Needed, InVertical, Places
    <3>5. LeaderRule(file)'
      BY <2>2, <3>1, <3>2 DEF LeaderRule, InVertical, Places
    <3> QED
      BY <2>2, <3>1, <3>3, <3>4, <3>5 DEF Accepts
  <2> QED
    BY <1>1, <1>3, <2>1, <2>2, <2>3, <2>4 DEF PolicyInv
<1> QED
  BY <1>2, <1>3 DEF CheckPlan

LEMMA PolicyOrderInv ==
  ASSUME PolicyInv, Order
  PROVE  PolicyInv'
<1>1. IInv'
  BY WorkInv DEF PolicyInv, Order
<1>2. UNCHANGED plan /\ UNCHANGED <<file, checked>>
  BY DEF Order, TopoOrder, StartKahn, KahnRoots, KahnFollow, KahnPop, KahnEnd, policyVars
<1>3. Places' = Places /\ (Accepts(file)' <=> Accepts(file))
  BY <1>2, SameRules
<1>4. phase \in {"valid", "kahn"} /\ phase' \notin {"unread", "check", "dfs"} /\ checked
  BY DEF Order, PolicyInv, TopoOrder, StartKahn, KahnRoots, KahnFollow, KahnPop, KahnEnd, Raise
<1> QED
  BY <1>1, <1>2, <1>3, <1>4 DEF PolicyInv

LEMMA PolicyStutterInv ==
  ASSUME PolicyInv, UNCHANGED <<vars, policyVars>>
  PROVE  PolicyInv'
<1>1. IInv'
  BY WorkInv DEF PolicyInv
<1>2. UNCHANGED plan /\ phase' = phase /\ UNCHANGED <<file, checked>>
  BY DEF vars, plan, policyVars
<1> QED
  BY <1>1, <1>2, SameRules DEF PolicyInv

\* PolicyInv is inductive.
THEOREM PolicyInvariant == PolicySpec => []PolicyInv
<1>1. ASSUME PolicyInv, [PolicyNext]_<<vars, policyVars>> PROVE PolicyInv'
  BY <1>1, PolicyReadInv, PolicySearchInv, PolicyCheckInv, PolicyOrderInv, PolicyStutterInv DEF PolicyNext
<1> QED
  BY <1>1, PolicyInitInv, PTL DEF PolicySpec

-----------------------------------------------------------------------------
(* The order *)

\* Each step has one place in the order.
LEMMA AtPlace ==
  ASSUME IInv, phase = "ordered", NEW i \in Places
  PROVE  /\ At(i) \in 1 .. Len(order) /\ order[At(i)] = ids[i]
         /\ \A k \in 1 .. Len(order) : order[k] = ids[i] => k = At(i)
<1>1. Sound /\ Queue(indeg, ready, at, seen, order) /\ OrderRespectsDeps
  BY InvOrder DEF IInv
<1>2. DOMAIN order = 1 .. Len(order)
  BY <1>1 DEF Queue
<1>3. \E k \in DOMAIN order : order[k] = ids[i]
  <2>1. ids[i] \in StepIds
    BY <1>1, PlaceOfPlace
  <2> QED
    BY <1>1, <2>1 DEF OrderRespectsDeps, ToSet
<1>4. At(i) \in DOMAIN order /\ order[At(i)] = ids[i]
  BY <1>3 DEF At
<1>5. \A j, k \in 1 .. Len(order) : order[j] = order[k] => j = k
  BY <1>1 DEF Queue
<1> QED
  BY <1>2, <1>4, <1>5

\* depends_on, direct or not, is before in the order.
LEMMA AncestorFirst ==
  ASSUME IInv, phase = "ordered", NEW i \in Places, NEW j \in Ancestors(i)
  PROVE  j \in Places /\ At(j) < At(i)
<1> DEFINE S == {k \in Places : At(k) < At(i)}
<1>1. Sound /\ OrderRespectsDeps
  BY InvOrder DEF IInv
<1>2. ASSUME NEW k \in Places, NEW l \in Direct(k) PROVE l \in Places /\ At(l) < At(k)
  <2>1. l \in Places /\ Needs(k, ids[l])
    BY DEF Direct
  <2>2. order[At(k)] = ids[k] /\ order[At(l)] = ids[l] /\ At(k) \in DOMAIN order /\ At(l) \in DOMAIN order
    <3>1. DOMAIN order = 1 .. Len(order)
      BY DEF IInv, Queue
    <3> QED
      BY <2>1, <3>1, AtPlace
  <2>3. PlaceOf(ids[k]) = k
    BY <1>1, PlaceOfPlace
  <2> QED
    BY <1>1, <2>1, <2>2, <2>3 DEF OrderRespectsDeps
<1>3. Direct(i) \subseteq S
  BY <1>2
<1>4. ASSUME NEW k \in S, NEW l \in Direct(k) PROVE l \in S
  <2>1. l \in Places /\ At(l) < At(k) /\ At(k) < At(i)
    BY <1>2
  <2>2. At(l) \in Int /\ At(k) \in Int /\ At(i) \in Int
    BY <2>1, AtPlace
  <2> QED
    BY <2>1, <2>2
<1>5. Ancestors(i) \subseteq S
  BY <1>3, <1>4, AncestorsLeast
<1> QED
  BY <1>5

\* The rules of the plan hold of the order: every plan file that check_plan lets through is run
\* with its leader first, its work before the reviewers of an approval and these before it.
LEMMA InvReviewed == PolicyInv => WorkIsReviewed
<1> SUFFICES ASSUME PolicyInv, phase = "ordered"
             PROVE  /\ \A l \in Places : file.kind[l] = "lead" => At(l) = 1
                    /\ file.delivery = "external" =>
                         /\ \A i \in Places \ Gates(file) : \E g \in file.gates : At(i) < At(g)
                         /\ InVertical(file) # {} =>
                              \A g \in file.gates, r \in Needed(file) : \E d \in Direct(g) :
                                  /\ file.kind[d] = r /\ At(d) < At(g)
                                  /\ \A i \in WorkBehind(file, g) : At(i) < At(d)
  BY DEF WorkIsReviewed
<1>1. IInv /\ DeliveryRule(file) /\ ReviewRule(file) /\ LeaderRule(file)
  BY DEF PolicyInv, Accepts
<1>2. file.gates \subseteq Gates(file) /\ file.gates \subseteq Places
  BY DEF PolicyInv, Gates
<1>3. ASSUME NEW l \in Places, file.kind[l] = "lead" PROVE At(l) = 1
  <2>1. Sound /\ order \in Seq(StepIds)
    BY <1>1 DEF IInv, Queue
  <2>2. At(l) \in 1 .. Len(order)
    BY <1>1, AtPlace
  <2>3. 1 \in 1 .. Len(order) /\ order[1] \in StepIds
    BY <2>1, <2>2
  <2>4. PICK i \in Places : ids[i] = order[1]
    BY <2>1, <2>3, PlaceOfId DEF Sound
  <2>5. At(i) = 1
    BY <1>1, <2>3, <2>4, AtPlace
  <2>6. i = l \/ l \in Ancestors(i)
    BY <1>1, <1>3 DEF LeaderRule
  <2>7. i = l \/ At(l) < 1
    BY <1>1, <2>5, <2>6, AncestorFirst
  <2> QED
    BY <2>2, <2>5, <2>7
<1>4. ASSUME file.delivery = "external", NEW i \in Places \ Gates(file)
      PROVE  \E g \in file.gates : At(i) < At(g)
  <2>1. i \in Covered(file) /\ i \notin file.gates
    BY <1>1, <1>2, <1>4 DEF DeliveryRule, Gates
  <2>2. PICK g \in file.gates : i \in Ancestors(g)
    BY <2>1 DEF Covered
  <2> QED
    BY <1>1, <1>2, <2>2, AncestorFirst
<1>5. ASSUME file.delivery = "external", InVertical(file) # {}, NEW g \in file.gates, NEW r \in Needed(file)
      PROVE  \E d \in Direct(g) :
                 /\ file.kind[d] = r /\ At(d) < At(g)
                 /\ \A i \in WorkBehind(file, g) : At(i) < At(d)
  <2>1. PICK d \in Direct(g) : file.kind[d] = r
    BY <1>1, <1>5 DEF ReviewRule
  <2>2. WorkBehind(file, g) \subseteq Ancestors(d)
    BY <1>1, <1>5, <2>1 DEF ReviewRule
  <2>3. g \in Places /\ d \in Ancestors(g)
    BY <1>2, <2>1, AncestorsHold
  <2>4. d \in Places /\ At(d) < At(g)
    BY <1>1, <2>3, AncestorFirst
  <2>5. \A i \in WorkBehind(file, g) : At(i) < At(d)
    BY <1>1, <2>2, <2>4, AncestorFirst
  <2> QED
    BY <2>1, <2>4, <2>5
<1> QED
  BY <1>3, <1>4, <1>5

\* check_plan's rules on depends_on are rules on the run, whatever the length of the plan.
THEOREM ReviewPrecedesApproval == PolicySpec => []WorkIsReviewed
BY PolicyInvariant, InvReviewed, PTL

\* What check_plan leaves unordered, topo_order orders: its guarantee is that of Spec.
THEOREM CheckedOrderIsTopological == PolicySpec => []OrderRespectsDeps
<1>1. PolicyInv => OrderRespectsDeps
  BY InvOrder DEF PolicyInv
<1> QED
  BY <1>1, PolicyInvariant, PTL

-----------------------------------------------------------------------------
(* The plans of the router *)

Below(S, i) == {j \in S : j < i}

\* The steps of a set of numbers in their order are the set.
LEMMA InOrderSet ==
  ASSUME NEW S \in SUBSET Nat, IsFiniteSet(S)
  PROVE  InOrder(S) \in Seq(S) /\ ToSet(InOrder(S)) = S
<1> DEFINE n == Cardinality(S)
           rank == [i \in S |-> Cardinality(Below(S, i)) + 1]
<1>1. n \in Nat
  BY FS_CardinalityType
<1>2. ASSUME NEW i \in S
      PROVE  /\ IsFiniteSet(Below(S, i)) /\ Cardinality(Below(S, i)) \in Nat
             /\ Cardinality(Below(S, i)) < n
  <2>1. Below(S, i) \in SUBSET S /\ Below(S, i) # S
    BY DEF Below
  <2>2. IsFiniteSet(Below(S, i)) /\ Cardinality(Below(S, i)) <= n /\ Cardinality(Below(S, i)) # n
    BY <2>1, FS_Subset
  <2>3. Cardinality(Below(S, i)) \in Nat
    BY <2>2, FS_CardinalityType
  <2> HIDE DEF n
  <2> QED
    BY <1>1, <2>2, <2>3
<1>3. ASSUME NEW i \in S, NEW k \in S, i < k PROVE rank[i] # rank[k]
  <2>1. Below(S, i) \in SUBSET Below(S, k) /\ Below(S, i) # Below(S, k)
    <3>1. i \in Nat /\ k \in Nat /\ \A j \in S : j \in Nat
      OBVIOUS
    <3>2. i \in Below(S, k) /\ i \notin Below(S, i)
      BY <1>3, <3>1 DEF Below
    <3>3. ASSUME NEW j \in S, j < i PROVE j < k
      BY <1>3, <3>1, <3>3
    <3>4. Below(S, i) \subseteq Below(S, k)
      BY <3>3 DEF Below
    <3> QED
      BY <3>2, <3>4
  <2>2. IsFiniteSet(Below(S, k)) /\ Cardinality(Below(S, i)) \in Nat /\ Cardinality(Below(S, k)) \in Nat
    BY <1>2
  <2>3. Cardinality(Below(S, i)) # Cardinality(Below(S, k))
    BY <2>1, <2>2, FS_Subset
  <2> QED
    BY <2>2, <2>3
<1>4. rank \in [S -> 1 .. n]
  <2> HIDE DEF n
  <2> QED
    BY <1>1, <1>2
<1>5. \A i, k \in S : rank[i] = rank[k] => i = k
  <2> HIDE DEF rank
  <2>1. \A i, k \in S : i = k \/ i < k \/ k < i
    OBVIOUS
  <2> QED
    BY <1>3, <2>1
<1>6. \A i \in S : rank[i] = Cardinality(Below(S, i)) + 1
  OBVIOUS
<1> HIDE DEF rank
<1>7. rank \in Injection(S, 1 .. n)
  BY <1>4, <1>5 DEF Injection, IsInjective
<1>8. IsFiniteSet(1 .. n) /\ Cardinality(1 .. n) = n
  BY <1>1, FS_Interval
<1>9. rank \in Surjection(S, 1 .. n)
  <2>1. Cardinality(S) = Cardinality(1 .. n)
    BY <1>8
  <2>2. IsFiniteSet(1 .. n) /\ rank \in Injection(S, 1 .. n)
    BY <1>7, <1>8
  <2> HIDE DEF n
  <2> QED
    BY <2>1, <2>2, FS_Injection
<1>10. DOMAIN InOrder(S) = 1 .. n /\ InOrder(S) = [k \in 1 .. n |-> InOrder(S)[k]]
  <2>1. \A f, T : f = [k \in T |-> CHOOSE i \in S : Cardinality({j \in S : j < i}) = k - 1]
                    => DOMAIN f = T /\ f = [k \in T |-> f[k]]
    OBVIOUS
  <2>2. InOrder(S) = [k \in 1 .. n |-> CHOOSE i \in S : Cardinality({j \in S : j < i}) = k - 1]
    BY DEF InOrder
  <2> QED
    BY <2>1, <2>2
<1>11. ASSUME NEW k \in 1 .. n PROVE InOrder(S)[k] \in S /\ rank[InOrder(S)[k]] = k
  <2>1. PICK i \in S : rank[i] = k
    BY <1>9 DEF Surjection
  <2>2. Cardinality(Below(S, i)) = k - 1
    BY <1>1, <1>2, <1>6, <2>1
  <2>3. InOrder(S)[k] = CHOOSE l \in S : Cardinality(Below(S, l)) = k - 1
    BY DEF InOrder, Below
  <2>4. InOrder(S)[k] \in S /\ Cardinality(Below(S, InOrder(S)[k])) = k - 1
    BY <2>2, <2>3
  <2>5. rank[InOrder(S)[k]] = (k - 1) + 1
    BY <1>6, <2>4
  <2>6. (k - 1) + 1 = k
    BY <1>1
  <2> QED
    BY <2>4, <2>5, <2>6
<1>12. InOrder(S) \in Seq(S)
  BY <1>1, <1>10, <1>11
<1>13. ASSUME NEW i \in S PROVE i \in ToSet(InOrder(S))
  <2>1. rank[i] \in 1 .. n
    BY <1>4
  <2>2. InOrder(S)[rank[i]] = i
    BY <1>5, <1>11, <2>1
  <2> QED
    BY <1>10, <2>1, <2>2 DEF ToSet
<1>14. ToSet(InOrder(S)) \subseteq S
  BY <1>10, <1>11 DEF ToSet
<1> QED
  BY <1>12, <1>13, <1>14

\* n steps that _validate_steps lets through.
Named(steps, n) ==
    /\ n \in 0 .. Len(RouterIds)
    /\ steps \in [1 .. n -> [agent : Kinds, deps : Seq(1 .. n)]]
    /\ \A i \in 1 .. n : ToSet(steps[i].deps) \subseteq 1 .. i - 1

\* Each step depends on earlier ones only.
Forward(is, ds) ==
    \A i \in 1 .. Len(is) : ToSet(ds[i]) \subseteq {is[j] : j \in 1 .. i - 1}

\* The last step is the approval, and every other has one after it that depends on it.
GateIsLast(is, ds) ==
    /\ Len(is) # 0 /\ is[Len(is)] = GateId
    /\ \A i \in 1 .. Len(is) - 1 : \E j \in i + 1 .. Len(is) : is[i] \in ToSet(ds[j])

LEMMA IdsOfSet ==
  ASSUME NEW n \in 0 .. Len(RouterIds), NEW s \in Seq(1 .. n)
  PROVE  IdsOf(s) \in Seq(Ids) /\ ToSet(IdsOf(s)) = {RouterIds[k] : k \in ToSet(s)}
<1>1. /\ RouterIds \in Seq(Ids) /\ Len(RouterIds) \in Nat /\ DOMAIN s = 1 .. Len(s) /\ Len(s) \in Nat
      /\ \A k \in DOMAIN s : s[k] \in 1 .. Len(RouterIds)
  BY RouterAssumption
<1>2. \A k \in DOMAIN s : RouterIds[s[k]] \in Ids
  BY <1>1, SeqEntry
<1>3. DOMAIN IdsOf(s) = DOMAIN s /\ \A k \in DOMAIN s : IdsOf(s)[k] = RouterIds[s[k]]
  BY DEF IdsOf
<1>4. IdsOf(s) \in Seq(Ids)
  BY <1>1, <1>2 DEF IdsOf
<1>5. ToSet(IdsOf(s)) = {RouterIds[k] : k \in ToSet(s)}
  BY <1>3 DEF ToSet
<1> QED
  BY <1>4, <1>5

LEMMA SinksSet ==
  ASSUME NEW steps, NEW n, Named(steps, n)
  PROVE  /\ Sinks(steps) \in SUBSET (1 .. n) /\ IsFiniteSet(Sinks(steps))
         /\ \A i \in 1 .. n : i \in Sinks(steps) \/ \E l \in i + 1 .. n : i \in ToSet(steps[l].deps)
<1>1. n \in Nat /\ DOMAIN steps = 1 .. n
  BY RouterAssumption DEF Named
<1>2. Sinks(steps) \in SUBSET (1 .. n)
  BY <1>1 DEF Sinks
<1>3. IsFiniteSet(Sinks(steps))
  BY <1>1, <1>2, FS_Interval, FS_Subset
<1>4. ASSUME NEW i \in 1 .. n, i \notin Sinks(steps)
      PROVE  \E l \in i + 1 .. n : i \in ToSet(steps[l].deps)
  <2>1. PICK l \in 1 .. n : i \in ToSet(steps[l].deps)
    BY <1>1, <1>4 DEF Sinks
  <2>2. i \in 1 .. l - 1
    BY <2>1 DEF Named
  <2> QED
    BY <1>1, <2>1, <2>2
<1> QED
  BY <1>2, <1>3, <1>4

LEMMA SeqOver ==
  ASSUME NEW T, NEW S \in SUBSET T, NEW s \in Seq(S)
  PROVE  s \in Seq(T)
OBVIOUS

LEMMA SeqIsList ==
  ASSUME NEW S, NEW s \in Seq(S)
  PROVE  s \in [1 .. Len(s) -> S]
OBVIOUS

LEMMA ListIsSeq ==
  ASSUME NEW S, NEW n \in Nat, NEW f \in [1 .. n -> S]
  PROVE  f \in Seq(S) /\ Len(f) = n /\ DOMAIN f = 1 .. n
OBVIOUS

\* What `+ [e]' and `+ []' make of a list.
LEMMA SeqPlus ==
  ASSUME NEW S, NEW s \in Seq(S), NEW e \in S
  PROVE  /\ s \o <<e>> \in Seq(S) /\ Len(s \o <<e>>) = Len(s) + 1
         /\ \A k \in 1 .. Len(s) : (s \o <<e>>)[k] = s[k]
         /\ (s \o <<e>>)[Len(s) + 1] = e
         /\ s \o <<>> = s
<1>1. <<e>> \in Seq(S) /\ Len(<<e>>) = 1 /\ <<e>>[1] = e
  OBVIOUS
<1>2. s \o <<e>> \in Seq(S) /\ Len(s \o <<e>>) = Len(s) + 1
  BY <1>1
<1>3. \A k \in 1 .. Len(s) : (s \o <<e>>)[k] = s[k]
  BY <1>1
<1>4. (s \o <<e>>)[Len(s) + 1] = e
  BY <1>1
<1>5. s \o <<>> = s
  OBVIOUS
<1> QED
  BY <1>2, <1>3, <1>4, <1>5

\* What build_plan makes of n steps, and what it is: distinct ids, a graph that goes forward, and
\* an approval behind all of it.
IdsBuilt(n, gate) == SubSeq(RouterIds, 1, n) \o (IF gate THEN <<GateId>> ELSE <<>>)
DepsBuilt(steps, n, gate) ==
    [i \in 1 .. n |-> IdsOf(steps[i].deps)] \o (IF gate THEN <<Approval(steps)>> ELSE <<>>)

Built(is, ds, n, gate) ==
    /\ is \in Seq(Ids) /\ ds \in [1 .. Len(is) -> Seq(Ids)]
    /\ Len(is) = n + (IF gate THEN 1 ELSE 0)
    /\ \A i, j \in 1 .. Len(is) : is[i] = is[j] => i = j
    /\ Forward(is, ds)
    /\ gate => GateIsLast(is, ds)

LEMMA PlanIsBuilt ==
  ASSUME NEW steps, NEW n, Named(steps, n), NEW gate \in BOOLEAN
  PROVE  Built(IdsBuilt(n, gate), DepsBuilt(steps, n, gate), n, gate)
<1> SUFFICES ASSUME NEW is, NEW ds, is = IdsBuilt(n, gate), ds = DepsBuilt(steps, n, gate)
             PROVE  Built(is, ds, n, gate)
  OBVIOUS
<1> DEFINE work == [i \in 1 .. n |-> IdsOf(steps[i].deps)]
           first == SubSeq(RouterIds, 1, n)
<1>1. /\ n \in Nat /\ n <= Len(RouterIds) /\ RouterIds \in Seq(Ids) /\ GateId \in Ids
      /\ Len(RouterIds) \in Nat
  BY RouterAssumption DEF Named
<1>2. first \in Seq(Ids) /\ Len(first) = n /\ \A i \in 1 .. n : first[i] = RouterIds[i]
  <2>1. first \in Seq(Ids)
    BY <1>1
  <2>2. Len(first) = n
    BY <1>1
  <2>3. \A i \in 1 .. n : first[i] = RouterIds[i]
    BY <1>1
  <2> QED
    BY <2>1, <2>2, <2>3
<1>3. ASSUME NEW i \in 1 .. n
      PROVE  work[i] \in Seq(Ids) /\ ToSet(work[i]) = {RouterIds[k] : k \in ToSet(steps[i].deps)}
  <2>1. steps[i].deps \in Seq(1 .. n) /\ n \in 0 .. Len(RouterIds)
    BY DEF Named
  <2> QED
    BY <2>1, IdsOfSet
<1>4. work \in Seq(Seq(Ids)) /\ Len(work) = n
  <2> DEFINE S == Seq(Ids)
  <2>1. work \in [1 .. n -> S]
    BY <1>3
  <2> HIDE DEF S
  <2>2. work \in Seq(S) /\ Len(work) = n
    BY <1>1, <2>1, ListIsSeq
  <2> QED
    BY <2>2 DEF S
<1>5. /\ Approval(steps) \in Seq(Ids)
      /\ ToSet(Approval(steps)) = {RouterIds[k] : k \in Sinks(steps)}
  <2>1. Sinks(steps) \in SUBSET (1 .. n) /\ Sinks(steps) \in SUBSET Nat /\ IsFiniteSet(Sinks(steps))
    BY SinksSet
  <2>2. InOrder(Sinks(steps)) \in Seq(Sinks(steps)) /\ ToSet(InOrder(Sinks(steps))) = Sinks(steps)
    BY <2>1, InOrderSet
  <2>3. InOrder(Sinks(steps)) \in Seq(1 .. n)
    BY <2>1, <2>2, SeqOver
  <2> QED
    BY <1>1, <2>2, <2>3, IdsOfSet DEF Approval, Named
<1> HIDE DEF work, first
<1>6. /\ is \in Seq(Ids) /\ Len(is) = n + (IF gate THEN 1 ELSE 0)
      /\ \A i \in 1 .. n : is[i] = RouterIds[i]
      /\ gate => is[n + 1] = GateId
  <2>1. CASE gate
    <3>1. is = first \o <<GateId>>
      BY <2>1 DEF first, IdsBuilt
    <3>2. /\ is \in Seq(Ids) /\ Len(is) = n + 1
          /\ \A i \in 1 .. n : is[i] = first[i]
          /\ is[n + 1] = GateId
      BY <1>1, <1>2, <3>1, SeqPlus
    <3> QED
      BY <1>2, <2>1, <3>2
  <2>2. CASE ~gate
    <3>1. is = first \o <<>>
      BY <2>2 DEF first, IdsBuilt
    <3>2. is = first
      BY <1>1, <1>2, <3>1, SeqPlus
    <3> QED
      BY <1>1, <1>2, <2>2, <3>2
  <2> QED
    BY <2>1, <2>2
<1>7. /\ ds \in [1 .. Len(is) -> Seq(Ids)]
      /\ \A i \in 1 .. n : ds[i] = work[i]
      /\ gate => ds[n + 1] = Approval(steps)
  <2> DEFINE S == Seq(Ids)
             app == Approval(steps)
  <2>1. work \in Seq(S) /\ app \in S /\ Len(work) = n
    BY <1>4, <1>5
  <2>2. CASE gate
    <3>1. ds = work \o <<app>>
      BY <2>2 DEF work, DepsBuilt
    <3> HIDE DEF S, app
    <3>2. /\ work \o <<app>> \in Seq(S) /\ Len(work \o <<app>>) = Len(work) + 1
          /\ \A i \in 1 .. Len(work) : (work \o <<app>>)[i] = work[i]
          /\ (work \o <<app>>)[Len(work) + 1] = app
      BY <2>1, SeqPlus
    <3>3. /\ ds \in Seq(S) /\ Len(ds) = n + 1
          /\ \A i \in 1 .. n : ds[i] = work[i]
          /\ ds[n + 1] = app
      BY <2>1, <3>1, <3>2
    <3>4. ds \in [1 .. n + 1 -> S]
      <4>1. ds \in [1 .. Len(ds) -> S]
        BY <3>3, SeqIsList
      <4>2. Len(ds) = n + 1
        BY <3>3
      <4> QED
        BY <4>1, <4>2
    <3>5. Len(is) = n + 1
      BY <1>6, <2>2
    <3> QED
      BY <2>2, <3>3, <3>4, <3>5 DEF S, app
  <2>3. CASE ~gate
    <3>1. ds = work \o <<>>
      BY <2>3 DEF work, DepsBuilt
    <3> HIDE DEF S, app
    <3>2. ds = work
      BY <2>1, <3>1, SeqPlus
    <3>3. ds \in [1 .. n -> S] /\ Len(is) = n
      BY <1>1, <1>6, <2>1, <2>3, <3>2
    <3> QED
      BY <2>3, <3>2, <3>3 DEF S
  <2> QED
    BY <2>2, <2>3
<1>8. \A i, j \in 1 .. Len(is) : is[i] = is[j] => i = j
  <2>1. \A i \in 1 .. Len(is) : i \in 1 .. n \/ (gate /\ i = n + 1)
    BY <1>1, <1>6
  <2>2. \A i, j \in 1 .. n : RouterIds[i] = RouterIds[j] => i = j
    BY <1>1, RouterAssumption
  <2>3. \A i \in 1 .. n : RouterIds[i] # GateId
    BY <1>1, RouterAssumption
  <2>4. ASSUME NEW i \in 1 .. Len(is), NEW j \in 1 .. Len(is), is[i] = is[j] PROVE i = j
    <3>1. CASE i \in 1 .. n /\ j \in 1 .. n
      BY <1>6, <2>2, <2>4, <3>1
    <3>2. CASE ~(i \in 1 .. n /\ j \in 1 .. n)
      <4>1. gate /\ is[n + 1] = GateId
        BY <1>6, <2>1, <3>2
      <4>2. \A k \in 1 .. n : is[k] # GateId
        BY <1>6, <2>3
      <4>3. i = n + 1 /\ j = n + 1
        BY <2>1, <2>4, <3>2, <4>1, <4>2
      <4> QED
        BY <4>3
    <3> QED
      BY <3>1, <3>2
  <2> QED
    BY <2>4
<1>9. Forward(is, ds)
  <2> SUFFICES ASSUME NEW i \in 1 .. Len(is), NEW x \in ToSet(ds[i])
               PROVE  \E j \in 1 .. i - 1 : x = is[j]
    BY DEF Forward
  <2>1. CASE i \in 1 .. n
    <3>1. PICK k \in ToSet(steps[i].deps) : x = RouterIds[k]
      BY <1>3, <1>7, <2>1
    <3>2. k \in 1 .. i - 1
      BY <2>1 DEF Named
    <3>3. k \in 1 .. n
      BY <1>1, <2>1, <3>2
    <3>4. is[k] = x
      BY <1>6, <3>1, <3>3
    <3> QED
      BY <3>2, <3>4
  <2>2. CASE gate /\ i = n + 1
    <3>1. PICK k \in Sinks(steps) : x = RouterIds[k]
      BY <1>5, <1>7, <2>2
    <3>2. k \in 1 .. n
      BY SinksSet
    <3>3. is[k] = x
      BY <1>6, <3>1, <3>2
    <3>4. k \in 1 .. i - 1
      BY <1>1, <2>2, <3>2
    <3> QED
      BY <3>3, <3>4
  <2> QED
    BY <1>1, <1>6, <2>1, <2>2
<1>10. ASSUME gate PROVE GateIsLast(is, ds)
  <2>1. Len(is) = n + 1
    BY <1>6, <1>10
  <2>2. ASSUME NEW i \in 1 .. n PROVE \E j \in i + 1 .. n + 1 : is[i] \in ToSet(ds[j])
    <3>1. CASE i \in Sinks(steps)
      <4>1. is[i] \in ToSet(ds[n + 1])
        BY <1>5, <1>6, <1>7, <1>10, <3>1
      <4>2. n + 1 \in i + 1 .. n + 1
        BY <1>1
      <4> QED
        BY <4>1, <4>2
    <3>2. CASE i \notin Sinks(steps)
      <4>1. PICK l \in i + 1 .. n : i \in ToSet(steps[l].deps)
        BY <3>2, SinksSet
      <4>2. l \in 1 .. n
        BY <1>1, <4>1
      <4>3. is[i] \in ToSet(ds[l])
        BY <1>3, <1>6, <1>7, <4>1, <4>2
      <4> QED
        BY <1>1, <4>1, <4>3
    <3> QED
      BY <3>1, <3>2
  <2>3. Len(is) - 1 = n /\ Len(is) # 0
    BY <1>1, <2>1
  <2>4. is[Len(is)] = GateId
    BY <1>6, <1>10, <2>1
  <2>5. \A i \in 1 .. Len(is) - 1 : \E j \in i + 1 .. Len(is) : is[i] \in ToSet(ds[j])
    BY <2>1, <2>2, <2>3
  <2> QED
    BY <2>3, <2>4, <2>5 DEF GateIsLast
<1> QED
  BY <1>6, <1>7, <1>8, <1>9, <1>10 DEF Built

\* A graph whose steps depend on earlier ones has no cycle.
LEMMA ForwardIsAcyclic ==
  ASSUME Shape, Unique, Forward(ids, deps)
  PROVE  ~HasCycle /\ Known
<1>1. Len(ids) \in Nat /\ Places = 1 .. Len(ids) /\ DOMAIN ids = 1 .. Len(ids)
  BY DEF Shape, Places
<1>2. ASSUME NEW i \in Places, NEW j \in Direct(i) PROVE j \in 1 .. i - 1
  <2>1. j \in Places /\ ids[j] \in ToSet(deps[i])
    BY DEF Direct, Needs
  <2>2. PICK k \in 1 .. i - 1 : ids[j] = ids[k]
    BY <1>1, <2>1 DEF Forward
  <2>3. k \in Places
    BY <1>1, <2>2
  <2> QED
    BY <2>1, <2>2, <2>3 DEF Unique
<1>3. ASSUME NEW i \in Places PROVE i \notin Ancestors(i)
  <2> DEFINE S == 1 .. i - 1
  <2>1. S \in SUBSET Places /\ Direct(i) \subseteq S
    BY <1>1, <1>2
  <2>2. \A k \in S : Direct(k) \subseteq S
    BY <1>1, <1>2, <2>1
  <2>3. Ancestors(i) \subseteq S
    BY <2>1, <2>2, AncestorsLeast
  <2> QED
    BY <1>1, <2>3
<1>4. ASSUME NEW i \in Places, NEW x \in ToSet(deps[i]) PROVE x \in StepIds
  <2>1. PICK j \in 1 .. i - 1 : x = ids[j]
    BY <1>1 DEF Forward
  <2>2. j \in DOMAIN ids
    BY <1>1, <2>1
  <2> QED
    BY <2>1, <2>2 DEF StepIds, ToSet
<1>5. Known
  BY <1>4 DEF Known
<1> QED
  BY <1>3, <1>5 DEF HasCycle

\* The approval has every other step behind it.
LEMMA AllBehindGate ==
  ASSUME Shape, Unique, GateIsLast(ids, deps)
  PROVE  Places \ {Len(ids)} \subseteq Ancestors(Len(ids))
<1> DEFINE L == Len(ids)
           T == {L - i : i \in {j \in Places : j # L /\ j \notin Ancestors(L)}}
<1>1. L \in Nat /\ Places = 1 .. L /\ L \in Places
  BY DEF Shape, Places, GateIsLast
<1> SUFFICES ASSUME T # {} PROVE FALSE
  BY <1>1
<1>2. T \subseteq Nat
  BY <1>1
<1> HIDE DEF T
<1>3. PICK m \in T : \A k \in T : m <= k
  BY <1>2, NatLeast
<1> USE DEF T
<1>4. PICK i \in Places : i # L /\ i \notin Ancestors(L) /\ m = L - i
  BY <1>3
<1>5. PICK j \in i + 1 .. L : ids[i] \in ToSet(deps[j])
  BY <1>1, <1>4 DEF GateIsLast
<1>6. j \in Places /\ i \in Direct(j)
  BY <1>1, <1>4, <1>5 DEF Direct, Needs
<1>7. CASE j = L
  BY <1>1, <1>4, <1>6, <1>7, AncestorsHold
<1>8. CASE j # L
  <2>1. j \notin Ancestors(L)
    BY <1>1, <1>4, <1>6, AncestorsHold
  <2>2. L - j \in T
    BY <1>6, <1>8, <2>1
  <2>3. m <= L - j
    BY <1>3, <2>2
  <2>4. i \in Nat /\ j \in Nat /\ i < j
    BY <1>1, <1>4, <1>5, <1>6
  <2> HIDE DEF L, T
  <2> QED
    BY <1>1, <1>4, <2>3, <2>4
<1> QED
  BY <1>7, <1>8

-----------------------------------------------------------------------------
(* The router *)

Stages == {"idle", "area", "escalate", "agent", "decided", "run"}
Outcomes == {"none", "agent", "plan", "clarify", "hitl", "council", "error"}
StepLists == Seq([agent : Kinds, deps : Seq(Nat)])
Scores == [Areas -> Nat]

Decisions ==
    [at : Stages, outcome : Outcomes, area : Areas \union {"none"}, words : Scores, hits : Scores,
     structural : BOOLEAN, close : SUBSET Areas, steps : StepLists, risk : BOOLEAN,
     rounds : Nat, maxSteps : Nat]

\* An agent or a plan of an area, within its limit.
Delegates(d) ==
    /\ d.area \in Areas /\ (d.risk <=> d.area \in Risky)
    /\ \E n \in 1 .. StepsOf(d.area) : Named(d.steps, n)

Legal(d) ==
    /\ d \in Decisions
    /\ d.at \in {"escalate", "agent"} => d.area \in Areas
    /\ d.at = "agent" => (d.risk <=> d.area \in Risky)
    /\ d.at = "decided" /\ d.outcome \in {"agent", "plan"} => Delegates(d)

\* The plan that is on its way is one that build_plan built.
Routed ==
    /\ phase # "unread" /\ Unique /\ Forward(ids, deps)
    /\ error \in {"none", "policy", "cycle detected", "could not order steps"}
    /\ Len(ids) # 0 /\ file.delivery = "internal"
    /\ error = "policy" => AgainstPolicy(file)
    /\ Len(ids) <= route.maxSteps
    /\ route.area \in Risky => route.risk
    /\ route.risk => GateIsLast(ids, deps)

RouteInv ==
    /\ Legal(route)
    /\ route.at \notin {"idle", "run"} => phase = "unread"
    /\ route.at = "run" => Routed

RouterInv == PolicyInv /\ RouteInv

LEMMA IdleIsLegal == Idle \in Decisions /\ Idle.at = "idle" /\ Legal(Idle)
<1>1. NoHits \in Scores /\ <<>> \in StepLists
  BY DEF NoHits, Scores, StepLists
<1>2. Idle \in Decisions /\ Idle.at = "idle"
  BY <1>1 DEF Idle, Decisions, Stages, Outcomes
<1> QED
  BY <1>2 DEF Legal

\* A decision that delegates to nobody, or to whom it may.
LEMMA DecideInv ==
  ASSUME NEW d \in Decisions, phase = "unread", Decide(d),
         d.outcome \in {"agent", "plan"} => Delegates(d)
  PROVE  RouteInv'
<1>1. phase' = "unread"
  BY DEF Decide, PlanUntouched, vars
<1>2. CASE d.outcome = "clarify" /\ d.rounds >= MaxClarify
  <2>1. route' = [d EXCEPT !.at = "decided", !.outcome = "hitl", !.risk = TRUE]
    BY <1>2 DEF Decide
  <2>2. route' \in Decisions /\ route'.at = "decided" /\ route'.outcome = "hitl"
    BY <2>1 DEF Decisions, Stages, Outcomes
  <2> QED
    BY <1>1, <2>2 DEF RouteInv, Legal
<1>3. CASE ~(d.outcome = "clarify" /\ d.rounds >= MaxClarify)
  <2>1. route' = [d EXCEPT !.at = "decided"]
    BY <1>3 DEF Decide
  <2>2. /\ route' \in Decisions /\ route'.at = "decided" /\ route'.outcome = d.outcome
        /\ route'.area = d.area /\ route'.risk = d.risk /\ route'.steps = d.steps
    BY <2>1 DEF Decisions, Stages
  <2>3. route'.outcome \in {"agent", "plan"} => Delegates(route')
    BY <2>2 DEF Delegates
  <2> QED
    BY <1>1, <2>2, <2>3 DEF RouteInv, Legal
<1> QED
  BY <1>2, <1>3

LEMMA GoesInv ==
  ASSUME NEW d \in Decisions, phase = "unread", NEW stage \in {"area", "escalate", "agent"}, Goes(d, stage),
         stage \in {"escalate", "agent"} => d.area \in Areas,
         stage = "agent" => (d.risk <=> d.area \in Risky)
  PROVE  RouteInv'
<1>1. phase' = "unread" /\ route' = [d EXCEPT !.at = stage]
  BY DEF Goes, PlanUntouched, vars
<1>2. /\ route' \in Decisions /\ route'.at = stage
      /\ route'.area = d.area /\ route'.risk = d.risk
  BY <1>1 DEF Decisions, Stages
<1> QED
  BY <1>1, <1>2 DEF RouteInv, Legal

LEMMA ScoresOf == \A h \in [Areas -> 0 .. MaxHits] : h \in Scores
BY RouterAssumption DEF Scores

LEMMA OneAgentIsNamed ==
  ASSUME NEW area \in Areas, NEW a \in Candidates(area)
  PROVE  OneAgent(a) \in StepLists /\ \E n \in 1 .. StepsOf(area) : Named(OneAgent(a), n)
<1>1. a \in Kinds
  BY RouterAssumption DEF Candidates
<1>2. 1 \in 1 .. StepsOf(area) /\ 1 \in 0 .. Len(RouterIds)
  <2>1. AreaSteps[area] \in Nat /\ DefaultSteps \in Nat \ {0} /\ Len(RouterIds) \in Nat /\ DefaultSteps <= Len(RouterIds)
    BY RouterAssumption
  <2> QED
    BY <2>1 DEF StepsOf
<1>3. /\ OneAgent(a) \in [1 .. 1 -> [agent : Kinds, deps : Seq(1 .. 1)]]
      /\ OneAgent(a) \in StepLists /\ OneAgent(a)[1].deps = <<>>
  <2> DEFINE e == [agent |-> a, deps |-> <<>>]
  <2>1. e \in [agent : Kinds, deps : Seq(1 .. 1)] /\ e \in [agent : Kinds, deps : Seq(Nat)] /\ e.deps = <<>>
    BY <1>1
  <2>2. OneAgent(a) = <<e>>
    BY DEF OneAgent
  <2> HIDE DEF e
  <2>3. \A S : e \in S => <<e>> \in [1 .. 1 -> S] /\ <<e>> \in Seq(S)
    OBVIOUS
  <2>4. <<e>>[1] = e
    OBVIOUS
  <2> QED
    BY <2>1, <2>2, <2>3, <2>4 DEF StepLists
<1>4. \A i \in 1 .. 1 : ToSet(OneAgent(a)[i].deps) \subseteq 1 .. i - 1
  <2>1. ToSet(OneAgent(a)[1].deps) = {}
    BY <1>3 DEF ToSet
  <2> QED
    BY <2>1
<1>5. Named(OneAgent(a), 1)
  BY <1>2, <1>3, <1>4 DEF Named
<1> QED
  BY <1>2, <1>3, <1>5

LEMMA ValidIsNamed ==
  ASSUME NEW area \in Areas, NEW raw \in ValidSteps(area)
  PROVE  raw \in StepLists /\ \E n \in 1 .. StepsOf(area) : Named(raw, n)
<1>1. StepsOf(area) \in Nat /\ StepsOf(area) <= Len(RouterIds) /\ Len(RouterIds) \in Nat
  BY RouterAssumption DEF StepsOf
<1>2. Candidates(area) \subseteq Kinds
  BY RouterAssumption DEF Candidates
<1> DEFINE Earlier(n) == UNION {[1 .. k -> 1 .. n - 1] : k \in 0 .. MaxDeps}
<1>3. PICK n \in 1 .. StepsOf(area) :
          /\ raw \in [1 .. n -> [agent : Candidates(area), deps : Earlier(n)]]
          /\ \A i \in 1 .. n, d \in 1 .. n : d \in ToSet(raw[i].deps) => d < i
  BY DEF ValidSteps
<1>4. n \in Nat /\ n \in 1 .. StepsOf(area) /\ n \in 0 .. Len(RouterIds)
  BY <1>1
<1>5. ASSUME NEW i \in 1 .. n
      PROVE  /\ raw[i] \in [agent : Kinds, deps : Seq(1 .. n)] /\ raw[i] \in [agent : Kinds, deps : Seq(Nat)]
             /\ ToSet(raw[i].deps) \subseteq 1 .. i - 1
  <2>1. PICK k \in 0 .. MaxDeps : raw[i].deps \in [1 .. k -> 1 .. n - 1]
    <3>1. raw[i].deps \in Earlier(n)
      <4> HIDE DEF Earlier
      <4> QED
        BY <1>3
    <3> QED
      BY <3>1
  <2>2. k \in Nat
    BY <2>1
  <2>3. raw[i].deps \in Seq(1 .. n - 1)
    BY <2>1, <2>2, ListIsSeq
  <2>4. raw[i].deps \in Seq(1 .. n) /\ raw[i].deps \in Seq(Nat)
    <3>1. 1 .. n - 1 \in SUBSET (1 .. n) /\ 1 .. n - 1 \in SUBSET Nat
      BY <1>4
    <3> QED
      BY <2>3, <3>1, SeqOver
  <2>5. raw[i] = [agent |-> raw[i].agent, deps |-> raw[i].deps] /\ raw[i].agent \in Kinds
    BY <1>2, <1>3
  <2>6. ToSet(raw[i].deps) \subseteq 1 .. n
    BY <1>4, <2>1 DEF ToSet
  <2>7. ASSUME NEW x \in ToSet(raw[i].deps) PROVE x \in 1 .. i - 1
    <3>1. x \in 1 .. n /\ x < i
      BY <1>3, <2>6
    <3> QED
      BY <1>4, <3>1
  <2> QED
    BY <2>4, <2>5, <2>7
<1> HIDE DEF Earlier
<1>6. raw \in [1 .. n -> [agent : Kinds, deps : Seq(1 .. n)]]
  BY <1>3, <1>5
<1>7. raw \in StepLists
  <2> DEFINE S == [agent : Kinds, deps : Seq(Nat)]
  <2>1. raw \in [1 .. n -> S]
    BY <1>3, <1>5
  <2> HIDE DEF S
  <2>2. raw \in Seq(S)
    BY <1>4, <2>1, ListIsSeq
  <2> QED
    BY <2>2 DEF S, StepLists
<1>8. Named(raw, n)
  BY <1>4, <1>5, <1>6 DEF Named
<1> QED
  BY <1>4, <1>7, <1>8

\* From the request to the area.
LEMMA AreaInv ==
  ASSUME RouteInv, Route \/ Embed \/ NoKeyword \/ OneArea \/ AmbiguousArea \/ Escalate
  PROVE  RouteInv'
<1>1. Legal(route) /\ route \in Decisions /\ (route.at \notin {"idle", "run"} => phase = "unread")
  BY DEF RouteInv, Legal
<1>2. CASE Route
  <2>1. phase = "unread" /\ Idle \in Decisions
    BY <1>2, IdleIsLegal DEF Route
  <2>2. CASE Decide([Idle EXCEPT !.outcome = "error"])
    <3> DEFINE d == [Idle EXCEPT !.outcome = "error"]
    <3>1. d \in Decisions /\ d.outcome = "error"
      BY <2>1 DEF Decisions, Outcomes
    <3> HIDE DEF d
    <3>2. Decide(d)
      BY <2>2 DEF d
    <3> QED
      BY <2>1, <3>1, <3>2, DecideInv
  <2>3. ASSUME NEW h \in [Areas -> 0 .. MaxHits], NEW b \in BOOLEAN,
               Goes([Idle EXCEPT !.words = h, !.hits = h, !.structural = b], "area")
        PROVE  RouteInv'
    <3> DEFINE d == [Idle EXCEPT !.words = h, !.hits = h, !.structural = b]
    <3>1. d \in Decisions
      BY <2>1, ScoresOf DEF Decisions
    <3> HIDE DEF d
    <3>2. Goes(d, "area")
      BY <2>3 DEF d
    <3> QED
      BY <2>1, <3>1, <3>2, GoesInv
  <2> QED
    BY <1>2, <2>2, <2>3 DEF Route
<1>3. CASE Embed
  <2>1. phase = "unread" /\ route.at = "area"
    BY <1>1, <1>3 DEF Embed
  <2>2. CASE Decide([route EXCEPT !.outcome = "error"])
    <3> DEFINE d == [route EXCEPT !.outcome = "error"]
    <3>1. d \in Decisions /\ d.outcome = "error"
      BY <1>1 DEF Decisions, Outcomes
    <3> HIDE DEF d
    <3>2. Decide(d)
      BY <2>2 DEF d
    <3> QED
      BY <2>1, <3>1, <3>2, DecideInv
  <2>3. ASSUME NEW h \in [Areas -> 0 .. MaxHits], Goes([route EXCEPT !.hits = h], "area")
        PROVE  RouteInv'
    <3> DEFINE d == [route EXCEPT !.hits = h]
    <3>1. d \in Decisions
      BY <1>1, ScoresOf DEF Decisions
    <3> HIDE DEF d
    <3>2. Goes(d, "area")
      BY <2>3 DEF d
    <3> QED
      BY <2>1, <3>1, <3>2, GoesInv
  <2> QED
    BY <1>3, <2>2, <2>3 DEF Embed
<1>4. CASE NoKeyword \/ OneArea
  <2>1. PICK a \in Areas : Goes([route EXCEPT !.area = a], "escalate")
    BY <1>4, RouterAssumption DEF NoKeyword, OneArea
  <2>2. phase = "unread"
    BY <1>1, <1>4 DEF NoKeyword, OneArea
  <2> DEFINE d == [route EXCEPT !.area = a]
  <2>3. d \in Decisions /\ d.area = a
    BY <1>1 DEF Decisions
  <2> HIDE DEF d
  <2>4. Goes(d, "escalate")
    BY <2>1 DEF d
  <2> QED
    BY <2>2, <2>3, <2>4, GoesInv
<1>5. CASE AmbiguousArea
  <2> DEFINE risky == Close(route.hits) \cap Risky # {}
             d == [route EXCEPT !.outcome = IF risky THEN "hitl" ELSE "clarify",
                                !.close = Close(route.hits), !.risk = risky]
  <2>1. phase = "unread" /\ Decide(d)
    BY <1>1, <1>5 DEF AmbiguousArea
  <2>2. Close(route.hits) \in SUBSET Areas /\ risky \in BOOLEAN
    BY DEF Close
  <2>3. d \in Decisions /\ d.outcome \in {"hitl", "clarify"}
    <3> HIDE DEF risky
    <3> QED
      BY <1>1, <2>2 DEF Decisions, Outcomes
  <2> HIDE DEF d
  <2> QED
    BY <2>1, <2>3, DecideInv
<1>6. CASE Escalate
  <2>1. phase = "unread" /\ route.area \in Areas
    BY <1>1, <1>6 DEF Escalate, Legal
  <2>2. CASE Decide([route EXCEPT !.outcome = "council", !.risk = TRUE])
    <3> DEFINE d == [route EXCEPT !.outcome = "council", !.risk = TRUE]
    <3>1. d \in Decisions /\ d.outcome = "council"
      BY <1>1 DEF Decisions, Outcomes
    <3> HIDE DEF d
    <3>2. Decide(d)
      BY <2>2 DEF d
    <3> QED
      BY <2>1, <3>1, <3>2, DecideInv
  <2>3. CASE Goes([route EXCEPT !.risk = route.area \in Risky], "agent")
    <3> DEFINE b == route.area \in Risky
               d == [route EXCEPT !.risk = b]
    <3>1. b \in BOOLEAN /\ (b <=> route.area \in Risky)
      OBVIOUS
    <3>2. d \in Decisions /\ d.area = route.area /\ d.risk = b
      <4> HIDE DEF b
      <4> QED
        BY <1>1, <3>1 DEF Decisions
    <3> HIDE DEF d
    <3>3. Goes(d, "agent")
      BY <2>3 DEF d
    <3>4. d.risk <=> d.area \in Risky
      BY <3>1, <3>2
    <3> QED
      BY <2>1, <3>2, <3>3, <3>4, GoesInv
  <2> QED
    BY <1>6, <2>2, <2>3 DEF Escalate
<1> QED
  BY <1>2, <1>3, <1>4, <1>5, <1>6

LEMMA Asked ==
  ASSUME RouteInv, route.at = "agent"
  PROVE  /\ route \in Decisions /\ phase = "unread" /\ route.area \in Areas
         /\ route.risk <=> route.area \in Risky
BY DEF RouteInv, Legal

\* An agent or a plan of the area's candidates.
LEMMA DelegateInv ==
  ASSUME RouteInv, route.at = "agent", NEW outcome \in {"agent", "plan"}, NEW steps \in StepLists,
         \E n \in 1 .. StepsOf(route.area) : Named(steps, n),
         Decide([route EXCEPT !.outcome = outcome, !.steps = steps])
  PROVE  RouteInv'
<1> DEFINE d == [route EXCEPT !.outcome = outcome, !.steps = steps]
<1>1. route \in Decisions /\ phase = "unread" /\ route.area \in Areas /\ (route.risk <=> route.area \in Risky)
  BY Asked
<1>2. d \in Decisions /\ d.area = route.area /\ d.risk = route.risk /\ d.steps = steps
  BY <1>1 DEF Decisions, Outcomes
<1> HIDE DEF d
<1>3. Decide(d)
  BY DEF d
<1>4. Delegates(d)
  BY <1>1, <1>2 DEF Delegates
<1> QED
  BY <1>1, <1>2, <1>3, <1>4, DecideInv

LEMMA AgentStepsInv ==
  ASSUME RouteInv, NoSpecialist \/ OnlyCandidate \/ ModelFails \/ ModelUnsure \/ ModelAgent \/ ModelPlan
  PROVE  RouteInv'
<1>1. /\ route.at = "agent" /\ route \in Decisions /\ phase = "unread" /\ route.area \in Areas
      /\ route.risk <=> route.area \in Risky
  BY Asked DEF NoSpecialist, OnlyCandidate, ModelFails, ModelUnsure, ModelAgent, ModelPlan, AsksModel
<1>2. CASE NoSpecialist
  <2> DEFINE d == [route EXCEPT !.outcome = "hitl", !.risk = TRUE]
  <2>1. d \in Decisions /\ d.outcome = "hitl"
    BY <1>1 DEF Decisions, Outcomes
  <2> HIDE DEF d
  <2>2. Decide(d)
    BY <1>2 DEF NoSpecialist, d
  <2> QED
    BY <1>1, <2>1, <2>2, DecideInv
<1>3. CASE ModelFails \/ ModelUnsure
  <2>1. PICK outcome \in {"error", "hitl", "clarify"} : Decide([route EXCEPT !.outcome = outcome])
    BY <1>3 DEF ModelFails, ModelUnsure
  <2> DEFINE d == [route EXCEPT !.outcome = outcome]
  <2>2. d \in Decisions /\ d.outcome \notin {"agent", "plan"}
    BY <1>1 DEF Decisions, Outcomes
  <2> HIDE DEF d
  <2>3. Decide(d)
    BY <2>1 DEF d
  <2> QED
    BY <1>1, <2>2, <2>3, DecideInv
<1>4. CASE OnlyCandidate \/ ModelAgent
  <2>1. PICK a \in Candidates(route.area) :
            Decide([route EXCEPT !.outcome = "agent", !.steps = OneAgent(a)])
    BY <1>4 DEF OnlyCandidate, ModelAgent
  <2>2. OneAgent(a) \in StepLists /\ \E n \in 1 .. StepsOf(route.area) : Named(OneAgent(a), n)
    BY <1>1, OneAgentIsNamed
  <2> QED
    BY <1>1, <2>1, <2>2, DelegateInv
<1>5. CASE ModelPlan
  <2>1. PICK raw \in ValidSteps(route.area) :
            Decide([route EXCEPT
                   !.outcome = IF Len(raw) = 1 /\ Delegation[route.area] # "plan" THEN "agent" ELSE "plan",
                   !.steps = raw])
    BY <1>5 DEF ModelPlan
  <2> DEFINE outcome == IF Len(raw) = 1 /\ Delegation[route.area] # "plan" THEN "agent" ELSE "plan"
  <2>2. raw \in StepLists /\ \E n \in 1 .. StepsOf(route.area) : Named(raw, n)
    BY <1>1, ValidIsNamed
  <2>3. outcome \in {"agent", "plan"} /\ Decide([route EXCEPT !.outcome = outcome, !.steps = raw])
    BY <2>1
  <2> HIDE DEF outcome
  <2> QED
    BY <1>1, <2>2, <2>3, DelegateInv
<1> QED
  BY <1>2, <1>3, <1>4, <1>5

LEMMA ClarifyInv ==
  ASSUME RouteInv, Clarify
  PROVE  RouteInv'
<1>1. phase = "unread" /\ route \in Decisions /\ Idle \in Decisions
  BY IdleIsLegal, ZenonT(40) DEF Clarify, RouteInv, Legal
<1> DEFINE next(s) == [Idle EXCEPT !.rounds = Rounds(route), !.structural = route.structural \/ s]
<1>2. PICK s \in BOOLEAN :
        \/ Decide([next(s) EXCEPT !.outcome = "error"])
        \/ /\ route.area # "none"
           /\ Goes([next(s) EXCEPT !.area = route.area], "escalate")
        \/ /\ route.area = "none"
           /\ \E a \in route.close : Goes([next(s) EXCEPT !.area = a], "escalate")
        \/ /\ route.area = "none"
           /\ \E h \in [Areas -> 0 .. MaxHits] : Goes([next(s) EXCEPT !.words = h, !.hits = h], "area")
  BY DEF Clarify
<1>3. next(s) \in Decisions
  <2>1. Rounds(route) \in Nat /\ (route.structural \/ s) \in BOOLEAN
    BY <1>1 DEF Decisions, Rounds
  <2> QED
    BY <1>1, <2>1 DEF Decisions
<1> DEFINE e == next(s)
<1>4. CASE Decide([next(s) EXCEPT !.outcome = "error"])
  <2> DEFINE d == [e EXCEPT !.outcome = "error"]
  <2>1. Decide(d) /\ e \in Decisions
    BY <1>3, <1>4
  <2> HIDE DEF e
  <2>2. d \in Decisions /\ d.outcome = "error"
    BY <2>1 DEF Decisions, Outcomes
  <2> HIDE DEF d
  <2> QED
    BY <1>1, <2>1, <2>2, DecideInv
<1>5. ASSUME NEW a \in Areas, Goes([next(s) EXCEPT !.area = a], "escalate")
      PROVE  RouteInv'
  <2> DEFINE d == [e EXCEPT !.area = a]
  <2>1. Goes(d, "escalate") /\ e \in Decisions
    BY <1>3, <1>5
  <2> HIDE DEF e
  <2>2. d \in Decisions /\ d.area = a
    BY <2>1 DEF Decisions
  <2> HIDE DEF d
  <2> QED
    BY <1>1, <2>1, <2>2, GoesInv
<1>6. ASSUME NEW h \in [Areas -> 0 .. MaxHits], Goes([next(s) EXCEPT !.words = h, !.hits = h], "area")
      PROVE  RouteInv'
  <2> DEFINE d == [e EXCEPT !.words = h, !.hits = h]
  <2>1. Goes(d, "area") /\ e \in Decisions
    BY <1>3, <1>6
  <2> HIDE DEF e
  <2>2. d \in Decisions
    BY <2>1, ScoresOf DEF Decisions
  <2> HIDE DEF d
  <2> QED
    BY <1>1, <2>1, <2>2, GoesInv
<1>7. route.close \subseteq Areas /\ route.area \in Areas \union {"none"}
  BY <1>1 DEF Decisions
<1> HIDE DEF next
<1> QED
  BY <1>2, <1>4, <1>5, <1>6, <1>7

\* execute hands over what build_plan made of the decision.
LEMMA ExecuteInv ==
  ASSUME PolicyInv, RouteInv, Execute
  PROVE  PolicyInv' /\ RouteInv'
<1> DEFINE steps == IF route.outcome = "hitl" THEN <<>> ELSE route.steps
           gate  == route.outcome = "hitl" \/ route.risk
<1>1. /\ route \in Decisions /\ route.at = "decided" /\ phase = "unread" /\ error = "none"
      /\ route.outcome \in {"agent", "plan", "hitl"} /\ gate \in BOOLEAN
      /\ route.outcome \in {"agent", "plan"} => Delegates(route)
  <2>1. route \in Decisions /\ route.at = "decided" /\ phase = "unread" /\ route.outcome \in {"agent", "plan", "hitl"}
    BY DEF Execute, RouteInv, Legal
  <2>2. route.outcome \in {"agent", "plan"} => Delegates(route)
    BY <2>1 DEF RouteInv, Legal
  <2>3. error = "none"
    BY <2>1 DEF PolicyInv, IInv
  <2>4. gate \in BOOLEAN
    BY <2>1 DEF Decisions
  <2> QED
    BY <2>1, <2>2, <2>3, <2>4
<1>2. PICK n \in 0 .. Len(RouterIds) :
          /\ Named(steps, n)
          /\ IF route.outcome = "hitl" THEN n = 0 ELSE n # 0 /\ n <= StepsOf(route.area)
  <2>1. CASE route.outcome = "hitl"
    <3>1. <<>> \in [1 .. 0 -> [agent : Kinds, deps : Seq(1 .. 0)]]
      OBVIOUS
    <3>2. 0 \in 0 .. Len(RouterIds)
      BY RouterAssumption
    <3>3. Named(<<>>, 0)
      BY <3>1, <3>2 DEF Named
    <3> QED
      BY <2>1, <3>2, <3>3
  <2>2. CASE route.outcome # "hitl"
    <3>1. steps = route.steps /\ Delegates(route)
      BY <1>1, <2>2
    <3>2. PICK n \in 1 .. StepsOf(route.area) : Named(route.steps, n)
      BY <3>1 DEF Delegates
    <3>3. n \in 0 .. Len(RouterIds)
      BY <3>2 DEF Named
    <3>4. n # 0 /\ n <= StepsOf(route.area)
      BY <3>2
    <3> HIDE DEF steps
    <3> QED
      BY <2>2, <3>1, <3>2, <3>3, <3>4
  <2> QED
    BY <2>1, <2>2
<1>3. BuildPlan(steps, gate) /\ route' = [Idle EXCEPT !.at = "run", !.area = route.area, !.risk = gate,
          !.maxSteps = PlanSteps(route, Len(steps) + (IF gate THEN 1 ELSE 0))]
  BY DEF Execute
<1>4. route.area \in Risky => gate
  <2>1. CASE route.outcome = "hitl"
    BY <2>1
  <2>2. CASE route.outcome # "hitl"
    BY <1>1, <2>2 DEF Delegates
  <2> QED
    BY <2>1, <2>2
<1> HIDE DEF steps, gate
<1>5. Len(steps) = n /\ DOMAIN steps = 1 .. n /\ n \in Nat
  <2> DEFINE S == [agent : Kinds, deps : Seq(1 .. n)]
  <2>1. steps \in [1 .. n -> S] /\ n \in Nat
    BY <1>2 DEF Named
  <2> HIDE DEF S
  <2> QED
    BY <2>1, ListIsSeq
<1>6. /\ LoadPlan(ids', deps') /\ phase' = "check" /\ error' = error /\ checked' = checked /\ file'.gates = {}
      /\ ids' = IdsBuilt(n, gate) /\ deps' = DepsBuilt(steps, n, gate) /\ file'.delivery = "internal"
  BY <1>3, <1>5 DEF BuildPlan, LoadPlan, FileOf, IdsBuilt, DepsBuilt
<1>7. Built(ids', deps', n, gate)
  BY <1>1, <1>2, <1>6, PlanIsBuilt DEF gate
<1>8. PolicyInv'
  <2>1. ids' \in Seq(Ids) /\ deps' \in [1 .. Len(ids') -> Seq(Ids)]
    BY <1>7 DEF Built
  <2> QED
    BY <1>1, <1>6, <2>1, PolicyLoadInv
<1> DEFINE max == PlanSteps(route, Len(steps) + (IF gate THEN 1 ELSE 0))
<1>9. max \in Nat /\ Len(ids') <= max
  <2>0. Len(ids') = n + (IF gate THEN 1 ELSE 0)
    BY <1>7 DEF Built
  <2>1. CASE route.area = "none" \/ AreaSteps[route.area] = 0
    BY <1>5, <2>0, <2>1 DEF PlanSteps
  <2>2. CASE ~(route.area = "none" \/ AreaSteps[route.area] = 0)
    <3>1. route.area \in Areas /\ AreaSteps[route.area] \in Nat \ {0}
      BY <1>1, <2>2, RouterAssumption DEF Decisions
    <3>2. max = AreaSteps[route.area] + (IF route.risk THEN 1 ELSE 0)
      BY <2>2 DEF PlanSteps
    <3>3. CASE route.outcome = "hitl"
      <4>1. n = 0 /\ gate /\ Len(ids') = 1
        BY <1>2, <2>0, <3>3 DEF gate
      <4> QED
        BY <3>1, <3>2, <4>1
    <3>4. CASE route.outcome # "hitl"
      <4>1. n <= AreaSteps[route.area] /\ (gate <=> route.risk)
        BY <1>2, <2>2, <3>4 DEF StepsOf, gate
      <4> QED
        BY <1>5, <2>0, <3>1, <3>2, <4>1
    <3> QED
      BY <3>3, <3>4
  <2> QED
    BY <2>1, <2>2
<1>10. /\ route' \in Decisions /\ route'.at = "run" /\ route'.area = route.area
       /\ route'.risk = gate /\ route'.maxSteps = max
  <2>1. route' = [Idle EXCEPT !.at = "run", !.area = route.area, !.risk = gate, !.maxSteps = max]
    BY <1>3
  <2>2. Idle \in Decisions /\ route.area \in Areas \union {"none"}
    BY <1>1, IdleIsLegal DEF Decisions
  <2> HIDE DEF max
  <2> QED
    BY <1>1, <1>9, <2>1, <2>2 DEF Decisions, Stages
<1> HIDE DEF max
<1>11. Unique'
  BY <1>7 DEF Built, Unique, Places
<1>12. Len(ids') # 0
  <2>1. Len(ids') = n + (IF gate THEN 1 ELSE 0)
    BY <1>7 DEF Built
  <2>2. CASE route.outcome = "hitl"
    BY <1>2, <2>1, <2>2 DEF gate
  <2>3. CASE route.outcome # "hitl"
    BY <1>2, <1>5, <2>1, <2>3
  <2> QED
    BY <2>2, <2>3
<1>13. Routed'
  BY <1>1, <1>4, <1>6, <1>7, <1>9, <1>10, <1>11, <1>12 DEF Built, Routed
<1> QED
  BY <1>8, <1>10, <1>13 DEF RouteInv, Legal

\* check_plan lets a plan of internal delivery through but for the two reasons of AgainstPolicy,
\* which are the same while the plan and what it says are.
LEMMA InternalRules ==
  ASSUME Places # {}, file.delivery = "internal", ~AgainstPolicy(file)
  PROVE  Accepts(file)
BY DEF Accepts, DeliveryRule, ReviewRule, AgainstPolicy

LEMMA SameAgainst ==
  ASSUME UNCHANGED <<plan, file>>
  PROVE  AgainstPolicy(file)' <=> AgainstPolicy(file)
<1>1. ids' = ids /\ deps' = deps /\ file' = file
  BY DEF plan
<1> QED
  BY <1>1 DEF AgainstPolicy, LeaderRule, InVertical, Ancestors, Direct, Needs, Places

\* validate_plan and topo_order leave a routed plan as it is.
LEMMA WorkOnRouted ==
  ASSUME PolicyInv, RouteInv, UNCHANGED route,
         (Validate /\ UNCHANGED policyVars) \/ CheckPlan \/ Order \/ UNCHANGED <<vars, policyVars>>
  PROVE  RouteInv'
<1>1. UNCHANGED plan
  <2>1. CASE Validate
    BY <2>1 DEF Validate, CheckIds, DfsRoot, DfsCall, DfsReturn, DfsEnd, plan
  <2>2. CASE CheckPlan
    BY <2>2 DEF CheckPlan, Refuse, vars, plan
  <2>3. CASE Order
    BY <2>3 DEF Order, TopoOrder, StartKahn, KahnRoots, KahnFollow, KahnPop, KahnEnd, plan
  <2>4. CASE UNCHANGED <<vars, policyVars>>
    BY <2>4 DEF vars, plan
  <2> QED
    BY <2>1, <2>2, <2>3, <2>4
<1>2. ids' = ids /\ deps' = deps
  BY <1>1 DEF plan
<1>3. phase = "unread" => phase' = "unread"
  BY DEF Validate, CheckIds, DfsRoot, DfsCall, DfsReturn, DfsEnd, CheckPlan,
         Order, TopoOrder, StartKahn, KahnRoots, KahnFollow, KahnPop, KahnEnd, vars
<1>4. phase # "unread" => phase' # "unread"
  <2>1. CASE Validate
    BY <2>1 DEF Validate, CheckIds, DfsRoot, DfsCall, DfsReturn, DfsEnd, Enter, Raise
  <2>2. CASE CheckPlan
    BY <2>2 DEF CheckPlan, Refuse, Raise, vars
  <2>3. CASE Order
    BY <2>3 DEF Order, TopoOrder, StartKahn, KahnRoots, KahnFollow, KahnPop, KahnEnd, Raise
  <2>4. CASE UNCHANGED <<vars, policyVars>>
    BY <2>4 DEF vars
  <2> QED
    BY <2>1, <2>2, <2>3, <2>4
<1>5. ASSUME Routed PROVE Routed'
  <2> DEFINE E == {"none", "policy", "cycle detected", "could not order steps"}
             Kept == /\ Unique /\ Forward(ids, deps) /\ Len(ids) # 0 /\ file.delivery = "internal"
                     /\ Len(ids) <= route.maxSteps /\ (route.area \in Risky => route.risk)
                     /\ (route.risk => GateIsLast(ids, deps))
  <2>1. /\ Kept /\ error \in E /\ phase # "unread" /\ Shape
        /\ error = "policy" => AgainstPolicy(file)
    BY <1>5 DEF Routed, PolicyInv, IInv
  <2>2. file' = file
    <3>1. Unread.delivery = "none"
      BY DEF Unread, FileOf
    <3>2. file # Unread
      BY <2>1, <3>1
    <3> QED
      BY <3>2 DEF Validate, CheckIds, DfsRoot, DfsCall, DfsReturn, DfsEnd, CheckPlan, Refuse, Order, policyVars
  <2>3. Kept' /\ (AgainstPolicy(file)' <=> AgainstPolicy(file))
    BY <1>1, <1>2, <2>1, <2>2, SameAgainst DEF Unique, Places
  <2>4. CASE Validate
    <3>1. CASE CheckIds
      <4>1. Known /\ ids \in Seq(Ids)
        BY <2>1, ForwardIsAcyclic DEF Shape
      <4>2. Cardinality(StepIds) = Len(ids)
        BY <2>1, <4>1, SeqSet DEF StepIds, Unique, Places
      <4>3. \A i \in Places : ToSet(deps[i]) \subseteq StepIds
        BY <4>1 DEF Known
      <4>4. error' = error
        BY <3>1, <4>2, <4>3 DEF CheckIds
      <4> QED
        BY <1>4, <2>1, <2>3, <4>4 DEF Routed
    <3>2. CASE ~CheckIds
      <4>1. error' \in {error, "cycle detected"}
        BY <2>4, <3>2 DEF Validate, DfsRoot, DfsCall, DfsReturn, DfsEnd, Enter, Raise
      <4> QED
        BY <1>4, <2>1, <2>3, <4>1 DEF Routed
    <3> QED
      BY <3>1, <3>2
  <2>5. CASE Order \/ UNCHANGED <<vars, policyVars>>
    <3>1. error' \in {error, "could not order steps"}
      BY <2>5 DEF Raise, vars, Order, TopoOrder, StartKahn, KahnRoots, KahnFollow, KahnPop, KahnEnd
    <3> QED
      BY <1>4, <2>1, <2>3, <3>1 DEF Routed
  <2>6. CASE CheckPlan
    <3>1. CASE Refuse /\ (file # Unread => ~Accepts(file))
      <4>1. Places # {} /\ file # Unread
        <5>1. Unread.delivery = "none"
          BY DEF Unread, FileOf
        <5>2. file.delivery = "internal" /\ Len(ids) # 0 /\ ids \in Seq(Ids)
          BY <2>1 DEF Shape
        <5>3. Len(ids) \in Nat
          BY <5>2
        <5>4. 1 \in 1 .. Len(ids)
          BY <5>2, <5>3
        <5> QED
          BY <5>1, <5>2, <5>4 DEF Places
      <4>2. AgainstPolicy(file)
        BY <2>1, <3>1, <4>1, InternalRules
      <4>3. error' = "policy"
        BY <3>1 DEF Refuse, Raise
      <4> QED
        BY <1>4, <2>1, <2>3, <4>2, <4>3 DEF Routed
    <3>2. CASE UNCHANGED vars
      <4>1. error' = error
        BY <3>2 DEF vars
      <4> QED
        BY <1>4, <2>1, <2>3, <4>1 DEF Routed
    <3> QED
      BY <2>6, <3>1, <3>2 DEF CheckPlan
  <2> QED
    BY <2>4, <2>5, <2>6
<1> QED
  BY <1>3, <1>5 DEF RouteInv, Legal, Delegates

\* A plan file that is read is not the router's.
LEMMA LoadIsNotRouted ==
  ASSUME RouteInv, route.at = "idle", UNCHANGED route
  PROVE  RouteInv'
BY DEF RouteInv, Legal, Delegates

\* RouterInv is inductive.
THEOREM RouterInvariant == RouterSpec => []RouterInv
<1>1. RouterInit => RouterInv
  <2> SUFFICES ASSUME RouterInit PROVE RouterInv
    OBVIOUS
  <2>1. PolicyInv /\ route = Idle
    BY PolicyInitInv DEF RouterInit
  <2>2. RouteInv
    BY <2>1, IdleIsLegal DEF RouteInv
  <2> QED
    BY <2>1, <2>2 DEF RouterInv
<1>2. ASSUME RouterInv, [RouterNext]_<<vars, policyVars, route>> PROVE RouterInv'
  <2>1. PolicyInv /\ RouteInv
    BY <1>2 DEF RouterInv
  <2>2. CASE Route \/ Embed \/ NoKeyword \/ OneArea \/ AmbiguousArea \/ Escalate
    <3>1. PlanUntouched
      BY <2>2 DEF Route, Embed, NoKeyword, OneArea, AmbiguousArea, Escalate, Decide, Goes
    <3> QED
      BY <2>1, <2>2, <3>1, AreaInv, PolicyStutterInv DEF RouterInv, PlanUntouched
  <2>3. CASE NoSpecialist \/ OnlyCandidate \/ ModelFails \/ ModelUnsure \/ ModelAgent \/ ModelPlan
    <3>1. PlanUntouched
      BY <2>3 DEF NoSpecialist, OnlyCandidate, ModelFails, ModelUnsure, ModelAgent, ModelPlan, Decide
    <3> QED
      BY <2>1, <2>3, <3>1, AgentStepsInv, PolicyStutterInv DEF RouterInv, PlanUntouched
  <2>4. CASE Clarify
    <3>1. PlanUntouched
      BY <2>4 DEF Clarify, Decide, Goes
    <3> QED
      BY <2>1, <2>4, <3>1, ClarifyInv, PolicyStutterInv DEF RouterInv, PlanUntouched
  <2>5. CASE Execute
    BY <2>1, <2>5, ExecuteInv DEF RouterInv
  <2>6. CASE route.at = "idle" /\ Load /\ UNCHANGED route
    BY <2>1, <2>6, LoadIsNotRouted, PolicyReadInv DEF RouterInv
  <2>7. CASE Validate /\ UNCHANGED <<policyVars, route>>
    BY <2>1, <2>7, WorkOnRouted, PolicySearchInv DEF RouterInv
  <2>8. CASE CheckPlan /\ UNCHANGED route
    BY <2>1, <2>8, WorkOnRouted, PolicyCheckInv DEF RouterInv
  <2>9. CASE Order /\ UNCHANGED route
    BY <2>1, <2>9, WorkOnRouted, PolicyOrderInv DEF RouterInv
  <2>10. CASE UNCHANGED <<vars, policyVars, route>>
    BY <2>1, <2>10, WorkOnRouted, PolicyStutterInv DEF RouterInv
  <2> QED
    BY <1>2, <2>2, <2>3, <2>4, <2>5, <2>6, <2>7, <2>8, <2>9, <2>10 DEF RouterNext, RouterStep
<1> QED
  BY <1>1, <1>2, PTL DEF RouterSpec

LEMMA InvKept == RouterInv => RoutedPlanIsKept
<1> SUFFICES ASSUME RouterInv, route.at = "run" PROVE RoutedPlanIsKept
  BY DEF RoutedPlanIsKept
<1>1. PolicyInv /\ IInv /\ Routed /\ Shape
  BY DEF RouterInv, PolicyInv, RouteInv, Routed, IInv
<1>2. ~HasCycle
  BY <1>1, ForwardIsAcyclic DEF Routed
<1>3. /\ error \in {"none", "policy", "could not order steps"}
      /\ error = "policy" => AgainstPolicy(file)
      /\ error = "could not order steps" => ~NothingTwice
  BY <1>1, <1>2 DEF Routed, IInv
<1>4. ASSUME phase = "ordered" PROVE Len(order) <= route.maxSteps
  BY <1>1, <1>4 DEF IInv, Routed
<1>5. ASSUME phase = "ordered", route.risk \/ route.area \in Risky
      PROVE  /\ Last(order) = GateId
             /\ Places \ {PlaceOf(GateId)} \subseteq Ancestors(PlaceOf(GateId))
  <2> DEFINE L == Len(ids)
  <2>1. GateIsLast(ids, deps) /\ Unique /\ Sound /\ L \in Nat /\ Places = 1 .. L /\ Len(order) = L
    BY <1>1, <1>5 DEF Routed, IInv, Sound, Shape, Places
  <2>2. L \in Places /\ ids[L] = GateId
    BY <2>1 DEF GateIsLast
  <2>3. PlaceOf(GateId) = L
    BY <2>1, <2>2, PlaceOfPlace
  <2>4. Places \ {L} \subseteq Ancestors(L)
    BY <1>1, <2>1, AllBehindGate
  <2>5. DOMAIN order = 1 .. L /\ order \in Seq(StepIds)
    BY <1>1, <1>5, <2>1 DEF IInv, Queue
  <2>6. order[L] \in StepIds
    BY <2>1, <2>2, <2>5, SeqEntry
  <2>7. PICK i \in Places : ids[i] = order[L]
    BY <1>1, <2>6, PlaceOfId
  <2>8. At(i) = L /\ At(L) \in 1 .. L /\ order[At(L)] = ids[L]
    BY <1>1, <1>5, <2>1, <2>2, <2>7, AtPlace
  <2>9. i = L
    <3>1. SUFFICES ASSUME i # L PROVE FALSE
      OBVIOUS
    <3>2. At(i) < At(L)
      BY <1>1, <1>5, <2>2, <2>4, <2>7, <3>1, AncestorFirst
    <3> QED
      BY <2>1, <2>8, <3>2
  <2>10. Last(order) = GateId
    BY <2>1, <2>2, <2>7, <2>9 DEF Last
  <2> QED
    BY <2>3, <2>4, <2>10
<1> QED
  BY <1>3, <1>4, <1>5 DEF RoutedPlanIsKept

\* load_plan refuses a routed plan for a dependency listed twice, a publication or a step beside the
\* leader, and for nothing else; and when its area or the doubt calls for a person, the approval has
\* all the work behind it and comes last: whatever the areas, agents and limits.
THEOREM RoutedPlansAreKept == RouterSpec => []RoutedPlanIsKept
BY RouterInvariant, InvKept, PTL

\* What graph and policy promise holds of the plans of the router and of files alike.
THEOREM RoutedPlansAreOrdered ==
  RouterSpec => [](CycleIsFound /\ OrderRespectsDeps /\ OnlyRepeatsAreUnorderable /\ WavesAgree /\ WorkIsReviewed)
<1>1. RouterInv => CycleIsFound /\ OrderRespectsDeps /\ OnlyRepeatsAreUnorderable /\ WavesAgree /\ WorkIsReviewed
  BY InvCycle, InvOrder, InvRepeats, InvWaves, InvReviewed DEF RouterInv, PolicyInv
<1> QED
  BY <1>1, RouterInvariant, PTL

=============================================================================
