---------------------------- MODULE TraderProofs -----------------------------
(***************************************************************************)
(* The kill switch and the book of economia-trader, for every venue,        *)
(* account and bound.                                                       *)
(*                                                                         *)
(* A market order is authorized some calls to the venue before it is        *)
(* placed, so one may still go out after the switch is engaged; it may be   *)
(* no more than one, although a tick submits several and each submission    *)
(* reconciles and returns into the middle of the tick.                      *)
(*                                                                         *)
(* The book holds no coin twice because of what it may still book: with all *)
(* that the orders it waits for have filled and it has not counted yet, it  *)
(* is not above what was ever bought.  That is so of the trader in memory   *)
(* and of the one that a restart loads, which asks about the same orders.   *)
(***************************************************************************)
EXTENDS Trader, WellFoundedInduction, TLAPS

\* The phases that follow a reconcile.
Resumes == {"positions", "stops", "exits", "entry", "save"}

\* An order on its way was authorized while the switch was open, so nothing has been
\* placed since it was engaged.
IInv ==
    /\ back \in Resumes
    /\ late \in {0, 1} /\ (~killed => late = 0)
    /\ pc \in {"cancel", "place"} => late = 0

LEMMA AfterOK == \A ph \in {"positions", "stops", "exits", "entry"} : After[ph] \in Resumes
BY DEF After, Resumes

\* A step that does not place, authorize or touch the switch, and goes on in another phase.
LEMMA QuietStep ==
    ASSUME IInv, UNCHANGED <<killed, late>>, back' \in Resumes,
           pc' \in {"cancel", "place"} => pc \in {"cancel", "place"} \/ late = 0
    PROVE  IInv'
BY DEF IInv

\* Nothing is authorized while the switch is engaged.
LEMMA SubmitStep ==
    ASSUME IInv, NEW side, NEW n, pc \in {"stops", "exits", "entry"},
           Submit(side, n) \/ (Refused(side, n) /\ UNCHANGED <<want, back>>),
           UNCHANGED <<killed, late>>
    PROVE  IInv'
<1>1. After[pc] \in Resumes
  BY AfterOK
<1>2. CASE Submit(side, n)
  BY <1>1, <1>2 DEF Submit, Authorized, IInv
<1>3. CASE Refused(side, n) /\ UNCHANGED <<want, back>>
  BY <1>1, <1>3 DEF Refused, IInv, Resumes
<1>4. QED
  BY <1>2, <1>3

\* An order reaches the venue and the tick leaves the phase that places it.
LEMMA ArriveStep ==
    ASSUME IInv, pc = "place", Arrives, killed' = killed, back' \in Resumes,
           pc' \notin {"cancel", "place"}
    PROVE  IInv'
BY DEF IInv, Arrives

LEMMA ReconcileStep ==
    ASSUME IInv,
           \/ SettleStop \/ StatusFails \/ (\E o \in OrderIds : Settle(o))
           \/ Synced \/ CancelToSync \/ CancelToSell \/ CancelFails
           \/ PlaceStop \/ PlaceStopRefused \/ (\E arrived \in BOOLEAN : PlaceStopFails(arrived))
    PROVE  IInv'
<1>1. "positions" \in Resumes /\ back \in Resumes /\ Resumes \cap {"cancel", "place"} = {}
  BY DEF Resumes, IInv
<1>2. CASE SettleStop \/ StatusFails \/ (\E o \in OrderIds : Settle(o))
  BY <1>1, <1>2, QuietStep DEF SettleStop, StatusFails, Settle
<1>3. CASE Synced \/ CancelToSync \/ CancelToSell
  BY <1>1, <1>3, QuietStep DEF Synced, CancelToSync, CancelToSell, Return
<1>4. CASE CancelFails
  BY <1>1, <1>4, QuietStep DEF CancelFails, Return
<1>5. CASE PlaceStop \/ PlaceStopRefused \/ (\E arrived \in BOOLEAN : PlaceStopFails(arrived))
  BY <1>1, <1>5, QuietStep DEF PlaceStop, PlaceStopRefused, PlaceStopFails, Return
<1>6. QED
  BY <1>2, <1>3, <1>4, <1>5

LEMMA TickStep ==
    ASSUME IInv,
           \/ SyncPositions \/ PositionsFail \/ PricesFail
           \/ StopReached \/ StopNotReached \/ ExitReached \/ NoExit
           \/ Enters \/ SellsLot \/ StaysOut \/ Save
    PROVE  IInv'
<1>1. /\ After["positions"] \in Resumes /\ After["stops"] \in Resumes /\ After["exits"] \in Resumes
      /\ back \in Resumes /\ Resumes \cap {"cancel", "place"} = {}
  BY AfterOK DEF Resumes, IInv
<1>2. CASE SyncPositions \/ PositionsFail
  BY <1>1, <1>2, QuietStep DEF SyncPositions, PositionsFail
<1>3. CASE PricesFail
  BY <1>1, <1>3 DEF PricesFail, IInv, Resumes
<1>4. CASE StopReached
  BY <1>4, SubmitStep DEF StopReached
<1>5. CASE StopNotReached \/ NoExit \/ StaysOut \/ Save
  BY <1>1, <1>5, QuietStep DEF StopNotReached, NoExit, StaysOut, Save
<1>6. CASE ExitReached
  BY <1>6, SubmitStep DEF ExitReached
<1>7. CASE Enters
  BY <1>7, SubmitStep DEF Enters
<1>8. CASE SellsLot
  BY <1>8, SubmitStep DEF SellsLot
<1>9. QED
  BY <1>2, <1>3, <1>4, <1>5, <1>6, <1>7, <1>8

LEMMA PlaceStep ==
    ASSUME IInv, Place \/ PlaceRefused \/ (\E arrived \in BOOLEAN : PlaceFails(arrived))
    PROVE  IInv'
<1>1. "positions" \in Resumes /\ back \in Resumes /\ Resumes \cap {"cancel", "place"} = {}
  BY DEF Resumes, IInv
<1>2. CASE Place
  BY <1>1, <1>2, ArriveStep DEF Place
<1>3. CASE PlaceRefused
  BY <1>1, <1>3, QuietStep DEF PlaceRefused, NotSent, Return
<1>4. ASSUME NEW arrived \in BOOLEAN, PlaceFails(arrived) PROVE IInv'
  <2>1. pc' = back /\ back' = "positions" /\ killed' = killed /\ pc = "place"
    BY <1>4 DEF PlaceFails, NotSent, Return
  <2>2. CASE arrived
    BY <1>1, <1>4, <2>1, <2>2, ArriveStep DEF PlaceFails
  <2>3. CASE ~arrived
    BY <1>1, <1>4, <2>1, <2>3, QuietStep DEF PlaceFails
  <2>4. QED
    BY <2>2, <2>3
<1>5. QED
  BY <1>2, <1>3, <1>4

LEMMA WorldStep ==
    ASSUME IInv, World PROVE IInv'
<1>1. CASE \E o \in OrderIds : Fill(o) \/ Expire(o)
  BY <1>1, QuietStep DEF Fill, Expire, IInv
<1>2. CASE SoldByHand
  BY <1>2, QuietStep DEF SoldByHand, IInv
<1>3. CASE Engage \/ Release
  BY <1>3 DEF Engage, Release, IInv
<1>4. CASE Restart
  BY <1>4, QuietStep DEF Restart, Resumes
<1>5. QED
  BY <1>1, <1>2, <1>3, <1>4 DEF World

\* Where the switch was read, wherever the tick is.
THEOREM SwitchInvariant == TraderSpec => []IInv
<1>1. TraderInit => IInv
  BY DEF TraderInit, IInv, Resumes
<1>2. IInv /\ [TraderNext]_traderVars => IInv'
  <2> SUFFICES ASSUME IInv, [TraderNext]_traderVars PROVE IInv'
    OBVIOUS
  <2>1. CASE Loop
    BY <2>1, ReconcileStep, TickStep, PlaceStep DEF Loop
  <2>2. CASE World
    BY <2>2, WorldStep
  <2>3. CASE UNCHANGED traderVars
    BY <2>3 DEF traderVars, IInv
  <2>4. QED
    BY <2>1, <2>2, <2>3 DEF TraderNext
<1>3. QED
  BY <1>1, <1>2, PTL DEF TraderSpec

\* After the kill switch is engaged (KillSwitch.engage, authorize) at most one more market order
\* of the trader reaches the venue, whatever fails, is killed or restarted.  Of the stop orders
\* that _sync_exchange_stop places the theorem says nothing.
THEOREM KillSwitchHolds == TraderSpec => []OneMarketOrderAfterKill
<1>1. IInv => OneMarketOrderAfterKill
  BY DEF IInv, OneMarketOrderAfterKill
<1>2. QED
  BY <1>1, SwitchInvariant, PTL

-----------------------------------------------------------------------------
(* What is booked *)

OrderType == [kind : {"none", "buy", "sell", "stop"}, qty : Int, filled : Nat, open : BOOLEAN]
WantType == [side : {"none", "buy", "sell"}, qty : Int]
RestType == [id : 0 .. Slots, qty : Int, booked : Int]

\* What each buy the trader waits for has filled and the book has not.
OwedOf(p, ords) ==
    [o \in OrderIds |-> IF p[o] # Off /\ ords[o].kind = "buy" THEN ords[o].filled - p[o] ELSE 0]

\* s adds up t, slot by slot.
IsSum(s, t) ==
    /\ s \in [0 .. Slots -> Nat] /\ s[0] = 0
    /\ \A k \in 1 .. Slots : s[k] = s[k - 1] + t[k]
    /\ \A j, k \in 0 .. Slots : j <= k => s[j] <= s[k]

\* An order waited for is one the venue has, and is not booked beyond what it filled.
Known(p, ords) == \A o \in OrderIds : p[o] # Off => p[o] <= ords[o].filled /\ ords[o].kind # "none"

\* What is owed changes for o alone.
OwesElsewhere(o, p, ords, p2, ords2) ==
    \A q \in OrderIds : q # o => OwedOf(p2, ords2)[q] = OwedOf(p, ords)[q]

\* The orders in p stay as filled as they were.
SameFills(p, ords, ords2) ==
    \A q \in OrderIds : p[q] = Off \/ (ords2[q].filled = ords[q].filled /\ ords2[q].kind = ords[q].kind)

\* A book of b that waits for the orders in p can book all they have filled, and is still not
\* above the n units that were bought.
Keeps(b, p, r, ords, n) ==
    /\ b \in Int /\ p \in [OrderIds -> Nat \union {Off}] /\ r \in RestType
    /\ Known(p, ords)
    /\ \E s : IsSum(s, OwedOf(p, ords)) /\ b + s[Slots] <= n

\* It is so of what is in memory and of what a restart loads; and nothing is asked about
\* twice in one reconcile().
BookInv ==
    /\ lot \in Int /\ bought \in Int /\ coins \in Int
    /\ orders \in [OrderIds -> OrderType] /\ want \in WantType
    /\ pc \in {"cancel", "place"} => want.side # "none"
    /\ todo \subseteq Pending(pend)
    /\ Keeps(book, pend, rest, orders, bought)
    /\ Keeps(disk.book, disk.pend, disk.rest, orders, bought)

\* A sum follows the one of its terms that changes.
LEMMA SumMoves ==
  ASSUME NEW t \in [OrderIds -> Nat], NEW u \in [OrderIds -> Nat], NEW o \in OrderIds,
         \A q \in OrderIds : q # o => u[q] = t[q],
         NEW s, IsSum(s, t)
  PROVE  \E v : IsSum(v, u) /\ v[Slots] = s[Slots] + (u[o] - t[o])
<1> DEFINE v == [k \in 0 .. Slots |-> IF k < o THEN s[k] ELSE s[k] + (u[o] - t[o])]
<1>1. /\ Slots \in Nat /\ o \in 1 .. Slots /\ Slots \in 0 .. Slots /\ ~(Slots < o)
      /\ t[o] \in Nat /\ u[o] \in Nat /\ o \in 0 .. Slots /\ o - 1 \in 0 .. Slots
      /\ 0 \in 0 .. Slots /\ 0 < o
  BY TraderAssumption DEF OrderIds
<1>2. ASSUME NEW k \in 0 .. Slots
      PROVE  s[k] \in Nat /\ (k >= o => s[k] >= t[o]) /\ (k < o => s[k] <= s[o] - t[o])
  <2>1. s[k] \in Nat /\ s[o] = s[o - 1] + t[o] /\ s[o] \in Nat /\ s[o - 1] \in Nat
    BY <1>1 DEF IsSum
  <2>2. k >= o => s[o] <= s[k]
    BY <1>1 DEF IsSum
  <2>3. k < o => s[k] <= s[o - 1]
    BY <1>1 DEF IsSum
  <2> QED
    BY <1>1, <2>1, <2>2, <2>3
<1>3. ASSUME NEW k \in 0 .. Slots PROVE v[k] \in Nat
  BY <1>1, <1>2
<1>4. ASSUME NEW k \in 1 .. Slots PROVE v[k] = v[k - 1] + u[k]
  <2>1. k \in 0 .. Slots /\ k - 1 \in 0 .. Slots /\ s[k] = s[k - 1] + t[k] /\ k \in OrderIds
    BY <1>1 DEF IsSum, OrderIds
  <2>2. s[k] \in Nat /\ s[k - 1] \in Nat /\ t[k] \in Nat /\ u[k] \in Nat
    BY <1>2, <2>1
  <2>3. v[k] = (IF k < o THEN s[k] ELSE s[k] + (u[o] - t[o]))
        /\ v[k - 1] = (IF k - 1 < o THEN s[k - 1] ELSE s[k - 1] + (u[o] - t[o]))
    BY <2>1
  <2>4. CASE k = o
    BY <1>1, <2>1, <2>2, <2>3, <2>4
  <2>5. CASE k # o
    <3>1. u[k] = t[k] /\ (k < o <=> k - 1 < o)
      BY <1>1, <2>1, <2>5
    <3> QED
      BY <1>1, <2>1, <2>2, <2>3, <3>1
  <2> QED
    BY <2>4, <2>5
<1>5. ASSUME NEW j \in 0 .. Slots, NEW k \in 0 .. Slots, j <= k PROVE v[j] <= v[k]
  <2>1. s[j] <= s[k]
    BY <1>5 DEF IsSum
  <2>2. /\ v[j] = (IF j < o THEN s[j] ELSE s[j] + (u[o] - t[o]))
        /\ v[k] = (IF k < o THEN s[k] ELSE s[k] + (u[o] - t[o]))
    OBVIOUS
  <2>3. j < o /\ k >= o => s[j] + t[o] <= s[k]
    <3>1. k >= o => s[o] <= s[k]
      BY <1>1 DEF IsSum
    <3> QED
      BY <1>1, <1>2, <3>1
  <2> QED
    BY <1>1, <1>2, <1>5, <2>1, <2>2, <2>3
<1>6. v[0] = 0 /\ v[Slots] = s[Slots] + (u[o] - t[o])
  BY <1>1 DEF IsSum
<1>7. v \in [0 .. Slots -> Nat]
  BY <1>3
<1> HIDE DEF v
<1>8. IsSum(v, u)
  BY <1>4, <1>5, <1>6, <1>7 DEF IsSum
<1> QED
  BY <1>6, <1>8

LEMMA OwedType ==
  ASSUME NEW b, NEW p, NEW r, NEW ords \in [OrderIds -> OrderType], NEW n, Keeps(b, p, r, ords, n)
  PROVE  OwedOf(p, ords) \in [OrderIds -> Nat]
<1>1. ASSUME NEW o \in OrderIds PROVE OwedOf(p, ords)[o] \in Nat
  <2>1. ords[o].filled \in Nat /\ p[o] \in Nat \union {Off}
    BY DEF OrderType, Keeps
  <2>2. p[o] # Off => p[o] <= ords[o].filled
    BY DEF Keeps, Known
  <2> QED
    BY <2>1, <2>2 DEF OwedOf
<1> QED
  BY <1>1 DEF OwedOf

\* What is owed changes for one order, and the book by no more than that.
LEMMA KeepsMoves ==
  ASSUME NEW b, NEW p, NEW r, NEW ords \in [OrderIds -> OrderType], NEW n \in Int,
         Keeps(b, p, r, ords, n),
         NEW b2 \in Int, NEW p2 \in [OrderIds -> Nat \union {Off}], NEW r2 \in RestType,
         NEW ords2 \in [OrderIds -> OrderType], NEW n2 \in Int, NEW o \in OrderIds,
         Known(p2, ords2), OwesElsewhere(o, p, ords, p2, ords2),
         b2 - n2 <= b - n - (OwedOf(p2, ords2)[o] - OwedOf(p, ords)[o])
  PROVE  Keeps(b2, p2, r2, ords2, n2)
<1> DEFINE t == OwedOf(p, ords)
           u == OwedOf(p2, ords2)
<1>1. t \in [OrderIds -> Nat]
  BY OwedType
<1>2. u \in [OrderIds -> Nat]
  <2>1. ASSUME NEW q \in OrderIds PROVE u[q] \in Nat
    <3>1. ords2[q].filled \in Nat /\ p2[q] \in Nat \union {Off}
      BY DEF OrderType
    <3>2. p2[q] # Off => p2[q] <= ords2[q].filled
      BY DEF Known
    <3> QED
      BY <3>1, <3>2 DEF OwedOf
  <2> QED
    BY <2>1 DEF OwedOf
<1>3. PICK s : IsSum(s, t) /\ b + s[Slots] <= n
  BY DEF Keeps
<1> HIDE DEF t, u
<1>4. PICK v : IsSum(v, u) /\ v[Slots] = s[Slots] + (u[o] - t[o])
  BY <1>1, <1>2, <1>3, SumMoves DEF t, u, OwesElsewhere
<1>5. b2 + v[Slots] <= n2
  <2>1. s[Slots] \in Nat /\ b \in Int /\ u[o] \in Nat /\ t[o] \in Nat
    BY <1>1, <1>2, <1>3, TraderAssumption DEF IsSum, Keeps
  <2> QED
    BY <1>3, <1>4, <2>1 DEF t, u
<1> QED
  BY <1>4, <1>5 DEF Keeps, u

\* Nothing changes for any order.
LEMMA KeepsStill ==
  ASSUME NEW b, NEW p, NEW r, NEW ords, NEW n \in Int, Keeps(b, p, r, ords, n),
         NEW b2 \in Int, b2 <= b, NEW r2 \in RestType, NEW ords2,
         SameFills(p, ords, ords2)
  PROVE  Keeps(b2, p, r2, ords2, n)
<1>1. OwedOf(p, ords2) = OwedOf(p, ords)
  BY DEF OwedOf, SameFills
<1>2. PICK s : IsSum(s, OwedOf(p, ords)) /\ b + s[Slots] <= n
  BY DEF Keeps
<1>3. s[Slots] \in Nat /\ b \in Int
  BY <1>2, TraderAssumption DEF IsSum, Keeps
<1>4. b2 + s[Slots] <= n
  BY <1>2, <1>3
<1>5. Known(p, ords2)
  BY DEF Keeps, Known, SameFills
<1> QED
  BY <1>1, <1>2, <1>4, <1>5 DEF Keeps

-----------------------------------------------------------------------------
(* The steps that leave the venue's orders and what is waited for alone *)

LEMMA QuietBook ==
  ASSUME BookInv, UNCHANGED <<orders, coins, bought, pend, disk, lot>>,
         book' \in Int, book' <= book, rest' \in RestType, want' \in WantType,
         pc' \in {"cancel", "place"} => want'.side # "none",
         todo' \subseteq todo
  PROVE  BookInv'
<1>1. bought \in Int /\ SameFills(pend, orders, orders)
  BY DEF BookInv, SameFills
<1>2. Keeps(book', pend, rest', orders, bought)
  BY <1>1, KeepsStill DEF BookInv
<1> QED
  BY <1>2 DEF BookInv, Pending

\* The book, the stop's record and the order on its way as they are.
LEMMA SameBook ==
  ASSUME BookInv, UNCHANGED <<orders, coins, bought, book, pend, rest, disk, lot, want, todo>>,
         pc' \in {"cancel", "place"} => pc \in {"cancel", "place"}
  PROVE  BookInv'
BY DEF BookInv, Pending

LEMMA SellsNoMore ==
  ASSUME book \in Int, NEW n \in Int, n > 0, SellFilled(n)
  PROVE  book' \in Int /\ book' <= book
BY DEF SellFilled, High

LEMMA SubmitBook ==
  ASSUME BookInv, NEW side \in {"buy", "sell"}, NEW n \in Int,
         Submit(side, n) \/ (Refused(side, n) /\ UNCHANGED <<want, back>>),
         pc \in {"stops", "exits", "entry"},
         UNCHANGED <<orders, coins, bought, book, pend, rest, disk, lot, todo>>
  PROVE  BookInv'
<1>1. book \in Int /\ rest \in RestType
  BY DEF BookInv, Keeps
<1>2. CASE Submit(side, n)
  <2>1. want' = [side |-> side, qty |-> n]
    BY <1>2 DEF Submit
  <2>2. want' \in WantType /\ want'.side # "none"
    BY <2>1 DEF WantType
  <2> QED
    BY <1>1, <2>2, QuietBook
<1>3. CASE Refused(side, n) /\ UNCHANGED <<want, back>>
  <2>1. pc' \notin {"cancel", "place"}
    BY <1>3 DEF Refused, After
  <2> QED
    BY <1>3, <2>1, SameBook
<1> QED
  BY <1>2, <1>3

LEMMA ReconcileBook ==
  ASSUME BookInv, UNCHANGED lot, back \in Resumes,
         SettleStop \/ StatusFails \/ Synced \/ CancelFails \/ PlaceStopRefused
  PROVE  BookInv'
<1>1. /\ book \in Int /\ rest \in RestType /\ orders \in [OrderIds -> OrderType]
      /\ want \in WantType /\ back \notin {"cancel", "place"}
  BY DEF BookInv, Keeps, Resumes
<1>2. CASE SettleStop
  <2> DEFINE n == orders[rest.id].filled - rest.booked
  <2>1. UNCHANGED <<orders, coins, bought, pend, disk, todo, want>> /\ pc' = "sync"
    BY <1>2 DEF SettleStop, venue
  <2>2. rest.id # 0 => rest.id \in OrderIds /\ orders[rest.id].filled \in Nat /\ n \in Int
    BY <1>1 DEF RestType, OrderType, OrderIds
  <2>3. \/ rest.id # 0 /\ n > 0 /\ SellFilled(n)
        \/ book' = book
    BY <1>2 DEF SettleStop
  <2>4. book' \in Int /\ book' <= book
    BY <1>1, <2>2, <2>3, SellsNoMore
  <2>5. rest' \in RestType
    <3>1. rest' = NoRest \/ (rest.id # 0 /\ rest' = [rest EXCEPT !.booked = orders[rest.id].filled])
      BY <1>2 DEF SettleStop
    <3>2. NoRest \in RestType
      BY TraderAssumption DEF NoRest, RestType
    <3> QED
      BY <1>1, <2>2, <3>1, <3>2 DEF RestType
  <2> QED
    BY <1>1, <2>1, <2>4, <2>5, QuietBook
<1>3. CASE StatusFails
  <2>1. UNCHANGED <<orders, coins, bought, book, pend, rest, disk, want>> /\ todo' \subseteq todo
        /\ pc' \in {"settle", "sync"}
    BY <1>3 DEF StatusFails, venue, memory
  <2> QED
    BY <1>1, <2>1, QuietBook
<1>4. CASE Synced
  BY <1>1, <1>4, SameBook DEF Synced, Return, venue, memory
<1>5. CASE CancelFails
  <2>1. UNCHANGED <<orders, coins, bought, book, pend, rest, disk, want, todo>>
    BY <1>5 DEF CancelFails, venue, memory
  <2>2. pc' \in {"cancel", "place"} => pc \in {"cancel", "place"}
    BY <1>1, <1>5 DEF CancelFails, Return
  <2> QED
    BY <2>1, <2>2, SameBook
<1>6. CASE PlaceStopRefused
  BY <1>1, <1>6, SameBook DEF PlaceStopRefused, Return, venue, memory
<1> QED
  BY <1>2, <1>3, <1>4, <1>5, <1>6

LEMMA TickBook ==
  ASSUME BookInv, UNCHANGED lot,
         \/ SyncPositions \/ PositionsFail \/ PricesFail
         \/ StopReached \/ StopNotReached \/ ExitReached \/ NoExit
         \/ Enters \/ SellsLot \/ StaysOut
  PROVE  BookInv'
<1>1. book \in Int /\ coins \in Int /\ rest \in RestType /\ want \in WantType /\ lot \in Int
  BY DEF BookInv, Keeps
<1>2. CASE SyncPositions
  <2>1. UNCHANGED <<orders, coins, bought, pend, rest, disk, want, todo>> /\ pc' = "stops"
    BY <1>2 DEF SyncPositions, venue, After
  <2>2. book' \in Int /\ book' <= book
    BY <1>1, <1>2 DEF SyncPositions, Followed, Low
  <2> QED
    BY <1>1, <2>1, <2>2, QuietBook
<1>3. CASE PositionsFail \/ PricesFail
  BY <1>3, SameBook DEF PositionsFail, PricesFail, After, venue, memory, trader
<1>4. CASE StopReached \/ ExitReached
  <2>1. /\ Submit("sell", book) \/ (Refused("sell", book) /\ UNCHANGED <<want, back>>)
        /\ pc \in {"stops", "exits"}
        /\ UNCHANGED <<orders, coins, bought, book, pend, rest, disk, todo>>
    BY <1>4 DEF StopReached, ExitReached, venue, memory, trader
  <2> QED
    BY <1>1, <2>1, SubmitBook
<1>5. CASE StopNotReached \/ NoExit \/ StaysOut
  BY <1>5, SameBook DEF StopNotReached, NoExit, StaysOut, After, venue, memory, trader
<1>6. CASE Enters
  <2>1. /\ Submit("buy", lot) \/ (Refused("buy", lot) /\ UNCHANGED <<want, back>>)
        /\ pc = "entry"
        /\ UNCHANGED <<orders, coins, bought, book, pend, rest, disk, todo>>
    BY <1>6 DEF Enters, venue, trader
  <2> QED
    BY <1>1, <2>1, SubmitBook
<1>7. CASE SellsLot
  <2>1. /\ Submit("sell", lot) \/ (Refused("sell", lot) /\ UNCHANGED <<want, back>>)
        /\ pc = "entry"
        /\ UNCHANGED <<orders, coins, bought, book, pend, rest, disk, todo>>
    BY <1>7 DEF SellsLot, venue, trader
  <2> QED
    BY <1>1, <2>1, SubmitBook
<1> QED
  BY <1>2, <1>3, <1>4, <1>5, <1>6, <1>7

-----------------------------------------------------------------------------
(* The steps that move an order *)

\* An order changes in what nobody books.
LEMMA OrdersBook ==
  ASSUME BookInv, orders' \in [OrderIds -> OrderType],
         SameFills(pend, orders, orders'), SameFills(disk.pend, orders, orders'),
         UNCHANGED <<coins, bought, book, pend, disk, lot, todo>>, rest' \in RestType,
         want' \in WantType, pc' \in {"cancel", "place"} => want'.side # "none"
  PROVE  BookInv'
<1>0. book \in Int /\ bought \in Int /\ disk.book \in Int /\ disk.rest \in RestType
  BY DEF BookInv, Keeps
<1>1. Keeps(book, pend, rest', orders', bought)
  BY <1>0, KeepsStill DEF BookInv
<1>2. Keeps(disk.book, disk.pend, disk.rest, orders', bought)
  BY <1>0, KeepsStill DEF BookInv
<1> QED
  BY <1>1, <1>2 DEF BookInv, Pending

\* Every set of numbers that is not empty has a least one.
LEMMA NatLeast ==
  ASSUME NEW T \in SUBSET Nat, T # {}
  PROVE  \E k \in T : \A n \in T : k <= n
<1>1. PICK k \in T : \A n \in T : <<n, k>> \notin OpToRel(<, Nat)
  BY NatLessThanWellFounded, WFMin
<1>2. \A n \in T : ~(n < k)
  BY <1>1 DEF OpToRel
<1> QED
  BY <1>2

LEMMA NextFree ==
  ASSUME Free # {}
  PROVE  NextId \in OrderIds /\ orders[NextId].kind = "none"
<1>1. Free \in SUBSET Nat
  BY DEF Free, OrderIds
<1>3. \E o \in Free : \A p \in Free : o <= p
  BY <1>1, NatLeast
<1>4. NextId \in Free
  BY <1>3 DEF NextId
<1> QED
  BY <1>4 DEF Free

\* An order that is closed stays as filled as it was.
LEMMA ClosedIsSame ==
  ASSUME NEW ords \in [OrderIds -> OrderType], NEW o, NEW p, NEW ords2,
         ords2 = ords \/ ords2 = [ords EXCEPT ![o].open = FALSE]
  PROVE  ords2 \in [OrderIds -> OrderType] /\ SameFills(p, ords, ords2)
<1>1. ASSUME NEW q \in OrderIds
      PROVE  /\ ords2[q] \in OrderType
             /\ ords2[q].filled = ords[q].filled /\ ords2[q].kind = ords[q].kind
  <2>1. ords[q] \in OrderType
    OBVIOUS
  <2>2. ords2[q] = ords[q] \/ ords2[q] = [ords[q] EXCEPT !.open = FALSE]
    OBVIOUS
  <2> QED
    BY <2>1, <2>2 DEF OrderType
<1>2. ords2 = [q \in OrderIds |-> ords2[q]]
  OBVIOUS
<1> QED
  BY <1>1, <1>2 DEF SameFills

\* A slot that is free is in nobody's book.
LEMMA FreeIsOff ==
  ASSUME BookInv, NEW o \in OrderIds, orders[o].kind = "none"
  PROVE  pend[o] = Off /\ disk.pend[o] = Off
BY DEF BookInv, Keeps, Known

\* An order arrives that the trader does not wait for.
LEMMA OrphanBook ==
  ASSUME BookInv, Free # {}, NEW kind \in {"buy", "sell", "stop"}, NEW n \in Int,
         orders' = [orders EXCEPT ![NextId] = NewOrder(kind, n)],
         UNCHANGED <<coins, bought, book, pend, disk, lot, todo>>, rest' \in RestType,
         want' \in WantType, pc' \in {"cancel", "place"} => want'.side # "none"
  PROVE  BookInv'
<1>1. NextId \in OrderIds /\ pend[NextId] = Off /\ disk.pend[NextId] = Off
  BY NextFree, FreeIsOff
<1> DEFINE o == NextId
           x == NewOrder(kind, n)
<1>2. x \in OrderType
  BY DEF NewOrder, OrderType
<1> HIDE DEF o, x
<1>3. orders' = [orders EXCEPT ![o] = x]
  BY DEF o, x
<1>4. orders' \in [OrderIds -> OrderType] /\ \A q \in OrderIds : q # o => orders'[q] = orders[q]
  BY <1>1, <1>2, <1>3 DEF BookInv, o
<1>5. SameFills(pend, orders, orders') /\ SameFills(disk.pend, orders, orders')
  BY <1>1, <1>4 DEF SameFills, o
<1> QED
  BY <1>4, <1>5, OrdersBook

LEMMA CancelBook ==
  ASSUME BookInv, UNCHANGED lot, back \in Resumes, CancelToSync \/ CancelToSell
  PROVE  BookInv'
<1>1. /\ rest \in RestType /\ orders \in [OrderIds -> OrderType] /\ want \in WantType
      /\ back \notin {"cancel", "place"} /\ NoRest \in RestType
  BY TraderAssumption DEF BookInv, Keeps, Resumes, NoRest, RestType
<1>2. /\ Cancelled /\ UNCHANGED <<coins, bought, book, pend, disk, todo, want>>
      /\ pc' \in {"cancel", "place"} => pc \in {"cancel", "place"}
  BY <1>1 DEF CancelToSync, CancelToSell, Return
<1>3. rest' \in RestType
  BY <1>1, <1>2 DEF Cancelled
<1>4. orders' = orders \/ orders' = [orders EXCEPT ![rest.id].open = FALSE]
  BY <1>2 DEF Cancelled
<1>5. /\ orders' \in [OrderIds -> OrderType]
      /\ SameFills(pend, orders, orders') /\ SameFills(disk.pend, orders, orders')
  BY <1>1, <1>4, ClosedIsSame
<1> QED
  BY <1>1, <1>2, <1>3, <1>5, OrdersBook DEF BookInv

LEMMA PlaceStopBook ==
  ASSUME BookInv, UNCHANGED lot, back \in Resumes,
         PlaceStop \/ (\E arrived \in BOOLEAN : PlaceStopFails(arrived))
  PROVE  BookInv'
<1>1. rest \in RestType /\ book \in Int /\ want \in WantType /\ back \notin {"cancel", "place"}
  BY DEF BookInv, Keeps, Resumes
<1>2. CASE PlaceStop
  <2>1. /\ Free # {} /\ orders' = [orders EXCEPT ![NextId] = NewOrder("stop", book)]
        /\ rest' = [id |-> NextId, qty |-> book, booked |-> 0]
        /\ UNCHANGED <<coins, bought, book, pend, disk, todo, want>> /\ pc' = back
    BY <1>2 DEF PlaceStop, Return
  <2>2. rest' \in RestType
    BY <1>1, <2>1, NextFree DEF RestType, OrderIds
  <2> QED
    BY <1>1, <2>1, <2>2, OrphanBook
<1>3. ASSUME NEW arrived \in BOOLEAN, PlaceStopFails(arrived) PROVE BookInv'
  <2>1. UNCHANGED <<coins, bought, book, pend, rest, disk, todo, want>> /\ pc' = back
    BY <1>3 DEF PlaceStopFails, Return, memory
  <2>2. \/ UNCHANGED orders
        \/ Free # {} /\ orders' = [orders EXCEPT ![NextId] = NewOrder("stop", book)]
    BY <1>3 DEF PlaceStopFails
  <2> QED
    BY <1>1, <2>1, <2>2, SameBook, OrphanBook
<1> QED
  BY <1>2, <1>3

LEMMA PlaceBook ==
  ASSUME BookInv, UNCHANGED lot, back \in Resumes,
         Place \/ PlaceRefused \/ (\E arrived \in BOOLEAN : PlaceFails(arrived))
  PROVE  BookInv'
<1>1. /\ rest \in RestType /\ book \in Int /\ want \in WantType /\ orders \in [OrderIds -> OrderType]
      /\ back \notin {"cancel", "place"} /\ NoWant \in WantType
  BY DEF BookInv, Keeps, Resumes, NoWant, WantType
<1>2. pc = "place" => want.side \in {"buy", "sell"} /\ want.qty \in Int
  BY <1>1 DEF BookInv, WantType
<1>3. CASE Place
  <2> DEFINE o == NextId
             x == NewOrder(want.side, want.qty)
  <2>1. /\ pc = "place" /\ Free # {} /\ orders' = [orders EXCEPT ![o] = x]
        /\ pend' = [pend EXCEPT ![o] = 0] /\ todo' = Pending(pend') /\ want' = NoWant
        /\ pc' = "settle" /\ UNCHANGED <<coins, bought, book, rest, disk>>
    BY <1>3 DEF Place, Takes, Arrives
  <2>2. o \in OrderIds /\ pend[o] = Off /\ disk.pend[o] = Off
    BY <2>1, NextFree, FreeIsOff
  <2>3. x \in OrderType /\ x.filled = 0 /\ x.kind # "none"
    BY <1>2, <2>1 DEF NewOrder, OrderType
  <2> HIDE DEF o, x
  <2>4. /\ orders' \in [OrderIds -> OrderType] /\ orders'[o] = x
        /\ \A q \in OrderIds : q # o => orders'[q] = orders[q]
    BY <1>1, <2>1, <2>2, <2>3
  <2>5. /\ pend' \in [OrderIds -> Nat \union {Off}] /\ pend'[o] = 0
        /\ \A q \in OrderIds : q # o => pend'[q] = pend[q]
    BY <2>1, <2>2 DEF BookInv, Keeps
  <2>6. Keeps(book, pend', rest, orders', bought)
    <3>1. Known(pend', orders')
      BY <2>3, <2>4, <2>5 DEF BookInv, Keeps, Known
    <3>2. OwesElsewhere(o, pend, orders, pend', orders')
      BY <2>4, <2>5 DEF OwedOf, OwesElsewhere
    <3>3. OwedOf(pend', orders')[o] = 0 /\ OwedOf(pend, orders)[o] = 0
      BY <2>2, <2>3, <2>4, <2>5 DEF OwedOf
    <3>4. book - bought <= book - bought - (OwedOf(pend', orders')[o] - OwedOf(pend, orders)[o])
          /\ bought \in Int
      BY <1>1, <3>3 DEF BookInv
    <3> QED
      BY <1>1, <2>2, <2>4, <2>5, <3>1, <3>2, <3>4, KeepsMoves DEF BookInv
  <2>7. Keeps(disk.book, disk.pend, disk.rest, orders', bought)
    <3>1. SameFills(disk.pend, orders, orders')
      BY <2>2, <2>4 DEF SameFills
    <3>2. disk.book \in Int /\ disk.rest \in RestType /\ bought \in Int
      BY DEF BookInv, Keeps
    <3> QED
      BY <3>1, <3>2, KeepsStill DEF BookInv
  <2> QED
    BY <1>1, <2>1, <2>4, <2>6, <2>7 DEF BookInv, Pending
<1>4. CASE PlaceRefused
  <2>1. /\ UNCHANGED <<orders, coins, bought, book, pend, rest, disk, todo>> /\ want' = NoWant
        /\ pc' = back
    BY <1>4 DEF PlaceRefused, NotSent, Return, venue, trader
  <2> QED
    BY <1>1, <2>1, QuietBook
<1>5. ASSUME NEW arrived \in BOOLEAN, PlaceFails(arrived) PROVE BookInv'
  <2>1. /\ UNCHANGED <<coins, bought, book, pend, rest, disk, todo>> /\ want' = NoWant
        /\ pc' = back /\ pc = "place"
    BY <1>5 DEF PlaceFails, NotSent, Return, trader
  <2>2. \/ UNCHANGED orders
        \/ Free # {} /\ orders' = [orders EXCEPT ![NextId] = NewOrder(want.side, want.qty)]
    BY <1>5 DEF PlaceFails, Takes, Arrives
  <2>3. CASE UNCHANGED orders
    BY <1>1, <2>1, <2>3, QuietBook
  <2>4. CASE Free # {} /\ orders' = [orders EXCEPT ![NextId] = NewOrder(want.side, want.qty)]
    BY <1>1, <1>2, <2>1, <2>4, OrphanBook
  <2> QED
    BY <2>2, <2>3, <2>4
<1> QED
  BY <1>3, <1>4, <1>5

\* An order the trader waits for is asked about: what it filled since is booked, once.
LEMMA SettleBook ==
  ASSUME BookInv, UNCHANGED lot, NEW o \in OrderIds, Settle(o)
  PROVE  BookInv'
<1> DEFINE n == orders[o].filled - pend[o]
<1>1. /\ pc = "settle" /\ o \in todo /\ todo' = todo \ {o} /\ pc' = "settle"
      /\ pend' = [pend EXCEPT ![o] = Booked(o)]
      /\ UNCHANGED <<orders, coins, bought, rest, disk, want>>
  BY DEF Settle, venue
<1>2. /\ pend[o] # Off /\ pend[o] \in Nat /\ pend[o] <= orders[o].filled
      /\ orders[o].filled \in Nat /\ orders[o].kind # "none" /\ book \in Int
      /\ rest \in RestType /\ bought \in Int /\ orders \in [OrderIds -> OrderType]
  BY <1>1 DEF BookInv, Keeps, Known, Pending, OrderType
<1>3. Booked(o) \in {orders[o].filled, Off}
  BY DEF Booked
<1>4. /\ pend' \in [OrderIds -> Nat \union {Off}] /\ pend'[o] \in {orders[o].filled, Off}
      /\ \A q \in OrderIds : q # o => pend'[q] = pend[q]
  BY <1>1, <1>2, <1>3 DEF BookInv, Keeps
<1>5. Known(pend', orders)
  BY <1>2, <1>4 DEF BookInv, Keeps, Known
<1>6. OwesElsewhere(o, pend, orders, pend', orders)
  BY <1>4 DEF OwedOf, OwesElsewhere
<1>7. OwedOf(pend', orders)[o] = 0
  BY <1>2, <1>4 DEF OwedOf
<1>8. OwedOf(pend, orders)[o] = IF orders[o].kind = "buy" THEN n ELSE 0
  BY <1>2 DEF OwedOf
<1>9. book' \in Int /\ book' <= book + (IF orders[o].kind = "buy" THEN n ELSE 0)
  <2>1. CASE orders[o].kind = "buy"
    <3>1. book' = book + n
      BY <2>1 DEF Settle
    <3> QED
      BY <1>2, <2>1, <3>1
  <2>2. CASE orders[o].kind # "buy"
    <3>1. (n > 0 /\ SellFilled(n)) \/ book' = book
      BY <2>2 DEF Settle
    <3> QED
      BY <1>2, <2>2, <3>1, SellsNoMore
  <2> QED
    BY <2>1, <2>2
<1> HIDE DEF n
<1>10. book' - bought <= book - bought - (OwedOf(pend', orders)[o] - OwedOf(pend, orders)[o])
  <2>1. n \in Int
    BY <1>2 DEF n
  <2> QED
    BY <1>2, <1>7, <1>8, <1>9, <2>1
<1>11. Keeps(book', pend', rest, orders, bought)
  BY <1>2, <1>4, <1>5, <1>6, <1>9, <1>10, KeepsMoves DEF BookInv
<1>12. todo' \subseteq Pending(pend')
  BY <1>1, <1>4 DEF BookInv, Pending
<1> QED
  BY <1>1, <1>11, <1>12 DEF BookInv

\* The venue fills a unit: what was bought grows with what is owed.
LEMMA FillBook ==
  ASSUME BookInv, UNCHANGED lot, NEW o \in OrderIds, Fill(o)
  PROVE  BookInv'
<1>1. /\ orders' = [orders EXCEPT ![o].filled = @ + 1, ![o].open = orders[o].filled + 1 < orders[o].qty]
      /\ bought' = IF orders[o].kind = "buy" THEN bought + 1 ELSE bought
      /\ coins' = IF orders[o].kind = "buy" THEN coins + 1 ELSE coins - 1
      /\ UNCHANGED <<book, pend, rest, disk, want, todo, pc>>
  BY DEF Fill, memory
<1>2. bought \in Int /\ coins \in Int /\ orders \in [OrderIds -> OrderType]
  BY DEF BookInv
<1>3. /\ orders' \in [OrderIds -> OrderType] /\ orders'[o].filled = orders[o].filled + 1
      /\ orders'[o].kind = orders[o].kind /\ orders[o].filled \in Nat
      /\ \A q \in OrderIds : q # o => orders'[q] = orders[q]
  <2>1. orders[o] \in OrderType /\ orders[o].filled \in Nat
    BY <1>2 DEF OrderType
  <2> DEFINE left == orders[o].filled + 1 < orders[o].qty
             y == [orders[o] EXCEPT !.filled = @ + 1]
             x == [y EXCEPT !.open = left]
  <2>4. left \in BOOLEAN
    OBVIOUS
  <2>5. orders' = [orders EXCEPT ![o].filled = @ + 1, ![o].open = left]
    BY <1>1
  <2> HIDE DEF left
  <2>2. x \in OrderType /\ x.filled = orders[o].filled + 1 /\ x.kind = orders[o].kind
    <3>1. y \in OrderType /\ y.filled = orders[o].filled + 1 /\ y.kind = orders[o].kind
      BY <2>1 DEF OrderType
    <3> HIDE DEF y
    <3> QED
      BY <2>4, <3>1 DEF OrderType
  <2>3. orders' = [orders EXCEPT ![o] = x]
    BY <1>2, <2>5
  <2> HIDE DEF x
  <2> QED
    BY <1>2, <2>1, <2>2, <2>3
<1>4. bought' \in Int /\ coins' \in Int
  BY <1>1, <1>2
<1>5. ASSUME NEW b, NEW p, NEW r, Keeps(b, p, r, orders, bought)
      PROVE  Keeps(b, p, r, orders', bought')
  <2>1. /\ b \in Int /\ p \in [OrderIds -> Nat \union {Off}] /\ r \in RestType
        /\ Known(p, orders)
    BY <1>5 DEF Keeps
  <2>2. Known(p, orders')
    <3> SUFFICES ASSUME NEW q \in OrderIds, p[q] # Off
                 PROVE  p[q] <= orders'[q].filled /\ orders'[q].kind # "none"
      BY DEF Known
    <3>1. p[q] <= orders[q].filled /\ orders[q].kind # "none" /\ p[q] \in Nat
      BY <2>1 DEF Known
    <3> QED
      BY <1>3, <3>1
  <2>3. OwesElsewhere(o, p, orders, p, orders')
    BY <1>3 DEF OwedOf, OwesElsewhere
  <2>4. OwedOf(p, orders')[o] - OwedOf(p, orders)[o] <= bought' - bought
        /\ OwedOf(p, orders')[o] \in Int /\ OwedOf(p, orders)[o] \in Int
    BY <1>1, <1>2, <1>3, <2>1 DEF OwedOf, Known
  <2>5. b - bought' <= b - bought - (OwedOf(p, orders')[o] - OwedOf(p, orders)[o])
    BY <1>2, <1>4, <2>1, <2>4
  <2> QED
    BY <1>2, <1>3, <1>4, <1>5, <2>1, <2>2, <2>3, <2>5, KeepsMoves
<1>6. Keeps(book, pend, rest, orders', bought')
  BY <1>5 DEF BookInv
<1>7. Keeps(disk.book, disk.pend, disk.rest, orders', bought')
  BY <1>5 DEF BookInv
<1> QED
  BY <1>1, <1>3, <1>4, <1>6, <1>7 DEF BookInv, Pending

\* What is saved is what is there; the slots given back are those nobody waits for.
LEMMA SaveBook ==
  ASSUME BookInv, UNCHANGED lot, Save
  PROVE  BookInv'
<1>1. /\ disk' = Memory /\ pc' = "settle" /\ todo' = Pending(pend)
      /\ UNCHANGED <<coins, bought, book, pend, rest, want>>
  BY DEF Save, memory
<1>2. \A q \in OrderIds : orders'[q] = orders[q] \/ (orders'[q] = NoOrder /\ pend[q] = Off)
  BY DEF Save
<1>3. orders' \in [OrderIds -> OrderType]
  <2>1. NoOrder \in OrderType
    BY DEF NoOrder, OrderType
  <2> QED
    BY <2>1 DEF Save, BookInv
<1>4. Keeps(book, pend, rest, orders', bought)
  <2>1. SameFills(pend, orders, orders')
    BY <1>2 DEF SameFills
  <2>2. book \in Int /\ rest \in RestType /\ bought \in Int
    BY DEF BookInv, Keeps
  <2> QED
    BY <2>1, <2>2, KeepsStill DEF BookInv
<1>5. disk'.book = book /\ disk'.pend = pend /\ disk'.rest = rest
  BY <1>1 DEF Memory
<1> QED
  BY <1>1, <1>3, <1>4, <1>5 DEF BookInv, Pending

LEMMA RestartBook ==
  ASSUME BookInv, UNCHANGED lot, Restart
  PROVE  BookInv'
<1>1. /\ book' = disk.book /\ pend' = disk.pend /\ rest' = disk.rest
      /\ UNCHANGED <<orders, coins, bought, disk>> /\ want' = NoWant
      /\ todo' = Pending(disk.pend) /\ pc' = "settle"
  BY DEF Restart, venue
<1> QED
  BY <1>1 DEF BookInv, NoWant, WantType, Pending

LEMMA WorldBook ==
  ASSUME BookInv, World
  PROVE  BookInv'
<1>0. UNCHANGED lot
  BY DEF World
<1>1. ASSUME NEW o \in OrderIds, Fill(o) PROVE BookInv'
  BY <1>0, <1>1, FillBook
<1>2. ASSUME NEW o \in OrderIds, Expire(o) PROVE BookInv'
  <2>1. /\ orders' = [orders EXCEPT ![o].open = FALSE]
        /\ UNCHANGED <<coins, bought, book, pend, rest, disk, want, todo, pc>>
    BY <1>2 DEF Expire, memory
  <2>2. /\ orders' \in [OrderIds -> OrderType]
        /\ SameFills(pend, orders, orders') /\ SameFills(disk.pend, orders, orders')
    BY <2>1, ClosedIsSame DEF BookInv
  <2> QED
    BY <1>0, <2>1, <2>2, OrdersBook DEF BookInv, Keeps
<1>3. CASE Engage \/ Release
  BY <1>0, <1>3, SameBook DEF Engage, Release, venue, memory
<1>5. CASE SoldByHand
  <2>1. /\ UNCHANGED <<orders, bought, book, pend, rest, disk, want, todo, pc>>
        /\ coins' = coins - 1
    BY <1>5 DEF SoldByHand, memory
  <2> QED
    BY <1>0, <2>1 DEF BookInv, Pending
<1>4. CASE Restart
  BY <1>0, <1>4, RestartBook
<1> QED
  BY <1>1, <1>2, <1>3, <1>4, <1>5 DEF World

LEMMA LoopBook ==
  ASSUME BookInv, back \in Resumes, Loop
  PROVE  BookInv'
<1>0. UNCHANGED lot
  BY DEF Loop
<1>1. ASSUME NEW o \in OrderIds, Settle(o) PROVE BookInv'
  BY <1>0, <1>1, SettleBook
<1>2. CASE SettleStop \/ StatusFails \/ Synced \/ CancelFails \/ PlaceStopRefused
  BY <1>0, <1>2, ReconcileBook
<1>3. CASE CancelToSync \/ CancelToSell
  BY <1>0, <1>3, CancelBook
<1>4. CASE PlaceStop \/ (\E arrived \in BOOLEAN : PlaceStopFails(arrived))
  BY <1>0, <1>4, PlaceStopBook
<1>5. CASE \/ SyncPositions \/ PositionsFail \/ PricesFail
           \/ StopReached \/ StopNotReached \/ ExitReached \/ NoExit
           \/ Enters \/ SellsLot \/ StaysOut
  BY <1>0, <1>5, TickBook
<1>6. CASE Place \/ PlaceRefused \/ (\E arrived \in BOOLEAN : PlaceFails(arrived))
  BY <1>0, <1>6, PlaceBook
<1>7. CASE Save
  BY <1>0, <1>7, SaveBook
<1> QED
  BY <1>1, <1>2, <1>3, <1>4, <1>5, <1>6, <1>7 DEF Loop

LEMMA InitBook == TraderInit => BookInv
<1> SUFFICES ASSUME TraderInit PROVE BookInv
  OBVIOUS
<1>1. /\ lot \in Int /\ bought = 0 /\ coins \in Int /\ book = 0 /\ rest = NoRest /\ want = NoWant /\ todo = {}
      /\ pend = [o \in OrderIds |-> Off] /\ orders = [o \in OrderIds |-> NoOrder] /\ pc = "settle"
      /\ disk.book = book /\ disk.pend = pend /\ disk.rest = rest
  BY TraderAssumption DEF TraderInit, Memory
<1>2. Slots \in Nat
  BY TraderAssumption
<1>3. IsSum([k \in 0 .. Slots |-> 0], OwedOf(pend, orders))
  BY <1>1, <1>2 DEF IsSum, OwedOf, OrderIds
<1>4. book + [k \in 0 .. Slots |-> 0][Slots] <= bought
  BY <1>1, <1>2
<1>5. rest \in RestType /\ NoOrder \in OrderType /\ NoWant \in WantType
  BY <1>1, <1>2 DEF NoRest, RestType, NoOrder, OrderType, NoWant, WantType
<1>6. Keeps(book, pend, rest, orders, bought)
  <2>1. \E s : IsSum(s, OwedOf(pend, orders)) /\ book + s[Slots] <= bought
    BY <1>3, <1>4
  <2>2. pend \in [OrderIds -> Nat \union {Off}] /\ \A o \in OrderIds : pend[o] = Off
    BY <1>1
  <2> QED
    BY <1>1, <1>5, <2>1, <2>2 DEF Keeps, Known
<1> QED
  BY <1>1, <1>5, <1>6 DEF BookInv

LEMMA KeepsBelow ==
  ASSUME NEW b, NEW p, NEW r, NEW ords, NEW n \in Int, Keeps(b, p, r, ords, n)
  PROVE  b <= n
<1>1. PICK s : IsSum(s, OwedOf(p, ords)) /\ b + s[Slots] <= n
  BY DEF Keeps
<1>2. s[Slots] \in Nat /\ b \in Int
  BY <1>1, TraderAssumption DEF IsSum, Keeps
<1> QED
  BY <1>1, <1>2

\* The book, and what a restart would load of it, is never above what buys have filled, for
\* any venue, faults and sizes: no fill is booked twice.
THEOREM FillsAreBookedOnce == TraderSpec => []NothingBookedTwice
<1>1. ASSUME IInv, BookInv, [TraderNext]_traderVars PROVE BookInv'
  <2>1. CASE Loop
    BY <1>1, <2>1, LoopBook DEF IInv
  <2>2. CASE World
    BY <1>1, <2>2, WorldBook
  <2>3. CASE UNCHANGED traderVars
    BY <1>1, <2>3 DEF traderVars, venue, memory, bounds, BookInv, Pending
  <2> QED
    BY <1>1, <2>1, <2>2, <2>3 DEF TraderNext
<1>2. BookInv => NothingBookedTwice
  BY KeepsBelow DEF BookInv, NothingBookedTwice
<1> QED
  BY <1>1, <1>2, SwitchInvariant, InitBook, PTL DEF TraderSpec

=============================================================================
