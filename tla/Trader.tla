-------------------------------- MODULE Trader --------------------------------
(***************************************************************************)
(* economia-trader on a venue that reports fills (trader.py, with the two   *)
(* loops that drive it, runner.py and grid.py): one symbol, market orders,  *)
(* and one stop order resting on the venue for the whole position.          *)
(*                                                                         *)
(* The trader keeps a book of its own: what it holds, the orders it waits   *)
(* for with how much of each is booked, the stop order it placed.  The      *)
(* venue fills, cancels and refuses as it likes between any two calls to    *)
(* it, and the book is written to state.json only at the end of a tick.     *)
(*                                                                         *)
(* A tick is a walk through the phases in `pc'.  Submitting an order runs   *)
(* reconcile() again before the tick goes on: `back' is where it returns.   *)
(* Prices are abstracted: whether a stop, a take-profit, a time exit or a   *)
(* level is reached is a choice, and a stop is renewed for its size only.   *)
(* A buy is always of one lot.                                              *)
(***************************************************************************)
EXTENDS Integers, FiniteSets

CONSTANTS
    Loops,        \* the loops considered, of "runner" and "grid"
    Sizes,        \* the sizes of a buy considered, in units
    MaxLots,      \* the exposure cap, max_lots of the grid, in lots
    VenueStops,   \* the venue takes stop orders
    Own,          \* units of the symbol that the account's owner had before
    MaxErrors,    \* max_errors_in_row
    Slots,        \* bound: orders of the venue that matter at once
    MaxUnits,     \* bound: units that the trader's own orders ask for, together
    MaxTrouble    \* bound: failed calls, expired orders, kills and sales by the owner

ASSUME TraderAssumption ==
    /\ Loops \subseteq {"runner", "grid"}
    /\ Sizes \subseteq Nat \ {0} /\ MaxLots \in Nat \ {0}
    /\ VenueStops \in BOOLEAN
    /\ Own \in Nat /\ MaxErrors \in Nat \ {0}
    /\ Slots \in Nat \ {0} /\ MaxUnits \in Nat /\ MaxTrouble \in Nat

VARIABLES
    loop, lot,  \* the loop that runs, and the size of its buys
    orders,     \* the venue: its orders, by slot
    coins,      \* the venue: the account's balance of the symbol
    bought,     \* units that buy orders ever filled
    book,       \* trader.state.positions: the quantity held, 0 for none
    stop,       \* trader.stops has a price for the symbol
    pend,       \* trader.pending: how much of each order is booked
    rest,       \* trader.exchange_stops: the stop order on the venue
    noted,      \* trader._client_side_noted (in memory only)
    meta,       \* runner.meta: take-profit and time exit of the position
    lots, act,  \* grid.book: lots held, and the action not yet confirmed
    errors,     \* runner.errors_in_row
    disk,       \* state.json
    killed,     \* the kill switch's file
    late,       \* market orders, of entries and exits, placed since it was last engaged
    pc, back,   \* the phase of the tick, and the one after reconcile()
    todo,       \* orders that reconcile() still has to ask about
    want,       \* the order being submitted
    placed, trouble

venue == <<orders, coins, bought>>
trader == <<book, stop, pend, rest>>
plans == <<meta, lots, act>>
memory == <<book, stop, pend, rest, meta, lots, act, errors>>
bounds == <<placed, trouble>>
traderVars == <<loop, lot, venue, memory, noted, disk, killed, late, pc, back, todo, want, bounds>>

OrderIds == 1 .. Slots
NoOrder == [kind |-> "none", qty |-> 0, filled |-> 0, open |-> FALSE]
NoRest == [id |-> 0, qty |-> 0, booked |-> 0]
NoWant == [side |-> "none", qty |-> 0]
Off == -1                  \* pend[o] of an order the trader does not wait for

Pending(p) == {o \in OrderIds : p[o] # Off}
Low(a, b) == IF a < b THEN a ELSE b
High(a, b) == IF a < b THEN b ELSE a

\* The order of a tick once its first reconcile() is done.
After == [positions |-> "stops", stops |-> "exits", exits |-> "entry", entry |-> "save"]

\* The phases that call the venue: what it does shows there.
Calls == {"settle", "sync", "positions", "cancel", "place"}

Memory == [book |-> book, stop |-> stop, pend |-> pend, rest |-> rest, meta |-> meta,
           lots |-> lots, act |-> act, errors |-> errors]

TraderInit ==
    /\ loop \in Loops /\ lot \in Sizes
    /\ orders = [o \in OrderIds |-> NoOrder] /\ coins = Own /\ bought = 0
    /\ book = 0 /\ stop = FALSE /\ pend = [o \in OrderIds |-> Off] /\ rest = NoRest
    /\ noted = FALSE
    /\ meta = FALSE /\ lots = 0 /\ act = "none" /\ errors = 0
    /\ disk = Memory
    /\ killed = FALSE /\ late = 0
    /\ pc = "settle" /\ back = "positions" /\ todo = {} /\ want = NoWant
    /\ placed = 0 /\ trouble = 0

Fault == trouble < MaxTrouble /\ trouble' = trouble + 1

-----------------------------------------------------------------------------
(* The venue and its owner *)

Fill(o) ==
    /\ pc \in Calls /\ orders[o].open /\ (orders[o].kind = "buy" \/ coins > 0)
    /\ orders' = [orders EXCEPT ![o].filled = @ + 1, ![o].open = orders[o].filled + 1 < orders[o].qty]
    /\ coins' = IF orders[o].kind = "buy" THEN coins + 1 ELSE coins - 1
    /\ bought' = IF orders[o].kind = "buy" THEN bought + 1 ELSE bought
    /\ UNCHANGED <<memory, noted, disk, killed, late, pc, back, todo, want, bounds>>

\* A stop for the day at the close, or the rest of an order that finds no taker.
Expire(o) ==
    /\ pc \in Calls /\ orders[o].open /\ Fault
    /\ orders' = [orders EXCEPT ![o].open = FALSE]
    /\ UNCHANGED <<coins, bought, memory, noted, disk, killed, late, pc, back, todo, want, placed>>

SoldByHand ==
    /\ pc \in Calls /\ coins > 0 /\ Fault
    /\ coins' = coins - 1
    /\ UNCHANGED <<orders, bought, memory, noted, disk, killed, late, pc, back, todo, want, placed>>

\* Somebody touches the file, or the loop does on a drawdown.
Engage ==
    /\ ~killed /\ Fault
    /\ killed' = TRUE /\ late' = 0
    /\ UNCHANGED <<venue, memory, noted, disk, pc, back, todo, want, placed>>

Release ==
    /\ killed /\ killed' = FALSE /\ late' = 0
    /\ UNCHANGED <<venue, memory, noted, disk, pc, back, todo, want, bounds>>

-----------------------------------------------------------------------------
(* reconcile *)

\* Mutant: what was booked of the order is not written down.
BookedForgets(o) == IF orders[o].open THEN pend[o] ELSE Off

\* rec["booked"] after asking about the order; a final order is waited for no longer.
Booked(o) == IF orders[o].open THEN orders[o].filled ELSE Off

\* _book_fill for n units sold: at most what the book holds.
SellFilled(n) ==
    /\ book' = IF book > 0 THEN High(book - n, 0) ELSE book
    /\ stop' = (stop /\ ~(book > 0 /\ n >= book))

\* _settle of an order the trader waits for, in the order they were placed (or any other).
Settle(o) ==
    /\ pc = "settle" /\ o \in todo
    /\ todo' = todo \ {o}
    /\ IF orders[o].kind = "buy"
       THEN book' = book + (orders[o].filled - pend[o]) /\ stop' = stop
       ELSE LET n == orders[o].filled - pend[o]
            IN  IF n > 0 THEN SellFilled(n) ELSE UNCHANGED <<book, stop>>
    /\ pend' = [pend EXCEPT ![o] = Booked(o)]
    /\ UNCHANGED <<venue, rest, plans, errors, noted, disk, killed, late, pc, back, want, bounds>>

SettleStop ==
    /\ pc = "settle" /\ todo = {}
    /\ LET n == orders[rest.id].filled - rest.booked
       IN  IF rest.id # 0 /\ n > 0 THEN SellFilled(n) ELSE UNCHANGED <<book, stop>>
    /\ rest' = IF rest.id = 0 \/ ~orders[rest.id].open THEN NoRest
               ELSE [rest EXCEPT !.booked = orders[rest.id].filled]
    /\ pc' = "sync"
    /\ UNCHANGED <<venue, pend, plans, errors, noted, disk, killed, late, back, todo, want, bounds>>

\* order_status raises: logged, asked again at the next reconcile.
StatusFails ==
    /\ pc = "settle" /\ Fault
    /\ \/ \E o \in todo : todo' = todo \ {o} /\ pc' = pc
       \/ todo = {} /\ rest.id # 0 /\ todo' = todo /\ pc' = "sync"
    /\ UNCHANGED <<venue, memory, noted, disk, killed, late, back, want, placed>>

-----------------------------------------------------------------------------
(* _sync_exchange_stop: called for a position in the book *)

\* Mutant: a stop that rests is never renewed.
StopInPlaceOfAnySize == rest.id # 0

StopInPlace == rest.id # 0 /\ rest.qty = book

Return == pc' = back /\ back' = "positions"

Synced ==
    /\ pc = "sync"
    /\ book = 0 \/ (~stop /\ rest.id = 0) \/ (stop /\ (StopInPlace \/ noted))
    /\ Return
    /\ UNCHANGED <<venue, memory, noted, disk, killed, late, todo, want, bounds>>

\* _cancel_exchange_stop: the record goes, with whatever was filled and not booked; if the
\* venue refuses, because the order is final, the record comes back.
Cancelled ==
    IF orders[rest.id].open
    THEN orders' = [orders EXCEPT ![rest.id].open = FALSE] /\ rest' = NoRest
    ELSE UNCHANGED <<orders, rest>>

CancelToSync ==
    /\ pc = "sync" /\ book > 0 /\ rest.id # 0
    /\ ~stop \/ ~(StopInPlace \/ noted)
    /\ Cancelled
    /\ IF stop THEN pc' = "replace" /\ back' = back ELSE Return
    /\ UNCHANGED <<coins, bought, book, stop, pend, plans, errors, noted, disk, killed, late,
                   todo, want, bounds>>

CancelToSell ==
    /\ pc = "cancel"
    /\ Cancelled
    /\ pc' = "place"
    /\ UNCHANGED <<coins, bought, book, stop, pend, plans, errors, noted, disk, killed, late,
                   back, todo, want, bounds>>

\* The call fails and the order rests on.
CancelFails ==
    /\ \/ pc = "cancel" /\ pc' = "place" /\ back' = back
       \/ /\ pc = "sync" /\ book > 0 /\ rest.id # 0
          /\ ~stop \/ ~(StopInPlace \/ noted)
          /\ IF stop THEN pc' = "replace" /\ back' = back ELSE Return
    /\ Fault
    /\ UNCHANGED <<venue, memory, noted, disk, killed, late, todo, want, placed>>

PlacesStop ==
    /\ pc = "replace" \/ (pc = "sync" /\ book > 0 /\ stop /\ rest.id = 0 /\ ~noted)

Free == {o \in OrderIds : orders[o].kind = "none"}
NextId == CHOOSE o \in Free : \A p \in Free : o <= p
NewOrder(kind, n) == [kind |-> kind, qty |-> n, filled |-> 0, open |-> TRUE]

PlaceStop ==
    /\ PlacesStop /\ VenueStops /\ Free # {}
    /\ orders' = [orders EXCEPT ![NextId] = NewOrder("stop", book)]
    /\ rest' = [id |-> NextId, qty |-> book, booked |-> 0]
    /\ Return
    /\ UNCHANGED <<coins, bought, book, stop, pend, plans, errors, noted, disk, killed, late,
                   todo, want, bounds>>

\* The venue has no stops or refuses one more: for the rest of this process the stop stays
\* on the trader's side, as it does when the call fails.
PlaceStopRefused ==
    /\ PlacesStop /\ (~VenueStops \/ Free = {})
    /\ noted' = TRUE /\ Return
    /\ UNCHANGED <<venue, memory, disk, killed, late, todo, want, bounds>>

\* The call fails; the order may rest on the venue all the same.
PlaceStopFails(arrived) ==
    /\ PlacesStop /\ VenueStops /\ Fault
    /\ IF arrived
       THEN Free # {} /\ orders' = [orders EXCEPT ![NextId] = NewOrder("stop", book)]
       ELSE UNCHANGED orders
    /\ noted' = TRUE /\ Return
    /\ UNCHANGED <<coins, bought, memory, disk, killed, late, todo, want, placed>>

-----------------------------------------------------------------------------
(* The rest of the tick *)

\* Mutant: the book is only cleared when the account is empty.
FollowedWhenEmpty == IF coins = 0 THEN 0 ELSE book

\* sync_positions: the book follows the account down, never up.
Followed == Low(book, coins)

SyncPositions ==
    /\ pc = "positions"
    /\ book' = Followed
    /\ pc' = After["positions"]
    /\ UNCHANGED <<venue, stop, pend, rest, plans, errors, noted, disk, killed, late, back, todo,
                   want, bounds>>

PositionsFail ==
    /\ pc = "positions" /\ book > 0 /\ Fault
    /\ pc' = After["positions"]
    /\ UNCHANGED <<venue, memory, noted, disk, killed, late, back, todo, want, placed>>

\* Prices come, for what is held: the row of ticks without them is over.  (The grid asks
\* first, and without a price its tick changes nothing.)
Priced == errors' = IF loop = "runner" THEN 0 ELSE errors

\* No price: the runner counts, and kills at the limit.
PricesFail ==
    /\ pc = "stops" /\ loop = "runner" /\ book > 0 /\ Fault
    /\ errors' = Low(errors + 1, MaxErrors)
    /\ IF errors' >= MaxErrors /\ ~killed
       THEN killed' = TRUE /\ late' = 0 ELSE UNCHANGED <<killed, late>>
    /\ pc' = "save"
    /\ UNCHANGED <<venue, trader, plans, noted, disk, back, todo, want, placed>>

\* GridBook.reconcile: the lots that the position held can be.
LotsOf(n, action, held) ==
    LET m == CASE action = "buy" /\ held < n * lot -> n - 1
               [] action = "sell" /\ held > n * lot -> n + 1
               [] OTHER -> n
    IN  Low(m, held \div lot)

\* Exits and entries come to submit: assess, then authorize.  The kill switch is read here.
Allowed(side, n) ==
    IF side = "buy" THEN book + n <= MaxLots * lot ELSE n <= book

\* Mutant: the kill switch is read for what opens a position.
AuthorizedEntries(side) == side = "sell" \/ ~killed

Authorized(side) == ~killed

Submit(side, n) ==
    /\ Allowed(side, n) /\ Authorized(side) /\ placed + n <= MaxUnits
    /\ want' = [side |-> side, qty |-> n]
    /\ back' = After[pc]
    /\ pc' = IF side = "sell" /\ rest.id # 0 THEN "cancel" ELSE "place"

Refused(side, n) == ~(Allowed(side, n) /\ Authorized(side)) /\ pc' = After[pc]

\* check_stops: a stop that rests on the venue is the venue's business.
StopReached ==
    /\ pc = "stops" /\ stop /\ rest.id = 0 /\ book > 0
    /\ \/ Submit("sell", book)
       \/ Refused("sell", book) /\ UNCHANGED <<want, back>>
    /\ Priced
    /\ UNCHANGED <<venue, trader, plans, noted, disk, killed, late, todo, bounds>>

StopNotReached ==
    /\ pc = "stops"
    /\ Priced
    /\ pc' = After["stops"]
    /\ UNCHANGED <<venue, trader, plans, noted, disk, killed, late, back, todo, want, bounds>>

\* Runner._exits on take-profit or time.
ExitReached ==
    /\ pc = "exits" /\ loop = "runner" /\ meta /\ book > 0
    /\ \/ Submit("sell", book)
       \/ Refused("sell", book) /\ UNCHANGED <<want, back>>
    /\ UNCHANGED <<venue, memory, noted, disk, killed, late, todo, bounds>>

\* Without a position the exits are dropped; the grid makes its lots agree with the book.
NoExit ==
    /\ pc = "exits"
    /\ meta' = (meta /\ book > 0)
    /\ IF loop = "grid" THEN lots' = LotsOf(lots, act, book) /\ act' = "none"
       ELSE UNCHANGED <<lots, act>>
    /\ pc' = After["exits"]
    /\ UNCHANGED <<venue, trader, errors, noted, disk, killed, late, back, todo, want, bounds>>

\* A candidate with new evidence; grid.decide at a level not held.
Enters ==
    /\ pc = "entry"
    /\ IF loop = "grid" THEN lots < MaxLots ELSE book = 0
    /\ \/ /\ Submit("buy", lot)
          /\ IF loop = "grid" THEN lots' = lots + 1 /\ act' = "buy" ELSE UNCHANGED <<lots, act>>
       \/ /\ Refused("buy", lot)
          /\ IF loop = "grid" THEN lots' = LotsOf(lots + 1, "buy", book) /\ act' = "none"
             ELSE UNCHANGED <<lots, act>>
          /\ UNCHANGED <<want, back>>
    /\ UNCHANGED <<venue, trader, meta, errors, noted, disk, killed, late, todo, bounds>>

\* grid.decide at the target of a lot.
SellsLot ==
    /\ pc = "entry" /\ loop = "grid" /\ lots > 0
    /\ \/ /\ Submit("sell", lot)
          /\ lots' = lots - 1 /\ act' = "sell"
       \/ /\ Refused("sell", lot)
          /\ lots' = LotsOf(lots - 1, "sell", book) /\ act' = "none"
          /\ UNCHANGED <<want, back>>
    /\ UNCHANGED <<venue, trader, meta, errors, noted, disk, killed, late, todo, bounds>>

StaysOut ==
    /\ pc = "entry"
    /\ pc' = "save"
    /\ UNCHANGED <<venue, memory, noted, disk, killed, late, back, todo, want, bounds>>

\* The venue takes orders for what the account holds.
Takes == Free # {} /\ (want.side = "sell" => want.qty <= coins)

Arrives ==
    /\ orders' = [orders EXCEPT ![NextId] = NewOrder(want.side, want.qty)]
    /\ placed' = placed + want.qty
    /\ late' = IF killed THEN late + 1 ELSE late

\* place_order, the stop's price, pending; then reconcile.  The runner's exits are noted
\* with a buy and dropped with the sell they asked for.
Place ==
    /\ pc = "place" /\ Takes
    /\ Arrives
    /\ pend' = [pend EXCEPT ![NextId] = 0]
    /\ stop' = (stop \/ want.side = "buy")
    /\ meta' = IF loop = "grid" THEN meta
               ELSE IF want.side = "buy" THEN TRUE ELSE meta /\ back # "entry"
    /\ todo' = Pending(pend')
    /\ want' = NoWant /\ pc' = "settle"
    /\ UNCHANGED <<coins, bought, book, rest, lots, act, errors, noted, disk, killed, back, trouble>>

\* The order was not sent: the grid takes its decision back.
NotSent ==
    /\ IF loop = "grid" /\ back = "save" THEN lots' = LotsOf(lots, act, book) /\ act' = "none"
       ELSE UNCHANGED <<lots, act>>
    /\ want' = NoWant /\ Return

PlaceRefused ==
    /\ pc = "place" /\ ~Takes
    /\ NotSent
    /\ UNCHANGED <<venue, trader, meta, errors, noted, disk, killed, late, todo, bounds>>

\* place_order raises, and the order may be on the venue all the same.
PlaceFails(arrived) ==
    /\ pc = "place" /\ Fault
    /\ IF arrived THEN Takes /\ Arrives ELSE UNCHANGED <<orders, placed, late>>
    /\ NotSent
    /\ UNCHANGED <<coins, bought, trader, meta, errors, noted, disk, killed, todo>>

\* state.json, written beside and moved over.  (Slots of orders that are closed and that
\* nobody will ask about again are given back.)
Save ==
    /\ pc = "save"
    /\ disk' = Memory
    /\ orders' = [o \in OrderIds |-> IF orders[o].open \/ pend[o] # Off \/ rest.id = o
                                THEN orders[o] ELSE NoOrder]
    /\ pc' = "settle" /\ todo' = Pending(pend)
    /\ UNCHANGED <<coins, bought, memory, noted, killed, late, back, want, bounds>>

TickBegins == pc = "settle" /\ back = "positions" /\ todo = Pending(pend) /\ Memory = disk

\* A process that ends between ticks or is killed in one, and the next one, which loads
\* state.json.
Restart ==
    /\ IF TickBegins THEN UNCHANGED trouble ELSE Fault
    /\ book' = disk.book /\ stop' = disk.stop /\ pend' = disk.pend /\ rest' = disk.rest
    /\ meta' = disk.meta /\ lots' = disk.lots /\ act' = disk.act /\ errors' = disk.errors
    /\ noted' = FALSE
    /\ pc' = "settle" /\ back' = "positions" /\ todo' = Pending(disk.pend) /\ want' = NoWant
    /\ UNCHANGED <<venue, disk, killed, late, placed>>

Loop ==
    /\ \/ SettleStop \/ StatusFails \/ (\E o \in OrderIds : Settle(o))
       \/ Synced \/ CancelToSync \/ CancelToSell \/ CancelFails
       \/ PlaceStop \/ PlaceStopRefused \/ (\E arrived \in BOOLEAN : PlaceStopFails(arrived))
       \/ SyncPositions \/ PositionsFail \/ PricesFail
       \/ StopReached \/ StopNotReached \/ ExitReached \/ NoExit
       \/ Enters \/ SellsLot \/ StaysOut
       \/ Place \/ PlaceRefused \/ (\E arrived \in BOOLEAN : PlaceFails(arrived))
       \/ Save
    /\ UNCHANGED <<loop, lot>>

World ==
    /\ \/ \E o \in OrderIds : Fill(o) \/ Expire(o)
       \/ SoldByHand \/ Engage \/ Release \/ Restart
    /\ UNCHANGED <<loop, lot>>

TraderNext == Loop \/ World

\* The loop is scheduled and ends its ticks; nothing is assumed of venue, people or prices.
TraderSpec == TraderInit /\ [][TraderNext]_traderVars /\ WF_traderVars(Loop)

-----------------------------------------------------------------------------
\* The book never holds more than buys have filled: whatever is filled in parts, asked about
\* again, booked, saved, killed and loaded.  (It is compared with all that was ever bought.)
NothingBookedTwice == book <= bought /\ disk.book <= bought

\* Once the kill switch is engaged at most one more market order reaches the venue, the one
\* that had been authorized, even if the tick had several to place.  Stop orders are not
\* counted: _sync_exchange_stop places and renews them without a look at the switch.
OneMarketOrderAfterKill == late <= 1

\* A position in the book has a stop: "A buy without a stop-loss is refused", "all lots share
\* one stop".
PositionHasStop == book > 0 => stop

\* "If the exchange holds less than we think, the book follows it": after a fill that went
\* unseen, a sale by hand, a stop and an exit that both sold, a call that failed, a restart.
BookComesDown == book > coins ~> book <= coins

\* A position is not left for good without a stop order of its size on the venue: the trader
\* comes back to it after partial fills, exits that cancelled it, expired stops and kills.
\* Except when the position has no stop, or this process has once failed to place one, because
\* the venue refused it or the call failed: then it does not try again.  A stop that is placed
\* beside an exit still open counts too.
Protected == rest.id # 0 /\ orders[rest.id].kind = "stop" /\ rest.qty = book

ProtectedAgain == []<>(book = 0 \/ ~stop \/ noted \/ Protected)

=============================================================================
