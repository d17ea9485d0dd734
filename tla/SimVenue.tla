------------------------------- MODULE SimVenue -------------------------------
(***************************************************************************)
(* The simulated exchange's matching core: the market it rebuilds from the *)
(* public tape, the place each own order holds in the public queue, the    *)
(* wallet that backs it, and the requests that rest, cancel and amend it   *)
(* (exchange_sim/core).                                                    *)
(*                                                                         *)
(* The venue applies one due input at a time, in order of effective time;  *)
(* each is one step here.  Requests keep the order they were admitted in,  *)
(* and market events may come between any two of them.  The book is read   *)
(* at a few prices and a chunk changes one level.                          *)
(***************************************************************************)
EXTENDS Integers, Sequences, SequencesExt, FiniteSetsExt

CONSTANTS
  MaxOrders,      \* orders placed; each is its row in the order table
  Placements,     \* terms a strategy may place: [side, price, qty, isPostOnly]
  AmendQtys,      \* totals it may amend to
  Updates,        \* level changes of the public book: [side, price, qty]
  Prints,         \* public trades: [side, price, qty]; side is the aggressor's
  BookCapacity,   \* levels a side of the book holds
  Tick, Step, MinQty, MinNotional, MaxOrdersPerSide, MaxAmends,  \* InstrumentLimits
  Scale,          \* FIXED_SCALE: the mantissa of one unit of price
  FeeNum, FeeDen, \* the maker fee; negative is a rebate
  Opening,        \* opening balances: [base |-> , quote |-> ]
  \* Bounds of the model.
  MaxTimeline,    \* requests admitted and not yet run
  MaxStaged,      \* chunks of a depth transaction before its last,
  Staging         \* and the updates they carry

\* Prices, quantities and balances are mantissas of a fixed scale, and none is negative.
ASSUME VenueAssumption ==
  /\ IsFiniteSet(Placements) /\ IsFiniteSet(Updates) /\ IsFiniteSet(Prints)
  /\ Placements \subseteq [side : {"Buy", "Sell"}, price : Nat, qty : Nat \ {0}, isPostOnly : BOOLEAN]
  /\ Updates \cup Prints \subseteq [side : {"Buy", "Sell"}, price : Nat, qty : Nat]
  /\ AmendQtys \subseteq Nat /\ Staging \subseteq Updates
  /\ Opening \in [{"base", "quote"} -> Nat]
  /\ BookCapacity \in Nat \ {0} /\ Scale \in Nat \ {0} /\ FeeDen \in Nat \ {0}
  /\ FeeNum \in -FeeDen .. FeeDen
  /\ {Tick, Step, MinQty, MinNotional, MaxOrdersPerSide, MaxAmends, MaxTimeline,
      MaxStaged, MaxOrders} \subseteq Nat

VARIABLES
  orders,      \* RestingOrders: what became of each order
  ladders,     \* the queue own orders stand in, per side and price
  book,        \* the visible quantity per side and price; 0 for no level
  isValid,     \* the book's state is Valid
  staged,      \* chunks of a depth transaction not yet committed
  isLive,      \* MatchingState
  recovery,    \* MarketRecovery
  funds,       \* the wallet
  fees,        \* fees charged in each asset by every settlement so far
  timeline     \* admitted requests, in order of effective time

marketVars == <<ladders, book, isValid, staged, isLive, recovery>>
vars == <<orders, ladders, book, isValid, staged, isLive, recovery, funds, fees, timeline>>

Order  == 1 .. MaxOrders
Nobody == 0
Sides  == {"Buy", "Sell"}
Assets == {"base", "quote"}
Prices == {t.price : t \in Placements} \cup {u.price : u \in Updates} \cup {p.price : p \in Prints}

Opposite(side) == IF side = "Buy" THEN "Sell" ELSE "Buy"

\* rank: bids run from the highest price, asks from the lowest.
Better(side, p, r) == IF side = "Buy" THEN p > r ELSE p < r

Lesser(a, b)  == IF a < b THEN a ELSE b
Greater(a, b) == IF a > b THEN a ELSE b
-----------------------------------------------------------------------------
(***************************************************************************)
(* Money                                                                   *)
(***************************************************************************)
Notional(price, qty) == (price * qty) \div Scale

Spend(side, price, qty) == IF side = "Buy" THEN Notional(price, qty) ELSE qty

SpentAsset(side)    == IF side = "Buy" THEN "quote" ELSE "base"
ReceivedAsset(side) == IF side = "Buy" THEN "base" ELSE "quote"

\* A rebate is paid in the quote asset, a charge in what the fill received.
FeeAsset(side) == IF FeeNum < 0 THEN "quote" ELSE ReceivedAsset(side)

\* charge: rounds towards zero.
Charge(amount) ==
  IF FeeNum >= 0 THEN (amount * FeeNum) \div FeeDen ELSE -((amount * (-FeeNum)) \div FeeDen)

\* What an order's reservation still holds: its total less what its fills debited.
Residual(o) ==
  LET r == orders[o]
  IN Spend(r.side, r.price, r.qty) - Spend(r.side, r.price, r.filled)

Unlocked(w, side, amount) ==
  [w EXCEPT ![SpentAsset(side)] = [free |-> @.free + amount, locked |-> @.locked - amount]]

\* One fill of an order, from `before` to `after` filled in all.
Settlement(side, price, before, after) ==
  LET quote == Notional(price, after) - Notional(price, before)
      base  == after - before
      basis == IF FeeAsset(side) = "base" THEN base ELSE quote
  IN [debit    |-> IF side = "Buy" THEN quote ELSE base,
      received |-> IF side = "Buy" THEN base ELSE quote,
      fee      |-> Charge(basis)]
-----------------------------------------------------------------------------
(***************************************************************************)
(* Queues: a sequence of nodes, public liquidity or an own order           *)
(***************************************************************************)
Hidden    == -1
Public(n) == [who |-> Nobody, qty |-> n]
Unseen    == Public(Hidden)
Own(o)    == [who |-> o, qty |-> 0]

IsOwn(node)   == node.who # Nobody
IsKnown(node) == node.who = Nobody /\ node.qty # Hidden

HoldsOwn(queue)  == \E k \in DOMAIN queue : IsOwn(queue[k])
HasUnseen(queue) == \E k \in DOMAIN queue : queue[k] = Unseen

KnownIn(queue, ks) ==
  SumFunctionOnSet([k \in DOMAIN queue |-> IF IsKnown(queue[k]) THEN queue[k].qty ELSE 0], ks)
KnownQty(queue) == KnownIn(queue, DOMAIN queue)

\* The nodes at some positions, in the order they stand in.
Kept(queue, ks) ==
  [i \in 1 .. Cardinality(ks) |->
     queue[CHOOSE k \in ks : Cardinality({j \in ks : j <= k}) = i]]

\* shrink_known_public_from_tail: what left the level stood behind.
Shrunk(queue, excess) ==
  LET behind(k) == KnownIn(queue, {j \in DOMAIN queue : j > k})
      left(k)   == Greater(0, queue[k].qty - Greater(0, excess - behind(k)))
      shrunk    == [k \in DOMAIN queue |-> IF IsKnown(queue[k]) THEN Public(left(k)) ELSE queue[k]]
  IN Kept(shrunk, {k \in DOMAIN queue : shrunk[k] # Public(0)})

\* As mutated: what joins the level goes to its head.
ReconciledAtHead(queue, visible) ==
  IF HasUnseen(queue) THEN queue
  ELSE IF KnownQty(queue) < visible THEN <<Public(visible - KnownQty(queue))>> \o queue
  ELSE Shrunk(queue, KnownQty(queue) - visible)

\* reconcile_known_public_to
Reconciled(queue, visible) ==
  IF HasUnseen(queue) THEN queue
  ELSE IF KnownQty(queue) < visible THEN Append(queue, Public(visible - KnownQty(queue)))
  ELSE Shrunk(queue, KnownQty(queue) - visible)

\* As mutated: the own orders go with the public ones.
BlindedWhole(queue) == <<>>

\* mark_public_unobservable
Blinded(queue) ==
  IF HoldsOwn(queue)
  THEN <<Unseen>> \o Kept(queue, {k \in DOMAIN queue : IsOwn(queue[k])})
  ELSE <<>>

\* drop_vacant
WithoutVacant(ladder) ==
  [p \in Prices |-> IF HoldsOwn(ladder[p]) THEN ladder[p] ELSE <<>>]

\* public_ahead_of: Hidden when it cannot be known.
AheadOf(queue, o) ==
  LET at == CHOOSE k \in DOMAIN queue : queue[k].who = o
  IN IF \E k \in 1 .. at : queue[k] = Unseen THEN Hidden ELSE KnownIn(queue, 1 .. at)
-----------------------------------------------------------------------------
(***************************************************************************)
(* The public book                                                         *)
(***************************************************************************)
LevelsOf(b, side) == {p \in Prices : b[side][p] > 0}

\* A level that no deeper one follows is beyond what the book shows.
VisibleAt(b, side, price) ==
  IF b[side][price] > 0 THEN b[side][price]
  ELSE IF \E p \in LevelsOf(b, side) : Better(side, price, p) THEN 0
  ELSE Hidden

\* A side at capacity keeps its best levels.
Trimmed(b, side) ==
  [b EXCEPT ![side] =
     [p \in Prices |-> IF Cardinality({r \in LevelsOf(b, side) : Better(side, r, p)}) < BookCapacity
                       THEN @[p] ELSE 0]]

WithLevel(b, u) == Trimmed([b EXCEPT ![u.side][u.price] = u.qty], u.side)
NoBook == [s \in Sides |-> [p \in Prices |-> 0]]

\* cap_queues_to_visible
Capped(ladder, side, b) ==
  [p \in Prices |->
     IF ladder[p] = <<>> THEN <<>>
     ELSE IF VisibleAt(b, side, p) = Hidden THEN Blinded(ladder[p])
     ELSE Reconciled(ladder[p], VisibleAt(b, side, p))]

\* suspend_matching: nothing public is known any more.
Suspend(isComplete) ==
  /\ isLive' = FALSE
  /\ recovery' = [isComplete |-> isComplete, isBridged |-> FALSE]
  /\ ladders' = [s \in Sides |-> [p \in Prices |-> Blinded(ladders[s][p])]]

Init ==
  /\ orders = [o \in Order |-> [phase |-> "unborn"]]
  /\ ladders = [s \in Sides |-> [p \in Prices |-> <<>>]]
  /\ book = NoBook /\ isValid = FALSE /\ staged = <<>> /\ isLive = FALSE
  /\ recovery = [isComplete |-> FALSE, isBridged |-> FALSE]
  /\ funds = [a \in Assets |-> [free |-> Opening[a], locked |-> 0]]
  /\ fees = [a \in Assets |-> 0]
  /\ timeline = <<>>

\* A chunk of a book snapshot.  One that finds the book whole resets it first.
SnapshotChunk(u, isLast) ==
  /\ book' = WithLevel(IF isValid THEN NoBook ELSE book, u)
  /\ isValid' = isLast
  /\ IF isValid
     THEN Suspend(isLast) /\ staged' = <<>>
     ELSE /\ recovery' = [isComplete |-> isLast, isBridged |-> FALSE]
          /\ UNCHANGED <<isLive, ladders, staged>>
  /\ UNCHANGED <<orders, funds, fees, timeline>>

\* A chunk of a depth delta: the transaction is committed by its last chunk, and
\* broken by a chunk of another one.
DeltaChunk(u, isSame, isLast) ==
  /\ staged = <<>> => isSame
  /\ ~ isLast => Len(staged) < MaxStaged /\ u \in Staging
  /\ IF staged # <<>> /\ ~ isSame
     THEN /\ staged' = <<>> /\ Suspend(FALSE)
          /\ UNCHANGED book
     ELSE IF ~ isLast
     THEN /\ staged' = Append(staged, u)
          /\ UNCHANGED <<book, ladders, isLive, recovery>>
     ELSE LET after == IF isValid THEN FoldLeft(WithLevel, book, Append(staged, u)) ELSE book
          IN /\ book' = after
             /\ ladders' = [s \in Sides |-> Capped(ladders[s], s, after)]
             /\ recovery' = [recovery EXCEPT !.isBridged = recovery.isComplete]
             /\ staged' = <<>>
             /\ UNCHANGED isLive
  /\ UNCHANGED <<orders, isValid, funds, fees, timeline>>

BookReset ==
  /\ staged' = <<>> /\ book' = NoBook /\ isValid' = FALSE
  /\ Suspend(FALSE)
  /\ UNCHANGED <<orders, funds, fees, timeline>>

\* The trade chain breaks (TradeContinuity: a gap, an overlap, an inversion), or the
\* actor parks the venue.  A trade that seeds an epoch, or is at or behind the high
\* water, changes nothing of what is modelled.
Break ==
  /\ Suspend(FALSE)
  /\ UNCHANGED <<orders, book, isValid, staged, funds, fees, timeline>>

-----------------------------------------------------------------------------
(***************************************************************************)
(* A public trade meets the own orders of the side it hits                 *)
(***************************************************************************)
\* The nodes of a side, each as <<price, position>>.
Spots(ladder) == UNION {{p} \X DOMAIN ladder[p] : p \in Prices}

\* As mutated: liquidity that cannot be seen holds nobody back.
ReachPastUnseen(ladder, side, print) ==
  {s \in Spots(ladder) :
     /\ ladder[s[1]][s[2]] # Unseen
     /\ \/ s[1] = print
        \/ Better(side, s[1], print) /\ IsOwn(ladder[s[1]][s[2]])}

\* The nodes a print can reach, as <<price, position>>: at a price it traded
\* through, the own orders; at its own price, whatever stands before the first
\* liquidity that cannot be seen.
Reach(ladder, side, print) ==
  {s \in Spots(ladder) :
     \/ Better(side, s[1], print) /\ IsOwn(ladder[s[1]][s[2]])
     \/ s[1] = print /\ \A j \in 1 .. s[2] : ladder[print][j] # Unseen}

Open(o) == orders[o].qty - orders[o].filled

\* What each of them takes of the print: all there is, in order of price and
\* then of place, until the print is spent.
Taken(ladder, side, print) ==
  LET reach    == Reach(ladder, side, print.price)
      node(s)  == ladder[s[1]][s[2]]
      need     == [s \in reach |-> IF IsOwn(node(s)) THEN Open(node(s).who) ELSE node(s).qty]
      first(s) == {t \in reach : Better(side, t[1], s[1]) \/ (t[1] = s[1] /\ t[2] < s[2])}
  IN [s \in reach |-> Lesser(need[s], Greater(0, print.qty - SumFunctionOnSet(need, first(s))))]

\* The orders that what they got of a print fills whole.
Whole(got) == {o \in Order : got[o] > 0 /\ got[o] = Open(o)}

\* SimOrder::take and SimWallet::fill, for every own order the print met.  One that
\* fills whole is closed and its reservation released.
Settle(side, got) ==
  LET hit    == {o \in Order : got[o] > 0}
      deal   == [o \in hit |-> Settlement(side, orders[o].price, orders[o].filled,
                                          orders[o].filled + got[o])]
      debit  == SumFunction([o \in hit |-> deal[o].debit])
      gain   == SumFunction([o \in hit |-> deal[o].received])
      fee    == SumFunction([o \in hit |-> deal[o].fee])
      freed  == SumFunction([o \in Whole(got) |-> Residual(o) - deal[o].debit])
  IN /\ orders' = [o \in Order |->
           IF o \notin hit THEN orders[o]
           ELSE [orders[o] EXCEPT !.filled = @ + got[o],
                                  !.phase = IF o \in Whole(got) THEN "closed" ELSE @]]
     /\ funds' = [a \in Assets |->
           [free   |-> funds[a].free + (IF a = SpentAsset(side) THEN freed ELSE gain)
                         - (IF a = FeeAsset(side) THEN fee ELSE 0),
            locked |-> funds[a].locked - (IF a = SpentAsset(side) THEN debit + freed ELSE 0)]]
     /\ fees' = [fees EXCEPT ![FeeAsset(side)] = @ + fee]

\* What an own order gets of a print: it stands at one of the nodes at most.
Got(ladder, taken) ==
  [o \in Order |-> SumFunctionOnSet(taken, {s \in DOMAIN taken : ladder[s[1]][s[2]].who = o})]

\* What a print leaves of a queue: the public liquidity it did not take, and the
\* orders it did not fill whole.
Walked(ladder, taken, p) ==
  LET left == [k \in DOMAIN ladder[p] |->
                 IF <<p, k>> \in DOMAIN taken /\ IsKnown(ladder[p][k])
                 THEN Public(ladder[p][k].qty - taken[<<p, k>>]) ELSE ladder[p][k]]
  IN Kept(left, {k \in DOMAIN left : left[k] # Public(0) /\ left[k].who \notin Whole(Got(ladder, taken))})

\* walk_aggressor, and the fills it makes.
Match(print) ==
  LET side  == Opposite(print.side)
      taken == Taken(ladders[side], side, print)
  IN /\ Settle(side, Got(ladders[side], taken))
     /\ ladders' = [ladders EXCEPT ![side] =
                      WithoutVacant([p \in Prices |-> Walked(@, taken, p)])]

\* The next trade of the chain.  One that comes while matching is suspended, or that
\* the last depth commit has already counted (its stamp is behind), changes nothing.
Trade(print) ==
  /\ isLive
  /\ Match(print)
  /\ UNCHANGED <<book, isValid, staged, isLive, recovery, timeline>>

-----------------------------------------------------------------------------
(***************************************************************************)
(* Requests                                                                *)
(***************************************************************************)
\* InstrumentLimits::refuse
OffLimits(price, qty) ==
  \/ Tick > 0 /\ price % Tick # 0
  \/ Step > 0 /\ qty % Step # 0
  \/ qty < MinQty
  \/ Notional(price, qty) < MinNotional

Action(kind, o, qty) == [kind |-> kind, order |-> o, qty |-> qty]

Admit(action) == Len(timeline) < MaxTimeline /\ timeline' = Append(timeline, action)

\* admit_place: refused at once, or pending until its time comes.
Place(o, t) ==
  /\ orders[o].phase = "unborn" /\ \A r \in Order : r < o => orders[r].phase # "unborn"
  /\ LET isRefused == ~ t.isPostOnly \/ OffLimits(t.price, t.qty)
     IN /\ orders' = [orders EXCEPT ![o] =
             [phase |-> IF isRefused THEN "closed" ELSE "pending", side |-> t.side,
              price |-> t.price, qty |-> t.qty, filled |-> 0, amends |-> 0]]
        /\ IF isRefused THEN UNCHANGED timeline ELSE Admit(Action("Activate", o, 0))
  /\ UNCHANGED <<marketVars, funds, fees>>

\* find.  A verdict stays in the table here: dropping it once its retention is over,
\* after which a request for the order is refused at once, is left out.
Found(o)     == orders[o].phase # "unborn"
IsOpen(o)    == orders[o].phase \in {"pending", "resting"}
IsResting(o) == orders[o].phase = "resting"

Cancel(o) ==
  /\ Found(o) /\ Admit(Action("Cancel", o, 0))
  /\ UNCHANGED <<orders, marketVars, funds, fees>>

Amend(o, qty) ==
  /\ Found(o) /\ Admit(Action("Amend", o, qty))
  /\ UNCHANGED <<orders, marketVars, funds, fees>>

\* crosses: a post-only order may meet neither the book nor an own order.
Crosses(side, price) ==
  LET other        == Opposite(side)
      meets(p)     == p = price \/ Better(other, p, price)
  IN \E p \in Prices : meets(p) /\ (book[other][p] > 0 \/ HoldsOwn(ladders[other][p]))

RestingOn(side) == {o \in Order : IsResting(o) /\ orders[o].side = side}

\* As mutated: what is locked counts too.
AffordsLocked(asset, cost) == funds[asset].free + funds[asset].locked >= cost

\* Wallet::lock refuses what the free balance does not cover.
Affords(asset, cost) == funds[asset].free >= cost

\* activate
Activate(o) ==
  LET r     == orders[o]
      asset == SpentAsset(r.side)
      cost  == Spend(r.side, r.price, r.qty)
      shown == VisibleAt(book, r.side, r.price)
      queue == ladders[r.side][r.price]
      close == /\ orders' = [orders EXCEPT ![o].phase = "closed"]
               /\ UNCHANGED <<ladders, funds>>
  IN IF r.phase # "pending" \/ ~ isLive
     THEN UNCHANGED <<orders, ladders, funds>>
     ELSE IF \/ Crosses(r.side, r.price)
             \/ Cardinality(RestingOn(r.side)) >= MaxOrdersPerSide
             \/ ~ Affords(asset, cost)
     THEN close
     ELSE /\ orders' = [orders EXCEPT ![o].phase = "resting"]
          /\ funds' = [funds EXCEPT ![asset] =
                [free |-> @.free - cost, locked |-> @.locked + cost]]
          /\ ladders' = [ladders EXCEPT ![r.side][r.price] =
                Append(IF shown = Hidden THEN Append(queue, Unseen) ELSE Reconciled(queue, shown),
                       Own(o))]

\* close: the wallet releases what is left, the queue lets the order go.
Closed(gone) ==
  LET freed(side) == SumFunction([o \in {x \in gone : IsResting(x) /\ orders[x].side = side} |->
                                    Residual(o)])
  IN /\ orders' = [o \in Order |->
           IF o \in gone THEN [orders[o] EXCEPT !.phase = "closed"] ELSE orders[o]]
     /\ funds' = Unlocked(Unlocked(funds, "Buy", freed("Buy")), "Sell", freed("Sell"))
     /\ ladders' = [s \in Sides |-> WithoutVacant(
           [p \in Prices |-> Kept(ladders[s][p],
                                {k \in DOMAIN ladders[s][p] : ladders[s][p][k].who \notin gone})])]

RunCancel(o) ==
  IF IsOpen(o) THEN Closed({o}) ELSE UNCHANGED <<orders, ladders, funds>>

\* As mutated: an amend frees the notional of the difference, rounded on its own.
ReleasedByDifference(r, qty) == Spend(r.side, r.price, r.qty - qty)

\* SimWallet::amend
Released(r, qty) == Spend(r.side, r.price, r.qty) - Spend(r.side, r.price, qty)

RunAmend(o, qty) ==
  LET r        == orders[o]
      accepted == /\ r.phase = "resting" /\ r.amends < MaxAmends
                  /\ qty < r.qty /\ qty > r.filled
                  /\ ~ OffLimits(r.price, qty)
  IN IF accepted
     THEN /\ orders' = [orders EXCEPT ![o].qty = qty, ![o].amends = @ + 1]
          /\ funds' = Unlocked(funds, r.side, Released(r, qty))
          /\ UNCHANGED ladders
     ELSE UNCHANGED <<orders, ladders, funds>>

\* The next admitted request falls due.
RunDue ==
  /\ timeline # <<>> /\ timeline' = Tail(timeline)
  /\ LET due == Head(timeline)
     IN \/ due.kind = "Activate" /\ Activate(due.order)
        \/ due.kind = "Cancel" /\ RunCancel(due.order)
        \/ due.kind = "Amend" /\ RunAmend(due.order, due.qty)
  /\ UNCHANGED <<book, isValid, staged, isLive, recovery, fees>>

\* restore_matching: the actor has proved the book whole again.  The orders whose
\* time came while matching was suspended are run again.
Restore ==
  LET waits(o) == /\ orders[o].phase = "pending"
                  /\ \A k \in DOMAIN timeline : timeline[k] # Action("Activate", o, 0)
      again    == Kept([o \in Order |-> o], {o \in Order : waits(o)})
  IN /\ recovery.isComplete /\ recovery.isBridged /\ ~ isLive
     /\ isLive' = TRUE
     /\ timeline' = [k \in DOMAIN again |-> Action("Activate", again[k], 0)] \o timeline
     /\ UNCHANGED <<orders, ladders, book, isValid, staged, recovery, funds, fees>>

\* force_exit_open_orders: a sweep withdraws every order but those whose cancel
\* is already on its way.
ForceExit(cancelling) ==
  /\ \E o \in Order \ cancelling : IsOpen(o)
  /\ Closed({o \in Order \ cancelling : IsOpen(o)})
  /\ UNCHANGED <<book, isValid, staged, isLive, recovery, fees, timeline>>

Next ==
  \/ \E u \in Updates, isLast \in BOOLEAN :
       \/ SnapshotChunk(u, isLast)
       \/ \E isSame \in BOOLEAN : DeltaChunk(u, isSame, isLast)
  \/ BookReset \/ Break \/ Restore \/ RunDue
  \/ \E print \in Prints : Trade(print)
  \/ \E o \in Order :
       \/ \E t \in Placements : Place(o, t)
       \/ Cancel(o)
       \/ \E qty \in AmendQtys : Amend(o, qty)
  \/ \E cancelling \in SUBSET Order : ForceExit(cancelling)

Spec == Init /\ [][Next]_vars
-----------------------------------------------------------------------------
(***************************************************************************)
(* Properties                                                              *)
(***************************************************************************)
Terms == [phase : {"pending", "resting", "closed"}, side : Sides, price : Prices,
          qty : Nat, filled : Nat, amends : 0 .. MaxAmends]
Nodes == [who : Order \cup {Nobody}, qty : Nat \cup {Hidden}]

\* Types: in particular no balance, free or locked, is ever negative, which is what
\* the wallet's checks panic on.
TypeOK ==
  /\ orders \in [Order -> Terms \cup {[phase |-> "unborn"]}]
  /\ ladders \in [Sides -> [Prices -> Seq(Nodes)]]
  /\ book \in [Sides -> [Prices -> Nat]]
  /\ {isValid, isLive} \subseteq BOOLEAN
  /\ recovery \in [isComplete : BOOLEAN, isBridged : BOOLEAN]
  /\ staged \in Seq(Updates)
  /\ funds \in [Assets -> [free : Nat, locked : Nat]]
  /\ fees \in [Assets -> Int]
  /\ timeline \in Seq([kind : {"Activate", "Cancel", "Amend"}, order : Order, qty : Nat])

\* What the wallet holds locked is exactly what the resting orders may still spend,
\* through partial fills that round, amends, cancels and forced exits.
LockedIsOwed ==
  \A side \in Sides :
    funds[SpentAsset(side)].locked = SumFunction([o \in RestingOn(side) |-> Residual(o)])

\* No money appears or is lost: each asset is its opening balance, plus what the
\* fills brought, less what they cost and the fees.
FundsConserved ==
  LET filledOn(side) == {o \in Order : orders[o].phase # "unborn" /\ orders[o].side = side}
      bought   == SumFunction([o \in filledOn("Buy") |-> orders[o].filled])
      sold     == SumFunction([o \in filledOn("Sell") |-> orders[o].filled])
      paid     == SumFunction([o \in filledOn("Buy") |-> Notional(orders[o].price, orders[o].filled)])
      earned   == SumFunction([o \in filledOn("Sell") |-> Notional(orders[o].price, orders[o].filled)])
      held(a)  == funds[a].free + funds[a].locked
  IN /\ held("base") = Opening.base + bought - sold - fees["base"]
     /\ held("quote") = Opening.quote + earned - paid - fees["quote"]

\* The wallet balances: against what the orders may still spend, and against its past.
WalletBalances == LockedIsOwed /\ FundsConserved

\* Every resting order stands once in the queue at its price, and no other order
\* stands anywhere: none fills after it closed, and none that rests is passed over.
StandOnce(queue, os) ==
  /\ {queue[k].who : k \in DOMAIN queue} \ {Nobody} = os
  /\ \A j, k \in DOMAIN queue : IsOwn(queue[k]) /\ queue[j].who = queue[k].who => j = k

QueueHoldsTheResting ==
  \A s \in Sides, p \in Prices :
    StandOnce(ladders[s][p], {o \in RestingOn(s) : orders[o].price = p})

\* The own orders never trade with each other.
NoSelfCross ==
  \A b \in RestingOn("Buy"), a \in RestingOn("Sell") : orders[b].price < orders[a].price

\* A queue whose public liquidity is known never holds more of it than the book
\* shows at that price: no order waits behind what is not there.
AheadIsVisible ==
  \A s \in Sides, p \in Prices :
    KnownQty(ladders[s][p]) > 0 =>
      ~ HasUnseen(ladders[s][p]) /\ KnownQty(ladders[s][p]) <= book[s][p]

\* The queues hold the resting orders, each where it belongs, among no more public
\* liquidity than there is.
QueuesAreSound == QueueHoldsTheResting /\ NoSelfCross /\ AheadIsVisible

\* What stands ahead of a resting order only shrinks, until it cannot be known at
\* all; and what cannot be known is never taken for known again.
PlaceNeverWorsens ==
  [][\A o \in Order :
       IsResting(o) /\ IsResting(o)' =>
         LET before == AheadOf(ladders[orders[o].side][orders[o].price], o)
             after  == AheadOf(ladders'[orders[o].side][orders[o].price], o)
         IN IF before = Hidden THEN after = Hidden ELSE after <= before]_vars

\* A print fills in order of price and then of place, no more than it traded, and at
\* its own price only orders that everything ahead of them, public and own, has been
\* traded before: an order behind liquidity that cannot be seen waits.
FairFills ==
  [][LET got(o) == IF orders[o].phase = "unborn" THEN 0 ELSE orders'[o].filled - orders[o].filled
         hit    == {o \in Order : got(o) > 0}
         total  == SumFunction([o \in hit |-> got(o)])
     IN hit # {} =>
          \A print \in Prints :
            Trade(print) =>
              LET side         == Opposite(print.side)
                  sooner(r, o) == \/ Better(side, orders[r].price, orders[o].price)
                                  \/ orders[r].price = orders[o].price /\ r < o
              IN /\ total <= print.qty
                 /\ \A o \in hit :
                      /\ orders[o].side = side /\ ~ Better(side, print.price, orders[o].price)
                      /\ \A r \in RestingOn(side) : sooner(r, o) => orders'[r].phase = "closed"
                      /\ orders[o].price = print.price =>
                           LET ahead == AheadOf(ladders[side][print.price], o)
                           IN ahead # Hidden /\ ahead + total <= print.qty]_vars
=============================================================================
