-------------------------- MODULE OrderEngine_proofs -------------------------
(***************************************************************************)
(* The safety of the order engine, for any number of levels and slots, any *)
(* limits, quantities and balances, and any order of events and spins.     *)
(*                                                                         *)
(* A spin composes eight passes.  The first five neither mint nor amend    *)
(* (the relation Calm), the flatten and the quote pass act on what those   *)
(* leave (Acts), the drain leaves the slots alone.  Both relations         *)
(* compose, so a spin is one calm pass and one acting pass, and the step   *)
(* properties are read off the pair (SpinMeans).  Events are treated each  *)
(* by itself (Answers).  Costs counts, along the passes, the commands a    *)
(* spin banks.                                                             *)
(***************************************************************************)
EXTENDS OrderEngine, Sums_proofs

-----------------------------------------------------------------------------
\* The types of a slot and of the engine: the type invariant, over any engine.
SlotRecord ==
  [state : State, style : Styles, qty : Nat, filled : Nat, amends : 0 .. MaxAmends,
   reserved : Nat, reservedAt : Nat, placed : Nat, seen : Nat]

Engines ==
  [slots : [Slot -> SlotRecord], holds : BOOLEAN,
   free : [Sides -> Int], reserved : [Sides -> Int], watermark : Nat, hasBalances : BOOLEAN,
   streamReady : BOOLEAN, hasOpenOrders : BOOLEAN,
   halt : HaltReasons \cup {"Armed"}, streak : 0 .. MaxRejects, recon : Nat,
   silent : 0 .. SilenceSpins, position : Int, banked : 0 .. BankCapacity]

\* The slots are finitely many, and each has a side (order.rs: the index gives side and level).
LEMMA SlotsSplit ==
  /\ Slot \in SUBSET Nat /\ IsFiniteSet(Slot) /\ 0 \in Slot /\ Cardinality(Slot) \in Nat
  /\ \A s \in Slot : SideOf(s) \in Sides
<1> DEFINE k == Levels * SlotsPerLevel
<1>1. k \in Nat \ {0}
  BY EngineAssumption
<1>2. 2 * Levels * SlotsPerLevel = 2 * k
  BY EngineAssumption
<1> HIDE DEF k
<1>3. Slot = 0 .. 2 * k - 1
  BY <1>2 DEF Slot
<1>4. \A s \in Slot : s \div k \in {0, 1}
  BY <1>1, <1>3
<1>5. IsFiniteSet(Slot)
  BY <1>1, <1>3, FS_Interval
<1>6. \A s \in Slot : SideOf(s) \in Sides
  BY <1>4 DEF SideOf, Sides, Buy, Sell, k
<1> QED BY <1>1, <1>3, <1>5, <1>6, FS_CardinalityType

\* The bank holds a command per slot and the few a spin adds (command.rs: COMMAND_BANK_CAPACITY).
LEMMA Capacity == BankCapacity \in Nat /\ BankCapacity = Cardinality(Slot) + 6
BY SlotsSplit DEF BankCapacity

\* A free slot's record is a slot's record.
LEMMA EmptyTyped == EmptySlot \in SlotRecord
BY EngineAssumption DEF EmptySlot, SlotRecord, State, Styles

\* What a pass leaves that touches neither what the venue said nor the account.
SameAccount(e, f) ==
  /\ f.holds = e.holds /\ f.free = e.free /\ f.watermark = e.watermark
  /\ f.hasBalances = e.hasBalances /\ f.streamReady = e.streamReady
  /\ f.hasOpenOrders = e.hasOpenOrders /\ f.position = e.position

Latched(e, f) == e.halt # "Armed" => f.halt = e.halt

\* A halt latches the first reason and banks its sweep, if there is room; the slots are not touched.
LEMMA HaltEffect ==
  ASSUME NEW e \in Engines, NEW reason \in HaltReasons, NEW f, f = Halt(e, reason)
  PROVE  /\ f \in Engines /\ SameAccount(e, f) /\ Latched(e, f)
         /\ f.slots = e.slots /\ f.reserved = e.reserved /\ f.recon = e.recon
         /\ f.halt = IF e.halt = "Armed" THEN reason ELSE e.halt
         /\ f.banked = IF e.halt = "Armed" /\ HasRoom(e) THEN e.banked + 1 ELSE e.banked
<1> DEFINE banked == IF HasRoom(e) THEN e.banked + 1 ELSE e.banked
<1>1. e.banked \in 0 .. BankCapacity
  BY DEF Engines
<1>2. banked \in 0 .. BankCapacity
  BY <1>1, Capacity DEF HasRoom
<1>3. f = IF e.halt # "Armed" THEN e ELSE [e EXCEPT !.halt = reason, !.banked = banked]
  BY DEF Halt
<1>4. banked = IF HasRoom(e) THEN e.banked + 1 ELSE e.banked
  OBVIOUS
<1> HIDE DEF banked
<1>5. CASE e.halt # "Armed"
  BY <1>3, <1>5 DEF SameAccount, Latched
<1>6. CASE e.halt = "Armed"
  <2>1. f = [e EXCEPT !.halt = reason, !.banked = banked]
    BY <1>3, <1>6
  <2>2. /\ f \in Engines /\ SameAccount(e, f)
        /\ f.slots = e.slots /\ f.reserved = e.reserved /\ f.recon = e.recon
        /\ f.halt = reason /\ f.banked = banked
    BY <1>2, <2>1 DEF Engines, SameAccount
  <2> QED BY <1>4, <1>6, <2>2 DEF Latched
<1> QED BY <1>5, <1>6

\* Commands that fit are banked; those that do not halt the engine.
LEMMA BankEffect ==
  ASSUME NEW e \in Engines, NEW n \in Nat, NEW f, f = BankOrHalt(e, n)
  PROVE  /\ f \in Engines /\ SameAccount(e, f) /\ Latched(e, f)
         /\ f.slots = e.slots /\ f.reserved = e.reserved /\ f.recon = e.recon
         /\ e.banked + n <= BankCapacity => f.halt = e.halt /\ f.banked = e.banked + n
<1>1. "CommandBankOverflow" \in HaltReasons
  BY DEF HaltReasons
<1>2. CASE e.banked + n <= BankCapacity
  BY <1>2, Capacity DEF BankOrHalt, Engines, SameAccount, Latched
<1>3. CASE ~ (e.banked + n <= BankCapacity)
  <2> DEFINE g == [e EXCEPT !.banked = BankCapacity]
  <2>1. /\ g \in Engines /\ SameAccount(e, g) /\ g.halt = e.halt
        /\ g.slots = e.slots /\ g.reserved = e.reserved /\ g.recon = e.recon
    BY Capacity DEF Engines, SameAccount
  <2>2. f = Halt(g, "CommandBankOverflow")
    BY <1>3 DEF BankOrHalt
  <2> HIDE DEF g
  <2> QED BY <1>1, <1>3, <2>1, <2>2, HaltEffect DEF SameAccount, Latched
<1> QED BY <1>2, <1>3

\* A slot rewritten, and what is held back for its side.
Written(e, s, slot, d) == [e EXCEPT !.slots[s] = slot, !.reserved[SideOf(s)] = @ + d]

\* One slot and its side's reservation rewritten.
LEMMA SlotWritten ==
  ASSUME NEW e \in Engines, NEW s \in Slot, NEW slot \in SlotRecord, NEW d \in Int,
         NEW f, f = Written(e, s, slot, d)
  PROVE  /\ f \in Engines /\ SameAccount(e, f) /\ f.halt = e.halt /\ f.recon = e.recon
         /\ f.banked = e.banked
         /\ f.slots[s] = slot /\ \A t \in Slot \ {s} : f.slots[t] = e.slots[t]
         /\ f.reserved[SideOf(s)] = e.reserved[SideOf(s)] + d
         /\ \A side \in Sides \ {SideOf(s)} : f.reserved[side] = e.reserved[side]
<1>1. SideOf(s) \in Sides
  BY SlotsSplit
<1> DEFINE slots    == [e.slots EXCEPT ![s] = slot]
           reserved == [e.reserved EXCEPT ![SideOf(s)] = @ + d]
<1>2. f = [e EXCEPT !.slots = slots, !.reserved = reserved]
  BY DEF Engines, Written
<1>3. /\ slots \in [Slot -> SlotRecord]
      /\ slots[s] = slot /\ \A t \in Slot \ {s} : slots[t] = e.slots[t]
  BY DEF Engines
<1>4. /\ reserved \in [Sides -> Int]
      /\ reserved[SideOf(s)] = e.reserved[SideOf(s)] + d
      /\ \A side \in Sides \ {SideOf(s)} : reserved[side] = e.reserved[side]
  BY <1>1 DEF Engines
<1> HIDE DEF slots, reserved
<1>5. /\ f \in Engines /\ SameAccount(e, f) /\ f.halt = e.halt /\ f.recon = e.recon
      /\ f.banked = e.banked /\ f.slots = slots /\ f.reserved = reserved
  BY <1>2, <1>3, <1>4 DEF Engines, SameAccount
<1> QED BY <1>3, <1>4, <1>5

-----------------------------------------------------------------------------
SlotFacts(slot) ==
  /\ slot.state \in State /\ slot.qty \in Nat /\ slot.filled \in Nat /\ slot.reserved \in Nat
  /\ slot.placed \in Nat /\ slot.seen \in Nat /\ slot.reservedAt \in Nat
  /\ slot.amends \in 0 .. MaxAmends /\ slot.style \in Styles

\* What the slot of an engine is.
LEMMA SlotTyped == ASSUME NEW e \in Engines, NEW s \in Slot
  PROVE e.slots[s] \in SlotRecord /\ SlotFacts(e.slots[s])
BY DEF Engines, SlotRecord, SlotFacts

\* A state rewritten, nothing else of the slot.
LEMMA StateWritten ==
  ASSUME NEW slot \in SlotRecord, NEW state \in State, NEW new, new = [slot EXCEPT !.state = state]
  PROVE  /\ new \in SlotRecord /\ new.state = state
         /\ new.reserved = slot.reserved /\ new.filled = slot.filled /\ new.qty = slot.qty
         /\ new.placed = slot.placed
BY DEF SlotRecord

\* What becomes of a slot that no pass mints or amends in: it may stop working, is
\* not made to wait for a placement or an amend, and an order that ended stays as
\* it is or is reaped.
Calms(a, b) ==
  /\ b.state \in Working => a.state \in Working /\ b.reserved = a.reserved
  /\ b.state \in {"PendingNew", "AmendInFlight"} => a.state = b.state
  /\ a.state \in Closed \cup {"Free"} \/ b.state = "Free" => b = a \/ b = EmptySlot
  /\ b.reserved <= a.reserved

Calm(e, f) ==
  /\ SameAccount(e, f) /\ Latched(e, f) /\ f.reserved = e.reserved
  /\ \A s \in Slot : Calms(e.slots[s], f.slots[s])

\* Two calm passes in a row are calm.
LEMMA CalmOn ==
  ASSUME NEW e \in Engines, NEW f \in Engines, NEW g \in Engines, Calm(e, f), Calm(f, g)
  PROVE  Calm(e, g)
<1>1. ASSUME NEW s \in Slot PROVE Calms(e.slots[s], g.slots[s])
  <2> DEFINE a == e.slots[s]
             b == f.slots[s]
             c == g.slots[s]
  <2>1. Calms(a, b) /\ Calms(b, c)
    BY DEF Calm
  <2>2. a.reserved \in Nat /\ b.reserved \in Nat /\ c.reserved \in Nat
    BY SlotTyped DEF SlotFacts
  <2>3. EmptySlot.state = "Free"
    BY DEF EmptySlot
  <2> HIDE DEF a, b, c
  <2>4. Calms(a, c)
    BY <2>1, <2>2, <2>3 DEF Calms, Working, InFlight, Closed
  <2> QED BY <2>4 DEF a, c
<1> QED BY <1>1 DEF Calm, SameAccount, Latched

\* A pass that leaves every slot as it is.
LEMMA CalmSame ==
  ASSUME NEW e \in Engines, NEW f \in Engines, SameAccount(e, f), Latched(e, f),
         f.reserved = e.reserved, f.slots = e.slots
  PROVE  Calm(e, f)
<1>1. ASSUME NEW s \in Slot PROVE Calms(e.slots[s], f.slots[s])
  BY SlotTyped DEF Calms, SlotFacts
<1> QED BY <1>1 DEF Calm

\* The slots rewritten, nothing else.
LEMMA SlotsWritten ==
  ASSUME NEW e \in Engines, NEW slots \in [Slot -> SlotRecord], NEW f, f = [e EXCEPT !.slots = slots],
         \A s \in Slot : Calms(e.slots[s], slots[s])
  PROVE  /\ f \in Engines /\ Calm(e, f) /\ f.slots = slots
         /\ f.halt = e.halt /\ f.banked = e.banked /\ f.recon = e.recon
<1>1. /\ f \in Engines /\ SameAccount(e, f) /\ f.reserved = e.reserved /\ f.slots = slots
      /\ f.halt = e.halt /\ f.banked = e.banked /\ f.recon = e.recon
  BY DEF Engines, SameAccount
<1> QED BY <1>1 DEF Calm, Latched

-----------------------------------------------------------------------------
\* The reaping of slots that ended is calm.
LEMMA ReapCalm ==
  ASSUME NEW e \in Engines, NEW in, \A s \in in.reap : s \in Slot => e.slots[s].state \in Closed,
         NEW f, f = Reap(e, in)
  PROVE  /\ f \in Engines /\ Calm(e, f) /\ f.halt = e.halt /\ f.banked = e.banked
         /\ \A s \in Slot : f.slots[s] = IF s \in in.reap THEN EmptySlot ELSE e.slots[s]
<1> DEFINE slots == [s \in Slot |-> IF s \in in.reap THEN EmptySlot ELSE e.slots[s]]
<1>1. slots \in [Slot -> SlotRecord]
  BY SlotTyped, EmptyTyped
<1>2. ASSUME NEW s \in Slot PROVE Calms(e.slots[s], slots[s])
  <2>1. CASE s \in in.reap
    <3>1. slots[s] = EmptySlot /\ EmptySlot.state = "Free" /\ EmptySlot.reserved = 0
      BY <2>1 DEF EmptySlot
    <3> QED BY <2>1, <3>1, SlotTyped DEF Calms, SlotFacts, Working, InFlight
  <2>2. CASE s \notin in.reap
    BY <2>2, SlotTyped DEF Calms, SlotFacts
  <2> QED BY <2>1, <2>2
<1>3. f = [e EXCEPT !.slots = slots]
  BY DEF Reap
<1>4. \A s \in Slot : slots[s] = IF s \in in.reap THEN EmptySlot ELSE e.slots[s]
  OBVIOUS
<1> HIDE DEF slots
<1> QED BY <1>1, <1>2, <1>3, <1>4, SlotsWritten

\* The chase of late answers is calm and banks a query for each.
LEMMA ChaseCalm ==
  ASSUME NEW e \in Engines, NEW in, in.late \in SUBSET Slot,
         \A s \in in.late : e.slots[s].state \in InFlight,
         NEW f, f = ChaseTimeouts(e, in)
  PROVE  /\ f \in Engines /\ Calm(e, f)
         /\ \A s \in Slot : f.slots[s] = IF s \in in.late THEN [e.slots[s] EXCEPT !.state = "Unknown"]
                                         ELSE e.slots[s]
         /\ e.banked + Cardinality(in.late) <= BankCapacity =>
              f.halt = e.halt /\ f.banked = e.banked + Cardinality(in.late)
<1> DEFINE n     == Cardinality(in.late)
           slots == [s \in Slot |-> IF s \in in.late THEN [e.slots[s] EXCEPT !.state = "Unknown"]
                                    ELSE e.slots[s]]
           g     == [e EXCEPT !.slots = slots]
           h     == [g EXCEPT !.recon = @ + n]
<1>1. n \in Nat
  BY SlotsSplit, FS_Subset, FS_CardinalityType
<1>2. "Unknown" \in State
  BY DEF State, Working, InFlight
<1>3. slots \in [Slot -> SlotRecord]
  BY <1>2, SlotTyped, StateWritten
<1>4. ASSUME NEW s \in Slot PROVE Calms(e.slots[s], slots[s])
  <2>1. CASE s \in in.late
    <3>1. /\ slots[s].state = "Unknown" /\ slots[s].reserved = e.slots[s].reserved
          /\ e.slots[s].state \in InFlight
      BY <1>2, <2>1, SlotTyped, StateWritten
    <3> QED BY <3>1, SlotTyped DEF Calms, SlotFacts, Working, InFlight, Closed
  <2>2. CASE s \notin in.late
    BY <2>2, SlotTyped DEF Calms, SlotFacts
  <2> QED BY <2>1, <2>2
<1>5. f = BankOrHalt(h, n)
  BY DEF ChaseTimeouts, Engines
<1>6. \A s \in Slot : slots[s] = IF s \in in.late THEN [e.slots[s] EXCEPT !.state = "Unknown"]
                                 ELSE e.slots[s]
  OBVIOUS
<1> HIDE DEF slots, n
<1>7. g \in Engines /\ Calm(e, g) /\ g.slots = slots /\ g.halt = e.halt /\ g.banked = e.banked
  BY <1>3, <1>4, SlotsWritten
<1> HIDE DEF g
<1>8. /\ h \in Engines /\ SameAccount(g, h) /\ h.slots = slots /\ h.halt = e.halt
      /\ h.banked = e.banked /\ h.reserved = g.reserved
  BY <1>1, <1>7 DEF Engines, SameAccount
<1> HIDE DEF h
<1>9. Calm(g, h)
  BY <1>7, <1>8, CalmSame DEF Latched
<1>10. /\ f \in Engines /\ SameAccount(h, f) /\ Latched(h, f) /\ f.slots = slots
       /\ f.reserved = h.reserved
       /\ e.banked + n <= BankCapacity => f.halt = e.halt /\ f.banked = e.banked + n
  BY <1>1, <1>5, <1>8, BankEffect
<1>11. Calm(h, f)
  BY <1>8, <1>10, CalmSame
<1>12. Calm(e, h)
  BY <1>7, <1>8, <1>9, CalmOn
<1>13. Calm(e, f)
  BY <1>8, <1>10, <1>11, <1>12, CalmOn
<1> QED BY <1>6, <1>10, <1>13 DEF n

\* The check for a silent stream is calm and banks one request at most.
LEMMA SilenceCalm ==
  ASSUME NEW e \in Engines, NEW f, f = DetectSilence(e)
  PROVE  /\ f \in Engines /\ Calm(e, f) /\ f.slots = e.slots
         /\ e.banked + 1 <= BankCapacity =>
              f.halt = e.halt /\ f.banked \in {e.banked, e.banked + 1}
<1> DEFINE silent == IF e.silent < SilenceSpins THEN e.silent + 1 ELSE e.silent
           g      == [e EXCEPT !.silent = 0, !.recon = @ + 1]
           h      == [e EXCEPT !.silent = silent]
<1>1. silent \in 0 .. SilenceSpins /\ 0 \in 0 .. SilenceSpins /\ e.recon + 1 \in Nat
  BY EngineAssumption DEF Engines
<1>2. f = BankOrHalt(g, 1) \/ f = h
  BY DEF DetectSilence
<1> HIDE DEF silent
<1>3. /\ h \in Engines /\ SameAccount(e, h) /\ h.slots = e.slots /\ h.halt = e.halt
      /\ h.banked = e.banked /\ h.reserved = e.reserved
  BY <1>1 DEF Engines, SameAccount
<1>4. /\ g \in Engines /\ SameAccount(e, g) /\ g.slots = e.slots /\ g.halt = e.halt
      /\ g.banked = e.banked /\ g.reserved = e.reserved
  BY <1>1 DEF Engines, SameAccount
<1> HIDE DEF g, h
<1>5. CASE f = h
  BY <1>3, <1>5, CalmSame DEF Latched
<1>6. CASE f = BankOrHalt(g, 1)
  <2>1. /\ f \in Engines /\ SameAccount(g, f) /\ Latched(g, f) /\ f.slots = g.slots
        /\ f.reserved = g.reserved
        /\ g.banked + 1 <= BankCapacity => f.halt = g.halt /\ f.banked = g.banked + 1
    BY <1>4, <1>6, BankEffect
  <2>2. Calm(e, g) /\ Calm(g, f)
    BY <1>4, <2>1, CalmSame DEF Latched
  <2> QED BY <1>4, <2>1, <2>2, CalmOn
<1> QED BY <1>2, <1>5, <1>6

\* The check for two orders on a level is calm; at most it halts.
LEMMA LimitCalm ==
  ASSUME NEW e \in Engines, NEW f, f = EnforceRestingLimit(e)
  PROVE  /\ f \in Engines /\ Calm(e, f) /\ f.slots = e.slots
         /\ f = e \/ f = Halt(e, "DuplicateResting")
<1>1. "DuplicateResting" \in HaltReasons
  BY DEF HaltReasons
<1>2. f = e \/ f = Halt(e, "DuplicateResting")
  BY DEF EnforceRestingLimit
<1>3. CASE f = e
  BY <1>2, <1>3, CalmSame DEF SameAccount, Latched
<1>4. CASE f = Halt(e, "DuplicateResting")
  BY <1>1, <1>4, HaltEffect, CalmSame
<1> QED BY <1>2, <1>3, <1>4

\* The sweep of the closing window is calm and banks a cancel for each quote at most.
LEMMA SweepCalm ==
  ASSUME NEW e \in Engines, NEW in, NEW f, f = SweepClosingWindow(e, in)
  PROVE  /\ f \in Engines /\ Calm(e, f)
         /\ e.banked + Cardinality({s \in Slot : IsRestingQuote(e.slots[s])}) <= BankCapacity =>
              /\ f.halt = e.halt
              /\ f.banked <= e.banked + Cardinality({s \in Slot : IsRestingQuote(e.slots[s])})
<1> DEFINE resting == {s \in Slot : IsRestingQuote(e.slots[s])}
           pulled  == {s \in resting : e.banked + Cardinality({t \in resting : t < s}) < BankCapacity}
           slots   == [s \in Slot |-> IF s \in pulled THEN [e.slots[s] EXCEPT !.state = "CancelInFlight"]
                                      ELSE e.slots[s]]
           g       == [e EXCEPT !.slots = slots]
           n       == Cardinality(resting)
<1>1. n \in Nat
  BY SlotsSplit, FS_Subset, FS_CardinalityType
<1>2. "CancelInFlight" \in State
  BY DEF State, Working, InFlight
<1>3. \A s \in pulled : s \in Slot /\ e.slots[s].state = "Live"
  BY DEF IsRestingQuote
<1>4. f = IF ~in.closing THEN e ELSE BankOrHalt(g, n)
  BY DEF SweepClosingWindow, Engines
<1> HIDE DEF pulled
<1>5. slots \in [Slot -> SlotRecord]
  BY <1>2, SlotTyped, StateWritten
<1>6. ASSUME NEW s \in Slot PROVE Calms(e.slots[s], slots[s])
  <2>1. CASE s \in pulled
    <3>1. /\ slots[s].state = "CancelInFlight" /\ slots[s].reserved = e.slots[s].reserved
          /\ e.slots[s].state = "Live"
      BY <1>2, <1>3, <2>1, SlotTyped, StateWritten
    <3> QED BY <3>1, SlotTyped DEF Calms, SlotFacts, Working, InFlight, Closed
  <2>2. CASE s \notin pulled
    BY <2>2, SlotTyped DEF Calms, SlotFacts
  <2> QED BY <2>1, <2>2
<1> HIDE DEF slots, n
<1>7. g \in Engines /\ Calm(e, g) /\ g.halt = e.halt /\ g.banked = e.banked
  BY <1>5, <1>6, SlotsWritten
<1> HIDE DEF g
<1>8. CASE ~in.closing
  <2>1. f = e /\ e.banked \in Nat
    BY <1>4, <1>8, Capacity DEF Engines
  <2>2. Calm(e, f) /\ f \in Engines
    BY <2>1, CalmSame DEF SameAccount, Latched
  <2> QED BY <1>1, <2>1, <2>2 DEF n
<1>9. CASE ~ ~ in.closing
  <2>1. /\ f \in Engines /\ SameAccount(g, f) /\ Latched(g, f) /\ f.slots = g.slots
        /\ f.reserved = g.reserved
        /\ g.banked + n <= BankCapacity => f.halt = g.halt /\ f.banked = g.banked + n
    BY <1>1, <1>4, <1>7, <1>9, BankEffect
  <2>2. Calm(e, f)
    BY <1>7, <2>1, CalmSame, CalmOn
  <2>3. e.banked \in Nat
    BY Capacity DEF Engines
  <2> QED BY <1>1, <1>7, <2>1, <2>2, <2>3 DEF n
<1> QED BY <1>8, <1>9

-----------------------------------------------------------------------------
Held(e, side) == SumFunctionOnSet(Holdings(e), SideSlots(side))

Covered(e) == \A side \in Sides : e.reserved[side] >= Held(e, side)

Within(e) == \A side \in Sides : PossiblyLive(e, side) <= MaxOrders

\* The slots of a side, and of a level of it.
LEMMA SideSplit ==
  ASSUME NEW side
  PROVE  /\ SideSlots(side) \subseteq Slot /\ IsFiniteSet(SideSlots(side))
         /\ \A s \in SideSlots(side) : SideOf(s) = side
         /\ \A level : LevelSlots(side, level) \subseteq SideSlots(side)
<1>1. SideSlots(side) \subseteq Slot /\ \A s \in SideSlots(side) : SideOf(s) = side
  BY DEF SideSlots
<1>2. IsFiniteSet(SideSlots(side))
  BY <1>1, SlotsSplit, FS_Subset
<1> QED BY <1>1, <1>2 DEF LevelSlots

\* What the slots of a side hold is an integer, a sum of naturals.
LEMMA HeldTyped ==
  ASSUME NEW e \in Engines, NEW side
  PROVE  /\ Held(e, side) \in Int
         /\ \A s \in Slot : Holdings(e)[s] = e.slots[s].reserved /\ Holdings(e)[s] \in Nat
<1>1. \A s \in Slot : Holdings(e)[s] = e.slots[s].reserved /\ Holdings(e)[s] \in Nat
  BY SlotTyped DEF Holdings, SlotFacts
<1> QED BY <1>1, SideSplit, SumTyped DEF Held

\* Slots that claim no more than before.
LEMMA HeldShrinks ==
  ASSUME NEW e \in Engines, NEW f \in Engines, NEW side,
         \A s \in SideSlots(side) : f.slots[s].reserved <= e.slots[s].reserved
  PROVE  Held(f, side) <= Held(e, side)
<1>1. \A s \in SideSlots(side) :
        /\ Holdings(f)[s] \in Int /\ Holdings(e)[s] \in Int
        /\ Holdings(f)[s] <= Holdings(e)[s]
  BY HeldTyped, SideSplit
<1> QED BY <1>1, SideSplit, SumGrows DEF Held

\* One slot's claim rewritten.
LEMMA HeldWritten ==
  ASSUME NEW e \in Engines, NEW f \in Engines, NEW s \in Slot,
         \A t \in Slot \ {s} : f.slots[t].reserved = e.slots[t].reserved
  PROVE  /\ Held(f, SideOf(s)) = Held(e, SideOf(s)) + f.slots[s].reserved - e.slots[s].reserved
         /\ \A side \in Sides \ {SideOf(s)} : Held(f, side) = Held(e, side)
<1>1. \A t \in Slot : /\ Holdings(f)[t] \in Int /\ Holdings(e)[t] \in Int
                      /\ t # s => Holdings(f)[t] = Holdings(e)[t]
  BY HeldTyped
<1>2. s \in SideSlots(SideOf(s))
  BY DEF SideSlots
<1>3. Held(f, SideOf(s)) = Held(e, SideOf(s)) + Holdings(f)[s] - Holdings(e)[s]
  <2> DEFINE side == SideOf(s)
  <2>1. /\ IsFiniteSet(SideSlots(side)) /\ s \in SideSlots(side) /\ Holdings(f)[s] \in Int
        /\ \A t \in SideSlots(side) : Holdings(e)[t] \in Int
        /\ \A t \in SideSlots(side) \ {s} : Holdings(f)[t] = Holdings(e)[t]
    BY <1>1, <1>2, SideSplit
  <2> QED BY <2>1, SumChanges DEF Held
<1>4. ASSUME NEW side \in Sides \ {SideOf(s)} PROVE Held(f, side) = Held(e, side)
  <2>1. \A t \in SideSlots(side) : Holdings(e)[t] \in Int /\ Holdings(f)[t] = Holdings(e)[t]
    BY <1>1, SideSplit
  <2> QED BY <2>1, SideSplit, SumSame DEF Held
<1> QED BY <1>3, <1>4, HeldTyped

-----------------------------------------------------------------------------
WorkingOn(e, side) == {s \in SideSlots(side) : e.slots[s].state \in Working}

\* How many orders of a side may be live is the size of a finite set.
LEMMA LiveTyped ==
  ASSUME NEW e, NEW side
  PROVE  /\ PossiblyLive(e, side) = Cardinality(WorkingOn(e, side))
         /\ IsFiniteSet(WorkingOn(e, side)) /\ PossiblyLive(e, side) \in Nat
<1>1. WorkingOn(e, side) \subseteq SideSlots(side)
  BY DEF WorkingOn
<1>2. IsFiniteSet(WorkingOn(e, side))
  BY <1>1, SideSplit, FS_Subset
<1> QED BY <1>2, FS_CardinalityType DEF PossiblyLive, WorkingOn

\* No slot begins to work: no more may be live.
LEMMA LiveShrinks ==
  ASSUME NEW e, NEW f, NEW side,
         \A s \in SideSlots(side) : f.slots[s].state \in Working => e.slots[s].state \in Working
  PROVE  PossiblyLive(f, side) <= PossiblyLive(e, side)
<1>1. WorkingOn(f, side) \subseteq WorkingOn(e, side)
  BY DEF WorkingOn
<1> QED BY <1>1, LiveTyped, FS_Subset

\* One slot begins to work: one more may be live.
LEMMA LiveAdds ==
  ASSUME NEW e, NEW f, NEW side, NEW s \in SideSlots(side),
         \A t \in SideSlots(side) \ {s} : f.slots[t] = e.slots[t]
  PROVE  PossiblyLive(f, side) <= PossiblyLive(e, side) + 1
<1>1. WorkingOn(f, side) \subseteq WorkingOn(e, side) \cup {s}
  BY DEF WorkingOn
<1>2. /\ IsFiniteSet(WorkingOn(e, side) \cup {s})
      /\ Cardinality(WorkingOn(e, side) \cup {s}) <= Cardinality(WorkingOn(e, side)) + 1
      /\ Cardinality(WorkingOn(e, side) \cup {s}) \in Nat
  BY LiveTyped, FS_AddElement, FS_CardinalityType
<1>3. Cardinality(WorkingOn(f, side)) <= Cardinality(WorkingOn(e, side) \cup {s})
  BY <1>1, <1>2, FS_Subset
<1> QED BY <1>2, <1>3, LiveTyped

-----------------------------------------------------------------------------
Started == {"PendingNew", "AmendInFlight"}

Fresh(b) == b = EmptySlot \/ (b.state \in {"PendingNew", "Rejected"} /\ b.filled = 0)

WellMinted(f, s) ==
  /\ PossiblyLive(f, SideOf(s)) <= MaxOrders
  /\ \A t \in SideSlots(SideOf(s)) \ {s} : f.slots[t].state \notin InFlight

ActsOn(a, b) ==
  /\ b.state \in Working =>
       \/ b.reserved > 0
       \/ a.state \in Working /\ b.reserved = a.reserved /\ (b.state = "PendingNew" => a.state = "PendingNew")
  /\ a.state \in Closed \cup {"Free", "PendingNew"} \/ b.state = "Free" => b = a \/ Fresh(b)

Mints(e, f, s) == e.slots[s].state # "PendingNew" /\ f.slots[s].state = "PendingNew"

Acts(e, f) ==
  /\ SameAccount(e, f) /\ Latched(e, f)
  /\ \A s \in Slot : ActsOn(e.slots[s], f.slots[s])
  /\ e.halt # "Armed" =>
       \A s \in Slot : f.slots[s].state \in Started => e.slots[s].state = f.slots[s].state
  /\ \A s \in Slot : Mints(e, f, s) => e.halt = "Armed" /\ IsReady(e) /\ WellMinted(f, s)
  /\ \A side \in Sides : AwaitingAnswer(e, side) => \A s \in SideSlots(side) : f.slots[s] = e.slots[s]
  /\ Within(e) => Within(f)
  /\ Covered(e) => Covered(f)

\* What two acting passes in a row make of a slot.
LEMMA ActsSlots ==
  ASSUME NEW a \in SlotRecord, NEW b \in SlotRecord, NEW c \in SlotRecord, ActsOn(a, b), ActsOn(b, c)
  PROVE  ActsOn(a, c)
<1>1. EmptySlot.state = "Free"
  BY DEF EmptySlot
<1>2. a.reserved \in Nat /\ b.reserved \in Nat /\ c.reserved \in Nat
  BY DEF SlotRecord
<1>3. c.state \in Working =>
       \/ c.reserved > 0
       \/ a.state \in Working /\ c.reserved = a.reserved /\ (c.state = "PendingNew" => a.state = "PendingNew")
  BY <1>2 DEF ActsOn
<1>4. ASSUME c.state = "Free" PROVE c = a \/ Fresh(c)
  <2>1. c = b \/ Fresh(c)
    BY <1>4 DEF ActsOn
  <2>2. b.state = "Free" => b = a \/ Fresh(b)
    BY DEF ActsOn
  <2> QED BY <1>4, <2>1, <2>2
<1>5. a.state \in Closed \cup {"Free", "PendingNew"} => c = a \/ Fresh(c)
  <2> SUFFICES ASSUME a.state \in Closed \cup {"Free", "PendingNew"} PROVE c = a \/ Fresh(c)
    OBVIOUS
  <2>1. b = a \/ Fresh(b)
    BY DEF ActsOn
  <2>2. b.state \in Closed \cup {"Free", "PendingNew"}
    BY <1>1, <2>1 DEF Fresh, Closed
  <2>3. c = b \/ Fresh(c)
    BY <2>2 DEF ActsOn
  <2>4. c = b /\ Fresh(b) => Fresh(c)
    OBVIOUS
  <2> QED BY <2>1, <2>3, <2>4
<1> QED BY <1>3, <1>4, <1>5 DEF ActsOn

\* Two acting passes in a row act: the second finds a side that waits for an answer and leaves it.
LEMMA ActsOnward ==
  ASSUME NEW e \in Engines, NEW f \in Engines, NEW g \in Engines, Acts(e, f), Acts(f, g)
  PROVE  Acts(e, g)
<1>1. SameAccount(e, g) /\ Latched(e, g)
  BY DEF Acts, SameAccount, Latched
<1>2. ASSUME NEW s \in Slot PROVE ActsOn(e.slots[s], g.slots[s])
  BY SlotTyped, ActsSlots DEF Acts
<1>3. e.halt # "Armed" =>
        \A s \in Slot : g.slots[s].state \in Started => e.slots[s].state = g.slots[s].state
  BY DEF Acts, Latched
<1>4. ASSUME NEW s \in Slot, Mints(e, g, s)
      PROVE  e.halt = "Armed" /\ IsReady(e) /\ WellMinted(g, s)
  <2> DEFINE side == SideOf(s)
  <2>1. side \in Sides /\ s \in SideSlots(side)
    BY SlotsSplit DEF SideSlots
  <2>2. CASE Mints(e, f, s)
    <3>1. e.halt = "Armed" /\ IsReady(e) /\ WellMinted(f, s)
      BY <2>2 DEF Acts
    <3>2. AwaitingAnswer(f, side)
      BY <2>1, <2>2 DEF Mints, AwaitingAnswer, InFlight
    <3>3. \A t \in SideSlots(side) : g.slots[t] = f.slots[t]
      BY <2>1, <3>2 DEF Acts
    <3>4. PossiblyLive(g, side) = PossiblyLive(f, side)
      BY <3>3 DEF PossiblyLive
    <3>5. WellMinted(g, s)
      BY <3>1, <3>3, <3>4 DEF WellMinted
    <3> QED BY <3>1, <3>5
  <2>3. CASE ~ Mints(e, f, s)
    <3>1. Mints(f, g, s)
      BY <1>4, <2>3 DEF Mints
    <3>2. f.halt = "Armed" /\ IsReady(f) /\ WellMinted(g, s)
      BY <3>1 DEF Acts
    <3> QED BY <3>2 DEF Acts, SameAccount, Latched, IsReady
  <2> QED BY <2>2, <2>3
<1>5. ASSUME NEW side \in Sides, AwaitingAnswer(e, side), NEW s \in SideSlots(side)
      PROVE  g.slots[s] = e.slots[s]
  <2>1. \A t \in SideSlots(side) : f.slots[t] = e.slots[t]
    BY <1>5 DEF Acts
  <2>2. AwaitingAnswer(f, side)
    BY <1>5, <2>1 DEF AwaitingAnswer
  <2> QED BY <2>1, <2>2 DEF Acts
<1>6. Within(e) => Within(g)
  BY DEF Acts
<1>7. Covered(e) => Covered(g)
  BY DEF Acts
<1> QED BY <1>1, <1>2, <1>3, <1>4, <1>5, <1>6, <1>7 DEF Acts

\* A pass that leaves the slots and what is held back for them.
LEMMA ActsSame ==
  ASSUME NEW e \in Engines, NEW f \in Engines, SameAccount(e, f), Latched(e, f),
         f.reserved = e.reserved, f.slots = e.slots
  PROVE  Acts(e, f)
<1>1. \A s \in Slot : ActsOn(e.slots[s], f.slots[s]) /\ ~ Mints(e, f, s)
  BY DEF ActsOn, Mints
<1>2. Within(e) => Within(f)
  BY DEF Within, PossiblyLive
<1>3. Covered(e) => Covered(f)
  <2>1. Holdings(f) = Holdings(e)
    BY DEF Holdings
  <2> QED BY <2>1 DEF Covered, Held
<1> QED BY <1>1, <1>2, <1>3 DEF Acts

-----------------------------------------------------------------------------
Bare(slot) == slot.reserved = 0 /\ slot.filled = 0

\* The record of a new order.
Order(e, qty, style) ==
  [EmptySlot EXCEPT !.state = "PendingNew", !.style = style, !.qty = qty, !.placed = e.recon,
                    !.reserved = qty, !.reservedAt = e.watermark]

\* A new order's record is a slot's record.
LEMMA OrderTyped ==
  ASSUME NEW e \in Engines, NEW qty \in Nat, NEW style \in Styles
  PROVE  /\ Order(e, qty, style) \in SlotRecord /\ Order(e, qty, style).state = "PendingNew"
         /\ Order(e, qty, style).reserved = qty /\ Order(e, qty, style).filled = 0
<1>1. e.recon \in Nat /\ e.watermark \in Nat /\ "PendingNew" \in State
  BY DEF Engines, State, Working, InFlight
<1>2. EmptySlot \in SlotRecord /\ EmptySlot.filled = 0
  BY EmptyTyped DEF EmptySlot
<1> QED BY <1>1, <1>2 DEF Order, SlotRecord

\* A claim writes the new order and adds its quantity to what its side holds back.
LEMMA ClaimEffect ==
  ASSUME NEW e \in Engines, NEW s \in Slot, NEW qty \in Nat, NEW style \in Styles,
         NEW f, f = Claim(e, s, qty, style)
  PROVE  /\ f \in Engines /\ SameAccount(e, f) /\ f.halt = e.halt /\ f.banked = e.banked
         /\ f.slots[s] = Order(e, qty, style) /\ \A t \in Slot \ {s} : f.slots[t] = e.slots[t]
         /\ f.reserved[SideOf(s)] = e.reserved[SideOf(s)] + qty
         /\ \A side \in Sides \ {SideOf(s)} : f.reserved[side] = e.reserved[side]
<1>1. f = Written(e, s, Order(e, qty, style), qty)
  BY DEF Claim, Order, Written
<1>2. Order(e, qty, style) \in SlotRecord /\ qty \in Int
  BY OrderTyped
<1> QED BY <1>1, <1>2, SlotWritten

\* A release takes off exactly what the slot holds, and leaves it holding nothing.
LEMMA FreeEffect ==
  ASSUME NEW e \in Engines, NEW s \in Slot, NEW f, f = FreeSlot(e, s)
  PROVE  /\ f \in Engines /\ SameAccount(e, f) /\ f.halt = e.halt /\ f.banked = e.banked /\ f.recon = e.recon
         /\ f.slots[s] = [e.slots[s] EXCEPT !.reserved = 0]
         /\ \A t \in Slot \ {s} : f.slots[t] = e.slots[t]
         /\ f.reserved[SideOf(s)] = e.reserved[SideOf(s)] - e.slots[s].reserved
         /\ \A side \in Sides \ {SideOf(s)} : f.reserved[side] = e.reserved[side]
<1> DEFINE slot == [e.slots[s] EXCEPT !.reserved = 0]
           d == - e.slots[s].reserved
<1>1. slot \in SlotRecord
  BY SlotTyped DEF SlotRecord
<1>2. d \in Int /\ e.slots[s].reserved \in Nat
  BY SlotTyped DEF SlotFacts
<1>3. e.reserved[SideOf(s)] \in Int /\ SideOf(s) \in Sides
  BY SlotsSplit DEF Engines
<1>4. e.reserved[SideOf(s)] - e.slots[s].reserved = e.reserved[SideOf(s)] + d
  BY <1>2, <1>3
<1>5. f = [e EXCEPT !.reserved[SideOf(s)] = @ + d, !.slots[s].reserved = 0]
  BY <1>4 DEF FreeSlot
<1>6. f = Written(e, s, slot, d)
  BY <1>5 DEF Engines, Written
<1> HIDE DEF slot, d
<1>7. /\ f \in Engines /\ SameAccount(e, f) /\ f.halt = e.halt /\ f.banked = e.banked
      /\ f.recon = e.recon
      /\ f.slots[s] = slot
      /\ \A t \in Slot \ {s} : f.slots[t] = e.slots[t]
      /\ f.reserved[SideOf(s)] = e.reserved[SideOf(s)] + d
      /\ \A side \in Sides \ {SideOf(s)} : f.reserved[side] = e.reserved[side]
  BY <1>1, <1>2, <1>6, SlotWritten
<1> QED BY <1>4, <1>7 DEF slot

\* A placement that the bank refuses leaves a rejected order that claims nothing.
LEMMA UnwindEffect ==
  ASSUME NEW e \in Engines, NEW s \in Slot, NEW qty \in Nat, NEW style \in Styles,
         NEW f, f = Unwind(Claim(e, s, qty, style), s)
  PROVE  /\ f \in Engines /\ SameAccount(e, f) /\ Latched(e, f) /\ f.reserved = e.reserved
         /\ f.slots[s].state = "Rejected" /\ Bare(f.slots[s])
         /\ \A t \in Slot \ {s} : f.slots[t] = e.slots[t]
<1> DEFINE c == Claim(e, s, qty, style)
           g == FreeSlot(c, s)
           h == [g EXCEPT !.slots[s].state = "Rejected"]
           slots == [g.slots EXCEPT ![s] = [g.slots[s] EXCEPT !.state = "Rejected"]]
<1>1. SideOf(s) \in Sides /\ "Rejected" \in State /\ "CommandBankOverflow" \in HaltReasons
  BY SlotsSplit DEF State, Closed, HaltReasons
<1>2. f = Halt(h, "CommandBankOverflow")
  BY DEF Unwind
<1>3. /\ c \in Engines /\ SameAccount(e, c) /\ c.halt = e.halt
      /\ c.slots[s].reserved = qty /\ c.slots[s].filled = 0 /\ c.slots[s] \in SlotRecord
      /\ \A t \in Slot \ {s} : c.slots[t] = e.slots[t]
      /\ c.reserved[SideOf(s)] = e.reserved[SideOf(s)] + qty
      /\ \A side \in Sides \ {SideOf(s)} : c.reserved[side] = e.reserved[side]
  BY ClaimEffect, OrderTyped
<1> HIDE DEF c
<1>4. /\ g \in Engines /\ SameAccount(c, g) /\ g.halt = c.halt
      /\ g.slots[s] = [c.slots[s] EXCEPT !.reserved = 0]
      /\ \A t \in Slot \ {s} : g.slots[t] = c.slots[t]
      /\ g.reserved[SideOf(s)] = c.reserved[SideOf(s)] - qty
      /\ \A side \in Sides \ {SideOf(s)} : g.reserved[side] = c.reserved[side]
  BY <1>3, FreeEffect
<1>5. g.slots[s] \in SlotRecord /\ Bare(g.slots[s])
  BY <1>3, <1>4 DEF SlotRecord, Bare
<1> HIDE DEF g
<1>6. h = [g EXCEPT !.slots = slots]
  BY <1>4 DEF Engines
<1>7. /\ slots \in [Slot -> SlotRecord]
      /\ slots[s].state = "Rejected" /\ Bare(slots[s])
      /\ \A t \in Slot \ {s} : slots[t] = g.slots[t]
  <2>1. /\ [g.slots[s] EXCEPT !.state = "Rejected"] \in SlotRecord
        /\ [g.slots[s] EXCEPT !.state = "Rejected"].state = "Rejected"
        /\ Bare([g.slots[s] EXCEPT !.state = "Rejected"])
    BY <1>1, <1>5, StateWritten DEF Bare
  <2>2. g.slots \in [Slot -> SlotRecord]
    BY <1>4 DEF Engines
  <2> QED BY <2>1, <2>2
<1> HIDE DEF slots, h
<1>8. /\ h \in Engines /\ SameAccount(g, h) /\ h.halt = g.halt /\ h.slots = slots
      /\ h.reserved = g.reserved
  BY <1>4, <1>6, <1>7 DEF Engines, SameAccount
<1>9. /\ f \in Engines /\ SameAccount(h, f) /\ Latched(h, f) /\ f.slots = h.slots
      /\ f.reserved = h.reserved
  BY <1>1, <1>2, <1>8, HaltEffect
<1>10. g.reserved = e.reserved
  <2>1. /\ g.reserved \in [Sides -> Int] /\ e.reserved \in [Sides -> Int]
    BY <1>4 DEF Engines
  <2>2. e.reserved[SideOf(s)] \in Int /\ e.reserved[SideOf(s)] + qty - qty = e.reserved[SideOf(s)]
    BY <1>1, <2>1
  <2>3. ASSUME NEW side \in Sides PROVE g.reserved[side] = e.reserved[side]
    <3>1. CASE side = SideOf(s)
      <4>1. c.reserved[SideOf(s)] = e.reserved[SideOf(s)] + qty
        BY <1>3
      <4>2. g.reserved[SideOf(s)] = c.reserved[SideOf(s)] - qty
        BY <1>4
      <4> QED BY <2>2, <3>1, <4>1, <4>2
    <3>2. CASE side # SideOf(s)
      BY <1>3, <1>4, <3>2
    <3> QED BY <3>1, <3>2
  <2> QED BY <2>1, <2>3
<1>11. SameAccount(e, f) /\ Latched(e, f)
  BY <1>3, <1>4, <1>8, <1>9 DEF SameAccount, Latched
<1> QED BY <1>3, <1>4, <1>7, <1>8, <1>9, <1>10, <1>11

\* What a placement comes to: an order in a slot of its level that was free or had
\* ended, or a halt.
Placed(e, f, s, qty, style) ==
  /\ e.slots[s].state \in Closed \cup {"Free"}
  /\ \A t \in Slot \ {s} : f.slots[t] = e.slots[t]
  /\ \/ /\ f.slots[s] = Order(e, qty, style) /\ HasRoom(e)
        /\ f.halt = e.halt /\ f.banked = e.banked + 1
        /\ f.reserved[SideOf(s)] = e.reserved[SideOf(s)] + qty
        /\ \A side \in Sides \ {SideOf(s)} : f.reserved[side] = e.reserved[side]
     \/ /\ f.slots[s].state = "Rejected" /\ Bare(f.slots[s]) /\ ~ HasRoom(e)
        /\ f.reserved = e.reserved

\* A placement takes a slot of its level that is free or has ended, or halts.
LEMMA PlaceEffect ==
  ASSUME NEW e \in Engines, NEW side \in Sides, NEW level, NEW qty \in Nat, NEW style \in Styles,
         NEW oldest, NEW f, f = Place(e, side, level, qty, style, oldest)
  PROVE  /\ f \in Engines /\ SameAccount(e, f) /\ Latched(e, f)
         /\ \/ f = Halt(e, "SlotLeak")
            \/ \E s \in SideSlots(side) : Placed(e, f, s, qty, style)
<1> DEFINE mine   == LevelSlots(side, level)
           free   == {s \in mine : e.slots[s].state = "Free"}
           closed == {s \in mine : e.slots[s].state \in Closed}
           s      == IF free # {} THEN Min(free)
                     ELSE IF oldest \in closed THEN oldest ELSE Min(closed)
<1>1. f = IF free \cup closed = {} THEN Halt(e, "SlotLeak")
          ELSE IF HasRoom(e) THEN BankOrHalt(Claim(e, s, qty, style), 1)
          ELSE Unwind(Claim(e, s, qty, style), s)
  BY DEF Place
<1>2. CASE free \cup closed = {}
  <2>1. "SlotLeak" \in HaltReasons
    BY DEF HaltReasons
  <2>2. f = Halt(e, "SlotLeak")
    BY <1>1, <1>2
  <2> QED BY <2>1, <2>2, HaltEffect
<1>3. CASE free \cup closed # {}
  <2>1. s \in SideSlots(side) /\ s \in Slot /\ e.slots[s].state \in Closed \cup {"Free"}
    <3>1. free \in SUBSET Nat /\ closed \in SUBSET Nat
      BY SideSplit, SlotsSplit
    <3>2. s \in free \cup closed
      BY <1>3, <3>1, MinOf
    <3> QED BY <3>2, SideSplit
  <2>2. f = IF HasRoom(e) THEN BankOrHalt(Claim(e, s, qty, style), 1)
            ELSE Unwind(Claim(e, s, qty, style), s)
    BY <1>1, <1>3
  <2> HIDE DEF s, free, closed
  <2>3. CASE HasRoom(e)
    <3> DEFINE c == Claim(e, s, qty, style)
    <3>1. /\ c \in Engines /\ SameAccount(e, c) /\ c.halt = e.halt /\ c.banked = e.banked
          /\ c.slots[s] = Order(e, qty, style) /\ \A t \in Slot \ {s} : c.slots[t] = e.slots[t]
          /\ c.reserved[SideOf(s)] = e.reserved[SideOf(s)] + qty
          /\ \A t \in Sides \ {SideOf(s)} : c.reserved[t] = e.reserved[t]
      BY <2>1, ClaimEffect
    <3> HIDE DEF c
    <3>2. e.banked + 1 <= BankCapacity
      BY <2>3, Capacity DEF HasRoom, Engines
    <3>3. /\ f \in Engines /\ SameAccount(c, f) /\ f.slots = c.slots /\ f.reserved = c.reserved
          /\ f.halt = c.halt /\ f.banked = c.banked + 1
      BY <2>2, <2>3, <3>1, <3>2, BankEffect DEF c
    <3>4. SameAccount(e, f) /\ Latched(e, f)
      BY <3>1, <3>3 DEF SameAccount, Latched
    <3>5. Placed(e, f, s, qty, style)
      BY <2>1, <2>3, <3>1, <3>3 DEF Placed
    <3> QED BY <2>1, <3>3, <3>4, <3>5
  <2>4. CASE ~ HasRoom(e)
    <3>1. /\ f \in Engines /\ SameAccount(e, f) /\ Latched(e, f) /\ f.reserved = e.reserved
          /\ f.slots[s].state = "Rejected" /\ Bare(f.slots[s])
          /\ \A t \in Slot \ {s} : f.slots[t] = e.slots[t]
      BY <2>1, <2>2, <2>4, UnwindEffect
    <3> QED BY <2>1, <2>4, <3>1 DEF Placed
  <2> QED BY <2>3, <2>4
<1> QED BY <1>2, <1>3

-----------------------------------------------------------------------------
\* The commands an engine may still have to bank without being asked: those it has
\* banked, and the sweep of a halt to come.
Pot(e) == e.banked + (IF e.halt = "Armed" THEN 1 ELSE 0)

\* A pass that banks at most n commands, and does not run out of room for them.
Costs(e, f, n) ==
  e.halt # "CommandBankOverflow" /\ Pot(e) + n <= BankCapacity =>
    f.halt # "CommandBankOverflow" /\ Pot(f) <= Pot(e) + n

\* The counts of commands are naturals.
LEMMA PotTyped == ASSUME NEW e \in Engines PROVE Pot(e) \in Nat /\ e.banked \in Nat
BY Capacity DEF Engines, Pot

\* The costs of two passes in a row add up.
LEMMA CostsOn ==
  ASSUME NEW e \in Engines, NEW f \in Engines, NEW g \in Engines, NEW n \in Nat, NEW m \in Nat,
         Costs(e, f, n), Costs(f, g, m)
  PROVE  Costs(e, g, n + m)
BY PotTyped, Capacity DEF Costs

\* A bound on a cost may be raised.
LEMMA CostsLess ==
  ASSUME NEW e \in Engines, NEW f \in Engines, NEW n \in Nat, NEW m \in Nat, n <= m, Costs(e, f, n)
  PROVE  Costs(e, f, m)
BY PotTyped, Capacity DEF Costs

\* What a pass costs that leaves the halt latch alone.
LEMMA CostsBanked ==
  ASSUME NEW e \in Engines, NEW f \in Engines, NEW n \in Nat,
         e.banked + n <= BankCapacity => f.halt = e.halt /\ f.banked <= e.banked + n
  PROVE  Costs(e, f, n)
<1> SUFFICES ASSUME e.halt # "CommandBankOverflow", Pot(e) + n <= BankCapacity
             PROVE  f.halt # "CommandBankOverflow" /\ Pot(f) <= Pot(e) + n
  BY DEF Costs
<1>1. e.banked + n <= BankCapacity
  BY PotTyped, Capacity DEF Pot
<1> QED BY <1>1, PotTyped DEF Pot

\* A halt costs nothing: the room for its sweep was counted already.
LEMMA HaltCosts ==
  ASSUME NEW e \in Engines, NEW reason \in HaltReasons \ {"CommandBankOverflow"},
         NEW f, f = Halt(e, reason)
  PROVE  Costs(e, f, 0)
<1>1. reason # "Armed"
  BY DEF HaltReasons
<1>2. /\ f.halt = IF e.halt = "Armed" THEN reason ELSE e.halt
      /\ f.banked = IF e.halt = "Armed" /\ HasRoom(e) THEN e.banked + 1 ELSE e.banked
  BY HaltEffect
<1> QED BY <1>1, <1>2, PotTyped, Capacity DEF Costs, Pot

-----------------------------------------------------------------------------
(***************************************************************************)
(* A placement                                                             *)
(***************************************************************************)
\* What a placement makes of the slots.
LEMMA PlacedSlots ==
  ASSUME NEW e \in Engines, NEW f \in Engines, NEW s \in Slot, NEW qty \in Nat \ {0},
         NEW style \in Styles, Placed(e, f, s, qty, style)
  PROVE  /\ \A t \in Slot : ActsOn(e.slots[t], f.slots[t])
         /\ f.slots[s].state \in {"PendingNew", "Rejected"}
<1>1. /\ e.slots[s].state \in Closed \cup {"Free"}
      /\ \A t \in Slot \ {s} : f.slots[t] = e.slots[t]
  BY DEF Placed
<1>2. /\ f.slots[s].state \in {"PendingNew", "Rejected"} /\ f.slots[s].filled = 0
      /\ f.slots[s].state = "PendingNew" => f.slots[s].reserved > 0
  <2>1. CASE f.slots[s] = Order(e, qty, style)
    BY <2>1, OrderTyped
  <2>2. CASE f.slots[s].state = "Rejected" /\ Bare(f.slots[s])
    BY <2>2 DEF Bare
  <2> QED BY <2>1, <2>2 DEF Placed
<1>3. ASSUME NEW t \in Slot PROVE ActsOn(e.slots[t], f.slots[t])
  <2>1. CASE t = s
    <3>1. "Rejected" \notin Working
      BY DEF Working, InFlight
    <3> QED BY <1>2, <2>1, <3>1 DEF ActsOn, Fresh
  <2>2. CASE t # s
    BY <1>1, <2>2 DEF ActsOn
  <2> QED BY <2>1, <2>2
<1> QED BY <1>2, <1>3

\* A placement holds back as much as its slot claims.
LEMMA PlacedCovered ==
  ASSUME NEW e \in Engines, NEW f \in Engines, NEW s \in Slot, NEW qty \in Nat,
         NEW style \in Styles, Placed(e, f, s, qty, style), Covered(e)
  PROVE  Covered(f)
<1> DEFINE mine == SideOf(s)
<1>1. /\ Held(f, mine) = Held(e, mine) + f.slots[s].reserved - e.slots[s].reserved
      /\ \A side \in Sides \ {mine} : Held(f, side) = Held(e, side)
  BY HeldWritten DEF Placed
<1>2. /\ \A side \in Sides : e.reserved[side] >= Held(e, side)
      /\ \A side \in Sides : e.reserved[side] \in Int /\ f.reserved[side] \in Int
  BY DEF Covered, Engines
<1>3. mine \in Sides /\ Held(e, mine) \in Int /\ e.slots[s].reserved \in Nat
  BY SlotsSplit, HeldTyped, SlotTyped DEF SlotFacts
<1> HIDE DEF mine
<1>4. CASE /\ f.slots[s] = Order(e, qty, style)
           /\ f.reserved[mine] = e.reserved[mine] + qty
           /\ \A side \in Sides \ {mine} : f.reserved[side] = e.reserved[side]
  <2>1. f.slots[s].reserved = qty
    BY <1>4, OrderTyped
  <2>2. f.reserved[mine] >= Held(f, mine)
    BY <1>1, <1>2, <1>3, <1>4, <2>1
  <2>3. ASSUME NEW side \in Sides, side # mine PROVE f.reserved[side] >= Held(f, side)
    BY <1>1, <1>2, <1>4, <2>3
  <2> QED BY <2>2, <2>3 DEF Covered
<1>5. CASE f.slots[s].reserved = 0 /\ f.reserved = e.reserved
  <2>1. f.reserved[mine] >= Held(f, mine)
    BY <1>1, <1>2, <1>3, <1>5
  <2>2. ASSUME NEW side \in Sides, side # mine PROVE f.reserved[side] >= Held(f, side)
    BY <1>1, <1>2, <1>5, <2>2
  <2> QED BY <2>1, <2>2 DEF Covered
<1> QED BY <1>4, <1>5 DEF Placed, Bare, mine

\* A placement the gates let through acts.
LEMMA PlacedActs ==
  ASSUME NEW e \in Engines, NEW f \in Engines, SameAccount(e, f), Latched(e, f),
         NEW side \in Sides, NEW s \in SideSlots(side), NEW qty \in Nat \ {0},
         NEW style \in Styles, Placed(e, f, s, qty, style),
         e.halt = "Armed", IsReady(e), ~ AwaitingAnswer(e, side), PossiblyLive(e, side) < MaxOrders
  PROVE  Acts(e, f)
<1>1. s \in Slot /\ SideOf(s) = side /\ \A t \in Slot \ {s} : f.slots[t] = e.slots[t]
  BY SideSplit DEF Placed
<1>2. /\ \A t \in Slot : ActsOn(e.slots[t], f.slots[t])
      /\ f.slots[s].state \in {"PendingNew", "Rejected"}
  BY <1>1, PlacedSlots
<1>3. PossiblyLive(f, side) <= MaxOrders
  <2>1. PossiblyLive(f, side) <= PossiblyLive(e, side) + 1
    BY <1>1, SideSplit, LiveAdds
  <2> QED BY <2>1, LiveTyped, EngineAssumption
<1>4. ASSUME NEW t \in Slot, Mints(e, f, t) PROVE IsReady(e) /\ WellMinted(f, t)
  <2>1. t = s
    BY <1>1, <1>4 DEF Mints
  <2>2. ASSUME NEW u \in SideSlots(side) \ {s} PROVE f.slots[u].state \notin InFlight
    BY <1>1, SideSplit DEF AwaitingAnswer
  <2> QED BY <1>1, <1>3, <2>1, <2>2 DEF WellMinted
<1>5. ASSUME NEW other \in Sides, AwaitingAnswer(e, other), NEW t \in SideSlots(other)
      PROVE  f.slots[t] = e.slots[t]
  <2>1. other # side
    BY <1>5
  <2> QED BY <1>1, <2>1, SideSplit
<1>6. ASSUME Within(e) PROVE Within(f)
  <2>1. ASSUME NEW other \in Sides, other # side PROVE PossiblyLive(f, other) <= MaxOrders
    <3>1. PossiblyLive(f, other) <= PossiblyLive(e, other)
      BY <1>1, <2>1, SideSplit, LiveShrinks
    <3> QED BY <1>6, <3>1, LiveTyped, EngineAssumption DEF Within
  <2> QED BY <1>3, <2>1 DEF Within
<1>7. Covered(e) => Covered(f)
  BY <1>1, PlacedCovered
<1> QED BY <1>2, <1>4, <1>5, <1>6, <1>7 DEF Acts

\* The whole placement, one that finds no slot included, acts and costs one command.
LEMMA PlaceActs ==
  ASSUME NEW e \in Engines, NEW side \in Sides, NEW level, NEW qty \in Nat \ {0},
         NEW style \in Styles, NEW oldest, NEW f, f = Place(e, side, level, qty, style, oldest),
         e.halt = "Armed", IsReady(e), ~ AwaitingAnswer(e, side), PossiblyLive(e, side) < MaxOrders
  PROVE  f \in Engines /\ Acts(e, f) /\ Costs(e, f, 1)
<1>1. /\ f \in Engines /\ SameAccount(e, f) /\ Latched(e, f)
      /\ \/ f = Halt(e, "SlotLeak")
         \/ \E s \in SideSlots(side) : Placed(e, f, s, qty, style)
  BY PlaceEffect
<1>2. CASE f = Halt(e, "SlotLeak")
  <2>1. "SlotLeak" \in HaltReasons \ {"CommandBankOverflow"}
    BY DEF HaltReasons
  <2>2. f.reserved = e.reserved /\ f.slots = e.slots /\ Costs(e, f, 0)
    BY <1>2, <2>1, HaltEffect, HaltCosts
  <2> QED BY <1>1, <2>2, ActsSame, CostsLess
<1>3. ASSUME NEW s \in SideSlots(side), Placed(e, f, s, qty, style)
      PROVE  Acts(e, f) /\ Costs(e, f, 1)
  <2>1. Acts(e, f)
    BY <1>1, <1>3, PlacedActs
  <2>2. e.banked + 1 <= BankCapacity => f.halt = e.halt /\ f.banked = e.banked + 1
    BY <1>3, PotTyped, Capacity DEF Placed, HasRoom
  <2>3. Costs(e, f, 1)
    BY <1>1, <2>2, PotTyped, CostsBanked
  <2> QED BY <2>1, <2>3
<1> QED BY <1>1, <1>2, <1>3

-----------------------------------------------------------------------------
(***************************************************************************)
(* A command to the venue about an order that rests                        *)
(***************************************************************************)
Command(e, s, state) ==
  IF HasRoom(e) THEN BankOrHalt([e EXCEPT !.slots[s].state = state], 1) ELSE BankOrHalt(e, 1)

\* A cancel or an amend of a resting order acts and costs one command.
LEMMA CommandActs ==
  ASSUME NEW e \in Engines, NEW s \in Slot, NEW state \in {"CancelInFlight", "AmendInFlight"},
         e.slots[s].state = "Live", ~ AwaitingAnswer(e, SideOf(s)),
         state = "AmendInFlight" => e.halt = "Armed",
         NEW f, f = Command(e, s, state)
  PROVE  f \in Engines /\ Acts(e, f) /\ Costs(e, f, 1)
<1>1. state \in State /\ state \in Working
  BY DEF State, Working, InFlight
<1>2. CASE ~ HasRoom(e)
  <2>1. f = BankOrHalt(e, 1)
    BY <1>2 DEF Command
  <2>2. ~ (e.banked + 1 <= BankCapacity)
    BY <1>2, PotTyped, Capacity DEF HasRoom
  <2>3. /\ f \in Engines /\ SameAccount(e, f) /\ Latched(e, f)
        /\ f.slots = e.slots /\ f.reserved = e.reserved
    BY <2>1, BankEffect
  <2> QED BY <2>2, <2>3, ActsSame, CostsBanked
<1>3. CASE HasRoom(e)
  <2> DEFINE slots == [e.slots EXCEPT ![s] = [e.slots[s] EXCEPT !.state = state]]
             g     == [e EXCEPT !.slots = slots]
  <2>1. f = BankOrHalt(g, 1)
    BY <1>3 DEF Command, Engines
  <2>2. /\ slots \in [Slot -> SlotRecord]
        /\ slots[s].state = state /\ slots[s].reserved = e.slots[s].reserved
        /\ \A t \in Slot \ {s} : slots[t] = e.slots[t]
    <3>1. /\ [e.slots[s] EXCEPT !.state = state] \in SlotRecord
          /\ [e.slots[s] EXCEPT !.state = state].state = state
          /\ [e.slots[s] EXCEPT !.state = state].reserved = e.slots[s].reserved
      BY <1>1, SlotTyped, StateWritten
    <3>2. e.slots \in [Slot -> SlotRecord]
      BY DEF Engines
    <3> QED BY <3>1, <3>2
  <2> HIDE DEF slots
  <2>3. /\ g \in Engines /\ SameAccount(e, g) /\ g.halt = e.halt /\ g.banked = e.banked
        /\ g.slots = slots /\ g.reserved = e.reserved
    BY <2>2 DEF Engines, SameAccount
  <2> HIDE DEF g
  <2>4. /\ f \in Engines /\ SameAccount(g, f) /\ Latched(g, f)
        /\ f.slots = g.slots /\ f.reserved = g.reserved
        /\ g.banked + 1 <= BankCapacity => f.halt = g.halt /\ f.banked = g.banked + 1
    BY <2>1, <2>3, BankEffect
  <2>5. SameAccount(e, f) /\ Latched(e, f) /\ f.slots = slots /\ f.reserved = e.reserved
    BY <2>3, <2>4 DEF SameAccount, Latched
  <2>6. Costs(e, f, 1)
    BY <2>3, <2>4, PotTyped, CostsBanked
  <2>7. \A t \in Slot : /\ f.slots[t].state \in Working => e.slots[t].state \in Working
                        /\ f.slots[t].reserved = e.slots[t].reserved
                        /\ f.slots[t].state = "PendingNew" => e.slots[t].state = "PendingNew"
                        /\ t # s => f.slots[t] = e.slots[t]
    BY <2>2, <2>5 DEF Working
  <2>8. ASSUME NEW t \in Slot PROVE ActsOn(e.slots[t], f.slots[t])
    <3>1. CASE t = s
      BY <1>1, <2>2, <2>5, <2>7, <3>1 DEF ActsOn, Closed, Working, InFlight
    <3>2. CASE t # s
      BY <2>7, <3>2 DEF ActsOn
    <3> QED BY <3>1, <3>2
  <2>9. \A t \in Slot : ~ Mints(e, f, t)
    BY <2>7 DEF Mints
  <2>10. ASSUME e.halt # "Armed", NEW t \in Slot, f.slots[t].state \in Started
         PROVE  e.slots[t].state = f.slots[t].state
    BY <2>2, <2>5, <2>7, <2>10 DEF Started
  <2>11. ASSUME NEW side \in Sides, AwaitingAnswer(e, side), NEW t \in SideSlots(side)
         PROVE  f.slots[t] = e.slots[t]
    BY <2>7, <2>11, SideSplit
  <2>12. ASSUME Within(e) PROVE Within(f)
    <3> SUFFICES ASSUME NEW side \in Sides PROVE PossiblyLive(f, side) <= MaxOrders
      BY DEF Within
    <3>1. PossiblyLive(f, side) <= PossiblyLive(e, side)
      BY <2>7, SideSplit, LiveShrinks
    <3> QED BY <2>12, <3>1, LiveTyped, EngineAssumption DEF Within
  <2>13. ASSUME Covered(e) PROVE Covered(f)
    <3> SUFFICES ASSUME NEW side \in Sides PROVE f.reserved[side] >= Held(f, side)
      BY DEF Covered
    <3>1. Held(f, side) <= Held(e, side)
      <4>1. \A t \in SideSlots(side) : f.slots[t].reserved <= e.slots[t].reserved
        BY <2>7, SideSplit, SlotTyped DEF SlotFacts
      <4> QED BY <2>4, <4>1, HeldShrinks
    <3>2. e.reserved[side] \in Int /\ e.reserved[side] >= Held(e, side) /\ f.reserved[side] = e.reserved[side]
      BY <2>5, <2>13 DEF Covered, Engines
    <3> QED BY <2>4, <3>1, <3>2, HeldTyped
  <2> QED BY <2>4, <2>5, <2>6, <2>8, <2>9, <2>10, <2>11, <2>12, <2>13 DEF Acts
<1> QED BY <1>2, <1>3

-----------------------------------------------------------------------------
(***************************************************************************)
(* The inputs of a spin, and its passes                                    *)
(***************************************************************************)
FitsSpin(e, in) ==
  /\ \A s \in in.reap : s \in Slot => e.slots[s].state \in Closed
  /\ in.late \in SUBSET Slot /\ \A s \in in.late : e.slots[s].state \in InFlight
  /\ \A side \in Sides, level \in Level :
       in.wants[side][level].quote => in.wants[side][level].qty \in Nat \ {0}
  /\ in.flatten \in Nat /\ in.lane \in LaneRooms

\* The order a level rests is one of the side's that lives.
LEMMA RestingIsLive ==
  ASSUME NEW e \in Engines, NEW side \in Sides, NEW level, RestingLive(e, side, level) # {}
  PROVE  /\ Min(Occupying(e, side, level)) \in SideSlots(side)
         /\ e.slots[Min(Occupying(e, side, level))].state = "Live"
<1> DEFINE occupying == Occupying(e, side, level)
<1>1. occupying \subseteq SideSlots(side) /\ occupying \in SUBSET Nat
  BY SideSplit, SlotsSplit DEF Occupying
<1>2. occupying # {} /\ e.slots[Min(occupying)].state = "Live"
  BY DEF RestingLive
<1>3. Min(occupying) \in occupying
  BY <1>1, <1>2, MinOf
<1> QED BY <1>1, <1>2, <1>3

\* What a level asks for, it may have.
LEMMA DecideMeans ==
  ASSUME NEW e, NEW side, NEW level, NEW in
  PROVE  /\ Decide(e, side, level, in) = "Cancel" => RestingLive(e, side, level) # {}
         /\ Decide(e, side, level, in) = "Amend" =>
              RestingLive(e, side, level) # {} /\ Admitted(e, side, level, in)
         /\ Decide(e, side, level, in) = "Place" => Admitted(e, side, level, in)
BY DEF Decide

\* One side's ladder acts, and costs one command: it sends one at most.
LEMMA LadderActs ==
  ASSUME NEW e \in Engines, NEW side \in Sides, NEW in,
         \A level \in Level :
           in.wants[side][level].quote => in.wants[side][level].qty \in Nat \ {0},
         NEW f, f = ReconcileLadder(e, side, in)
  PROVE  f \in Engines /\ Acts(e, f) /\ Costs(e, f, 1)
<1> DEFINE decided == [level \in Level |-> Decide(e, side, level, in)]
           asking(outcome) == {level \in Level : decided[level] = outcome}
           first(outcome)  == Min(asking(outcome))
           target(level)   == Min(Occupying(e, side, level))
<1>1. f = IF AwaitingAnswer(e, side) THEN e
          ELSE IF asking("Cancel") # {} THEN CancelSlot(e, target(first("Cancel")))
          ELSE IF asking("Amend") # {} THEN AmendSlot(e, target(first("Amend")))
          ELSE IF asking("Place") # {} /\ ~PlaceRefused(e, side, in)
          THEN Place(e, side, first("Place"), in.wants[side][first("Place")].qty, "PostOnly", in.oldest)
          ELSE e
  BY DEF ReconcileLadder
<1>2. ASSUME NEW outcome, asking(outcome) # {}
      PROVE  first(outcome) \in Level /\ Decide(e, side, first(outcome), in) = outcome
  <2>1. asking(outcome) \in SUBSET Nat
    BY DEF Level
  <2>2. first(outcome) \in asking(outcome)
    BY <1>2, <2>1, MinOf
  <2> QED BY <2>2
<1>3. ASSUME f = e PROVE Acts(e, f) /\ Costs(e, f, 1)
  BY <1>3, ActsSame, PotTyped, CostsBanked DEF SameAccount, Latched
<1>4. ASSUME NEW level, RestingLive(e, side, level) # {}
      PROVE  /\ target(level) \in Slot /\ SideOf(target(level)) = side
             /\ e.slots[target(level)].state = "Live"
  BY <1>4, RestingIsLive, SideSplit
<1>5. CASE ~ AwaitingAnswer(e, side) /\ asking("Cancel") # {}
  <2> DEFINE s == target(first("Cancel"))
  <2>1. f = Command(e, s, "CancelInFlight")
    BY <1>1, <1>5 DEF CancelSlot, Command
  <2>2. RestingLive(e, side, first("Cancel")) # {}
    BY <1>2, <1>5, DecideMeans
  <2>3. s \in Slot /\ SideOf(s) = side /\ e.slots[s].state = "Live"
    BY <1>4, <2>2
  <2> HIDE DEF s
  <2> QED BY <1>5, <2>1, <2>3, CommandActs
<1>6. CASE ~ AwaitingAnswer(e, side) /\ asking("Cancel") = {} /\ asking("Amend") # {}
  <2> DEFINE s == target(first("Amend"))
  <2>1. f = Command(e, s, "AmendInFlight")
    BY <1>1, <1>6 DEF AmendSlot, Command
  <2>2. RestingLive(e, side, first("Amend")) # {} /\ Admitted(e, side, first("Amend"), in)
    BY <1>2, <1>6, DecideMeans
  <2>3. s \in Slot /\ SideOf(s) = side /\ e.slots[s].state = "Live" /\ e.halt = "Armed"
    BY <1>4, <2>2 DEF Admitted
  <2> HIDE DEF s
  <2> QED BY <1>6, <2>1, <2>3, CommandActs
<1>7. CASE /\ ~ AwaitingAnswer(e, side) /\ asking("Cancel") = {} /\ asking("Amend") = {}
           /\ asking("Place") # {} /\ ~ PlaceRefused(e, side, in)
  <2> DEFINE level == first("Place")
             qty   == in.wants[side][level].qty
  <2>1. f = Place(e, side, level, qty, "PostOnly", in.oldest)
    BY <1>1, <1>7
  <2>2. level \in Level /\ Admitted(e, side, level, in)
    BY <1>2, <1>7, DecideMeans
  <2> HIDE DEF level
  <2>3. /\ e.halt = "Armed" /\ IsReady(e) /\ qty \in Nat \ {0} /\ "PostOnly" \in Styles
    BY <2>2 DEF Admitted, Styles
  <2>4. PossiblyLive(e, side) < MaxOrders
    BY <1>7, LiveTyped, EngineAssumption DEF PlaceRefused
  <2> HIDE DEF qty
  <2> QED BY <1>7, <2>1, <2>3, <2>4, PlaceActs
<1> HIDE DEF asking, first, target
<1>8. CASE \/ AwaitingAnswer(e, side)
           \/ /\ asking("Cancel") = {} /\ asking("Amend") = {}
              /\ asking("Place") = {} \/ PlaceRefused(e, side, in)
  <2>1. f = e
    BY <1>1, <1>8
  <2> QED BY <1>3, <2>1
<1> QED BY <1>5, <1>6, <1>7, <1>8

\* The quote pass acts, and costs one command a side.
LEMMA QuoteActs ==
  ASSUME NEW e \in Engines, NEW in,
         \A side \in Sides, level \in Level :
           in.wants[side][level].quote => in.wants[side][level].qty \in Nat \ {0},
         NEW f, f = QuotePass(e, in)
  PROVE  f \in Engines /\ Acts(e, f) /\ Costs(e, f, 2)
<1> DEFINE judged == IF in.session = "Neither" THEN Halt(e, "RealisedLoss") ELSE e
           bought == ReconcileLadder(judged, Buy, in)
<1>1. f = ReconcileLadder(bought, Sell, in) /\ Buy \in Sides /\ Sell \in Sides
  BY DEF QuotePass, Sides
<1>2. judged \in Engines /\ Acts(e, judged) /\ Costs(e, judged, 0)
  <2>1. CASE in.session = "Neither"
    <3>1. judged = Halt(e, "RealisedLoss") /\ "RealisedLoss" \in HaltReasons \ {"CommandBankOverflow"}
      BY <2>1 DEF HaltReasons
    <3> HIDE DEF judged
    <3> QED BY <3>1, HaltEffect, HaltCosts, ActsSame
  <2>2. CASE in.session # "Neither"
    BY <2>2, ActsSame, PotTyped, CostsBanked DEF SameAccount, Latched
  <2> QED BY <2>1, <2>2
<1> HIDE DEF judged
<1>3. bought \in Engines /\ Acts(judged, bought) /\ Costs(judged, bought, 1)
  BY <1>1, <1>2, LadderActs
<1> HIDE DEF bought
<1>4. f \in Engines /\ Acts(bought, f) /\ Costs(bought, f, 1)
  BY <1>1, <1>3, LadderActs
<1>5. Acts(e, bought) /\ Costs(e, bought, 0 + 1)
  BY <1>2, <1>3, ActsOnward, CostsOn
<1>6. Acts(e, f) /\ Costs(e, f, 1 + 1)
  BY <1>3, <1>4, <1>5, ActsOnward, CostsOn
<1> QED BY <1>4, <1>6

\* The flatten pass acts, and costs one command.
LEMMA FlattenActs ==
  ASSUME NEW e \in Engines, NEW in, in.flatten \in Nat, NEW f, f = FlattenPass(e, in)
  PROVE  f \in Engines /\ Acts(e, f) /\ Costs(e, f, 1)
<1> DEFINE side == ReducingSide(e.position)
<1>1. side \in Sides /\ "Immediate" \in Styles
  BY DEF ReducingSide, Sides, Styles
<1>2. CASE f = e
  BY <1>2, ActsSame, PotTyped, CostsBanked DEF SameAccount, Latched
<1>3. CASE f # e
  <2>1. /\ e.halt = "Armed" /\ IsReady(e) /\ in.flatten # 0
        /\ ~ AwaitingAnswer(e, side) /\ ~ (PossiblyLive(e, side) >= MaxOrders)
        /\ f = Place(e, side, 0, in.flatten, "Immediate", in.oldest)
    BY <1>3 DEF FlattenPass
  <2> HIDE DEF side
  <2>2. PossiblyLive(e, side) < MaxOrders
    BY <2>1, LiveTyped, EngineAssumption
  <2> QED BY <1>1, <2>1, <2>2, PlaceActs
<1> QED BY <1>2, <1>3

-----------------------------------------------------------------------------
\* The passes that neither mint nor amend.
LEMMA CalmPasses ==
  ASSUME NEW e \in Engines, NEW in, FitsSpin(e, in),
         NEW c, c = SweepClosingWindow(EnforceRestingLimit(DetectSilence(
                      ChaseTimeouts(Reap(e, in), in))), in)
  PROVE  c \in Engines /\ Calm(e, c) /\ Costs(e, c, Cardinality(Slot) + 1)
<1> DEFINE reaped  == Reap(e, in)
           chased  == ChaseTimeouts(reaped, in)
           heard   == DetectSilence(chased)
           limited == EnforceRestingLimit(heard)
           late    == in.late
           resting == {s \in Slot : IsRestingQuote(limited.slots[s])}
<1>1. /\ IsFiniteSet(late) /\ IsFiniteSet(resting)
      /\ Cardinality(late) \in Nat /\ Cardinality(resting) \in Nat
  BY SlotsSplit, FS_Subset, FS_CardinalityType DEF FitsSpin
<1>2. /\ reaped \in Engines /\ Calm(e, reaped) /\ Costs(e, reaped, 0)
      /\ \A s \in late : s \in Slot /\ reaped.slots[s].state \in InFlight
  <2>1. /\ reaped \in Engines /\ Calm(e, reaped) /\ reaped.halt = e.halt /\ reaped.banked = e.banked
        /\ \A s \in Slot : reaped.slots[s] = IF s \in in.reap THEN EmptySlot ELSE e.slots[s]
    BY ReapCalm DEF FitsSpin
  <2>2. ASSUME NEW s \in late PROVE s \in Slot /\ reaped.slots[s].state \in InFlight
    <3>1. s \in Slot /\ e.slots[s].state \in InFlight /\ (s \in in.reap => e.slots[s].state \in Closed)
      BY DEF FitsSpin
    <3>2. s \notin in.reap
      BY <3>1 DEF InFlight, Closed
    <3> QED BY <2>1, <3>1, <3>2
  <2>3. Costs(e, reaped, 0)
    BY <2>1, PotTyped, CostsBanked
  <2> HIDE DEF reaped, late
  <2> QED BY <2>1, <2>2, <2>3
<1> HIDE DEF reaped
<1>3. /\ chased \in Engines /\ Calm(reaped, chased) /\ Costs(reaped, chased, Cardinality(late))
      /\ \A s \in late : chased.slots[s].state = "Unknown"
  <2>1. late \in SUBSET Slot
    BY DEF FitsSpin
  <2>2. /\ chased \in Engines /\ Calm(reaped, chased)
        /\ \A s \in Slot : chased.slots[s] = IF s \in late THEN [reaped.slots[s] EXCEPT !.state = "Unknown"]
                                             ELSE reaped.slots[s]
        /\ reaped.banked + Cardinality(late) <= BankCapacity =>
             chased.halt = reaped.halt /\ chased.banked = reaped.banked + Cardinality(late)
    BY <1>2, <2>1, ChaseCalm
  <2>3. "Unknown" \in State
    BY DEF State, Working, InFlight
  <2>4. ASSUME NEW s \in late PROVE chased.slots[s].state = "Unknown"
    <3>1. s \in Slot /\ reaped.slots[s] \in SlotRecord
      BY <1>2, SlotTyped
    <3>2. chased.slots[s] = [reaped.slots[s] EXCEPT !.state = "Unknown"]
      BY <2>2, <3>1
    <3> HIDE DEF chased
    <3> QED BY <2>3, <3>1, <3>2, StateWritten
  <2> HIDE DEF chased, late
  <2>5. Costs(reaped, chased, Cardinality(late))
    BY <1>1, <1>2, <2>2, PotTyped, CostsBanked
  <2> QED BY <2>2, <2>4, <2>5
<1> HIDE DEF chased
<1>4. heard \in Engines /\ Calm(chased, heard) /\ Costs(chased, heard, 1) /\ heard.slots = chased.slots
  <2>1. /\ heard \in Engines /\ Calm(chased, heard) /\ heard.slots = chased.slots
        /\ chased.banked + 1 <= BankCapacity =>
             heard.halt = chased.halt /\ heard.banked \in {chased.banked, chased.banked + 1}
    BY <1>3, SilenceCalm
  <2> HIDE DEF heard
  <2> QED BY <1>3, <2>1, PotTyped, CostsBanked
<1> HIDE DEF heard
<1>5. limited \in Engines /\ Calm(heard, limited) /\ Costs(heard, limited, 0) /\ limited.slots = chased.slots
  <2>1. /\ limited \in Engines /\ Calm(heard, limited) /\ limited.slots = heard.slots
        /\ limited = heard \/ limited = Halt(heard, "DuplicateResting")
    BY <1>4, LimitCalm
  <2>2. "DuplicateResting" \in HaltReasons \ {"CommandBankOverflow"}
    BY DEF HaltReasons
  <2> HIDE DEF limited
  <2>3. Costs(heard, limited, 0)
    BY <1>4, <2>1, <2>2, PotTyped, CostsBanked, HaltCosts
  <2> QED BY <1>4, <2>1, <2>3
<1>6. Cardinality(late) + Cardinality(resting) <= Cardinality(Slot)
  <2>1. \A s \in resting : s \in Slot /\ limited.slots[s].state = "Live"
    BY DEF IsRestingQuote
  <2>2. late \cap resting = {}
    BY <1>3, <1>5, <2>1
  <2>3. late \cup resting \subseteq Slot
    BY <1>2, <2>1
  <2> HIDE DEF late, resting
  <2>4. Cardinality(late \cup resting) = Cardinality(late) + Cardinality(resting)
    BY <1>1, <2>2, FS_Union, FS_EmptySet
  <2>5. Cardinality(late \cup resting) <= Cardinality(Slot)
    BY <2>3, SlotsSplit, FS_Subset
  <2> QED BY <2>4, <2>5
<1>7. c \in Engines /\ Calm(limited, c) /\ Costs(limited, c, Cardinality(resting))
  <2>1. /\ c \in Engines /\ Calm(limited, c)
        /\ limited.banked + Cardinality(resting) <= BankCapacity =>
             c.halt = limited.halt /\ c.banked <= limited.banked + Cardinality(resting)
    <3>1. c = SweepClosingWindow(limited, in)
      BY DEF reaped, chased, heard
    <3> HIDE DEF limited
    <3> QED BY <1>5, <3>1, SweepCalm
  <2> HIDE DEF limited
  <2>2. Cardinality(resting) \in Nat
    BY <1>1
  <2> HIDE DEF resting
  <2> QED BY <1>5, <2>1, <2>2, CostsBanked
<1> DEFINE n == Cardinality(late)
           m == Cardinality(resting)
<1>8. n \in Nat /\ m \in Nat /\ Cardinality(Slot) \in Nat /\ n + m <= Cardinality(Slot)
  BY <1>1, <1>6, SlotsSplit
<1>9. Costs(reaped, chased, n) /\ Costs(limited, c, m)
  BY <1>3, <1>7
<1> HIDE DEF limited, n, m
<1>10. Calm(e, chased) /\ Costs(e, chased, 0 + n)
  BY <1>2, <1>3, <1>8, <1>9, CalmOn, CostsOn
<1>11. Calm(e, heard) /\ Costs(e, heard, n + 1)
  BY <1>2, <1>3, <1>4, <1>8, <1>10, CalmOn, CostsOn
<1>12. Calm(e, limited) /\ Costs(e, limited, n + 1 + 0)
  BY <1>4, <1>5, <1>8, <1>11, CalmOn, CostsOn
<1>13. Calm(e, c) /\ Costs(e, c, n + 1 + 0 + m)
  BY <1>5, <1>7, <1>8, <1>9, <1>12, CalmOn, CostsOn
<1>14. n + 1 + 0 + m \in Nat /\ Cardinality(Slot) + 1 \in Nat /\ n + 1 + 0 + m <= Cardinality(Slot) + 1
  BY <1>8
<1> QED BY <1>7, <1>13, <1>14, CostsLess

\* A whole spin before its drain.
LEMMA DecisionsMade ==
  ASSUME NEW e \in Engines, NEW in, FitsSpin(e, in), NEW d, d = Decisions(e, in)
  PROVE  /\ d \in Engines /\ Costs(e, d, Cardinality(Slot) + 4)
         /\ \E c \in Engines : Calm(e, c) /\ Acts(c, d)
<1> DEFINE c == SweepClosingWindow(EnforceRestingLimit(DetectSilence(
                  ChaseTimeouts(Reap(e, in), in))), in)
           k == FlattenPass(c, in)
           n == Cardinality(Slot)
<1>1. n \in Nat
  BY SlotsSplit
<1>2. d = QuotePass(k, in)
  BY DEF Decisions
<1>3. c \in Engines /\ Calm(e, c) /\ Costs(e, c, n + 1)
  BY CalmPasses
<1> HIDE DEF c, n
<1>4. k \in Engines /\ Acts(c, k) /\ Costs(c, k, 1)
  BY <1>3, FlattenActs DEF FitsSpin
<1> HIDE DEF k
<1>5. d \in Engines /\ Acts(k, d) /\ Costs(k, d, 2)
  BY <1>2, <1>4, QuoteActs DEF FitsSpin
<1>6. Acts(c, d)
  BY <1>3, <1>4, <1>5, ActsOnward
<1>7. Costs(e, k, n + 1 + 1)
  BY <1>1, <1>3, <1>4, CostsOn
<1>8. Costs(e, d, n + 1 + 1 + 2)
  BY <1>1, <1>4, <1>5, <1>7, CostsOn
<1>9. n + 1 + 1 + 2 = n + 4
  BY <1>1
<1> QED BY <1>3, <1>5, <1>6, <1>8, <1>9 DEF n

Drains == \A lane \in LaneRooms : lane >= BankCapacity

\* No room wanted between spins for more than the sweep of a halt.
Roomy(e) == e.halt # "CommandBankOverflow" /\ Pot(e) <= 1

\* A spin is calm passes, then acting ones, then the drain that leaves the slots alone.
LEMMA SpinMade ==
  ASSUME NEW e \in Engines, NEW in, FitsSpin(e, in), NEW f, f = OnSpin(e, in)
  PROVE  /\ f \in Engines /\ \E c \in Engines : Calm(e, c) /\ Acts(c, f)
         /\ Drains /\ Roomy(e) => Roomy(f)
<1> DEFINE d == Decisions(e, in)
           b == IF d.banked <= in.lane THEN 0 ELSE d.banked - in.lane
<1>1. f = Drain(d, in)
  BY DEF OnSpin
<1>2. /\ d \in Engines /\ Costs(e, d, Cardinality(Slot) + 4)
      /\ \E c \in Engines : Calm(e, c) /\ Acts(c, d)
  BY DecisionsMade
<1> HIDE DEF d
<1>3. in.lane \in Nat /\ d.banked \in 0 .. BankCapacity
  BY <1>2, EngineAssumption DEF FitsSpin, Engines
<1>4. b \in 0 .. BankCapacity /\ (Drains => b = 0)
  BY <1>3, Capacity DEF Drains, FitsSpin
<1>5. f = [d EXCEPT !.banked = b]
  BY <1>1, <1>2 DEF Drain, Engines
<1> HIDE DEF b
<1>6. /\ f \in Engines /\ SameAccount(d, f) /\ f.halt = d.halt /\ f.slots = d.slots
      /\ f.reserved = d.reserved /\ f.banked = b
  BY <1>2, <1>4, <1>5 DEF Engines, SameAccount
<1>7. Acts(d, f)
  BY <1>2, <1>6, ActsSame DEF Latched
<1>8. \E c \in Engines : Calm(e, c) /\ Acts(c, f)
  BY <1>2, <1>6, <1>7, ActsOnward
<1>9. ASSUME Drains, Roomy(e) PROVE Roomy(f)
  <2>1. Pot(e) + (Cardinality(Slot) + 4) <= BankCapacity
    BY <1>9, PotTyped, SlotsSplit, Capacity DEF Roomy
  <2>2. d.halt # "CommandBankOverflow"
    BY <1>2, <1>9, <2>1 DEF Costs, Roomy
  <2> QED BY <1>4, <1>6, <1>9, <2>2 DEF Roomy, Pot
<1> QED BY <1>6, <1>8, <1>9

-----------------------------------------------------------------------------
(***************************************************************************)
(* What a spin means for the properties                                    *)
(***************************************************************************)
\* What no step of the engine does to a halted one, to an order that ended, and to
\* the reservation of an order that works.
Steady(e, f) ==
  /\ e.halt # "Armed" =>
       /\ f.halt = e.halt
       /\ \A s \in Slot : f.slots[s].state \in Started => e.slots[s].state = f.slots[s].state
  /\ \A s \in Slot :
       e.slots[s].state \in Closed =>
         \/ f.slots[s].state = e.slots[s].state
         \/ f.slots[s] = EmptySlot
         \/ f.slots[s].state \in {"PendingNew", "Rejected"} /\ f.slots[s].filled = 0
         \/ f.slots[s].state = "Unknown"
  /\ f.holds = e.holds

Guards(e, f) ==
  \A s \in Slot : Mints(e, f, s) => e.halt = "Armed" /\ IsReady(e) /\ WellMinted(f, s)

\* The orders that work keep what they reserve.
Keeps(e, f) ==
  \A s \in Slot : (Mints(e, f, s) \/ e.slots[s].reserved > 0) /\ f.slots[s].state \in Working
                    => f.slots[s].reserved > 0

\* A free slot claims nothing.
FreeIsBare(e) == \A s \in Slot : e.slots[s].state = "Free" => e.slots[s].reserved = 0

\* A calm pass followed by an acting one has every property a spin should have.
LEMMA SpinMeans ==
  ASSUME NEW e \in Engines, NEW c \in Engines, NEW f \in Engines, Calm(e, c), Acts(c, f)
  PROVE  /\ Steady(e, f) /\ Guards(e, f) /\ Keeps(e, f)
         /\ FreeIsBare(e) => FreeIsBare(f)
         /\ Within(e) => Within(f)
         /\ Covered(e) => Covered(f)
<1>1. \A s \in Slot : Calms(e.slots[s], c.slots[s]) /\ ActsOn(c.slots[s], f.slots[s])
  BY DEF Calm, Acts
<1>2. SameAccount(e, c) /\ Latched(e, c) /\ Latched(c, f) /\ c.reserved = e.reserved /\ f.holds = c.holds
  BY DEF Calm, Acts, SameAccount
<1>3. EmptySlot.state = "Free" /\ EmptySlot.reserved = 0
  BY DEF EmptySlot
<1>4. ASSUME e.halt # "Armed", NEW s \in Slot, f.slots[s].state \in Started
      PROVE  f.halt = e.halt /\ e.slots[s].state = f.slots[s].state
  <2>1. c.halt = e.halt /\ f.halt = e.halt
    BY <1>2, <1>4 DEF Latched
  <2>2. c.slots[s].state = f.slots[s].state
    BY <1>4, <2>1 DEF Acts
  <2>3. e.slots[s].state = c.slots[s].state
    BY <1>1, <1>4, <2>2 DEF Calms, Started
  <2> QED BY <2>1, <2>2, <2>3
<1>5. ASSUME NEW s \in Slot, e.slots[s].state \in Closed
      PROVE  \/ f.slots[s].state = e.slots[s].state
             \/ f.slots[s] = EmptySlot
             \/ f.slots[s].state \in {"PendingNew", "Rejected"} /\ f.slots[s].filled = 0
  <2>1. c.slots[s] = e.slots[s] \/ c.slots[s] = EmptySlot
    BY <1>1, <1>5 DEF Calms
  <2>2. c.slots[s].state \in Closed \cup {"Free", "PendingNew"}
    BY <1>3, <1>5, <2>1
  <2>3. f.slots[s] = c.slots[s] \/ Fresh(f.slots[s])
    BY <1>1, <2>2 DEF ActsOn
  <2> QED BY <2>1, <2>3 DEF Fresh
<1>6. e.halt # "Armed" => f.halt = e.halt
  BY <1>2 DEF Latched
<1>7. Steady(e, f)
  BY <1>2, <1>4, <1>5, <1>6 DEF Steady, SameAccount
<1>8. ASSUME NEW s \in Slot, Mints(e, f, s)
      PROVE  /\ e.halt = "Armed" /\ IsReady(e) /\ WellMinted(f, s)
             /\ Mints(c, f, s)
  <2>1. Mints(c, f, s)
    BY <1>1, <1>8 DEF Mints, Calms
  <2>2. c.halt = "Armed" /\ IsReady(c) /\ WellMinted(f, s)
    BY <2>1 DEF Acts
  <2> QED BY <1>2, <2>1, <2>2 DEF Latched, IsReady, SameAccount
<1>9. ASSUME NEW s \in Slot, Mints(e, f, s) \/ e.slots[s].reserved > 0, f.slots[s].state \in Working
      PROVE  f.slots[s].reserved > 0
  <2>1. \/ f.slots[s].reserved > 0
        \/ /\ c.slots[s].state \in Working /\ f.slots[s].reserved = c.slots[s].reserved
           /\ f.slots[s].state = "PendingNew" => c.slots[s].state = "PendingNew"
    BY <1>1, <1>9 DEF ActsOn
  <2>2. CASE Mints(e, f, s)
    BY <1>8, <2>1, <2>2 DEF Mints
  <2>3. CASE e.slots[s].reserved > 0
    BY <1>1, <2>1, <2>3 DEF Calms
  <2> QED BY <1>9, <2>2, <2>3
<1>10. ASSUME Within(e) PROVE Within(f)
  <2> SUFFICES ASSUME NEW side \in Sides PROVE PossiblyLive(c, side) <= MaxOrders
    BY DEF Within, Acts
  <2>1. PossiblyLive(c, side) <= PossiblyLive(e, side)
    BY <1>1, SideSplit, LiveShrinks DEF Calms
  <2> QED BY <1>10, <2>1, LiveTyped, EngineAssumption DEF Within
<1>11. ASSUME Covered(e) PROVE Covered(f)
  <2> SUFFICES ASSUME NEW side \in Sides PROVE c.reserved[side] >= Held(c, side)
    BY DEF Covered, Acts
  <2>1. Held(c, side) <= Held(e, side)
    BY <1>1, SideSplit, HeldShrinks DEF Calms
  <2>2. e.reserved[side] >= Held(e, side) /\ e.reserved[side] \in Int
    BY <1>11 DEF Covered, Engines
  <2> QED BY <1>2, <2>1, <2>2, HeldTyped
<1>12. ASSUME FreeIsBare(e), NEW s \in Slot, f.slots[s].state = "Free"
       PROVE  f.slots[s].reserved = 0
  <2>1. f.slots[s] = c.slots[s] \/ f.slots[s] = EmptySlot
    BY <1>1, <1>12 DEF ActsOn, Fresh
  <2>2. c.slots[s].state = "Free" => c.slots[s] = e.slots[s] \/ c.slots[s] = EmptySlot
    BY <1>1 DEF Calms
  <2> QED BY <1>3, <1>12, <2>1, <2>2 DEF FreeIsBare
<1>13. FreeIsBare(e) => FreeIsBare(f)
  BY <1>12 DEF FreeIsBare
<1> QED BY <1>7, <1>8, <1>9, <1>10, <1>11, <1>13 DEF Guards, Keeps

-----------------------------------------------------------------------------
(***************************************************************************)
(* What an event means for the slot it names                               *)
(***************************************************************************)
IsEvent(ev) ==
  /\ ev.kind \in OrderKinds /\ ev.reject \in RejectClass \cup {"none"}
  /\ ev.status \in EndStatus \cup OpenStatus
  /\ ev.cum \in Nat /\ ev.qty \in Nat /\ ev.recon \in Nat /\ ev.exhausted \in BOOLEAN

\* The transition table: what a report may make of the slot it names.
LEMMA NextStateMeans ==
  ASSUME NEW slot \in SlotRecord, NEW ev, IsEvent(ev), slot.state # "Free",
         NEW state, state = NextState(slot, ev)
  PROVE  /\ state \in State \ {"Free"}
         /\ state \in Started => slot.state = state
         /\ slot.state \in Closed =>
              state = slot.state \/ (state = "Unknown" /\ ev.kind = "SnapshotOrder" /\ ev.status \notin EndStatus)
<1>1. slot.state \in State \ {"Free"}
  BY DEF SlotRecord
<1>2. ev.kind \in OrderKinds
  BY DEF IsEvent
<1> DEFINE Fine(x) == /\ x \in State \ {"Free"}
                      /\ x \in Started => slot.state = x
                      /\ slot.state \in Closed => x = slot.state
<1>3. \A reason \in Closed \cup {"Live", "Unknown"} : Fine(CloseOrKeep(slot.state, reason))
  BY <1>1 DEF CloseOrKeep, State, Working, InFlight, Closed, Started
<1>4. Fine(AfterAck(slot.state)) /\ Fine(KeepWorking(slot.state)) /\ Fine(slot.state)
  BY <1>1 DEF AfterAck, KeepWorking, State, Working, InFlight, Closed, Started
<1>5. Fine(AfterFailure(slot.state, ev.reject))
  <2>1. CASE ev.reject = "StillLive"
    BY <1>1, <2>1 DEF AfterFailure, State, Working, InFlight, Closed, Started
  <2>2. CASE ev.reject # "StillLive"
    <3>1. "Rejected" \in Closed /\ "ReconciledGone" \in Closed
      BY DEF Closed
    <3>2. \E reason \in Closed \cup {"Live", "Unknown"} :
            AfterFailure(slot.state, ev.reject) = CloseOrKeep(slot.state, reason)
      BY <2>2, <3>1 DEF AfterFailure
    <3> HIDE DEF Fine
    <3> QED BY <1>3, <3>2
  <2> QED BY <2>1, <2>2
<1>6. CASE ev.kind = "SnapshotOrder"
  <2>1. state = AfterSnapshot(slot.state, ev.status)
    BY <1>6 DEF NextState
  <2>2. CASE ev.status \in EndStatus
    <3>1. ev.status \in Closed /\ state = CloseOrKeep(slot.state, ev.status)
      BY <2>1, <2>2 DEF AfterSnapshot, EndStatus, Closed
    <3> QED BY <1>3, <3>1
  <2>3. CASE ev.status \notin EndStatus /\ slot.state \in Closed
    <3>1. state = "Unknown"
      BY <2>1, <2>3 DEF AfterSnapshot
    <3> QED BY <1>6, <2>3, <3>1 DEF State, Working, InFlight, Started
  <2>4. CASE ev.status \notin EndStatus /\ slot.state \notin Closed
    <3>1. state = AfterAck(slot.state)
      BY <2>1, <2>4 DEF AfterSnapshot
    <3> QED BY <1>4, <3>1
  <2> QED BY <2>2, <2>3, <2>4
<1>7. CASE ev.kind # "SnapshotOrder"
  <2>1. \/ state \in {AfterAck(slot.state), KeepWorking(slot.state), slot.state}
        \/ state = AfterFailure(slot.state, ev.reject)
        \/ \E reason \in Closed \cup {"Live"} : state = CloseOrKeep(slot.state, reason)
        \/ ev.kind = "PlaceNotSent" /\ slot.state = "PendingNew" /\ state = "Rejected"
        \/ ev.kind = "AmendNotSent" /\ slot.state = "AmendInFlight" /\ state = "Live"
    <3>1. {"Filled", "Canceled", "Expired", "Rejected"} \subseteq Closed
      BY DEF Closed
    <3> QED BY <1>2, <1>7, <3>1 DEF NextState, OrderKinds
  <2>2. CASE ev.kind = "PlaceNotSent" /\ slot.state = "PendingNew" /\ state = "Rejected"
    BY <2>2 DEF State, Closed, Started
  <2>3. CASE ev.kind = "AmendNotSent" /\ slot.state = "AmendInFlight" /\ state = "Live"
    BY <2>3 DEF State, Working, InFlight, Closed, Started
  <2>4. CASE \/ state \in {AfterAck(slot.state), KeepWorking(slot.state), slot.state}
             \/ state = AfterFailure(slot.state, ev.reject)
             \/ \E reason \in Closed \cup {"Live"} : state = CloseOrKeep(slot.state, reason)
    <3>1. Fine(state)
      <4> HIDE DEF Fine
      <4> QED BY <1>3, <1>4, <1>5, <2>4
    <3> QED BY <3>1
  <2> QED BY <2>1, <2>2, <2>3, <2>4
<1> QED BY <1>6, <1>7

\* A report rewrites its slot within bounds and never what it reserves.
LEMMA ApplyMeans ==
  ASSUME NEW slot \in SlotRecord, NEW ev, IsEvent(ev), slot.state # "Free",
         NEW after, after = Apply(slot, ev)
  PROVE  /\ after \in SlotRecord /\ after.reserved = slot.reserved
         /\ after.state = NextState(slot, ev)
<1> DEFINE state  == NextState(slot, ev)
           filled == FoldedFill(slot, ev)
           qty    == NextQty(slot, ev)
           amends == NextAmends(slot, ev)
           seen   == NextSeen(slot, ev)
<1>1. state \in State
  BY NextStateMeans
<1>2. filled \in Nat /\ qty \in Nat /\ seen \in Nat
  BY DEF FoldedFill, NextQty, NextSeen, IsEvent, SlotRecord
<1>3. amends \in 0 .. MaxAmends
  BY EngineAssumption DEF NextAmends, SlotRecord
<1>4. after = [slot EXCEPT !.state = state, !.filled = filled, !.qty = qty, !.amends = amends, !.seen = seen]
  BY DEF Apply
<1> HIDE DEF state, filled, qty, amends, seen
<1>5. after \in SlotRecord /\ after.reserved = slot.reserved /\ after.state = state
  BY <1>1, <1>2, <1>3, <1>4 DEF SlotRecord
<1> QED BY <1>5 DEF state

-----------------------------------------------------------------------------
\* The count of rejections touches no slot; at its limit it halts.
LEMMA OutcomeEffect ==
  ASSUME NEW e \in Engines, NEW ev, IsEvent(ev), NEW state, NEW f, f = RecordOutcome(e, ev, state)
  PROVE  /\ f \in Engines /\ SameAccount(e, f) /\ Latched(e, f)
         /\ f.slots = e.slots /\ f.reserved = e.reserved /\ Costs(e, f, 0)
<1> DEFINE streak  == IF e.streak < MaxRejects THEN e.streak + 1 ELSE e.streak
           counted == [e EXCEPT !.streak = streak]
           cleared == [e EXCEPT !.streak = 0]
<1>1. streak \in 0 .. MaxRejects /\ 0 \in 0 .. MaxRejects
  BY EngineAssumption DEF Engines
<1>2. \/ f = e \/ f = cleared \/ f = Halt(e, "FatalReject")
      \/ f = counted \/ f = Halt(counted, "RejectStreak")
  BY DEF RecordOutcome, IsEvent, RejectClass
<1> HIDE DEF streak
<1>3. \A g \in {e, counted, cleared} :
        /\ g \in Engines /\ SameAccount(e, g) /\ g.halt = e.halt /\ g.slots = e.slots
        /\ g.reserved = e.reserved /\ g.banked = e.banked
  BY <1>1 DEF Engines, SameAccount
<1> HIDE DEF counted, cleared
<1>4. \A g \in {e, counted, cleared} : Costs(e, g, 0)
  BY <1>3, PotTyped, CostsBanked
<1>5. ASSUME NEW g \in {e, counted}, NEW reason \in {"FatalReject", "RejectStreak"}, f = Halt(g, reason)
      PROVE  /\ f \in Engines /\ SameAccount(e, f) /\ Latched(e, f)
             /\ f.slots = e.slots /\ f.reserved = e.reserved /\ Costs(e, f, 0)
  <2>1. reason \in HaltReasons \ {"CommandBankOverflow"}
    BY DEF HaltReasons
  <2>2. /\ f \in Engines /\ SameAccount(g, f) /\ Latched(g, f)
        /\ f.slots = g.slots /\ f.reserved = g.reserved
    BY <1>3, <1>5, <2>1, HaltEffect
  <2>3. Costs(g, f, 0) /\ Costs(e, g, 0)
    BY <1>3, <1>4, <1>5, <2>1, HaltCosts
  <2>4. Costs(e, f, 0 + 0)
    BY <1>3, <2>2, <2>3, CostsOn
  <2> QED BY <1>3, <2>2, <2>4 DEF SameAccount, Latched
<1> QED BY <1>2, <1>3, <1>4, <1>5 DEF Latched

-----------------------------------------------------------------------------
(***************************************************************************)
(* What an event means for the engine                                      *)
(***************************************************************************)
\* Every slot that works worked before, and none waits anew for an answer.
Answers(e, f) ==
  /\ Steady(e, f) /\ \A s \in Slot : ~ Mints(e, f, s)
  /\ FreeIsBare(e) => FreeIsBare(f)
  /\ Covered(e) => Covered(f)
  /\ Roomy(e) => Roomy(f)

\* A release takes off the side no more than the slot held: what is left still covers the rest.
LEMMA FreedCovered ==
  ASSUME NEW e \in Engines, NEW s \in Slot, Covered(e)
  PROVE  Covered(FreeSlot(e, s))
<1> DEFINE f == FreeSlot(e, s)
           mine == SideOf(s)
           r == e.slots[s].reserved
<1>1. /\ f \in Engines /\ f.slots[s] = [e.slots[s] EXCEPT !.reserved = 0]
      /\ \A t \in Slot \ {s} : f.slots[t] = e.slots[t]
      /\ f.reserved[mine] = e.reserved[mine] - r
      /\ \A side \in Sides \ {mine} : f.reserved[side] = e.reserved[side]
  BY FreeEffect
<1>2. f.slots[s].reserved = 0
  BY <1>1, SlotTyped DEF SlotRecord
<1> HIDE DEF f
<1>3. /\ Held(f, mine) = Held(e, mine) + f.slots[s].reserved - r
      /\ \A side \in Sides \ {mine} : Held(f, side) = Held(e, side)
  <2>1. f \in Engines /\ \A t \in Slot \ {s} : f.slots[t].reserved = e.slots[t].reserved
    BY <1>1
  <2> QED BY <2>1, HeldWritten
<1>4. /\ mine \in Sides /\ r \in Nat /\ Held(e, mine) \in Int
      /\ e.reserved[mine] \in Int /\ e.reserved[mine] >= Held(e, mine)
  BY SlotsSplit, SlotTyped, HeldTyped DEF SlotFacts, Engines, Covered
<1>5. \A side \in Sides \ {mine} : e.reserved[side] >= Held(e, side)
  BY DEF Covered
<1> HIDE DEF mine, r
<1>6. f.reserved[mine] >= Held(f, mine)
  BY <1>1, <1>2, <1>3, <1>4
<1>7. \A side \in Sides \ {mine} : f.reserved[side] >= Held(f, side)
  BY <1>1, <1>3, <1>5
<1> QED BY <1>6, <1>7 DEF Covered, f

\* Slots rewritten without touching what they claim.
LEMMA ClaimsKept ==
  ASSUME NEW e \in Engines, NEW f \in Engines, f.reserved = e.reserved,
         \A s \in Slot : f.slots[s].reserved = e.slots[s].reserved, Covered(e)
  PROVE  Covered(f)
<1> SUFFICES ASSUME NEW side \in Sides PROVE f.reserved[side] >= Held(f, side)
  BY DEF Covered
<1>1. \A s \in SideSlots(side) : f.slots[s].reserved <= e.slots[s].reserved
  BY SideSplit, SlotTyped DEF SlotFacts
<1>2. Held(f, side) <= Held(e, side)
  BY <1>1, HeldShrinks
<1>3. e.reserved[side] \in Int /\ e.reserved[side] >= Held(e, side)
  BY DEF Covered, Engines
<1> QED BY <1>2, <1>3, HeldTyped

Unsent(ev) == ev.kind = "PlaceNotSent"

\* A report applied to the slot it names.
LEMMA ApplyAnswers ==
  ASSUME NEW e \in Engines, NEW s \in Slot, NEW ev, IsEvent(ev), e.slots[s].state # "Free",
         NEW f, f = ApplyToSlot(e, s, ev)
  PROVE  /\ f \in Engines /\ Answers(e, f)
         /\ \A t \in Slot \ {s} : f.slots[t] = e.slots[t]
         /\ f.slots[s].state = NextState(e.slots[s], ev)
         /\ ~ e.holds /\ ~ Unsent(ev) => Keeps(e, f)
<1> DEFINE before == e.slots[s]
           after  == Apply(before, ev)
           position == e.position + Signed(SideOf(s), after.filled - before.filled)
           slots  == [e.slots EXCEPT ![s] = after]
           booked == [e EXCEPT !.slots = slots, !.position = position]
           released == IF Unsent(ev) THEN FreeSlot(booked, s) ELSE ReleaseSlot(booked, s)
<1>1. before \in SlotRecord /\ SlotFacts(before)
  BY SlotTyped
<1>2. /\ after \in SlotRecord /\ after.reserved = before.reserved
      /\ after.state = NextState(before, ev)
  BY <1>1, ApplyMeans
<1>3. f = RecordOutcome(released, ev, after.state)
  BY DEF ApplyToSlot, Engines, Unsent
<1>4. position \in Int
  BY <1>1, <1>2 DEF Signed, SlotRecord, Engines
<1> HIDE DEF after, position
<1>5. slots \in [Slot -> SlotRecord] /\ slots[s] = after /\ \A t \in Slot \ {s} : slots[t] = e.slots[t]
  BY <1>2 DEF Engines
<1> HIDE DEF slots
<1>6. /\ booked \in Engines /\ booked.holds = e.holds /\ booked.halt = e.halt
      /\ booked.reserved = e.reserved /\ booked.banked = e.banked /\ booked.slots = slots
  BY <1>4, <1>5 DEF Engines
<1> HIDE DEF booked
<1>7. \A t \in Slot : booked.slots[t].reserved = e.slots[t].reserved
  BY <1>2, <1>5, <1>6
<1>8. /\ released \in Engines /\ released.holds = e.holds /\ released.halt = e.halt
      /\ released.banked = e.banked
      /\ released = booked \/ released = FreeSlot(booked, s)
      /\ released.slots[s].state = after.state
      /\ \A t \in Slot \ {s} : released.slots[t] = e.slots[t]
      /\ ~ e.holds /\ ~ Unsent(ev) /\ after.state \in Working => released = booked
  <2> DEFINE freed == FreeSlot(booked, s)
  <2>1. /\ freed \in Engines /\ freed.holds = booked.holds /\ freed.halt = booked.halt
        /\ freed.banked = booked.banked
        /\ freed.slots[s] = [booked.slots[s] EXCEPT !.reserved = 0]
        /\ \A t \in Slot \ {s} : freed.slots[t] = booked.slots[t]
    BY <1>6, FreeEffect DEF SameAccount
  <2>2. freed.slots[s].state = booked.slots[s].state
    BY <1>2, <1>5, <1>6, <2>1 DEF SlotRecord
  <2>3. released = booked \/ released = freed
    BY DEF ReleaseSlot
  <2>4. ASSUME ~ e.holds, ~ Unsent(ev), after.state \in Working PROVE released = booked
    <3>1. ~ ReleaseDue(booked, booked.slots[s])
      BY <1>5, <1>6, <2>4 DEF ReleaseDue
    <3> QED BY <2>4, <3>1 DEF ReleaseSlot
  <2> HIDE DEF freed, released
  <2> QED BY <1>5, <1>6, <2>1, <2>2, <2>3, <2>4 DEF freed
<1> HIDE DEF released
<1>9. /\ f \in Engines /\ SameAccount(released, f) /\ Latched(released, f)
      /\ f.slots = released.slots /\ f.reserved = released.reserved /\ Costs(released, f, 0)
  BY <1>3, <1>8, OutcomeEffect
<1>10. /\ f.slots[s].state = after.state /\ \A t \in Slot \ {s} : f.slots[t] = e.slots[t]
       /\ f.holds = e.holds /\ (e.halt # "Armed" => f.halt = e.halt)
  BY <1>8, <1>9 DEF SameAccount, Latched
<1>11. /\ after.state # "Free"
       /\ after.state \in Started => before.state = after.state
       /\ before.state \in Closed => after.state = before.state \/ after.state = "Unknown"
  BY <1>1, <1>2, NextStateMeans
<1>12. Steady(e, f)
  <2>1. ASSUME e.halt # "Armed", NEW t \in Slot, f.slots[t].state \in Started
        PROVE  e.slots[t].state = f.slots[t].state
    BY <1>10, <1>11, <2>1
  <2>2. ASSUME NEW t \in Slot, e.slots[t].state \in Closed
        PROVE  f.slots[t].state = e.slots[t].state \/ f.slots[t].state = "Unknown"
    BY <1>10, <1>11, <2>2
  <2> QED BY <1>10, <2>1, <2>2 DEF Steady
<1>13. ASSUME NEW t \in Slot PROVE ~ Mints(e, f, t)
  BY <1>10, <1>11 DEF Mints, Started
<1>14. ASSUME Covered(e) PROVE Covered(f)
  <2>1. Covered(booked)
    BY <1>6, <1>7, <1>14, ClaimsKept
  <2>2. Covered(released)
    BY <1>6, <1>8, <2>1, FreedCovered
  <2> QED BY <1>8, <1>9, <2>2, ClaimsKept
<1>15. ASSUME Roomy(e) PROVE Roomy(f)
  <2>1. Pot(released) = Pot(e) /\ released.halt # "CommandBankOverflow" /\ Pot(e) <= 1
    BY <1>8, <1>15 DEF Pot, Roomy
  <2>2. Pot(released) + 0 <= BankCapacity
    BY <1>8, <2>1, PotTyped, Capacity, SlotsSplit
  <2> QED BY <1>8, <1>9, <2>1, <2>2, PotTyped DEF Costs, Roomy
<1>16. ASSUME ~ e.holds, ~ Unsent(ev) PROVE Keeps(e, f)
  <2> SUFFICES ASSUME NEW t \in Slot, e.slots[t].reserved > 0, f.slots[t].state \in Working
               PROVE  f.slots[t].reserved > 0
    BY <1>13 DEF Keeps
  <2>1. CASE t = s
    <3>1. f.slots = booked.slots
      BY <1>8, <1>9, <1>10, <1>16, <2>1
    <3> QED BY <1>7, <3>1
  <2>2. CASE t # s
    BY <1>10, <2>2
  <2> QED BY <2>1, <2>2
<1>17. FreeIsBare(e) => FreeIsBare(f)
  BY <1>10, <1>11 DEF FreeIsBare
<1> QED BY <1>2, <1>9, <1>10, <1>12, <1>13, <1>14, <1>15, <1>16, <1>17 DEF Answers

-----------------------------------------------------------------------------
HeardFacts(e, f) ==
  /\ f \in Engines /\ SameAccount(e, f) /\ f.halt = e.halt /\ f.slots = e.slots
  /\ f.reserved = e.reserved /\ f.banked = e.banked /\ f.recon = e.recon

\* Word from the venue resets the silence count and nothing else.
LEMMA HeardEffect ==
  ASSUME NEW e \in Engines, NEW f, f = Heard(e)
  PROVE  HeardFacts(e, f)
<1>1. 0 \in 0 .. SilenceSpins
  BY EngineAssumption
<1> QED BY <1>1 DEF Heard, Engines, SameAccount, HeardFacts

\* Slots rewritten by an event that names none: an order that works stays at work or
\* ends, and no claim changes.
Recalled(a, b) ==
  /\ b.state # a.state => a.state \in Working /\ b.state \in {"Unknown", "ReconciledGone"}
  /\ b.reserved = a.reserved

\* Slots recalled without a claim changed.
LEMMA RecalledAnswers ==
  ASSUME NEW e \in Engines, NEW f \in Engines, f.holds = e.holds, f.halt = e.halt,
         f.reserved = e.reserved, f.banked = e.banked,
         \A s \in Slot : Recalled(e.slots[s], f.slots[s])
  PROVE  Answers(e, f) /\ Keeps(e, f) /\ (Within(e) => Within(f))
<1>1. ASSUME NEW s \in Slot
      PROVE  /\ f.slots[s].state \in Started => e.slots[s].state = f.slots[s].state
             /\ e.slots[s].state \in Closed => f.slots[s].state = e.slots[s].state
             /\ ~ Mints(e, f, s)
             /\ f.slots[s].reserved = e.slots[s].reserved
             /\ f.slots[s].state \in Working => e.slots[s].state \in Working
  BY DEF Recalled, Started, Working, InFlight, Closed, Mints
<1>2. Steady(e, f)
  BY <1>1 DEF Steady
<1>3. Keeps(e, f)
  BY <1>1 DEF Keeps
<1>4. Covered(e) => Covered(f)
  BY <1>1, ClaimsKept
<1>5. Roomy(e) => Roomy(f)
  BY DEF Roomy, Pot
<1>6. ASSUME Within(e) PROVE Within(f)
  <2> SUFFICES ASSUME NEW side \in Sides PROVE PossiblyLive(f, side) <= MaxOrders
    BY DEF Within
  <2>1. PossiblyLive(f, side) <= PossiblyLive(e, side)
    BY <1>1, SideSplit, LiveShrinks
  <2> QED BY <1>6, <2>1, LiveTyped, EngineAssumption DEF Within
<1>7. FreeIsBare(e) => FreeIsBare(f)
  BY DEF FreeIsBare, Recalled
<1> QED BY <1>1, <1>2, <1>3, <1>4, <1>5, <1>6, <1>7 DEF Answers

\* A stream that resets leaves every working order in doubt.
LEMMA ResetAnswers ==
  ASSUME NEW e \in Engines, NEW f, f = OnStreamReset(e)
  PROVE  f \in Engines /\ Answers(e, f) /\ Keeps(e, f) /\ (Within(e) => Within(f))
<1> DEFINE h == Heard(e)
           slots == [s \in Slot |-> IF e.slots[s].state \in Working
                                    THEN [e.slots[s] EXCEPT !.state = "Unknown"] ELSE e.slots[s]]
<1>1. HeardFacts(e, h)
  BY HeardEffect
<1>2. f = [h EXCEPT !.streamReady = FALSE, !.hasOpenOrders = FALSE, !.slots = slots]
  BY <1>1 DEF OnStreamReset, HeardFacts
<1>3. "Unknown" \in State
  BY DEF State, Working, InFlight
<1>4. ASSUME NEW s \in Slot PROVE slots[s] \in SlotRecord /\ Recalled(e.slots[s], slots[s])
  <2>1. CASE e.slots[s].state \in Working
    <3>1. slots[s] = [e.slots[s] EXCEPT !.state = "Unknown"]
      BY <2>1
    <3> HIDE DEF slots
    <3> QED BY <1>3, <2>1, <3>1, SlotTyped, StateWritten DEF Recalled
  <2>2. CASE e.slots[s].state \notin Working
    <3>1. slots[s] = e.slots[s]
      BY <2>2
    <3> HIDE DEF slots
    <3> QED BY <3>1, SlotTyped DEF Recalled
  <2> QED BY <2>1, <2>2
<1>5. slots \in [Slot -> SlotRecord]
  BY <1>4
<1> HIDE DEF slots, h
<1>6. /\ f \in Engines /\ f.holds = e.holds /\ f.halt = e.halt /\ f.reserved = e.reserved
      /\ f.banked = e.banked /\ f.slots = slots
  BY <1>1, <1>2, <1>5 DEF Engines, HeardFacts, SameAccount
<1> QED BY <1>4, <1>6, RecalledAnswers

\* A stream that is ready again asks for a snapshot; no slot changes.
LEMMA ReadyAnswers ==
  ASSUME NEW e \in Engines, NEW f, f = OnStreamReady(e)
  PROVE  f \in Engines /\ Answers(e, f) /\ Keeps(e, f) /\ (Within(e) => Within(f))
<1> DEFINE h == Heard(e)
<1>1. HeardFacts(e, h)
  BY HeardEffect
<1>2. f = [h EXCEPT !.streamReady = TRUE]
  BY DEF OnStreamReady
<1> HIDE DEF h
<1>3. /\ f \in Engines /\ f.holds = e.holds /\ f.halt = e.halt /\ f.reserved = e.reserved
      /\ f.banked = e.banked /\ f.slots = e.slots
  BY <1>1, <1>2 DEF Engines, HeardFacts, SameAccount
<1> QED BY <1>3, RecalledAnswers DEF Recalled

\* The end of a snapshot ends the orders it did not name, those placed since it was asked for spared.
LEMMA SnapshotAnswers ==
  ASSUME NEW e \in Engines, NEW recon \in Nat, NEW f, f = OnSnapshotEnd(e, recon)
  PROVE  /\ f \in Engines /\ Answers(e, f) /\ Keeps(e, f) /\ (Within(e) => Within(f))
         /\ \A s \in Slot : e.slots[s].placed >= recon => f.slots[s].state = e.slots[s].state
<1> DEFINE h == Heard(e)
           slots == [s \in Slot |-> IF IsUnseen(e.slots[s], recon)
                                    THEN [e.slots[s] EXCEPT !.state = "ReconciledGone"] ELSE e.slots[s]]
<1>1. HeardFacts(e, h)
  BY HeardEffect
<1>2. f = [h EXCEPT !.hasOpenOrders = TRUE, !.slots = slots]
  BY <1>1 DEF OnSnapshotEnd, HeardFacts
<1>3. "ReconciledGone" \in State
  BY DEF State, Closed
<1>4. ASSUME NEW s \in Slot
      PROVE  /\ slots[s] \in SlotRecord /\ Recalled(e.slots[s], slots[s])
             /\ e.slots[s].placed >= recon => slots[s].state = e.slots[s].state
  <2>1. CASE IsUnseen(e.slots[s], recon)
    <3>1. slots[s] = [e.slots[s] EXCEPT !.state = "ReconciledGone"]
      BY <2>1
    <3>2. e.slots[s].state \in Working /\ ~ (e.slots[s].placed >= recon)
      BY <2>1, SlotTyped DEF IsUnseen, SlotFacts
    <3> HIDE DEF slots
    <3> QED BY <1>3, <3>1, <3>2, SlotTyped, StateWritten DEF Recalled
  <2>2. CASE ~ IsUnseen(e.slots[s], recon)
    <3>1. slots[s] = e.slots[s]
      BY <2>2
    <3> HIDE DEF slots
    <3> QED BY <3>1, SlotTyped DEF Recalled
  <2> QED BY <2>1, <2>2
<1>5. slots \in [Slot -> SlotRecord]
  BY <1>4
<1> HIDE DEF slots, h
<1>6. /\ f \in Engines /\ f.holds = e.holds /\ f.halt = e.halt /\ f.reserved = e.reserved
      /\ f.banked = e.banked /\ f.slots = slots
  BY <1>1, <1>2, <1>5 DEF Engines, HeardFacts, SameAccount
<1> QED BY <1>4, <1>6, RecalledAnswers

-----------------------------------------------------------------------------
\* A balance update frees a set of slots at once.
LEMMA ReleasesMeans ==
  ASSUME NEW e \in Engines, NEW f, f = RetryReleases(e)
  PROVE  /\ f \in Engines /\ f.holds = e.holds /\ f.halt = e.halt /\ f.banked = e.banked
         /\ \A s \in Slot : /\ f.slots[s].state = e.slots[s].state
                            /\ f.slots[s].reserved = IF ReleaseDue(e, e.slots[s]) THEN 0
                                                     ELSE e.slots[s].reserved
         /\ Covered(e) => Covered(f)
<1> DEFINE due == {s \in Slot : ReleaseDue(e, e.slots[s])}
           freed(side) == SumFunctionOnSet(Holdings(e), due \cap SideSlots(side))
           reserved == [side \in Sides |-> e.reserved[side] - freed(side)]
           slots == [s \in Slot |-> IF s \in due THEN [e.slots[s] EXCEPT !.reserved = 0] ELSE e.slots[s]]
<1>1. f = [e EXCEPT !.reserved = reserved, !.slots = slots]
  BY DEF RetryReleases
<1>2. \A side \in Sides : freed(side) \in Int
  <2> TAKE side \in Sides
  <2>1. due \cap SideSlots(side) \subseteq SideSlots(side) /\ IsFiniteSet(due \cap SideSlots(side))
    BY SideSplit, FS_Subset
  <2>2. \A s \in due \cap SideSlots(side) : Holdings(e)[s] \in Int
    BY HeldTyped, SideSplit
  <2> HIDE DEF due
  <2> QED BY <2>1, <2>2, SumTyped
<1>3. ASSUME NEW s \in Slot
      PROVE  /\ slots[s] \in SlotRecord /\ slots[s].state = e.slots[s].state
             /\ slots[s].reserved = IF s \in due THEN 0 ELSE e.slots[s].reserved
  <2> HIDE DEF due
  <2>1. CASE s \in due
    <3>1. slots[s] = [e.slots[s] EXCEPT !.reserved = 0]
      BY <2>1
    <3> HIDE DEF slots
    <3> QED BY <2>1, <3>1, SlotTyped DEF SlotRecord
  <2>2. CASE s \notin due
    BY <2>2, SlotTyped
  <2> QED BY <2>1, <2>2
<1>4. slots \in [Slot -> SlotRecord]
  BY <1>3
<1>5. reserved \in [Sides -> Int] /\ \A side \in Sides : reserved[side] = e.reserved[side] - freed(side)
  <2> HIDE DEF freed
  <2> QED BY <1>2 DEF Engines
<1> HIDE DEF slots, reserved, freed
<1>6. /\ f \in Engines /\ f.holds = e.holds /\ f.halt = e.halt /\ f.banked = e.banked
      /\ f.slots = slots /\ f.reserved = reserved
  BY <1>1, <1>4, <1>5 DEF Engines
<1>7. ASSUME Covered(e), NEW side \in Sides PROVE f.reserved[side] >= Held(f, side)
  <2>1. \A s \in SideSlots(side) :
          Holdings(e)[s] \in Int /\ Holdings(f)[s] = IF s \in due THEN 0 ELSE Holdings(e)[s]
    BY <1>3, <1>6, HeldTyped, SideSplit
  <2> HIDE DEF due
  <2>2. Held(f, side) = Held(e, side) - freed(side)
    BY <2>1, SideSplit, SumClears DEF Held, freed
  <2>3. e.reserved[side] \in Int /\ e.reserved[side] >= Held(e, side)
    BY <1>7 DEF Covered, Engines
  <2> QED BY <1>2, <1>5, <1>6, <2>2, <2>3, HeldTyped
<1> QED BY <1>3, <1>6, <1>7 DEF Covered

\* A balance update releases what the venue has already settled, each slot once.
LEMMA AccountAnswers ==
  ASSUME NEW e \in Engines, NEW free \in Int, NEW isSnapshot \in BOOLEAN, NEW tick \in {0, 1},
         NEW f, f = OnAccount(e, free, isSnapshot, tick)
  PROVE  /\ f \in Engines /\ Answers(e, f) /\ (~ e.holds => Keeps(e, f))
         /\ Within(e) => Within(f)
<1> DEFINE balances == [side \in Sides |-> free]
           watermark == e.watermark + tick
           hasBalances == e.hasBalances \/ isSnapshot
           g == [e EXCEPT !.free = balances, !.watermark = watermark, !.hasBalances = hasBalances]
<1>1. f = RetryReleases(g)
  BY DEF OnAccount
<1>2. balances \in [Sides -> Int] /\ watermark \in Nat /\ hasBalances \in BOOLEAN
  BY DEF Engines
<1> HIDE DEF balances, watermark, hasBalances
<1>3. /\ g \in Engines /\ g.holds = e.holds /\ g.halt = e.halt /\ g.banked = e.banked
      /\ g.slots = e.slots /\ g.reserved = e.reserved
  BY <1>2 DEF Engines
<1> HIDE DEF g
<1>4. /\ f \in Engines /\ f.holds = e.holds /\ f.halt = e.halt /\ f.banked = e.banked
      /\ \A s \in Slot : /\ f.slots[s].state = e.slots[s].state
                         /\ f.slots[s].reserved = IF ReleaseDue(g, e.slots[s]) THEN 0
                                                  ELSE e.slots[s].reserved
      /\ Covered(g) => Covered(f)
  BY <1>1, <1>3, ReleasesMeans
<1>5. Covered(e) => Covered(f)
  BY <1>3, <1>4, ClaimsKept
<1>6. Steady(e, f) /\ \A s \in Slot : ~ Mints(e, f, s)
  BY <1>4 DEF Steady, Mints
<1>7. ASSUME ~ e.holds PROVE Keeps(e, f)
  <2> SUFFICES ASSUME NEW s \in Slot, e.slots[s].reserved > 0, f.slots[s].state \in Working
               PROVE  f.slots[s].reserved > 0
    BY <1>6 DEF Keeps
  <2>1. ~ ReleaseDue(g, e.slots[s])
    BY <1>3, <1>4, <1>7 DEF ReleaseDue
  <2> QED BY <1>4, <2>1
<1>8. Roomy(e) => Roomy(f)
  BY <1>4 DEF Roomy, Pot
<1>9. Within(e) => Within(f)
  <2> SUFFICES ASSUME Within(e), NEW side \in Sides PROVE PossiblyLive(f, side) <= MaxOrders
    BY DEF Within
  <2>1. PossiblyLive(f, side) <= PossiblyLive(e, side)
    BY <1>4, SideSplit, LiveShrinks
  <2> QED BY <2>1, LiveTyped, EngineAssumption DEF Within
<1>10. FreeIsBare(e) => FreeIsBare(f)
  BY <1>4 DEF FreeIsBare
<1> QED BY <1>4, <1>5, <1>6, <1>7, <1>8, <1>9, <1>10 DEF Answers

-----------------------------------------------------------------------------
(***************************************************************************)
(* A report on one order                                                   *)
(***************************************************************************)
\* A slot adopted from a snapshot works, in doubt, and claims nothing.
LEMMA AdoptEffect ==
  ASSUME NEW e \in Engines, NEW s \in Slot, NEW ev, IsEvent(ev), NEW f, f = Adopt(e, s, ev)
  PROVE  /\ f \in Engines /\ f.holds = e.holds /\ f.halt = e.halt /\ f.banked = e.banked
         /\ f.reserved = e.reserved
         /\ f.slots[s].state = "Unknown" /\ f.slots[s].reserved = 0
         /\ \A t \in Slot \ {s} : f.slots[t] = e.slots[t]
<1> DEFINE slot  == [EmptySlot EXCEPT !.state = "Unknown", !.qty = ev.qty, !.placed = ev.recon]
           slots == [e.slots EXCEPT ![s] = slot]
<1>1. slot \in SlotRecord /\ slot.state = "Unknown" /\ slot.reserved = 0
  <2>1. EmptySlot \in SlotRecord /\ EmptySlot.reserved = 0
    BY EmptyTyped DEF EmptySlot
  <2>2. "Unknown" \in State /\ ev.qty \in Nat /\ ev.recon \in Nat
    BY DEF State, Working, InFlight, IsEvent
  <2> QED BY <2>1, <2>2 DEF SlotRecord
<1>2. f = [e EXCEPT !.slots = slots]
  BY DEF Adopt, Engines
<1> HIDE DEF slot
<1>3. slots \in [Slot -> SlotRecord] /\ slots[s] = slot /\ \A t \in Slot \ {s} : slots[t] = e.slots[t]
  BY <1>1 DEF Engines
<1> HIDE DEF slots
<1>4. /\ f \in Engines /\ f.holds = e.holds /\ f.halt = e.halt /\ f.banked = e.banked
      /\ f.reserved = e.reserved /\ f.slots = slots
  BY <1>2, <1>3 DEF Engines
<1> QED BY <1>1, <1>3, <1>4

\* A snapshot that names an order as open when its slot has ended or is free.
Reopens(slot, ev) == ev.kind = "SnapshotOrder" /\ ev.status \notin EndStatus /\ slot.state \notin Working

\* A report on one order, whether its slot still works, has ended or is free.
LEMMA OrderAnswers ==
  ASSUME NEW e \in Engines, NEW s \in Slot, NEW ev, IsEvent(ev), NEW f, f = OnOrderEvent(e, s, ev)
  PROVE  /\ f \in Engines /\ Answers(e, f)
         /\ ~ Reopens(e.slots[s], ev) => (Within(e) => Within(f))
         /\ ~ e.holds /\ ~ Unsent(ev) /\ FreeIsBare(e) => Keeps(e, f)
         /\ \A t \in Slot \ {s} : f.slots[t] = e.slots[t]
<1> DEFINE h == Heard(e)
<1>1. HeardFacts(e, h)
  BY HeardEffect
<1>2. f = IF e.slots[s].state # "Free" THEN ApplyToSlot(h, s, ev)
          ELSE IF ev.kind = "SnapshotOrder" THEN ApplyToSlot(Adopt(h, s, ev), s, ev) ELSE h
  BY DEF OnOrderEvent
<1> HIDE DEF h
<1>3. h \in Engines /\ h.slots = e.slots /\ h.holds = e.holds /\ h.halt = e.halt /\ h.banked = e.banked
      /\ h.reserved = e.reserved
  BY <1>1 DEF HeardFacts, SameAccount
<1>4. ASSUME NEW g \in Engines, Answers(h, g) PROVE Answers(e, g)
  <2>1. (Covered(e) => Covered(h)) /\ (FreeIsBare(e) => FreeIsBare(h))
    BY <1>3, ClaimsKept DEF FreeIsBare
  <2>2. Roomy(e) => Roomy(h)
    BY <1>3 DEF Roomy, Pot
  <2>3. Steady(e, g) /\ \A t \in Slot : ~ Mints(e, g, t)
    BY <1>3, <1>4 DEF Answers, Steady, Mints
  <2> QED BY <1>4, <2>1, <2>2, <2>3 DEF Answers
<1>5. ASSUME f \in Engines, \A t \in Slot \ {s} : f.slots[t] = e.slots[t],
             f.slots[s].state \in Working => e.slots[s].state \in Working, Within(e)
      PROVE  Within(f)
  <2> SUFFICES ASSUME NEW side \in Sides PROVE PossiblyLive(f, side) <= MaxOrders
    BY DEF Within
  <2>1. \A t \in SideSlots(side) : f.slots[t].state \in Working => e.slots[t].state \in Working
    BY <1>5, SideSplit
  <2>2. PossiblyLive(f, side) <= PossiblyLive(e, side)
    BY <2>1, LiveShrinks
  <2> QED BY <1>5, <2>2, LiveTyped, EngineAssumption DEF Within
<1>6. CASE e.slots[s].state # "Free"
  <2>1. /\ f \in Engines /\ Answers(h, f)
        /\ \A t \in Slot \ {s} : f.slots[t] = h.slots[t]
        /\ f.slots[s].state = NextState(h.slots[s], ev)
        /\ ~ h.holds /\ ~ Unsent(ev) => Keeps(h, f)
    BY <1>2, <1>3, <1>6, ApplyAnswers
  <2>2. ASSUME ~ Reopens(e.slots[s], ev), f.slots[s].state \in Working
        PROVE  e.slots[s].state \in Working
    <3>1. e.slots[s] \in SlotRecord /\ e.slots[s].state \in Working \cup Closed
      BY <1>6, SlotTyped DEF SlotFacts, State
    <3>2. e.slots[s].state \notin Closed
      <4> SUFFICES ASSUME e.slots[s].state \in Closed PROVE FALSE
        OBVIOUS
      <4>1. f.slots[s].state = e.slots[s].state \/ (ev.kind = "SnapshotOrder" /\ ev.status \notin EndStatus)
        BY <1>3, <1>6, <2>1, <3>1, NextStateMeans
      <4> QED BY <2>2, <4>1 DEF Reopens, Working, InFlight, Closed
    <3> QED BY <3>1, <3>2
  <2>3. ~ e.holds /\ ~ Unsent(ev) => Keeps(e, f)
    BY <1>3, <2>1 DEF Keeps, Mints
  <2> QED BY <1>3, <1>4, <1>5, <2>1, <2>2, <2>3
<1>7. CASE e.slots[s].state = "Free" /\ ev.kind # "SnapshotOrder"
  <2>1. f = h
    BY <1>2, <1>7
  <2>2. \A t \in Slot : Recalled(h.slots[t], f.slots[t])
    BY <2>1 DEF Recalled
  <2>3. Answers(h, f) /\ Keeps(h, f) /\ (Within(h) => Within(f))
    BY <1>3, <2>1, <2>2, RecalledAnswers
  <2>4. Keeps(e, f)
    BY <1>3, <2>3 DEF Keeps, Mints
  <2>5. Within(e) => Within(f)
    BY <1>3, <2>1, <1>5
  <2> QED BY <1>3, <1>4, <2>1, <2>3, <2>4, <2>5
<1>8. CASE e.slots[s].state = "Free" /\ ev.kind = "SnapshotOrder"
  <2> DEFINE a == Adopt(h, s, ev)
  <2>1. f = ApplyToSlot(a, s, ev)
    BY <1>2, <1>8
  <2>2. /\ a \in Engines /\ a.holds = h.holds /\ a.halt = h.halt /\ a.banked = h.banked
        /\ a.reserved = h.reserved
        /\ a.slots[s].state = "Unknown" /\ a.slots[s].reserved = 0
        /\ \A t \in Slot \ {s} : a.slots[t] = h.slots[t]
    BY <1>3, AdoptEffect
  <2> HIDE DEF a
  <2>3. /\ f \in Engines /\ Answers(a, f)
        /\ \A t \in Slot \ {s} : f.slots[t] = a.slots[t]
        /\ f.slots[s].state = NextState(a.slots[s], ev)
        /\ ~ a.holds /\ ~ Unsent(ev) => Keeps(a, f)
    BY <2>1, <2>2, ApplyAnswers
  <2>4. f.slots[s].state \notin Started
    BY <2>2, <2>3, SlotTyped, NextStateMeans DEF Started
  <2>5. Steady(h, f)
    <3>1. ASSUME h.halt # "Armed", NEW t \in Slot, f.slots[t].state \in Started
          PROVE  h.slots[t].state = f.slots[t].state
      BY <2>2, <2>3, <2>4, <3>1
    <3>2. ASSUME NEW t \in Slot, h.slots[t].state \in Closed
          PROVE  f.slots[t].state = h.slots[t].state
      <4>1. t # s
        BY <1>3, <1>8, <3>2 DEF Closed
      <4> QED BY <2>2, <2>3, <4>1
    <3>3. f.holds = h.holds /\ (h.halt # "Armed" => f.halt = h.halt)
      BY <2>2, <2>3 DEF Answers, Steady
    <3> QED BY <3>1, <3>2, <3>3 DEF Steady
  <2>6. ASSUME NEW t \in Slot PROVE ~ Mints(h, f, t)
    BY <2>2, <2>3, <2>4 DEF Mints, Started
  <2>7. ASSUME Covered(h) PROVE Covered(a)
    <3> SUFFICES ASSUME NEW side \in Sides PROVE a.reserved[side] >= Held(a, side)
      BY DEF Covered
    <3>1. \A t \in SideSlots(side) : a.slots[t].reserved <= h.slots[t].reserved
      <4> TAKE t \in SideSlots(side)
      <4>1. h.slots[t].reserved \in Nat /\ t \in Slot
        BY <1>3, SideSplit, SlotTyped DEF SlotFacts
      <4>2. a.slots[t].reserved = h.slots[t].reserved \/ a.slots[t].reserved = 0
        BY <2>2, <4>1
      <4> QED BY <4>1, <4>2
    <3>2. Held(a, side) <= Held(h, side)
      BY <1>3, <2>2, <3>1, HeldShrinks
    <3>3. h.reserved[side] \in Int /\ h.reserved[side] >= Held(h, side)
      BY <1>3, <2>7 DEF Covered, Engines
    <3> QED BY <1>3, <2>2, <3>2, <3>3, HeldTyped
  <2>8. Roomy(h) => Roomy(a)
    BY <2>2 DEF Roomy, Pot
  <2>9. Answers(h, f)
    <3>1. FreeIsBare(h) => FreeIsBare(a)
      BY <2>2 DEF FreeIsBare
    <3> QED BY <2>3, <2>5, <2>6, <2>7, <2>8, <3>1 DEF Answers
  <2>10. ASSUME ~ e.holds, ~ Unsent(ev), FreeIsBare(e) PROVE Keeps(e, f)
    <3>1. \A t \in Slot : ~ Mints(e, f, t)
      BY <1>3, <2>6 DEF Mints
    <3>2. Keeps(a, f)
      BY <1>3, <2>2, <2>3, <2>10
    <3>3. e.slots[s].reserved = 0
      BY <1>8, <2>10 DEF FreeIsBare
    <3> QED BY <1>3, <2>2, <3>1, <3>2, <3>3, SlotTyped DEF Keeps, SlotFacts
  <2>11. ~ Reopens(e.slots[s], ev) => f.slots[s].state \notin Working
    <3> SUFFICES ASSUME ~ Reopens(e.slots[s], ev) PROVE f.slots[s].state \notin Working
      OBVIOUS
    <3>1. ev.status \in EndStatus
      BY <1>8 DEF Reopens, Working, InFlight
    <3>2. f.slots[s].state = ev.status
      BY <1>8, <2>2, <2>3, <3>1 DEF NextState, AfterSnapshot, CloseOrKeep, Closed
    <3> QED BY <3>1, <3>2 DEF EndStatus, Working, InFlight
  <2> QED BY <1>3, <1>4, <1>5, <2>2, <2>3, <2>9, <2>10, <2>11
<1> QED BY <1>6, <1>7, <1>8

-----------------------------------------------------------------------------
(***************************************************************************)
(* The steps                                                               *)
(***************************************************************************)
\* Every input of a spin is one its passes expect.
LEMMA InputsFit ==
  ASSUME engine \in Engines, NEW in \in SpinInputs
  PROVE  FitsSpin(engine, in)
<1> DEFINE closed   == {s \in Slot : engine.slots[s].state \in Closed}
           inFlight == {s \in Slot : engine.slots[s].state \in InFlight}
           quotes   == engine.halt = "Armed" /\ IsReady(engine)
           choices  == IF quotes THEN [QuotedSides -> [Level -> Wants \cup {NoQuote}]]
                       ELSE {[side \in QuotedSides |-> [l \in Level |-> NoQuote]]}
<1>1. /\ in.reap \in SUBSET closed /\ in.late \in SUBSET inFlight
      /\ in.flatten \in FlattenQtys /\ in.lane \in LaneRooms
      /\ in.wants \in {WantsMade(choice) : choice \in choices}
  BY DEF SpinInputs
<1>2. /\ \A s \in in.reap : engine.slots[s].state \in Closed
      /\ in.late \in SUBSET Slot /\ \A s \in in.late : engine.slots[s].state \in InFlight
  BY <1>1
<1>3. in.flatten \in Nat
  BY <1>1, EngineAssumption
<1>4. PICK choice \in choices : in.wants = WantsMade(choice)
  BY <1>1
<1>5. choice \in [QuotedSides -> [Level -> Wants \cup {NoQuote}]]
  BY <1>4
<1> HIDE DEF choices
<1>6. ASSUME NEW side \in Sides, NEW level \in Level, in.wants[side][level].quote
      PROVE  in.wants[side][level].qty \in Nat \ {0}
  <2>1. ~ NoQuote.quote
    BY DEF NoQuote
  <2>2. in.wants[side] = IF side \in QuotedSides THEN choice[side] ELSE [l \in Level |-> NoQuote]
    BY <1>4 DEF WantsMade
  <2>3. side \in QuotedSides
    BY <1>6, <2>1, <2>2
  <2>4. in.wants[side][level] \in Wants \cup {NoQuote}
    BY <1>5, <2>2, <2>3
  <2>5. in.wants[side][level] \in Wants
    BY <1>6, <2>1, <2>4
  <2> QED BY <2>5, EngineAssumption
<1> QED BY <1>1, <1>2, <1>3, <1>6 DEF FitsSpin

\* Every report on a slot's order is well formed.
LEMMA EventsTyped ==
  ASSUME engine \in Engines, NEW s \in Slot, NEW ev \in Events(s)
  PROVE  IsEvent(ev)
<1> DEFINE slot == engine.slots[s]
           fill == 0 .. slot.qty
           Answer(kinds, classes) ==
             [kind : kinds, reject : classes, status : {"none"}, cum : {0}, qty : {0},
              recon : {0}, exhausted : {FALSE}]
           Report(kinds, statuses, qtys, recons) ==
             [kind : kinds, reject : {"none"}, status : statuses, cum : fill, qty : qtys,
              recon : recons, exhausted : {FALSE}]
<1>1. slot.qty \in Nat /\ engine.recon \in Nat
  BY SlotTyped DEF SlotFacts, Engines
<1>2. \/ ev \in Answer({"AckPlaced", "ReportNew", "AmendNotSent"}, {"none"})
      \/ ev \in Answer({"PlaceNotSent"}, {"none"})
      \/ ev \in Answer({"AckFailed"}, RejectClass)
      \/ ev \in Report({"ReportTrade"}, {"Open", "Filled"}, {0}, {0})
      \/ ev \in Report({"ReportCanceled", "AckCanceled", "ReportExpired", "ReportRejected"}, {"none"}, {0}, {0})
      \/ ev \in Report({"SnapshotOrder"}, {"Open"} \cup EndStatus, {slot.qty}, 0 .. engine.recon)
      \/ ev \in [kind : {"AckAmended", "ReportAmended"}, reject : {"none"}, status : {"none"}, cum : fill,
                 qty : 0 .. slot.qty, recon : {0}, exhausted : BOOLEAN]
  BY DEF Events
<1>3. \A x \in fill : x \in Nat
  BY <1>1
<1>4. \A x \in 0 .. engine.recon : x \in Nat
  BY <1>1
<1> HIDE DEF slot, fill
<1>5. CASE \/ ev \in Answer({"AckPlaced", "ReportNew", "AmendNotSent"}, {"none"})
           \/ ev \in Answer({"PlaceNotSent"}, {"none"})
           \/ ev \in Answer({"AckFailed"}, RejectClass)
  <2>1. /\ ev.kind \in {"AckPlaced", "ReportNew", "AmendNotSent", "PlaceNotSent", "AckFailed"}
        /\ ev.reject \in RejectClass \cup {"none"} /\ ev.status = "none"
        /\ ev.cum = 0 /\ ev.qty = 0 /\ ev.recon = 0 /\ ev.exhausted \in BOOLEAN
    BY <1>5
  <2>2. ev.kind \in OrderKinds
    BY <2>1 DEF OrderKinds
  <2>3. ev.status \in EndStatus \cup OpenStatus
    BY <2>1 DEF OpenStatus
  <2>4. ev.cum \in Nat /\ ev.qty \in Nat /\ ev.recon \in Nat /\ ev.exhausted \in BOOLEAN
    BY <2>1
  <2> QED BY <2>1, <2>2, <2>3, <2>4 DEF IsEvent
<1>6. CASE \/ ev \in Report({"ReportTrade"}, {"Open", "Filled"}, {0}, {0})
           \/ ev \in Report({"ReportCanceled", "AckCanceled", "ReportExpired", "ReportRejected"}, {"none"}, {0}, {0})
  <2>1. /\ ev.kind \in {"ReportTrade", "ReportCanceled", "AckCanceled", "ReportExpired", "ReportRejected"}
        /\ ev.reject = "none" /\ ev.status \in {"Open", "Filled", "none"} /\ ev.cum \in fill
        /\ ev.qty = 0 /\ ev.recon = 0 /\ ev.exhausted \in BOOLEAN
    BY <1>6
  <2>2. ev.kind \in OrderKinds
    BY <2>1 DEF OrderKinds
  <2>3. ev.status \in EndStatus \cup OpenStatus
    BY <2>1 DEF OpenStatus, EndStatus
  <2>4. ev.cum \in Nat /\ ev.qty \in Nat /\ ev.recon \in Nat /\ ev.exhausted \in BOOLEAN
    BY <1>3, <2>1
  <2> QED BY <2>1, <2>2, <2>3, <2>4 DEF IsEvent
<1>7. CASE ev \in Report({"SnapshotOrder"}, {"Open"} \cup EndStatus, {slot.qty}, 0 .. engine.recon)
  <2>1. /\ ev.kind = "SnapshotOrder" /\ ev.reject = "none" /\ ev.status \in {"Open"} \cup EndStatus
        /\ ev.cum \in fill /\ ev.qty = slot.qty /\ ev.recon \in 0 .. engine.recon /\ ev.exhausted \in BOOLEAN
    BY <1>7
  <2> QED BY <1>1, <1>3, <1>4, <2>1 DEF IsEvent, OrderKinds, OpenStatus
<1>8. CASE ev \in [kind : {"AckAmended", "ReportAmended"}, reject : {"none"}, status : {"none"}, cum : fill,
                   qty : 0 .. slot.qty, recon : {0}, exhausted : BOOLEAN]
  BY <1>1, <1>3, <1>8 DEF IsEvent, OrderKinds, RejectClass, OpenStatus, EndStatus
<1> QED BY <1>2, <1>5, <1>6, <1>7, <1>8

\* So is every late snapshot row.
LEMMA LateTyped ==
  ASSUME engine \in Engines, NEW ev \in LateEvents
  PROVE  IsEvent(ev)
<1>1. \A x \in 0 .. engine.recon : x \in Nat
  BY DEF Engines
<1>2. \A w \in Wants : w.qty \in Nat
  BY EngineAssumption
<1>3. /\ ev.kind = "SnapshotOrder" /\ ev.reject = "none" /\ ev.status \in {"Open"} \cup EndStatus
      /\ ev.cum = 0 /\ ev.qty \in {w.qty : w \in Wants} /\ ev.recon \in 0 .. engine.recon
      /\ ev.exhausted \in BOOLEAN
  BY DEF LateEvents
<1>4. ev.kind \in OrderKinds
  BY <1>3 DEF OrderKinds
<1>5. ev.status \in EndStatus \cup OpenStatus
  BY <1>3 DEF OpenStatus
<1>6. ev.cum \in Nat /\ ev.qty \in Nat /\ ev.recon \in Nat /\ ev.exhausted \in BOOLEAN
  BY <1>1, <1>2, <1>3
<1> QED BY <1>3, <1>4, <1>5, <1>6 DEF IsEvent

\* A snapshot names an order as open whose slot has ended or is free.
Reopened ==
  \E s \in Slot : \E ev \in Events(s) \cup LateEvents :
    Reopens(engine.slots[s], ev) /\ OrderEvent(s, ev)

NothingReopened == [][~ Reopened]_vars

Fates == {"open", "unsent", "known"}

EngineInv ==
  /\ engine \in Engines /\ fate \in [Slot -> Fates]
  /\ FreeIsBare(engine) /\ Covered(engine)

Onward ==
  /\ EngineInv' /\ Steady(engine, engine') /\ Guards(engine, engine')
  /\ ~ Reopened /\ Within(engine) => Within(engine')
  /\ Drains /\ Roomy(engine) => Roomy(engine')
  /\ ~ engine.holds =>
       \A s \in Slot :
         (Minted(s) \/ engine.slots[s].reserved > 0)
           /\ engine'.slots[s].state \in Working /\ fate'[s] # "unsent"
         => engine'.slots[s].reserved > 0

\* A spin keeps the invariant and has the step properties.
LEMMA SpinOnward ==
  ASSUME EngineInv, NEW in \in SpinInputs, Spin(in)
  PROVE  Onward
<1>1. engine \in Engines /\ FitsSpin(engine, in) /\ engine' = OnSpin(engine, in)
  BY InputsFit DEF EngineInv, Spin
<1>2. /\ engine' \in Engines /\ \E c \in Engines : Calm(engine, c) /\ Acts(c, engine')
      /\ Drains /\ Roomy(engine) => Roomy(engine')
  BY <1>1, SpinMade
<1>3. PICK c \in Engines : Calm(engine, c) /\ Acts(c, engine')
  BY <1>2
<1>4. /\ Steady(engine, engine') /\ Guards(engine, engine') /\ Keeps(engine, engine')
      /\ FreeIsBare(engine) => FreeIsBare(engine')
      /\ Within(engine) => Within(engine')
      /\ Covered(engine) => Covered(engine')
  BY <1>1, <1>2, <1>3, SpinMeans
<1>5. fate' \in [Slot -> Fates]
  BY DEF Spin, EngineInv, Fates
<1>6. EngineInv'
  BY <1>2, <1>4, <1>5 DEF EngineInv, FreeIsBare, Covered, Held, Holdings
<1> QED BY <1>2, <1>4, <1>6 DEF Onward, Keeps, Minted, Mints

\* An event that says nothing of one order.
LEMMA AnswersOnward ==
  ASSUME EngineInv, engine' \in Engines, UNCHANGED fate, Answers(engine, engine'),
         ~ engine.holds => Keeps(engine, engine'), Within(engine) => Within(engine')
  PROVE  Onward
<1>1. EngineInv'
  BY DEF EngineInv, Answers, FreeIsBare, Covered, Held, Holdings
<1>2. Guards(engine, engine')
  BY DEF Guards, Answers
<1> QED BY <1>1, <1>2 DEF Onward, Answers, Keeps, Minted, Mints

\* So has a report on one order.
LEMMA OrderOnward ==
  ASSUME EngineInv, NEW s \in Slot, NEW ev \in Events(s) \cup LateEvents, OrderEvent(s, ev)
  PROVE  Onward
<1>1. engine \in Engines /\ IsEvent(ev) /\ engine' = OnOrderEvent(engine, s, ev)
  BY EventsTyped, LateTyped DEF EngineInv, OrderEvent
<1>2. /\ engine' \in Engines /\ Answers(engine, engine')
      /\ ~ Reopens(engine.slots[s], ev) => (Within(engine) => Within(engine'))
      /\ ~ engine.holds /\ ~ Unsent(ev) => Keeps(engine, engine')
      /\ \A t \in Slot \ {s} : engine'.slots[t] = engine.slots[t]
  BY <1>1, OrderAnswers DEF EngineInv
<1>3. fate' \in [Slot -> Fates] /\ (Unsent(ev) => fate'[s] = "unsent")
  BY DEF OrderEvent, EngineInv, Fates, Unsent
<1>4. EngineInv'
  BY <1>2, <1>3 DEF EngineInv, Answers, FreeIsBare, Covered, Held, Holdings
<1>5. Guards(engine, engine')
  BY <1>2 DEF Guards, Answers
<1>6. ~ Reopened => ~ Reopens(engine.slots[s], ev)
  BY DEF Reopened
<1>7. ASSUME ~ engine.holds, NEW t \in Slot, Minted(t) \/ engine.slots[t].reserved > 0,
             engine'.slots[t].state \in Working, fate'[t] # "unsent"
      PROVE  engine'.slots[t].reserved > 0
  <2>1. ~ Minted(t)
    BY <1>2 DEF Answers, Minted, Mints
  <2>2. CASE ~ Unsent(ev)
    BY <1>2, <1>7, <2>2 DEF Keeps, Minted, Mints
  <2>3. CASE Unsent(ev)
    <3>1. t # s
      BY <1>3, <1>7, <2>3
    <3> QED BY <1>2, <1>7, <2>1, <3>1
  <2> QED BY <2>2, <2>3
<1> QED BY <1>2, <1>4, <1>5, <1>6, <1>7 DEF Onward, Answers

\* So has every step.
LEMMA StepsOnward == EngineInv /\ Next => Onward
<1> SUFFICES ASSUME EngineInv, Next PROVE Onward
  OBVIOUS
<1>1. engine \in Engines /\ Slot \cap LateSlots = LateSlots
  BY EngineAssumption DEF EngineInv
<1>2. ASSUME NEW in \in SpinInputs, Spin(in) PROVE Onward
  BY <1>2, SpinOnward
<1>3. ASSUME NEW s \in Slot, NEW ev \in Events(s), OrderEvent(s, ev) PROVE Onward
  BY <1>3, OrderOnward
<1>4. ASSUME NEW s \in LateSlots, NEW ev \in LateEvents, OrderEvent(s, ev) PROVE Onward
  BY <1>1, <1>4, OrderOnward
<1>5. CASE StreamReset
  BY <1>1, <1>5, ResetAnswers, AnswersOnward DEF StreamReset
<1>6. CASE StreamReady
  BY <1>1, <1>6, ReadyAnswers, AnswersOnward DEF StreamReady
<1>7. ASSUME NEW recon \in 0 .. engine.recon, SnapshotEnd(recon) PROVE Onward
  <2>1. recon \in Nat
    BY <1>1 DEF Engines
  <2> QED BY <1>1, <1>7, <2>1, SnapshotAnswers, AnswersOnward DEF SnapshotEnd
<1>8. ASSUME NEW free \in Balances, NEW isSnapshot \in BOOLEAN, NEW tick \in {0, 1},
             Account(free, isSnapshot, tick)
      PROVE  Onward
  <2>1. free \in Int
    BY EngineAssumption
  <2> QED BY <1>1, <1>8, <2>1, AccountAnswers, AnswersOnward DEF Account
<1> QED BY <1>2, <1>3, <1>4, <1>5, <1>6, <1>7, <1>8 DEF Next

\* The engine starts with every slot free and nothing held or banked.
LEMMA StartsSound == Init => EngineInv /\ Within(engine) /\ Roomy(engine)
<1> SUFFICES ASSUME Init PROVE EngineInv /\ Within(engine) /\ Roomy(engine)
  OBVIOUS
<1>1. PICK holds \in Holds :
        engine = [slots |-> [s \in Slot |-> EmptySlot], holds |-> holds,
                  free |-> [side \in Sides |-> 0], reserved |-> [side \in Sides |-> 0],
                  watermark |-> 0, hasBalances |-> FALSE,
                  streamReady |-> FALSE, hasOpenOrders |-> FALSE,
                  halt |-> "Armed", streak |-> 0, recon |-> 0, silent |-> 0,
                  position |-> 0, banked |-> 0]
  BY DEF Init
<1>2. /\ holds \in BOOLEAN /\ 0 \in 0 .. MaxRejects /\ 0 \in 0 .. SilenceSpins /\ 0 \in 0 .. BankCapacity
      /\ [s \in Slot |-> EmptySlot] \in [Slot -> SlotRecord] /\ [side \in Sides |-> 0] \in [Sides -> Int]
  BY EngineAssumption, EmptyTyped, Capacity
<1>3. engine \in Engines
  BY <1>1, <1>2 DEF Engines
<1>4. /\ \A s \in Slot : engine.slots[s] = EmptySlot
      /\ \A side \in Sides : engine.reserved[side] = 0
      /\ engine.halt = "Armed" /\ engine.banked = 0
  BY <1>1
<1>5. EmptySlot.state = "Free" /\ EmptySlot.reserved = 0
  BY DEF EmptySlot
<1>6. fate \in [Slot -> Fates]
  BY DEF Init, Fates
<1>7. FreeIsBare(engine)
  BY <1>4, <1>5 DEF FreeIsBare
<1>8. Covered(engine)
  <2> SUFFICES ASSUME NEW side \in Sides PROVE engine.reserved[side] >= Held(engine, side)
    BY DEF Covered
  <2> DEFINE none == [s \in Slot |-> 0]
  <2>1. \A s \in SideSlots(side) : Holdings(engine)[s] = 0
    BY <1>4, <1>5, SideSplit DEF Holdings
  <2>2. Held(engine, side) = Held(engine, side) - Held(engine, side)
    <3>1. \A s \in SideSlots(side) :
            /\ Holdings(engine)[s] \in Int
            /\ Holdings(engine)[s] = IF s \in SideSlots(side) THEN 0 ELSE Holdings(engine)[s]
      BY <2>1
    <3>2. SideSlots(side) \cap SideSlots(side) = SideSlots(side)
      OBVIOUS
    <3>3. SumFunctionOnSet(Holdings(engine), SideSlots(side)) =
            SumFunctionOnSet(Holdings(engine), SideSlots(side))
              - SumFunctionOnSet(Holdings(engine), SideSlots(side) \cap SideSlots(side))
      BY <3>1, SideSplit, SumClears
    <3> QED BY <3>2, <3>3 DEF Held
  <2>3. Held(engine, side) = 0
    BY <1>3, <2>2, HeldTyped
  <2> QED BY <1>4, <2>3
<1>9. Within(engine)
  <2> SUFFICES ASSUME NEW side \in Sides PROVE PossiblyLive(engine, side) <= MaxOrders
    BY DEF Within
  <2>1. WorkingOn(engine, side) = {}
    BY <1>4, <1>5, SideSplit DEF WorkingOn, Working, InFlight
  <2>2. PossiblyLive(engine, side) = 0
    BY <2>1, LiveTyped, FS_EmptySet
  <2> QED BY <2>2, EngineAssumption
<1>10. Roomy(engine)
  BY <1>4 DEF Roomy, Pot
<1> QED BY <1>3, <1>6, <1>7, <1>8, <1>9, <1>10 DEF EngineInv

-----------------------------------------------------------------------------
(***************************************************************************)
(* Theorems                                                                *)
(***************************************************************************)
\* The invariant is inductive.
LEMMA InvKept == EngineInv /\ [Next]_vars => EngineInv'
<1> SUFFICES ASSUME EngineInv, [Next]_vars PROVE EngineInv'
  OBVIOUS
<1>1. CASE Next
  BY <1>1, StepsOnward DEF Onward
<1>2. CASE UNCHANGED vars
  BY <1>2 DEF vars, EngineInv, FreeIsBare, Covered, Held, Holdings
<1> QED BY <1>1, <1>2

\* The invariant holds in every reachable state.
LEMMA InvHolds == Spec => []EngineInv
<1>1. Init => EngineInv
  BY StartsSound
<1> QED BY <1>1, InvKept, PTL DEF Spec

\* Every field of the engine stays in its type: no count leaves its bounds, the bank
\* never holds more than its capacity, whatever the venue reports (exec/engine.rs).
THEOREM EngineTyped == Spec => []TypeOK
<1>1. EngineInv => TypeOK
  <2> SUFFICES ASSUME EngineInv PROVE TypeOK
    OBVIOUS
  <2>1. engine \in Engines /\ fate \in [Slot -> Fates]
    BY DEF EngineInv
  <2> QED BY <2>1 DEF Engines, SlotRecord, TypeOK, Fates
<1> QED BY <1>1, InvHolds, PTL

\* No reservation is given back twice: what the account table holds back for a side
\* never falls below what the side's slots still claim, through releases deferred to
\* a balance update, orders unwound, reports after the end and slots used again
\* (exec/event.rs: release_reservation,
\* retry_reservation_releases, release_unsent_reservation).
THEOREM FreedOnce == Spec => []NeverFreedTwice
<1>1. EngineInv => NeverFreedTwice
  BY DEF EngineInv, Covered, Held, NeverFreedTwice, HeldBySlots
<1> QED BY <1>1, InvHolds, PTL

\* A halt stays, with its first reason, and nothing is placed or amended after it
\* (exec/engine.rs: halt, the latch the quote and flatten passes read).
THEOREM HaltStands == Spec => HaltIsFinal
<1>1. EngineInv /\ [Next]_vars =>
        [engine.halt # "Armed" =>
           /\ engine'.halt = engine.halt
           /\ \A s \in Slot : engine'.slots[s].state \in {"PendingNew", "AmendInFlight"}
                                => engine.slots[s].state = engine'.slots[s].state]_vars
  BY StepsOnward DEF Onward, Steady, Started
<1> QED BY <1>1, InvHolds, PTL DEF Spec, HaltIsFinal

\* An order is placed by an engine armed and ready, within the side's limit, and
\* while no other order of its side awaits an answer (exec/spin.rs:
\* place_refusal; exec/order.rs: is_awaiting_answer).
THEOREM PlacedOneAtATime == Spec => PlacesOneAtATime
<1>1. EngineInv /\ [Next]_vars =>
        [\A s \in Slot : Minted(s) =>
           /\ engine.halt = "Armed" /\ IsReady(engine)
           /\ PossiblyLive(engine', SideOf(s)) <= MaxOrders
           /\ \A t \in SideSlots(SideOf(s)) \ {s} : engine'.slots[t].state \notin InFlight]_vars
  BY StepsOnward DEF Onward, Guards, Mints, Minted, WellMinted
<1> QED BY <1>1, InvHolds, PTL DEF Spec, PlacesOneAtATime

\* An order that ended does not come back: its slot is reaped, used for a new order
\* that starts with nothing filled, or put in doubt by a snapshot
\* (exec/transition.rs: the transitions out of a closed state).
THEOREM EndedOnce == Spec => EndsOnce
<1>1. EngineInv /\ [Next]_vars =>
        [\A s \in Slot :
           engine.slots[s].state \in Closed =>
             \/ engine'.slots[s].state = engine.slots[s].state
             \/ engine'.slots[s] = EmptySlot
             \/ engine'.slots[s].state \in {"PendingNew", "Rejected"} /\ engine'.slots[s].filled = 0
             \/ engine'.slots[s].state = "Unknown"]_vars
  BY StepsOnward DEF Onward, Steady
<1> QED BY <1>1, InvHolds, PTL DEF Spec, EndsOnce

\* On a venue whose balances still count what resting orders lock, an order that
\* works keeps its reservation, unless it was never sent (exec/event.rs:
\* release_reservation).
THEOREM ReservationKept == Spec => WorkingKeepsReservation
<1>1. EngineInv /\ [Next]_vars =>
        [~ engine.holds =>
           \A s \in Slot :
             (Minted(s) \/ engine.slots[s].reserved > 0)
               /\ engine'.slots[s].state \in Working /\ fate'[s] # "unsent"
             => engine'.slots[s].reserved > 0]_vars
  BY StepsOnward DEF Onward
<1> QED BY <1>1, InvHolds, PTL DEF Spec, WorkingKeepsReservation

\* The end of a snapshot never ends an order placed after the snapshot was asked
\* for (exec/engine.rs: on_snapshot_end).
THEOREM YoungSpared == Spec => SparesTheYoung
<1>1. EngineInv =>
        [\A s \in Slot, recon \in 0 .. engine.recon :
           SnapshotEnd(recon) /\ engine.slots[s].placed >= recon
             => engine'.slots[s].state = engine.slots[s].state]_vars
  <2> SUFFICES ASSUME EngineInv, NEW s \in Slot, NEW recon \in 0 .. engine.recon,
                      SnapshotEnd(recon), engine.slots[s].placed >= recon
               PROVE  engine'.slots[s].state = engine.slots[s].state
    OBVIOUS
  <2>1. engine \in Engines /\ recon \in Nat
    BY DEF EngineInv, Engines
  <2> QED BY <2>1, SnapshotAnswers DEF SnapshotEnd
<1> QED BY <1>1, InvHolds, PTL DEF SparesTheYoung

\* Each side's orders that may be live stay within its limit, provided no snapshot
\* names as open an order whose slot has ended or is free: the engine counts at
\* placing and such a snapshot adds one it did not place (exec/spin.rs:
\* place_refusal; exec/order.rs: adopt).
THEOREM LimitHolds == Spec /\ NothingReopened => []WithinOrderLimit
<1> DEFINE Inv == EngineInv /\ WithinOrderLimit
<1>1. Init => Inv
  BY StartsSound DEF Within, WithinOrderLimit
<1>2. Inv /\ [Next]_vars /\ [~ Reopened]_vars => Inv'
  <2> SUFFICES ASSUME Inv, [Next]_vars, [~ Reopened]_vars PROVE Inv'
    OBVIOUS
  <2>1. CASE Next /\ ~ Reopened
    BY <2>1, StepsOnward DEF Onward, Within, WithinOrderLimit
  <2>2. CASE UNCHANGED vars
    <3>1. EngineInv'
      BY <2>2, InvKept
    <3>2. WithinOrderLimit'
      BY <2>2 DEF vars, WithinOrderLimit, PossiblyLive
    <3> QED BY <3>1, <3>2
  <2> QED BY <2>1, <2>2
<1>3. Inv => WithinOrderLimit
  OBVIOUS
<1> HIDE DEF Inv
<1> QED BY <1>1, <1>2, <1>3, PTL DEF Spec, NothingReopened

\* The bank never overflows, hence the engine never halts for it, provided the lane
\* takes a full bank each spin: a spin banks at most a command per slot and four
\* more, and the bank has room for six (exec/command.rs: COMMAND_BANK_CAPACITY).
THEOREM BankSuffices ==
  ASSUME Drains
  PROVE  Spec => []NeverOverflows
<1> DEFINE Inv == EngineInv /\ Roomy(engine)
<1>1. Init => Inv
  BY StartsSound
<1>2. Inv /\ [Next]_vars => Inv'
  <2> SUFFICES ASSUME Inv, [Next]_vars PROVE Inv'
    OBVIOUS
  <2>1. CASE Next
    BY <2>1, StepsOnward DEF Onward, Roomy, Pot
  <2>2. CASE UNCHANGED vars
    <3>1. EngineInv'
      BY <2>2, InvKept
    <3>2. Roomy(engine)'
      BY <2>2 DEF vars, Roomy, Pot
    <3> QED BY <3>1, <3>2
  <2> QED BY <2>1, <2>2
<1>3. Inv => NeverOverflows
  BY DEF Roomy, NeverOverflows
<1> HIDE DEF Inv
<1> QED BY <1>1, <1>2, <1>3, PTL DEF Spec
=============================================================================
