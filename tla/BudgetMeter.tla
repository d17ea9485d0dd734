----------------------------- MODULE BudgetMeter -----------------------------
(***************************************************************************)
(* The placements an engine has made, measured against the buckets its     *)
(* venue declares (hot/exec/budget.rs).  A venue counts the placements of  *)
(* a sliding window; the meter keeps counts over coarse slots of it, in    *)
(* memory that does not grow.  It refuses quotes only: a flatten is        *)
(* counted and never asked (spin.rs, mint.rs).                             *)
(*                                                                         *)
(* Stamps are those of the messages the engine spins on, and may go back.  *)
(* Counts are far below 2^32, where the code stops counting.               *)
(***************************************************************************)
EXTENDS Integers, Sequences, FiniteSets

CONSTANTS
  Windows,    \* the buckets the venue declares
  Span,       \* the length of each
  MaxPlaces,  \* the placements it allows
  \* Bounds of the model.
  MaxStamp, MaxPlaced

\* Declared in whole seconds and measured in microseconds (preflight.rs), a bucket
\* is cut into quarters without a remainder.
BudgetDeclared ==
  /\ Span \in [Windows -> Nat \ {0}]
  /\ \A w \in Windows : Span[w] % 4 = 0
  /\ MaxPlaces \in [Windows -> Nat]
  /\ MaxStamp \in Nat /\ MaxPlaced \in Nat

VARIABLES
  newest,  \* newest_slot of each window's meter
  places,  \* its counts, by slot index
  now,     \* the stamp of this spin
  latest,  \* the latest stamp there was
  placed   \* history: the placements, each by its stamp and the latest one then

meterVars == <<newest, places, now, latest, placed>>

Unseen  == -1
Counted == 5        \* COUNTED_SLOTS
Never   == -Counted \* no slot yet: i64::MIN

SlotWidth(w)    == IF Span[w] \div 4 = 0 THEN 1 ELSE Span[w] \div 4
SlotOf(w, at)   == at \div SlotWidth(w)
SlotIndex(slot) == slot % Counted

MeterInit ==
  /\ newest = [w \in Windows |-> Never]
  /\ places = [w \in Windows |-> [i \in 0 .. Counted - 1 |-> 0]]
  /\ now = Unseen /\ latest = Unseen
  /\ placed = <<>>

\* The indices of the slots that are passed when `slot` is the newest.
Retired(w, slot) == {SlotIndex(s) : s \in newest[w] + 1 .. slot}

\* The bug of counting only slots that have wholly elapsed.
UsedWhole(w) ==
  places[w][0] + places[w][1] + places[w][2] + places[w][3] + places[w][4]
    - places[w][SlotIndex(newest[w])]

Used(w) == places[w][0] + places[w][1] + places[w][2] + places[w][3] + places[w][4]

AdmitsPlace == \A w \in Windows : Used(w) < MaxPlaces[w]

\* advance_to.  A stamp older than the newest leaves everything as it is.
AdvanceTo(w, slot) ==
  [i \in 0 .. Counted - 1 |-> IF i \in Retired(w, slot) THEN 0 ELSE places[w][i]]

ObserveSpin(at) ==
  /\ now' = at
  /\ latest' = IF at > latest THEN at ELSE latest
  /\ places' = [w \in Windows |-> AdvanceTo(w, SlotOf(w, at))]
  /\ newest' = [w \in Windows |-> IF SlotOf(w, at) > newest[w] THEN SlotOf(w, at) ELSE newest[w]]
  /\ UNCHANGED placed

RecordPlace ==
  /\ now # Unseen
  /\ Len(placed) < MaxPlaced
  /\ places' = [w \in Windows |-> [places[w] EXCEPT ![SlotIndex(newest[w])] = @ + 1]]
  /\ placed' = Append(placed, [stamp |-> now, by |-> latest])
  /\ UNCHANGED <<newest, now, latest>>

PlaceQuote   == AdmitsPlace /\ RecordPlace
PlaceFlatten == RecordPlace

MeterNext == \/ \E at \in 0 .. MaxStamp : ObserveSpin(at)
        \/ PlaceQuote \/ PlaceFlatten

MeterSpec == MeterInit /\ [][MeterNext]_meterVars
-----------------------------------------------------------------------------
\* What the venue's limiter counts now.
InWindow(w) == {k \in DOMAIN placed : placed[k].stamp >= latest - Span[w]}

\* A quote is admitted only where the venue would admit it: the placements of the
\* last window, of flattens and of stamps gone back included, are fewer than it
\* allows.  The coarse slots only ever refuse early.
NeverOverspends ==
  AdmitsPlace => \A w \in Windows : Cardinality(InWindow(w)) < MaxPlaces[w]
=============================================================================
