------------------------------- MODULE BookFeed -------------------------------
(***************************************************************************)
(* What the market-data path promises the strategy about one instrument's  *)
(* book: whatever it lost, dropped or was sent twice, a valid book is the  *)
(* venue's own book as it stood at some update id, and no later book goes  *)
(* back behind an earlier one.                                             *)
(*                                                                         *)
(* The venue gives every change an update id; `tape` holds the level each  *)
(* id changed.  A level's state is the set of changes made to it so far:   *)
(* two quantities are told apart exactly when a change lies between them.  *)
(***************************************************************************)
EXTENDS Integers

CONSTANTS
  Levels,     \* price levels
  Nothing,    \* an update id that changes none of them
  MaxId       \* the largest update id (u64::MAX)

VARIABLES
  tape,       \* the level each update id changed
  now,        \* the venue's latest update id
  levels,     \* the strategy's book
  isValid,    \* whether it may be read
  asOf        \* the update id it stands at, or last stood at

Ids   == 1 .. MaxId
Books == [Levels -> SUBSET Ids]
Tapes == [Ids -> Levels \cup {Nothing}]

NoBook    == [l \in Levels |-> {}]
BookAt(i) == [l \in Levels |-> {j \in 1 .. i : tape[j] = l}]

feedVars == <<tape, now, levels, isValid, asOf>>

Init ==
  /\ tape = [i \in Ids |-> Nothing] /\ now = 0
  /\ levels = NoBook /\ isValid = FALSE /\ asOf = 0

\* The venue changes a level of its book, or something else.
Trade(l) ==
  /\ now < MaxId
  /\ now' = now + 1
  /\ tape' = [tape EXCEPT ![now + 1] = l]
  /\ UNCHANGED <<levels, isValid, asOf>>

Show(i) ==
  /\ i \in asOf .. now
  /\ asOf' = i /\ isValid' = TRUE /\ levels' = BookAt(i)
  /\ UNCHANGED <<tape, now>>

Lose ==
  /\ isValid /\ isValid' = FALSE /\ levels' = NoBook
  /\ UNCHANGED <<tape, now, asOf>>

Next == (\E l \in Levels \cup {Nothing} : Trade(l)) \/ (\E i \in 0 .. now : Show(i)) \/ Lose

Spec == Init /\ [][Next]_feedVars
=============================================================================
