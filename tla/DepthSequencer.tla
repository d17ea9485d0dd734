---------------------------- MODULE DepthSequencer ----------------------------
(***************************************************************************)
(* The order book of one Binance instrument, from the venue's depth stream *)
(* and its REST snapshots to the hot thread's book (depth.rs,              *)
(* depth_resync.rs, chunk.rs, book.rs).                                    *)
(*                                                                         *)
(* The market-data actor is one task that awaits its REST reads inline, so *)
(* what it does with a frame, the read included, is one step.  The input   *)
(* ring keeps the order of what is emitted and has one writer, so the hot  *)
(* book is given each message as it is emitted.  The chunks of a message   *)
(* are one message, levels beyond the depth of a snapshot are left out, a  *)
(* book holds every level modelled, and a full ring is left out: it stops  *)
(* the process.                                                            *)
(***************************************************************************)
EXTENDS Integers, Sequences

CONSTANTS
  Levels, Nothing, MaxId,  \* as in BookFeed
  Rules,                   \* chain rules of the markets: "Spot", "Perp"
  Capacity,                \* DEPTH_BUFFER_CAPACITY
  MaxStream                \* bound: frames in the socket when another is sent

ASSUME SequencerAssumption ==
  /\ Nothing \notin Levels /\ MaxId \in Nat
  /\ Rules \subseteq {"Spot", "Perp"}
  /\ Capacity \in Nat \ {0} /\ MaxStream \in Nat

VARIABLES
  rule,        \* the market's chain rule
  tape, now,   \* the venue's book: see BookFeed
  published,   \* the last update id the depth stream has sent
  isUp,        \* whether there is a socket
  stream,      \* diffs in the socket
  isLive,      \* the sequencer's state: Live or AwaitingSnapshot
  anchor,      \* book_update_id
  buffer,      \* diffs held until a snapshot
  pending,     \* the update id of the snapshot held, if any
  latest,      \* latest_update_id
  hot,         \* the hot thread's book
  hasLost      \* whether a diff was lost since the book was last rebuilt

venueVars == <<rule, tape, now, published>>
vars == <<rule, tape, now, published, isUp, stream, isLive, anchor, buffer, pending, latest,
          hot, hasLost>>

Feed == INSTANCE BookFeed WITH levels <- hot.levels, isValid <- hot.isValid, asOf <- anchor

None == -1
Diff == [first : 1 .. MaxId, final : 1 .. MaxId, prev : 0 .. MaxId]

Init ==
  /\ rule \in Rules
  /\ tape = [i \in 1 .. MaxId |-> Nothing] /\ now = 0 /\ published = 0
  /\ isUp = FALSE /\ stream = <<>>
  /\ isLive = FALSE /\ anchor = 0 /\ buffer = <<>> /\ pending = None /\ latest = 0
  /\ hot = [isValid |-> FALSE, levels |-> Feed!NoBook]
  /\ hasLost = FALSE

-----------------------------------------------------------------------------
(***************************************************************************)
(* The hot book: what each message does to it                              *)
(***************************************************************************)
Reset == [isValid |-> FALSE, levels |-> Feed!NoBook]

SetBySnapshot(i) == [isValid |-> TRUE, levels |-> Feed!BookAt(i)]

Touches(d, l) == \E i \in d.first .. d.final : tape[i] = l

\* A delta states the levels it touches as they stand at its last update.
AfterDelta(h, d) ==
  IF ~ h.isValid THEN h
  ELSE [h EXCEPT !.levels = [l \in Levels |-> IF Touches(d, l) THEN Feed!BookAt(d.final)[l] ELSE @[l]]]

\* A snapshot, then the diffs held: each level as the last diff that touches it
\* states it.
Rebuilt(i, held) ==
  LET touching(l) == {k \in DOMAIN held : Touches(held[k], l)}
      last(l)     == CHOOSE k \in touching(l) : \A n \in touching(l) : n <= k
      start       == SetBySnapshot(i)
  IN [start EXCEPT !.levels =
        [l \in Levels |-> IF touching(l) = {} THEN @[l] ELSE Feed!BookAt(held[last(l)].final)[l]]]

-----------------------------------------------------------------------------
(***************************************************************************)
(* The chain                                                               *)
(***************************************************************************)
ChainsOnto(at, d) ==
  IF rule = "Spot" THEN at < MaxId /\ d.first = at + 1 ELSE d.prev = at

Follows(d) == ~ (rule = "Spot" /\ anchor = MaxId) /\ ChainsOnto(anchor, d)

\* The bug of taking updates that are sent again for a break.
NeverResent(d) == FALSE

IsResent(d) == rule = "Spot" /\ anchor # MaxId /\ ~ ChainsOnto(anchor, d) /\ d.final <= anchor

\* The book can no longer be followed.
Breaks(d) == ~ Follows(d) /\ ~ IsResent(d)

Keeps(d, i) == IF rule = "Spot" THEN d.final > i ELSE d.final >= i

\* retain: diffs come in the order of their ids, so what stays is a suffix.
Retained(held, i) ==
  LET kept == {k \in DOMAIN held : Keeps(held[k], i)}
  IN IF kept = {} THEN <<>>
     ELSE SubSeq(held, CHOOSE k \in kept : \A n \in kept : k <= n, Len(held))

Spans(d, i) ==
  IF rule = "Spot" THEN i < MaxId /\ d.first <= i + 1 ELSE d.first <= i /\ d.final >= i

\* The bug of looking at the first diff held only.
FirstSpans(held, i) ==
  /\ ~ (rule = "Spot" /\ i = MaxId)
  /\ held # <<>> => Spans(held[1], i)

\* buffer_chains_from
ChainsFrom(held, i) ==
  /\ ~ (rule = "Spot" /\ i = MaxId)
  /\ held # <<>> => Spans(held[1], i)
  /\ \A k \in 2 .. Len(held) : ChainsOnto(held[k - 1].final, held[k])

-----------------------------------------------------------------------------
(***************************************************************************)
(* A frame                                                                 *)
(***************************************************************************)
MaxOf(i, j) == IF i >= j THEN i ELSE j

NextFrame(d) ==
  /\ stream # <<>> /\ d = Head(stream)
  /\ stream' = Tail(stream)
  /\ latest' = MaxOf(latest, d.final)
  /\ UNCHANGED <<venueVars, isUp>>

\* fetch_depth_snapshot: nothing while one is held; throttled, quieted, failed or
\* unreadable it changes nothing; a read may be older than the stream.
Fetch(held) ==
  IF held # None THEN pending' = held
  ELSE \/ pending' = None
       \/ \E i \in 0 .. now : pending' = i

DiffApplied(d) ==
  /\ isLive /\ NextFrame(d) /\ Follows(d)
  /\ anchor' = d.final
  /\ hot' = AfterDelta(hot, d)
  /\ UNCHANGED <<isLive, buffer, pending, hasLost>>

DiffIgnored(d) ==
  /\ isLive /\ NextFrame(d) /\ IsResent(d)
  /\ UNCHANGED <<isLive, anchor, buffer, pending, hot, hasLost>>

\* begin_resync
DiffBreaks(d) ==
  /\ isLive /\ NextFrame(d) /\ Breaks(d)
  /\ isLive' = FALSE /\ buffer' = <<d>>
  /\ hot' = Reset
  /\ Fetch(None)
  /\ UNCHANGED <<anchor, hasLost>>

\* apply_snapshot over the diffs held.
Rebuild(held, i) ==
  LET kept == Retained(held, i)
  IN /\ Feed!BookAt(i) # Feed!NoBook /\ ChainsFrom(kept, i)
     /\ isLive' = TRUE /\ buffer' = <<>>
     /\ anchor' = IF kept = <<>> THEN i ELSE kept[Len(kept)].final
     /\ hot' = Rebuilt(i, kept)
     /\ hasLost' = FALSE

\* An empty snapshot is refused before anything is dropped.
RefuseSnapshot(held, i) ==
  /\ Feed!BookAt(i) = Feed!NoBook \/ ~ ChainsFrom(Retained(held, i), i)
  /\ buffer' = IF Feed!BookAt(i) = Feed!NoBook THEN held ELSE Retained(held, i)
  /\ UNCHANGED <<isLive, anchor, hot, hasLost>>

\* The bug of a limit that is one too large.
OverflowsLate(held) == Len(held) > Capacity

Overflows(held) == Len(held) >= Capacity

\* Buffered, or the buffer starts over and a snapshot held is dropped; then the
\* snapshot held is applied once the stream has reached it.
DiffBuffered(d) ==
  LET held     == IF Overflows(buffer) THEN <<d>> ELSE Append(buffer, d)
      snapshot == IF Overflows(buffer) THEN None ELSE pending
      isReady  == snapshot # None /\ MaxOf(latest, d.final) >= snapshot
  IN /\ ~ isLive /\ NextFrame(d)
     /\ \/ isReady /\ pending' = None /\ (Rebuild(held, snapshot) \/ RefuseSnapshot(held, snapshot))
        \/ /\ ~ isReady /\ buffer' = held /\ Fetch(snapshot)
           /\ UNCHANGED <<isLive, anchor, hot, hasLost>>

\* A frame that does not parse is dropped.
Malformed ==
  /\ stream # <<>>
  /\ stream' = Tail(stream) /\ hasLost' = TRUE
  /\ UNCHANGED <<venueVars, isUp, isLive, anchor, buffer, pending, latest, hot>>

\* The sequencer outlives its socket, and so does the book.
Connect ==
  /\ ~ isUp /\ isUp' = TRUE
  /\ UNCHANGED <<venueVars, stream, isLive, anchor, buffer, pending, latest, hot, hasLost>>

Disconnect ==
  /\ isUp /\ isUp' = FALSE
  /\ stream' = <<>> /\ hasLost' = (hasLost \/ stream # <<>>)
  /\ UNCHANGED <<venueVars, isLive, anchor, buffer, pending, latest, hot>>

-----------------------------------------------------------------------------
(***************************************************************************)
(* The venue                                                               *)
(***************************************************************************)
Trade(l) ==
  /\ now < MaxId
  /\ now' = now + 1
  /\ tape' = [tape EXCEPT ![now + 1] = l]
  /\ UNCHANGED <<rule, published, isUp, stream, isLive, anchor, buffer, pending, latest, hot, hasLost>>

\* The next diff covers what changed since the last: a spot diff every update id,
\* a perpetual one from the first that concerns the book.
Publish ==
  /\ published < now /\ Len(stream) < MaxStream
  /\ published' = now
  /\ \E first \in published + 1 .. now :
       /\ rule = "Spot" => first = published + 1
       /\ \A i \in published + 1 .. first - 1 : tape[i] = Nothing
       /\ stream' = IF isUp THEN Append(stream, [first |-> first, final |-> now, prev |-> published])
                    ELSE stream
  /\ hasLost' = (hasLost \/ ~ isUp)
  /\ UNCHANGED <<rule, tape, now, isUp, isLive, anchor, buffer, pending, latest, hot>>

\* Spot sends updates again that it has sent before.
Resend ==
  /\ rule = "Spot" /\ isUp /\ published > 0 /\ Len(stream) < MaxStream
  /\ \E first \in 1 .. published :
       stream' = Append(stream, [first |-> first, final |-> published, prev |-> first - 1])
  /\ UNCHANGED <<venueVars, isUp, isLive, anchor, buffer, pending, latest, hot, hasLost>>

Frame(d) == DiffApplied(d) \/ DiffIgnored(d) \/ DiffBreaks(d) \/ DiffBuffered(d)

Next ==
  \/ \E d \in Diff : Frame(d)
  \/ Malformed \/ Connect \/ Disconnect
  \/ Publish \/ Resend
  \/ \E l \in Levels \cup {Nothing} : Trade(l)

Spec == Init /\ [][Next]_vars

-----------------------------------------------------------------------------
(***************************************************************************)
(* Properties                                                              *)
(***************************************************************************)
Ascending(diffs) == \A k, n \in DOMAIN diffs : k <= n => diffs[k].final <= diffs[n].final

\* Every variable has its type, and diffs are held in the order of their ids.
TypeOK ==
  /\ rule \in Rules /\ tape \in Feed!Tapes
  /\ now \in 0 .. MaxId /\ published \in 0 .. now
  /\ isUp \in BOOLEAN /\ stream \in Seq(Diff)
  /\ isLive \in BOOLEAN /\ anchor \in 0 .. now
  /\ buffer \in Seq(Diff) /\ Len(buffer) <= Capacity /\ Ascending(buffer)
  /\ pending \in {None} \cup 0 .. now /\ latest \in 0 .. now
  /\ hot \in [isValid : BOOLEAN, levels : Feed!Books]
  /\ hasLost \in BOOLEAN

\* The hot book is valid exactly while the sequencer is live: no delta is dropped
\* by a book that waits for a snapshot and no snapshot meets a valid book, the
\* breaches book.rs warns of.
InStep == hot.isValid = isLive

\* A valid hot book is the venue's own at the anchor, and across losses, resends,
\* snapshots older or newer than the stream and overflows it never goes back.
ShowsVenueBook == Feed!Spec

\* A book reset fires on proven loss only (market.rs): a stream that lost nothing
\* since the book was built, resent updates included, never takes it away.
ResetsOnlyOnLoss ==
  [][hot.isValid /\ ~ hot'.isValid => hasLost \/ anchor = MaxId]_vars
=============================================================================
