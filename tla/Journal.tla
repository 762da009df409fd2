------------------------------ MODULE Journal ------------------------------
(***************************************************************************)
(* proxy/journal.go, the record of what went wrong: a ring in memory, a    *)
(* bounded queue to a goroutine that writes to disk, two generations of a  *)
(* file, and Close, which Run calls once the device loop has ended.        *)
(*                                                                         *)
(* Whoever records something goes through Add: the device loop, which Run  *)
(* waits for, and ladders, stop requests and the opening questions, which  *)
(* it does not.  A line on disk is one unit of size.                       *)
(***************************************************************************)
EXTENDS Naturals, FiniteSets, SequencesExt, FiniteSetsExt

CONSTANTS
  Adders,     \* the goroutines that record events
  Joined,     \* those of them that Run waits for before it closes the journal
  Closers,    \* whoever calls Close
  Events, Kept, \* what may be recorded, and what is worth keeping on disk
  NoEvent,    \* an adder that has nothing to record
  Depth,      \* journalDepth
  QueueMax,   \* journalQueue
  FileMax,    \* journalMaxBytes
  Faults,     \* which of "power", "open" and "rename" may strike
  MaxEvents,  \* bound: events recorded altogether
  MaxFaults   \* bound: faults altogether

ASSUME AddersAssumption == Joined \subseteq Adders /\ Closers # {}
ASSUME EventsAssumption == Kept \subseteq Events /\ NoEvent \notin Events
ASSUME SizeAssumption == {Depth, QueueMax, FileMax} \subseteq Nat \ {0}
ASSUME BoundAssumption ==
  /\ MaxEvents \in Nat /\ MaxFaults \in Nat
  /\ Faults \subseteq {"power", "open", "rename"}

VARIABLES
  ring,            \* the ring: its slots, the oldest and how many are in use
  adding,          \* what each adder has put in the ring and not offered yet
  ended,           \* the adders that have finished
  writes, closed,  \* the queue to the writer, and has it been closed?
  closer,          \* where each call of Close is
  writer, batch,   \* where writeLoop is and what it has in hand
  last,            \* was the queue found closed while the batch was collected?
  size,            \* the length of the current file as the writer knows it
  current, rotated, \* the two generations on disk
  ragged,          \* does the current one end in the middle of a line?
  panicked,        \* a send on a closed channel has ended the process
  events, faults,  \* counters of the bounds
  told,            \* history: the newest Depth events there have been
  taken, missing   \* history: per event, how often queued and how often lost

memory == <<ring, told>>
adders == <<adding, ended, events>>
queue  == <<writes, closed, closer>>
loop   == <<writer, batch, last>>
disk   == <<size, current, rotated, ragged>>
vars   == <<memory, adders, queue, loop, disk, panicked, faults, taken, missing>>

\* A line of the file: an event with its repeats, readable unless it is a
\* fragment or was glued to one.
Line == [event : Kept, times : 1 .. MaxEvents, readable : BOOLEAN]

Once(e) == [event |-> e, times |-> 1, readable |-> TRUE]

\* How often an event is on record in some lines: once for every repeat that
\* one of its lines counts.
Happenings(lines, e) ==
  UNION {{i} \X (1 .. lines[i].times) : i \in {j \in DOMAIN lines : lines[j].event = e}}

Times(lines, e) == Cardinality(Happenings(lines, e))

\* How many of some positions are up to i, and which of them is the k-th.
Rank(positions, i) == Cardinality({j \in positions : j <= i})

Nth(positions, k) == CHOOSE i \in positions : Rank(positions, i) = k

Newest(s) == SubSeq(s, Len(s) - Min({Len(s), Depth}) + 1, Len(s))

-----------------------------------------------------------------------------
(***************************************************************************)
(* The ring.                                                               *)
(***************************************************************************)

EmptyRing == [slots |-> [i \in 0 .. Depth - 1 |-> NoEvent], first |-> 0, count |-> 0]

\* Mutant: the oldest is not given up when the ring is full.
PushOver(r, e) ==
  [r EXCEPT !.slots[(r.first + r.count) % Depth] = e,
            !.count = IF @ < Depth THEN @ + 1 ELSE @]

Push(r, e) ==
  [slots |-> [r.slots EXCEPT ![(r.first + r.count) % Depth] = e],
   first |-> IF r.count < Depth THEN r.first ELSE (r.first + 1) % Depth,
   count |-> IF r.count < Depth THEN r.count + 1 ELSE r.count]

Recent(r, limit) ==
  LET n == IF limit = 0 \/ limit > r.count THEN r.count ELSE limit
  IN  [i \in 1 .. n |-> r.slots[(r.first + r.count - n + i - 1) % Depth]]

\* load: what can still be read, the rotated generation first.
Loaded(old, new) ==
  LET lines    == old \o new
      readable == {i \in DOMAIN lines : lines[i].readable}
  IN  Newest([k \in 1 .. Cardinality(readable) |-> lines[Nth(readable, k)].event])

\* What pushing one event after the other makes of an empty ring that has room
\* for all of them (FilledGrows in JournalProofs).
Filled(s) ==
  [slots |-> [i \in 0 .. Depth - 1 |-> IF i < Len(s) THEN s[i + 1] ELSE NoEvent],
   first |-> 0, count |-> Len(s)]

-----------------------------------------------------------------------------
(***************************************************************************)
(* Add: the ring under its lock, then an offer to the writer that never    *)
(* waits.                                                                  *)
(***************************************************************************)

Add(a, e) ==
  /\ a \notin ended /\ adding[a] = NoEvent /\ events < MaxEvents
  /\ ring' = Push(ring, e) /\ told' = Newest(Append(told, e))
  /\ events' = events + 1
  /\ adding' = [adding EXCEPT ![a] = IF e \in Kept THEN e ELSE NoEvent]
  /\ UNCHANGED <<ended, queue, loop, disk, panicked, faults, taken, missing>>

\* Mutant: the queue has no limit.
OfferUnbounded(a) ==
  /\ adding[a] # NoEvent
  /\ adding' = [adding EXCEPT ![a] = NoEvent]
  /\ IF closed
     THEN panicked' = TRUE /\ UNCHANGED <<writes, taken>>
     ELSE /\ writes' = Append(writes, adding[a])
          /\ taken' = [taken EXCEPT ![adding[a]] = @ + 1]
          /\ UNCHANGED panicked
  /\ UNCHANGED <<memory, ended, events, closed, closer, loop, disk, faults, missing>>

\* A full queue loses the event; a closed one panics, whoever may be listening.
Offer(a) ==
  /\ adding[a] # NoEvent
  /\ adding' = [adding EXCEPT ![a] = NoEvent]
  /\ IF closed
     THEN panicked' = TRUE /\ UNCHANGED <<writes, taken>>
     ELSE /\ IF Len(writes) < QueueMax
             THEN /\ writes' = Append(writes, adding[a])
                  /\ taken' = [taken EXCEPT ![adding[a]] = @ + 1]
             ELSE UNCHANGED <<writes, taken>>
          /\ UNCHANGED panicked
  /\ UNCHANGED <<memory, ended, events, closed, closer, loop, disk, faults, missing>>

End(a) ==
  /\ a \notin ended /\ adding[a] = NoEvent
  /\ ended' = ended \cup {a}
  /\ UNCHANGED <<memory, adding, events, queue, loop, disk, panicked, faults, taken, missing>>

-----------------------------------------------------------------------------
(***************************************************************************)
(* Close: once, and everybody who calls it waits for the writer.           *)
(***************************************************************************)

Close(k) ==
  /\ closer[k] = "away" /\ Joined \subseteq ended
  /\ closed' = TRUE /\ closer' = [closer EXCEPT ![k] = "waiting"]
  /\ UNCHANGED <<memory, adders, writes, loop, disk, panicked, faults, taken, missing>>

\* Mutant: Close does not wait for the writer.
ReturnAtOnce(k) ==
  /\ closer[k] = "waiting"
  /\ closer' = [closer EXCEPT ![k] = "returned"]
  /\ UNCHANGED <<memory, adders, writes, closed, loop, disk, panicked, faults, taken, missing>>

CloseReturns(k) ==
  /\ closer[k] = "waiting" /\ writer = "stopped"
  /\ closer' = [closer EXCEPT ![k] = "returned"]
  /\ UNCHANGED <<memory, adders, writes, closed, loop, disk, panicked, faults, taken, missing>>

-----------------------------------------------------------------------------
(***************************************************************************)
(* writeLoop, collapse and appendBatch.                                    *)
(***************************************************************************)

\* Mutant: the end of the queue sends the loop round instead of ending it.
ReceiveForEver ==
  /\ writer = "idle"
  /\ \/ /\ writes # <<>>
        /\ batch' = <<Once(Head(writes))>> /\ writes' = Tail(writes)
        /\ writer' = "draining"
     \/ /\ writes = <<>> /\ closed
        /\ UNCHANGED <<writer, batch, writes>>
  /\ UNCHANGED <<memory, adders, closed, closer, last, disk, panicked, faults, taken, missing>>

\* The first of a batch, or the end of an empty queue that was closed.
Receive ==
  /\ writer = "idle"
  /\ \/ /\ writes # <<>>
        /\ batch' = <<Once(Head(writes))>> /\ writes' = Tail(writes)
        /\ writer' = "draining"
     \/ /\ writes = <<>> /\ closed
        /\ writer' = "stopped" /\ UNCHANGED <<batch, writes>>
  /\ UNCHANGED <<memory, adders, closed, closer, last, disk, panicked, faults, taken, missing>>

Drain ==
  /\ writer = "draining" /\ writes # <<>>
  /\ batch' = Append(batch, Once(Head(writes))) /\ writes' = Tail(writes)
  /\ UNCHANGED <<memory, adders, closed, closer, writer, last, disk, panicked, faults, taken, missing>>

\* Mutant: repeats are dropped instead of counted.
CollapseSilently(lines) ==
  FoldLeft(LAMBDA out, l : IF out # <<>> /\ Last(out).event = l.event
                           THEN out ELSE Append(out, l),
           <<>>, lines)

\* One line for every run of the same event, with the length of the run.
Collapse(lines) ==
  LET starts == {i \in DOMAIN lines : i = 1 \/ lines[i].event # lines[i - 1].event}
      run(i) == Rank(starts, i)
  IN  [k \in 1 .. Cardinality(starts) |->
         [event    |-> lines[Nth(starts, k)].event,
          times    |-> Cardinality({i \in DOMAIN lines : run(i) = k}),
          readable |-> TRUE]]

Room == IF size < FileMax THEN FileMax - size ELSE 0

\* Mutant: the lines that wait to be written are not counted.
FitsByFile == IF Room = 0 THEN 0 ELSE Len(batch)

\* How many lines of the batch go out before the file has to be rotated.
Fits == Min({Room, Len(batch)})

\* What an append makes of the file: the first line joins a fragment that is
\* already there.
Appended(lines) ==
  current \o [i \in DOMAIN lines |->
                [lines[i] EXCEPT !.readable = ~(ragged /\ i = 1)]]

\* Where the writer goes when a batch is done.
Done == IF last THEN "stopped" ELSE "idle"

Strikes(fault) == fault \in Faults /\ faults < MaxFaults /\ faults' = faults + 1

Lose(lines) == missing' = [e \in Kept |-> missing[e] + Times(lines, e)]

\* What was queued or in hand: whatever waits to be taken counts once.
AsLines(s) == [i \in DOMAIN s |-> Once(s[i])]

InHand(e) == Times(batch \o AsLines(writes), e)

\* Nothing more is queued.  The length of the file is looked up when the writer
\* does not know it, after a start or a rotation; a directory or a file it
\* cannot get at costs the batch.
Collected ==
  /\ writer = "draining" /\ writes = <<>>
  /\ last' = closed
  /\ \/ /\ batch' = Collapse(batch) /\ writer' = "append"
        /\ size' = IF size = 0 THEN Len(current) ELSE size
        /\ UNCHANGED <<faults, missing>>
     \/ /\ Strikes("open") /\ Lose(batch) /\ batch' = <<>>
        /\ writer' = IF closed THEN "stopped" ELSE "idle"
        /\ UNCHANGED size
  /\ UNCHANGED <<memory, adders, queue, current, rotated, ragged, panicked, taken>>

\* The lines that fit, with one write; then the rotation or the end.
Flush ==
  /\ writer = "append"
  /\ LET lines == SubSeq(batch, 1, Fits) IN
     /\ batch' = SubSeq(batch, Fits + 1, Len(batch))
     /\ writer' = IF batch' # <<>> THEN "rotate" ELSE Done
     /\ \/ /\ current' = Appended(lines) /\ size' = size + Fits
           /\ ragged' = (ragged /\ Fits = 0)
           /\ UNCHANGED <<faults, missing>>
        \/ /\ Fits > 0 /\ Strikes("open") /\ Lose(lines)
           /\ UNCHANGED <<current, size, ragged>>
  /\ UNCHANGED <<memory, adders, queue, last, rotated, panicked, taken>>

\* The second generation gives way, unless there is no file to rename because
\* it could not be opened; a rename that fails costs the batch.
Rotate ==
  /\ writer = "rotate"
  /\ \/ /\ current = <<>> /\ size' = 0 /\ writer' = "append"
        /\ UNCHANGED <<batch, faults, rotated, current, ragged, missing>>
     \/ /\ current # <<>>
        /\ rotated' = current /\ current' = <<>> /\ size' = 0 /\ ragged' = FALSE
        /\ Lose(rotated) /\ writer' = "append"
        /\ UNCHANGED <<batch, faults>>
     \/ /\ Strikes("rename")
        /\ Lose(batch) /\ batch' = <<>> /\ writer' = Done
        /\ UNCHANGED <<rotated, current, size, ragged>>
  /\ UNCHANGED <<memory, adders, queue, last, panicked, taken>>

-----------------------------------------------------------------------------
(***************************************************************************)
(* The end of the process and the next one.                                *)
(***************************************************************************)

\* NewJournal on what is on disk.
NewJournal ==
  /\ ring' = Filled(Loaded(rotated', current'))
  /\ told' = Loaded(rotated', current')
  /\ adding' = [a \in Adders |-> NoEvent] /\ ended' = {}
  /\ writes' = <<>> /\ closed' = FALSE /\ closer' = [k \in Closers |-> "away"]
  /\ writer' = "idle" /\ batch' = <<>> /\ last' = FALSE /\ size' = 0
  /\ panicked' = FALSE
  /\ UNCHANGED <<events, taken>>

\* The process has returned from Run, or a panic ended it.
Restart ==
  /\ panicked \/ \A k \in Closers : closer[k] = "returned"
  /\ UNCHANGED <<rotated, current, ragged, faults>>
  /\ NewJournal
  /\ missing' = [e \in Kept |-> missing[e] + InHand(e)]

\* Power fails and returns.  In the middle of a write, part of its lines are on
\* disk and the last of them is torn.
PowerCut ==
  /\ Strikes("power") /\ UNCHANGED rotated
  /\ \E n \in 0 .. (IF writer = "append" THEN Fits ELSE 0) :
       /\ current' = current \o
            [i \in 1 .. n |-> [batch[i] EXCEPT !.readable = i < n /\ ~(ragged /\ i = 1)]]
       /\ ragged' = (ragged \/ n > 0)
       /\ NewJournal
       /\ missing' = [e \in Kept |->
            missing[e] + InHand(e) - Times(SubSeq(batch, 1, n), e)]

-----------------------------------------------------------------------------
Init ==
  /\ ring = EmptyRing /\ told = <<>>
  /\ adding = [a \in Adders |-> NoEvent] /\ ended = {} /\ events = 0
  /\ writes = <<>> /\ closed = FALSE /\ closer = [k \in Closers |-> "away"]
  /\ writer = "idle" /\ batch = <<>> /\ last = FALSE
  /\ size = 0 /\ current = <<>> /\ rotated = <<>> /\ ragged = FALSE
  /\ panicked = FALSE /\ faults = 0
  /\ taken = [e \in Kept |-> 0] /\ missing = [e \in Kept |-> 0]

Record(a) == (\E e \in Events : Add(a, e)) \/ Offer(a) \/ End(a)

WriteLoop == Receive \/ Drain \/ Collected \/ Flush \/ Rotate

Next ==
  \/ /\ ~panicked
     /\ \/ \E a \in Adders : Record(a)
        \/ \E k \in Closers : Close(k) \/ CloseReturns(k)
        \/ WriteLoop
  \/ Restart \/ PowerCut

Spec == Init /\ [][Next]_vars

-----------------------------------------------------------------------------
(***************************************************************************)
(* Correctness.                                                            *)
(***************************************************************************)

\* The type invariant.  The writer knows the length of the file or has to look.
TypeOK ==
  /\ DOMAIN ring.slots = 0 .. Depth - 1 /\ ring.first \in 0 .. Depth - 1
  /\ ring.count \in 0 .. Depth /\ told \in Seq(Events)
  /\ adding \in [Adders -> Kept \cup {NoEvent}] /\ ended \subseteq Adders
  /\ events \in 0 .. MaxEvents /\ faults \in 0 .. MaxFaults
  /\ writes \in Seq(Kept) /\ Len(writes) <= QueueMax
  /\ closer \in [Closers -> {"away", "waiting", "returned"}]
  /\ writer \in {"idle", "draining", "append", "rotate", "stopped"}
  /\ {closed, last, ragged, panicked} \subseteq BOOLEAN
  /\ {batch, current, rotated} \subseteq Seq(Line) /\ size \in 0 .. Len(current)
  /\ taken \in [Kept -> 0 .. MaxEvents] /\ missing \in [Kept -> 0 .. MaxEvents]

\* push and Recent: whatever the ring's indices have come to, the newest events
\* are handed out in the order in which they were recorded, and after a start
\* those of the earlier runs that the files still hold.
RingIsRecent ==
  \A limit \in 0 .. Depth + 1 :
    Recent(ring, limit) =
      IF limit = 0 \/ limit > Len(told) THEN told
      ELSE SubSeq(told, Len(told) - limit + 1, Len(told))

\* collapse and appendBatch, "a record that says so once with a count": an
\* event the writer has taken is in its hands or on disk, counted as often as
\* it happened, unless rotation, a fault or the end of the process lost it.  A
\* line that is torn or glued to a fragment is on disk, although nobody can read
\* it, and what a full queue turned away was never taken.
Accounted ==
  \A e \in Kept :
    taken[e] = InHand(e) + Times(rotated \o current, e) + missing[e]

\* "Two of these exist at most, the current one and one rotation, so the worst
\* case is twice this": also over restarts, torn lines and failed renames.
Bounded == Len(current) <= FileMax /\ Len(rotated) <= FileMax

\* Close "waits for what is already queued": when it has returned, nothing the
\* writer took is still on its way to the disk.
NothingLeftBehind ==
  \A k \in Closers : closer[k] = "returned" => writes = <<>> /\ batch = <<>>

-----------------------------------------------------------------------------
(***************************************************************************)
(* Fairness.  The writer and whoever waits for it are goroutines, which    *)
(* are scheduled; nobody has to record anything, to close or to restart.   *)
(***************************************************************************)
Fairness ==
  /\ WF_vars(~panicked /\ WriteLoop)
  /\ \A k \in Closers : WF_vars(~panicked /\ CloseReturns(k))

FairSpec == Spec /\ Fairness

\* Close ends: every call of it, whatever the writer had in hand when the queue
\* was closed, unless the process ends first.
CloseEnds ==
  \A k \in Closers : (closer[k] = "waiting") ~> (closer[k] # "waiting" \/ panicked)

=============================================================================
