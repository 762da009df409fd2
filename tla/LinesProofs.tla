---------------------------- MODULE LinesProofs ----------------------------
(***************************************************************************)
(* Slots, lines and replies, for any number of clients, slots, lines,      *)
(* resets and ports.                                                       *)
(***************************************************************************)
EXTENDS Lines, FiniteSetTheorems, FunctionTheorems, SequenceTheorems, TLAPS

USE NamesAssumption, SlotsAssumption, BoundAssumption
USE DEF NamesAssumption, SlotsAssumption, BoundAssumption

-----------------------------------------------------------------------------
(***************************************************************************)
(* The type invariant, in its parts.                                       *)
(***************************************************************************)
Places == {"away", "gate", "through", "attached", "serving", "read", "stale", "recorded",
           "gone"}
Stages == {"none", "identify", "ask", "write", "asked", "ended"}

PortTyped  == port \in 0 .. opens /\ opens \in 0 .. MaxOpens
WiresTyped == rx \in Seq(Line) /\ tx \in Seq(Reply)
FlagsTyped == {relayed, heard, laser, gate, desynced, clean, missed} \subseteq BOOLEAN
ConnTyped  == client \in Clients \cup {NoClient} /\ conn \in [Clients -> Places]
ProbeTyped == probe \in [1 .. MaxOpens -> Stages]
TailTyped  == pending \in Seq([by : Clients, id : 1 .. MaxLines])
SlotsTyped == /\ injected \in Seq({"fresh", "past"}) /\ Len(injected) <= Slots
              /\ hand \in {"none", "fresh", "past"}
OpTyped    == op \in [at : {"nobody", "quiet", "checked", "claimed"}, n : 0 .. 2,
                     port : 0 .. MaxOpens]
CountTyped == lines \in 0 .. MaxLines /\ resets \in 0 .. MaxResets
              /\ chunk \in [Clients -> 0 .. lines]

LEMMA TypeParts ==
  TypeOK <=> /\ PortTyped /\ WiresTyped /\ FlagsTyped /\ ConnTyped /\ ProbeTyped
             /\ TailTyped /\ SlotsTyped /\ OpTyped /\ CountTyped
BY DEF TypeOK, PortTyped, WiresTyped, FlagsTyped, ConnTyped, ProbeTyped, TailTyped,
       SlotsTyped, OpTyped, CountTyped, Places, Stages

LEMMA TypePartsAfter ==
  TypeOK' <=> /\ PortTyped' /\ WiresTyped' /\ FlagsTyped' /\ ConnTyped' /\ ProbeTyped'
              /\ TailTyped' /\ SlotsTyped' /\ OpTyped' /\ CountTyped'
BY DEF TypeOK, PortTyped, WiresTyped, FlagsTyped, ConnTyped, ProbeTyped, TailTyped,
       SlotsTyped, OpTyped, CountTyped, Places, Stages

\* A function on the first numbers is a sequence, of that length.
LEMMA FunctionsAreSeqs ==
  ASSUME NEW S, NEW n \in Nat, NEW f \in [1 .. n -> S]
  PROVE  f \in Seq(S) /\ Len(f) = n
<1>1. f \in Seq(S)
  BY SMT
<1>2. DOMAIN f = 1 .. Len(f) /\ Len(f) \in Nat
  BY <1>1, LenProperties
<1>3. DOMAIN f = 1 .. n
  OBVIOUS
<1>4. \A i \in Nat : i \in 1 .. n <=> i \in 1 .. Len(f)
  BY <1>2, <1>3, Zenon
<1>5. n + 1 \in Nat /\ Len(f) + 1 \in Nat
  BY <1>2
<1>6. QED
  BY <1>1, <1>2, <1>4, <1>5

\* Numbered lines are lines.
LEMMA NewAreLines ==
  ASSUME NEW by \in Clients \cup {"operator"}, NEW n \in Nat,
         lines \in Nat, lines + n <= MaxLines
  PROVE  New(by, n) \in Seq([by : {by}, id : 1 .. MaxLines]) /\ Len(New(by, n)) = n
<1>1. \A i \in 1 .. n : [by |-> by, id |-> lines + i] \in [by : {by}, id : 1 .. MaxLines]
  OBVIOUS
<1>2. New(by, n) \in [1 .. n -> [by : {by}, id : 1 .. MaxLines]]
  BY <1>1 DEF New
<1>3. QED
  BY <1>2, FunctionsAreSeqs

\* What the controller answers are replies.
LEMMA AnswersAreReplies ==
  ASSUME NEW l \in Line
  PROVE  /\ <<[kind |-> "answer", line |-> l]>> \in Seq(Reply)
         /\ <<[kind |-> "setting"]>> \in Seq(Reply) /\ <<>> \in Seq(Reply)
         /\ [kind |-> "welcome"] \in Reply
BY DEF Reply

-----------------------------------------------------------------------------
(***************************************************************************)
(* The device.                                                             *)
(***************************************************************************)
\* A part whose variables stay is typed as before.
LEMMA Frames ==
  /\ PortTyped /\ UNCHANGED <<port, opens>> => PortTyped'
  /\ WiresTyped /\ UNCHANGED <<rx, tx>> => WiresTyped'
  /\ FlagsTyped /\ UNCHANGED <<relayed, seen, gate, desynced, clean, missed>> => FlagsTyped'
  /\ ConnTyped /\ UNCHANGED <<client, conn>> => ConnTyped'
  /\ ProbeTyped /\ UNCHANGED probe => ProbeTyped'
  /\ TailTyped /\ UNCHANGED pending => TailTyped'
  /\ SlotsTyped /\ UNCHANGED <<injected, hand>> => SlotsTyped'
  /\ OpTyped /\ UNCHANGED op => OpTyped'
  /\ CountTyped /\ UNCHANGED count => CountTyped'
BY DEF PortTyped, WiresTyped, FlagsTyped, ConnTyped, ProbeTyped, TailTyped,
       SlotsTyped, OpTyped, CountTyped, seen, count

LEMMA OpenKeeps ==
  ASSUME ConnTyped, Open, client' = client
  PROVE  ConnTyped' /\ gate' = TRUE
BY DEF ConnTyped, Open, Places

LEMMA AnswerTyped == ASSUME TypeOK, Answer PROVE TypeOK'
<1>1. /\ PortTyped /\ WiresTyped /\ FlagsTyped /\ ConnTyped /\ ProbeTyped
      /\ TailTyped /\ SlotsTyped /\ OpTyped /\ CountTyped
  BY TypeParts
<1>2. Head(rx) \in Line /\ rx' \in Seq(Line)
  BY <1>1 DEF Answer, WiresTyped
<1>3. tx' \in Seq(Reply)
  <2> DEFINE told == IF Head(rx).by = "probe" THEN <<[kind |-> "setting"]>> ELSE <<>>
  <2>1. told \in Seq(Reply) /\ <<[kind |-> "answer", line |-> Head(rx)]>> \in Seq(Reply)
    BY <1>2, AnswersAreReplies
  <2>2. tx' = tx \o told \o <<[kind |-> "answer", line |-> Head(rx)]>>
    BY DEF Answer
  <2>3. tx \in Seq(Reply)
    BY <1>1 DEF WiresTyped
  <2> HIDE DEF told
  <2>4. QED
    BY <2>1, <2>2, <2>3
<1>4. WiresTyped'
  BY <1>2, <1>3 DEF WiresTyped
<1>5. QED
  BY <1>1, <1>4, Frames, TypePartsAfter DEF Answer, seen, links, tail, slots, count

LEMMA ResetTyped == ASSUME TypeOK, Reset PROVE TypeOK'
<1>1. /\ PortTyped /\ WiresTyped /\ FlagsTyped /\ ConnTyped /\ ProbeTyped
      /\ TailTyped /\ SlotsTyped /\ OpTyped /\ CountTyped
  BY TypeParts
<1>2. WiresTyped'
  <2>1. [kind |-> "welcome"] \in Reply
    BY DEF Reply
  <2>2. tx' = Append(tx, [kind |-> "welcome"]) /\ rx' = <<>>
    BY DEF Reset
  <2>3. QED
    BY <1>1, <2>1, <2>2 DEF WiresTyped
<1>3. FlagsTyped'
  BY <1>1 DEF Reset, FlagsTyped, seen, slots
<1>4. ConnTyped'
  BY <1>1 DEF Reset, ConnTyped
<1>5. CountTyped'
  BY <1>1 DEF Reset, CountTyped
<1>6. QED
  BY <1>1, <1>2, <1>3, <1>4, <1>5, Frames, TypePartsAfter DEF Reset, seen, slots

LEMMA NoDeviceTyped == ASSUME TypeOK, NoDevice PROVE TypeOK'
<1>1. /\ PortTyped /\ WiresTyped /\ FlagsTyped /\ ConnTyped /\ ProbeTyped
      /\ TailTyped /\ SlotsTyped /\ OpTyped /\ CountTyped
  BY TypeParts
<1>2. ConnTyped' /\ gate' = TRUE
  BY <1>1, OpenKeeps DEF NoDevice
<1>3. FlagsTyped'
  BY <1>1, <1>2 DEF NoDevice, FlagsTyped, wires, seen, tail, slots
<1>4. QED
  BY <1>1, <1>2, <1>3, Frames, TypePartsAfter DEF NoDevice, wires, tail, slots

LEMMA OpenPortTyped == ASSUME TypeOK, OpenPort PROVE TypeOK'
<1>1. /\ PortTyped /\ WiresTyped /\ FlagsTyped /\ ConnTyped /\ ProbeTyped
      /\ TailTyped /\ SlotsTyped /\ OpTyped /\ CountTyped
  BY TypeParts
<1>2. WiresTyped'
  <2>1. <<[kind |-> "welcome"]>> \in Seq(Reply)
    BY DEF Reply
  <2>2. QED
    BY <1>1, <2>1 DEF OpenPort, WiresTyped
<1>3. PortTyped'
  BY <1>1 DEF OpenPort, PortTyped
<1>4. FlagsTyped'
  BY <1>1 DEF OpenPort, FlagsTyped, tail, slots
<1>5. ProbeTyped'
  BY <1>1 DEF OpenPort, ProbeTyped, Stages
<1>6. QED
  BY <1>1, <1>2, <1>3, <1>4, <1>5, Frames, TypePartsAfter DEF OpenPort, tail, slots

LEMMA PortLostTyped == ASSUME TypeOK, PortLost PROVE TypeOK'
<1>1. /\ PortTyped /\ WiresTyped /\ FlagsTyped /\ ConnTyped /\ ProbeTyped
      /\ TailTyped /\ SlotsTyped /\ OpTyped /\ CountTyped
  BY TypeParts
<1>2. PortTyped' /\ WiresTyped'
  BY <1>1 DEF PortLost, PortTyped, WiresTyped
<1>3. FlagsTyped'
  BY <1>1 DEF PortLost, FlagsTyped, seen, slots
<1>4. ConnTyped'
  <2>1. client' = NoClient /\ conn \in [Clients -> Places]
    BY <1>1 DEF PortLost, ConnTyped
  <2>2. conn' \in [Clients -> Places]
    BY <2>1 DEF PortLost, Places
  <2>3. QED
    BY <2>1, <2>2 DEF ConnTyped
<1>5. QED
  BY <1>1, <1>2, <1>3, <1>4, Frames, TypePartsAfter DEF PortLost, slots

\* The slots are released, and the tail gives up a line.
LEMMA ReleaseTyped ==
  ASSUME SlotsTyped, NEW n \in 0 .. 2, Release(n), hand' = hand
  PROVE  SlotsTyped'
<1>1. injected' = SubSeq(injected, n + 1, Len(injected))
  BY DEF Release
<1>2. injected' \in Seq({"fresh", "past"})
  BY <1>1 DEF SlotsTyped
<1>3. Len(injected') <= Len(injected)
  BY <1>1 DEF SlotsTyped
<1>4. QED
  BY <1>2, <1>3 DEF SlotsTyped

LEMMA AcknowledgeTyped ==
  ASSUME TailTyped, desynced \in BOOLEAN, Acknowledge
  PROVE  TailTyped' /\ desynced' \in BOOLEAN
<1>1. CASE pending = <<>> /\ desynced' = TRUE /\ UNCHANGED pending
  BY <1>1 DEF TailTyped
<1>2. CASE pending # <<>> /\ pending' = Tail(pending) /\ UNCHANGED desynced
  BY <1>2, HeadTailProperties DEF TailTyped
<1>3. QED
  BY <1>1, <1>2 DEF Acknowledge

LEMMA ObserveTyped == ASSUME TypeOK, Observe PROVE TypeOK'
<1>1. /\ PortTyped /\ WiresTyped /\ FlagsTyped /\ ConnTyped /\ ProbeTyped
      /\ TailTyped /\ SlotsTyped /\ OpTyped /\ CountTyped
  BY TypeParts
<1>3. /\ {heard, laser, gate, desynced, clean, missed} \subseteq BOOLEAN
      /\ relayed = TRUE /\ relayed' = FALSE /\ hand' = hand /\ gate' = gate
  BY <1>1 DEF Observe, FlagsTyped, links
<1>2. WiresTyped'
  BY <1>1 DEF Observe, WiresTyped
<1>4. /\ TailTyped' /\ SlotsTyped'
      /\ {heard', laser', desynced', clean', missed'} \subseteq BOOLEAN
  <2>1. CASE /\ \E kind \in {"ok", "error"} : Answers(kind)
             /\ UNCHANGED <<seen, clean>> /\ IsAnswer(Head(tx))
    <3>1. Release(1) /\ Acknowledge
      BY <2>1 DEF Answers
    <3>2. TailTyped' /\ desynced' \in BOOLEAN
      BY <1>1, <1>3, <3>1, AcknowledgeTyped
    <3>3. SlotsTyped'
      BY <1>1, <1>3, <3>1, ReleaseTyped
    <3>4. missed' \in BOOLEAN
      BY <1>3, <3>1 DEF Release
    <3>5. QED
      BY <1>3, <2>1, <3>2, <3>3, <3>4 DEF seen
  <2>2. CASE laser' = TRUE /\ UNCHANGED <<heard, injected, missed, tail>>
    BY <1>1, <1>3, <2>2, Frames DEF tail
  <2>3. CASE /\ heard' = TRUE /\ injected' = <<>> /\ Forget
             /\ clean' = (rx \o Tail(tx) = <<>> /\ \A c \in Clients : ~Between(c))
             /\ missed' = (hand # "none")
             /\ UNCHANGED laser
    <3>1. TailTyped' /\ SlotsTyped'
      BY <1>1, <1>3, <2>3 DEF Forget, TailTyped, SlotsTyped
    <3>2. desynced' \in BOOLEAN /\ clean' \in BOOLEAN /\ missed' \in BOOLEAN
      BY <2>3 DEF Forget
    <3>3. QED
      BY <1>3, <2>3, <3>1, <3>2
  <2>4. IsAnswer(Head(tx)) \/ Head(tx).kind = "setting" \/ Head(tx).kind = "welcome"
    <3>1. Head(tx) \in Reply
      BY <1>1, HeadTailProperties DEF Observe, WiresTyped
    <3>2. QED
      BY <3>1 DEF Reply, IsAnswer
  <2>5. CASE IsAnswer(Head(tx))
    <3>1. (\E kind \in {"ok", "error"} : Answers(kind)) /\ UNCHANGED <<seen, clean>>
      BY <2>5 DEF Observe, IsAnswer
    <3>2. QED
      BY <2>1, <2>5, <3>1
  <2>6. CASE ~IsAnswer(Head(tx)) /\ Head(tx).kind = "setting"
    BY <2>2, <2>6 DEF Observe
  <2>7. CASE ~IsAnswer(Head(tx)) /\ Head(tx).kind = "welcome"
    BY <2>3, <2>7 DEF Observe
  <2>8. QED
    BY <2>4, <2>5, <2>6, <2>7
<1>5. FlagsTyped'
  BY <1>3, <1>4 DEF FlagsTyped
<1>6. QED
  BY <1>1, <1>2, <1>4, <1>5, Frames, TypePartsAfter DEF Observe, links

LEMMA RelayTyped == ASSUME TypeOK, Relay PROVE TypeOK'
<1>1. /\ PortTyped /\ WiresTyped /\ FlagsTyped /\ ConnTyped /\ ProbeTyped
      /\ TailTyped /\ SlotsTyped /\ OpTyped /\ CountTyped
  BY TypeParts
<1>2. FlagsTyped'
  BY <1>1 DEF Relay, FlagsTyped, seen, links, tail, slots
<1>3. QED
  BY <1>1, <1>2, Frames, TypePartsAfter DEF Relay, seen, links, tail, slots, count

-----------------------------------------------------------------------------
(***************************************************************************)
(* The probes.                                                             *)
(***************************************************************************)
LEMMA ProbeMoves ==
  ASSUME ConnTyped, ProbeTyped, gate \in BOOLEAN, client' = client,
         NEW p \in 1 .. MaxOpens,
         Finish(p) \/ \E where \in Stages : GoOn(p, where)
  PROVE  ConnTyped' /\ ProbeTyped' /\ gate' \in BOOLEAN
<1>1. CASE Finish(p)
  BY <1>1, OpenKeeps DEF Finish, ProbeTyped, Stages
<1>2. CASE \E where \in Stages : GoOn(p, where)
  BY <1>2 DEF GoOn, ProbeTyped, ConnTyped
<1>3. QED
  BY <1>1, <1>2

LEMMA ProbingTyped ==
  ASSUME TypeOK, NEW p \in 1 .. MaxOpens,
         Identify(p) \/ Ask(p) \/ Question(p) \/ Asked(p)
  PROVE  TypeOK'
<1>1. /\ PortTyped /\ WiresTyped /\ FlagsTyped /\ ConnTyped /\ ProbeTyped
      /\ TailTyped /\ SlotsTyped /\ OpTyped /\ CountTyped
  BY TypeParts
<1>2. Finish(p) \/ \E where \in Stages : GoOn(p, where)
  BY DEF Identify, Ask, Question, Asked, Stages
<1>3. client' = client /\ UNCHANGED <<injected, hand, op, pending, count, port, opens, tx>>
  BY DEF Identify, Ask, Question, Asked, wires, seen, tail, slots, count
<1>4. ConnTyped' /\ ProbeTyped' /\ gate' \in BOOLEAN
  BY <1>1, <1>2, <1>3, ProbeMoves DEF FlagsTyped
<1>5. FlagsTyped'
  <2>1. /\ UNCHANGED <<relayed, heard, laser, desynced, missed>>
        /\ clean' = clean \/ clean' = FALSE
    BY DEF Identify, Ask, Question, Asked, wires, seen, tail, slots
  <2>2. QED
    BY <1>1, <1>4, <2>1 DEF FlagsTyped
<1>6. WiresTyped'
  <2>1. CASE rx' = rx
    BY <1>1, <1>3, <2>1 DEF WiresTyped
  <2>2. CASE rx' = Append(rx, TheQuestion)
    <3>1. TheQuestion \in Line
      BY DEF TheQuestion, Line
    <3>2. QED
      BY <1>1, <1>3, <2>2, <3>1, AppendProperties DEF WiresTyped
  <2>3. QED
    BY <2>1, <2>2 DEF Identify, Ask, Question, Asked, wires
<1>7. QED
  BY <1>1, <1>3, <1>4, <1>5, <1>6, Frames, TypePartsAfter

-----------------------------------------------------------------------------
(***************************************************************************)
(* The clients.                                                            *)
(***************************************************************************)
LEMMA ConnMoves ==
  ASSUME ConnTyped, NEW c \in Clients, NEW at \in Places,
         conn' = [conn EXCEPT ![c] = at], client' \in {client, c, NoClient}
  PROVE  ConnTyped'
BY DEF ConnTyped

\* A number that is noted for a connection is one that was given out.
LEMMA ChunkNoted ==
  ASSUME lines \in Nat, chunk \in [Clients -> 0 .. lines], NEW c \in Clients,
         chunk' = [chunk EXCEPT ![c] = lines + 1], lines' = lines + 1
  PROVE  chunk' \in [Clients -> 0 .. lines']
<1>1. \A d \in Clients : chunk[d] \in 0 .. lines + 1
  <2>1. TAKE d \in Clients
  <2>2. chunk[d] \in 0 .. lines
    OBVIOUS
  <2>3. QED
    BY <2>2
<1>2. lines + 1 \in 0 .. lines + 1
  OBVIOUS
<1>3. QED
  BY <1>1, <1>2

LEMMA RecordTyped == ASSUME TypeOK, NEW c \in Clients, Record(c) PROVE TypeOK'
<1>1. /\ PortTyped /\ WiresTyped /\ FlagsTyped /\ ConnTyped /\ ProbeTyped
      /\ TailTyped /\ SlotsTyped /\ OpTyped /\ CountTyped
  BY TypeParts
<1>2. ConnTyped'
  BY <1>1, ConnMoves DEF Record, Places
<1>3. lines \in Nat /\ lines + 1 <= MaxLines
  BY <1>1 DEF Record, CountTyped
<1>4. CountTyped'
  <2>1. lines' = lines + 1 /\ chunk' = [chunk EXCEPT ![c] = lines + 1] /\ resets' = resets
    BY DEF Record
  <2>2. chunk' \in [Clients -> 0 .. lines']
    BY <1>1, <1>3, <2>1, ChunkNoted DEF CountTyped
  <2>3. QED
    BY <1>1, <1>3, <2>1, <2>2 DEF CountTyped
<1>5. TailTyped'
  <2> DEFINE S == [by : Clients, id : 1 .. MaxLines]
             R == [by : {c}, id : 1 .. MaxLines]
  <2>1. New(c, 1) \in Seq(R)
    BY <1>3, NewAreLines
  <2>2. New(c, 1) \in Seq(S)
    <3>1. R \subseteq S
      OBVIOUS
    <3> HIDE DEF R, S
    <3>2. QED
      BY <2>1, <3>1, SeqMonotonic
  <2>3. pending \in Seq(S) /\ pending' = pending \o New(c, 1)
    BY <1>1 DEF Record, TailTyped
  <2> HIDE DEF S
  <2>4. pending' \in Seq(S)
    BY <2>2, <2>3, ConcatProperties
  <2>5. QED
    BY <2>4 DEF TailTyped, S
<1>6. FlagsTyped'
  <2>1. UNCHANGED <<relayed, heard, laser, gate, desynced, missed>> /\ clean' \in BOOLEAN
    BY <1>1 DEF Record, wires, seen, slots
  <2>2. QED
    BY <1>1, <2>1 DEF FlagsTyped
<1>7. QED
  BY <1>1, <1>2, <1>4, <1>5, <1>6, Frames, TypePartsAfter DEF Record, wires, slots

LEMMA SendTyped == ASSUME TypeOK, NEW c \in Clients, Send(c) PROVE TypeOK'
<1>1. /\ PortTyped /\ WiresTyped /\ FlagsTyped /\ ConnTyped /\ ProbeTyped
      /\ TailTyped /\ SlotsTyped /\ OpTyped /\ CountTyped
  BY TypeParts
<1>2. ConnTyped'
  BY <1>1, ConnMoves DEF Send, Places
<1>3. WiresTyped'
  <2>1. [by |-> c, id |-> chunk[c]] \in Line
    <3>1. chunk[c] \in 0 .. lines /\ lines \in 0 .. MaxLines
      BY <1>1 DEF CountTyped
    <3>2. chunk[c] \in 0 .. MaxLines
      BY <3>1
    <3>3. QED
      BY <3>2 DEF Line
  <2>2. QED
    BY <1>1, <2>1, AppendProperties DEF Send, WiresTyped
<1>4. FlagsTyped'
  <2>1. UNCHANGED <<relayed, heard, laser, gate, desynced, missed>> /\ clean' \in BOOLEAN
    BY DEF Send, seen, slots
  <2>2. QED
    BY <1>1, <2>1 DEF FlagsTyped
<1>5. QED
  BY <1>1, <1>2, <1>3, <1>4, Frames, TypePartsAfter DEF Send, slots, count

LEMMA ServingTyped ==
  ASSUME TypeOK, NEW c \in Clients,
         Arrive(c) \/ Attach(c) \/ StartOver(c) \/ Read(c) \/ Leave(c)
  PROVE  TypeOK'
<1>1. /\ PortTyped /\ WiresTyped /\ FlagsTyped /\ ConnTyped /\ ProbeTyped
      /\ TailTyped /\ SlotsTyped /\ OpTyped /\ CountTyped
  BY TypeParts
<1>2. ConnTyped'
  BY <1>1, ConnMoves DEF Arrive, Attach, StartOver, Read, Leave, Places
<1>3. UNCHANGED <<wires, seen, gate, probe, slots, count>>
  BY DEF Arrive, Attach, StartOver, Read, Leave
<1>4. TailTyped' /\ {desynced', clean'} \subseteq BOOLEAN
  <2>1. CASE UNCHANGED tail
    BY <1>1, <2>1 DEF tail, TailTyped, FlagsTyped
  <2>2. CASE StartOver(c)
    <3>1. pending' = <<>> /\ desynced' = FALSE
      BY <2>2 DEF StartOver, Forget
    <3>2. clean' \in BOOLEAN
      BY <2>2 DEF StartOver
    <3>3. TailTyped'
      BY <3>1 DEF TailTyped
    <3>4. QED
      BY <3>1, <3>2, <3>3
  <2>3. QED
    BY <2>1, <2>2 DEF Arrive, Attach, Read, Leave
<1>5. FlagsTyped'
  BY <1>1, <1>3, <1>4 DEF FlagsTyped, wires, seen, slots
<1>6. QED
  BY <1>1, <1>2, <1>3, <1>4, <1>5, Frames, TypePartsAfter DEF wires, slots

-----------------------------------------------------------------------------
(***************************************************************************)
(* The operator and the watchdog.                                          *)
(***************************************************************************)
LEMMA CheckTyped == ASSUME TypeOK, Check PROVE TypeOK'
<1>1. /\ PortTyped /\ WiresTyped /\ FlagsTyped /\ ConnTyped /\ ProbeTyped
      /\ TailTyped /\ SlotsTyped /\ OpTyped /\ CountTyped
  BY TypeParts
<1>2. OpTyped'
  BY <1>1 DEF Check, OpTyped, PortTyped
<1>3. FlagsTyped'
  BY <1>1 DEF Check, FlagsTyped, wires, seen, links, tail
<1>4. QED
  BY <1>1, <1>2, <1>3, Frames, TypePartsAfter DEF Check, wires, links, tail

\* A request is let in whole, or put off: its slots are the newest and what is
\* released is the oldest.
LEMMA ClaimKeepsTheSlots ==
  ASSUME SlotsTyped, OpTyped, Claim
  PROVE  /\ SlotsTyped'
         /\ op.n <= Slots - Len(injected) =>
              Len(injected') = Len(injected) + op.n /\ op' = [op EXCEPT !.at = "claimed"]
         /\ ~(op.n <= Slots - Len(injected)) =>
              Len(injected') = Len(injected) /\ op' = Quiet
<1> DEFINE free == Slots - Len(injected)
           fresh(n) == [i \in 1 .. n |-> "fresh"]
<1>1. injected \in Seq({"fresh", "past"}) /\ Len(injected) \in Nat /\ free \in Nat
      /\ op.n \in Nat
  BY LenProperties DEF SlotsTyped, OpTyped
<1>2. \A n \in Nat : fresh(n) \in Seq({"fresh", "past"}) /\ Len(fresh(n)) = n
  <2>1. TAKE n \in Nat
  <2>2. fresh(n) \in [1 .. n -> {"fresh", "past"}]
    OBVIOUS
  <2>3. QED
    BY <2>2, FunctionsAreSeqs
<1>3. /\ op.n <= free => injected' = injected \o fresh(op.n) /\ op' = [op EXCEPT !.at = "claimed"]
      /\ ~(op.n <= free) => injected' = SubSeq(injected \o fresh(free), free + 1, Slots) /\ op' = Quiet
      /\ hand' = hand
  BY DEF Claim
<1> HIDE DEF free, fresh
<1>4. CASE op.n <= free
  <2>1. /\ injected' \in Seq({"fresh", "past"})
        /\ Len(injected') = Len(injected) + op.n
    <3>1. fresh(op.n) \in Seq({"fresh", "past"}) /\ Len(fresh(op.n)) = op.n
      BY <1>1, <1>2
    <3>2. injected' = injected \o fresh(op.n)
      BY <1>3, <1>4
    <3> DEFINE some == fresh(op.n)
               S == {"fresh", "past"}
    <3>3. some \in Seq(S) /\ injected \in Seq(S)
      BY <1>1, <3>1
    <3> HIDE DEF some, S
    <3>4. injected \o some \in Seq(S) /\ Len(injected \o some) = Len(injected) + Len(some)
      BY <3>3, ConcatProperties
    <3>5. QED
      BY <3>1, <3>2, <3>4 DEF some, S
  <2>2. QED
    BY <1>1, <1>3, <1>4, <2>1 DEF SlotsTyped, free
<1>5. CASE ~(op.n <= free)
  <2> DEFINE all == injected \o fresh(free)
  <2>1. all \in Seq({"fresh", "past"}) /\ Len(all) = Slots
    BY <1>1, <1>2, ConcatProperties DEF free
  <2>2. injected' = SubSeq(all, free + 1, Slots)
    BY <1>3, <1>5
  <2> HIDE DEF all
  <2>3. \A i \in free + 1 .. Slots : all[i] \in {"fresh", "past"}
    BY <1>1, <2>1, ElementOfSeq
  <2>4. /\ injected' \in Seq({"fresh", "past"})
        /\ Len(injected') = IF free + 1 <= Slots THEN Slots - (free + 1) + 1 ELSE 0
    BY <1>1, <2>2, <2>3, SubSeqProperties
  <2>5. Len(injected') = Len(injected)
    BY <1>1, <2>4 DEF free
  <2>6. QED
    BY <1>3, <1>5, <2>4, <2>5 DEF SlotsTyped, free
<1>6. QED
  BY <1>4, <1>5 DEF free

LEMMA ClaimTyped == ASSUME TypeOK, Claim PROVE TypeOK'
<1>1. /\ PortTyped /\ WiresTyped /\ FlagsTyped /\ ConnTyped /\ ProbeTyped
      /\ TailTyped /\ SlotsTyped /\ OpTyped /\ CountTyped
  BY TypeParts
<1>2. SlotsTyped' /\ op' \in {[op EXCEPT !.at = "claimed"], Quiet}
  BY <1>1, ClaimKeepsTheSlots DEF Claim
<1>3. OpTyped'
  BY <1>1, <1>2 DEF OpTyped, Quiet
<1>4. FlagsTyped'
  BY <1>1 DEF Claim, FlagsTyped, wires, seen, links, tail
<1>5. QED
  BY <1>1, <1>2, <1>3, <1>4, Frames, TypePartsAfter DEF Claim, wires, links, tail

LEMMA SendLinesTyped == ASSUME TypeOK, SendLines PROVE TypeOK'
<1>1. /\ PortTyped /\ WiresTyped /\ FlagsTyped /\ ConnTyped /\ ProbeTyped
      /\ TailTyped /\ SlotsTyped /\ OpTyped /\ CountTyped
  BY TypeParts
<1>2. OpTyped'
  BY DEF SendLines, OpTyped, Quiet
<1>3. op.n \in 0 .. 2 /\ op.n \in Nat /\ lines \in Nat
  BY <1>1 DEF OpTyped, CountTyped
<1>4. CASE /\ lines + op.n <= MaxLines
           /\ rx' = rx \o New("operator", op.n) /\ lines' = lines + op.n
           /\ clean' = FALSE /\ UNCHANGED <<injected, missed>>
  <2>1. FlagsTyped' /\ CountTyped'
    <3>1. CountTyped'
      <4>1. /\ lines' = lines + op.n /\ resets' = resets /\ lines + op.n <= MaxLines
            /\ chunk' = chunk
        BY <1>4 DEF SendLines
      <4>2. chunk' \in [Clients -> 0 .. lines']
        <5>1. \A n \in 0 .. lines : n \in 0 .. lines + op.n
          BY <1>3
        <5>2. QED
          BY <1>1, <4>1, <5>1 DEF CountTyped
      <4>3. QED
        BY <1>1, <1>3, <4>1, <4>2 DEF CountTyped
    <3>2. UNCHANGED <<relayed, heard, laser, gate, desynced, missed>> /\ clean' = FALSE
      BY <1>4 DEF SendLines, seen, links
    <3>3. QED
      BY <1>1, <3>1, <3>2 DEF FlagsTyped
  <2>2. WiresTyped'
    <3>1. New("operator", op.n) \in Seq([by : {"operator"}, id : 1 .. MaxLines])
      BY <1>3, <1>4, NewAreLines
    <3>2. New("operator", op.n) \in Seq(Line)
      <4>1. [by : {"operator"}, id : 1 .. MaxLines] \subseteq Line
        BY DEF Line
      <4>2. QED
        BY <3>1, <4>1, SeqMonotonic
    <3>3. rx' \in Seq(Line)
      BY <1>1, <1>4, <3>2, ConcatProperties DEF WiresTyped
    <3>4. QED
      BY <1>1, <3>3 DEF SendLines, WiresTyped
  <2>3. QED
    BY <1>1, <1>2, <1>4, <2>1, <2>2, Frames, TypePartsAfter DEF SendLines, links
<1>5. CASE Release(op.n) /\ UNCHANGED <<rx, lines, clean>>
  <2>1. SlotsTyped'
    BY <1>1, <1>3, <1>5, ReleaseTyped DEF SendLines
  <2>2. FlagsTyped'
    BY <1>1, <1>5 DEF SendLines, FlagsTyped, Release, seen, links
  <2>3. QED
    BY <1>1, <1>2, <1>5, <2>1, <2>2, Frames, TypePartsAfter DEF SendLines, links, count
<1>6. QED
  BY <1>4, <1>5 DEF SendLines

LEMMA TickingTyped == ASSUME TypeOK, Ticking PROVE TypeOK'
<1>1. /\ PortTyped /\ WiresTyped /\ FlagsTyped /\ ConnTyped /\ ProbeTyped
      /\ TailTyped /\ SlotsTyped /\ OpTyped /\ CountTyped
  BY TypeParts
<1>2. UNCHANGED <<wires, seen, links, tail, missed, op, count>>
  BY DEF Ticking, TakeOut, PutBack, Age
<1>3. SlotsTyped'
  <2>1. CASE TakeOut
    BY <1>1, <2>1, HeadTailProperties DEF TakeOut, SlotsTyped
  <2>2. CASE PutBack
    BY <1>1, <2>2, AppendProperties DEF PutBack, SlotsTyped
  <2>3. CASE Age
    <3>1. injected' \in [1 .. Len(injected) -> {"fresh", "past"}] /\ Len(injected) \in Nat
      BY <1>1, <2>3, LenProperties DEF Age, SlotsTyped
    <3>2. injected' \in Seq({"fresh", "past"}) /\ Len(injected') = Len(injected)
      BY <3>1, FunctionsAreSeqs
    <3>3. QED
      BY <1>1, <2>3, <3>2 DEF Age, SlotsTyped
  <2>4. QED
    BY <2>1, <2>2, <2>3 DEF Ticking
<1>4. FlagsTyped'
  BY <1>1, <1>2 DEF FlagsTyped, wires, seen, links, tail
<1>5. QED
  BY <1>1, <1>2, <1>3, <1>4, Frames, TypePartsAfter DEF wires, links, tail

-----------------------------------------------------------------------------
LEMMA InitTyped == Init => TypeOK
<1> SUFFICES ASSUME Init PROVE TypeOK
  OBVIOUS
<1>1. PortTyped /\ FlagsTyped /\ ConnTyped /\ ProbeTyped /\ OpTyped /\ CountTyped
  <2>1. PortTyped /\ CountTyped
    BY DEF Init, PortTyped, CountTyped
  <2>2. FlagsTyped
    BY DEF Init, FlagsTyped
  <2>3. ConnTyped /\ ProbeTyped
    BY DEF Init, ConnTyped, ProbeTyped, Places, Stages
  <2>4. OpTyped
    BY DEF Init, OpTyped, Quiet, Nobody
  <2>5. QED
    BY <2>1, <2>2, <2>3, <2>4
<1>2. WiresTyped /\ TailTyped /\ SlotsTyped
  BY DEF Init, WiresTyped, TailTyped, SlotsTyped
<1>3. QED
  BY <1>1, <1>2, TypeParts

LEMMA StepTyped == ASSUME TypeOK, [Next]_vars PROVE TypeOK'
<1>1. CASE Device
  BY <1>1, AnswerTyped, ResetTyped, NoDeviceTyped, OpenPortTyped, PortLostTyped,
     RelayTyped, ObserveTyped DEF Device
<1>2. CASE Probing
  BY <1>2, ProbingTyped DEF Probing
<1>3. CASE Serving
  BY <1>3, ServingTyped, RecordTyped, SendTyped DEF Serving
<1>4. CASE Request
  BY <1>4, CheckTyped, ClaimTyped, SendLinesTyped DEF Request
<1>5. CASE Ticking
  BY <1>5, TickingTyped
<1>6. CASE UNCHANGED vars
  BY <1>6 DEF vars, wires, seen, links, tail, slots, count, TypeOK
<1>7. QED
  BY <1>1, <1>2, <1>3, <1>4, <1>5, <1>6 DEF Next

\* No slot is taken that is not there, and no line or question is lost count
\* of, however many clients, requests, releases and adapters there are: what
\* sendLines, recordReport and forgetStaleLines do to one channel at once.
THEOREM Typed == Spec => []TypeOK
<1>1. QED
  BY InitTyped, StepTyped, PTL DEF Spec

-----------------------------------------------------------------------------
(***************************************************************************)
(* The books.  What is remembered is what the replies on their way answer, *)
(* what the controller holds, and what is between the record and the port, *)
(* in the order of the record, whoever has the port by now.                *)
(***************************************************************************)
LinesOf(s) == [i \in DOMAIN s |-> s[i].line]

AllAnswers(s) == \A i \in DOMAIN s : IsAnswer(s[i])

LEMMA LinesOfIsSeq ==
  ASSUME NEW s \in Seq(Reply), AllAnswers(s)
  PROVE  LinesOf(s) \in Seq(Line) /\ Len(LinesOf(s)) = Len(s)
<1>1. Len(s) \in Nat /\ DOMAIN s = 1 .. Len(s)
  BY LenProperties
<1>2. \A i \in 1 .. Len(s) : s[i].line \in Line
  <2>1. TAKE i \in 1 .. Len(s)
  <2>2. s[i] \in Reply
    BY ElementOfSeq
  <2>3. IsAnswer(s[i])
    BY <1>1 DEF AllAnswers
  <2>4. QED
    BY <2>2, <2>3 DEF Reply, IsAnswer
<1>3. LinesOf(s) \in [1 .. Len(s) -> Line]
  BY <1>1, <1>2 DEF LinesOf
<1>4. QED
  BY <1>1, <1>3, FunctionsAreSeqs

LEMMA LinesOfAppend ==
  ASSUME NEW s \in Seq(Reply), AllAnswers(s), NEW a \in Reply, IsAnswer(a)
  PROVE  /\ AllAnswers(Append(s, a))
         /\ LinesOf(Append(s, a)) = Append(LinesOf(s), a.line)
<1> DEFINE t == Append(s, a)
<1>1. /\ t \in Seq(Reply) /\ Len(t) = Len(s) + 1 /\ Len(s) \in Nat
      /\ \A i \in 1 .. Len(s) : t[i] = s[i]
      /\ t[Len(s) + 1] = a
  BY AppendProperties, LenProperties
<1>2. DOMAIN s = 1 .. Len(s) /\ DOMAIN t = 1 .. Len(s) + 1
  BY <1>1, LenProperties
<1> HIDE DEF t
<1>3. AllAnswers(t)
  BY <1>1, <1>2 DEF AllAnswers
<1>4. LinesOf(s) \in Seq(Line) /\ Len(LinesOf(s)) = Len(s)
  BY LinesOfIsSeq
<1>5. LinesOf(t) \in Seq(Line) /\ Len(LinesOf(t)) = Len(s) + 1
  BY <1>1, <1>3, LinesOfIsSeq
<1>6. a.line \in Line
  BY DEF Reply, IsAnswer
<1>7. Append(LinesOf(s), a.line) \in Seq(Line)
      /\ Len(Append(LinesOf(s), a.line)) = Len(s) + 1
  BY <1>4, <1>6, AppendProperties
<1>8. \A i \in 1 .. Len(s) + 1 : LinesOf(t)[i] = Append(LinesOf(s), a.line)[i]
  <2>1. TAKE i \in 1 .. Len(s) + 1
  <2>2. LinesOf(t)[i] = t[i].line
    BY <1>2 DEF LinesOf
  <2>3. CASE i = Len(s) + 1
    BY <1>1, <1>4, <1>6, <2>2, <2>3, AppendProperties
  <2>4. CASE i \in 1 .. Len(s)
    <3>1. Append(LinesOf(s), a.line)[i] = LinesOf(s)[i]
      BY <1>4, <1>6, <2>4, AppendProperties
    <3>2. LinesOf(s)[i] = s[i].line
      BY <1>2, <2>4 DEF LinesOf
    <3>3. QED
      BY <1>1, <2>2, <2>4, <3>1, <3>2
  <2>5. i = Len(s) + 1 \/ i \in 1 .. Len(s)
    <3>1. Len(s) \in Nat
      BY <1>1
    <3>2. QED
      BY <3>1
  <2>6. QED
    BY <2>3, <2>4, <2>5, Zenon
<1>9. LinesOf(t) = Append(LinesOf(s), a.line)
  BY <1>5, <1>7, <1>8, SeqEqual
<1>10. QED
  BY <1>3, <1>9 DEF t

LEMMA LinesOfTail ==
  ASSUME NEW s \in Seq(Reply), AllAnswers(s), s # <<>>
  PROVE  /\ AllAnswers(Tail(s))
         /\ LinesOf(Tail(s)) = Tail(LinesOf(s)) /\ LinesOf(s) # <<>>
<1>1. /\ Len(s) \in Nat \ {0} /\ Tail(s) \in Seq(Reply) /\ Len(Tail(s)) = Len(s) - 1
      /\ \A i \in 1 .. Len(s) - 1 : Tail(s)[i] = s[i + 1]
  BY EmptySeq, HeadTailProperties
<1>2. DOMAIN s = 1 .. Len(s) /\ DOMAIN Tail(s) = 1 .. Len(s) - 1
  BY <1>1, LenProperties
<1>3. AllAnswers(Tail(s))
  BY <1>1, <1>2 DEF AllAnswers
<1>4. LinesOf(s) \in Seq(Line) /\ Len(LinesOf(s)) = Len(s)
  BY LinesOfIsSeq
<1>5. LinesOf(Tail(s)) \in Seq(Line) /\ Len(LinesOf(Tail(s))) = Len(s) - 1
  BY <1>1, <1>3, LinesOfIsSeq
<1>6. LinesOf(s) # <<>>
  BY <1>1, <1>4, EmptySeq
<1>7. /\ Tail(LinesOf(s)) \in Seq(Line) /\ Len(Tail(LinesOf(s))) = Len(s) - 1
      /\ \A i \in 1 .. Len(s) - 1 : Tail(LinesOf(s))[i] = LinesOf(s)[i + 1]
  BY <1>4, <1>6, HeadTailProperties
<1>8. \A i \in 1 .. Len(s) - 1 : LinesOf(Tail(s))[i] = Tail(LinesOf(s))[i]
  <2>1. TAKE i \in 1 .. Len(s) - 1
  <2>2. LinesOf(Tail(s))[i] = Tail(s)[i].line
    BY <1>2 DEF LinesOf
  <2>3. LinesOf(s)[i + 1] = s[i + 1].line
    BY <1>1, <1>2 DEF LinesOf
  <2>4. QED
    BY <1>1, <1>7, <2>2, <2>3
<1>9. LinesOf(Tail(s)) = Tail(LinesOf(s))
  BY <1>5, <1>7, <1>8, SeqEqual
<1>10. QED
  BY <1>3, <1>6, <1>9

\* What is answered, held and on its way, in this order.
Chain(t, r, l) == t \o r \o l

LEMMA NothingToChain == Chain(<<>>, <<>>, <<>>) = <<>>
BY DEF Chain

\* A line moves from the head of one sequence to the end of the other.
LEMMA HeadMoves ==
  ASSUME NEW S, NEW t \in Seq(S), NEW r \in Seq(S), r # <<>>
  PROVE  t \o r = Append(t, Head(r)) \o Tail(r)
<1>1. /\ Head(r) \in S /\ Tail(r) \in Seq(S) /\ Len(Tail(r)) = Len(r) - 1
      /\ \A i \in 1 .. Len(r) - 1 : Tail(r)[i] = r[i + 1]
      /\ Head(r) = r[1] /\ Len(r) \in Nat \ {0} /\ Len(t) \in Nat
  BY EmptySeq, HeadTailProperties, LenProperties
<1>2. /\ Append(t, Head(r)) \in Seq(S) /\ Len(Append(t, Head(r))) = Len(t) + 1
      /\ \A i \in 1 .. Len(t) : Append(t, Head(r))[i] = t[i]
      /\ Append(t, Head(r))[Len(t) + 1] = Head(r)
  BY <1>1, AppendProperties
<1> DEFINE a == Append(t, Head(r))  u == Tail(r)
<1> HIDE DEF a, u
<1>3. /\ t \o r \in Seq(S) /\ Len(t \o r) = Len(t) + Len(r)
      /\ \A i \in 1 .. Len(t) + Len(r) :
           (t \o r)[i] = IF i <= Len(t) THEN t[i] ELSE r[i - Len(t)]
  BY ConcatProperties
<1>4. /\ a \o u \in Seq(S) /\ Len(a \o u) = Len(t) + Len(r)
      /\ \A i \in 1 .. Len(t) + Len(r) :
           (a \o u)[i] = IF i <= Len(t) + 1 THEN a[i] ELSE u[i - (Len(t) + 1)]
  <2>1. a \in Seq(S) /\ u \in Seq(S) /\ Len(a) = Len(t) + 1 /\ Len(u) = Len(r) - 1
    BY <1>1, <1>2 DEF a, u
  <2>2. Len(a) + Len(u) = Len(t) + Len(r)
    BY <1>1, <2>1
  <2>3. /\ a \o u \in Seq(S) /\ Len(a \o u) = Len(a) + Len(u)
        /\ \A i \in 1 .. Len(a) + Len(u) :
             (a \o u)[i] = IF i <= Len(a) THEN a[i] ELSE u[i - Len(a)]
    <3>1. a \in Seq(S) /\ u \in Seq(S)
      BY <2>1
    <3>2. QED
      BY <3>1, ConcatProperties
  <2>4. QED
    BY <2>1, <2>2, <2>3
<1>5. \A i \in 1 .. Len(t) + Len(r) : (t \o r)[i] = (a \o u)[i]
  <2>1. TAKE i \in 1 .. Len(t) + Len(r)
  <2>2. CASE i <= Len(t)
    BY <1>1, <1>2, <1>3, <1>4, <2>2 DEF a
  <2>3. CASE i = Len(t) + 1
    <3>1. (t \o r)[i] = r[1]
      BY <1>1, <1>3, <2>3
    <3>2. (a \o u)[i] = Head(r)
      BY <1>1, <1>2, <1>4, <2>3 DEF a
    <3>3. QED
      BY <1>1, <3>1, <3>2
  <2>4. CASE i > Len(t) + 1
    <3>1. (t \o r)[i] = r[i - Len(t)]
      BY <1>1, <1>3, <2>4
    <3>2. (a \o u)[i] = u[i - (Len(t) + 1)]
      BY <1>1, <1>4, <2>4
    <3>3. u[i - (Len(t) + 1)] = r[(i - (Len(t) + 1)) + 1]
      BY <1>1, <2>4 DEF u
    <3>4. QED
      BY <1>1, <2>4, <3>1, <3>2, <3>3
  <2>5. i <= Len(t) \/ i = Len(t) + 1 \/ i > Len(t) + 1
    <3>1. Len(t) \in Nat /\ Len(r) \in Nat
      BY <1>1
    <3>2. QED
      BY <3>1
  <2>6. QED
    BY <2>2, <2>3, <2>4, <2>5, Zenon
<1>6. t \o r = a \o u
  BY <1>3, <1>4, <1>5, SeqEqual
<1>7. QED
  BY <1>6 DEF a, u

\* The controller answers the first line that it holds.
LEMMA MoveOver ==
  ASSUME NEW S, NEW t \in Seq(S), NEW r \in Seq(S), NEW l \in Seq(S), r # <<>>
  PROVE  Chain(t, r, l) = Chain(Append(t, Head(r)), Tail(r), l)
BY HeadMoves DEF Chain

\* The first line on its way reaches the controller.
LEMMA Arrives ==
  ASSUME NEW S, NEW t \in Seq(S), NEW r \in Seq(S), NEW l \in Seq(S), l # <<>>
  PROVE  Chain(t, r, l) = Chain(t, Append(r, Head(l)), Tail(l))
<1>1. PICK u \in Seq(S) : u = t \o r
  BY ConcatProperties
<1>2. PICK h \in S : h = Head(l)
  BY HeadTailProperties
<1>3. PICK o \in Seq(S) : o = <<h>>
  <2>1. <<h>> \in Seq(S)
    OBVIOUS
  <2>2. QED
    BY <2>1, Zenon
<1>4. u \o l = Append(u, h) \o Tail(l)
  BY <1>1, <1>2, HeadMoves
<1>5. Append(r, h) = r \o o /\ Append(u, h) = u \o o
  BY <1>3, AppendIsConcat
<1>6. (t \o r) \o o = t \o (r \o o)
  BY ConcatAssociative, SMTT(60)
<1>7. QED
  BY <1>1, <1>2, <1>4, <1>5, <1>6 DEF Chain

\* What is behind the first part is the second.
LEMMA TheRest ==
  ASSUME NEW S, NEW u \in Seq(S), NEW l \in Seq(S)
  PROVE  SubSeq(u \o l, Len(u) + 1, Len(u \o l)) = l
<1> DEFINE w == u \o l
<1>1. /\ w \in Seq(S) /\ Len(w) = Len(u) + Len(l)
      /\ \A i \in 1 .. Len(u) + Len(l) : w[i] = IF i <= Len(u) THEN u[i] ELSE l[i - Len(u)]
  BY ConcatProperties
<1>2. Len(u) \in Nat /\ Len(l) \in Nat
  BY LenProperties
<1> HIDE DEF w
<1> DEFINE m == Len(u) + 1
           n == Len(w)
           z == SubSeq(w, m, n)
<1>3. m \in Int /\ n \in Int /\ n - m + 1 = Len(l)
  BY <1>1, <1>2
<1>4. \A i \in m .. n : w[i] \in S
  BY <1>1, <1>2, ElementOfSeq
<1>5. /\ z \in Seq(S) /\ Len(z) = (IF m <= n THEN n - m + 1 ELSE 0)
      /\ \A i \in 1 .. n - m + 1 : z[i] = w[m + i - 1]
  <2> HIDE DEF m, n
  <2>1. QED
    BY <1>3, <1>4, SubSeqProperties
<1> HIDE DEF z
<1>6. Len(z) = Len(l)
  BY <1>1, <1>2, <1>5
<1>7. \A i \in 1 .. Len(l) : z[i] = l[i]
  <2>1. TAKE i \in 1 .. Len(l)
  <2>2. z[i] = w[m + i - 1]
    <3> HIDE DEF m, n
    <3>1. QED
      BY <1>3, <1>5
  <2>3. m + i - 1 = Len(u) + i
    BY <1>2
  <2>4. w[Len(u) + i] = l[i]
    BY <1>1, <1>2
  <2>5. QED
    BY <2>2, <2>3, <2>4
<1>8. z = l
  BY <1>5, <1>6, <1>7, SeqEqual
<1>9. QED
  BY <1>8 DEF z, w

\* The head of what is remembered goes with the head of its first part.
LEMMA TailOfTwo ==
  ASSUME NEW S, NEW t \in Seq(S), NEW w \in Seq(S), t # <<>>
  PROVE  t \o w # <<>> /\ Tail(t \o w) = Tail(t) \o w
<1>1. Len(w) \in Nat
  BY LenProperties
<1>3. /\ Tail(t) \in Seq(S) /\ Len(Tail(t)) = Len(t) - 1 /\ Len(t) \in Nat \ {0}
      /\ \A i \in 1 .. Len(t) - 1 : Tail(t)[i] = t[i + 1]
  BY EmptySeq, HeadTailProperties
<1>4. /\ t \o w \in Seq(S) /\ Len(t \o w) = Len(t) + Len(w)
      /\ \A i \in 1 .. Len(t) + Len(w) :
           (t \o w)[i] = IF i <= Len(t) THEN t[i] ELSE w[i - Len(t)]
  BY <1>1, ConcatProperties
<1>5. t \o w # <<>>
  BY <1>1, <1>3, <1>4, EmptySeq
<1>6. /\ Tail(t \o w) \in Seq(S) /\ Len(Tail(t \o w)) = Len(t) + Len(w) - 1
      /\ \A i \in 1 .. Len(t) + Len(w) - 1 : Tail(t \o w)[i] = (t \o w)[i + 1]
  BY <1>4, <1>5, HeadTailProperties
<1>7. /\ Tail(t) \o w \in Seq(S) /\ Len(Tail(t) \o w) = Len(t) + Len(w) - 1
      /\ \A i \in 1 .. Len(t) + Len(w) - 1 :
           (Tail(t) \o w)[i] = IF i <= Len(t) - 1 THEN Tail(t)[i] ELSE w[i - (Len(t) - 1)]
  <2>1. Len(Tail(t)) + Len(w) = Len(t) + Len(w) - 1
    BY <1>1, <1>3
  <2>2. QED
    BY <1>1, <1>3, <2>1, ConcatProperties
<1>8. \A i \in 1 .. Len(t) + Len(w) - 1 : Tail(t \o w)[i] = (Tail(t) \o w)[i]
  <2>1. TAKE i \in 1 .. Len(t) + Len(w) - 1
  <2>2. Tail(t \o w)[i] = IF i + 1 <= Len(t) THEN t[i + 1] ELSE w[i + 1 - Len(t)]
    BY <1>1, <1>3, <1>4, <1>6
  <2>3. (Tail(t) \o w)[i] = IF i + 1 <= Len(t) THEN t[i + 1] ELSE w[i + 1 - Len(t)]
    BY <1>1, <1>3, <1>7
  <2>4. QED
    BY <2>2, <2>3
<1>9. Tail(t \o w) = Tail(t) \o w
  BY <1>6, <1>7, <1>8, SeqEqual
<1>10. QED
  BY <1>5, <1>9

LEMMA TailOfParts ==
  ASSUME NEW S, NEW t \in Seq(S), NEW r \in Seq(S), NEW l \in Seq(S), t # <<>>
  PROVE  Chain(t, r, l) # <<>> /\ Tail(Chain(t, r, l)) = Chain(Tail(t), r, l)
<1>1. t \o r \in Seq(S) /\ t \o r # <<>> /\ Tail(t \o r) = Tail(t) \o r
  BY ConcatProperties, TailOfTwo
<1>2. QED
  BY <1>1, TailOfTwo DEF Chain

\* With no port nothing is on the wires and nobody is about to write.
Dark ==
  /\ port = 0 => /\ rx = <<>> /\ tx = <<>>
                  /\ \A c \in Clients : ~Between(c) /\ conn[c] # "read"
  /\ op.at \in {"checked", "claimed"} => op.port # 0

\* The lines that are between the record and the port, in order.
Waits(l) == {l[i] : i \in DOMAIN l} = OnTheWay /\ InOrder(l)

\* The strengthening: the books name what is answered, what is held and what
\* is on its way, whoever the client is.
Account(l) == Waits(l) /\ pending = Chain(LinesOf(Replies), rx, l)

Books ==
  clean => /\ ~desynced /\ AllAnswers(Replies)
           /\ \E l \in Seq(Line) : Account(l)

LEMMA RepliesAreReplies == ASSUME WiresTyped PROVE Replies \in Seq(Reply)
BY HeadTailProperties DEF WiresTyped, Replies

LEMMA BooksAreBalanced == ASSUME TypeOK, Books PROVE BooksBalance
<1> SUFFICES ASSUME clean PROVE BooksBalance
  BY DEF BooksBalance
<1>1. PICK l \in Seq(Line) : Account(l)
  BY DEF Books
<1>2. WiresTyped /\ AllAnswers(Replies)
  BY TypeParts DEF Books
<1> DEFINE u == Unanswered
<1>3. u = LinesOf(Replies) \o rx
  BY DEF Unanswered, LinesOf
<1>4. u \in Seq(Line)
  <2>1. LinesOf(Replies) \in Seq(Line) /\ rx \in Seq(Line)
    BY <1>2, RepliesAreReplies, LinesOfIsSeq DEF WiresTyped
  <2> HIDE DEF u
  <2>2. QED
    BY <1>3, <2>1, ConcatProperties
<1>5. pending = u \o l
  BY <1>1, <1>3 DEF Account, Chain
<1> HIDE DEF u
<1>6. SubSeq(pending, Len(u) + 1, Len(pending)) = l
  BY <1>4, <1>5, TheRest
<1>7. /\ ~desynced /\ \A i \in DOMAIN Replies : IsAnswer(Replies[i])
      /\ {l[i] : i \in DOMAIN l} = OnTheWay /\ InOrder(l)
  BY <1>1 DEF Books, AllAnswers, Account, Waits
<1>8. QED
  BY <1>5, <1>6, <1>7 DEF BooksBalance, u

LEMMA StepDark == ASSUME TypeOK, Dark, [Next]_vars PROVE Dark'
<1>1. port \in Nat /\ opens \in Nat /\ Quiet.at = "quiet"
  BY DEF TypeOK, Quiet
<1>2. CASE Device
  <2>1. CASE Answer \/ Reset \/ NoDevice \/ Relay \/ Observe
    <3>1. CASE NoDevice
      BY <3>1 DEF NoDevice, Open, Dark, Between, TypeOK, wires, slots
    <3>2. CASE Answer \/ Reset
      BY <3>2 DEF Answer, Reset, Dark, Between, links, slots
    <3>3. CASE Relay
      BY <3>3 DEF Relay, Dark, Between, links, slots
    <3>4. CASE Observe
      BY <3>4 DEF Observe, Dark, Between, links
    <3>5. QED
      BY <2>1, <3>1, <3>2, <3>3, <3>4
  <2>2. CASE OpenPort
    BY <1>1, <2>2 DEF OpenPort, Dark, Between, slots
  <2>3. CASE PortLost
    <3>1. \A c \in Clients : ~Between(c)' /\ conn'[c] # "read"
      BY <2>3 DEF PortLost, Between, TypeOK
    <3>2. UNCHANGED op /\ rx' = <<>> /\ tx' = <<>>
      BY <2>3 DEF PortLost, slots
    <3>3. QED
      BY <3>1, <3>2 DEF Dark
  <2>4. QED
    BY <1>2, <2>1, <2>2, <2>3 DEF Device
<1>3. CASE Probing
  <2>1. PICK p \in 1 .. MaxOpens : Identify(p) \/ Ask(p) \/ Question(p) \/ Asked(p)
    BY <1>3 DEF Probing
  <2>2. p # 0
    OBVIOUS
  <2>3. \A c \in Clients : /\ conn'[c] = "recorded" <=> conn[c] = "recorded"
                           /\ conn'[c] = "read" <=> conn[c] = "read"
    <3>1. conn' = conn \/ Open
      BY <2>1 DEF Identify, Ask, Question, Asked, GoOn, Finish
    <3>2. conn \in [Clients -> Places]
      BY DEF TypeOK, Places
    <3>3. QED
      BY <3>1, <3>2 DEF Open
  <2>4. CASE UNCHANGED <<port, opens, rx, tx, relayed, op>>
    BY <2>3, <2>4 DEF Dark, Between
  <2>5. CASE Question(p) /\ port = p
    BY <2>2, <2>3, <2>5 DEF Question, Dark, Between, slots
  <2>6. QED
    BY <2>1, <2>4, <2>5 DEF Identify, Ask, Question, Asked, wires, slots
<1>4. CASE Serving
  <2>1. PICK e \in Clients : \/ Arrive(e) \/ Attach(e) \/ StartOver(e) \/ Read(e)
                             \/ Record(e) \/ Send(e) \/ Leave(e)
    BY <1>4 DEF Serving
  <2>2. port' = port /\ tx' = tx /\ op' = op /\ conn \in [Clients -> Places]
    BY <2>1 DEF Arrive, Attach, StartOver, Read, Record, Send, Leave, wires, slots,
           TypeOK, Places
  <2>3. CASE port # 0
    BY <2>2, <2>3 DEF Dark
  <2>4. CASE port = 0
    <3>1. rx = <<>> /\ tx = <<>> /\ \A c \in Clients : ~Between(c) /\ conn[c] # "read"
      BY <2>4 DEF Dark
    <3>2. ~Send(e) /\ ~Read(e)
      BY <2>4, <3>1 DEF Send, Read
    <3>3. rx' = rx
      BY <2>1, <3>2 DEF Arrive, Attach, StartOver, Record, Leave, wires
    <3>4. \E at \in Places \ {"recorded", "read"} : conn' = [conn EXCEPT ![e] = at]
      <4>1. CASE Record(e)
        BY <3>1, <4>1 DEF Record, Places
      <4>2. CASE Arrive(e) \/ Attach(e) \/ StartOver(e) \/ Leave(e)
        BY <4>2 DEF Arrive, Attach, StartOver, Leave, Places
      <4>3. QED
        BY <2>1, <3>2, <4>1, <4>2
    <3>5. \A c \in Clients : ~Between(c)' /\ conn'[c] # "read"
      BY <2>2, <3>1, <3>4 DEF Between
    <3>6. QED
      BY <2>2, <3>1, <3>3, <3>5 DEF Dark
  <2>5. QED
    BY <2>3, <2>4
<1>5. CASE Request
  BY <1>5 DEF Request, Check, Claim, SendLines, Quiet, Dark, Between, TypeOK,
         wires, seen, links, tail, count
<1>6. CASE Ticking
  BY <1>6 DEF Ticking, TakeOut, PutBack, Age, Dark, Between, wires, seen, links, tail, count
<1>7. CASE UNCHANGED vars
  BY <1>7 DEF vars, wires, seen, links, tail, slots, count, Dark, Between
<1>8. QED
  BY <1>2, <1>3, <1>4, <1>5, <1>6, <1>7 DEF Next

\* Nobody joins those on their way, or leaves them.
LEMMA SameWay ==
  ASSUME chunk' = chunk, \A c \in Clients : Between(c)' <=> Between(c)
  PROVE  OnTheWay' = OnTheWay
<1>1. {d \in Clients : Between(d)'} = {d \in Clients : Between(d)}
  OBVIOUS
<1>2. QED
  BY <1>1 DEF OnTheWay

\* Steps that touch neither the wires nor the books.
LEMMA BooksFrame ==
  ASSUME Books, clean' => clean,
         clean' => UNCHANGED <<rx, tx, pending, desynced, chunk>>,
         clean' => \A c \in Clients : Between(c)' <=> Between(c)
  PROVE  Books'
<1> SUFFICES ASSUME clean' PROVE Books'
  BY DEF Books
<1>1. OnTheWay' = OnTheWay /\ Replies' = Replies
  BY SameWay DEF Replies
<1>2. PICK l \in Seq(Line) : Account(l)
  BY DEF Books
<1>3. Account(l)'
  BY <1>1, <1>2 DEF Account, Waits
<1>4. QED
  BY <1>1, <1>3 DEF Books

LEMMA BooksFramed ==
  ASSUME TypeOK, Books,
         \/ Reset \/ NoDevice \/ PortLost \/ Relay
         \/ \E p \in 1 .. MaxOpens : Identify(p) \/ Ask(p) \/ Question(p) \/ Asked(p)
         \/ \E c \in Clients : Arrive(c) \/ Attach(c) \/ Read(c) \/ Leave(c)
         \/ Request \/ Ticking \/ UNCHANGED vars
  PROVE  Books'
<1> USE DEF Between
<1>1. CASE Reset \/ PortLost
  BY <1>1 DEF Reset, PortLost, Books
<1>2. CASE NoDevice
  <2>1. UNCHANGED <<rx, tx, pending, desynced, chunk, clean>>
        /\ \A c \in Clients : Between(c)' <=> Between(c)
    BY <1>2 DEF NoDevice, Open, TypeOK, wires, tail, count
  <2>2. QED
    BY <2>1, BooksFrame
<1>3. CASE Relay
  <2>1. UNCHANGED <<rx, tx, pending, desynced, chunk, clean, conn>>
    BY <1>3 DEF Relay, links, tail, count
  <2>2. QED
    BY <2>1, BooksFrame
<1>4. CASE \E p \in 1 .. MaxOpens : Identify(p) \/ Ask(p) \/ Question(p) \/ Asked(p)
  <2>1. PICK p \in 1 .. MaxOpens : Identify(p) \/ Ask(p) \/ Question(p) \/ Asked(p)
    BY <1>4
  <2>2. UNCHANGED <<tx, pending, desynced, chunk>>
    BY <2>1 DEF Identify, Ask, Question, Asked, wires, tail, count
  <2>3. clean' => clean /\ rx' = rx
    BY <2>1 DEF Identify, Ask, Question, Asked, wires, tail
  <2>4. conn' = conn \/ conn' = [c \in Clients |-> IF conn[c] = "gate" THEN "through" ELSE conn[c]]
    BY <2>1 DEF Identify, Ask, Question, Asked, GoOn, Finish, Open
  <2>5. \A c \in Clients : Between(c)' <=> Between(c)
    BY <2>4 DEF TypeOK
  <2>6. QED
    BY <2>2, <2>3, <2>5, BooksFrame
<1>5. CASE \E c \in Clients : Arrive(c) \/ Attach(c) \/ Read(c) \/ Leave(c)
  <2>1. PICK e \in Clients : Arrive(e) \/ Attach(e) \/ Read(e) \/ Leave(e)
    BY <1>5
  <2>2. UNCHANGED <<rx, tx, pending, desynced, chunk, clean>>
    BY <2>1 DEF Arrive, Attach, Read, Leave, wires, tail, count
  <2>3. \A c \in Clients : Between(c)' <=> Between(c)
    BY <2>1 DEF Arrive, Attach, Read, Leave, TypeOK
  <2>4. QED
    BY <2>2, <2>3, BooksFrame
<1>6. CASE Request
  <2>1. UNCHANGED <<conn, tx, pending, desynced, chunk>> /\ (clean' => clean /\ rx' = rx)
    BY <1>6 DEF Request, Check, Claim, SendLines, wires, links, tail, count
  <2>2. QED
    BY <2>1, BooksFrame
<1>7. CASE Ticking
  <2>1. UNCHANGED <<rx, tx, pending, desynced, chunk, clean, conn>>
    BY <1>7 DEF Ticking, TakeOut, PutBack, Age, wires, links, tail, count
  <2>2. QED
    BY <2>1, BooksFrame
<1>8. CASE UNCHANGED vars
  <2>1. UNCHANGED <<rx, tx, pending, desynced, chunk, clean, conn>>
    BY <1>8 DEF vars, wires, links, tail, count
  <2>2. QED
    BY <2>1, BooksFrame
<1>9. QED
  BY <1>1, <1>2, <1>3, <1>4, <1>5, <1>6, <1>7, <1>8

\* While the books are complete, nothing in the buffer is anybody else's.
LEMMA ClientsOnly ==
  ASSUME TypeOK, Books, clean
  PROVE  \A i \in 1 .. Len(rx) : rx[i].by \in Clients
<1> DEFINE t == LinesOf(Replies)
<1>1. PICK l \in Seq(Line) : Account(l)
  BY DEF Books
<1>2. WiresTyped /\ TailTyped /\ AllAnswers(Replies)
  BY TypeParts DEF Books
<1>3. t \in Seq(Line) /\ rx \in Seq(Line)
  BY <1>2, RepliesAreReplies, LinesOfIsSeq DEF WiresTyped
<1>4. pending = t \o rx \o l
  BY <1>1 DEF Account, Chain
<1> HIDE DEF t
<1>5. /\ t \o rx \in Seq(Line) /\ Len(t \o rx) = Len(t) + Len(rx)
      /\ \A i \in 1 .. Len(t) + Len(rx) :
           (t \o rx)[i] = IF i <= Len(t) THEN t[i] ELSE rx[i - Len(t)]
  BY <1>3, ConcatProperties
<1>6. l \in Seq(Line) /\ Len(t) \in Nat /\ Len(rx) \in Nat /\ Len(l) \in Nat
  BY <1>3, LenProperties
<1>7. /\ Len(pending) = Len(t) + Len(rx) + Len(l)
      /\ \A i \in 1 .. Len(t) + Len(rx) : pending[i] = (t \o rx)[i]
  <2>1. /\ Len((t \o rx) \o l) = Len(t \o rx) + Len(l)
        /\ \A i \in 1 .. Len(t \o rx) + Len(l) :
             ((t \o rx) \o l)[i] = IF i <= Len(t \o rx) THEN (t \o rx)[i] ELSE l[i - Len(t \o rx)]
    BY <1>5, <1>6, ConcatProperties
  <2>2. QED
    BY <1>4, <1>5, <1>6, <2>1
<1>8. TAKE i \in 1 .. Len(rx)
<1>9. pending[Len(t) + i] = rx[i]
  <2>1. Len(t) + i \in 1 .. Len(t) + Len(rx) /\ ~(Len(t) + i <= Len(t)) /\ (Len(t) + i) - Len(t) = i
    BY <1>6
  <2>2. QED
    BY <1>5, <1>7, <2>1
<1>10. Len(t) + i \in 1 .. Len(pending)
  BY <1>6, <1>7
<1>11. pending[Len(t) + i] \in [by : Clients, id : 1 .. MaxLines]
  BY <1>2, <1>10, ElementOfSeq DEF TailTyped
<1>12. QED
  BY <1>9, <1>11

LEMMA BooksAnswer == ASSUME TypeOK, Books, Answer PROVE Books'
<1> SUFFICES ASSUME clean' PROVE Books'
  BY DEF Books
<1>1. clean /\ UNCHANGED <<conn, pending, desynced, chunk>>
  BY DEF Answer, links, tail, count
<1>2. WiresTyped /\ TailTyped /\ AllAnswers(Replies)
  BY <1>1, TypeParts DEF Books
<1>3. rx \in Seq(Line) /\ rx # <<>> /\ rx' = Tail(rx) /\ Head(rx) \in Line
      /\ Head(rx) = rx[1] /\ 1 \in 1 .. Len(rx)
  <2>1. rx \in Seq(Line) /\ rx # <<>> /\ rx' = Tail(rx)
    BY <1>2 DEF Answer, WiresTyped
  <2>2. QED
    BY <2>1, HeadTailProperties, EmptySeq
<1>4. Head(rx).by # "probe"
  BY <1>1, <1>3, ClientsOnly
<1> DEFINE a == [kind |-> "answer", line |-> Head(rx)]
<1>5. a \in Reply /\ IsAnswer(a) /\ a.line = Head(rx) /\ a.kind # "welcome"
  BY <1>3 DEF Reply, IsAnswer
<1>6. tx \in Seq(Reply) /\ tx' = Append(tx, a)
  <2>1. tx \in Seq(Reply) /\ tx' = tx \o <<>> \o <<a>>
    BY <1>2, <1>4 DEF Answer, WiresTyped
  <2>2. tx \o <<>> = tx
    BY <2>1, ConcatEmptySeq
  <2>3. tx \o <<a>> = Append(tx, a)
    BY <1>5, <2>1
  <2>4. QED
    BY <2>1, <2>2, <2>3
<1> HIDE DEF a
<1>7. Replies' = Append(Replies, a)
  <2>1. CASE tx = <<>>
    <3>1. tx' = <<a>>
      BY <1>6, <2>1
    <3>2. Replies' = <<a>> /\ Replies = <<>>
      BY <1>5, <2>1, <3>1 DEF Replies
    <3>3. QED
      BY <3>2
  <2>2. CASE tx # <<>>
    <3>1. tx' # <<>> /\ Head(tx') = Head(tx) /\ Tail(tx') = Append(Tail(tx), a)
      BY <1>5, <1>6, <2>2
    <3>2. QED
      BY <1>6, <2>2, <3>1 DEF Replies
  <2>3. QED
    BY <2>1, <2>2
<1>8. Replies \in Seq(Reply)
  BY <1>2, RepliesAreReplies
<1>9. /\ AllAnswers(Replies') /\ LinesOf(Replies') = Append(LinesOf(Replies), Head(rx))
      /\ LinesOf(Replies) \in Seq(Line)
  BY <1>2, <1>5, <1>7, <1>8, LinesOfAppend, LinesOfIsSeq
<1>10. PICK l \in Seq(Line) : Account(l)
  BY <1>1 DEF Books
<1>11. pending' = Chain(LinesOf(Replies'), rx', l)
  <2> DEFINE t == LinesOf(Replies)
  <2>1. t \in Seq(Line) /\ pending = Chain(t, rx, l)
    BY <1>9, <1>10 DEF Account
  <2>2. LinesOf(Replies') = Append(t, Head(rx))
    BY <1>9
  <2> HIDE DEF t
  <2>3. Chain(t, rx, l) = Chain(Append(t, Head(rx)), Tail(rx), l)
    BY <1>3, <2>1, MoveOver
  <2>4. QED
    BY <1>1, <1>3, <2>1, <2>2, <2>3
<1>12. Account(l)'
  <2>1. OnTheWay' = OnTheWay
    BY <1>1, SameWay DEF Between
  <2>2. QED
    BY <1>10, <1>11, <2>1 DEF Account, Waits
<1>13. QED
  BY <1>1, <1>9, <1>12 DEF Books

LEMMA BooksOpenPort == ASSUME TypeOK, Dark, Books, OpenPort PROVE Books'
<1> SUFFICES ASSUME clean' PROVE Books'
  BY DEF Books
<1>1. /\ tx = <<>> /\ tx' = <<[kind |-> "welcome"]>>
      /\ UNCHANGED <<rx, conn, pending, desynced, clean, chunk>>
  BY DEF OpenPort, Dark, tail, count
<1>2. Replies = <<>> /\ Replies' = <<>> /\ OnTheWay' = OnTheWay
  BY <1>1, SameWay DEF Replies, Between
<1>3. PICK l \in Seq(Line) : Account(l)
  BY <1>1 DEF Books
<1>4. Account(l)'
  BY <1>1, <1>2, <1>3 DEF Account, Waits
<1>5. QED
  BY <1>1, <1>2, <1>4 DEF Books

\* Nothing waits, and the books are empty.
LEMMA EmptyBooks ==
  ASSUME \A d \in Clients : ~Between(d)
  PROVE  Waits(<<>>) /\ <<>> \in Seq(Line)
BY DEF Waits, InOrder, OnTheWay

LEMMA BooksObserve == ASSUME TypeOK, Books, Observe PROVE Books'
<1> SUFFICES ASSUME clean' PROVE Books'
  BY DEF Books
<1>1. tx # <<>> /\ tx' = Tail(tx) /\ UNCHANGED <<rx, conn, chunk>>
  BY DEF Observe, links, count
<1>2. WiresTyped /\ TailTyped
  BY TypeParts
<1>3. tx \in Seq(Reply) /\ Head(tx) \in Reply /\ Tail(tx) \in Seq(Reply)
  BY <1>1, <1>2, HeadTailProperties DEF WiresTyped
<1>4. CASE Head(tx).kind = "welcome"
  <2>1. /\ Forget /\ clean' = (rx \o Tail(tx) = <<>> /\ \A c \in Clients : ~Between(c))
    BY <1>4 DEF Observe, IsAnswer
  <2>2. rx \o Tail(tx) = <<>> /\ \A c \in Clients : ~Between(c)
    BY <2>1
  <2>3. rx = <<>> /\ Tail(tx) = <<>>
    <3>1. Len(rx \o Tail(tx)) = Len(rx) + Len(Tail(tx)) /\ Len(rx) \in Nat /\ Len(Tail(tx)) \in Nat
      BY <1>2, <1>3 DEF WiresTyped
    <3>2. Len(rx) = 0 /\ Len(Tail(tx)) = 0
      <4>1. Len(rx \o Tail(tx)) = 0
        BY <2>2, EmptySeq
      <4>2. \A m, n \in Nat : m + n = 0 => m = 0 /\ n = 0
        OBVIOUS
      <4>3. QED
        BY <3>1, <4>1, <4>2
    <3>3. QED
      BY <1>2, <1>3, <3>2, EmptySeq DEF WiresTyped
  <2>4. Replies' = <<>> /\ pending' = <<>> /\ rx' = <<>> /\ ~desynced'
    BY <1>1, <2>1, <2>3 DEF Replies, Forget
  <2>5. LinesOf(<<>>) = <<>> /\ AllAnswers(<<>>)
    BY DEF LinesOf, AllAnswers
  <2>6. Waits(<<>>)' /\ <<>> \in Seq(Line)
    <3>1. OnTheWay' = OnTheWay
      BY <1>1, SameWay DEF Between
    <3>2. QED
      BY <2>2, <3>1, EmptyBooks DEF Waits
  <2>7. Account(<<>>)'
    BY <2>4, <2>5, <2>6, NothingToChain DEF Account
  <2>8. QED
    BY <2>4, <2>5, <2>6, <2>7 DEF Books
<1>5. CASE Head(tx).kind # "welcome"
  <2>1. clean /\ Replies = tx
    <3>1. Head(tx).kind = "answer" \/ Head(tx).kind = "setting"
      BY <1>3, <1>5 DEF Reply
    <3>2. clean' = clean
      BY <3>1 DEF Observe, IsAnswer, tail
    <3>3. QED
      BY <1>5, <3>2 DEF Replies
  <2>2. AllAnswers(tx) /\ IsAnswer(Head(tx))
    <3>1. AllAnswers(tx)
      BY <2>1 DEF Books
    <3>2. 1 \in DOMAIN tx /\ Head(tx) = tx[1]
      BY <1>1, <1>3, LenProperties, EmptySeq
    <3>3. QED
      BY <3>1, <3>2 DEF AllAnswers
  <2>3. Acknowledge
    <3>1. \E kind \in {"ok", "error"} : Answers(kind)
      BY <2>2 DEF Observe, IsAnswer
    <3>2. QED
      BY <3>1 DEF Answers
  <2>4. /\ AllAnswers(Tail(tx)) /\ LinesOf(Tail(tx)) = Tail(LinesOf(tx)) /\ LinesOf(tx) # <<>>
        /\ LinesOf(tx) \in Seq(Line)
    BY <1>1, <1>3, <2>2, LinesOfTail, LinesOfIsSeq
  <2>5. Replies' = Tail(tx)
    <3>1. CASE Tail(tx) = <<>>
      BY <1>1, <3>1 DEF Replies
    <3>2. CASE Tail(tx) # <<>>
      <4>1. 1 \in DOMAIN Tail(tx) /\ Head(Tail(tx)) = Tail(tx)[1]
        BY <1>3, <3>2, LenProperties, EmptySeq
      <4>2. Head(Tail(tx)).kind # "welcome"
        BY <2>4, <4>1 DEF AllAnswers, IsAnswer
      <4>3. QED
        BY <1>1, <4>2 DEF Replies
    <3>3. QED
      BY <3>1, <3>2
  <2>6. PICK l \in Seq(Line) : Account(l)
    BY <2>1 DEF Books
  <2> DEFINE t == LinesOf(tx)
  <2>7. rx \in Seq(Line) /\ pending = Chain(t, rx, l)
    BY <1>2, <2>1, <2>6 DEF Account, WiresTyped
  <2>8. t \in Seq(Line) /\ t # <<>> /\ LinesOf(Replies') = Tail(t)
    BY <2>4, <2>5
  <2> HIDE DEF t
  <2>9. pending # <<>> /\ Tail(pending) = Chain(Tail(t), rx, l)
    <3>1. Chain(t, rx, l) # <<>> /\ Tail(Chain(t, rx, l)) = Chain(Tail(t), rx, l)
      BY <2>7, <2>8, TailOfParts
    <3>2. QED
      BY <2>7, <3>1
  <2>10. pending' = Chain(LinesOf(Replies'), rx', l) /\ desynced' = desynced
    BY <1>1, <2>3, <2>8, <2>9 DEF Acknowledge
  <2>11. Account(l)'
    <3>1. OnTheWay' = OnTheWay
      BY <1>1, SameWay DEF Between
    <3>2. QED
      BY <2>6, <2>10, <3>1 DEF Account, Waits
  <2>12. QED
    BY <2>1, <2>4, <2>5, <2>10, <2>11 DEF Books
<1>6. QED
  BY <1>4, <1>5

LEMMA BooksStartOver == ASSUME TypeOK, Books, NEW e \in Clients, StartOver(e) PROVE Books'
<1> SUFFICES ASSUME clean' PROVE Books'
  BY DEF Books
<1>1. rx \o tx = <<>> /\ \A d \in Clients : ~Between(d)
  BY DEF StartOver
<1>2. rx = <<>> /\ tx = <<>>
  <2>1. Len(rx \o tx) = Len(rx) + Len(tx) /\ Len(rx) \in Nat /\ Len(tx) \in Nat
    BY DEF TypeOK
  <2>2. Len(rx) = 0 /\ Len(tx) = 0
    BY <1>1, <2>1
  <2>3. QED
    BY <2>2, EmptySeq DEF TypeOK
<1>3. /\ rx' = <<>> /\ tx' = <<>> /\ pending' = <<>> /\ ~desynced' /\ chunk' = chunk
      /\ \E at \in {"serving", "gone"} : conn' = [conn EXCEPT ![e] = at]
  BY <1>2 DEF StartOver, wires, count, Forget
<1>4. Replies' = <<>> /\ LinesOf(<<>>) = <<>> /\ AllAnswers(<<>>)
  BY <1>3 DEF Replies, LinesOf, AllAnswers
<1>5. \A d \in Clients : ~Between(d)'
  BY <1>1, <1>3 DEF Between, TypeOK
<1>6. Waits(<<>>)' /\ <<>> \in Seq(Line)
  <2>1. OnTheWay' = OnTheWay
    BY <1>1, <1>3, <1>5, SameWay
  <2>2. QED
    BY <1>1, <2>1, EmptyBooks DEF Waits
<1>7. Account(<<>>)'
  BY <1>3, <1>4, <1>6, NothingToChain DEF Account
<1>8. QED
  BY <1>3, <1>4, <1>6, <1>7 DEF Books

LEMMA NewIsOne == ASSUME NEW by PROVE New(by, 1) = <<[by |-> by, id |-> lines + 1]>>
BY DEF New

\* The line that is recorded last waits behind the others.
LEMMA JoinsTheWay ==
  ASSUME lines \in Nat, chunk \in [Clients -> 0 .. lines], conn \in [Clients -> Places],
         NEW e \in Clients, conn[e] = "read", conn' = [conn EXCEPT ![e] = "recorded"],
         chunk' = [chunk EXCEPT ![e] = lines + 1],
         NEW l \in Seq(Line), Waits(l),
         NEW x \in Line, x = [by |-> e, id |-> lines + 1]
  PROVE  Waits(Append(l, x))'
<1> DEFINE m == Append(l, x)
<1>1. /\ m \in Seq(Line) /\ Len(m) = Len(l) + 1 /\ Len(l) \in Nat
      /\ \A i \in 1 .. Len(l) : m[i] = l[i]
      /\ m[Len(l) + 1] = x
  BY AppendProperties, LenProperties
<1>2. DOMAIN l = 1 .. Len(l) /\ DOMAIN m = 1 .. Len(l) + 1
  BY <1>1, LenProperties
<1> HIDE DEF m
<1>3. OnTheWay' = OnTheWay \cup {x}
  <2>1. ~Between(e) /\ Between(e)' /\ chunk'[e] = lines + 1
    BY DEF Between
  <2>2. \A c \in Clients \ {e} : Between(c)' = Between(c) /\ chunk'[c] = chunk[c]
    BY DEF Between
  <2>3. \A y : y \in OnTheWay' <=> \E c \in Clients : Between(c)' /\ y = [by |-> c, id |-> chunk'[c]]
    BY DEF OnTheWay
  <2>4. \A y : y \in OnTheWay <=> \E c \in Clients : Between(c) /\ y = [by |-> c, id |-> chunk[c]]
    BY DEF OnTheWay
  <2>5. \A y : y \in OnTheWay' <=> y \in OnTheWay \/ y = x
    BY <2>1, <2>2, <2>3, <2>4
  <2>6. QED
    BY <2>5
<1>4. {m[i] : i \in DOMAIN m} = {l[i] : i \in DOMAIN l} \cup {x}
  <2>1. \A i \in DOMAIN m : i \in DOMAIN l \/ i = Len(l) + 1
    BY <1>1, <1>2
  <2>2. (\A i \in DOMAIN l : i \in DOMAIN m /\ m[i] = l[i]) /\ Len(l) + 1 \in DOMAIN m
    BY <1>1, <1>2
  <2>3. \A y : y \in {m[i] : i \in DOMAIN m} => y \in {l[i] : i \in DOMAIN l} \cup {x}
    BY <1>1, <2>1, <2>2
  <2>4. \A y : y \in {l[i] : i \in DOMAIN l} \cup {x} => y \in {m[i] : i \in DOMAIN m}
    BY <1>1, <2>2
  <2>5. QED
    BY <2>3, <2>4
<1>5. \A i \in 1 .. Len(l) : l[i].id < x.id
  <2>1. TAKE i \in 1 .. Len(l)
  <2>2. l[i] \in OnTheWay
    BY <1>2 DEF Waits
  <2>3. PICK c \in Clients : l[i] = [by |-> c, id |-> chunk[c]]
    BY <2>2 DEF OnTheWay
  <2>4. l[i].id \in 0 .. lines /\ x.id = lines + 1
    BY <2>3
  <2>5. QED
    BY <2>4
<1>6. InOrder(m)
  <2> SUFFICES ASSUME NEW i \in DOMAIN m, NEW j \in DOMAIN m, i < j
               PROVE  m[i].id < m[j].id
    BY DEF InOrder
  <2>1. i \in 1 .. Len(l)
    BY <1>1, <1>2
  <2>2. CASE j = Len(l) + 1
    BY <1>1, <1>5, <2>1, <2>2
  <2>3. CASE j # Len(l) + 1
    <3>1. j \in 1 .. Len(l)
      BY <1>1, <1>2, <2>3
    <3>2. l[i].id < l[j].id
      BY <1>2, <2>1, <3>1 DEF Waits, InOrder
    <3>3. QED
      BY <1>1, <2>1, <3>1, <3>2
  <2>4. QED
    BY <2>2, <2>3
<1>7. QED
  BY <1>3, <1>4, <1>6 DEF Waits, m

\* A line that overtakes no other is the first of those that wait.
LEMMA LeavesTheWay ==
  ASSUME lines \in Nat, chunk \in [Clients -> 0 .. lines], conn \in [Clients -> Places],
         NEW e \in Clients, Between(e), ~Overtakes(e),
         NEW at \in Places \ {"recorded"}, conn' = [conn EXCEPT ![e] = at], chunk' = chunk,
         NEW l \in Seq(Line), Waits(l)
  PROVE  /\ l # <<>> /\ Head(l) = [by |-> e, id |-> chunk[e]]
         /\ Tail(l) \in Seq(Line) /\ Waits(Tail(l))'
<1> DEFINE x == [by |-> e, id |-> chunk[e]]
<1>1. DOMAIN l = 1 .. Len(l) /\ Len(l) \in Nat
  BY LenProperties
<1>2. \A y : y \in OnTheWay <=> \E c \in Clients : Between(c) /\ y = [by |-> c, id |-> chunk[c]]
  BY DEF OnTheWay
<1>3. PICK k \in 1 .. Len(l) : l[k] = x
  <2>1. x \in OnTheWay
    BY <1>2
  <2>2. QED
    BY <1>1, <2>1 DEF Waits
<1>4. l # <<>> /\ 1 \in 1 .. Len(l)
  BY <1>1, <1>3
<1>5. k = 1
  <2> SUFFICES ASSUME k # 1 PROVE FALSE
    OBVIOUS
  <2>1. l[1].id < l[k].id
    <3>1. 1 \in DOMAIN l /\ k \in DOMAIN l /\ 1 < k
      BY <1>1, <1>3, <1>4
    <3>2. QED
      BY <3>1 DEF Waits, InOrder
  <2>2. PICK c \in Clients : Between(c) /\ l[1] = [by |-> c, id |-> chunk[c]]
    <3>1. l[1] \in OnTheWay
      BY <1>1, <1>4 DEF Waits
    <3>2. QED
      BY <1>2, <3>1
  <2>3. chunk[c] < chunk[e]
    BY <1>3, <2>1, <2>2
  <2>4. QED
    BY <2>2, <2>3 DEF Overtakes
<1> DEFINE m == Tail(l)
<1>6. /\ Head(l) = l[1] /\ m \in Seq(Line) /\ Len(m) = Len(l) - 1
      /\ \A i \in 1 .. Len(l) - 1 : m[i] = l[i + 1]
  BY <1>4, HeadTailProperties
<1>7. DOMAIN m = 1 .. Len(l) - 1
  BY <1>6, LenProperties
<1> HIDE DEF m, x
<1>8. \A i \in 1 .. Len(l) - 1 : i + 1 \in DOMAIN l /\ 1 \in DOMAIN l /\ i \in DOMAIN m
                                /\ m[i] = l[i + 1]
  BY <1>1, <1>4, <1>6, <1>7
<1>9. InOrder(m)
  <2> SUFFICES ASSUME NEW i \in DOMAIN m, NEW j \in DOMAIN m, i < j
               PROVE  m[i].id < m[j].id
    BY DEF InOrder
  <2>1. i + 1 \in DOMAIN l /\ j + 1 \in DOMAIN l /\ i + 1 < j + 1
        /\ m[i] = l[i + 1] /\ m[j] = l[j + 1]
    BY <1>1, <1>7, <1>8
  <2>2. QED
    BY <2>1 DEF Waits, InOrder
<1>10. \A y : y \in OnTheWay' <=> \E c \in Clients \ {e} : Between(c) /\ y = [by |-> c, id |-> chunk[c]]
  <2>1. ~Between(e)' /\ \A c \in Clients \ {e} : Between(c)' <=> Between(c)
    BY DEF Between
  <2>2. \A y : y \in OnTheWay' <=> \E c \in Clients : Between(c)' /\ y = [by |-> c, id |-> chunk[c]]
    BY DEF OnTheWay
  <2>3. QED
    BY <2>1, <2>2
<1>11. \A y : y \in {m[i] : i \in DOMAIN m} => y \in OnTheWay'
  <2> SUFFICES ASSUME NEW i \in DOMAIN m PROVE m[i] \in OnTheWay'
    OBVIOUS
  <2>1. i + 1 \in DOMAIN l /\ 1 \in DOMAIN l /\ 1 < i + 1 /\ m[i] = l[i + 1]
    BY <1>1, <1>7, <1>8
  <2>2. l[1].id < l[i + 1].id /\ l[i + 1] \in OnTheWay
    BY <2>1 DEF Waits, InOrder
  <2>3. PICK c \in Clients : Between(c) /\ l[i + 1] = [by |-> c, id |-> chunk[c]]
    BY <1>2, <2>2
  <2>4. c # e
    <3>1. l[1].id = chunk[e] /\ l[i + 1].id = chunk[c] /\ chunk[c] \in Nat
      BY <1>3, <1>5, <2>3 DEF x
    <3>2. QED
      BY <2>2, <3>1
  <2>5. QED
    BY <1>10, <2>1, <2>3, <2>4
<1>12. \A y : y \in OnTheWay' => y \in {m[i] : i \in DOMAIN m}
  <2> SUFFICES ASSUME NEW y, y \in OnTheWay' PROVE y \in {m[i] : i \in DOMAIN m}
    OBVIOUS
  <2>1. PICK c \in Clients \ {e} : Between(c) /\ y = [by |-> c, id |-> chunk[c]]
    BY <1>10
  <2>2. PICK j \in 1 .. Len(l) : l[j] = y
    <3>1. y \in OnTheWay
      BY <1>2, <2>1
    <3>2. QED
      BY <1>1, <3>1 DEF Waits
  <2>3. j # 1
    BY <1>3, <1>5, <2>1, <2>2 DEF x
  <2>4. j - 1 \in 1 .. Len(l) - 1 /\ (j - 1) + 1 = j
    BY <1>1, <2>2, <2>3
  <2>5. j - 1 \in DOMAIN m /\ m[j - 1] = y
    BY <1>8, <2>2, <2>4
  <2>6. QED
    BY <2>5
<1>13. {m[i] : i \in DOMAIN m} = OnTheWay'
  BY <1>11, <1>12
<1>14. QED
  BY <1>3, <1>4, <1>5, <1>6, <1>9, <1>13 DEF Waits, m, x

LEMMA BooksRecord == ASSUME TypeOK, Books, NEW e \in Clients, Record(e) PROVE Books'
<1> SUFFICES ASSUME clean' PROVE Books'
  BY DEF Books
<1>1. /\ clean /\ UNCHANGED <<rx, tx, desynced>>
      /\ conn[e] = "read" /\ conn' = [conn EXCEPT ![e] = "recorded"]
      /\ chunk' = [chunk EXCEPT ![e] = lines + 1] /\ pending' = pending \o New(e, 1)
      /\ lines < MaxLines
  BY DEF Record, wires
<1>2. WiresTyped /\ CountTyped /\ ConnTyped
  BY TypeParts
<1>3. PICK l \in Seq(Line) : Account(l)
  BY <1>1 DEF Books
<1> DEFINE t == LinesOf(Replies)
<1>4. PICK x \in Line : x = [by |-> e, id |-> lines + 1]
  <2>1. lines + 1 \in 0 .. MaxLines
    BY <1>1, <1>2 DEF CountTyped
  <2>2. [by |-> e, id |-> lines + 1] \in Line
    BY <2>1 DEF Line
  <2>3. QED
    BY <2>2
<1>5. t \in Seq(Line) /\ rx \in Seq(Line)
  BY <1>1, <1>2, RepliesAreReplies, LinesOfIsSeq DEF WiresTyped, Books
<1>6. pending = Chain(t, rx, l) /\ New(e, 1) = <<x>> /\ Replies' = Replies
  BY <1>1, <1>3, <1>4, NewIsOne DEF Account, Replies
<1>7. Waits(Append(l, x))'
  <2>1. Waits(l)
    BY <1>3 DEF Account
  <2>2. lines \in Nat /\ chunk \in [Clients -> 0 .. lines] /\ conn \in [Clients -> Places]
    BY <1>2 DEF CountTyped, ConnTyped
  <2>3. QED
    BY <1>1, <1>4, <2>1, <2>2, JoinsTheWay
<1>8. PICK m \in Seq(Line) : m = Append(l, x)
  BY <1>4, AppendProperties
<1>9. pending' = Chain(t, rx, m)
  <2> HIDE DEF t
  <2>1. PICK o \in Seq(Line) : o = <<x>>
    <3>1. <<x>> \in Seq(Line)
      OBVIOUS
    <3>2. QED
      BY <3>1, Zenon
  <2>2. Chain(t, rx, l) \o o = Chain(t, rx, l \o o)
    <3>1. PICK u \in Seq(Line) : u = t \o rx
      BY <1>5, ConcatProperties
    <3>2. (u \o l) \o o = u \o (l \o o)
      BY ConcatAssociative, SMTT(60)
    <3>3. QED
      BY <3>1, <3>2 DEF Chain
  <2>3. m = l \o o
    BY <1>8, <2>1, AppendIsConcat
  <2>4. QED
    BY <1>1, <1>6, <2>1, <2>2, <2>3
<1>10. Waits(m)'
  BY <1>7, <1>8
<1>11. Account(m)'
  BY <1>1, <1>6, <1>9, <1>10 DEF Account
<1>12. ~desynced' /\ AllAnswers(Replies)'
  BY <1>1, <1>6 DEF Books
<1>13. QED
  BY <1>11, <1>12 DEF Books

LEMMA BooksSend == ASSUME TypeOK, Books, NEW e \in Clients, Send(e) PROVE Books'
<1> SUFFICES ASSUME clean' PROVE Books'
  BY DEF Books
<1>1. /\ clean /\ UNCHANGED <<tx, desynced, chunk, pending>>
      /\ Between(e) /\ ~Overtakes(e)
      /\ rx' = Append(rx, [by |-> e, id |-> chunk[e]])
  BY DEF Send, count
<1>2. PICK at \in Places \ {"recorded"} : conn' = [conn EXCEPT ![e] = at]
  <2>1. {"serving", "gone"} \subseteq Places \ {"recorded"}
    BY DEF Places
  <2>2. \E at \in {"serving", "gone"} : conn' = [conn EXCEPT ![e] = at]
    BY DEF Send
  <2>3. QED
    BY <2>1, <2>2
<1>3. WiresTyped /\ CountTyped /\ ConnTyped
  BY TypeParts
<1>4. PICK l \in Seq(Line) : Account(l)
  BY <1>1 DEF Books
<1>5. /\ l # <<>> /\ Head(l) = [by |-> e, id |-> chunk[e]]
      /\ Tail(l) \in Seq(Line) /\ Waits(Tail(l))'
  <2>1. lines \in Nat /\ chunk \in [Clients -> 0 .. lines] /\ conn \in [Clients -> Places]
    BY <1>3 DEF CountTyped, ConnTyped
  <2>2. Waits(l)
    BY <1>4 DEF Account
  <2>3. QED
    BY <1>1, <1>2, <2>1, <2>2, LeavesTheWay
<1> DEFINE t == LinesOf(Replies)
<1>6. t \in Seq(Line) /\ rx \in Seq(Line)
  BY <1>1, <1>3, RepliesAreReplies, LinesOfIsSeq DEF WiresTyped, Books
<1>7. pending = Chain(t, rx, l) /\ Replies' = Replies /\ rx' = Append(rx, Head(l))
  BY <1>1, <1>4, <1>5 DEF Account, Replies
<1> HIDE DEF t
<1>8. pending' = Chain(t, rx', Tail(l))
  BY <1>1, <1>5, <1>6, <1>7, Arrives
<1>9. Account(Tail(l))'
  BY <1>5, <1>7, <1>8 DEF Account, t
<1>10. QED
  BY <1>1, <1>5, <1>7, <1>9 DEF Books

LEMMA StepBooks == ASSUME TypeOK, Dark, Books, [Next]_vars PROVE Books'
<1>1. CASE Device
  BY <1>1, BooksFramed, BooksAnswer, BooksOpenPort, BooksObserve DEF Device
<1>2. CASE Probing
  BY <1>2, BooksFramed DEF Probing
<1>3. CASE Serving
  <2>1. PICK e \in Clients :
          \/ Arrive(e) \/ Attach(e) \/ StartOver(e) \/ Read(e)
          \/ Record(e) \/ Send(e) \/ Leave(e)
    BY <1>3 DEF Serving
  <2>2. CASE Arrive(e) \/ Attach(e) \/ Read(e) \/ Leave(e)
    BY <2>2, BooksFramed
  <2>3. CASE StartOver(e)
    BY <2>3, BooksStartOver
  <2>4. CASE Record(e)
    BY <2>4, BooksRecord
  <2>5. CASE Send(e)
    BY <2>5, BooksSend
  <2>6. QED
    BY <2>1, <2>2, <2>3, <2>4, <2>5
<1>4. CASE Request \/ Ticking \/ UNCHANGED vars
  BY <1>4, BooksFramed
<1>5. QED
  BY <1>1, <1>2, <1>3, <1>4 DEF Next

LEMMA InitBooks == Init => Dark /\ Books
<1> SUFFICES ASSUME Init PROVE Dark /\ Books
  OBVIOUS
<1>1. Dark
  BY DEF Init, Dark, Between, Quiet, Nobody
<1>2. Replies = <<>> /\ LinesOf(<<>>) = <<>> /\ AllAnswers(<<>>)
  BY DEF Init, Replies, LinesOf, AllAnswers
<1>3. \A c \in Clients : ~Between(c)
  BY DEF Init, Between
<1>4. Account(<<>>) /\ <<>> \in Seq(Line)
  BY <1>2, <1>3, NothingToChain, EmptyBooks DEF Init, Account
<1>5. QED
  BY <1>1, <1>2, <1>4 DEF Init, Books

\* lineTail attributes a reply to the line it answers for any number of
\* clients that displace each other, of ports and of resets: while its books
\* are complete, what it remembers is what is still to be answered and what has
\* yet to reach the port, in order, the lines included that a displaced client
\* records and sends behind its successor's back.
THEOREM RepliesAreAttributed == Spec => []BooksBalance
<1>1. Init => TypeOK /\ Dark /\ Books
  BY InitTyped, InitBooks
<1>2. TypeOK /\ Dark /\ Books /\ [Next]_vars => (TypeOK /\ Dark /\ Books)'
  BY StepTyped, StepDark, StepBooks
<1>3. TypeOK /\ Dark /\ Books => BooksBalance
  BY BooksAreBalanced
<1>4. QED
  BY <1>1, <1>2, <1>3, PTL DEF Spec

-----------------------------------------------------------------------------
(***************************************************************************)
(* Slots.  How many of a sequence's entries there are with a mark, when an *)
(* entry comes or goes.                                                    *)
(***************************************************************************)
LEMMA FirstGoes ==
  ASSUME NEW n \in Nat \ {0}, NEW S \in SUBSET (1 .. n),
         NEW T, T = {i \in 1 .. n - 1 : i + 1 \in S}
  PROVE  /\ IsFiniteSet(S) /\ IsFiniteSet(T) /\ Cardinality(S) \in Nat
         /\ Cardinality(S) = Cardinality(T) + (IF 1 \in S THEN 1 ELSE 0)
<1>1. IsFiniteSet(1 .. n) /\ IsFiniteSet(1 .. n - 1)
  <2>1. 1 \in Int /\ n \in Int /\ n - 1 \in Int
    OBVIOUS
  <2>2. QED
    BY <2>1, FS_Interval
<1>2. IsFiniteSet(S) /\ IsFiniteSet(T)
  <2>1. T \in SUBSET (1 .. n - 1)
    OBVIOUS
  <2>2. QED
    BY <1>1, <2>1, FS_Subset
<1> DEFINE R == S \ {1}
           f == [i \in T |-> i + 1]
<1>3. IsFiniteSet(R) /\ Cardinality(R) = IF 1 \in S THEN Cardinality(S) - 1 ELSE Cardinality(S)
  BY <1>2, FS_RemoveElement
<1>4. f \in Bijection(T, R)
  <2>1. f \in [T -> R]
    OBVIOUS
  <2>2. \A i, j \in T : f[i] = f[j] => i = j
    OBVIOUS
  <2>3. \A k \in R : \E i \in T : f[i] = k
    <3>1. TAKE k \in R
    <3>2. k - 1 \in 1 .. n - 1 /\ (k - 1) + 1 = k
      OBVIOUS
    <3>3. k - 1 \in T
      BY <3>2
    <3>4. QED
      BY <3>2, <3>3
  <2> HIDE DEF R, f
  <2>4. f \in Injection(T, R)
    BY <2>1, <2>2, Fun_IsInj
  <2>5. f \in Surjection(T, R)
    BY <2>1, <2>3, Fun_IsSurj
  <2>6. QED
    BY <2>4, <2>5 DEF Bijection
<1>5. Cardinality(R) = Cardinality(T)
  BY <1>2, <1>4, FS_Bijection DEF ExistsBijection
<1>6. Cardinality(S) \in Nat /\ Cardinality(T) \in Nat
  BY <1>2, FS_CardinalityType
<1>7. QED
  BY <1>2, <1>3, <1>5, <1>6

LEMMA SomeCome ==
  ASSUME NEW n \in Nat, NEW k \in Nat, NEW S \in SUBSET (1 .. n)
  PROVE  /\ Cardinality(S) \in Nat
         /\ Cardinality(S \cup (n + 1 .. n + k)) = Cardinality(S) + k
<1>0. 1 \in Int /\ n \in Int /\ n + 1 \in Int /\ n + k \in Int
  OBVIOUS
<1>1. IsFiniteSet(S) /\ Cardinality(S) \in Nat
  <2>2. IsFiniteSet(1 .. n)
    BY <1>0, FS_Interval
  <2>3. IsFiniteSet(S)
    BY <2>2, FS_Subset
  <2>4. QED
    BY <2>3, FS_CardinalityType
<1>2. /\ IsFiniteSet(n + 1 .. n + k)
      /\ Cardinality(n + 1 .. n + k) = IF n + 1 > n + k THEN 0 ELSE (n + k) - (n + 1) + 1
  BY <1>0, FS_Interval
<1>3. S \cap (n + 1 .. n + k) = {} /\ Cardinality({}) = 0
  BY FS_EmptySet
<1>4. Cardinality(S \cup (n + 1 .. n + k))
        = Cardinality(S) + Cardinality(n + 1 .. n + k) - Cardinality(S \cap (n + 1 .. n + k))
  BY <1>1, <1>2, FS_Union
<1> DEFINE more == n + 1 .. n + k
<1>5. Cardinality(more) = k
  BY <1>2
<1> HIDE DEF more
<1>6. Cardinality(S \cup more) = Cardinality(S) + Cardinality(more) - 0
  BY <1>3, <1>4 DEF more
<1>7. QED
  BY <1>1, <1>5, <1>6 DEF more

\* The two counts, and what a step does to them.
Waiting == Cardinality(Answering) + Cardinality(Buffered)
Due     == Waiting + (IF op.at = "claimed" THEN op.n ELSE 0)
Greeted == \E i \in DOMAIN tx : tx[i].kind = "welcome"

LEMMA SlotsRestated == SlotsAreForLines <=> (port # 0 /\ ~Greeted /\ ~missed => Held <= Due)
BY DEF SlotsAreForLines, Greeted, Due, Waiting

LEMMA SlotsRestatedAfter ==
  SlotsAreForLines' <=> (port' # 0 /\ ~Greeted' /\ ~missed' => Held' <= Due')
BY DEF SlotsAreForLines, Greeted, Due, Waiting

LEMMA CountsTyped ==
  ASSUME TypeOK
  PROVE  /\ DOMAIN tx = 1 .. Len(tx) /\ DOMAIN rx = 1 .. Len(rx)
         /\ Len(tx) \in Nat /\ Len(rx) \in Nat /\ Len(injected) \in Nat
         /\ Answering \in SUBSET (1 .. Len(tx)) /\ Buffered \in SUBSET (1 .. Len(rx))
         /\ Cardinality(Answering) \in Nat /\ Cardinality(Buffered) \in Nat
         /\ Waiting \in Nat /\ Held \in Nat /\ Due \in Nat /\ op.n \in Nat
<1>1. /\ DOMAIN tx = 1 .. Len(tx) /\ DOMAIN rx = 1 .. Len(rx)
      /\ Len(tx) \in Nat /\ Len(rx) \in Nat /\ Len(injected) \in Nat
  BY LenProperties DEF TypeOK
<1>2. Answering \in SUBSET (1 .. Len(tx)) /\ Buffered \in SUBSET (1 .. Len(rx))
  BY <1>1 DEF Answering, Buffered
<1>3. Cardinality(Answering) \in Nat /\ Cardinality(Buffered) \in Nat
  <2>1. IsFiniteSet(1 .. Len(tx)) /\ IsFiniteSet(1 .. Len(rx))
    BY <1>1, FS_Interval
  <2>2. IsFiniteSet(Answering) /\ IsFiniteSet(Buffered)
    BY <1>2, <2>1, FS_Subset
  <2>3. QED
    BY <2>2, FS_CardinalityType
<1>4. op.n \in Nat
  BY DEF TypeOK
<1>5. QED
  BY <1>1, <1>2, <1>3, <1>4 DEF Waiting, Held, Due

LEMMA CountsAfter == ASSUME TypeOK' PROVE Cardinality(Buffered') \in Nat
<1>1. DOMAIN rx' = 1 .. Len(rx') /\ Len(rx') \in Nat
  BY LenProperties DEF TypeOK
<1>2. Buffered' \in SUBSET (1 .. Len(rx'))
  BY <1>1 DEF Buffered
<1>3. IsFiniteSet(1 .. Len(rx'))
  BY <1>1, FS_Interval
<1>4. IsFiniteSet(Buffered')
  BY <1>2, <1>3, FS_Subset
<1>5. QED
  BY <1>4, FS_CardinalityType

\* A line that joins the buffer counts if it is the operator's.
LEMMA BufferGrows ==
  ASSUME TypeOK, NEW l, rx' = Append(rx, l), l.by # "operator"
  PROVE  Buffered' = Buffered
<1>1. rx \in Seq(Line) /\ Len(rx) \in Nat
  BY LenProperties DEF TypeOK
<1>2. /\ DOMAIN rx' = 1 .. Len(rx) + 1 /\ DOMAIN rx = 1 .. Len(rx)
      /\ rx'[Len(rx) + 1] = l /\ \A i \in 1 .. Len(rx) : rx'[i] = rx[i]
  BY <1>1
<1>3. QED
  BY <1>1, <1>2 DEF Buffered

\* The oldest reply goes to the observer.
LEMMA ReplyGoes ==
  ASSUME TypeOK, tx # <<>>, tx' = Tail(tx)
  PROVE  /\ Cardinality(Answering) = Cardinality(Answering')
              + (IF IsAnswer(Head(tx)) /\ Head(tx).line.by = "operator" THEN 1 ELSE 0)
         /\ Cardinality(Answering') \in Nat
         /\ Greeted => Greeted' \/ Head(tx).kind = "welcome"
<1>1. tx \in Seq(Reply) /\ Len(tx) \in Nat \ {0} /\ DOMAIN tx = 1 .. Len(tx) /\ Head(tx) = tx[1]
  BY LenProperties, EmptySeq DEF TypeOK
<1>2. /\ DOMAIN tx' = 1 .. Len(tx) - 1
      /\ \A i \in 1 .. Len(tx) - 1 : tx'[i] = tx[i + 1]
  BY <1>1
<1>3. /\ Answering \in SUBSET (1 .. Len(tx)) /\ Answering' \in SUBSET (1 .. Len(tx) - 1)
      /\ \A i \in 1 .. Len(tx) - 1 : i \in Answering' <=> i + 1 \in Answering
  BY <1>1, <1>2 DEF Answering
<1>4. 1 \in Answering <=> IsAnswer(Head(tx)) /\ Head(tx).line.by = "operator"
  BY <1>1 DEF Answering
<1>5. /\ IsFiniteSet(Answering')
      /\ Cardinality(Answering) = Cardinality(Answering') + (IF 1 \in Answering THEN 1 ELSE 0)
  <2> DEFINE n == Len(tx)
             S == Answering
             T == Answering'
  <2>1. /\ n \in Nat \ {0} /\ S \in SUBSET (1 .. n) /\ T = {i \in 1 .. n - 1 : i + 1 \in S}
    BY <1>1, <1>3
  <2> HIDE DEF n, S, T
  <2>2. IsFiniteSet(T) /\ Cardinality(S) = Cardinality(T) + (IF 1 \in S THEN 1 ELSE 0)
    <3>1. n \in Nat \ {0} /\ S \in SUBSET (1 .. n) /\ T = {i \in 1 .. n - 1 : i + 1 \in S}
      BY <2>1
    <3>3. Cardinality(S) = Cardinality(T) + (IF 1 \in S THEN 1 ELSE 0)
      BY <3>1, FirstGoes
    <3>4. IsFiniteSet(T)
      BY <3>1, FirstGoes
    <3>5. QED
      BY <3>3, <3>4
  <2>3. QED
    BY <2>2 DEF S, T
<1>6. Greeted => Greeted' \/ Head(tx).kind = "welcome"
  <2>1. SUFFICES ASSUME NEW i \in 1 .. Len(tx), tx[i].kind = "welcome"
                 PROVE  Greeted' \/ Head(tx).kind = "welcome"
    BY <1>1 DEF Greeted
  <2>2. CASE i = 1
    BY <1>1, <2>1, <2>2
  <2>3. CASE i # 1
    <3>1. i - 1 \in 1 .. Len(tx) - 1 /\ tx'[i - 1] = tx[i]
      BY <1>1, <1>2, <2>3
    <3>2. QED
      BY <1>2, <2>1, <3>1 DEF Greeted
  <2>4. QED
    BY <2>2, <2>3
<1>7. QED
  BY <1>4, <1>5, <1>6, FS_CardinalityType

\* What a step leaves alone.
LEMMA SlotsFramed ==
  ASSUME TypeOK, SlotsAreForLines,
         port' = port, tx' = tx, Held' <= Held, Held' \in Nat, missed' = missed,
         Buffered' = Buffered, op'.at = "claimed" <=> op.at = "claimed", op'.n = op.n \/ op'.at # "claimed"
  PROVE  SlotsAreForLines'
<1>1. Answering' = Answering /\ Greeted' = Greeted
  BY DEF Answering, Greeted
<1>2. Due' = Due
  BY <1>1 DEF Due, Waiting
<1>3. Held \in Nat /\ Due \in Nat
  BY CountsTyped
<1>4. SUFFICES ASSUME port' # 0, ~Greeted', ~missed' PROVE Held' <= Due'
  BY SlotsRestatedAfter
<1>5. Held <= Due
  BY <1>1, <1>4, SlotsRestated
<1>6. QED
  BY <1>2, <1>3, <1>5

LEMMA SlotsQuietSteps ==
  ASSUME TypeOK, SlotsAreForLines,
         \/ NoDevice \/ Relay \/ Check \/ Ticking \/ UNCHANGED vars
         \/ \E p \in 1 .. MaxOpens : Identify(p) \/ Ask(p) \/ Question(p) \/ Asked(p)
         \/ \E c \in Clients :
              \/ Arrive(c) \/ Attach(c) \/ StartOver(c) \/ Read(c)
              \/ Record(c) \/ Send(c) \/ Leave(c)
  PROVE  SlotsAreForLines'
<1>1. CASE NoDevice \/ Relay \/ Check \/ UNCHANGED vars
  <2>1. /\ UNCHANGED <<port, tx, rx, injected, hand, missed>>
        /\ op'.at = "claimed" <=> op.at = "claimed"
        /\ op'.n = op.n \/ op'.at # "claimed"
    BY <1>1 DEF NoDevice, Relay, Check, vars, wires, slots, Quiet
  <2>2. QED
    BY <2>1, SlotsFramed, CountsTyped DEF Held, Buffered
<1>2. CASE Ticking
  <2>1. UNCHANGED <<port, tx, rx, missed, op>>
    BY <1>2 DEF Ticking, TakeOut, PutBack, Age, wires
  <2>2. Held' <= Held /\ Held' \in Nat
    <3>1. injected \in Seq({"fresh", "past"}) /\ Len(injected) \in Nat
      BY LenProperties DEF TypeOK
    <3>2. CASE TakeOut
      <4>1. Len(injected') = Len(injected) - 1 /\ Len(injected) # 0
        BY <3>1, <3>2, EmptySeq, HeadTailProperties DEF TakeOut
      <4>2. QED
        BY <3>1, <3>2, <4>1 DEF TakeOut, Held
    <3>3. CASE PutBack
      <4>1. Len(injected') \in Nat /\ Len(injected') <= Len(injected) + 1
        <5>1. hand \in {"fresh", "past"}
          BY <3>3 DEF PutBack, TypeOK
        <5>2. CASE injected' = injected
          BY <3>1, <5>2
        <5>3. CASE injected' = Append(injected, hand)
          BY <3>1, <5>1, <5>3, AppendProperties
        <5>4. QED
          BY <3>3, <5>2, <5>3 DEF PutBack
      <4>2. QED
        BY <3>1, <3>3, <4>1 DEF PutBack, Held
    <3>4. CASE Age
      <4> DEFINE aged(entry) == IF entry = "none" THEN "none" ELSE "past"
      <4>1. /\ injected' = [i \in DOMAIN injected |-> aged(injected[i])]
            /\ hand' = aged(hand)
        BY <3>4 DEF Age
      <4>2. Len(injected') = Len(injected)
        <5>1. DOMAIN injected = 1 .. Len(injected)
          BY <3>1
        <5>2. \A i \in 1 .. Len(injected) : aged(injected[i]) = "past"
          BY <3>1, <5>1, ElementOfSeq
        <5>3. injected' \in [1 .. Len(injected) -> {"past"}]
          BY <4>1, <5>1, <5>2
        <5>4. QED
          BY <3>1, <5>3, FunctionsAreSeqs
      <4>3. QED
        BY <3>1, <4>1, <4>2 DEF Held
    <3>5. QED
      BY <1>2, <3>2, <3>3, <3>4 DEF Ticking
  <2>3. QED
    BY <2>1, <2>2, SlotsFramed DEF Buffered
<1>3. CASE \E p \in 1 .. MaxOpens : Identify(p) \/ Ask(p) \/ Question(p) \/ Asked(p)
  <2>1. UNCHANGED <<port, tx, injected, hand, missed, op>>
    BY <1>3 DEF Identify, Ask, Question, Asked, wires, slots
  <2>2. rx' = rx \/ rx' = Append(rx, TheQuestion)
    BY <1>3 DEF Identify, Ask, Question, Asked, wires
  <2>3. Buffered' = Buffered
    <3>1. TheQuestion.by # "operator"
      BY DEF TheQuestion
    <3>2. QED
      BY <2>2, <3>1, BufferGrows DEF Buffered
  <2>4. QED
    BY <2>1, <2>3, SlotsFramed, CountsTyped DEF Held
<1>4. CASE \E c \in Clients :
             \/ Arrive(c) \/ Attach(c) \/ StartOver(c) \/ Read(c)
             \/ Record(c) \/ Send(c) \/ Leave(c)
  <2>1. PICK c \in Clients :
          \/ Arrive(c) \/ Attach(c) \/ StartOver(c) \/ Read(c)
          \/ Record(c) \/ Send(c) \/ Leave(c)
    BY <1>4
  <2>2. UNCHANGED <<port, tx, injected, hand, missed, op>>
    BY <2>1 DEF Arrive, Attach, StartOver, Read, Record, Send, Leave, wires, slots
  <2>3. rx' = rx \/ rx' = Append(rx, [by |-> c, id |-> chunk[c]])
    BY <2>1 DEF Arrive, Attach, StartOver, Read, Record, Send, Leave, wires
  <2>4. Buffered' = Buffered
    <3>1. [by |-> c, id |-> chunk[c]].by # "operator"
      OBVIOUS
    <3>2. QED
      BY <2>3, <3>1, BufferGrows DEF Buffered
  <2>5. QED
    BY <2>2, <2>4, SlotsFramed, CountsTyped DEF Held
<1>5. QED
  BY <1>1, <1>2, <1>3, <1>4

LEMMA SlotsAnswer == ASSUME TypeOK, SlotsAreForLines, Answer PROVE SlotsAreForLines'
<1>1. /\ rx \in Seq(Line) /\ tx \in Seq(Reply) /\ rx # <<>> /\ rx' = Tail(rx)
      /\ Len(rx) \in Nat \ {0} /\ Len(tx) \in Nat
      /\ DOMAIN rx = 1 .. Len(rx) /\ DOMAIN tx = 1 .. Len(tx) /\ Head(rx) = rx[1]
      /\ Head(rx) \in Line
  BY LenProperties, EmptySeq DEF Answer, TypeOK
<1>2. UNCHANGED <<port, injected, hand, missed, op>>
  BY DEF Answer, slots
<1>3. /\ Cardinality(Buffered)
           = Cardinality(Buffered') + (IF Head(rx).by = "operator" THEN 1 ELSE 0)
      /\ Cardinality(Buffered') \in Nat
  <2> DEFINE n == Len(rx)
             S == Buffered
             T == Buffered'
  <2>1. /\ n \in Nat \ {0} /\ S \in SUBSET (1 .. n) /\ T = {i \in 1 .. n - 1 : i + 1 \in S}
    <3>1. DOMAIN rx' = 1 .. Len(rx) - 1 /\ \A i \in 1 .. Len(rx) - 1 : rx'[i] = rx[i + 1]
      BY <1>1
    <3>2. QED
      BY <1>1, <3>1 DEF Buffered
  <2>2. 1 \in S <=> Head(rx).by = "operator"
    BY <1>1 DEF Buffered
  <2> HIDE DEF n, S, T
  <2>3. Cardinality(S) = Cardinality(T) + (IF 1 \in S THEN 1 ELSE 0)
    BY <2>1, FirstGoes
  <2>4. IsFiniteSet(T)
    BY <2>1, FirstGoes
  <2>5. QED
    BY <2>2, <2>3, <2>4, FS_CardinalityType DEF S, T
<1> DEFINE a == [kind |-> "answer", line |-> Head(rx)]
           told == IF Head(rx).by = "probe" THEN <<[kind |-> "setting"]>> ELSE <<>>
<1>4. /\ told \in Seq(Reply) /\ a \in Reply /\ tx' = tx \o told \o <<a>>
      /\ Len(told) \in {0, 1} /\ (Len(told) = 1 => told[1] = [kind |-> "setting"])
      /\ Head(rx).by = "operator" => Len(told) = 0
  <2>1. a \in Reply /\ [kind |-> "setting"] \in Reply
    BY <1>1 DEF Reply
  <2>2. tx' = tx \o told \o <<a>>
    BY DEF Answer
  <2>3. CASE Head(rx).by = "probe"
    <3>1. told = <<[kind |-> "setting"]>>
      BY <2>3
    <3>2. <<[kind |-> "setting"]>> \in Seq(Reply)
      BY <2>1
    <3>3. QED
      BY <2>1, <2>2, <2>3, <3>1, <3>2
  <2>4. CASE Head(rx).by # "probe"
    <3>1. told = <<>>
      BY <2>4
    <3>2. QED
      BY <2>1, <2>2, <3>1
  <2>5. QED
    BY <2>3, <2>4
<1> HIDE DEF told
<1>5. /\ DOMAIN tx' = 1 .. Len(tx) + Len(told) + 1
      /\ \A i \in 1 .. Len(tx) : tx'[i] = tx[i]
      /\ \A i \in Len(tx) + 1 .. Len(tx) + Len(told) : tx'[i] = [kind |-> "setting"]
      /\ tx'[Len(tx) + Len(told) + 1] = a
  <2>1. /\ tx \o told \in Seq(Reply) /\ Len(tx \o told) = Len(tx) + Len(told)
        /\ \A i \in 1 .. Len(tx) + Len(told) :
             (tx \o told)[i] = IF i <= Len(tx) THEN tx[i] ELSE told[i - Len(tx)]
    BY <1>1, <1>4, ConcatProperties
  <2> DEFINE b == tx \o told
  <2>2. b \in Seq(Reply) /\ tx' = Append(b, a)
    BY <1>4, <2>1
  <2> HIDE DEF b, a
  <2>3. /\ Len(tx') = Len(b) + 1 /\ tx' \in Seq(Reply)
        /\ \A i \in 1 .. Len(b) : tx'[i] = b[i]
        /\ tx'[Len(b) + 1] = a
    <3>1. a \in Reply
      BY <1>4
    <3>2. b \in Seq(Reply)
      BY <2>2
    <3>3. QED
      BY <2>2, <3>1, <3>2, AppendProperties
  <2>4. Len(b) = Len(tx) + Len(told) /\ Len(told) \in Nat
    BY <1>4, <2>1 DEF b
  <2>5. DOMAIN tx' = 1 .. Len(tx) + Len(told) + 1
    BY <1>1, <2>3, <2>4, LenProperties
  <2>6. ASSUME NEW i \in 1 .. Len(tx) PROVE tx'[i] = tx[i]
    <3> DEFINE m == Len(tx)
    <3>1. m \in Nat /\ i \in 1 .. m /\ Len(told) \in Nat /\ Len(b) = m + Len(told)
      BY <1>1, <2>4
    <3>2. \A j \in 1 .. m + Len(told) : b[j] = IF j <= m THEN tx[j] ELSE told[j - m]
      BY <2>1 DEF b
    <3> HIDE DEF m
    <3>3. i \in 1 .. m + Len(told) /\ i <= m
      BY <3>1
    <3>4. b[i] = tx[i] /\ tx'[i] = b[i]
      BY <2>3, <3>1, <3>2, <3>3
    <3>5. QED
      BY <3>4
  <2>7. ASSUME NEW i \in Len(tx) + 1 .. Len(tx) + Len(told)
        PROVE  tx'[i] = [kind |-> "setting"]
    <3>1. Len(told) = 1 /\ i = Len(tx) + 1
      <4> DEFINE m == Len(tx)
                 k == Len(told)
      <4>1. m \in Nat /\ (k = 0 \/ k = 1)
        <5>1. m \in Nat
          BY <1>1, Zenon
        <5>2. Len(told) \in {0, 1}
          BY <1>4, Zenon
        <5>3. QED
          BY <5>1, <5>2
      <4>2. i \in m + 1 .. m + k
        OBVIOUS
      <4> HIDE DEF m, k
      <4>3. k = 1 /\ i = m + 1
        BY <4>1, <4>2
      <4>4. QED
        BY <4>3 DEF m, k
    <3>2. b[i] = told[1] /\ tx'[i] = b[i]
      BY <1>1, <2>1, <2>3, <2>4, <3>1 DEF b
    <3>3. QED
      BY <1>4, <3>1, <3>2
  <2>8. QED
    BY <2>3, <2>4, <2>5, <2>6, <2>7
<1>6. Greeted => Greeted'
  BY <1>1, <1>4, <1>5 DEF Greeted
<1>7. Cardinality(Answering') = Cardinality(Answering) + (IF Head(rx).by = "operator" THEN 1 ELSE 0)
  <2>1. CASE Head(rx).by = "operator"
    <3> DEFINE n == Len(tx)
               S == Answering
    <3>1. n \in Nat /\ S \in SUBSET (1 .. n) /\ 1 \in Nat
      BY CountsTyped
    <3>2. Answering' = S \cup (n + 1 .. n + 1)
      <4>1. DOMAIN tx' = 1 .. n + 1 /\ tx'[n + 1] = a /\ n + 1 .. n + 1 = {n + 1}
        BY <1>1, <1>4, <1>5, <2>1
      <4>2. IsAnswer(a) /\ a.line.by = "operator"
        BY <2>1 DEF IsAnswer
      <4> HIDE DEF a
      <4>3. n + 1 \in Answering'
        BY <4>1, <4>2, <3>1 DEF Answering
      <4>4. \A i \in 1 .. n : i \in Answering' <=> i \in S
        BY <1>1, <1>5, <4>1 DEF Answering
      <4>5. Answering' \subseteq 1 .. n + 1
        BY <4>1 DEF Answering
      <4> HIDE DEF n, S
      <4>6. \A i \in 1 .. n + 1 : i \in 1 .. n \/ i = n + 1
        BY <3>1
      <4>7. \A i \in Answering' : i \in S \cup {n + 1}
        BY <4>4, <4>5, <4>6
      <4>8. \A i \in S \cup {n + 1} : i \in Answering'
        BY <3>1, <4>3, <4>4
      <4>9. QED
        BY <4>1, <4>7, <4>8
    <3> HIDE DEF n, S
    <3>3. Cardinality(S \cup (n + 1 .. n + 1)) = Cardinality(S) + 1
      BY <3>1, SomeCome
    <3>4. QED
      BY <2>1, <3>2, <3>3 DEF S
  <2>2. CASE Head(rx).by # "operator"
    <3>1. a.line.by # "operator" /\ ~IsAnswer([kind |-> "setting"])
      BY <2>2 DEF IsAnswer
    <3> HIDE DEF a
    <3> DEFINE m == Len(tx)
               k == Len(told)
    <3>2. m \in Nat /\ k \in Nat /\ DOMAIN tx = 1 .. m /\ DOMAIN tx' = 1 .. m + k + 1
      BY <1>1, <1>4, <1>5
    <3>3. \A i \in m + 1 .. m + k : i \notin Answering'
      BY <1>5, <3>1 DEF Answering
    <3>4. m + k + 1 \notin Answering'
      BY <1>5, <3>1 DEF Answering
    <3>5. \A i \in 1 .. m : i \in Answering' <=> i \in Answering
      BY <1>5, <3>2 DEF Answering
    <3>6. Answering' \subseteq 1 .. m + k + 1 /\ Answering \subseteq 1 .. m
      BY <3>2 DEF Answering
    <3> HIDE DEF m, k
    <3>7. \A i \in 1 .. m + k + 1 : i \in 1 .. m \/ i \in m + 1 .. m + k \/ i = m + k + 1
      BY <3>2
    <3>8. Answering' = Answering
      BY <3>3, <3>4, <3>5, <3>6, <3>7
    <3>9. QED
      BY <2>2, <3>8, CountsTyped
  <2>3. QED
    BY <2>1, <2>2
<1>8. Due' = Due /\ Held' = Held
  <2>1. Waiting' = Waiting
    BY <1>3, <1>7, CountsTyped DEF Waiting
  <2>2. QED
    BY <1>2, <2>1 DEF Due, Held
<1>9. QED
  BY <1>2, <1>6, <1>8, SlotsRestated, SlotsRestatedAfter

LEMMA SlotsReset == ASSUME TypeOK, SlotsAreForLines, Reset \/ PortLost \/ OpenPort
                    PROVE  SlotsAreForLines'
<1>1. CASE PortLost
  BY <1>1, SlotsRestatedAfter DEF PortLost
<1>2. CASE Reset \/ OpenPort
  <2> DEFINE w == [kind |-> "welcome"]
  <2>1. tx \in Seq(Reply) /\ w \in Reply /\ (tx' = Append(tx, w) \/ tx' = <<w>>)
    BY <1>2 DEF Reset, OpenPort, TypeOK, Reply
  <2>2. \E i \in DOMAIN tx' : tx'[i] = w
    <3> HIDE DEF w
    <3>1. CASE tx' = Append(tx, w)
      <4>1. /\ tx' \in Seq(Reply) /\ Len(tx') = Len(tx) + 1 /\ tx'[Len(tx) + 1] = w
        BY <2>1, <3>1, AppendProperties
      <4>2. Len(tx) + 1 \in DOMAIN tx'
        BY <2>1, <4>1, LenProperties
      <4>3. QED
        BY <4>1, <4>2
    <3>2. CASE tx' = <<w>>
      BY <3>2
    <3>3. QED
      BY <2>1, <3>1, <3>2
  <2>3. Greeted'
    BY <2>2 DEF Greeted
  <2>4. QED
    BY <2>3, SlotsRestatedAfter
<1>3. QED
  BY <1>1, <1>2

\* A release either gets what it is for or leaves nothing behind.
LEMMA ReleaseCounts ==
  ASSUME TypeOK, NEW n \in Nat, Release(n), hand' = hand, ~missed'
  PROVE  ~missed /\ Held' \in Nat /\ (Held' = 0 \/ Held = Held' + n)
<1> DEFINE k == Len(injected)
<1>1. injected \in Seq({"fresh", "past"}) /\ k \in Nat
  BY LenProperties DEF TypeOK
<1>2. /\ injected' = SubSeq(injected, n + 1, k)
      /\ ~missed /\ (hand = "none" \/ ~(n > k))
  BY Zenon DEF Release
<1>3. Len(injected') = IF n + 1 <= k THEN k - (n + 1) + 1 ELSE 0
  BY <1>1, <1>2
<1> DEFINE h == IF hand # "none" THEN 1 ELSE 0
<1>4. Held = k + h /\ Held' = Len(injected') + h /\ h \in {0, 1}
  BY DEF Held
<1>5. n > k => h = 0
  BY <1>2
<1> HIDE DEF h, k
<1>6. QED
  BY <1>1, <1>2, <1>3, <1>4, <1>5

LEMMA SlotsObserve == ASSUME TypeOK, SlotsAreForLines, Observe PROVE SlotsAreForLines'
<1> SUFFICES ASSUME port' # 0, ~Greeted', ~missed' PROVE Held' <= Due'
  BY SlotsRestatedAfter
<1>1. /\ tx # <<>> /\ tx' = Tail(tx) /\ UNCHANGED <<port, rx, hand, op>>
  BY DEF Observe, links
<1>2. /\ Cardinality(Answering) = Cardinality(Answering')
           + (IF IsAnswer(Head(tx)) /\ Head(tx).line.by = "operator" THEN 1 ELSE 0)
      /\ Cardinality(Answering') \in Nat
      /\ Greeted => Greeted' \/ Head(tx).kind = "welcome"
  BY <1>1, ReplyGoes
<1>3. Buffered' = Buffered
  BY <1>1 DEF Buffered
<1> DEFINE own == IF op.at = "claimed" THEN op.n ELSE 0
<1>a. /\ Due = Cardinality(Answering) + Cardinality(Buffered) + own
      /\ Due' = Cardinality(Answering') + Cardinality(Buffered) + own
  BY <1>1, <1>3 DEF Due, Waiting
<1>b. Cardinality(Answering) \in Nat /\ Cardinality(Buffered) \in Nat /\ own \in Nat
  BY CountsTyped
<1> HIDE DEF own
<1>4. Due' \in Nat
  BY <1>2, <1>a, <1>b
<1>5. Head(tx) \in Reply
  BY <1>1, HeadTailProperties DEF TypeOK
<1>6. CASE IsAnswer(Head(tx))
  <2>1. Release(1)
    <3>1. \E kind \in {"ok", "error"} : Answers(kind)
      BY <1>6 DEF Observe, IsAnswer
    <3>2. QED
      BY <3>1 DEF Answers
  <2>2. ~missed /\ Held' \in Nat /\ (Held' = 0 \/ Held = Held' + 1)
    BY <1>1, <2>1, ReleaseCounts
  <2>3. Head(tx).kind # "welcome"
    BY <1>6 DEF IsAnswer
  <2>4. Held <= Due
    BY <1>1, <1>2, <2>2, <2>3, SlotsRestated
  <2>5. Due <= Due' + 1
    BY <1>2, <1>a, <1>b
  <2>6. QED
    BY <1>4, <2>2, <2>4, <2>5, CountsTyped
<1>7. CASE Head(tx).kind = "setting"
  <2>1. UNCHANGED <<injected, missed>>
    BY <1>7 DEF Observe, IsAnswer
  <2>2. ~Greeted
    BY <1>2, <1>7
  <2>3. Held <= Due
    BY <1>1, <2>1, <2>2, SlotsRestated
  <2>4. Due' = Due
    BY <1>2, <1>7, <1>a, <1>b DEF IsAnswer
  <2>5. QED
    BY <1>1, <2>1, <2>3, <2>4 DEF Held
<1>8. CASE Head(tx).kind = "welcome"
  <2>1. injected' = <<>> /\ missed' = (hand # "none")
    BY <1>8 DEF Observe, IsAnswer
  <2>2. hand' = "none"
    <3>1. hand = "none"
      BY <2>1, Zenon
    <3>2. QED
      BY <1>1, <3>1
  <2>3. Held' = 0
    BY <2>1, <2>2 DEF Held
  <2>4. QED
    BY <1>4, <2>3
<1>9. QED
  <2>1. IsAnswer(Head(tx)) \/ Head(tx).kind = "setting" \/ Head(tx).kind = "welcome"
    BY <1>5 DEF Reply, IsAnswer
  <2>2. QED
    BY <1>6, <1>7, <1>8, <2>1

LEMMA SlotsClaim == ASSUME TypeOK, SlotsAreForLines, Claim PROVE SlotsAreForLines'
<1>1. /\ UNCHANGED <<port, tx, rx, missed, hand>> /\ op.at = "checked"
  BY DEF Claim, wires
<1>2. Answering' = Answering /\ Buffered' = Buffered /\ Greeted' = Greeted
  BY <1>1 DEF Answering, Buffered, Greeted
<1>3. \E k \in Nat : Held' = Held + k /\ Due' = Due + k
  <2>1. SlotsTyped /\ OpTyped
    BY TypeParts
  <2>2. \/ Len(injected') = Len(injected) + op.n /\ op' = [op EXCEPT !.at = "claimed"]
        \/ Len(injected') = Len(injected) /\ op' = Quiet
    BY <2>1, ClaimKeepsTheSlots
  <2>3. /\ Due = Waiting /\ Waiting' = Waiting
        /\ Waiting \in Nat /\ Held \in Nat /\ op.n \in Nat /\ Len(injected) \in Nat
    BY <1>1, <1>2, CountsTyped DEF Due, Waiting
  <2>4. CASE Len(injected') = Len(injected) + op.n /\ op' = [op EXCEPT !.at = "claimed"]
    <3>1. op'.at = "claimed" /\ op'.n = op.n
      BY <2>1, <2>4 DEF OpTyped
    <3>2. Due' = Due + op.n
      BY <2>3, <3>1 DEF Due
    <3>3. Held' = Held + op.n
      BY <1>1, <2>3, <2>4 DEF Held
    <3>4. QED
      BY <2>3, <3>2, <3>3
  <2>5. CASE Len(injected') = Len(injected) /\ op' = Quiet
    <3>1. Due' = Due + 0
      BY <2>3, <2>5 DEF Due, Quiet
    <3>2. Held' = Held + 0
      BY <1>1, <2>3, <2>5 DEF Held
    <3>3. QED
      BY <3>1, <3>2
  <2>6. QED
    BY <2>2, <2>4, <2>5
<1>4. QED
  BY <1>1, <1>2, <1>3, CountsTyped, SlotsRestated, SlotsRestatedAfter

LEMMA SlotsSendLines == ASSUME TypeOK, SlotsAreForLines, SendLines PROVE SlotsAreForLines'
<1> SUFFICES ASSUME port' # 0, ~Greeted', ~missed' PROVE Held' <= Due'
  BY SlotsRestatedAfter
<1>1. /\ UNCHANGED <<port, tx, hand>> /\ op.at = "claimed" /\ op' = Quiet
  BY DEF SendLines
<1>2. Answering' = Answering /\ Greeted' = Greeted
  BY <1>1 DEF Answering, Greeted
<1>3. /\ Due = Waiting + op.n /\ Due' = Cardinality(Answering) + Cardinality(Buffered')
      /\ Waiting = Cardinality(Answering) + Cardinality(Buffered)
      /\ op.n \in Nat /\ Held \in Nat
      /\ Cardinality(Answering) \in Nat /\ Cardinality(Buffered) \in Nat
  <2>1. Due = Waiting + op.n
    BY <1>1 DEF Due
  <2>2. op'.at # "claimed"
    BY <1>1 DEF Quiet
  <2>3. Due' = Cardinality(Answering) + Cardinality(Buffered') + 0
    BY <1>2, <2>2 DEF Due, Waiting
  <2>4. Cardinality(Buffered') \in Nat /\ Cardinality(Answering) \in Nat
    BY SendLinesTyped, CountsAfter, CountsTyped
  <2>5. QED
    BY <2>1, <2>3, <2>4, CountsTyped DEF Waiting
<1>4. CASE /\ rx' = rx \o New("operator", op.n) /\ lines + op.n <= MaxLines
           /\ UNCHANGED <<injected, missed>>
  <2>1. Cardinality(Buffered') = Cardinality(Buffered) + op.n
    <3> DEFINE n == Len(rx)
               k == op.n
               more == New("operator", k)
               S == Buffered
    <3>1. n \in Nat /\ k \in Nat /\ S \in SUBSET (1 .. n) /\ DOMAIN rx = 1 .. n /\ rx \in Seq(Line)
      BY CountsTyped DEF TypeOK
    <3>2. /\ more \in Seq([by : {"operator"}, id : 1 .. MaxLines]) /\ Len(more) = k
      <4>1. lines \in Nat
        BY DEF TypeOK
      <4>2. QED
        BY <1>4, <3>1, <4>1, NewAreLines
    <3>3. \A i \in 1 .. k : more[i].by = "operator"
      BY <3>1 DEF New
    <3> HIDE DEF more
    <3>4. /\ DOMAIN rx' = 1 .. n + k
          /\ \A i \in 1 .. n + k : rx'[i] = IF i <= n THEN rx[i] ELSE more[i - n]
      <4> DEFINE own == [by : {"operator"}, id : 1 .. MaxLines]
      <4>1. own \subseteq Line /\ more \in Seq(own)
        BY <3>2 DEF Line
      <4> HIDE DEF own
      <4>2. more \in Seq(Line)
        BY <4>1, SeqMonotonic
      <4>3. rx' = rx \o more
        BY <1>4 DEF more
      <4>4. QED
        BY <3>1, <3>2, <4>2, <4>3, ConcatProperties, LenProperties
    <3> HIDE DEF n, k, S
    <3>5. \A i \in 1 .. n : i \in Buffered' <=> i \in S
      <4>1. \A i \in 1 .. n : i \in DOMAIN rx' /\ rx'[i] = rx[i]
        BY <3>1, <3>4
      <4>2. QED
        BY <3>1, <4>1 DEF Buffered, S
    <3>6. \A i \in n + 1 .. n + k : i \in Buffered'
      <4>1. \A i \in n + 1 .. n + k : i - n \in 1 .. k /\ i \in 1 .. n + k /\ ~(i <= n)
        BY <3>1
      <4>2. \A i \in n + 1 .. n + k : i \in DOMAIN rx' /\ rx'[i].by = "operator"
        BY <3>3, <3>4, <4>1
      <4>3. QED
        BY <4>2 DEF Buffered
    <3>7. Buffered' \subseteq 1 .. n + k
      BY <3>4 DEF Buffered
    <3>8. \A i \in 1 .. n + k : i \in 1 .. n \/ i \in n + 1 .. n + k
      BY <3>1
    <3>9. Buffered' = S \cup (n + 1 .. n + k)
      <4>1. \A i \in Buffered' : i \in S \cup (n + 1 .. n + k)
        BY <3>5, <3>7, <3>8
      <4>2. \A i \in S \cup (n + 1 .. n + k) : i \in Buffered'
        BY <3>1, <3>5, <3>6
      <4>3. QED
        BY <4>1, <4>2
    <3>10. Cardinality(S \cup (n + 1 .. n + k)) = Cardinality(S) + k
      BY <3>1, SomeCome
    <3>11. QED
      BY <3>9, <3>10 DEF S, k
  <2>2. Due' = Due
    BY <1>3, <2>1
  <2>3. Held' = Held
    BY <1>1, <1>4 DEF Held
  <2>4. Held <= Due
    BY <1>1, <1>2, <1>4, SlotsRestated
  <2>5. QED
    BY <2>2, <2>3, <2>4
<1>5. CASE Release(op.n) /\ UNCHANGED rx
  <2>1. Buffered' = Buffered
    BY <1>5 DEF Buffered
  <2>2. ~missed /\ Held' \in Nat /\ (Held' = 0 \/ Held = Held' + op.n)
    BY <1>1, <1>3, <1>5, ReleaseCounts
  <2>3. Held <= Due
    BY <1>1, <1>2, <2>2, SlotsRestated
  <2>4. QED
    BY <1>3, <2>1, <2>2, <2>3
<1>6. QED
  BY <1>4, <1>5 DEF SendLines

\* forgetStaleLines, recordReport and sendLines work on the slots at the same
\* time, and no slot stays taken for a line that was answered: for any number
\* of slots, lines and clients, as long as no release has missed the entry that
\* the watchdog looks at, a slot stands for a line that is yet to be answered.
THEOREM SlotsStandForLines == Spec => []SlotsAreForLines
<1>1. Init => TypeOK /\ SlotsAreForLines
  <2>1. Init => SlotsAreForLines
    BY DEF Init, SlotsAreForLines
  <2>2. QED
    BY <2>1, InitTyped
<1>2. TypeOK /\ SlotsAreForLines /\ [Next]_vars => (TypeOK /\ SlotsAreForLines)'
  <2> SUFFICES ASSUME TypeOK, SlotsAreForLines, [Next]_vars PROVE SlotsAreForLines'
    BY StepTyped
  <2>1. CASE Device
    BY <2>1, SlotsQuietSteps, SlotsAnswer, SlotsReset, SlotsObserve DEF Device
  <2>2. CASE Probing \/ Serving \/ Ticking \/ UNCHANGED vars
    BY <2>2, SlotsQuietSteps DEF Probing, Serving
  <2>3. CASE Request
    BY <2>3, SlotsQuietSteps, SlotsClaim, SlotsSendLines DEF Request
  <2>4. QED
    BY <2>1, <2>2, <2>3 DEF Next
<1>3. QED
  BY <1>1, <1>2, PTL DEF Spec

-----------------------------------------------------------------------------
(***************************************************************************)
(* The gate.  GateOpens needs fairness; what it needs besides is that      *)
(* whoever waits is waiting for somebody: the questions of the port that   *)
(* is open now, or the device loop that finds no port.                     *)
(***************************************************************************)

\* beginProbe, finishProbe: with the gate open nobody waits, and with the gate
\* closed and a port open the questions of that very port are under way, however
\* many probes of earlier ports are about.
SomebodyOpens ==
  /\ gate => \A c \in Clients : conn[c] # "gate"
  /\ ~gate /\ port # 0 => probe[port] \in {"identify", "ask", "write", "asked"}

LEMMA StepOpens == ASSUME TypeOK, SomebodyOpens, [Next]_vars PROVE SomebodyOpens'
<1>t. /\ port \in 0 .. opens /\ opens \in 0 .. MaxOpens
      /\ conn \in [Clients -> Places] /\ probe \in [1 .. MaxOpens -> Stages]
  BY DEF TypeOK, Places, Stages
<1>1. CASE Open
  BY <1>1, <1>t DEF Open, SomebodyOpens
<1>2. CASE UNCHANGED <<conn, gate, probe, port>>
  BY <1>2 DEF SomebodyOpens
<1>3. CASE Device
  <2>1. CASE Answer \/ Reset \/ Relay \/ Observe
    BY <1>2, <2>1 DEF Answer, Reset, Relay, Observe, links
  <2>2. CASE NoDevice
    BY <1>1, <2>2 DEF NoDevice
  <2>3. CASE OpenPort
    BY <1>t, <2>3 DEF OpenPort, SomebodyOpens
  <2>4. CASE PortLost
    BY <1>t, <2>4 DEF PortLost, SomebodyOpens
  <2>5. QED
    BY <1>3, <2>1, <2>2, <2>3, <2>4 DEF Device
<1>4. ASSUME NEW p \in 1 .. MaxOpens, Identify(p) \/ Ask(p) \/ Question(p) \/ Asked(p)
      PROVE  SomebodyOpens'
  <2>1. CASE Finish(p)
    BY <1>1, <2>1 DEF Finish
  <2>2. CASE ~Finish(p)
    <3>1. PICK where \in {"ask", "write", "asked"} : GoOn(p, where) /\ UNCHANGED port
      BY <1>4, <2>2 DEF Identify, Ask, Question, Asked, wires
    <3>2. QED
      BY <1>t, <3>1 DEF GoOn, SomebodyOpens
  <2>3. QED
    BY <2>1, <2>2
<1>5. ASSUME NEW c \in Clients,
             \/ Arrive(c) \/ Attach(c) \/ StartOver(c) \/ Read(c)
             \/ Record(c) \/ Send(c) \/ Leave(c)
      PROVE  SomebodyOpens'
  <2>1. UNCHANGED <<port, gate, probe>>
    BY <1>5 DEF Arrive, Attach, StartOver, Read, Record, Send, Leave, wires
  <2>2. PICK where \in Places : conn' = [conn EXCEPT ![c] = where] /\ (gate => where # "gate")
    BY <1>5 DEF Arrive, Attach, StartOver, Read, Record, Send, Leave, Places
  <2>3. QED
    BY <1>t, <2>1, <2>2 DEF SomebodyOpens
<1>6. CASE Request \/ Ticking \/ UNCHANGED vars
  BY <1>2, <1>6 DEF Request, Check, Claim, SendLines, Ticking, TakeOut, PutBack, Age, vars, wires,
     links
<1>7. QED
  BY <1>3, <1>4, <1>5, <1>6 DEF Next, Probing, Serving

\* Whoever waits at the gate waits for a probe that is under way, and which
\* opens it wherever it ends, or for the device loop: never for nobody.
THEOREM NobodyWaitsForNobody == Spec => []SomebodyOpens
<1>1. Init => SomebodyOpens
  BY DEF Init, SomebodyOpens
<1>2. Init => TypeOK
  BY InitTyped
<1>3. TypeOK /\ SomebodyOpens /\ [Next]_vars => (TypeOK /\ SomebodyOpens)'
  BY StepTyped, StepOpens
<1>4. QED
  BY <1>1, <1>2, <1>3, PTL DEF Spec

-----------------------------------------------------------------------------
(***************************************************************************)
(* SlotsComeBack needs fairness, of the clock and of the watchdog.  What   *)
(* it needs besides is that slots are taken by requests only, and that     *)
(* what is past its time does not become young again.                      *)
(***************************************************************************)
Overdue ==
  /\ \A i \in 1 .. Len(injected) : injected[i] = "past"
  /\ hand # "fresh"

\* The steps of the watchdog until it has looked at everything: two for each
\* entry, one more to put back what aged in its hand.
LooksLeft == 2 * Len(injected) + (IF hand = "none" THEN 0 ELSE 3)

\* forgetStaleLines: while no request claims slots, those in use become fewer
\* only; the clock turns all of them overdue; and of those each look of the
\* watchdog gives one back, whatever is answered, reset or lost meanwhile.
SlotsRunOut ==
  [][/\ ~Claim =>
          /\ Held' <= Held
          /\ Overdue => /\ Overdue' /\ LooksLeft' <= LooksLeft
                        /\ TakeOut \/ PutBack => LooksLeft' < LooksLeft
     /\ Age => Overdue']_vars

LooksAreFew == LooksLeft \in 0 .. 2 * Slots + 3

\* The first n entries go, and the rest is what it was.
LEMMA ShorterFromTheFront ==
  ASSUME NEW s \in Seq({"fresh", "past"}), NEW n \in Nat
  PROVE  /\ Len(SubSeq(s, n + 1, Len(s))) \in Nat /\ Len(SubSeq(s, n + 1, Len(s))) <= Len(s)
         /\ \A i \in 1 .. Len(SubSeq(s, n + 1, Len(s))) :
              i + n \in 1 .. Len(s) /\ SubSeq(s, n + 1, Len(s))[i] = s[i + n]
<1>1. Len(s) \in Nat
  BY LenProperties
<1>2. CASE n < Len(s)
  BY <1>1, <1>2, SubSeqProperties
<1>3. CASE ~(n < Len(s))
  BY <1>1, <1>3, SubSeqProperties
<1>4. QED
  BY <1>2, <1>3

\* Slots that are released, all of them by a banner.
LEMMA ReleasesRunOut ==
  ASSUME TypeOK, hand' = hand,
         \/ \E n \in 0 .. 2 : Release(n)
         \/ injected' = <<>>
         \/ injected' = injected
  PROVE  /\ Held' <= Held
         /\ Overdue => Overdue' /\ LooksLeft' <= LooksLeft
<1>t. injected \in Seq({"fresh", "past"}) /\ Len(injected) \in Nat
  BY LenProperties DEF TypeOK
<1>1. /\ Len(injected') \in Nat /\ Len(injected') <= Len(injected)
      /\ Overdue => \A i \in 1 .. Len(injected') : injected'[i] = "past"
  <2>1. ASSUME NEW n \in 0 .. 2, Release(n)
        PROVE  /\ Len(injected') \in Nat /\ Len(injected') <= Len(injected)
               /\ Overdue => \A i \in 1 .. Len(injected') : injected'[i] = "past"
    <3>1. injected' = SubSeq(injected, n + 1, Len(injected)) /\ n \in Nat
      BY <2>1 DEF Release
    <3>2. /\ Len(injected') \in Nat /\ Len(injected') <= Len(injected)
          /\ \A i \in 1 .. Len(injected') : i + n \in 1 .. Len(injected) /\ injected'[i] = injected[i + n]
      BY <1>t, <3>1, ShorterFromTheFront
    <3>3. QED
      BY <3>2 DEF Overdue
  <2>2. CASE injected' = <<>>
    BY <1>t, <2>2
  <2>3. CASE injected' = injected
    BY <1>t, <2>3 DEF Overdue
  <2>4. QED
    BY <2>1, <2>2, <2>3
<1>2. Held' <= Held
  BY <1>t, <1>1 DEF Held
<1>3. LooksLeft' <= LooksLeft
  BY <1>t, <1>1 DEF LooksLeft
<1>4. Overdue => Overdue'
  BY <1>1 DEF Overdue
<1>5. QED
  BY <1>2, <1>3, <1>4

LEMMA TakeOutRunsOut ==
  ASSUME TypeOK, TakeOut
  PROVE  Held' <= Held /\ (Overdue => Overdue' /\ LooksLeft' < LooksLeft)
<1>t. injected \in Seq({"fresh", "past"}) /\ Len(injected) \in Nat /\ injected # <<>>
  BY LenProperties DEF TypeOK, TakeOut
<1>1. /\ Len(injected') = Len(injected) - 1 /\ Len(injected) # 0
      /\ \A i \in 1 .. Len(injected') : injected'[i] = injected[i + 1]
  BY <1>t, EmptySeq, HeadTailProperties DEF TakeOut
<1>2. hand = "none" /\ hand' \in {"none", "fresh"} /\ (Head(injected) = "past" => hand' = "none")
  BY DEF TakeOut
<1>3. Held' <= Held
  BY <1>t, <1>1, <1>2 DEF Held
<1>4. ASSUME Overdue
      PROVE  Overdue' /\ LooksLeft' < LooksLeft
  <2>1. Head(injected) = "past"
    BY <1>t, <1>1, <1>4 DEF Overdue
  <2>2. \A i \in 1 .. Len(injected') : injected'[i] = "past"
    BY <1>t, <1>1, <1>4 DEF Overdue
  <2>3. LooksLeft' < LooksLeft
    BY <1>t, <1>1, <1>2, <2>1 DEF LooksLeft
  <2>4. QED
    BY <1>2, <2>1, <2>2, <2>3 DEF Overdue
<1>5. QED
  BY <1>3, <1>4

LEMMA PutBackRunsOut ==
  ASSUME TypeOK, PutBack
  PROVE  Held' <= Held /\ (Overdue => Overdue' /\ LooksLeft' < LooksLeft)
<1>t. injected \in Seq({"fresh", "past"}) /\ Len(injected) \in Nat /\ hand \in {"fresh", "past"}
  BY LenProperties DEF TypeOK, PutBack
<1>1. hand' = "none" /\ hand # "none"
  BY DEF PutBack
<1>2. CASE injected' = injected
  <2>1. Held' <= Held /\ LooksLeft' < LooksLeft
    BY <1>t, <1>1, <1>2 DEF Held, LooksLeft
  <2>2. QED
    BY <1>1, <1>2, <2>1 DEF Overdue
<1>3. CASE injected' = Append(injected, hand)
  <2>1. /\ Len(injected') = Len(injected) + 1 /\ injected'[Len(injected) + 1] = hand
        /\ \A i \in 1 .. Len(injected) : injected'[i] = injected[i]
    BY <1>t, <1>3, AppendProperties
  <2>2. Held' <= Held /\ LooksLeft' < LooksLeft
    BY <1>t, <1>1, <2>1 DEF Held, LooksLeft
  <2>3. ASSUME Overdue, NEW i \in 1 .. Len(injected')
        PROVE  injected'[i] = "past"
    <3>1. i \in 1 .. Len(injected) \/ i = Len(injected) + 1
      BY <1>t, <2>1, <2>3
    <3>2. QED
      BY <1>t, <2>1, <2>3, <3>1 DEF Overdue
  <2>4. QED
    BY <1>1, <2>2, <2>3 DEF Overdue
<1>4. QED
  BY <1>2, <1>3 DEF PutBack

LEMMA AgeRunsOut ==
  ASSUME TypeOK, Age
  PROVE  Held' <= Held /\ LooksLeft' <= LooksLeft /\ Overdue'
<1>t. injected \in Seq({"fresh", "past"}) /\ Len(injected) \in Nat
      /\ hand \in {"none", "fresh", "past"} /\ DOMAIN injected = 1 .. Len(injected)
  BY LenProperties DEF TypeOK
<1> DEFINE aged(entry) == IF entry = "none" THEN "none" ELSE "past"
<1>1. injected' = [i \in DOMAIN injected |-> aged(injected[i])] /\ hand' = aged(hand)
  BY DEF Age
<1>2. \A i \in 1 .. Len(injected) : aged(injected[i]) = "past"
  BY <1>t, ElementOfSeq
<1>3. injected' \in [1 .. Len(injected) -> {"past"}]
  BY <1>t, <1>1, <1>2
<1>4. Len(injected') = Len(injected)
  BY <1>t, <1>3, FunctionsAreSeqs
<1>5. hand' # "fresh" /\ (hand' = "none" <=> hand = "none")
  BY <1>t, <1>1
<1>6. Held' <= Held
  BY <1>t, <1>4, <1>5 DEF Held
<1>7. LooksLeft' <= LooksLeft
  BY <1>t, <1>4, <1>5 DEF LooksLeft
<1>8. Overdue'
  BY <1>t, <1>3, <1>4, <1>5 DEF Overdue
<1>9. QED
  BY <1>6, <1>7, <1>8

\* What gives a slot back, and what has nothing to do with slots.
LEMMA OthersRelease ==
  ASSUME TypeOK, Next, ~Claim, ~Ticking
  PROVE  /\ hand' = hand
         /\ \/ \E n \in 0 .. 2 : Release(n)
            \/ injected' = <<>>
            \/ injected' = injected
<1>1. CASE Device
  <2>1. CASE Observe
    <3>1. Head(tx).kind \in {"answer", "setting", "welcome"}
      BY <2>1, HeadTailProperties DEF Observe, TypeOK, Reply
    <3>2. CASE IsAnswer(Head(tx))
      <4>1. ~(Head(tx).kind = "setting") /\ ~(Head(tx).kind = "welcome")
        BY <3>2 DEF IsAnswer
      <4>2. \E kind \in {"ok", "error"} : Answers(kind)
        BY <2>1, <3>2, <4>1 DEF Observe
      <4>3. Release(1)
        BY <4>2 DEF Answers
      <4>4. QED
        BY <2>1, <4>3 DEF Observe
    <3>3. CASE Head(tx).kind = "setting"
      BY <2>1, <3>3 DEF Observe, IsAnswer
    <3>4. CASE Head(tx).kind = "welcome"
      BY <2>1, <3>4 DEF Observe, IsAnswer
    <3>5. QED
      BY <3>1, <3>2, <3>3, <3>4, <2>1 DEF IsAnswer, Observe
  <2>2. CASE Answer \/ Reset \/ NoDevice \/ OpenPort \/ PortLost \/ Relay
    BY <2>2 DEF Answer, Reset, NoDevice, OpenPort, PortLost, Relay, slots
  <2>3. QED
    BY <1>1, <2>1, <2>2 DEF Device
<1>2. CASE Probing
  BY <1>2 DEF Probing, Identify, Ask, Question, Asked, slots
<1>3. CASE Serving
  BY <1>3 DEF Serving, Arrive, Attach, StartOver, Read, Record, Send, Leave, slots
<1>4. CASE Request
  BY <1>4 DEF Request, Check, SendLines, TypeOK
<1>5. QED
  BY <1>1, <1>2, <1>3, <1>4 DEF Next

\* A lost reply does not wedge the pad: while nobody asks, the slots in use only
\* become fewer, and once they are overdue the watchdog has them back after
\* 2 * Slots + 3 looks.
THEOREM SlotsAreGivenBack == Spec => SlotsRunOut /\ []LooksAreFew
<1>1. TypeOK /\ [Next]_vars
      => [/\ ~Claim =>
               /\ Held' <= Held
               /\ Overdue => /\ Overdue' /\ LooksLeft' <= LooksLeft
                             /\ TakeOut \/ PutBack => LooksLeft' < LooksLeft
          /\ Age => Overdue']_vars
  <2> SUFFICES ASSUME TypeOK, Next
               PROVE  /\ ~Claim =>
                           /\ Held' <= Held
                           /\ Overdue => /\ Overdue' /\ LooksLeft' <= LooksLeft
                                         /\ TakeOut \/ PutBack => LooksLeft' < LooksLeft
                      /\ Age => Overdue'
    OBVIOUS
  <2>1. LooksLeft \in Nat /\ LooksLeft' \in Nat
    <3>1. TypeOK'
      BY StepTyped
    <3>2. Len(injected) \in Nat /\ Len(injected') \in Nat
      BY <3>1, LenProperties DEF TypeOK
    <3>3. QED
      BY <3>2 DEF LooksLeft
  <2>2. LooksLeft' < LooksLeft => LooksLeft' <= LooksLeft
    BY <2>1
  <2>3. TakeOut \/ PutBack => Held' <= Held /\ (Overdue => Overdue' /\ LooksLeft' < LooksLeft)
    BY TakeOutRunsOut, PutBackRunsOut
  <2>4. Age => Held' <= Held /\ LooksLeft' <= LooksLeft /\ Overdue'
    BY AgeRunsOut
  <2>5. ASSUME ~Claim, ~Ticking
        PROVE  Held' <= Held /\ (Overdue => Overdue' /\ LooksLeft' <= LooksLeft)
    BY <2>5, OthersRelease, ReleasesRunOut
  <2>6. QED
    BY <2>2, <2>3, <2>4, <2>5 DEF Ticking
<1>2. TypeOK => LooksAreFew
  <2> SUFFICES ASSUME TypeOK
               PROVE  LooksAreFew
    OBVIOUS
  <2>1. Len(injected) \in Nat /\ Len(injected) <= Slots /\ Slots \in Nat
    BY SlotsAssumption, LenProperties DEF TypeOK
  <2>2. QED
    BY <2>1 DEF LooksAreFew, LooksLeft
<1>3. QED
  BY <1>1, <1>2, Typed, PTL DEF Spec, SlotsRunOut

=============================================================================
