------------------------------- MODULE Lines -------------------------------
(***************************************************************************)
(* Whose line is in the controller's buffer and who gets the answer: the   *)
(* accept gate and the opening questions (proxy/intervene.go), the lines   *)
(* the operator sends and the slots they occupy (proxy/control.go), and    *)
(* lineTail, which attributes replies to a client's lines                  *)
(* (proxy/journal.go).                                                     *)
(*                                                                         *)
(* GRBL answers every line once, in order, with "ok" or "error", and says  *)
(* nobody's name.  serveDevice hands each reply first to the client and    *)
(* then to the observer.                                                   *)
(***************************************************************************)
EXTENDS Naturals, FiniteSets, Sequences

CONSTANTS
  Clients,    \* the connections that may arrive, each of them once
  NoClient,   \* nil
  Slots,      \* outstandingLines
  Operator,   \* the cases to look at: behaviours in which somebody uses the web
              \* interface, and behaviours in which nobody does
  MaxLines,   \* bound: lines sent altogether
  MaxResets,  \* bound: soft resets
  MaxOpens    \* bound: how often the port is opened

ASSUME NamesAssumption == NoClient \notin Clients /\ Clients \cap {"probe", "operator"} = {}
ASSUME SlotsAssumption == Slots \in Nat \ {0, 1} /\ Operator \subseteq BOOLEAN
ASSUME BoundAssumption == {MaxLines, MaxResets, MaxOpens} \subseteq Nat

VARIABLES
  port, opens,   \* the open port by number, 0 for none, and how many there were
  rx, tx,        \* the controller's buffer and its replies on their way
  relayed,       \* has the client been given the first of them?
  heard, laser,  \* has the observer had a banner, and $32, from this port?
  client, conn,  \* Bridge.client, and where each connection's goroutine is
  gate, probe,   \* is the accept gate open, and where each port's probe is
  pending, desynced, \* lineTail
  injected,      \* the slots: one entry per line, fresh or past its time
  hand,          \* the young entry that forgetStaleLines has taken out
  missed,        \* history: has a release missed that entry?
  op,            \* where the operator's request is, and its number of lines
  lines, resets, \* counters of the bounds; lines also names them
  chunk,         \* the line that each connection has recorded last
  clean          \* history: has the client's accounting missed nothing?

wires == <<port, opens, rx, tx, relayed>>
seen  == <<heard, laser>>
links == <<client, conn, gate, probe>>
tail  == <<pending, desynced, clean>>
slots == <<injected, hand, missed, op>>
count == <<lines, resets, chunk>>
vars  == <<wires, seen, links, tail, slots, count>>

Line  == [by : Clients \cup {"probe", "operator"}, id : 0 .. MaxLines]
Reply == [kind : {"answer"}, line : Line] \cup [kind : {"setting", "welcome"}]

IsAnswer(reply) == reply.kind = "answer"

\* A line that is recorded and on its way to the port.
Between(c) == conn[c] = "recorded"

New(by, n) == [i \in 1 .. n |-> [by |-> by, id |-> lines + i]]

\* The opening questions are never recorded, and need no number.
TheQuestion == [by |-> "probe", id |-> 0]

-----------------------------------------------------------------------------
(***************************************************************************)
(* The controller.                                                         *)
(***************************************************************************)

\* It takes a line from its buffer.  The dump that answers $$ names $32 before
\* its answer.
Answer ==
  /\ rx # <<>>
  /\ rx' = Tail(rx)
  /\ tx' = tx \o (IF Head(rx).by = "probe" THEN <<[kind |-> "setting"]>> ELSE <<>>)
              \o <<[kind |-> "answer", line |-> Head(rx)]>>
  /\ UNCHANGED <<port, opens, relayed, seen, links, tail, slots, count>>

\* A soft reset, by the client, a ladder or a stop, which lets the client go:
\* what the buffer held is never answered.
Reset ==
  /\ port # 0 /\ resets < MaxResets
  /\ rx' = <<>> /\ tx' = Append(tx, [kind |-> "welcome"])
  /\ client' \in {client, NoClient}
  /\ clean' = FALSE /\ resets' = resets + 1
  /\ UNCHANGED <<port, opens, relayed, seen, conn, gate, probe, pending, desynced, slots>>
  /\ UNCHANGED <<lines, chunk>>

-----------------------------------------------------------------------------
(***************************************************************************)
(* serveDevice: the port, and the replies it reads.                        *)
(***************************************************************************)

\* Whoever waits at the gate holds the channel it found there, so opening lets
\* all of them through.
Open == gate' = TRUE /\ conn' = [c \in Clients |-> IF conn[c] = "gate" THEN "through" ELSE conn[c]]

\* Nothing to ask and nobody to ask it of.
NoDevice ==
  /\ port = 0 /\ ~gate
  /\ Open
  /\ UNCHANGED <<wires, seen, client, probe, tail, slots, count>>

\* openPort, which resets the controller, and beginProbe.
OpenPort ==
  /\ port = 0 /\ opens < MaxOpens
  /\ opens' = opens + 1 /\ port' = opens + 1
  /\ tx' = <<[kind |-> "welcome"]>>
  /\ heard' = FALSE /\ laser' = FALSE
  /\ gate' = FALSE /\ probe' = [probe EXCEPT ![opens + 1] = "identify"]
  /\ UNCHANGED <<rx, relayed, client, conn, tail, slots, count>>

\* The adapter goes, and the client's socket is closed.  A chunk on its way
\* finds a port that is no longer open; one that was read with that port in hand
\* will, too, but is still recorded.
PortLost ==
  /\ port # 0
  /\ port' = 0 /\ rx' = <<>> /\ tx' = <<>> /\ relayed' = FALSE
  /\ client' = NoClient
  /\ conn' = [c \in Clients |-> IF Between(c) THEN "gone"
                              ELSE IF conn[c] = "read" THEN "stale" ELSE conn[c]]
  /\ clean' = FALSE
  /\ UNCHANGED <<opens, seen, gate, probe, pending, desynced, slots, count>>

Relay ==
  /\ tx # <<>> /\ ~relayed
  /\ relayed' = TRUE
  /\ UNCHANGED <<port, opens, rx, tx, seen, links, tail, slots, count>>

\* lineTail.Forget.
Forget ==
  /\ pending' = <<>> /\ desynced' = FALSE

\* lineTail.Acknowledge.
Acknowledge ==
  IF pending = <<>> THEN desynced' = TRUE /\ UNCHANGED pending
  ELSE pending' = Tail(pending) /\ UNCHANGED desynced

\* release and acknowledged: the oldest entries, whoever was answered.  An
\* entry that is not there because the watchdog looks at it is not released.
Release(n) ==
  /\ injected' = SubSeq(injected, n + 1, Len(injected))
  /\ missed' = (missed \/ (hand # "none" /\ n > Len(injected)))

\* Mutant: an error releases nothing.
AnswersUnlessError(kind) ==
  /\ IF kind = "ok" THEN Release(1) ELSE UNCHANGED <<injected, missed>>
  /\ Acknowledge

\* An "ok" and an "error" alike: each is the answer to one line.
Answers(kind) == Release(1) /\ Acknowledge

\* recordReport.  A banner answers for everything at once.
Observe ==
  /\ relayed /\ relayed' = FALSE
  /\ tx # <<>> /\ tx' = Tail(tx)
  /\ CASE IsAnswer(Head(tx)) ->
            /\ \E kind \in {"ok", "error"} : Answers(kind)
            /\ UNCHANGED <<seen, clean>>
       [] Head(tx).kind = "setting" ->
            laser' = TRUE /\ UNCHANGED <<heard, injected, missed, tail>>
       [] Head(tx).kind = "welcome" ->
            /\ heard' = TRUE /\ injected' = <<>> /\ Forget
            /\ clean' = (rx \o Tail(tx) = <<>> /\ \A c \in Clients : ~Between(c))
            /\ missed' = (hand # "none")
            /\ UNCHANGED laser
  /\ UNCHANGED <<port, opens, rx, links, hand, op, count>>

-----------------------------------------------------------------------------
(***************************************************************************)
(* probeController, one for each port that was opened.                     *)
(***************************************************************************)

\* Its end, wherever it comes, opens the gate.
Finish(p) ==
  /\ probe' = [probe EXCEPT ![p] = "ended"]
  /\ Open

GoOn(p, where) ==
  probe' = [probe EXCEPT ![p] = where] /\ UNCHANGED <<conn, gate>>

\* Mutant: a controller that says nothing ends the probe without the gate.
IdentifySilently(p) ==
  /\ probe[p] = "identify"
  /\ IF client # NoClient THEN Finish(p)
     ELSE IF heard THEN GoOn(p, "ask") ELSE GoOn(p, "ended")
  /\ UNCHANGED <<wires, seen, client, tail, slots, count>>

\* answersLikeGRBL: a banner, a client who came in the meantime, or the end of
\* ProbeIdentify.
Identify(p) ==
  /\ probe[p] = "identify"
  /\ \/ client = NoClient /\ heard /\ GoOn(p, "ask")
     \/ Finish(p)
  /\ UNCHANGED <<wires, seen, client, tail, slots, count>>

\* The questions, $I and $$, are one here.  The client is looked for first.
Ask(p) ==
  /\ probe[p] = "ask"
  /\ IF client # NoClient THEN Finish(p) ELSE GoOn(p, "write")
  /\ UNCHANGED <<wires, seen, client, tail, slots, count>>

Question(p) ==
  /\ probe[p] = "write"
  /\ IF port = p
     THEN rx' = Append(rx, TheQuestion) /\ clean' = FALSE /\ GoOn(p, "asked")
     ELSE Finish(p) /\ UNCHANGED <<rx, clean>>
  /\ UNCHANGED <<port, opens, tx, relayed, seen, client, pending, desynced, slots, count>>

\* $32 was seen, a client came, or probeSettings ran out.
Asked(p) ==
  /\ probe[p] = "asked"
  /\ Finish(p)
  /\ UNCHANGED <<wires, seen, client, tail, slots, count>>

-----------------------------------------------------------------------------
(***************************************************************************)
(* The clients.                                                            *)
(***************************************************************************)

Arrive(c) ==
  /\ conn[c] = "away"
  /\ conn' = [conn EXCEPT ![c] = IF gate THEN "through" ELSE "gate"]
  /\ UNCHANGED <<wires, seen, client, gate, probe, tail, slots, count>>

\* serveClient, with kick_old_user; without it there is one client at a time.
Attach(c) ==
  /\ conn[c] = "through"
  /\ client' = c /\ conn' = [conn EXCEPT ![c] = "attached"]
  /\ UNCHANGED <<wires, seen, gate, probe, tail, slots, count>>

\* The accounting starts over, and is complete if nobody's line is about.  Who
\* has been displaced by then finds the socket closed.
StartOver(c) ==
  /\ conn[c] = "attached"
  /\ conn' = [conn EXCEPT ![c] = IF client = c THEN "serving" ELSE "gone"]
  /\ Forget
  /\ clean' = (rx \o tx = <<>> /\ \A d \in Clients : ~Between(d))
  /\ UNCHANGED <<wires, seen, client, gate, probe, slots, count>>

\* readFromClient has a chunk and finds the port.  The socket may have been
\* closed since the chunk was read: by a newcomer, a stop or the loss of a port.
Read(c) ==
  /\ conn[c] = "serving" /\ port # 0
  /\ conn' = [conn EXCEPT ![c] = "read"]
  /\ UNCHANGED <<wires, seen, client, gate, probe, tail, slots, count>>

\* Mutant: only the line of who is still the client is recorded.
RecordOwn(c) ==
  /\ conn[c] \in {"read", "stale"} /\ lines < MaxLines
  /\ pending' = IF client = c THEN pending \o New(c, 1) ELSE pending
  /\ lines' = lines + 1 /\ chunk' = [chunk EXCEPT ![c] = lines + 1]
  /\ conn' = [conn EXCEPT ![c] = IF conn[c] = "read" THEN "recorded" ELSE "gone"]
  /\ clean' = (clean /\ conn[c] = "read")
  /\ UNCHANGED <<wires, seen, client, gate, probe, desynced, slots, resets>>

\* "Recorded before it is sent", whoever is the client by now.  A chunk for a
\* port that has been lost since is recorded and never sent.
Record(c) ==
  /\ conn[c] \in {"read", "stale"} /\ lines < MaxLines
  /\ pending' = pending \o New(c, 1)
  /\ lines' = lines + 1 /\ chunk' = [chunk EXCEPT ![c] = lines + 1]
  /\ conn' = [conn EXCEPT ![c] = IF conn[c] = "read" THEN "recorded" ELSE "gone"]
  /\ clean' = (clean /\ conn[c] = "read")
  /\ UNCHANGED <<wires, seen, client, gate, probe, desynced, slots, resets>>

\* Two connections, one of them displaced, may both be here: nothing orders
\* their writes.
Overtakes(c) == \E d \in Clients : Between(d) /\ chunk[d] < chunk[c]

\* The next read of a socket that is closed ends the connection.
Send(c) ==
  /\ Between(c)
  /\ rx' = Append(rx, [by |-> c, id |-> chunk[c]])
  /\ conn' = [conn EXCEPT ![c] = IF client = c THEN "serving" ELSE "gone"]
  /\ clean' = (clean /\ ~Overtakes(c))
  /\ UNCHANGED <<port, opens, tx, relayed, seen, client, gate, probe, pending, desynced>>
  /\ UNCHANGED <<slots, count>>

Leave(c) ==
  /\ conn[c] = "serving"
  /\ conn' = [conn EXCEPT ![c] = "gone"]
  /\ client' = IF client = c THEN NoClient ELSE client
  /\ UNCHANGED <<wires, seen, gate, probe, tail, slots, count>>

-----------------------------------------------------------------------------
(***************************************************************************)
(* The operator's lines: one request at a time, of one line or of two (the *)
(* aiming beam is M3 and a G1).                                            *)
(***************************************************************************)

Quiet  == [at |-> "quiet", n |-> 0, port |-> 0]
Nobody == [at |-> "nobody", n |-> 0, port |-> 0]

\* Do finds the port, and sendLines that there is no client.
Check ==
  /\ op = Quiet
  /\ port # 0 /\ client = NoClient
  /\ \E n \in 1 .. 2 : op' = [at |-> "checked", n |-> n, port |-> port]
  /\ UNCHANGED <<wires, seen, links, tail, injected, hand, missed, count>>

\* All of its slots, or none and ErrStillWorking: the slots it did get are
\* released, and those are the oldest.
Claim ==
  LET free == Slots - Len(injected)
      fresh(n) == [i \in 1 .. n |-> "fresh"]
  IN
  /\ op.at = "checked"
  /\ op.n > free \/ lines < MaxLines
  /\ IF op.n <= free
     THEN injected' = injected \o fresh(op.n) /\ op' = [op EXCEPT !.at = "claimed"]
     ELSE injected' = SubSeq(injected \o fresh(free), free + 1, Slots) /\ op' = Quiet
  /\ UNCHANGED <<wires, seen, links, tail, hand, missed, count>>

\* One Write, which may find the port closed.
SendLines ==
  /\ op.at = "claimed"
  /\ IF port = op.port
     THEN /\ lines + op.n <= MaxLines
          /\ rx' = rx \o New("operator", op.n) /\ lines' = lines + op.n
          /\ clean' = FALSE /\ UNCHANGED <<injected, missed>>
     ELSE Release(op.n) /\ UNCHANGED <<rx, lines, clean>>
  /\ op' = Quiet
  /\ UNCHANGED <<port, opens, tx, relayed, seen, links, pending, desynced, hand, resets, chunk>>

-----------------------------------------------------------------------------
(***************************************************************************)
(* forgetStaleLines, on the watchdog's tick: it takes the first entry out  *)
(* to look at it, and puts a young one back, at the end.                   *)
(***************************************************************************)

\* Mutant: what is past its time is put back like the rest.
TakeOutAny ==
  /\ hand = "none" /\ injected # <<>>
  /\ injected' = Tail(injected) /\ hand' = Head(injected)
  /\ UNCHANGED <<wires, seen, links, tail, missed, op, count>>

TakeOut ==
  /\ hand = "none" /\ injected # <<>>
  /\ injected' = Tail(injected)
  /\ hand' = IF Head(injected) = "past" THEN "none" ELSE "fresh"
  /\ UNCHANGED <<wires, seen, links, tail, missed, op, count>>

\* Mutant: there is always room.
PutBackAnyway ==
  /\ hand # "none" /\ hand' = "none"
  /\ injected' = Append(injected, hand)
  /\ UNCHANGED <<wires, seen, links, tail, missed, op, count>>

PutBack ==
  /\ hand # "none" /\ hand' = "none"
  /\ injected' = IF Len(injected) < Slots THEN Append(injected, hand) ELSE injected
  /\ UNCHANGED <<wires, seen, links, tail, missed, op, count>>

\* lineAnswerTimeout passes for everything that was sent so far.
Age ==
  LET aged(entry) == IF entry = "none" THEN "none" ELSE "past" IN
  /\ hand = "fresh" \/ \E i \in DOMAIN injected : injected[i] = "fresh"
  /\ injected' = [i \in DOMAIN injected |-> aged(injected[i])] /\ hand' = aged(hand)
  /\ UNCHANGED <<wires, seen, links, tail, missed, op, count>>

-----------------------------------------------------------------------------
Init ==
  /\ port = 0 /\ opens = 0 /\ rx = <<>> /\ tx = <<>> /\ relayed = FALSE
  /\ heard = FALSE /\ laser = FALSE
  /\ client = NoClient /\ conn = [c \in Clients |-> "away"]
  /\ gate = FALSE /\ probe = [p \in 1 .. MaxOpens |-> "none"]
  /\ pending = <<>> /\ desynced = FALSE /\ clean = TRUE
  /\ injected = <<>> /\ hand = "none" /\ missed = FALSE
  /\ op \in {IF asks THEN Quiet ELSE Nobody : asks \in Operator}
  /\ lines = 0 /\ resets = 0 /\ chunk = [c \in Clients |-> 0]

Device  == Answer \/ Reset \/ NoDevice \/ OpenPort \/ PortLost \/ Relay \/ Observe
Probing == \E p \in 1 .. MaxOpens : Identify(p) \/ Ask(p) \/ Question(p) \/ Asked(p)
Serving == \E c \in Clients : \/ Arrive(c) \/ Attach(c) \/ StartOver(c) \/ Read(c)
                             \/ Record(c) \/ Send(c) \/ Leave(c)
Request == Check \/ Claim \/ SendLines
Ticking == TakeOut \/ PutBack \/ Age

Next == Device \/ Probing \/ Serving \/ Request \/ Ticking

Spec == Init /\ [][Next]_vars

\* The goroutines of the bridge run, and time passes.  The controller owes
\* nobody an answer, and nobody has to open a port, come, or ask.
Fairness ==
  /\ WF_vars(NoDevice) /\ WF_vars(Relay) /\ WF_vars(Observe)
  /\ \A p \in 1 .. MaxOpens :
       WF_vars(Identify(p)) /\ WF_vars(Ask(p)) /\ WF_vars(Question(p)) /\ WF_vars(Asked(p))
  /\ WF_vars(Claim) /\ WF_vars(SendLines)
  /\ WF_vars(TakeOut) /\ WF_vars(PutBack) /\ WF_vars(Age)

FairSpec == Spec /\ Fairness

-----------------------------------------------------------------------------
(***************************************************************************)
(* Properties.                                                             *)
(***************************************************************************)

\* The type invariant: no more slots are taken than there are, whoever
\* releases, claims, looks at or puts back one at the same time.
TypeOK ==
  /\ port \in 0 .. opens /\ opens \in 0 .. MaxOpens
  /\ rx \in Seq(Line) /\ tx \in Seq(Reply) /\ {relayed, heard, laser, gate} \subseteq BOOLEAN
  /\ client \in Clients \cup {NoClient}
  /\ conn \in [Clients -> {"away", "gate", "through", "attached", "serving", "read", "stale",
                          "recorded", "gone"}]
  /\ probe \in [1 .. MaxOpens -> {"none", "identify", "ask", "write", "asked", "ended"}]
  /\ pending \in Seq([by : Clients, id : 1 .. MaxLines]) /\ {desynced, clean} \subseteq BOOLEAN
  /\ injected \in Seq({"fresh", "past"}) /\ Len(injected) <= Slots
  /\ hand \in {"none", "fresh", "past"} /\ missed \in BOOLEAN
  /\ op \in [at : {"nobody", "quiet", "checked", "claimed"}, n : 0 .. 2, port : 0 .. MaxOpens]
  /\ lines \in 0 .. MaxLines /\ resets \in 0 .. MaxResets /\ chunk \in [Clients -> 0 .. lines]

\* The replies behind the banner of a port that was just opened.
Replies == IF tx # <<>> /\ Head(tx).kind = "welcome" THEN Tail(tx) ELSE tx

\* The lines that will still be answered, the oldest first: those whose reply
\* is on its way, and those in the buffer.
Unanswered == [i \in DOMAIN Replies |-> Replies[i].line] \o rx

\* The lines that are recorded and on their way to the port.
OnTheWay == {[by |-> c, id |-> chunk[c]] : c \in {d \in Clients : Between(d)}}

InOrder(s) == \A i, j \in DOMAIN s : i < j => s[i].id < s[j].id

\* lineTail, "the line a reply refers to is the oldest one not yet answered
\* for": as long as the accounting has missed nothing, the replies to come are
\* answers, and the lines remembered are those that are still to be answered, in
\* that order, and behind them those that have yet to get to the port, in the
\* order they were recorded in.  It misses something when it starts with lines
\* about, when somebody else speaks to the controller, when a line is recorded
\* for a port that is lost, and when one of two connections, the displaced one
\* or its successor, overtakes the other between the record and the write.
\* That a displaced client records and sends behind its successor's back does
\* no harm.
BooksBalance ==
  clean =>
    LET late == SubSeq(pending, Len(Unanswered) + 1, Len(pending)) IN
    /\ ~desynced /\ \A i \in DOMAIN Replies : IsAnswer(Replies[i])
    /\ pending = Unanswered \o late
    /\ {late[i] : i \in DOMAIN late} = OnTheWay /\ InOrder(late)

\* The operator's lines whose answer is on its way, or still to come.
Answering == {i \in DOMAIN tx : IsAnswer(tx[i]) /\ tx[i].line.by = "operator"}
Buffered  == {i \in DOMAIN rx : rx[i].by = "operator"}

Held == Len(injected) + (IF hand # "none" THEN 1 ELSE 0)

\* recordReport, of a slot left occupied by an error ("forgetting that was a
\* real fault"): a slot stands for a line of the operator's that is yet to be
\* answered; an answer of either kind releases one and a banner all of them.
\* (A release misses the entry that the watchdog has out to look at.)
SlotsAreForLines ==
  port # 0 /\ (\A i \in DOMAIN tx : tx[i].kind # "welcome") /\ ~missed =>
    Held <= Cardinality(Answering) + Cardinality(Buffered)
            + (IF op.at = "claimed" THEN op.n ELSE 0)

\* lineAnswerTimeout, "so that one lost reply does not wedge the pad for good":
\* lines that are never answered give their slots back, in the end all of them.
\* It takes that the operator stops asking: a request that is refused releases
\* the oldest slot and leaves its own younger one.
SlotsComeBack == <>[](op \in {Quiet, Nobody}) => <>[](Held = 0)

\* finishProbe: nobody who came while the gate was closed waits for ever,
\* whatever became of the questions, the port and the controller.
GateOpens == \A c \in Clients : (conn[c] = "gate") ~> (conn[c] # "gate")

\* probeController: an answer that a client is given is the answer to a line of
\* its own.  The questions are over when the gate opens, $32 having been seen,
\* so that the dump "is forwarded to nobody and the connection starts on a clean
\* slate".
EarnedOks ==
  [][ relayed' /\ ~relayed /\ client # NoClient /\ gate /\ laser /\ IsAnswer(Head(tx))
        => Head(tx).line.by = client ]_vars
=============================================================================
