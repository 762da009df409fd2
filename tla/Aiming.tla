------------------------------- MODULE Aiming -------------------------------
(***************************************************************************)
(* The aiming beam: the operator's commands that queue a line, the stop    *)
(* and the lease (proxy/control.go), and the watchdog's tick, which        *)
(* switches off a beam whose lease has run out and takes an interest in a  *)
(* beam that nobody is holding (proxy/supervise.go).                       *)
(*                                                                         *)
(* Every request of the web interface is a goroutine of its own, and the   *)
(* lease, the client, the port and the ladder are under four different     *)
(* locks: a request or a tick is cut where it lets go of one.              *)
(*                                                                         *)
(* What the ladder does is module Intervene's subject and who is answered  *)
(* for a line is module Lines'; here a ladder ends with what it ends with  *)
(* there, and the slots are those of the lines in the controller's buffer. *)
(***************************************************************************)
EXTENDS Naturals, Sequences

CONSTANTS
  Requests,     \* the goroutines of the web interface
  Sessions,     \* the browser sessions they come from
  NoSession,    \* the empty holder
  Slots,        \* outstandingLines
  OnDisconnect, \* the configured policy
  LeaseIsLong,  \* is a request through before its lease can run out?
  Faults        \* may the "port" go?

ASSUME NamesAssumption == "watch" \notin Requests /\ NoSession \notin Sessions
ASSUME SlotsAssumption == Slots \in Nat \ {0, 1}
ASSUME PolicyAssumption == OnDisconnect \in {"none", "hold", "reset"}
ASSUME BoundAssumption == LeaseIsLong \in BOOLEAN /\ Faults \subseteq {"port"}

VARIABLES
  lease,   \* aimingBeam: until, as none, live or out, and the holder; history:
           \* has the beam it was taken for been lit?
  task,    \* where each request and the watchdog's tick are
  rx,      \* the lines in the controller's buffer
  beam,    \* the controller's output
  seen,    \* the observer's reading of it, and the tick's copy of that
  since,   \* beamOnSince: is it set?
  port,    \* is the serial port open?
  client,  \* Bridge.client, and has the bridge dropped it?
  gone     \* is the handler of a departure yet to run?

desk     == <<lease, task>>
machine  == <<rx, beam>>
watchdog == <<seen, since>>
sender   == <<client, gone>>
vars     == <<desk, machine, watchdog, sender, port>>

Tasks == Requests \cup {"watch"}

\* What a task sends: M3 and the G1 that lets the power out, M5, or a line of
\* another kind, which the operator may have typed.
Lines(what) ==
  CASE what = "light" -> <<"M3", "G1">>
    [] what = "dark"  -> <<"M5">>
    [] what = "other" -> <<"typed">>
    [] what = "none"  -> <<>>

Quiet == [at |-> "quiet", what |-> "none", open |-> FALSE]

\* A task goes on with the port that is open now.
Begin(at, what) == [at |-> at, what |-> what, open |-> TRUE]

\* The watchdog goes on with its tick whether or not its line went out.
After(p) == IF p = "watch" THEN [task[p] EXCEPT !.at = "judge", !.what = "none"]
            ELSE Quiet

-----------------------------------------------------------------------------
(***************************************************************************)
(* The lease.                                                              *)
(***************************************************************************)

NoLease == [until |-> "none", holder |-> NoSession, lit |-> FALSE]

\* Mutant: somebody who is on record as the holder holds it.
HeldByName == lease.holder # NoSession

\* live: somebody is holding the beam on and has said so lately.
Live == lease.until = "live"

\* releaseBy lets go only for the holder, as long as there is one.
MayRelease(s) ==
  lease.holder \in {NoSession, s} \/ lease.until = "none"

\* The three seconds pass without a renewal.
Lapse ==
  /\ lease.until = "live"
  /\ LeaseIsLong => \A r \in Requests : task[r].what # "light"
  /\ lease' = [lease EXCEPT !.until = "out"]
  /\ UNCHANGED <<task, machine, watchdog, sender, port>>

-----------------------------------------------------------------------------
(***************************************************************************)
(* Do: with a port, and except for a stop with no client.                  *)
(***************************************************************************)

Asked(r) == task[r] = Quiet /\ port

\* CommandAim.  While somebody else's lease is live it is refused, and the
\* holder's is a renewal, which sends nothing.
Aim(r, s) ==
  /\ Asked(r) /\ client = "none" /\ ~Live
  /\ lease' = [until |-> "live", holder |-> s, lit |-> FALSE]
  /\ task' = [task EXCEPT ![r] = Begin("send", "light")]
  /\ UNCHANGED <<machine, watchdog, sender, port>>

\* CommandAimOff: the lease first, and then the M5.
AimOff(r, s) ==
  /\ Asked(r) /\ client = "none" /\ MayRelease(s)
  /\ lease' = NoLease
  /\ task' = [task EXCEPT ![r] = Begin("send", "dark")]
  /\ UNCHANGED <<machine, watchdog, sender, port>>

\* A jog, a homing cycle, a typed line.
Queue(r) ==
  /\ Asked(r) /\ client = "none"
  /\ task' = [task EXCEPT ![r] = Begin("send", "other")]
  /\ UNCHANGED <<lease, machine, watchdog, sender, port>>

\* Mutant: the lease of a beam that was never lit is kept.
FailKeepsLease(p) == task' = [task EXCEPT ![p] = After(p)]

\* A line that did not go out; an aim that fails gives up the lease, which is
\* under its own lock.
Fail(p) ==
  task' = [task EXCEPT ![p] = IF @.what = "light" THEN [@ EXCEPT !.at = "giveup"]
                              ELSE After(p)]

\* The beam is lit for whoever has a lease by now.
Lighted(what) ==
  [lease EXCEPT !.lit = @ \/ (what = "light" /\ lease.until # "none")]

\* Mutant: there is always a slot.
SendAnyway(p) ==
  /\ task[p].at = "send"
  /\ rx' = rx \o Lines(task[p].what)
  /\ task' = [task EXCEPT ![p] = After(p)]
  /\ lease' = Lighted(task[p].what)
  /\ UNCHANGED <<beam, watchdog, sender, port>>

\* sendLines: no client, all of its slots or none of them, one Write.  (Module
\* Lines takes these three apart.)
Send(p) ==
  /\ task[p].at = "send"
  /\ IF /\ client = "none" /\ task[p].open
        /\ Len(rx) + Len(Lines(task[p].what)) <= Slots
     THEN /\ rx' = rx \o Lines(task[p].what)
          /\ task' = [task EXCEPT ![p] = After(p)]
          /\ lease' = Lighted(task[p].what)
     ELSE Fail(p) /\ UNCHANGED <<rx, lease>>
  /\ UNCHANGED <<beam, watchdog, sender, port>>

\* release, as the appliance: whoever has the lease by now.
GiveUp(r) ==
  /\ task[r].at = "giveup"
  /\ lease' = NoLease
  /\ task' = [task EXCEPT ![r] = Quiet]
  /\ UNCHANGED <<machine, watchdog, sender, port>>

\* interveneMu: a stop and a ladder hold it to their end.
LockFree == \A p \in Tasks : task[p].at \notin {"reset", "ladder"}

\* takeOverFromClient closes the connection; Bridge.client is cleared by the
\* goroutine that serves it.
TakenOver == IF client = "attached" THEN "dropped" ELSE client

\* CommandStop: it finds the port, waits for the lock, ...
Stop(r) ==
  /\ Asked(r)
  /\ task' = [task EXCEPT ![r] = Begin("stop", "none")]
  /\ UNCHANGED <<lease, machine, watchdog, sender, port>>

\* ... lets the client and the lease go ...
StopTakes(r) ==
  /\ task[r].at = "stop" /\ LockFree
  /\ client' = TakenOver /\ lease' = NoLease
  /\ task' = [task EXCEPT ![r].at = "reset"]
  /\ UNCHANGED <<machine, watchdog, gone, port>>

\* ... and resets the controller, if the port is still the one it found.
StopResets(r) ==
  /\ task[r].at = "reset"
  /\ IF task[r].open THEN rx' = <<>> /\ beam' = FALSE ELSE UNCHANGED machine
  /\ task' = [task EXCEPT ![r] = Quiet]
  /\ UNCHANGED <<lease, watchdog, sender, port>>

-----------------------------------------------------------------------------
(***************************************************************************)
(* The controller, the port and the client.                                *)
(***************************************************************************)

\* M3 enables the output and lets no power out; the G1 behind it does.
Execute ==
  /\ rx # <<>>
  /\ rx' = Tail(rx)
  /\ beam' \in CASE Head(rx) = "M3" -> {beam}
                 [] Head(rx) = "G1" -> {TRUE}
                 [] Head(rx) = "M5" -> {FALSE}
                 [] Head(rx) = "typed" -> BOOLEAN
  /\ UNCHANGED <<desk, watchdog, sender, port>>

\* A report reaches the observer.
Hear ==
  /\ port /\ seen.now # beam
  /\ seen' = [seen EXCEPT !.now = beam]
  /\ UNCHANGED <<desk, machine, since, sender, port>>

\* The adapter goes, and serveDevice drops the client with it.
PortLost ==
  /\ port /\ "port" \in Faults
  /\ port' = FALSE
  /\ task' = [p \in Tasks |-> [task[p] EXCEPT !.open = FALSE]]
  /\ client' = "none" /\ gone' = (gone \/ client = "attached")
  /\ UNCHANGED <<lease, machine, watchdog>>

\* Opening it resets the controller; the lease is not asked.
PortOpened ==
  /\ ~port
  /\ port' = TRUE /\ rx' = <<>> /\ beam' = FALSE
  /\ seen' = [seen EXCEPT !.now = FALSE]
  /\ UNCHANGED <<desk, since, sender>>

Attach ==
  /\ client = "none" /\ ~gone
  /\ client' = "attached"
  /\ UNCHANGED <<desk, machine, watchdog, gone, port>>

\* Its lines, and the chunk that was read before it was dropped.
ClientSends ==
  /\ client \in {"attached", "dropped"} /\ port
  /\ beam' = ~beam
  /\ UNCHANGED <<rx, desk, watchdog, sender, port>>

\* The connection is retired; a client that the bridge dropped itself has been
\* seen to.
Leave ==
  /\ client # "none"
  /\ client' = "none" /\ gone' = (client = "attached")
  /\ UNCHANGED <<desk, machine, watchdog, port>>

\* onClientGone, whose ladder leaves the machine as it is, held, or reset.
OnClientGone ==
  /\ gone /\ (port => LockFree)
  /\ gone' = FALSE
  /\ \/ UNCHANGED machine
     \/ port /\ beam' = FALSE /\ rx' \in {rx, <<>>}
  /\ UNCHANGED <<desk, watchdog, client, port>>

-----------------------------------------------------------------------------
(***************************************************************************)
(* The watchdog's tick.                                                    *)
(***************************************************************************)

Ticking(at) == task["watch"].at = at

\* Without a port it only forgets.
TickBlind ==
  /\ Ticking("quiet") /\ ~port
  /\ since' = FALSE
  /\ UNCHANGED <<desk, machine, seen, sender, port>>

\* Reading the machine, it goes on with the lease: expired clears one that has
\* run out, "so the caller can switch the beam off exactly once", and keeps
\* the holder's name.
Tick ==
  /\ Ticking("quiet") /\ port
  /\ seen' = [seen EXCEPT !.then = seen.now]
  /\ IF lease.until = "out"
     THEN /\ lease' = [lease EXCEPT !.until = "none", !.lit = FALSE]
          /\ task' = [task EXCEPT !["watch"] = Begin("send", "dark")]
     ELSE /\ task' = [task EXCEPT !["watch"] = Begin("judge", "none")]
          /\ UNCHANGED lease
  /\ UNCHANGED <<since, machine, sender, port>>

\* A beam that is off, or that somebody is holding.
Spare ==
  /\ Ticking("judge") /\ (~seen.then \/ Live)
  /\ since' = FALSE /\ seen' = [seen EXCEPT !.then = FALSE]
  /\ task' = [task EXCEPT !["watch"] = Quiet]
  /\ UNCHANGED <<lease, machine, sender, port>>

\* The first tick of a beam that is on, or one of those before the grace is
\* over, or the lock is taken, in which case the timers are left standing.
Wait ==
  /\ Ticking("judge") /\ seen.then /\ ~Live
  /\ since' = TRUE /\ seen' = [seen EXCEPT !.then = FALSE]
  /\ task' = [task EXCEPT !["watch"] = Quiet]
  /\ UNCHANGED <<lease, machine, sender, port>>

\* On for longer than the grace with nobody connected, or stationary for
\* longer than StationaryBeam; the policy "none" leaves it alone.
Act ==
  /\ Ticking("judge") /\ seen.then /\ ~Live /\ since
  /\ OnDisconnect # "none" /\ LockFree
  /\ since' = FALSE /\ seen' = [seen EXCEPT !.then = FALSE]
  /\ task' = [task EXCEPT !["watch"].at = "ladder"]
  /\ UNCHANGED <<lease, machine, sender, port>>

\* intervene: the client is dropped, and a beam that is on is put out, by the
\* hold or by the reset; a write that fails ends it.
Ladder ==
  /\ Ticking("ladder")
  /\ client' = TakenOver
  /\ IF task["watch"].open /\ seen.now
     THEN rx' \in {<<>>, rx} /\ beam' = FALSE
     ELSE UNCHANGED machine
  /\ task' = [task EXCEPT !["watch"] = Quiet]
  /\ UNCHANGED <<lease, watchdog, gone, port>>

-----------------------------------------------------------------------------
Init ==
  /\ lease = NoLease
  /\ task = [p \in Tasks |-> Quiet]
  /\ rx = <<>> /\ beam = FALSE
  /\ seen = [now |-> FALSE, then |-> FALSE] /\ since = FALSE
  /\ port = TRUE /\ client = "none" /\ gone = FALSE

Request(r) ==
  \/ \E s \in Sessions : Aim(r, s) \/ AimOff(r, s)
  \/ Queue(r) \/ GiveUp(r) \/ Stop(r) \/ StopTakes(r) \/ StopResets(r)

Watch == TickBlind \/ Tick \/ Spare \/ Wait \/ Act \/ Ladder

Around == \/ Execute \/ Hear \/ PortLost \/ PortOpened
          \/ Attach \/ ClientSends \/ Leave \/ OnClientGone

Next ==
  \/ Lapse \/ Watch \/ Around
  \/ \E r \in Requests : Request(r)
  \/ \E p \in Tasks : Send(p)

Spec == Init /\ [][Next]_vars

\* What a request does of its own accord once it is asked; the user's asking
\* is nobody's duty.
GoesOn(p) == Send(p) \/ GiveUp(p) \/ StopResets(p)

\* Goroutines run, the watchdog ticks, the grace period ends (strong: the lock
\* may be taken at a tick) and reports arrive.  The controller need not get
\* through its buffer, and nobody has to renew, release or leave.
Fairness ==
  /\ \A p \in Tasks : WF_vars(GoesOn(p))
  /\ WF_vars(Watch) /\ SF_vars(Act)
  /\ WF_vars(Hear)

FairSpec == Spec /\ Fairness

-----------------------------------------------------------------------------
(***************************************************************************)
(* Properties.                                                             *)
(***************************************************************************)

Task == [at : {"quiet", "send", "giveup", "stop", "reset", "judge", "ladder"},
         what : {"light", "dark", "other", "none"}, open : BOOLEAN]

\* The type invariant, outstandingLines among it: "somebody tapping the jog pad
\* faster than the machine answers" does not fill the controller's buffer.
TypeOK ==
  /\ lease \in [until : {"none", "live", "out"}, holder : Sessions \cup {NoSession},
               lit : BOOLEAN]
  /\ task \in [Tasks -> Task]
  /\ rx \in Seq({"M3", "G1", "M5", "typed"}) /\ Len(rx) <= Slots
  /\ beam \in BOOLEAN /\ seen \in [now : BOOLEAN, then : BOOLEAN]
  /\ {since, port, gone} \subseteq BOOLEAN
  /\ client \in {"none", "attached", "dropped"}

\* "three seconds later the supervisor sends an M5 for a beam that was never
\* lit" (Do): the watchdog switches off only a beam that the newest lease did
\* light, whichever requests overtook each other, failed or gave up meanwhile.
NoLonelyM5 ==
  [][Ticking("quiet") /\ Ticking("send")' => lease.lit]_vars

\* "the lease runs out, the beam goes off, and the watchdog is watching again":
\* with nobody connected a beam that nobody holds goes out, also when its M5
\* was refused, when it was lit after the lease had been given up, by a line
\* that was typed, or by what a client left behind.
UnheldBeamGoesOut ==
  (port /\ beam /\ client = "none" /\ lease.until # "live")
    ~> (~beam \/ ~port \/ client # "none" \/ lease.until = "live")

=============================================================================
