# LaserBridgeOS in TLA+

LaserBridgeOS is an appliance between a laser cutter's GRBL controller and the
program that drives it. `laserbridged` owns the serial port and offers it on a
TCP socket, watches the beam, and does something about a machine nobody is
driving. `laserbridge` is the web interface: configuration, system updates, and a
socket to the bridge for the operator's buttons. The system itself lives in two
slots on an SD card, and GRUB undoes an update that does not come up.

This directory models the parts in which the order of events decides whether
that works, checks them with TLC on small instances, and proves the central
results with TLAPS for every value of the constants. Paths below are relative to
`src/`; `proxy/` stands for `backend/internal/proxy/`, and so on.

## Inventory

| Part | State | Operations | Talks to | What makes it correct |
|---|---|---|---|---|
| Decision table (`proxy/safety.go`) | none | `Decide` | called by the ladder | a rung is never recommended twice; a beam known to be on ends in the soft reset; policy `none` means nothing |
| Reading of the controller (`grbl/parse.go`, `grbl/observer.go`) | what was last heard of state, beam, settings, and when | `Feed`/`apply`, `ForgetBeam`, `Reset` | fed by the device loop, read by ladder and watchdog | "unknown" never passes for "off" |
| Ladder (`proxy/intervene.go`) | flags of the rungs sent, `takenOver`, the port it was given | `onClientGone`, `intervene`, `takeOverFromClient`, `waitUntilStill`, `pollBeam` | port, reading, client, `interveneMu` | ends; sends no rung twice; does not light a beam; does not reset a moving machine by mistake; does not end in silence over a lit beam |
| Watchdog (`proxy/supervise.go`) | `beamOnSince`, origin, silence | `watch`, one tick at a time | reading, port, `interveneMu.TryLock` | an unattended beam goes out |
| Connections, port and shutdown (`proxy/bridge.go`, `cmd/laserbridged`) | `client`, `droppedByUs`, `port`, the probe gate, `interveneMu` | `Run`, `serveDevice`, `openPort`, `serveClient`, `readFromClient`, `DisconnectClient` | one goroutine per connection, the device's, the watchdog's, the accept loop's and the one that shuts down | one sender, one commander, no ghost owner, no departure overlooked, the daemon stops |
| Operator's commands, aiming lease, injected lines (`proxy/control.go`) | lease, one slot per line whose `ok` belongs to the bridge | `Do`, `sendLine(s)`, `aim.*`, `forgetStaleLines` | port, client, `interveneMu` | a client is never handed an `ok` it did not earn; a beam nobody holds goes out |
| Accept gate and opening questions (`proxy/intervene.go:240-411`) | `probed`, `probeClosed` | `beginProbe`, `probeController`, `finishProbe` | device loop, accept loop | nobody is attached while the bridge's own questions are being answered; nobody waits for ever |
| Journal, line tail, job tracker, monitor, console (`proxy/journal.go`, `job.go`, ...) | rings, a queue to the disk | `Add`, `Close`, writer | everything in `proxy/` | never blocks the serial reader, survives the shutdown |
| System slots (`update/update.go`) | roots, boot payloads, `active-slot.cfg`, `state.json` | `Install`, `StageRollback`, `ConfirmBoot`, `Status` | boot loader, power | a slot that boots is always left; the appliance settles |
| Boot loader (`build/grub.cfg`, `rootfs/etc/init.d/laserbridge-boot-confirm`) | counter and override in `grubenv` | one run per boot | slots | a dead slot is given up, a good one is not |
| Configuration (`config/`, `api/server.go`, `api/setup.go`, `runtime/runtime.go`) | `config.yaml`, generated files, `Server.mu`, the tag a page has loaded | `putConfig`, `updateWiFi`: check, save, apply, undo, restart services; `serviceAction` | OpenRC; the serial port changes hands between two backends | nobody is overwritten unseen; file, generated files and processes agree; an error changes nothing |
| Bridge watch, hardware watchdog (`runtime/`) | questions unanswered, time of the last restart | `Watch` | OpenRC, the status socket | a bridge that should run comes back |
| API (`api/`) | attempts, upload | the other handlers | all of the above | guards hold |

What is hard here: half a dozen goroutines share `client`, `port` and the lock;
connections are retired after they were replaced; the controller answers later,
and sometimes not; adapters disappear under a ladder; the power may go between
any two writes; and two processes write `state.json` and `active-slot.cfg`
without a common lock. PROJECT.json lists the hazards one by one, at their lines.

## Plan

The order is by what a mistake costs: first what puts a beam out, then who may
command at all, then what bricks the appliance.

1. **Done**: `Grbl`, `Safety`, `Intervene`; `Bridge`; `BootSlots` with its abstract
   specification `TwoSlots`; proofs for each.
2. **Done**: `Handover`: the requests that change the configuration, the first setup with the
   password and the key it writes beside it, the two services of which it names one, and
   `BridgeWatch`; proofs of all its safety properties.
   `Journal` (ring, queue, writer, `Close`) and `Lines` (accept gate, opening questions, the
   operator's lines and their slots, the line tail); proofs of all their safety properties.
3. **Done**: `Aiming`: the lease (`aim.*`), its expiry in the watchdog, and the lines that
   requests queue beside it; proofs of its safety properties.
4. **Not done**: `Journal` composed with `Bridge`'s shutdown. What the journal needs of it is
   whom `Run` waits for, and that is the parameter `Joined`: run and theorems of `Journal`
   hold for any. `Bridge` has the other half: when `Run` has returned the device loop is
   through (`ShutInOrder`), and ladders and stops need not be.
5. **Done**: `Escalation`, the abstract specification of an intervention, which
   `Intervene` and `Bridge` implement as `BootSlots` implements `TwoSlots`; proved.

Runs are kept to the questions worth asking: one or two passing runs for a module,
a violation run only where the code and its own text disagree.

## The modules

### Grbl, Safety, Intervene, Escalation

`Safety` is the table of `safety.go` as operators, one per condition, in the order in
which `Decide` tests them. `Grbl` is the vocabulary (`States`, `Moving`, `AtRest`)
and what one report, a banner or `ForgetBeam` does to the reading. `Intervene` puts
them into the world:

| Variable | Code |
|---|---|
| `ctl`, `wire` | the controller, and the reports it has sent that nobody has read (external; from the comments of `proxy/` and the simulator in `proxy/beam_test.go`) |
| `obs` | `Observer.Machine()`; `age` is `Reports - BeamReports` up to a cap |
| `port`, `client`, `abort` | `Bridge.port`, `Bridge.client`, the cancelled context |
| `gone`, `queued`, `stale` | goroutines between `serveClient`'s end and `onClientGone`'s look at the port; those that wait for its lock with the port that is open, and with one that has been lost since |
| `since` | `beamOnSince` of the watchdog, older than the grace |
| `pc`, `trigger`, `tried`, `step`, `takenOver`, `round`, `asks`, `held` | the locals of `intervene`, `waitUntilStill` and `pollBeam`, and whether the port the ladder was given is still open |

`Look` is one turn of `intervene`'s loop up to its decision, `TakeOver`,
`Wait`/`Settle`, `Act`, `Forget` and `Poll`/`Listen` are what follows. `LockTaken` (after
`OnClientGone`, which only reads the port), `WatchActs` and `OperatorStops` are the three
ways the machine gets taken; a departure that waited longer than its port lived gets the
lock for a ladder that can neither look nor send. Whether a
sender and the operator command the machine in the middle of a ladder (hold and resume take
no lock, a chunk may be late) is chosen at the start, from `OthersCommand`, and kept in
`ctl.crowd`: what is promised in their presence is less.

Abstractions. A tick of a wait happens only when nothing is in flight
(`wire = <<>>`): the ticks are 100 and 200 ms and an answer takes a few. An older
answer than the one asked for, still on the line when the poll begins, is therefore
always read before the ladder looks again; a line slower than that is outside the model.
A feed hold takes a while: the controller is `Slowing` until it is complete, and
`SlowingWords` are the words it may have for itself meanwhile: `Run` as in `proxy_test.go`, or
`Hold`, which is what `parseStatus` makes of GRBL 1.1's `Hold:1`. `ladder`, `live` and `newcomer`
have both, `still` has GRBL's. An alarm that the controller announces without being asked
(`observer.go:295-297`) is left out of `Apply`; it is heard of with the next report.
`MaxAsks` ticks stand for `HoldSettle` and `BeamConfirm`; `SlowAnswers` says whether
`BeamConfirm` may end before the outputs were mentioned. The time of the watchdog is
one flag, and whether a beam is stationary is left open, so `WatchActs` may act on
either trigger. The connection is retired together with the take-over; how the two
come apart is `Bridge`'s subject. `Unconfirmed` ends a ladder, and what is written
into the record is left out.

`Escalation` is what an intervention promises whoever is near the machine, without controller,
reports, waits and faults: it begins for a cause and only when no other one is under way, it
sends the sender away before it commands the machine (unless that is who has left), no command is
sent a second time before it ends, and a policy that forbids commands is kept. `Ladder` is the mapping:
the cause is `trigger` while a ladder runs, and the commands are counted by the turns taken,
plus one while an answer is awaited. `Bridge` has ladders of its own, whose commands are told
apart by their number only; they are an `Escalation` as well (in `BridgeProofs`), there with
connections, lock, retirements and shutdown beside them.

### Bridge

Who owns the port, who may command, and how the daemon stops. A connection's
goroutine goes through `conn[c]`: accepted (at the gate), serving, writing (a chunk
was read and is not written yet), leaving, left (retired as the owner), queued (waits
for `interveneMu`), climbing, gone. `lock` is `interveneMu`; `phase`, `takenOver`,
`victim`, `commands` are the ladder of whoever holds it. `device`, `shutter` and
`acceptor` are the positions of the device loop, of the goroutine that `Run` starts
for the shutdown, and of the accept loop. `holding` is who has read a port that has
not been closed since: `onClientGone`, `watch` and `Do` read it before the lock. What
a ladder decides is left open: it sends up to `MaxCommands` commands and stops when
it likes, and the watchdog acts when it likes, so everything shown here holds for
whatever `Intervene` does.

Each critical section of `clientMu` and `portMu` is one step. `dropped` is a history
variable: the connections that a take-over found in charge. `DisconnectClient` reads
the client and closes its socket in one step. Whether the write of a stop succeeds
makes no difference to what follows and is not told apart. The wait at the gate is
`conn[c] = "accepted"`, which a fair goroutine leaves because the gate is bounded by
`probeGrace`.

### Aiming

The operator lights the beam to find the edge of a sheet, and has to say so every second.
Every request is a goroutine of its own, and the lease, the client, the port and the ladder
are under four different locks.

| Variable | Code |
|---|---|
| `lease` | `aimingBeam`: `until` (never taken or cleared, in the future, in the past) and the holder's session, which `expired` leaves standing; `lit` is history: has the beam been lit for it? |
| `task` | where each request of `Do` and the watchdog's tick are, what they are about to send, and whether the port each of them has read is still open |
| `rx`, `beam` | the lines in the controller's buffer, one slot each, and its output (external) |
| `seen`, `since` | the observer's reading of the beam, the tick's copy of it, and `beamOnSince` |
| `port`, `client`, `gone` | `Bridge.port`, `Bridge.client` with `droppedByUs`, and a departure whose handler has not run |

`Aim`, `AimOff`, `Queue` and `Stop` are the commands up to where they let go of their first
lock; `Send` is `sendLines` (no client, all the slots or none, one write), and an aim whose
line did not go out continues with `GiveUp`. `Tick` reads the machine and asks the lease;
`Send` follows for one that ran out; `Spare`, `Wait` and `Act` are the rest of the tick, and
`Ladder` is what it starts.

Abstractions. `Intervene` says how a ladder gets a beam out; here it does. A renewal sends
nothing and changes nothing that a live lease has not, so there is no action for it. One
session is enough: the holder's name only restricts who may release, so that fewer names
allow more. A typed line may light the beam or put it out.
`LeaseIsLong` says that a request is through, from the lease to the write, before three
seconds have passed; `NoLonelyM5` needs it.

### BootSlots, TwoSlots

`BootSlots` is `update.go` and `grub.cfg`: what each slot holds, `active-slot.cfg`, the
two variables of `grubenv`, the slot that `state.json` says is staged, and the
positions of `Install`/`StageRollback` (in the web process) and of `ConfirmBoot` (in a
process of its own). A root is torn between the first byte and the last; a file that
`atomicfile` replaces changes in one step. `Grub` is `grub.cfg` from the first line to
the last. Power goes at any moment.

The image decides whether a slot comes up, so `Works` is a constant. An image that
serves the web interface and never confirms is outside the model. The version names
in `state.json` are left out, and so are the checks of the bundle, which come before
the first write. Every slot has a kernel file (`build-image.sh` writes both), so
`StageRollback`'s check for one is always met.

`TwoSlots` is what the two slots promise without loader, counter or files: the
appliance rises only from a slot that boots, and nothing happens to the slot it is up
from.

### Journal

`Add` is the ring under its lock, then an `Offer` to a bounded queue that never waits.
The writer takes the first event (`Receive`), whatever else is queued (`Drain`),
collapses repeats and looks up the file's length (`Collected`), writes what fits
(`Flush`), renames the file (`Rotate`) and writes the rest. `Close` closes the queue
and `CloseReturns` when the writer has stopped. `Adders` are the goroutines that
record: `Run` waits for those in `Joined` (the device loop) before it closes the
journal, and not for ladders, stops and opening questions, so an offer may find the
queue closed, and the process panics. `NewJournal` loads the newest events that can be
read. A power cut in the middle of a write leaves some of the lines and the last of
them torn; what is appended to a torn line is lost with it.

A line has the length 1, an event is one of a few values, and equal events are
repeats. Faults: the file or its directory cannot be opened, the rename fails, the power goes.
A write that a full disk cuts short, and the counter of dropped events, are left out.

`told`, `taken` and `missing` are history: the newest events there were, and per event
how often it was queued and how often lost. How often an event is on record (`Times`) is
the size of a set, one element for every repeat that a line counts, and the `k`-th run of
a batch starts at the position with `k` starts up to it (`Nth`, `Rank`): both say what the
code's loops compute, in a form that can be proved about.

### Lines

The controller answers every line once, in order, and tells nobody whose it was. `rx`
is its buffer, `tx` its replies on their way; a reply is first relayed to the client and
then observed, as `serveDevice` does. The lines of a client, of the operator and of the
bridge's own questions go into the same buffer.

| Variable | Code |
|---|---|
| `port`, `opens` | the port, numbered, so that a probe or a request can hold a dead one |
| `gate`, `probe` | `probeClosed`, and where the goroutine of each port's questions is |
| `conn`, `client` | the connections' goroutines; `Bridge.client` |
| `pending`, `desynced` | `lineTail` |
| `injected`, `hand` | the channel of slots, and the entry `forgetStaleLines` has out of it |
| `op` | one request between its check, its slots and its write; `nobody` where nobody uses the web interface |
| `chunk` | the line that each connection's `readFromClient` has recorded last |
| `heard`, `laser` | has the observer had a banner, and `$32`, from this port? |

`readFromClient` is three steps, and a connection may be displaced, dropped or lose the port
between any two of them: `Read` (a chunk and the port to write it to), `Record` (`sent.Write`) and
`Send` (`port.Write`). A client that was displaced after its `Read` records behind its successor's
`Forget` and writes all the same; a chunk that was read for a port which is lost meanwhile is
recorded and never written (`stale`).

`clean` and `missed` are history: whether the accounting has missed nothing, and whether a
release found the slot it was to release in the watchdog's hand. The accounting starts complete
when nobody's line is about. It misses something when a line of the bridge or of the operator is
sent, with a reset, when a line is recorded for a lost port, and when one of two connections
overtakes the other between the record and the write (`Overtakes`). A slot is fresh or past `lineAnswerTimeout`; `Age` makes
everything past. The two opening questions are one. Whoever waits at the gate gets
through when the gate it found opens; `probeGrace` is longer than any probe and ends no
wait before that. Requests come one at a time, of one line or two. The lock, the ladders
and the shutdown are in `Bridge` and `Intervene`; here a `Reset` comes from anybody.

### Handover

Who may drive the serial port, and with which settings. A configuration is four things:
can the program use the file, is the first setup complete, the GRBL section, the Wi-Fi
section; its tag is its content.

| Variable | Code |
|---|---|
| `stored`, `files` | `config.yaml`; what `Apply` last generated: ser2net's file, the network's mode and its settings |
| `logins` | the account's password (shipped or chosen) and `authorized_keys` |
| `proc` | ser2net and laserbridged under `supervise-daemon`: stopped, up, wedged (runs and does not answer), down (exited, to be respawned), and the settings each was started with |
| `mu`, `req`, `held` | `Server.mu`, the request each page has under way, the configuration each page has loaded |
| `watch` | where `BridgeWatch.Watch` is, `missed`, and whether the pause after a restart is over |
| `marred`, `slipped` | history: did something go wrong that nobody undoes before the next boot; was the file edited by hand since `mu` was taken |

A request is `Ask`, then `Refuse` or `Accept` (lock, tag, load, busy), `SaveNext`,
`ApplyNext`, one `Tell` for each service and `Finish`; where `Apply` fails, `Undo` and
`Reapply`, which may fail as well, and whose errors nobody looks at. The setup
(`completeSetup`) is a request that marks the configuration as complete and replaces its
Wi-Fi section; between its checks and its save it sets the password (`SetPassword`) and
installs a key (`InstallKey`), or only one of the two, as the wizard's `Choices` have it. What
`authorizedRestorer` captured is put back when the save or `Apply` fails (`RestoredKeys`);
the password is not. `serviceAction` takes no lock. `RcService` is one command: what it leaves when it works, and what it may
leave when it fails. `Start` is the `start_pre` of the init script, which asks the stored
configuration; `Respawn` does not run it. Apply may stop before, between and after its files.

Abstractions. `rc-service` is one step: OpenRC locks a service while it works on it, and
`start_pre` runs inside. A start-up takes no time. A process that is frozen so hard
that OpenRC marks it stopped counts as stopped. Whether a job runs is not modelled:
`machineBusy` may refuse whenever the bridge is up, and may let pass. A power cut and the
boot after it are one step. A page asks for a setup only while one is required; whether the
key is the generated one or a pasted one makes no difference here. `changePassword`, `Validate`, the parser, and what `Salvage` keeps of a broken
file beyond the network are left out: `Ensured` has the default GRBL section then.

## The runs

| Run | Question | Result |
|---|---|---|
| `ladder` | policy `reset` (the default), port lost and daemon stopped at any moment, slow answers, with and without a sender and an operator who command the machine while a ladder works on it: is it an `Escalation` (no rung twice, nobody commanded before the sender is gone), is a lit beam left? And where nobody else commands: do the readings that the ladder acts on describe the controller, well enough for the toggle, for the wait and for a silent end? | holds |
| `live` | a ladder ends; an unattended beam goes out, though firmware may ignore the toggle and the job lights the beam again | holds |
| `newcomer` | a sender that connects during the wait for standstill ends the ladder | **violated** |
| `still` | the reset that follows a wait for standstill finds the axes at rest, with a controller that says `Hold:1` while they slow down | **violated** |
| `aiming` | two requests at a time, the watchdog, a client, an adapter that comes and goes: does the watchdog send its `M5` only for a beam that was lit, and does a beam that nobody holds go out? | holds |
| `bridge` | two connections, watchdog, stop, adapter, shutdown, with and without `kick_old_user`: one sender, one commander, no departure overlooked; the daemon stops when told to; a departure gets the lock | holds |
| `second` | a client the bridge dropped never starts a ladder | **violated** |
| `slots` | updates, rollbacks, failures, power cuts: a slot is left, a dead one is given up, the appliance comes up and settles; `TwoSlots` is implemented | holds |
| `record` | what was recorded is in the ring, on disk or counted as lost, over repeats, rotation, faults, restarts; two generations within their size; `Close` ends and leaves nothing queued | holds |
| `lines` | two clients that displace one another between read, record and write, an adapter that comes and goes, two rounds of opening questions; and an operator's lines beside a client, a reset and a lost adapter: errors are attributed to the right line as long as the accounting is complete, nobody waits at the gate for ever, a slot stands for a line that is yet to be answered and all of them come back | holds |
| `earned` | a client is only handed answers to its own lines once the opening questions are over | **violated** |
| `handover` | two pages, the setup, service commands, the watch, and one fault at any moment (a save, an `Apply` or a service command that fails, a crash, a hang, a dying web backend, a power cut, an edit over SSH): is a save lost, do file and processes disagree, does an error leave traces, does a bridge stay away? | holds |

### What the violations show

* `newcomer`: `waitUntilStill` returns false when it finds a client, with the comment
  "A newcomer takes charge; the bridge stops acting on its own." Its caller takes any
  false for a time-out and sends the soft reset.
* `still`: "It asks for 'at rest', not 'not moving': a machine on feed hold is standing still with a
  job still in its buffer, [...] exactly when the reset may safely follow" (`intervene.go:468-470`).
  GRBL 1.1 says `Hold:1` while a hold slows the axes down, `parseStatus` drops the substate, and
  `AtRest` takes what is left for rest: the first answer ends the wait, and the soft reset finds the
  axes turning and loses the position. What does hold of that wait is in `ladder`
  (`OnlyAHoldIsEarly`): the job is not running, and only an announced hold ends it too early.
* `second`: a take-over with nobody connected stores `nil` over the mark of the one
  before, whose client then counts as departed and starts a ladder.
* `earned`: the opening questions are over when `$32` was seen, which is a line of the
  dump and not its end. The gate opens, and the client that was waiting is handed the
  `ok` of a `$$` it never sent. (An operator's line whose answer is outstanding when a client
  connects does the same.)

Things the models do, which no property states: an update on top of a staged one writes the slot that the
boot loader has been told to load (`Install` writes `target`, which may be `active`;
`AWorkingSlotRemains` and `Recovers` hold nevertheless). What `still` shows has another
consequence, which is the exception that `ToggleNeverLights` names: in laser mode the toggle may be
chosen on `Hold` and "on" before the hold has put the beam out, and lights it, although it is to be
sent "only ever on positive evidence that the beam is on, and only in HOLD - Decide guarantees
both" (`intervene.go:117-118`). A power cut leaves half a line at the end of the journal (`Flush`); `load`
skips it, but `appendBatch` appends to it, so that the first event of the next run is glued
to the fragment and cannot be read either. `Accounted` counts both as on disk, where they are.

In `Lines` two things attribute replies to the wrong line with `desynced` false, so that
`Acknowledge` claims "the line it answered" all the same. Two clients, one displaced by the
other, may each have a line recorded and not yet written, and nothing orders their writes
(`Overtakes`; `bridge.go:701-726`, 798-800). And a line that is recorded for a port that has been
lost stays in the queue until the next `Forget` (`Record` of a `stale` chunk). `BooksBalance` names
both as the end of a complete accounting. Nor does a property see a client that is attached while a second
probe's questions are being answered, because the probe before it has opened the gate.

What `Aiming` leaves open: an aim that fails gives up the lease "as the appliance", which
is whoever's lease it is by now (`GiveUp`); the `G1` of an aim whose lease a stop has taken
meanwhile lights a beam that nobody holds (`Send` after `StopTakes`), and so does the chunk
that `readFromClient` read before a take-over (`ClientSends`). In each case the
beam is the watchdog's to put out, which is what `UnheldBeamGoesOut` says, with the grace
of an unattended beam and not with that of a lease.

What `Handover` does besides. `changedServices` names ser2net first, so a switch to ser2net
starts it before the bridge is told to stop, and for that moment two backends run, whereas
`README.md` says "exactly one ever owns the serial port" (lines 398-401); the state is that
of `req.todo = <<"laserbridged">>`, and `SettledAgrees` says that it is over
when the request is. The error text "previous config restored" is also sent when restoring
it failed (`Undo`). And after a restored configuration no service is restarted: one that was
started or respawned between the save and the undo goes on with the settings that were
taken back, until something else restarts it. Each of these is a named exception of
`SettledAgrees`, by way of `marred`. The key of a setup that the power cut or the end of the web
backend interrupts before its save stays installed (`Boot` after `InstallKey`), and so does the password
of any setup that fails later.

`SlotsComeBack` has a premise: the operator stops asking. A request for two lines that
finds one slot free gives one back, and `release` takes the oldest: the entry that stays is
its own, with a new time. "Which one comes back does not matter" holds for the number of
slots and not for their age, so that somebody who keeps asking keeps the slots of lost lines from
ever growing old.

### Bounds, and why they are enough

* `BeamEvidenceReports = 0`: the code compares the age with one threshold, so the
  age is "recent" or "not"; a larger number repeats the second case.
* `MaxRounds = 5` is the code's own. `MaxAsks = 2` has a tick that is not the last and
  one that is. `MaxWire = 1`: the ladder looks only when the line is empty, so a second
  report in flight is read before it looks; the theorems hold for any `MaxWire`.
* `aiming`: two requests, since a third meets nothing that the second does not: one that was
  overtaken and one that overtakes. `Slots = 2`, the two lines of an aim: the buffer is empty,
  too full for an aim, or full. The safety properties are proved for any number of each.
* `MaxGone = 1` disconnect that has not got the lock yet; a second one would start a ladder of
  its own afterwards, which is the first one again.
* In `ladder`, where others command the machine they do so in laser mode (`MCInit`): a hold puts
  the beam out and a resume brings it back, and there the daemon is not stopped
  (`StopUndisturbed`): what its end does to a ladder is looked at in the other case. `live` is without laser mode (`MCFairInit`): the
  beam outlives the hold and every rung is needed. The invariants and step properties are proved
  without these restrictions.
* Two connections in `bridge`: one in charge and one that replaces it or lingers.
  `MaxCommands = 1`, because a ladder's second command differs in nothing the ownership can
  see. The safety properties are proved for any number of both.
* `record`: a ring, a queue and a file of two, four events in three kinds, one fault. Two
  equal events and another one collapse or do not, three are one too many for each of
  the bounds, and the fourth is recorded after a restart.
* `lines` has two cases, by who there is at the start (`MCInit`). Nobody at the web interface: two
  lines, two clients, two openings, so that a probe of the old port is still under way when the
  new one begins, and two displaced or displacing clients have a line each. An operator: two slots
  for four, one or two lines at a time, one reset, one client, and an adapter that is lost once: a
  request of two finds none, one or two free. The invariants are proved without these restrictions.
* `handover`: two pages, two requests, one fault: each can overtake the other between
  reading and saving, a service command or the watch falls between any two steps of a
  request, and the fault anywhere. Three GRBL sections: a change of backend in both
  directions, and one of settings alone. `Failures = 2`: a miss that is not yet a hang. `MCSpec` starts from a
  delivered appliance, whose setup is to be done: one on which nobody does it behaves like
  one where it was done long ago. Two choices, a password alone and a key alone, so that a
  setup has nothing to fail at, or to take back, in one of its two steps; a second key would only
  be another one to install.
* Three requests and three faults in `slots`: an update on top of a staged update on
  top of a failed one, with a power cut in each. Three images: the factory's, a good
  one, a bad one.

CHECK_DEADLOCK is off where the system really stops: `Bridge` when `Run` has
returned, `Intervene` when the daemon has been told to stop, `Aiming` and `Lines` when nobody asks for
anything any more. `BootSlots` and `Journal` start over, and the watch of `Handover` never stops.

### Fairness

* `Intervene`: reports are read, a booting controller boots and a hold completes (weak). The ladder's
  waits end by tickers and timers; the guard `wire = <<>>` says that a tick is longer
  than an answer and cannot disarm a ticker, hence strong fairness for `Climb`. The
  watchdog skips ticks during its own ladders and finds the line full at times, and
  GRBL mentions its outputs every twentieth report at the latest: strong fairness for
  a poll that brings an answer with the outputs, and for what the watchdog makes of
  it. Nothing is assumed of the job, the sender, the operator, or the adapter.
* `Aiming`: a request that has begun goes on, the watchdog ticks and reports arrive (weak).
  The lock may be taken at any one tick, so what the watchdog makes of a beam that is out of
  its grace is strongly fair. The controller need not execute what it has in its buffer, and
  nobody has to renew, release, connect or leave.
* `Bridge`: every goroutine is scheduled (weak). `sync.Mutex` hands a waiter the lock
  after a millisecond of starving and refuses `TryLock` while it does, hence strong
  fairness for `Queued`. A parked read returns only when the port is closed under it,
  so only then is `Lost` fair (`Unparked`).
* `Journal`: the writer and whoever waits for it (weak). `Lines`: device loop, probes, a request
  under way, the watchdog and the clock (weak). The controller owes nobody an answer.
* `Handover`: a handler that has begun goes on, `supervise-daemon` respawns, the watch ticks
  and its pause passes (weak). Each of these waits for nothing but `mu`, which its holder
  gives back. Nobody has to ask for anything.
* `BootSlots`: boot loader, `ConfirmBoot` and an update under way proceed, and somebody,
  or the hardware watchdog, cycles the power of a slot that does not come up. Nobody
  has to request anything.

## The proofs

Proof modules extend the module they are about. Assumptions are the named `ASSUME`s of
the modules: what the constants are, and that the loop of a ladder has more turns than
there are rungs (`RoundsAssumption`). Beyond these a theorem assumes only what its statement
says (`LeaseIsLong`).

* `SafetyProofs`: facts about the table, for every situation: the answer is a step, it is
  never a rung that was sent, a lit beam is left only after the reset or by policy
  `none`, only a departure's job is waited for.
* `InterveneProofs`: `TypeOK` is not inductive: a step of a wait counts `asks` up and
  stays in range only because `asks < MaxAsks` whenever another question is due, and
  what is sent is a rung. `TypeInv` adds that (`Paced`). On top of it `RungsInv` counts:
  the rungs sent are as many as the turns taken, plus one while an answer is awaited, and
  the rung chosen is not among them. With three rungs the bound of the loop cannot
  bite (`LoopBoundUnused`) and no rung comes twice (`RungsOnce`). `LitBeamIsAddressed` is
  the step property; the case of the loop's bound is excluded by the same invariant.
  `NoneKeepsItsPromise` and `WaitsOnlyForTheJob` are two invariants of their own.
  `LadderEscalates == Spec => EachRungOnce` is the refinement: `Start` is `Begin`, the take-over is
  `SendAway`, a write is `Command`, whatever gives the lock back is `End`, and all the rest
  is a stutter. It needs `RungsInv` (a write is a rung not sent yet, and it is the next
  to be counted) and `Orderly`: the ladder's variables are fresh while nothing runs, and the
  watchdog's ladder has taken over before it acts.
  The three properties that compare the reading with the controller need the reports in
  flight: position 0 is the reading and `i` what is read `i` lines from now. `LineInv` says of
  the line that its last word on the outputs is what the controller remembers having said.
  `AloneInv` says of a ladder that nobody disturbs what may be concluded from a position
  (`Believed`): a word for rest means that the job is not running and that axes which still turn
  are those of a hold announced early, "off" is dark if nothing lights the beam by itself, and "on"
  in a hold is lit where the end of the hold puts nothing out (`Steady`). While an answer is awaited this holds of the newest position, since every
  answer is true when it is sent; the line is empty when the ladder goes on, so that in the
  next turn it holds of all of them. `RestIsRest`, `ToggleIsSafe` and `QuietIsDark` assume nothing of the
  controller's words. `LaddersRunDown` counts the steps a ladder has left
  (`StepsLeft`: turns to come, and what is ahead in this one): each of its steps lowers that.
* `AimingProofs`: the types, of which the slots are the part with content, and
  `NoM5IsLonely`, under `LeaseIsLong`. An expiry finds a lease that ran out, so the invariant
  has to say of every lease that it was lit or that the aim it was taken for is on its way
  (`LeaseIsAnsweredFor`, `AimsAreUnderWay`); the assumption is what keeps such a lease live.
* `BridgeProofs`: one invariant, the types with `Budget` (a command is under way only
  within the bound), `LockIsHeld` (who is climbing holds the lock, and a connection's
  lock is held by one that climbs), `MarkIsDropped` (the mark names nobody but a client
  that a take-over found), `OwnerIsServed` and `OneSender`. The last two need each other:
  a retirement keeps `OwnerIsServed` because it compares with `client`, and an attach
  keeps `OneSender` because the previous owner is the only open socket that is served.
  The action property `LeaversAreHandled` follows from `MarkIsDropped`.
  `NobodyIsParked` is about the end of the daemon: a port is published only by a device
  loop that finds, under the lock the shutdown takes, that nobody has told it to stop, and
  the shutdown closes the port after it has told it so (`ShutInOrder`).
  `BridgeEscalates == Spec => Ladder!Spec` maps the lock to the cause and the number of commands to the
  commands sent; `Orderly` says where a ladder is with its take-over when it commands.
  `TakeoverIsComplete` adds whom it found in charge (`Seized`): of all connections a take-over
  ever found none has an open socket, except the one it is about to close, and nobody arrives a
  second time. `LockIsGivenBack` counts the steps up to the unlock (`StepsLeft`): each step of the
  holder lowers that, no step of anybody else changes it.
* `BootSlotsProofs`: types, that a system that is up runs from a slot that boots
  (`RunsFromHealthy`), that such a slot is left, and `AttemptsAreCounted`: the streak of
  a slot that does not come up is bounded by the counter, as long as it is the selected
  one. Every write of an update goes to `target`, which is not the running slot
  (`WritesSpareTheRunning`), which is also the heart of the refinement:
  `Implements == Spec => KeepsPromise`, where a loader's boot is a stutter, `ComesUp` is
  `Rise`, `Off` is `Fall` and a write is `Change`.

* `HandoverProofs`: the types come in two parts, what the handlers keep in memory
  (`ServerTyped`, with the lock: `mu = p` if and only if `p` is past its checks) and the rest.
  `HandlerAlone` follows: while a handler works no other one is past its checks.
  `UntouchedInv` carries what the checks found to the save, and gives `NobodyOverwritten`.
  `SettledAgrees` is not inductive, for it says nothing of a request under way: `AgreeInv`
  adds where each step leaves file and generated files (`Stands`) and which services follow
  which of the two configurations (`Serves`: the old one until they are told, one by one).
  It also gives `ErrorsUndone`, together with `KeysInv`: until the setup installs a key
  the keys are those it found, and from then on the restorer has them.
* `LinesProofs`: types first. `BooksBalance` compares what the tail remembers with what is
  still to be answered, and is inductive only together with the order of it all: replies on
  their way, lines in the controller's buffer, then those that are recorded and not yet
  written, whoever the client is by now (`Books`, with `Chain` for the three of them and `Waits` for
  the last, which are in the order of their record), and that with no device none of the three is
  there (`Dark`). A line joins the last part when it is recorded (`JoinsTheWay`), leaves it at its
  head when nothing is overtaken (`LeavesTheWay`), and so on from the head of one part to the end of
  the next. `SlotsAreForLines` is inductive as it stands, but needs counting: a reply takes
  one from the answers that are due and releases one slot, so the slots held never
  outnumber them. `SlotsAreGivenBack` counts the watchdog's looks (`LooksLeft`) once all that is in
  use is past its time (`Overdue`): a look lowers that, and answers, banners and lost ports never
  raise it. `NobodyWaitsForNobody` is inductive with the types: the probe of an
  earlier port may open the gate before its time, but never keeps it closed.
* `JournalProofs`: `Bounded` needs that everything written is a sequence and that the length
  the writer goes by is the file's (`Shaped`); `NothingLeftBehind` that a writer that has
  stopped has emptied the queue and its hands (`Emptied`). `Accounted` is not inductive: what
  is lost, collapsed, torn or rotated has to be counted part by part, so `Books` keeps the
  parts apart (in hand, waiting, on disk, lost), and says that a batch still being collected
  counts every line once. `CollapseKeeps` is its heart: a bijection from the events that
  came in, each as its run and its rank in the run, to those that go out. The provers have no
  induction over a sequence; where one is needed the least element of a set of positions
  takes its place (`LeastOfNaturals`). `RingIsRecent` follows from the slots, from the
  oldest on, holding `told` (`Holds`): a push keeps it, once round the ring included, and so
  does a start (`LoadedIs`, `FilledHolds`; `FilledGrows` says that filling the ring is pushing).
  `TypeOK` is not inductive either: a line claims no more repeats than events there have been
  because the books balance and because what has been taken and what is being offered
  are within the events (`Counted`). `OnlyStragglersPanic` is about the panic the model keeps (an offer
  to the closed queue): nobody that `Run` has waited for is the one who offers.
  `AClosedQueueIsWorkedOff` weighs what waits, what is in hand and where the writer is
  (`WorkLeft`); a flush that writes nothing is followed by a rotation that makes room
  (`TheRoomIsUsed`), and a collapsed batch is no longer than it was (`CollapseShortens`).

`AttemptsBounded` is about "three unconfirmed attempts in a row select the other slot".
The counter is advanced once more by the boot that falls back, and a slot that was
confirmed starts at zero: it gets two attempts, and the third boot is the other one's.
The theorem bounds the attempts by three wherever the counter was left.

### Only model-checked

Liveness (`LadderEnds`, `UnattendedBeamGoesOut`, `ShutdownEnds`, `DepartureIsSettled`,
`UnheldBeamGoesOut`, `Recovers`, `Settles`, `CloseEnds`, `GateOpens`, `SlotsComeBack`,
`BridgeComesBack`): fairness and ENABLED are out of the prover's reach. Every invariant
and every step property that a run checks is a theorem. The violations, by nature.

Of six of them the half that needs no fairness is proved. `LadderEnds`: a ladder is over
after a bounded number of its own steps (`LaddersRunDown`). `CloseEnds`: a closed queue is
worked off (`AClosedQueueIsWorkedOff`). `GateOpens`: whoever waits has somebody to wait for
(`NobodyWaitsForNobody`). `ShutdownEnds`: no read is left with a port nobody closes
(`NobodyIsParked`). `DepartureIsSettled`: the lock that a departure waits for comes free after a
bounded number of its holder's steps (`LockIsGivenBack`). `SlotsComeBack`: so do slots that are
overdue, after a bounded number of looks (`SlotsAreGivenBack`). What is left to TLC is that those who can take a step do so.

## Not modelled

* The sections of the configuration that neither backend reads, their services, the
  password attempts, and the hardware watchdog: each is a loop or a counter by itself.
* Texts, byte counters, state for display, the record's wording; the assembly of lines
  and the counting of garbage; positions, feeds and buffers, which no decision reads.
* The job tracker and the silence detection of the watchdog: sequential automata that share
  its loop, and that nothing else acts on. Monitor, console and status socket observe.
* Signature and manifest checks of a bundle, the partition layout, the temporary file
  of `atomicfile` and its syncs: below the granularity of the model.
* The serial driver, static files, the devices page, the command line and the image
  build: system calls, rendering and packaging.
