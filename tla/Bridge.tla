------------------------------- MODULE Bridge -------------------------------
(***************************************************************************)
(* proxy/bridge.go and the hand-overs of proxy/intervene.go: who owns the  *)
(* serial port, who may command the machine, and how the daemon stops.     *)
(*                                                                         *)
(* Every connection has a goroutine (serveClient and then onClientGone),   *)
(* and so have the device, the watchdog, the operator's stop request, the  *)
(* accept loop and the goroutine that shuts everything down.  What a       *)
(* ladder decides and what the controller makes of it is module            *)
(* Intervene; here a ladder sends up to MaxCommands commands and stops     *)
(* when it likes.                                                          *)
(***************************************************************************)
EXTENDS Naturals, FiniteSets

CONSTANTS
  Clients,     \* the connections that may arrive, each of them once
  NoClient,    \* nil
  MaxCommands  \* bound: commands of one ladder

ASSUME NilAssumption == NoClient \notin Clients \cup {"watch", "stop"}
ASSUME NamesAssumption == Clients \cap {"watch", "stop"} = {}
ASSUME CommandsAssumption == MaxCommands \in Nat

VARIABLES
  kick,        \* KickOldClient, fixed by the configuration
  conn,        \* where each connection's goroutine is
  open,        \* the sockets neither end has closed
  client,      \* Bridge.client
  droppedByUs, \* Bridge.droppedByUs
  port,        \* is Bridge.port published?
  device,      \* where serveDevice is
  holding,     \* who holds a port they read earlier that is still open
  lock,        \* who holds interveneMu
  phase, takenOver, victim, commands,  \* the holder's ladder
  stopping,    \* is the context cancelled?
  shutter,     \* where Run's shutdown goroutine is
  acceptor,    \* where Run's accept loop is
  dropped      \* history: the connections a take-over found in charge

side   == <<kick, port, device, stopping, shutter, acceptor>>
ladder == <<lock, phase, takenOver, victim, commands>>
owner  == <<conn, open, client, droppedByUs, dropped>>
vars   == <<side, ladder, owner, holding>>

Commanders == Clients \cup {"watch", "stop"}

Served == {"serving", "writing", "leaving"}

-----------------------------------------------------------------------------
(***************************************************************************)
(* A connection's goroutine.                                               *)
(***************************************************************************)

\* Accept; the goroutine waits at the probe gate.
Arrive(c) ==
  /\ acceptor = "accepting" /\ shutter = "waiting" /\ conn[c] = "away"
  /\ conn' = [conn EXCEPT ![c] = "accepted"] /\ open' = open \cup {c}
  /\ UNCHANGED <<side, ladder, holding, client, droppedByUs, dropped>>

\* Mutant: the previous connection is replaced but left open.
AttachBeside(c) ==
  /\ conn[c] = "accepted"
  /\ client' = c /\ conn' = [conn EXCEPT ![c] = "serving"]
  /\ UNCHANGED <<side, ladder, holding, open, droppedByUs, dropped>>

\* serveClient up to its read loop: one critical section of clientMu refuses
\* the newcomer or replaces whoever was there.
Attach(c) ==
  /\ conn[c] = "accepted"
  /\ IF client # NoClient /\ ~kick
     THEN /\ conn' = [conn EXCEPT ![c] = "gone"] /\ open' = open \ {c}
          /\ UNCHANGED client
     ELSE /\ conn' = [conn EXCEPT ![c] = "serving"] /\ open' = open \ {client}
          /\ client' = c
  /\ UNCHANGED <<side, ladder, holding, droppedByUs, dropped>>

\* The other end closes, a keepalive runs out, or writeToClient gives up on it.
HangUp(c) ==
  /\ c \in open
  /\ open' = open \ {c}
  /\ UNCHANGED <<side, ladder, holding, conn, client, droppedByUs, dropped>>

\* conn.Read returns a chunk.
Hear(c) ==
  /\ conn[c] = "serving" /\ c \in open
  /\ conn' = [conn EXCEPT ![c] = "writing"]
  /\ UNCHANGED <<side, ladder, holding, open, client, droppedByUs, dropped>>

\* The chunk goes to whatever port is open now, or the connection ends.  The
\* socket may have been closed since the chunk was read.
Forward(c) ==
  /\ conn[c] = "writing"
  /\ conn' = [conn EXCEPT ![c] = IF port THEN "serving" ELSE "leaving"]
  /\ UNCHANGED <<side, ladder, holding, open, client, droppedByUs, dropped>>

ReadEnds(c) ==
  /\ conn[c] = "serving" /\ c \notin open
  /\ conn' = [conn EXCEPT ![c] = "leaving"]
  /\ UNCHANGED <<side, ladder, holding, open, client, droppedByUs, dropped>>

\* Mutant: the status is retired whoever owns it by now.
RetireAnyway(c) ==
  /\ conn[c] = "leaving"
  /\ open' = open \ {c}
  /\ client' = NoClient /\ conn' = [conn EXCEPT ![c] = "left"]
  /\ UNCHANGED <<side, ladder, holding, droppedByUs, dropped>>

\* Mutant: a client that ends with the port is not retired.
RetireWithPort(c) ==
  /\ conn[c] = "leaving"
  /\ open' = open \ {c}
  /\ IF client = c /\ port
     THEN client' = NoClient /\ conn' = [conn EXCEPT ![c] = "left"]
     ELSE conn' = [conn EXCEPT ![c] = "gone"] /\ UNCHANGED client
  /\ UNCHANGED <<side, ladder, holding, droppedByUs, dropped>>

\* serveClient's end: only the owner retires the ownership, and only its
\* departure is a client that has gone.
Retire(c) ==
  /\ conn[c] = "leaving"
  /\ open' = open \ {c}
  /\ IF client = c
     THEN client' = NoClient /\ conn' = [conn EXCEPT ![c] = "left"]
     ELSE conn' = [conn EXCEPT ![c] = "gone"] /\ UNCHANGED client
  /\ UNCHANGED <<side, ladder, holding, droppedByUs, dropped>>

\* Mutant: the mark is a flag that any departure takes for its own.
OursFlag(c) == droppedByUs # NoClient

Ours(c) == droppedByUs = c

\* onClientGone up to the lock.  The port is the one of this moment.
OnClientGone(c) ==
  /\ conn[c] = "left"
  /\ droppedByUs' = IF ~stopping /\ Ours(c) THEN NoClient ELSE droppedByUs
  /\ IF stopping \/ Ours(c) \/ ~port
     THEN conn' = [conn EXCEPT ![c] = "gone"] /\ UNCHANGED holding
     ELSE conn' = [conn EXCEPT ![c] = "queued"] /\ holding' = holding \cup {c}
  /\ UNCHANGED <<side, ladder, open, client, dropped>>

-----------------------------------------------------------------------------
(***************************************************************************)
(* interveneMu and the ladder of whoever holds it.                         *)
(***************************************************************************)

Begin(h, p) ==
  /\ lock' = h /\ phase' = p /\ takenOver' = FALSE /\ victim' = NoClient
  /\ commands' = 0

\* Mutant: the lock is not looked at.
FreeAnyway == TRUE

Free == lock = NoClient

Queued(c) ==
  /\ conn[c] = "queued" /\ Free
  /\ Begin(c, "look") /\ conn' = [conn EXCEPT ![c] = "climbing"]
  /\ UNCHANGED <<side, holding, open, client, droppedByUs, dropped>>

\* The port was read before the lock was asked for: it is the one of now, or it
\* has been closed in the meantime.
Captured(h) ==
  \/ UNCHANGED holding
  \/ port /\ holding' = holding \cup {h}

\* watch: TryLock, with the port its tick began with.
WatchActs ==
  /\ ~stopping /\ Free
  /\ Begin("watch", "look") /\ Captured("watch")
  /\ UNCHANGED <<side, owner>>

\* Do for stop: the port, the lock, then the take-over.
StopActs ==
  /\ Free
  /\ Begin("stop", "mark") /\ Captured("stop")
  /\ UNCHANGED <<side, owner>>

\* Mutant: a return without the unlock.
ReturnLocked ==
  /\ phase' = "idle" /\ takenOver' = FALSE /\ victim' = NoClient
  /\ commands' = 0 /\ holding' = holding \ {lock}
  /\ conn' = [c \in Clients |-> IF c = lock THEN "gone" ELSE conn[c]]
  /\ UNCHANGED <<lock, open, client, droppedByUs, dropped>>

\* The function returns and the deferred unlock runs.
Return ==
  /\ lock' = NoClient /\ phase' = "idle" /\ takenOver' = FALSE /\ victim' = NoClient
  /\ commands' = 0 /\ holding' = holding \ {lock}
  /\ conn' = [c \in Clients |-> IF c = lock THEN "gone" ELSE conn[c]]
  /\ UNCHANGED <<open, client, droppedByUs, dropped>>

\* One turn of the loop: the end, or a command with the take-over before it.
Look ==
  /\ phase = "look"
  /\ \/ Return
     \/ /\ ~stopping /\ commands < MaxCommands
        /\ phase' = IF lock = "watch" /\ ~takenOver THEN "mark" ELSE "act"
        /\ UNCHANGED <<lock, takenOver, victim, commands, holding, owner>>
  /\ UNCHANGED side

\* takeOverFromClient notes the connection under clientMu, and with nobody
\* connected it notes that; then it says why and closes.
Mark ==
  /\ phase = "mark"
  /\ victim' = client /\ droppedByUs' = client
  /\ dropped' = dropped \cup ({client} \ {NoClient})
  /\ takenOver' = TRUE /\ phase' = "close"
  /\ UNCHANGED <<side, holding, lock, commands, conn, open, client>>

Close ==
  /\ phase = "close"
  /\ open' = open \ {victim} /\ victim' = NoClient /\ phase' = "act"
  /\ UNCHANGED <<side, holding, lock, takenOver, commands, conn, client, droppedByUs, dropped>>

\* The command.  A port that is gone ends the ladder; a stop is one command.
Act ==
  /\ phase = "act"
  /\ IF lock \in holding /\ lock # "stop"
     THEN /\ phase' = "poll" /\ commands' = commands + 1
          /\ UNCHANGED <<lock, takenOver, victim, holding, owner>>
     ELSE Return
  /\ UNCHANGED side

\* pollBeam, and the newcomer that ends the ladder of a departure.
Poll ==
  /\ phase = "poll"
  /\ IF client # NoClient /\ lock # "watch"
     THEN Return
     ELSE phase' = "look" /\ UNCHANGED <<lock, takenOver, victim, commands, holding, owner>>
  /\ UNCHANGED side

-----------------------------------------------------------------------------
(***************************************************************************)
(* The device and the end of the daemon.                                   *)
(***************************************************************************)

\* closePort, by whoever gets there; a port that was read earlier is dead.
ClosePort == port' = FALSE /\ holding' = {}

\* serial.Open succeeded; nobody else can see the port yet.
Opened ==
  /\ device = "opening" /\ ~stopping
  /\ device' = "opened"
  /\ UNCHANGED <<kick, port, stopping, shutter, acceptor, ladder, owner, holding>>

\* Mutant: the port is published without a look at the context.
PublishAnyway ==
  /\ device = "opened"
  /\ port' = TRUE /\ device' = "reading"
  /\ UNCHANGED <<kick, stopping, shutter, acceptor, ladder, owner, holding>>

\* Publishing and being told to stop, decided under portMu.
Publish ==
  /\ device = "opened"
  /\ IF stopping THEN device' = "finished" /\ UNCHANGED port
                 ELSE port' = TRUE /\ device' = "reading"
  /\ UNCHANGED <<kick, stopping, shutter, acceptor, ladder, owner, holding>>

\* openPort gives up between two tries.
GiveUp ==
  /\ device = "opening" /\ stopping
  /\ device' = "finished"
  /\ UNCHANGED <<kick, port, stopping, shutter, acceptor, ladder, owner, holding>>

\* The read fails: the adapter went away, or somebody closed the port.
Lost ==
  /\ device = "reading"
  /\ ClosePort /\ device' = "lost"
  /\ UNCHANGED <<kick, stopping, shutter, acceptor, ladder, owner>>

DisconnectClient == open' = open \ {client}

\* After the port was lost: the end, or the client goes with the port.
Reopen ==
  /\ device = "lost"
  /\ IF stopping THEN device' = "finished" /\ UNCHANGED open
                 ELSE device' = "opening" /\ DisconnectClient
  /\ UNCHANGED <<kick, port, stopping, shutter, acceptor, ladder, holding>>
  /\ UNCHANGED <<conn, client, droppedByUs, dropped>>

Cancel ==
  /\ ~stopping /\ stopping' = TRUE
  /\ UNCHANGED <<kick, port, device, shutter, acceptor, ladder, owner, holding>>

ShutListener ==
  /\ shutter = "waiting" /\ stopping
  /\ shutter' = "port"
  /\ UNCHANGED <<kick, port, device, stopping, acceptor, ladder, owner, holding>>

ShutPort ==
  /\ shutter = "port"
  /\ ClosePort /\ shutter' = "client"
  /\ UNCHANGED <<kick, device, stopping, acceptor, ladder, owner>>

ShutClient ==
  /\ shutter = "client"
  /\ DisconnectClient /\ shutter' = "done"
  /\ UNCHANGED <<kick, port, device, stopping, acceptor, ladder, holding>>
  /\ UNCHANGED <<conn, client, droppedByUs, dropped>>

AcceptFails ==
  /\ acceptor = "accepting" /\ shutter # "waiting"
  /\ DisconnectClient /\ acceptor' = "joining"
  /\ UNCHANGED <<kick, port, device, stopping, shutter, ladder, holding>>
  /\ UNCHANGED <<conn, client, droppedByUs, dropped>>

Join ==
  /\ acceptor = "joining" /\ device = "finished"
  /\ acceptor' = "stopped"
  /\ UNCHANGED <<kick, port, device, stopping, shutter, ladder, owner, holding>>

-----------------------------------------------------------------------------
Init ==
  /\ kick \in BOOLEAN
  /\ conn = [c \in Clients |-> "away"] /\ open = {}
  /\ client = NoClient /\ droppedByUs = NoClient /\ dropped = {}
  /\ port = FALSE /\ device = "opening" /\ holding = {}
  /\ lock = NoClient /\ phase = "idle" /\ takenOver = FALSE /\ victim = NoClient
  /\ commands = 0
  /\ stopping = FALSE /\ shutter = "waiting" /\ acceptor = "accepting"

Serve(c) == Attach(c) \/ Forward(c) \/ ReadEnds(c) \/ Retire(c) \/ OnClientGone(c)

Climb == Look \/ Mark \/ Close \/ Act \/ Poll

\* A parked read returns only when the port is closed under it.
Unparked == ~port /\ Lost

Serial == Publish \/ GiveUp \/ Reopen \/ Unparked

Shut == ShutListener \/ ShutPort \/ ShutClient \/ AcceptFails \/ Join

\* Once Run has returned, the process ends and its goroutines with it.
Next ==
  /\ acceptor # "stopped"
  /\ \/ \E c \in Clients : Arrive(c) \/ HangUp(c) \/ Hear(c) \/ Serve(c) \/ Queued(c)
     \/ WatchActs \/ StopActs \/ Climb
     \/ Opened \/ Lost \/ Serial \/ Cancel \/ Shut

Spec == Init /\ [][Next]_vars

-----------------------------------------------------------------------------
(***************************************************************************)
(* Correctness.                                                            *)
(***************************************************************************)

\* The type invariant; a ladder is under way exactly while the lock is held.
TypeOK ==
  /\ kick \in BOOLEAN /\ port \in BOOLEAN /\ stopping \in BOOLEAN /\ takenOver \in BOOLEAN
  /\ conn \in [Clients -> {"away", "accepted", "gone", "left", "queued", "climbing"} \cup Served]
  /\ open \in SUBSET Clients /\ dropped \in SUBSET Clients
  /\ {client, droppedByUs, victim} \subseteq Clients \cup {NoClient}
  /\ lock \in Commanders \cup {NoClient} /\ holding \in SUBSET Commanders
  /\ phase \in {"idle", "look", "mark", "close", "act", "poll"}
  /\ commands \in 0 .. MaxCommands /\ (phase = "idle" <=> lock = NoClient)
  /\ device \in {"opening", "opened", "reading", "lost", "finished"}
  /\ shutter \in {"waiting", "port", "client", "done"}
  /\ acceptor \in {"accepting", "joining", "stopped"}

\* serveClient, "only retire the status if nobody has taken over in the
\* meantime": whoever the bridge says is in charge has a goroutine serving
\* them, so a departure never leaves a ghost that refuses the operator's
\* commands and the next client for ever.
OwnerIsServed == client # NoClient => conn[client] \in Served

\* Kicking closes the previous connection in the critical section that installs
\* the next, and a late retirement does not evict the newcomer: a socket that
\* is open and served belongs to the client in charge, so no two senders can
\* both go on feeding the port.
OneSender == \A c \in open : conn[c] \in {"serving", "writing"} => client = c

\* interveneMu, "two escalations interleaving would send a spindle-stop toggle
\* into the middle of another one's accounting": a connection's ladder runs
\* only while it holds the lock, so never beside the watchdog's or a stop.
OneCommander == \A c \in Clients : conn[c] = "climbing" => lock = c

\* onClientGone and the mark, "held as the connection rather than a flag: a
\* client that leaves of its own accord in the same moment must still be
\* handled": a departure goes without a ladder only if the daemon is stopping,
\* the port is gone or a take-over had found that very client in charge.
LeaversAreHandled ==
  [][\A c \in Clients : conn[c] = "left" /\ conn'[c] = "gone"
       => stopping \/ ~port \/ c \in dropped]_vars

\* onClientGone, of a client the bridge dropped itself: "Without this the
\* disconnect it just caused would start a second ladder and send a soft reset
\* to a controller that was reset a moment ago."
DroppedStartsNoLadder == \A c \in dropped : conn[c] \notin {"queued", "climbing"}

-----------------------------------------------------------------------------
(***************************************************************************)
(* Fairness.  Every goroutine is scheduled, a closed socket or port wakes  *)
(* its reader, a wait for the probe gate is bounded by probeGrace, and     *)
(* sync.Mutex does not starve a waiter (its starvation mode hands the lock *)
(* over), whatever TryLock does beside it.  Nothing is assumed of the      *)
(* clients, the operator or the adapter.                                   *)
(***************************************************************************)
Fairness ==
  /\ \A c \in Clients : WF_vars(acceptor # "stopped" /\ Serve(c))
  /\ \A c \in Clients : SF_vars(acceptor # "stopped" /\ Queued(c))
  /\ WF_vars(acceptor # "stopped" /\ Climb)
  /\ WF_vars(acceptor # "stopped" /\ Serial)
  /\ WF_vars(ShutListener \/ ShutPort \/ ShutClient)
  /\ WF_vars(AcceptFails) /\ WF_vars(Join)

FairSpec == Spec /\ Fairness

\* "A port that was not yet published when it ran never gets closed at all" and
\* the daemon hangs: told to stop, Run returns, wherever the device loop was.
ShutdownEnds == stopping ~> (acceptor = "stopped")

\* A client that was in charge and has gone is dealt with: its handler is not
\* left waiting for interveneMu behind the watchdog and the operator.
DepartureIsSettled ==
  \A c \in Clients : (conn[c] = "left") ~> (conn[c] = "gone" \/ acceptor = "stopped")

=============================================================================
