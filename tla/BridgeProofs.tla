---------------------------- MODULE BridgeProofs ----------------------------
(***************************************************************************)
(* Who owns the port and who commands the machine, for any number of       *)
(* connections.                                                            *)
(***************************************************************************)
EXTENDS Bridge, TLAPS

USE NilAssumption, NamesAssumption, CommandsAssumption
USE DEF NilAssumption, NamesAssumption, CommandsAssumption

-----------------------------------------------------------------------------
(***************************************************************************)
(* The parts of the type invariant that the actions leave alone together.  *)
(***************************************************************************)
ConnStates == {"away", "accepted", "gone", "left", "queued", "climbing"} \cup Served

SideTyped ==
  /\ kick \in BOOLEAN /\ port \in BOOLEAN /\ stopping \in BOOLEAN
  /\ device \in {"opening", "opened", "reading", "lost", "finished"}
  /\ shutter \in {"waiting", "port", "client", "done"}
  /\ acceptor \in {"accepting", "joining", "stopped"}

LadderTyped ==
  /\ lock \in Commanders \cup {NoClient} /\ takenOver \in BOOLEAN
  /\ phase \in {"idle", "look", "mark", "close", "act", "poll"}
  /\ victim \in Clients \cup {NoClient} /\ commands \in 0 .. MaxCommands
  /\ phase = "idle" <=> lock = NoClient

OwnerTyped ==
  /\ conn \in [Clients -> ConnStates]
  /\ open \in SUBSET Clients /\ dropped \in SUBSET Clients
  /\ client \in Clients \cup {NoClient} /\ droppedByUs \in Clients \cup {NoClient}

\* A ladder is on its way to a command only while it has one left.
Budget == phase \in {"mark", "close", "act"} => lock = "stop" \/ commands < MaxCommands

\* The lock and the connection that climbs name each other: what Return retires
\* is a ladder, and nobody climbs without the lock.
LockIsHeld ==
  /\ OneCommander
  /\ lock \in Clients => conn[lock] = "climbing"

\* Whoever the mark names had been found in charge.
MarkIsDropped == droppedByUs \in dropped \cup {NoClient}

IInv ==
  /\ SideTyped /\ LadderTyped /\ OwnerTyped /\ holding \in SUBSET Commanders
  /\ Budget /\ LockIsHeld /\ MarkIsDropped /\ OwnerIsServed /\ OneSender

LEMMA IInvTyped == SideTyped /\ LadderTyped /\ OwnerTyped /\ holding \in SUBSET Commanders => TypeOK
BY DEF SideTyped, LadderTyped, OwnerTyped, TypeOK, ConnStates
\* Everything that has to do with connections, owners and the lock.
Ownership ==
  /\ OwnerTyped /\ LockIsHeld /\ MarkIsDropped /\ OwnerIsServed /\ OneSender

LEMMA IInvParts ==
  IInv <=> /\ SideTyped /\ LadderTyped /\ holding \in SUBSET Commanders /\ Budget
           /\ Ownership
BY DEF IInv, Ownership

LEMMA InitIInv == Init => IInv
<1> SUFFICES ASSUME Init
             PROVE  IInv
  OBVIOUS
<1>1. SideTyped /\ holding \in SUBSET Commanders
  BY DEF Init, SideTyped
<1>2. 0 \in 0 .. MaxCommands
  OBVIOUS
<1>3. LadderTyped /\ Budget
  BY <1>2 DEF Init, LadderTyped, Budget
<1>4. Ownership
  BY DEF Init, Ownership, OwnerTyped, ConnStates, LockIsHeld, OneCommander, MarkIsDropped,
     OwnerIsServed, OneSender
<1>5. QED
  BY <1>1, <1>3, <1>4, IInvParts

-----------------------------------------------------------------------------
(***************************************************************************)
(* The goroutine of a connection keeps the ownership.                      *)
(***************************************************************************)

\* A connection that is not in charge and not climbing may move to any state
\* that is neither.
LEMMA BystanderMoves ==
  ASSUME Ownership, NEW c \in Clients, client # c, lock # c, conn[c] # "climbing",
         NEW s \in ConnStates \ {"climbing", "serving", "writing"},
         conn' = [conn EXCEPT ![c] = s], open' \subseteq open \cup {c},
         UNCHANGED <<client, droppedByUs, dropped, lock>>
  PROVE  Ownership'
<1>1. OwnerTyped'
  BY DEF Ownership, OwnerTyped, ConnStates
<1>2. LockIsHeld' /\ MarkIsDropped'
  BY DEF Ownership, OwnerTyped, LockIsHeld, OneCommander, MarkIsDropped
<1>3. OwnerIsServed'
  BY DEF Ownership, OwnerTyped, OwnerIsServed
<1>4. OneSender'
  BY DEF Ownership, OwnerTyped, OneSender
<1>5. QED
  BY <1>1, <1>2, <1>3, <1>4 DEF Ownership

\* Sockets are closed, by whoever it is, and nothing else changes.
LEMMA SocketsClose ==
  ASSUME Ownership, open' \subseteq open, UNCHANGED <<conn, client, droppedByUs, dropped, lock>>
  PROVE  Ownership'
BY DEF Ownership, OwnerTyped, LockIsHeld, OneCommander, MarkIsDropped, OwnerIsServed, OneSender

LEMMA AttachKeeps ==
  ASSUME Ownership, NEW c \in Clients, Attach(c)
  PROVE  Ownership'
<1>0. conn \in [Clients -> ConnStates] /\ conn[c] = "accepted"
  BY DEF Ownership, OwnerTyped, Attach
<1>1. client # c /\ lock # c
  BY <1>0 DEF Ownership, OwnerIsServed, Served, LockIsHeld
<1>2. CASE client # NoClient /\ ~kick
  BY <1>0, <1>1, <1>2, BystanderMoves DEF Attach, ConnStates, ladder
<1>3. CASE ~(client # NoClient /\ ~kick)
  <2>1. conn' = [conn EXCEPT ![c] = "serving"] /\ open' = open \ {client} /\ client' = c
        /\ UNCHANGED <<droppedByUs, dropped, lock>>
    BY <1>3 DEF Attach, ladder
  <2>2. OwnerTyped' /\ MarkIsDropped' /\ OwnerIsServed'
    BY <1>0, <2>1 DEF Ownership, OwnerTyped, ConnStates, Served, MarkIsDropped, OwnerIsServed
  <2>3. LockIsHeld'
    BY <1>0, <1>1, <2>1 DEF Ownership, LockIsHeld, OneCommander
  <2>4. OneSender'
    BY <1>0, <2>1 DEF Ownership, OwnerTyped, OneSender
  <2>5. QED
    BY <2>2, <2>3, <2>4 DEF Ownership
<1>4. QED
  BY <1>2, <1>3

\* Between two reads a connection stays what it was, in charge or not.
LEMMA ServingKeeps ==
  ASSUME Ownership, NEW c \in Clients, Hear(c) \/ Forward(c) \/ ReadEnds(c)
  PROVE  Ownership'
<1>1. PICK s \in Served : conn' = [conn EXCEPT ![c] = s]
  BY DEF Hear, Forward, ReadEnds, Served
<1>2. UNCHANGED <<open, client, droppedByUs, dropped, lock>> /\ conn[c] \in {"serving", "writing"}
  BY DEF Hear, Forward, ReadEnds, ladder
<1>3. OwnerTyped' /\ MarkIsDropped' /\ OwnerIsServed'
  BY <1>1, <1>2 DEF Ownership, OwnerTyped, ConnStates, MarkIsDropped, OwnerIsServed
<1>4. LockIsHeld'
  BY <1>1, <1>2 DEF Ownership, OwnerTyped, LockIsHeld, OneCommander, Served
<1>5. OneSender'
  BY <1>1, <1>2 DEF Ownership, OwnerTyped, OneSender
<1>6. QED
  BY <1>3, <1>4, <1>5 DEF Ownership

LEMMA RetireKeeps ==
  ASSUME Ownership, NEW c \in Clients, Retire(c)
  PROVE  Ownership'
<1>0. conn \in [Clients -> ConnStates] /\ conn[c] = "leaving" /\ lock # c
  BY DEF Ownership, OwnerTyped, Retire, LockIsHeld
<1>1. CASE client = c
  <2>1. conn' = [conn EXCEPT ![c] = "left"] /\ open' = open \ {c} /\ client' = NoClient
        /\ UNCHANGED <<droppedByUs, dropped, lock>>
    BY <1>1 DEF Retire, ladder
  <2>2. OwnerTyped' /\ MarkIsDropped' /\ OwnerIsServed'
    BY <1>0, <2>1 DEF Ownership, OwnerTyped, ConnStates, MarkIsDropped, OwnerIsServed
  <2>3. LockIsHeld'
    BY <1>0, <2>1 DEF Ownership, LockIsHeld, OneCommander
  <2>4. OneSender'
    BY <1>0, <1>1, <2>1 DEF Ownership, OwnerTyped, OneSender
  <2>5. QED
    BY <2>2, <2>3, <2>4 DEF Ownership
<1>2. CASE client # c
  BY <1>0, <1>2, BystanderMoves DEF Retire, ConnStates, ladder
<1>3. QED
  BY <1>1, <1>2

LEMMA OnClientGoneKeeps ==
  ASSUME Ownership, NEW c \in Clients, OnClientGone(c)
  PROVE  Ownership'
<1>0. conn \in [Clients -> ConnStates] /\ conn[c] = "left" /\ lock # c /\ client # c
  BY DEF Ownership, OwnerTyped, OnClientGone, LockIsHeld, OwnerIsServed, Served
<1>1. PICK s \in {"gone", "queued"} : conn' = [conn EXCEPT ![c] = s]
  BY DEF OnClientGone
<1>2. UNCHANGED <<open, client, dropped, lock>> /\ droppedByUs' \in {droppedByUs, NoClient}
  BY DEF OnClientGone, ladder
<1>3. OwnerTyped' /\ MarkIsDropped' /\ OwnerIsServed'
  BY <1>0, <1>1, <1>2 DEF Ownership, OwnerTyped, ConnStates, MarkIsDropped, OwnerIsServed
<1>4. LockIsHeld' /\ OneSender'
  BY <1>0, <1>1, <1>2 DEF Ownership, LockIsHeld, OneCommander, OneSender
<1>5. QED
  BY <1>3, <1>4 DEF Ownership

LEMMA QueuedKeeps ==
  ASSUME Ownership, NEW c \in Clients, Queued(c)
  PROVE  Ownership'
<1>0. conn \in [Clients -> ConnStates] /\ conn[c] = "queued" /\ client # c
      /\ lock = NoClient
  BY DEF Ownership, OwnerTyped, Queued, Free, OwnerIsServed, Served
<1>1. conn' = [conn EXCEPT ![c] = "climbing"] /\ lock' = c
      /\ UNCHANGED <<open, client, droppedByUs, dropped>>
  BY DEF Queued, Begin
<1>2. OwnerTyped' /\ MarkIsDropped' /\ OwnerIsServed'
  BY <1>0, <1>1 DEF Ownership, OwnerTyped, ConnStates, MarkIsDropped, OwnerIsServed
<1>3. LockIsHeld' /\ OneSender'
  BY <1>0, <1>1 DEF Ownership, LockIsHeld, OneCommander, OneSender
<1>4. QED
  BY <1>2, <1>3 DEF Ownership

\* The watchdog or a stop takes a lock that nobody holds.
LEMMA TakingKeeps ==
  ASSUME Ownership, lock = NoClient, lock' \in {"watch", "stop"}, UNCHANGED owner
  PROVE  Ownership'
BY DEF Ownership, OwnerTyped, LockIsHeld, OneCommander, MarkIsDropped, OwnerIsServed, OneSender,
   owner

LEMMA ReturnKeeps ==
  ASSUME Ownership, LadderTyped, Return
  PROVE  Ownership'
<1>0. conn \in [Clients -> ConnStates] /\ lock' = NoClient
      /\ UNCHANGED <<open, client, droppedByUs, dropped>>
      /\ conn' = [c \in Clients |-> IF c = lock THEN "gone" ELSE conn[c]]
  BY DEF Ownership, OwnerTyped, Return
<1>1. OwnerTyped' /\ MarkIsDropped'
  BY <1>0 DEF Ownership, OwnerTyped, ConnStates, MarkIsDropped
<1>2. OwnerIsServed'
  BY <1>0 DEF Ownership, OwnerTyped, LockIsHeld, OwnerIsServed, Served
<1>3. LockIsHeld' /\ OneSender'
  BY <1>0 DEF Ownership, OwnerTyped, LockIsHeld, OneCommander, OneSender
<1>4. QED
  BY <1>1, <1>2, <1>3 DEF Ownership

\* A ladder that goes on without closing, marking or ending anything.
LEMMA OwnersRest ==
  ASSUME Ownership, UNCHANGED <<owner, lock>>
  PROVE  Ownership'
BY DEF Ownership, OwnerTyped, LockIsHeld, OneCommander, MarkIsDropped, OwnerIsServed, OneSender,
   owner

LEMMA StepIInv == IInv /\ [Next]_vars => IInv'
<1> SUFFICES ASSUME IInv, [Next]_vars
             PROVE  IInv'
  OBVIOUS
<1>i. /\ SideTyped /\ LadderTyped /\ holding \in SUBSET Commanders /\ Budget
      /\ Ownership
  BY IInvParts
<1> SUFFICES /\ SideTyped' /\ LadderTyped' /\ (holding \in SUBSET Commanders)' /\ Budget'
             /\ Ownership'
  BY DEF IInv, Ownership
<1>u. /\ UNCHANGED side => SideTyped'
      /\ UNCHANGED ladder => LadderTyped' /\ Budget'
      /\ UNCHANGED <<owner, lock>> => Ownership'
  BY <1>i, OwnersRest DEF side, ladder, SideTyped, LadderTyped, Budget
<1>1. CASE UNCHANGED vars
  BY <1>1, <1>i, <1>u DEF vars, ladder
<1>2. ASSUME NEW c \in Clients, Arrive(c) \/ HangUp(c) \/ Hear(c) \/ Serve(c)
      PROVE  IInv'
  <2>1. Ownership'
    <3>1. CASE Arrive(c)
      <4>1. conn[c] = "away" /\ client # c /\ lock # c
        BY <1>i, <3>1 DEF Arrive, Ownership, OwnerIsServed, Served, LockIsHeld
      <4>2. QED
        BY <1>i, <3>1, <4>1, BystanderMoves DEF Arrive, ladder, ConnStates
    <3>2. CASE HangUp(c)
      BY <1>i, <3>2, SocketsClose DEF HangUp, ladder
    <3>3. QED
      BY <1>2, <1>i, <3>1, <3>2, AttachKeeps, ServingKeeps, RetireKeeps, OnClientGoneKeeps
         DEF Serve
  <2>2. UNCHANGED <<side, ladder>> /\ holding' \in {holding, holding \cup {c}}
    BY <1>2 DEF Arrive, HangUp, Hear, Serve, Attach, Forward, ReadEnds, Retire, OnClientGone
  <2>3. holding' \in SUBSET Commanders
    BY <1>i, <2>2 DEF Commanders
  <2>4. QED
    BY <1>u, <2>1, <2>2, <2>3, IInvParts DEF IInv, Ownership
<1>3. ASSUME NEW c \in Clients, Queued(c)
      PROVE  IInv'
  <2>1. Ownership'
    BY <1>3, <1>i, QueuedKeeps
  <2>2. UNCHANGED <<side, holding>>
    BY <1>3 DEF Queued
  <2>3. LadderTyped' /\ Budget'
    <3>1. 0 \in 0 .. MaxCommands
      OBVIOUS
    <3>2. QED
      BY <1>3, <3>1 DEF Queued, Begin, LadderTyped, Budget, Commanders
  <2>4. QED
    BY <1>i, <1>u, <2>1, <2>2, <2>3 DEF IInv, Ownership
<1>4. CASE WatchActs \/ StopActs
  <2>1. PICK h \in {"watch", "stop"}, p \in {"look", "mark"} :
          Begin(h, p) /\ holding' \in {holding, holding \cup {h}} /\ (p = "mark" => h = "stop")
    BY <1>4 DEF WatchActs, StopActs, Captured
  <2>2. lock = NoClient /\ UNCHANGED <<side, owner>>
    BY <1>4 DEF WatchActs, StopActs, Free
  <2>3. Ownership'
    BY <1>i, <2>1, <2>2, TakingKeeps DEF Begin
  <2>4. LadderTyped' /\ Budget' /\ holding' \in SUBSET Commanders
    <3>1. 0 \in 0 .. MaxCommands
      OBVIOUS
    <3>2. QED
      BY <1>i, <2>1, <3>1 DEF Begin, LadderTyped, Budget, Commanders
  <2>5. QED
    BY <1>u, <2>2, <2>3, <2>4
<1>5. CASE Climb
  <2>1. CASE Return
    <3>1. Ownership' /\ UNCHANGED side
      BY <1>5, <1>i, <2>1, ReturnKeeps DEF Climb, Look, Mark, Close, Act, Poll
    <3>2. LadderTyped' /\ Budget' /\ holding' \in SUBSET Commanders
      <4>1. 0 \in 0 .. MaxCommands
        OBVIOUS
      <4>2. QED
        BY <1>i, <2>1, <4>1 DEF Return, LadderTyped, Budget
    <3>3. QED
      BY <1>u, <3>1, <3>2
  <2>2. CASE Look /\ ~Return
    <3>1. UNCHANGED <<side, holding, owner, lock>>
      BY <2>2 DEF Look
    <3>2. LadderTyped' /\ Budget'
      BY <1>i, <2>2 DEF Look, LadderTyped, Budget
    <3>3. QED
      BY <1>i, <1>u, <3>1, <3>2
  <2>3. CASE Mark
    <3>1. UNCHANGED <<side, holding>>
      BY <2>3 DEF Mark
    <3>2. LadderTyped' /\ Budget'
      BY <1>i, <2>3 DEF Mark, LadderTyped, Budget, Ownership, OwnerTyped
    <3>3. Ownership'
      BY <1>i, <2>3 DEF Mark, Ownership, OwnerTyped, LockIsHeld, OneCommander, MarkIsDropped,
         OwnerIsServed, OneSender
    <3>4. QED
      BY <1>i, <1>u, <3>1, <3>2, <3>3
  <2>4. CASE Close
    <3>1. UNCHANGED <<side, holding>>
      BY <2>4 DEF Close
    <3>2. LadderTyped' /\ Budget'
      BY <1>i, <2>4 DEF Close, LadderTyped, Budget
    <3>3. Ownership'
      BY <1>i, <2>4, SocketsClose DEF Close
    <3>4. QED
      BY <1>i, <1>u, <3>1, <3>2, <3>3
  <2>5. CASE Act /\ ~Return
    <3>1. UNCHANGED <<side, holding, owner, lock>>
      BY <2>5 DEF Act
    <3>2. commands + 1 \in 0 .. MaxCommands
      BY <1>i, <2>5 DEF Act, Budget, LadderTyped
    <3>3. LadderTyped' /\ Budget'
      BY <1>i, <2>5, <3>2 DEF Act, LadderTyped, Budget
    <3>4. QED
      BY <1>i, <1>u, <3>1, <3>3
  <2>6. CASE Poll /\ ~Return
    <3>1. UNCHANGED <<side, holding, owner, lock>>
      BY <2>6 DEF Poll
    <3>2. LadderTyped' /\ Budget'
      BY <1>i, <2>6 DEF Poll, LadderTyped, Budget
    <3>3. QED
      BY <1>i, <1>u, <3>1, <3>2
  <2>7. QED
    BY <1>5, <2>1, <2>2, <2>3, <2>4, <2>5, <2>6 DEF Climb
<1>6. CASE Opened \/ Lost \/ Serial \/ Cancel \/ Shut
  <2>1. open' \subseteq open /\ UNCHANGED <<ladder, conn, client, droppedByUs, dropped>>
    BY <1>6 DEF Opened, Lost, Serial, Publish, GiveUp, Reopen, Unparked, Cancel, Shut,
       ShutListener, ShutPort, ShutClient, AcceptFails, Join, DisconnectClient, owner
  <2>2. Ownership'
    BY <1>i, <2>1, SocketsClose DEF ladder
  <2>3. holding' \in {holding, {}}
    BY <1>6 DEF Opened, Lost, Serial, Publish, GiveUp, Reopen, Unparked, Cancel, Shut,
       ShutListener, ShutPort, ShutClient, AcceptFails, Join, ClosePort
  <2>4. SideTyped'
    BY <1>6, <1>i DEF Opened, Lost, Serial, Publish, GiveUp, Reopen, Unparked, Cancel, Shut,
       ShutListener, ShutPort, ShutClient, AcceptFails, Join, ClosePort, SideTyped
  <2>5. QED
    BY <1>i, <1>u, <2>1, <2>2, <2>3, <2>4
<1>7. QED
  <2>1. IInv' => /\ SideTyped' /\ LadderTyped' /\ (holding \in SUBSET Commanders)' /\ Budget'
                 /\ Ownership'
    BY DEF IInv, Ownership
  <2>2. QED
    BY <1>1, <1>2, <1>3, <1>4, <1>5, <1>6, <2>1 DEF Next

LEMMA BridgeInvariant == Spec => []IInv
BY InitIInv, StepIInv, PTL DEF Spec

\* Every reachable state is well typed.
THEOREM TypeCorrect == Spec => []TypeOK
<1>1. IInv => TypeOK
  BY IInvTyped DEF IInv
<1>2. QED
  BY <1>1, BridgeInvariant, PTL

\* Whatever number of connections come, are kicked, refused, dropped or leave:
\* the one in charge has a goroutine serving it.
THEOREM NoGhostOwner == Spec => []OwnerIsServed
<1>1. IInv => OwnerIsServed
  BY DEF IInv
<1>2. QED
  BY <1>1, BridgeInvariant, PTL

\* An open, served socket is the one in charge, so there is never a second one.
THEOREM SendersAreAlone == Spec => []OneSender
<1>1. IInv => OneSender
  BY DEF IInv
<1>2. QED
  BY <1>1, BridgeInvariant, PTL

\* A departure's ladder runs under the lock: never two ladders at once.
THEOREM CommandersAreAlone == Spec => []OneCommander
<1>1. IInv => OneCommander
  BY DEF IInv, LockIsHeld
<1>2. QED
  BY <1>1, BridgeInvariant, PTL

\* A departure the bridge did not cause is never taken for one it did.
THEOREM NoLeaverIsMistaken == Spec => LeaversAreHandled
<1>1. IInv /\ [Next]_vars
      => [\A c \in Clients : conn[c] = "left" /\ conn'[c] = "gone"
            => stopping \/ ~port \/ c \in dropped]_vars
  <2> SUFFICES ASSUME IInv, Next, NEW c \in Clients, conn[c] = "left", conn'[c] = "gone"
               PROVE  stopping \/ ~port \/ c \in dropped
    BY DEF vars, owner
  <2>0. conn \in [Clients -> ConnStates] /\ lock # c
    BY DEF IInv, OwnerTyped, LockIsHeld
  <2>1. ASSUME NEW d \in Clients, Arrive(d) \/ HangUp(d) \/ Hear(d) \/ Serve(d) \/ Queued(d)
        PROVE  OnClientGone(c)
    BY <2>0, <2>1 DEF Arrive, HangUp, Hear, Serve, Attach, Forward, ReadEnds, Retire,
       OnClientGone, Queued
  <2>2. ~Climb
    BY <2>0 DEF Climb, Look, Mark, Close, Act, Poll, Return, owner
  <2>3. ~(WatchActs \/ StopActs \/ Opened \/ Lost \/ Serial \/ Cancel \/ Shut)
    BY <2>0 DEF WatchActs, StopActs, Opened, Lost, Serial, Publish, GiveUp, Reopen, Unparked,
       Cancel, Shut, ShutListener, ShutPort, ShutClient, AcceptFails, Join, owner
  <2>4. OnClientGone(c)
    BY <2>1, <2>2, <2>3 DEF Next
  <2>5. droppedByUs = c => c \in dropped
    BY DEF IInv, MarkIsDropped
  <2>6. QED
    BY <2>0, <2>4, <2>5 DEF OnClientGone, Ours
<1>2. QED
  BY <1>1, BridgeInvariant, PTL DEF Spec, LeaversAreHandled

-----------------------------------------------------------------------------
(***************************************************************************)
(* The end of the daemon.  ShutdownEnds needs fairness; what it needs      *)
(* besides is that the device loop's read, which nothing but the closing   *)
(* of its port ends, is never left with a port that nobody will close.     *)
(***************************************************************************)
ShutInOrder ==
  /\ shutter # "waiting" => stopping
  /\ shutter \in {"client", "done"} => ~port
  /\ port => device = "reading"
  /\ acceptor = "stopped" => device = "finished"

\* openPort, "a port that was not yet published when it ran never gets closed at
\* all": once the shutdown has been at the port none is published any more, and
\* none is open when Run returns, wherever the device loop was when it was told.
NoPortSurvives == shutter \in {"client", "done"} \/ acceptor = "stopped" => ~port

LEMMA StepShuts == ShutInOrder /\ [Next]_vars => ShutInOrder'
<1> SUFFICES ASSUME ShutInOrder, [Next]_vars
             PROVE  ShutInOrder'
  OBVIOUS
<1>1. CASE UNCHANGED side
  BY <1>1 DEF side, ShutInOrder
<1>2. CASE Opened \/ Lost \/ Serial \/ Cancel \/ Shut
  <2>1. CASE Opened \/ GiveUp \/ Reopen \/ Cancel
    BY <2>1 DEF Opened, GiveUp, Reopen, Cancel, ShutInOrder
  <2>2. CASE Publish
    BY <2>2 DEF Publish, ShutInOrder
  <2>3. CASE Lost
    BY <2>3 DEF Lost, ClosePort, ShutInOrder
  <2>4. CASE Shut
    BY <2>4 DEF Shut, ShutListener, ShutPort, ShutClient, AcceptFails, Join, ClosePort,
       ShutInOrder
  <2>5. QED
    BY <1>2, <2>1, <2>2, <2>3, <2>4 DEF Serial, Unparked
<1>3. ASSUME NEW c \in Clients, Arrive(c) \/ HangUp(c) \/ Hear(c) \/ Serve(c) \/ Queued(c)
      PROVE  UNCHANGED side
  BY <1>3 DEF Arrive, HangUp, Hear, Serve, Attach, Forward, ReadEnds, Retire, OnClientGone,
     Queued
<1>4. CASE WatchActs \/ StopActs \/ Climb \/ UNCHANGED vars
  <2>1. UNCHANGED side
    BY <1>4 DEF WatchActs, StopActs, Climb, Look, Mark, Close, Act, Poll, vars
  <2>2. QED
    BY <1>1, <2>1
<1>5. QED
  BY <1>1, <1>2, <1>3, <1>4 DEF Next

\* No device loop is left in a read that nobody ends.
THEOREM NobodyIsParked == Spec => []NoPortSurvives
<1>1. Init => ShutInOrder
  BY DEF Init, ShutInOrder
<1>2. ShutInOrder => NoPortSurvives
  BY DEF ShutInOrder, NoPortSurvives
<1>3. QED
  BY <1>1, <1>2, StepShuts, PTL DEF Spec

-----------------------------------------------------------------------------
(***************************************************************************)
(* A ladder of this module is an Escalation as one of Intervene is: what   *)
(* the two of them say of an intervention does not contradict itself.  The *)
(* commands are told apart by their number.                                *)
(***************************************************************************)
Cause ==
  IF lock = NoClient THEN "none" ELSE IF lock \in Clients THEN "departure" ELSE lock

Ladder == INSTANCE Escalation WITH
  Rungs      <- 1 .. MaxCommands,
  Causes     <- {"departure", "watch", "stop"},
  NoCause    <- "none",
  Departure  <- "departure",
  MayCommand <- TRUE,
  cause      <- Cause,
  alone      <- takenOver,
  sent       <- 1 .. commands,
  sends      <- commands

\* Watchdog and operator take the machine before they command it, a departure
\* does not, and the variables of a ladder are fresh while nobody climbs.
Orderly ==
  /\ phase = "idle" => takenOver = FALSE /\ commands = 0
  /\ phase \in {"mark", "close"} => lock \notin Clients
  /\ phase = "close" \/ (phase = "act" /\ lock \notin Clients) => takenOver
  /\ lock = "stop" => phase \in {"mark", "close", "act"}

\* Neither the connections nor the device have a hand in a ladder.
LEMMA OthersDoNotClimb ==
  ASSUME \/ \E c \in Clients : Arrive(c) \/ HangUp(c) \/ Hear(c) \/ Serve(c)
         \/ Opened \/ Lost \/ Serial \/ Cancel \/ Shut \/ UNCHANGED vars
  PROVE  UNCHANGED ladder
<1>1. CASE \E c \in Clients : Arrive(c) \/ HangUp(c) \/ Hear(c) \/ Serve(c)
  BY <1>1 DEF Arrive, HangUp, Hear, Serve, Attach, Forward, ReadEnds, Retire, OnClientGone
<1>2. CASE Opened \/ Lost \/ Serial \/ Cancel
  BY <1>2 DEF Opened, Lost, Serial, Publish, GiveUp, Reopen, Unparked, Cancel
<1>3. CASE Shut \/ UNCHANGED vars
  BY <1>3 DEF Shut, ShutListener, ShutPort, ShutClient, AcceptFails, Join, vars
<1>4. QED
  BY <1>1, <1>2, <1>3

\* The three ways in.
LEMMA BeginsAre ==
  ASSUME \/ \E c \in Clients : Queued(c)
         \/ WatchActs \/ StopActs
  PROVE  /\ lock = NoClient
         /\ \/ lock' \in Clients \cup {"watch"} /\ phase' = "look"
            \/ lock' = "stop" /\ phase' = "mark"
         /\ takenOver' = FALSE /\ victim' = NoClient /\ commands' = 0
BY DEF Queued, WatchActs, StopActs, Begin, Free

LEMMA StepIsOrderly == IInv /\ Orderly /\ [Next]_vars => Orderly'
<1> SUFFICES ASSUME IInv, Orderly, [Next]_vars
             PROVE  Orderly'
  OBVIOUS
<1>t. LadderTyped
  BY DEF IInv
<1>1. CASE UNCHANGED ladder
  BY <1>1 DEF ladder, Orderly
<1>2. CASE \/ \E c \in Clients : Queued(c)
           \/ WatchActs \/ StopActs
  BY <1>2, BeginsAre DEF Orderly
<1>3. CASE Return
  BY <1>3 DEF Return, Orderly
<1>4. CASE Look /\ ~Return
  BY <1>4, <1>t DEF Look, Orderly, LadderTyped, Commanders
<1>5. CASE Mark \/ Close
  BY <1>5 DEF Mark, Close, Orderly
<1>6. CASE (Act \/ Poll) /\ ~Return
  BY <1>6 DEF Act, Poll, Orderly
<1>7. QED
  BY <1>1, <1>2, <1>3, <1>4, <1>5, <1>6, OthersDoNotClimb DEF Next, Climb

LEMMA StepEscalates ==
  IInv /\ Orderly /\ [Next]_vars => [Ladder!Next]_<<Cause, takenOver, 1 .. commands, commands>>
<1> SUFFICES ASSUME IInv, Orderly, [Next]_vars
             PROVE  [Ladder!Next]_<<Cause, takenOver, 1 .. commands, commands>>
  OBVIOUS
<1>t. LadderTyped /\ Budget
  BY DEF IInv
<1>1. CASE UNCHANGED <<lock, takenOver, commands>>
  BY <1>1 DEF Cause
<1>2. CASE \/ \E c \in Clients : Queued(c)
           \/ WatchActs \/ StopActs
  <2>1. takenOver = FALSE /\ commands = 0 /\ UNCHANGED <<takenOver, commands>>
    BY <1>2, <1>t, BeginsAre DEF Orderly, LadderTyped
  <2>2. Cause = "none" /\ Cause' \in {"departure", "watch", "stop"}
    BY <1>2, BeginsAre DEF Cause
  <2>3. QED
    BY <2>1, <2>2 DEF Ladder!Next, Ladder!Begin
<1>3. CASE Return
  <2>1. Cause' = "none" /\ takenOver' = FALSE /\ commands' = 0 /\ (1 .. commands)' = {}
    BY <1>3 DEF Return, Cause
  <2>2. QED
    BY <2>1 DEF Ladder!Next, Ladder!End, Ladder!Nothing
<1>4. CASE (Look \/ Close \/ Poll) /\ ~Return
  BY <1>1, <1>4 DEF Look, Close, Poll
<1>5. CASE Mark
  <2>1. Cause \in {"watch", "stop"} /\ takenOver' = TRUE /\ UNCHANGED <<lock, commands>>
    BY <1>5, <1>t DEF Mark, Orderly, LadderTyped, Commanders, Cause
  <2>2. Cause' = Cause
    BY <2>1 DEF Cause
  <2>3. QED
    BY <2>1, <2>2 DEF Ladder!Next, Ladder!SendAway
<1>6. CASE Act /\ ~Return
  <2>1. /\ phase = "act" /\ lock # "stop" /\ commands' = commands + 1
        /\ UNCHANGED <<lock, takenOver>>
    BY <1>6 DEF Act
  <2>2. commands \in Nat /\ commands < MaxCommands
    BY <1>t, <2>1 DEF Budget, LadderTyped
  <2>3. /\ commands + 1 \in (1 .. MaxCommands) \ (1 .. commands)
        /\ 1 .. (commands + 1) = (1 .. commands) \cup {commands + 1}
    BY <2>2
  <2>4. Cause # "none" /\ (takenOver \/ Cause = "departure") /\ Cause' = Cause
    BY <1>t, <2>1 DEF Orderly, LadderTyped, Commanders, Cause
  <2>5. (1 .. commands)' = (1 .. commands) \cup {commands + 1}
    BY <2>1, <2>3
  <2>6. Ladder!Command
    BY <2>1, <2>3, <2>4, <2>5 DEF Ladder!Command
  <2>7. QED
    BY <2>6 DEF Ladder!Next
<1>7. QED
  BY <1>1, <1>2, <1>3, <1>4, <1>5, <1>6, OthersDoNotClimb DEF Next, Climb, ladder

LEMMA InitEscalates == Init => Ladder!Init /\ Orderly
BY DEF Init, Ladder!Init, Ladder!Nothing, Cause, Orderly

LEMMA OrderedInvariant == Spec => [](IInv /\ Orderly)
BY InitEscalates, StepIsOrderly, BridgeInvariant, PTL DEF Spec

\* Whatever connections, adapter and shutdown do beside it, a ladder begins when
\* no other one is under way, and the watchdog's and the operator's send the
\* sender away before the first command.
THEOREM BridgeEscalates == Spec => Ladder!Spec
BY OrderedInvariant, InitEscalates, StepEscalates, PTL DEF Spec, Ladder!Spec, Ladder!vars

-----------------------------------------------------------------------------
(***************************************************************************)
(* "Whoever takes the machine takes it completely": whom a take-over found *)
(* in charge is out before the command goes, and does not come back.       *)
(***************************************************************************)
Seized ==
  \A c \in dropped : conn[c] # "away" /\ (c \in open => phase = "close" /\ victim = c)

\* At the command of a watchdog or an operator the take-over is done, and the
\* socket of whoever they found in charge, now or earlier, is closed.
TakenCompletely ==
  phase = "act" /\ lock \notin Clients => takenOver /\ dropped \cap open = {}

\* Nobody arrives a second time.
LEMMA NobodyReturns ==
  ASSUME IInv, [Next]_vars, NEW c \in Clients, conn[c] # "away"
  PROVE  conn'[c] # "away" /\ (c \in open' => c \in open)
<1>t. conn \in [Clients -> ConnStates]
  BY DEF IInv, OwnerTyped
<1>1. CASE \E d \in Clients : Arrive(d) \/ HangUp(d) \/ Hear(d) \/ Queued(d)
  BY <1>1, <1>t DEF Arrive, HangUp, Hear, Queued
<1>2. CASE \E d \in Clients : Serve(d)
  BY <1>2, <1>t DEF Serve, Attach, Forward, ReadEnds, Retire, OnClientGone
<1>3. CASE WatchActs \/ StopActs \/ UNCHANGED vars
  BY <1>3 DEF WatchActs, StopActs, vars, owner
<1>4. CASE Climb
  BY <1>4, <1>t DEF Climb, Look, Mark, Close, Act, Poll, Return, owner
<1>5. CASE Opened \/ Lost \/ Serial \/ Cancel \/ Shut
  BY <1>5 DEF Opened, Lost, Serial, Publish, GiveUp, Reopen, Unparked, Cancel, Shut, ShutListener,
     ShutPort, ShutClient, AcceptFails, Join, DisconnectClient, owner
<1>6. QED
  BY <1>1, <1>2, <1>3, <1>4, <1>5 DEF Next

LEMMA StepSeizes == IInv /\ Seized /\ [Next]_vars => Seized'
<1> SUFFICES ASSUME IInv, Seized, [Next]_vars, NEW c \in dropped'
             PROVE  conn'[c] # "away" /\ (c \in open' => phase' = "close" /\ victim' = c)
  BY DEF Seized
<1>t. OwnerTyped /\ LadderTyped /\ OwnerIsServed
  BY DEF IInv
<1>1. CASE Mark
  <2>1. phase = "mark" /\ phase' = "close" /\ victim' = client /\ UNCHANGED <<conn, open>>
        /\ (c \in dropped \/ (c = client /\ client # NoClient))
    BY <1>1 DEF Mark
  <2>2. CASE c \in dropped
    BY <2>1, <2>2 DEF Seized
  <2>3. CASE c = client /\ client # NoClient
    BY <1>t, <2>1, <2>3 DEF OwnerIsServed, Served
  <2>4. QED
    BY <2>1, <2>2, <2>3
<1>2. CASE ~Mark
  <2>1. UNCHANGED dropped
    BY <1>2 DEF Next, Climb, Arrive, HangUp, Hear, Serve, Attach, Forward, ReadEnds, Retire,
       OnClientGone, Queued, WatchActs, StopActs, Look, Close, Act, Poll, Return, Opened, Lost,
       Serial, Publish, GiveUp, Reopen, Unparked, Cancel, Shut, ShutListener, ShutPort,
       ShutClient, AcceptFails, Join, vars, owner
  <2>2. c \in Clients /\ c \in dropped
    BY <1>t, <2>1 DEF OwnerTyped
  <2>3. conn'[c] # "away" /\ (c \in open' => c \in open)
    BY <2>2, NobodyReturns DEF Seized
  <2>4. CASE Close
    BY <2>2, <2>3, <2>4 DEF Close, Seized
  <2>5. CASE phase # "close"
    BY <2>2, <2>3, <2>5 DEF Seized
  <2>6. CASE ~Close /\ phase = "close"
    <3>1. lock # NoClient
      BY <1>t, <2>6 DEF LadderTyped
    <3>2. UNCHANGED ladder
      BY <1>2, <2>6, <3>1, OthersDoNotClimb, BeginsAre DEF Next, Climb, Look, Act, Poll
    <3>3. QED
      BY <2>2, <2>3, <3>2 DEF Seized, ladder
  <2>7. QED
    BY <2>4, <2>5, <2>6
<1>3. QED
  BY <1>1, <1>2

\* takeOverFromClient, "silence here was a hole, and it was found on a real
\* machine": no command of the watchdog or the operator goes out beside a sender
\* that its take-over has found, and none that an earlier one found is back.
THEOREM TakeoverIsComplete == Spec => []TakenCompletely
<1>1. Init => Seized
  BY DEF Init, Seized
<1>2. Seized /\ Orderly => TakenCompletely
  BY DEF Seized, Orderly, TakenCompletely
<1>3. QED
  BY <1>1, <1>2, StepSeizes, OrderedInvariant, PTL DEF Spec

-----------------------------------------------------------------------------
(***************************************************************************)
(* DepartureIsSettled needs fairness.  What it needs besides is that the   *)
(* lock comes free, and that nothing but the ladder keeps it.              *)
(***************************************************************************)
Place ==
  CASE phase = "poll"  -> 6
    [] phase = "look"  -> 5
    [] phase = "mark"  -> 4
    [] phase = "close" -> 3
    [] phase = "act"   -> 2
    [] OTHER           -> 0

\* The most steps to the unlock: five for each command to come, and the rest of
\* this turn.
StepsLeft == IF phase = "idle" THEN 0 ELSE 5 * (MaxCommands - commands) + Place

\* Each step of whoever holds the lock brings the unlock nearer, and nobody
\* else, a newcomer, the device or the shutdown, puts it off.
LockComesFree ==
  [][lock # NoClient => IF Climb THEN StepsLeft' < StepsLeft ELSE StepsLeft' = StepsLeft]_vars

\* A ladder has given the lock back after 5 * MaxCommands + 6 steps.
TurnsAreFew == StepsLeft \in 0 .. 5 * MaxCommands + 6

LEMMA SumsCompare ==
  ASSUME NEW a \in Nat, NEW p \in Nat, NEW q \in Nat, q < p
  PROVE  a + q < a + p
OBVIOUS

LEMMA ClimbComesDown ==
  ASSUME IInv, Climb
  PROVE  StepsLeft' < StepsLeft
<1>t. /\ commands \in 0 .. MaxCommands /\ commands \in Nat /\ MaxCommands \in Nat
      /\ phase \in {"look", "mark", "close", "act", "poll"}
  BY DEF IInv, LadderTyped, Climb, Look, Mark, Close, Act, Poll
<1>1. CASE Return
  <2>1. StepsLeft' = 0
    BY <1>1 DEF Return, StepsLeft
  <2>2. Place \in 2 .. 6
    BY <1>t DEF Place
  <2>3. QED
    BY <1>t, <2>1, <2>2 DEF StepsLeft
<1>2. CASE Act /\ ~Return
  <2>1. phase = "act" /\ phase' = "poll" /\ commands' = commands + 1
    BY <1>2 DEF Act
  <2>2. StepsLeft = 5 * (MaxCommands - commands) + 2
        /\ StepsLeft' = 5 * (MaxCommands - (commands + 1)) + 6
    BY <2>1 DEF StepsLeft, Place
  <2>3. QED
    BY <1>t, <2>2
<1>3. CASE (Look \/ Mark \/ Close \/ Poll) /\ ~Return
  <2>1. /\ commands' = commands /\ phase' # "idle"
        /\ \/ phase = "look" /\ phase' \in {"mark", "act"}
           \/ phase = "mark" /\ phase' = "close"
           \/ phase = "close" /\ phase' = "act"
           \/ phase = "poll" /\ phase' = "look"
    BY <1>3 DEF Look, Mark, Close, Poll
  <2>2. Place' \in Nat /\ Place \in Nat /\ Place' < Place
    BY <2>1 DEF Place
  <2>3. StepsLeft = 5 * (MaxCommands - commands) + Place
        /\ StepsLeft' = 5 * (MaxCommands - commands) + Place'
    BY <1>t, <2>1 DEF StepsLeft
  <2>4. 5 * (MaxCommands - commands) \in Nat
    BY <1>t
  <2>5. QED
    BY <2>2, <2>3, <2>4, SumsCompare
<1>4. QED
  BY <1>1, <1>2, <1>3 DEF Climb

LEMMA FewTurns == IInv => TurnsAreFew
<1> SUFFICES ASSUME IInv
             PROVE  TurnsAreFew
  OBVIOUS
<1>1. Place \in 0 .. 6 /\ commands \in 0 .. MaxCommands /\ MaxCommands \in Nat
  BY DEF IInv, LadderTyped, Place
<1>2. QED
  BY <1>1 DEF TurnsAreFew, StepsLeft

\* Nobody waits behind a ladder for more than the steps its commands leave it:
\* what remains of DepartureIsSettled is that those who can take a step do so.
THEOREM LockIsGivenBack == Spec => LockComesFree /\ []TurnsAreFew
<1>1. IInv /\ [Next]_vars
      => [lock # NoClient
            => IF Climb THEN StepsLeft' < StepsLeft ELSE StepsLeft' = StepsLeft]_vars
  <2> SUFFICES ASSUME IInv, Next, lock # NoClient
               PROVE  IF Climb THEN StepsLeft' < StepsLeft ELSE StepsLeft' = StepsLeft
    BY DEF vars, ladder
  <2>1. CASE Climb
    BY <2>1, ClimbComesDown
  <2>2. CASE ~Climb
    <3>1. UNCHANGED ladder
      BY <2>2, OthersDoNotClimb, BeginsAre DEF Next
    <3>2. QED
      BY <2>2, <3>1 DEF ladder, StepsLeft, Place
  <2>3. QED
    BY <2>1, <2>2
<1>2. QED
  BY <1>1, FewTurns, BridgeInvariant, PTL DEF Spec, LockComesFree

=============================================================================
