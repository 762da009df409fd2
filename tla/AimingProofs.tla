---------------------------- MODULE AimingProofs ----------------------------
(***************************************************************************)
(* The lease of the aiming beam, for any number of requests, sessions and  *)
(* slots.                                                                  *)
(***************************************************************************)
EXTENDS Aiming, TLAPS

USE NamesAssumption, SlotsAssumption, BoundAssumption
USE DEF NamesAssumption, SlotsAssumption, BoundAssumption

-----------------------------------------------------------------------------
(***************************************************************************)
(* The type invariant, in its parts.                                       *)
(***************************************************************************)
LeaseTyped ==
  lease \in [until : {"none", "live", "out"}, holder : Sessions \cup {NoSession}, lit : BOOLEAN]

BufferTyped == rx \in Seq({"M3", "G1", "M5", "typed"}) /\ Len(rx) <= Slots

TaskTyped == task \in [Tasks -> Task]

FlagsTyped ==
  /\ beam \in BOOLEAN /\ seen \in [now : BOOLEAN, then : BOOLEAN]
  /\ since \in BOOLEAN /\ port \in BOOLEAN /\ gone \in BOOLEAN
  /\ client \in {"none", "attached", "dropped"}

LEMMA TypeParts == TypeOK <=> LeaseTyped /\ BufferTyped /\ TaskTyped /\ FlagsTyped
BY DEF TypeOK, LeaseTyped, BufferTyped, TaskTyped, FlagsTyped

\* What a task starts with, and what it goes on with after its line.
LEMMA BeginsAreTasks ==
  /\ Quiet \in Task
  /\ \A at \in {"send", "stop", "judge"}, what \in {"light", "dark", "other", "none"} :
       Begin(at, what) \in Task
BY DEF Quiet, Begin, Task

LEMMA AfterIsTask == ASSUME TaskTyped, NEW p \in Tasks PROVE After(p) \in Task
<1>1. task[p] \in Task
  BY DEF TaskTyped
<1>2. [task[p] EXCEPT !.at = "judge", !.what = "none"] \in Task
  BY <1>1 DEF Task
<1>3. QED
  BY <1>2, BeginsAreTasks DEF After

LEMMA FailIsTyped == ASSUME TaskTyped, NEW p \in Tasks, Fail(p) PROVE TaskTyped'
<1>1. task[p] \in Task /\ [task[p] EXCEPT !.at = "giveup"] \in Task
  BY DEF TaskTyped, Task
<1>2. QED
  BY <1>1, AfterIsTask DEF Fail, TaskTyped

\* What is sent is lines, and how many there are.
LEMMA LinesAreLines ==
  ASSUME NEW what \in {"light", "dark", "other", "none"}
  PROVE  Lines(what) \in Seq({"M3", "G1", "M5", "typed"})
<1>1. /\ <<"M3", "G1">> \in Seq({"M3", "G1", "M5", "typed"})
      /\ <<"M5">> \in Seq({"M3", "G1", "M5", "typed"})
      /\ <<"typed">> \in Seq({"M3", "G1", "M5", "typed"})
      /\ <<>> \in Seq({"M3", "G1", "M5", "typed"})
  OBVIOUS
<1>2. QED
  BY <1>1 DEF Lines

LEMMA LightedIsTyped ==
  ASSUME LeaseTyped, NEW what, lease' = Lighted(what)
  PROVE  LeaseTyped'
BY DEF LeaseTyped, Lighted

LEMMA SendIsTyped ==
  ASSUME TypeOK, NEW p \in Tasks, Send(p)
  PROVE  TypeOK'
<1>1. LeaseTyped /\ BufferTyped /\ TaskTyped /\ FlagsTyped
  BY TypeParts
<1>2. task[p] \in Task /\ task[p].what \in {"light", "dark", "other", "none"}
  BY <1>1 DEF TaskTyped, Task
<1>3. FlagsTyped'
  BY <1>1 DEF Send, FlagsTyped, watchdog, sender
<1>4. CASE Fail(p) /\ UNCHANGED <<rx, lease>>
  <2>1. TaskTyped'
    BY <1>1, <1>4, FailIsTyped
  <2>2. LeaseTyped' /\ BufferTyped'
    BY <1>1, <1>4 DEF LeaseTyped, BufferTyped
  <2>3. QED
    BY <1>3, <2>1, <2>2, TypeParts DEF TypeOK, LeaseTyped, BufferTyped, TaskTyped, FlagsTyped
<1>5. CASE /\ Len(rx) + Len(Lines(task[p].what)) <= Slots
           /\ rx' = rx \o Lines(task[p].what)
           /\ task' = [task EXCEPT ![p] = After(p)]
           /\ lease' = Lighted(task[p].what)
  <2>1. LeaseTyped'
    BY <1>1, <1>5, LightedIsTyped
  <2>2. TaskTyped'
    BY <1>1, <1>5, AfterIsTask DEF TaskTyped
  <2>3. BufferTyped'
    <3>1. Lines(task[p].what) \in Seq({"M3", "G1", "M5", "typed"})
      BY <1>2, LinesAreLines
    <3>2. QED
      BY <1>1, <1>5, <3>1 DEF BufferTyped
  <2>4. QED
    BY <1>3, <2>1, <2>2, <2>3, TypeParts DEF TypeOK, LeaseTyped, BufferTyped, TaskTyped, FlagsTyped
<1>6. QED
  BY <1>4, <1>5 DEF Send

\* The buffer may be emptied, and the controller takes a line from it.
LEMMA BufferShrinks ==
  ASSUME BufferTyped, rx' = <<>> \/ rx' = rx \/ (rx # <<>> /\ rx' = Tail(rx))
  PROVE  BufferTyped'
<1>1. CASE rx' = <<>>
  BY <1>1 DEF BufferTyped
<1>2. CASE rx' = rx
  BY <1>2 DEF BufferTyped
<1>3. CASE rx # <<>> /\ rx' = Tail(rx)
  BY <1>3 DEF BufferTyped
<1>4. QED
  BY <1>1, <1>2, <1>3

\* A task that ends, or moves on to a place of another kind.
LEMMA TaskMoves ==
  ASSUME TaskTyped, NEW p \in Tasks,
         NEW at \in {"reset", "ladder"},
         \/ task' = [task EXCEPT ![p] = Quiet]
         \/ task' = [task EXCEPT ![p].at = at]
  PROVE  TaskTyped'
<1>1. task[p] \in Task /\ [task[p] EXCEPT !.at = at] \in Task
  BY DEF TaskTyped, Task
<1>2. QED
  BY <1>1, BeginsAreTasks DEF TaskTyped

LEMMA TaskBegins ==
  ASSUME TaskTyped, NEW p \in Tasks, NEW at \in {"send", "stop", "judge"},
         NEW what \in {"light", "dark", "other", "none"},
         task' = [task EXCEPT ![p] = Begin(at, what)]
  PROVE  TaskTyped'
BY BeginsAreTasks DEF TaskTyped

LEMMA NoLeaseIsLease == lease' = NoLease => LeaseTyped'
BY DEF LeaseTyped, NoLease

LEMMA RequestIsTyped ==
  ASSUME TypeOK, NEW r \in Requests, Request(r)
  PROVE  TypeOK'
<1> USE DEF machine, watchdog, sender
<1>1. LeaseTyped /\ BufferTyped /\ TaskTyped /\ FlagsTyped /\ r \in Tasks
  BY TypeParts DEF Tasks
<1>2. CASE \E s \in Sessions : Aim(r, s)
  <2>1. PICK s \in Sessions : Aim(r, s)
    BY <1>2
  <2>2. LeaseTyped'
    BY <2>1 DEF Aim, LeaseTyped
  <2>3. TaskTyped'
    BY <1>1, <2>1, TaskBegins DEF Aim
  <2>4. BufferTyped' /\ FlagsTyped'
    BY <1>1, <2>1 DEF Aim, BufferTyped, FlagsTyped
  <2>5. QED
    BY <2>2, <2>3, <2>4 DEF TypeOK, LeaseTyped, BufferTyped, TaskTyped, FlagsTyped
<1>3. CASE \E s \in Sessions : AimOff(r, s)
  <2>1. PICK s \in Sessions : AimOff(r, s)
    BY <1>3
  <2>2. LeaseTyped'
    BY <2>1, NoLeaseIsLease DEF AimOff
  <2>3. TaskTyped'
    BY <1>1, <2>1, TaskBegins DEF AimOff
  <2>4. BufferTyped' /\ FlagsTyped'
    BY <1>1, <2>1 DEF AimOff, BufferTyped, FlagsTyped
  <2>5. QED
    BY <2>2, <2>3, <2>4 DEF TypeOK, LeaseTyped, BufferTyped, TaskTyped, FlagsTyped
<1>4. CASE Queue(r) \/ Stop(r)
  <2>1. TaskTyped'
    BY <1>1, <1>4, TaskBegins DEF Queue, Stop
  <2>2. LeaseTyped' /\ BufferTyped' /\ FlagsTyped'
    BY <1>1, <1>4 DEF Queue, Stop, LeaseTyped, BufferTyped, FlagsTyped
  <2>3. QED
    BY <2>1, <2>2 DEF TypeOK, LeaseTyped, BufferTyped, TaskTyped, FlagsTyped
<1>5. CASE GiveUp(r)
  <2>1. LeaseTyped' /\ TaskTyped'
    BY <1>1, <1>5, NoLeaseIsLease, TaskMoves DEF GiveUp
  <2>2. BufferTyped' /\ FlagsTyped'
    BY <1>1, <1>5 DEF GiveUp, BufferTyped, FlagsTyped
  <2>3. QED
    BY <2>1, <2>2 DEF TypeOK, LeaseTyped, BufferTyped, TaskTyped, FlagsTyped
<1>6. CASE StopTakes(r)
  <2>1. LeaseTyped' /\ TaskTyped'
    BY <1>1, <1>6, NoLeaseIsLease, TaskMoves DEF StopTakes
  <2>2. BufferTyped' /\ FlagsTyped'
    BY <1>1, <1>6 DEF StopTakes, TakenOver, BufferTyped, FlagsTyped
  <2>3. QED
    BY <2>1, <2>2 DEF TypeOK, LeaseTyped, BufferTyped, TaskTyped, FlagsTyped
<1>7. CASE StopResets(r)
  <2>1. TaskTyped'
    BY <1>1, <1>7, TaskMoves DEF StopResets
  <2>2. BufferTyped'
    BY <1>1, <1>7, BufferShrinks DEF StopResets
  <2>3. LeaseTyped' /\ FlagsTyped'
    BY <1>1, <1>7 DEF StopResets, LeaseTyped, FlagsTyped
  <2>4. QED
    BY <2>1, <2>2, <2>3 DEF TypeOK, LeaseTyped, BufferTyped, TaskTyped, FlagsTyped
<1>8. QED
  BY <1>2, <1>3, <1>4, <1>5, <1>6, <1>7 DEF Request

LEMMA WatchIsTyped ==
  ASSUME TypeOK, Watch
  PROVE  TypeOK'
<1> USE DEF machine, watchdog, sender, desk
<1>1. LeaseTyped /\ BufferTyped /\ TaskTyped /\ FlagsTyped /\ "watch" \in Tasks
  BY TypeParts DEF Tasks
<1>2. CASE TickBlind
  BY <1>1, <1>2 DEF TickBlind, TypeOK, FlagsTyped
<1>3. CASE Tick
  <2>1. TaskTyped'
    BY <1>1, <1>3, TaskBegins DEF Tick
  <2>2. LeaseTyped'
    BY <1>1, <1>3 DEF Tick, LeaseTyped
  <2>3. BufferTyped' /\ FlagsTyped'
    BY <1>1, <1>3 DEF Tick, BufferTyped, FlagsTyped
  <2>4. QED
    BY <2>1, <2>2, <2>3 DEF TypeOK, LeaseTyped, BufferTyped, TaskTyped, FlagsTyped
<1>4. CASE Spare \/ Wait \/ Act
  <2>1. TaskTyped'
    BY <1>1, <1>4, TaskMoves DEF Spare, Wait, Act
  <2>2. LeaseTyped' /\ BufferTyped' /\ FlagsTyped'
    BY <1>1, <1>4 DEF Spare, Wait, Act, LeaseTyped, BufferTyped, FlagsTyped
  <2>3. QED
    BY <2>1, <2>2 DEF TypeOK, LeaseTyped, BufferTyped, TaskTyped, FlagsTyped
<1>5. CASE Ladder
  <2>1. TaskTyped'
    BY <1>1, <1>5, TaskMoves DEF Ladder
  <2>2. BufferTyped'
    BY <1>1, <1>5, BufferShrinks DEF Ladder
  <2>3. LeaseTyped' /\ FlagsTyped'
    BY <1>1, <1>5 DEF Ladder, TakenOver, LeaseTyped, FlagsTyped
  <2>4. QED
    BY <2>1, <2>2, <2>3 DEF TypeOK, LeaseTyped, BufferTyped, TaskTyped, FlagsTyped
<1>6. QED
  BY <1>2, <1>3, <1>4, <1>5 DEF Watch

LEMMA AroundIsTyped ==
  ASSUME TypeOK, Around \/ Lapse
  PROVE  TypeOK'
<1> USE DEF machine, watchdog, sender, desk
<1>1. LeaseTyped /\ BufferTyped /\ TaskTyped /\ FlagsTyped
  BY TypeParts
<1>2. CASE Execute
  <2>1. BufferTyped'
    BY <1>1, <1>2, BufferShrinks DEF Execute
  <2>2. beam' \in BOOLEAN
    <3>1. Head(rx) \in {"M3", "G1", "M5", "typed"}
      BY <1>1, <1>2 DEF Execute, BufferTyped
    <3>2. QED
      BY <1>1, <1>2, <3>1 DEF Execute, FlagsTyped
  <2>3. QED
    BY <1>1, <1>2, <2>1, <2>2 DEF Execute, TypeOK, BufferTyped, FlagsTyped
<1>3. CASE PortLost
  <2>1. \A p \in Tasks : [task[p] EXCEPT !.open = FALSE] \in Task
    BY <1>1 DEF TaskTyped, Task
  <2>2. TaskTyped'
    BY <1>3, <2>1 DEF PortLost, TaskTyped
  <2>3. LeaseTyped' /\ BufferTyped' /\ FlagsTyped'
    BY <1>1, <1>3 DEF PortLost, LeaseTyped, BufferTyped, FlagsTyped
  <2>4. QED
    BY <2>2, <2>3 DEF TypeOK, LeaseTyped, BufferTyped, TaskTyped, FlagsTyped
<1>4. CASE Hear \/ PortOpened \/ Attach \/ ClientSends \/ Leave \/ OnClientGone
  <2>1. BufferTyped'
    <3>1. rx' = <<>> \/ rx' = rx
      BY <1>4 DEF Hear, PortOpened, Attach, ClientSends, Leave, OnClientGone
    <3>2. QED
      BY <1>1, <3>1, BufferShrinks
  <2>2. FlagsTyped'
    <3>1. CASE Hear \/ PortOpened \/ Attach
      BY <1>1, <3>1 DEF Hear, PortOpened, Attach, FlagsTyped
    <3>2. CASE ClientSends \/ Leave \/ OnClientGone
      BY <1>1, <3>2 DEF ClientSends, Leave, OnClientGone, FlagsTyped
    <3>3. QED
      BY <1>4, <3>1, <3>2
  <2>3. LeaseTyped' /\ TaskTyped'
    BY <1>1, <1>4 DEF Hear, PortOpened, Attach, ClientSends, Leave, OnClientGone,
                      LeaseTyped, TaskTyped
  <2>4. QED
    BY <2>1, <2>2, <2>3 DEF TypeOK, LeaseTyped, BufferTyped, TaskTyped, FlagsTyped
<1>5. CASE Lapse
  BY <1>1, <1>5 DEF Lapse, TypeOK, LeaseTyped
<1>6. QED
  BY <1>2, <1>3, <1>4, <1>5 DEF Around

LEMMA InitIsTyped == Init => TypeOK
<1>1. SUFFICES ASSUME Init PROVE TypeOK
  OBVIOUS
<1>2. LeaseTyped /\ FlagsTyped /\ BufferTyped
  <2>1. LeaseTyped
    BY <1>1 DEF Init, NoLease, LeaseTyped
  <2>2. FlagsTyped
    BY <1>1 DEF Init, FlagsTyped
  <2>3. BufferTyped
    <3>1. <<>> \in Seq({"M3", "G1", "M5", "typed"}) /\ Len(<<>>) = 0
      OBVIOUS
    <3>2. QED
      BY <1>1, <3>1 DEF Init, BufferTyped
  <2>4. QED
    BY <2>1, <2>2, <2>3
<1>3. TaskTyped
  BY <1>1, BeginsAreTasks DEF Init, TaskTyped
<1>4. QED
  BY <1>2, <1>3, TypeParts

\* The lines in the controller's buffer are never more than the slots, nor is
\* any task anywhere but where the code has a step, whoever asks for what.
THEOREM Typed == Spec => []TypeOK
<1>1. Init => TypeOK
  BY InitIsTyped
<1>2. TypeOK /\ [Next]_vars => TypeOK'
  <2>1. ASSUME TypeOK, Next PROVE TypeOK'
    <3>1. CASE Lapse \/ Around
      BY <2>1, <3>1, AroundIsTyped
    <3>2. CASE Watch
      BY <2>1, <3>2, WatchIsTyped
    <3>3. ASSUME NEW r \in Requests, Request(r) PROVE TypeOK'
      BY <2>1, <3>3, RequestIsTyped
    <3>4. ASSUME NEW p \in Tasks, Send(p) PROVE TypeOK'
      BY <2>1, <3>4, SendIsTyped
    <3>5. QED
      BY <2>1, <3>1, <3>2, <3>3, <3>4 DEF Next
  <2>2. ASSUME TypeOK, UNCHANGED vars PROVE TypeOK'
    BY <2>2 DEF TypeOK, vars, desk, machine, watchdog, sender
  <2>3. QED
    BY <2>1, <2>2
<1>3. QED
  BY <1>1, <1>2, PTL DEF Spec

-----------------------------------------------------------------------------
(***************************************************************************)
(* No M5 for a beam that was never lit.                                    *)
(***************************************************************************)

\* A request that has taken a lease carries its two lines or is about to give
\* the lease up; nothing else is ever on its way with them.
AimsAreUnderWay ==
  \A p \in Tasks : task[p].what = "light" =>
    p \in Requests /\ task[p].at \in {"send", "giveup"}

\* While there is a lease, its beam has been lit or a request is still at it;
\* when the lease runs out, nobody is at it any more.
LeaseIsAnsweredFor ==
  /\ lease.until # "none" =>
       lease.lit \/ \E r \in Requests : task[r].what = "light"
  /\ lease.until = "out" => lease.lit

LInv == TypeOK /\ AimsAreUnderWay /\ LeaseIsAnsweredFor

\* A step in which no request lets go of its two lines, and in which the lease
\* stays what it is or is given up.
LEMMA LeaseKept ==
  ASSUME LInv, TypeOK',
         lease' = lease \/ lease'.until = "none",
         \A p \in Tasks : /\ task[p].what = "light" <=> task'[p].what = "light"
                          /\ task'[p].what = "light" => task'[p].at \in {"send", "giveup"}
  PROVE  LInv'
<1>1. AimsAreUnderWay'
  BY DEF LInv, AimsAreUnderWay
<1>2. LeaseIsAnsweredFor'
  BY DEF LInv, LeaseIsAnsweredFor, Tasks
<1>3. QED
  BY <1>1, <1>2 DEF LInv

LEMMA SendAnswers ==
  ASSUME LInv, TypeOK', NEW p \in Tasks, Send(p)
  PROVE  LInv'
<1>1. task \in [Tasks -> Task] /\ task[p].at = "send"
  BY DEF LInv, TypeOK, Send
<1>2. Quiet.what = "none" /\ After(p).what = "none"
  BY <1>1 DEF After, Quiet, Task
<1>3. CASE task[p].what # "light"
  <2>1. task' = [task EXCEPT ![p] = After(p)]
    BY <1>3 DEF Send, Fail
  <2>2. lease' = lease
    BY <1>3 DEF Send, Lighted, LInv, TypeOK
  <2>3. QED
    BY <1>1, <1>2, <1>3, <2>1, <2>2, LeaseKept DEF LInv, AimsAreUnderWay
<1>4. CASE task[p].what = "light" /\ Fail(p) /\ UNCHANGED <<rx, lease>>
  <2>1. task' = [task EXCEPT ![p] = [@ EXCEPT !.at = "giveup"]]
    BY <1>4 DEF Fail
  <2>2. task'[p].what = "light" /\ task'[p].at = "giveup"
    BY <1>1, <1>4, <2>1 DEF Task
  <2>3. \A q \in Tasks \ {p} : task'[q] = task[q]
    BY <1>1, <2>1
  <2>4. QED
    BY <1>4, <2>2, <2>3, LeaseKept DEF LInv, AimsAreUnderWay
<1>5. CASE /\ task[p].what = "light"
           /\ task' = [task EXCEPT ![p] = After(p)]
           /\ lease' = Lighted(task[p].what)
  <2>1. /\ lease'.until = lease.until
        /\ lease'.lit <=> (lease.lit \/ lease.until # "none")
    BY <1>5 DEF Lighted, LInv, TypeOK
  <2>2. LeaseIsAnsweredFor'
    BY <2>1 DEF LeaseIsAnsweredFor
  <2>3. AimsAreUnderWay'
    BY <1>1, <1>2, <1>5 DEF LInv, AimsAreUnderWay
  <2>4. QED
    BY <2>2, <2>3 DEF LInv
<1>6. QED
  BY <1>3, <1>4, <1>5 DEF Send

LEMMA RequestAnswers ==
  ASSUME LInv, TypeOK', NEW r \in Requests, Request(r)
  PROVE  LInv'
<1>1. task \in [Tasks -> Task] /\ r \in Tasks /\ Quiet.what = "none"
  BY DEF LInv, TypeOK, Tasks, Quiet
<1>2. CASE \E s \in Sessions : Aim(r, s)
  <2>1. PICK s \in Sessions : Aim(r, s)
    BY <1>2
  <2>2. task'[r].what = "light" /\ task'[r].at = "send"
    BY <1>1, <2>1 DEF Aim, Begin
  <2>3. \A q \in Tasks \ {r} : task'[q] = task[q]
    BY <1>1, <2>1 DEF Aim
  <2>4. lease'.until = "live"
    BY <2>1 DEF Aim
  <2>5. AimsAreUnderWay'
    BY <2>2, <2>3 DEF LInv, AimsAreUnderWay
  <2>6. LeaseIsAnsweredFor'
    BY <2>2, <2>4 DEF LeaseIsAnsweredFor
  <2>7. QED
    BY <2>5, <2>6 DEF LInv
<1>3. CASE Queue(r) \/ Stop(r) \/ \E s \in Sessions : AimOff(r, s)
  <2>1. lease' = lease \/ lease'.until = "none"
    BY <1>3 DEF Queue, Stop, AimOff, NoLease
  <2>2. task[r].what = "none" /\ task'[r].what # "light"
    BY <1>1, <1>3 DEF Queue, Stop, AimOff, Asked, Begin, Quiet
  <2>3. \A q \in Tasks \ {r} : task'[q] = task[q]
    BY <1>1, <1>3 DEF Queue, Stop, AimOff
  <2>4. QED
    BY <2>1, <2>2, <2>3, LeaseKept DEF LInv, AimsAreUnderWay
<1>4. CASE GiveUp(r)
  <2>1. lease'.until = "none" /\ task'[r].what = "none"
    BY <1>1, <1>4 DEF GiveUp, NoLease
  <2>2. \A q \in Tasks \ {r} : task'[q] = task[q]
    BY <1>1, <1>4 DEF GiveUp
  <2>3. QED
    BY <2>1, <2>2 DEF LInv, AimsAreUnderWay, LeaseIsAnsweredFor
<1>5. CASE StopTakes(r) \/ StopResets(r)
  <2>1. lease' = lease \/ lease'.until = "none"
    BY <1>5 DEF StopTakes, StopResets, NoLease
  <2>2. task[r].what # "light"
    BY <1>1, <1>5 DEF StopTakes, StopResets, LInv, AimsAreUnderWay
  <2>3. task'[r].what # "light"
    BY <1>1, <1>5, <2>2 DEF StopTakes, StopResets, Task
  <2>4. \A q \in Tasks \ {r} : task'[q] = task[q]
    BY <1>1, <1>5 DEF StopTakes, StopResets
  <2>5. QED
    BY <2>1, <2>2, <2>3, <2>4, LeaseKept DEF LInv, AimsAreUnderWay
<1>6. QED
  BY <1>2, <1>3, <1>4, <1>5 DEF Request

LEMMA WatchAnswers ==
  ASSUME LInv, TypeOK', Watch
  PROVE  LInv'
<1>1. /\ task \in [Tasks -> Task] /\ "watch" \in Tasks /\ Quiet.what = "none"
      /\ task["watch"].what # "light"
  BY DEF LInv, TypeOK, Tasks, Quiet, AimsAreUnderWay
<1>2. lease' = lease \/ lease'.until = "none"
  BY DEF Watch, TickBlind, Tick, Spare, Wait, Act, Ladder, desk, LInv, TypeOK
<1>3. task'["watch"].what # "light"
  <2>1. CASE TickBlind \/ Tick
    BY <1>1, <2>1 DEF TickBlind, Tick, desk, Begin
  <2>2. CASE Spare \/ Wait \/ Act \/ Ladder
    BY <1>1, <2>2 DEF Spare, Wait, Act, Ladder, Task
  <2>3. QED
    BY <2>1, <2>2 DEF Watch
<1>4. \A q \in Tasks \ {"watch"} : task'[q] = task[q]
  BY <1>1 DEF Watch, TickBlind, Tick, Spare, Wait, Act, Ladder, desk
<1>5. QED
  BY <1>1, <1>2, <1>3, <1>4, LeaseKept DEF LInv, AimsAreUnderWay

LEMMA AroundAnswers ==
  ASSUME LInv, TypeOK', Around
  PROVE  LInv'
<1>1. lease' = lease
  BY DEF Around, Execute, Hear, PortLost, PortOpened, Attach, ClientSends, Leave,
         OnClientGone, desk
<1>2. \A p \in Tasks : task'[p].what = task[p].what /\ task'[p].at = task[p].at
  <2>1. task \in [Tasks -> Task]
    BY DEF LInv, TypeOK
  <2>2. CASE PortLost
    BY <2>1, <2>2 DEF PortLost, Task
  <2>3. CASE task' = task
    BY <2>3
  <2>4. QED
    BY <2>2, <2>3 DEF Around, Execute, Hear, PortOpened, Attach, ClientSends, Leave,
                      OnClientGone, desk
<1>3. QED
  BY <1>1, <1>2, LeaseKept DEF LInv, AimsAreUnderWay

\* The lease runs out only when its request is through.
LEMMA LapseAnswers ==
  ASSUME LInv, TypeOK', LeaseIsLong, Lapse
  PROVE  LInv'
<1>1. lease.lit /\ lease'.lit = lease.lit /\ task' = task
  BY DEF LInv, TypeOK, LeaseIsAnsweredFor, Lapse
<1>2. QED
  BY <1>1 DEF LInv, LeaseIsAnsweredFor, AimsAreUnderWay

\* The lonely M5 "for a beam that was never lit" (Do) is not sent by any mix of
\* requests, failures, stops and ticks, as long as a request does not outlast
\* its lease.
THEOREM NoM5IsLonely == ASSUME LeaseIsLong PROVE Spec => NoLonelyM5
<1>1. Init => LInv
  BY InitIsTyped DEF Init, LInv, AimsAreUnderWay, LeaseIsAnsweredFor, NoLease, Quiet
<1>2. LInv /\ TypeOK' /\ [Next]_vars => LInv'
  <2>1. SUFFICES ASSUME LInv, TypeOK', [Next]_vars PROVE LInv'
    OBVIOUS
  <2>2. CASE Lapse
    BY <2>1, <2>2, LapseAnswers
  <2>3. CASE Watch
    BY <2>1, <2>3, WatchAnswers
  <2>4. CASE Around
    BY <2>1, <2>4, AroundAnswers
  <2>5. ASSUME NEW r \in Requests, Request(r) PROVE LInv'
    BY <2>1, <2>5, RequestAnswers
  <2>6. ASSUME NEW p \in Tasks, Send(p) PROVE LInv'
    BY <2>1, <2>6, SendAnswers
  <2>7. CASE UNCHANGED vars
    BY <2>1, <2>7 DEF vars, desk, LInv, AimsAreUnderWay, LeaseIsAnsweredFor
  <2>8. QED
    BY <2>1, <2>2, <2>3, <2>4, <2>5, <2>6, <2>7 DEF Next
<1>3. LInv /\ [Next]_vars => (Ticking("quiet") /\ Ticking("send")' => lease.lit)
  <2>1. SUFFICES ASSUME LInv, [Next]_vars, Ticking("quiet"), Ticking("send")'
                 PROVE  lease.lit
    OBVIOUS
  <2>2. task \in [Tasks -> Task] /\ "watch" \in Tasks /\ "watch" \notin Requests
    BY <2>1 DEF LInv, TypeOK, Tasks
  <2>3. CASE Tick
    BY <2>1, <2>2, <2>3 DEF Tick, Ticking, Begin, LInv, LeaseIsAnsweredFor
  <2>4. CASE task'["watch"].at = task["watch"].at
    BY <2>1, <2>4 DEF Ticking
  <2>5. CASE task["watch"].at # "quiet" \/ task'["watch"].at # "send"
    BY <2>1, <2>5 DEF Ticking
  <2>6. Next => Tick \/ task'["watch"].at = task["watch"].at \/ task["watch"].at # "quiet"
    <3>1. CASE Lapse \/ TickBlind
      BY <3>1 DEF Lapse, TickBlind, desk
    <3>2. CASE Spare \/ Wait \/ Act \/ Ladder
      BY <3>2 DEF Spare, Wait, Act, Ladder, Ticking
    <3>3. CASE Around
      <4>1. CASE PortLost
        BY <2>2, <4>1 DEF PortLost, Task
      <4>2. CASE task' = task
        BY <4>2
      <4>3. QED
        BY <3>3, <4>1, <4>2 DEF Around, Execute, Hear, PortOpened, Attach, ClientSends,
                                Leave, OnClientGone, desk
    <3>4. ASSUME NEW r \in Requests, Request(r) PROVE task'["watch"] = task["watch"]
      BY <2>2, <3>4 DEF Request, Aim, AimOff, Queue, GiveUp, Stop, StopTakes, StopResets
    <3>5. ASSUME NEW p \in Tasks, Send(p)
          PROVE  task'["watch"] = task["watch"] \/ task["watch"].at # "quiet"
      BY <2>2, <3>5 DEF Send, Fail
    <3>6. QED
      BY <3>1, <3>2, <3>3, <3>4, <3>5 DEF Next, Watch
  <2>7. QED
    BY <2>1, <2>3, <2>4, <2>5, <2>6 DEF vars, desk
<1>4. QED
  BY <1>1, <1>2, <1>3, Typed, PTL DEF Spec, NoLonelyM5

=============================================================================
