--------------------------- MODULE HandoverProofs ---------------------------
(***************************************************************************)
(* What holds of the configuration's change of hands for any number of     *)
(* callers, settings and faults: the types and the lock, that nobody's     *)
(* save is overwritten unseen, that the processes agree with the file, and *)
(* that an error leaves things as they were.                               *)
(***************************************************************************)
EXTENDS Handover, TLAPS

\* Past the checks of its handler, and so with the lock.
Busy(p) == req[p].step \notin {"idle", "asked", "failed"}

\* A request is about one section, and a handler works with configurations that
\* can be used.
Sound(r) ==
  /\ IF r.section = "grbl" THEN r.value \in Settings ELSE r.value \in Wifis
  /\ r.step \in {"password", "key"} => r.section = "setup"
  /\ r.step \notin {"idle", "asked", "failed"} =>
       /\ r.prev \in Config /\ r.prev.usable
       /\ r.next \in Config /\ r.next.usable
RequestInv == \A p \in Pages : Sound(req[p])

TypeInv == TypeOK /\ RequestInv

-----------------------------------------------------------------------------
(***************************************************************************)
(* Facts about the operators.                                              *)
(***************************************************************************)

\* A fault leaves the counter within its bound.
LEMMA HitCounts ==
  ASSUME TypeOK, NEW kind, Hit(kind)
  PROVE  hits' \in 0 .. MaxHits
BY BoundAssumption DEF TypeOK, Hit

\* Whatever rc-service does leaves a process.
LEMMA RcTyped ==
  ASSUME TypeOK, NEW s \in Services, NEW action \in {"start", "stop", "restart"},
         RcService(s, action)
  PROVE  /\ proc' \in [Services -> Process]
         /\ hits' \in 0 .. MaxHits
         /\ marred' \in BOOLEAN /\ slipped' \in BOOLEAN
<1>1. Run(s) \in Process
  BY DEF TypeOK, Run, Process, Config
<1>2. Off \in Process
  BY DEF Off, Process
<1>3. Rc(s, action) \in Process
  BY <1>1, <1>2 DEF Rc, Start, TypeOK
<1>4. Botched(s, action) \subseteq Process
  BY <1>2 DEF Botched, TypeOK
<1>5. marred' \in BOOLEAN /\ slipped' \in BOOLEAN
  BY DEF RcService, TypeOK, Provisional
<1>6. hits' \in 0 .. MaxHits
  BY HitCounts DEF RcService, NoHit, TypeOK
<1>7. proc' \in [Services -> Process]
  BY <1>3, <1>4 DEF RcService, TypeOK
<1>. QED BY <1>5, <1>6, <1>7

\* An answer with an error leaves no request and an open lock.
LEMMA FailTyped ==
  ASSUME TypeInv, NEW p \in Pages, Fail(p), mu \in {p, None}
  PROVE  /\ req' \in [Pages -> Request] /\ mu' \in Pages \cup {None}
         /\ \A q \in Pages : mu' = q <=> Busy(q)'
         /\ RequestInv'
<1>1. [NoRequest EXCEPT !.step = "failed"] \in Request
  BY SettingsAssumption DEF NoRequest, NoChoice, Request, Steps
<1>2. Sound([NoRequest EXCEPT !.step = "failed"])
  BY SettingsAssumption DEF NoRequest, Sound
<1>3. req' \in [Pages -> Request]
  BY <1>1 DEF Fail, TypeInv, TypeOK
<1>4. \A q \in Pages : mu' = q <=> Busy(q)'
  BY NamesAssumption DEF Fail, TypeInv, TypeOK, Busy, NoRequest
<1>5. RequestInv'
  BY <1>2 DEF Fail, TypeInv, TypeOK, RequestInv
<1>. QED BY <1>3, <1>4, <1>5 DEF Fail

\* A handler changes its section and nothing else.
LEMMA AmendedIsSound ==
  ASSUME NEW c \in Config, NEW r \in Request, Sound(r)
  PROVE  /\ Amended(c, r) \in Config /\ Amended(c, r).usable = c.usable
         /\ r.section # "grbl" => Amended(c, r).grbl = c.grbl
         /\ r.section # "setup" => Amended(c, r).ready = c.ready
         /\ r.section = "grbl" => Amended(c, r).wifi = c.wifi
<1>1. CASE r.section = "setup"
  BY <1>1 DEF Amended, Config, Sound
<1>2. CASE r.section = "grbl"
  BY <1>2 DEF Amended, Config, Sound
<1>3. CASE r.section = "wifi"
  BY <1>3 DEF Amended, Config, Sound
<1>. QED BY <1>1, <1>2, <1>3 DEF Request

LEMMA RestoredIsTyped ==
  ASSUME TypeOK, NEW p \in Pages
  PROVE  RestoredKeys(p) \in [password : {"shipped", "chosen"}, keys : Keys \cup {None}]
BY DEF RestoredKeys, TypeOK, Request

-----------------------------------------------------------------------------
(***************************************************************************)
(* The types, in two parts: what the server's handlers keep in memory, and *)
(* everything else.                                                        *)
(***************************************************************************)
WorldTyped ==
  /\ stored \in Config
  /\ files \in [ser2net : Settings, ready : BOOLEAN, wifi : Wifis]
  /\ logins \in [password : {"shipped", "chosen"}, keys : Keys \cup {None}]
  /\ proc \in [Services -> Process]
  /\ watch \in [at : {"idle", "ask", "restart", "status", "start"},
                missed : 0 .. Failures, cool : BOOLEAN]
  /\ requests \in 0 .. MaxRequests /\ hits \in 0 .. MaxHits
  /\ marred \in BOOLEAN /\ slipped \in BOOLEAN

ServerTyped ==
  /\ mu \in Pages \cup {None}
  /\ held \in [Pages -> Config \cup {None}]
  /\ req \in [Pages -> Request]
  /\ \A p \in Pages : mu = p <=> Busy(p)
  /\ RequestInv

LEMMA TypeParts == TypeInv <=> WorldTyped /\ ServerTyped
BY DEF TypeInv, TypeOK, WorldTyped, ServerTyped, Busy

LEMMA InitTyped == Init => TypeInv
<1> SUFFICES ASSUME Init
             PROVE  TypeInv
  OBVIOUS
<1>1. stored \in Config /\ files \in [ser2net : Settings, ready : BOOLEAN, wifi : Wifis]
  BY DEF Init, Config, FilesOf
<1>2. /\ proc \in [Services -> Process]
      /\ logins \in [password : {"shipped", "chosen"}, keys : Keys \cup {None}]
  BY <1>1 DEF Init, Up, Off, Process, Config
<1>3. WorldTyped
  <2>1. Watching \in [at : {"idle", "ask", "restart", "status", "start"},
                     missed : 0 .. Failures, cool : BOOLEAN]
    BY FailuresAssumption DEF Watching
  <2>2. 0 \in 0 .. MaxRequests /\ 0 \in 0 .. MaxHits
    BY BoundAssumption
  <2>. QED BY <1>1, <1>2, <2>1, <2>2 DEF Init, WorldTyped
<1>4. NoRequest \in Request /\ Sound(NoRequest)
  BY SettingsAssumption DEF NoRequest, NoChoice, Request, Steps, Sound
<1>5. ServerTyped
  BY <1>4, NamesAssumption DEF Init, ServerTyped, RequestInv, Busy, NoRequest
<1>. QED BY <1>3, <1>5, TypeParts

\* The handlers keep the server's part.
LEMMA HandlerKeepsServer ==
  ASSUME TypeInv, NEW p \in Pages, Handler(p)
  PROVE  ServerTyped'
<1>0. TypeOK /\ RequestInv /\ WorldTyped /\ ServerTyped
  BY TypeParts DEF TypeInv
<1>. USE NamesAssumption
<1>1. CASE Refuse(p)
  BY <1>0, <1>1, FailTyped DEF Refuse, ServerTyped
<1>2. CASE Accept(p)
  <2>1. stored \in Config /\ stored.usable /\ req[p] \in Request /\ Sound(req[p])
    BY <1>0, <1>2 DEF Accept, WorldTyped, ServerTyped, RequestInv
  <2>2. Amended(stored, req[p]) \in Config /\ Amended(stored, req[p]).usable
    BY <2>1, AmendedIsSound
  <2>. DEFINE r == Checked(req[p])
  <2>3. r \in Request
    <3>1. /\ {"password", "checked"} \subseteq Steps
          /\ logins.keys \in Keys \cup {None}
      BY <1>0 DEF WorldTyped, Steps
    <3>2. \A step \in Steps : [req[p] EXCEPT !.step = step, !.prev = stored,
               !.next = Amended(stored, req[p]), !.found = logins.keys] \in Request
      BY <2>1, <2>2, <3>1 DEF Request
    <3>. QED BY <3>1, <3>2 DEF Checked
  <2>4. Sound(r) /\ r.step \in {"password", "checked"}
    BY <2>1, <2>2 DEF Checked, Sound, Request
  <2>5. req' = [req EXCEPT ![p] = r] /\ mu' = p /\ mu = None /\ held' = held
    BY <1>2 DEF Accept
  <2>. HIDE DEF r
  <2>. QED BY <1>0, <2>3, <2>4, <2>5 DEF ServerTyped, RequestInv, Busy
<1>3. CASE SaveNext(p)
  BY <1>0, <1>3, FailTyped DEF SaveNext, Goes, ServerTyped, RequestInv, Sound, Busy, Request, Steps
<1>9. CASE SetPassword(p)
  BY <1>0, <1>9, FailTyped
     DEF SetPassword, Goes, ServerTyped, RequestInv, Sound, Busy, Request, Steps
<1>10. CASE InstallKey(p)
  <2>1. logins.keys \in Keys \cup {None} /\ req[p].step = "key" /\ mu = p
    BY <1>0, <1>10 DEF InstallKey, WorldTyped, ServerTyped, Busy
  <2>2. CASE Fail(p)
    BY <1>10, <2>1, <2>2, FailTyped, <1>0 DEF InstallKey, ServerTyped, Busy
  <2>3. CASE ~Fail(p)
    <3>. DEFINE r == [req[p] EXCEPT !.step = "checked", !.was = logins.keys]
    <3>1. req' = [req EXCEPT ![p] = r] /\ UNCHANGED <<mu, held>>
      BY <1>10, <2>3 DEF InstallKey
    <3>2. r \in Request /\ r.step = "checked"
      <4>1. req[p] \in Request /\ "checked" \in Steps
        BY <1>0 DEF ServerTyped, Steps
      <4>. QED BY <2>1, <4>1 DEF Request
    <3>3. Sound(r)
      BY <1>0, <2>1 DEF ServerTyped, RequestInv, Sound, Request
    <3>. HIDE DEF r
    <3>. QED BY <1>0, <2>1, <3>1, <3>2, <3>3 DEF ServerTyped, RequestInv, Busy
  <2>. QED BY <2>2, <2>3
<1>4. CASE ApplyNext(p)
  BY <1>0, <1>4
     DEF ApplyNext, Goes, changedServices, ServerTyped, RequestInv, Sound, Busy, Request, Steps
<1>5. CASE Undo(p)
  BY <1>0, <1>5 DEF Undo, Goes, ServerTyped, RequestInv, Sound, Busy, Request, Steps
<1>6. CASE Reapply(p)
  BY <1>0, <1>6, FailTyped DEF Reapply, ServerTyped, Busy
<1>7. CASE Tell(p)
  <2>. DEFINE r == [req[p] EXCEPT !.todo = Tail(req[p].todo)]
  <2>1. req[p] \in Request /\ Sound(req[p]) /\ mu = p /\ req[p].step = "tell"
    BY <1>0, <1>7 DEF Tell, ServerTyped, RequestInv, Busy
  <2>2. Tail(req[p].todo) \in {<<>>, <<"laserbridged">>, <<"ser2net", "laserbridged">>}
    <3>1. req[p].todo \in {<<"laserbridged">>, <<"ser2net", "laserbridged">>}
      BY <1>7, <2>1 DEF Tell, Request
    <3>2. Tail(<<"laserbridged">>) = <<>>
      OBVIOUS
    <3>3. Tail(<<"ser2net", "laserbridged">>) = <<"laserbridged">>
      OBVIOUS
    <3>. QED BY <3>1, <3>2, <3>3
  <2>3. r \in Request /\ r.step = "tell"
    BY <2>1, <2>2 DEF Request
  <2>4. Sound(r)
    BY <2>1 DEF Sound, Request
  <2>5. req' = [req EXCEPT ![p] = r] /\ UNCHANGED <<mu, held>>
    BY <1>7 DEF Tell
  <2>. HIDE DEF r
  <2>. QED BY <1>0, <2>1, <2>3, <2>4, <2>5 DEF ServerTyped, RequestInv, Busy
<1>8. CASE Finish(p)
  BY <1>0, <1>8, SettingsAssumption
     DEF Finish, NoRequest, ServerTyped, RequestInv, Sound, Busy, Request, Steps
<1>. QED BY <1>1, <1>2, <1>3, <1>4, <1>5, <1>6, <1>7, <1>8, <1>9, <1>10 DEF Handler

\* And the rest of what they touch.
LEMMA HandlerKeepsWorld ==
  ASSUME TypeInv, NEW p \in Pages, Handler(p)
  PROVE  WorldTyped'
<1>0. TypeOK /\ WorldTyped /\ ServerTyped
  BY TypeParts DEF TypeInv
<1>1. CASE Refuse(p)
  BY <1>0, <1>1 DEF Refuse, WorldTyped, disk, ghosts
<1>2. CASE Accept(p)
  BY <1>0, <1>2 DEF Accept, WorldTyped, disk
<1>3. CASE SaveNext(p)
  <2>1. req[p].next \in Config
    BY <1>0, <1>3 DEF SaveNext, ServerTyped, RequestInv, Sound
  <2>2. logins' \in [password : {"shipped", "chosen"}, keys : Keys \cup {None}]
    BY <1>0, <1>3, RestoredIsTyped DEF SaveNext, WorldTyped
  <2>3. hits' \in 0 .. MaxHits /\ marred' \in BOOLEAN /\ slipped' \in BOOLEAN
    BY <1>0, <1>3, HitCounts DEF SaveNext, WorldTyped, NoHit
  <2>. QED BY <1>0, <1>3, <2>1, <2>2, <2>3 DEF SaveNext, WorldTyped
<1>9. CASE SetPassword(p)
  BY <1>0, <1>9, HitCounts DEF SetPassword, WorldTyped, NoHit, ghosts
<1>10. CASE InstallKey(p)
  <2>1. req[p].choice.key \in Keys \cup {None}
    BY <1>0, ChoicesAssumption DEF ServerTyped, Request, NoChoice
  <2>. QED BY <1>0, <1>10, <2>1, HitCounts DEF InstallKey, WorldTyped, NoHit, ghosts
<1>4. CASE ApplyNext(p)
  <2>1. files' \in [ser2net : Settings, ready : BOOLEAN, wifi : Wifis]
    BY <1>0, <1>4 DEF ApplyNext, Apply, Partly, FilesOf, WorldTyped, Config
  <2>. QED BY <1>0, <1>4, <2>1, HitCounts DEF ApplyNext, WorldTyped, NoHit, ghosts
<1>5. CASE Undo(p)
  <2>1. req[p].prev \in Config
    BY <1>0, <1>5 DEF Undo, ServerTyped, RequestInv, Sound
  <2>. QED BY <1>0, <1>5, <2>1 DEF Undo, WorldTyped
<1>6. CASE Reapply(p)
  <2>1. files' \in [ser2net : Settings, ready : BOOLEAN, wifi : Wifis]
    BY <1>0, <1>6 DEF Reapply, Apply, Partly, FilesOf, WorldTyped, Config
  <2>2. logins' \in [password : {"shipped", "chosen"}, keys : Keys \cup {None}]
    BY <1>0, <1>6, RestoredIsTyped DEF Reapply, WorldTyped
  <2>. QED BY <1>0, <1>6, <2>1, <2>2 DEF Reapply, WorldTyped
<1>7. CASE Tell(p)
  <2>. DEFINE s == Head(req[p].todo)
  <2>1. s \in Services
    BY <1>0, <1>7 DEF Tell, ServerTyped, Request, Services
  <2>2. desiredAction(s, req[p].next) \in {"start", "stop", "restart"}
    BY DEF desiredAction
  <2>3. RcService(s, desiredAction(s, req[p].next))
    BY <1>7 DEF Tell
  <2>. HIDE DEF s
  <2>. QED BY <1>0, <1>7, <2>1, <2>2, <2>3, RcTyped DEF Tell, WorldTyped, disk
<1>8. CASE Finish(p)
  BY <1>0, <1>8 DEF Finish, WorldTyped, disk, ghosts
<1>. QED BY <1>1, <1>2, <1>3, <1>4, <1>5, <1>6, <1>7, <1>8, <1>9, <1>10 DEF Handler

\* What happens outside the handlers leaves the requests alone, but for a new
\* one, or ends all of them.
LEMMA OthersKeepServer ==
  ASSUME TypeInv,
         \/ UNCHANGED server
         \/ \E p \in Pages : GetConfig(p)
         \/ \E p \in Pages : \/ \E g \in Settings : Ask(p, "grbl", g, NoChoice)
                             \/ \E w \in Wifis : Ask(p, "wifi", w, NoChoice)
                             \/ \E w \in Wifis, c \in Choices : Ask(p, "setup", w, c)
         \/ Boot \/ WebDies
  PROVE  ServerTyped'
<1>0. WorldTyped /\ ServerTyped
  BY TypeParts
<1>. USE NamesAssumption
<1>1. CASE UNCHANGED server
  BY <1>0, <1>1 DEF server, ServerTyped, RequestInv, Busy
<1>2. ASSUME NEW p \in Pages, GetConfig(p)
      PROVE  ServerTyped'
  BY <1>0, <1>2 DEF GetConfig, ServerTyped, RequestInv, Busy, WorldTyped
<1>3. ASSUME NEW p \in Pages,
             NEW section \in {"grbl", "wifi", "setup"}, NEW value,
             NEW choice \in Choices \cup {NoChoice},
             section = "grbl" => value \in Settings, section # "grbl" => value \in Wifis,
             Ask(p, section, value, choice)
      PROVE  ServerTyped'
  <2>. DEFINE r == [NoRequest EXCEPT !.step = "asked", !.section = section, !.value = value,
                                !.choice = choice]
  <2>1. r \in Request /\ Sound(r) /\ r.step = "asked"
    BY <1>3 DEF NoRequest, NoChoice, Request, Steps, Sound
  <2>2. req' = [req EXCEPT ![p] = r] /\ Idle(p) /\ UNCHANGED <<mu, held>>
    BY <1>3 DEF Ask
  <2>. HIDE DEF r
  <2>. QED BY <1>0, <2>1, <2>2 DEF ServerTyped, RequestInv, Busy, Idle
<1>4. CASE Boot \/ WebDies
  <2>1. NoRequest \in Request /\ Sound(NoRequest) /\ NoRequest.step = "idle"
    BY SettingsAssumption DEF NoRequest, NoChoice, Request, Steps, Sound
  <2>2. req' = [p \in Pages |-> NoRequest] /\ mu' = None /\ held' = held
    BY <1>4 DEF Boot, WebDies
  <2>. QED BY <1>0, <2>1, <2>2 DEF ServerTyped, RequestInv, Busy
<1>. QED BY <1>1, <1>2, <1>3, <1>4

LEMMA OthersKeepWorld ==
  ASSUME TypeInv, Next, ~ \E p \in Pages : Handler(p)
  PROVE  WorldTyped'
<1>0. TypeOK /\ WorldTyped /\ ServerTyped
  BY TypeParts DEF TypeInv
<1>. USE DEF disk, server, ghosts
<1>1. ASSUME NEW p \in Pages, GetConfig(p)
      PROVE  WorldTyped'
  BY <1>0, <1>1 DEF GetConfig, WorldTyped
<1>2. ASSUME NEW p \in Pages, NEW section, NEW value, NEW choice, Ask(p, section, value, choice)
      PROVE  WorldTyped'
  BY <1>0, <1>2, BoundAssumption DEF Ask, WorldTyped
<1>3. ASSUME NEW s \in Services, Crash(s)
      PROVE  WorldTyped'
  <2>1. Down \in Process /\ hits' \in 0 .. MaxHits
    BY <1>0, <1>3, HitCounts DEF Down, Process, Crash
  <2>. QED BY <1>0, <1>3, <2>1 DEF Crash, WorldTyped
<1>4. ASSUME NEW s \in Services, Respawn(s)
      PROVE  WorldTyped'
  <2>1. Run(s) \in Process
    BY <1>0 DEF WorldTyped, Run, Process, Config
  <2>. QED BY <1>0, <1>4, <2>1 DEF Respawn, WorldTyped, Provisional
<1>5. ASSUME NEW s \in Services, NEW action \in {"start", "stop", "restart"},
             serviceAction(s, action)
      PROVE  WorldTyped'
  <2>1. Off \in Process /\ requests' \in 0 .. MaxRequests
    BY <1>0, <1>5, BoundAssumption DEF Off, Process, serviceAction, WorldTyped
  <2>2. CASE RcService(s, action)
    <3>1. /\ proc' \in [Services -> Process] /\ hits' \in 0 .. MaxHits
          /\ marred' \in BOOLEAN /\ slipped' \in BOOLEAN
      BY <1>0, <2>2, RcTyped
    <3>. QED BY <1>0, <1>5, <2>1, <3>1 DEF serviceAction, WorldTyped
  <2>3. CASE ~RcService(s, action)
    BY <1>0, <1>5, <2>1, <2>3 DEF serviceAction, WorldTyped
  <2>. QED BY <2>2, <2>3
<1>6. CASE Wedge
  BY <1>0, <1>6, HitCounts DEF Wedge, WorldTyped, Process, Services
<1>7. CASE Tick
  BY <1>0, <1>7, FailuresAssumption DEF Tick, WorldTyped
<1>8. CASE Question
  <2>1. Missed \in 0 .. Failures /\ 0 \in 0 .. Failures
    BY <1>0, FailuresAssumption DEF Missed, WorldTyped
  <2>. QED BY <1>0, <1>8, <2>1 DEF Question, WorldTyped
<1>9. CASE Restart
  BY <1>0, <1>9, RcTyped DEF Restart, WorldTyped, Services
<1>10. CASE Status
  BY <1>0, <1>10, FailuresAssumption DEF Status, Restarted, WorldTyped
<1>11. CASE StartIt
  BY <1>0, <1>11, RcTyped, FailuresAssumption DEF StartIt, Restarted, WorldTyped, Services
<1>12. CASE CoolDown
  BY <1>0, <1>12 DEF CoolDown, WorldTyped
<1>13. Ensured(stored) \in Config
  BY <1>0, SettingsAssumption DEF Ensured, WorldTyped, Config
<1>14. CASE Boot
  <2>1. stored' \in Config
    BY <1>13, <1>14 DEF Boot
  <2>2. /\ files' \in [ser2net : Settings, ready : BOOLEAN, wifi : Wifis]
        /\ proc' \in [Services -> Process]
    BY <1>14, <2>1 DEF Boot, FilesOf, Up, Off, Process, Config
  <2>3. hits' \in 0 .. MaxHits
    BY <1>0, <1>14, HitCounts DEF Boot
  <2>4. watch' \in [at : {"idle", "ask", "restart", "status", "start"},
                    missed : 0 .. Failures, cool : BOOLEAN]
    BY <1>14, FailuresAssumption DEF Boot, Watching
  <2>5. marred' = FALSE /\ slipped' = FALSE /\ requests' = requests /\ logins' = logins
    BY <1>14 DEF Boot
  <2>. QED BY <1>0, <2>1, <2>2, <2>3, <2>4, <2>5 DEF WorldTyped
<1>15. CASE WebDies
  BY <1>0, <1>13, <1>15, HitCounts, FailuresAssumption DEF WebDies, WorldTyped, Watching
<1>16. CASE EditByHand
  <2>1. stored' \in Config
    <3>1. [stored EXCEPT !.usable = FALSE] \in Config
      BY <1>0 DEF WorldTyped, Config
    <3>2. \A g \in Settings : [stored EXCEPT !.grbl = g] \in Config
      BY <1>0 DEF WorldTyped, Config
    <3>. QED BY <1>16, <3>1, <3>2 DEF EditByHand
  <2>2. hits' \in 0 .. MaxHits
    BY <1>0, <1>16, HitCounts DEF EditByHand
  <2>. QED BY <1>0, <1>16, <2>1, <2>2 DEF EditByHand, WorldTyped
<1>. QED BY <1>1, <1>2, <1>3, <1>4, <1>5, <1>6, <1>7, <1>8, <1>9, <1>10, <1>11, <1>12, <1>14,
           <1>15, <1>16 DEF Next, Watch

LEMMA StepTyped == TypeInv /\ [Next]_vars => TypeInv'
<1> SUFFICES ASSUME TypeInv, [Next]_vars
             PROVE  WorldTyped' /\ ServerTyped'
  BY TypeParts, PTL
<1>1. CASE UNCHANGED vars
  <2>1. UNCHANGED server
    BY <1>1 DEF vars
  <2>2. WorldTyped'
    BY <1>1, TypeParts DEF vars, disk, ghosts, WorldTyped
  <2>. QED BY <2>1, <2>2, OthersKeepServer
<1>2. ASSUME NEW p \in Pages, Handler(p)
      PROVE  WorldTyped' /\ ServerTyped'
  BY <1>2, HandlerKeepsServer, HandlerKeepsWorld
<1>3. CASE Next /\ ~ \E p \in Pages : Handler(p)
  <2>1. \/ UNCHANGED server
        \/ \E p \in Pages : GetConfig(p)
        \/ \E p \in Pages : \/ \E g \in Settings : Ask(p, "grbl", g, NoChoice)
                            \/ \E w \in Wifis : Ask(p, "wifi", w, NoChoice)
                            \/ \E w \in Wifis, c \in Choices : Ask(p, "setup", w, c)
        \/ Boot \/ WebDies
    BY <1>3 DEF Next, Watch, Crash, Respawn, serviceAction, Wedge, Tick, Question, Restart,
                Status, StartIt, CoolDown, EditByHand, server
  <2>. QED BY <1>3, <2>1, OthersKeepServer, OthersKeepWorld
<1>. QED BY <1>1, <1>2, <1>3

THEOREM TypesHold == Spec => []TypeInv
<1>1. Init => TypeInv
  BY InitTyped
<1>2. TypeInv /\ [Next]_vars => TypeInv'
  BY StepTyped
<1>. QED BY <1>1, <1>2, PTL DEF Spec

\* Types, and that whoever is past the checks of putConfig or updateWiFi holds
\* Server.mu, of any number of callers.
THEOREM TypeCorrect == Spec => []TypeOK
<1>1. TypeInv => TypeOK
  BY DEF TypeInv
<1>. QED BY <1>1, TypesHold, PTL

-----------------------------------------------------------------------------
(***************************************************************************)
(* Nobody is overwritten.  Between the checks and the save the file is     *)
(* what the handler has read, and the page still holds what it compared:   *)
(* only the holder of the lock saves, and only GetConfig changes what a    *)
(* page holds, of a page with nothing under way.                           *)
(***************************************************************************)
Untouched(p) ==
  req[p].step \in {"password", "key", "checked"} =>
    /\ stored = req[p].prev
    /\ req[p].next = Amended(stored, req[p])
    /\ req[p].section = "setup" => ~stored.ready
    /\ req[p].section = "grbl" => held[p] \in {None, stored}
UntouchedInv == ~slipped => \A p \in Pages : Untouched(p)


\* A handler works alone: no other one is past its checks, and it touches its own
\* request only.
LEMMA HandlerAlone ==
  ASSUME TypeInv, NEW p \in Pages, Handler(p), NEW q \in Pages, q # p
  PROVE  ~Busy(q) /\ req'[q] = req[q]
<1>0. TypeOK /\ ServerTyped
  BY TypeParts DEF TypeInv
<1>1. mu \in {p, None}
  <2>1. CASE Refuse(p) \/ Accept(p)
    BY <2>1 DEF Refuse, Accept
  <2>2. CASE Busy(p)
    BY <1>0, <2>2 DEF ServerTyped
  <2>. QED BY <2>1, <2>2 DEF Handler, Busy, SetPassword, InstallKey, SaveNext,
         ApplyNext, Undo, Reapply, Tell, Finish
<1>2. ~Busy(q)
  BY <1>0, <1>1, NamesAssumption DEF ServerTyped
<1>3. \E r : req' = [req EXCEPT ![p] = r]
  BY DEF Handler, Fail, Goes, Refuse, Accept, SetPassword, InstallKey, SaveNext,
         ApplyNext, Undo, Reapply, Tell, Finish
<1>. QED BY <1>0, <1>2, <1>3 DEF ServerTyped

\* Whatever happens outside the handlers leaves a request as it is, or the page
\* with nothing but a question.
LEMMA OthersMove ==
  ASSUME TypeInv, Next, ~ \E p \in Pages : Handler(p), NEW q \in Pages
  PROVE  req'[q] = req[q] \/ req'[q].step \in {"idle", "asked"}
<1>0. ServerTyped
  BY TypeParts
<1>1. CASE UNCHANGED req
  BY <1>1
<1>2. ASSUME NEW p \in Pages, NEW section, NEW value, NEW choice, Ask(p, section, value, choice)
      PROVE  req'[q] = req[q] \/ req'[q].step = "asked"
  BY <1>0, <1>2 DEF Ask, ServerTyped, NoRequest
<1>3. CASE Boot \/ WebDies
  BY <1>3 DEF Boot, WebDies, NoRequest
<1>4. \/ UNCHANGED req
      \/ \E p \in Pages : \E section, value, choice : Ask(p, section, value, choice)
      \/ Boot \/ WebDies
  BY DEF Next, Watch, GetConfig, Crash, Respawn, serviceAction, Wedge, Tick, Question, Restart,
         Status, StartIt, CoolDown, EditByHand, server
<1>. QED BY <1>1, <1>2, <1>3, <1>4

\* The one step of a handler that ends with the checks done is the one that takes
\* the lock.
LEMMA HandlerUntouched ==
  ASSUME TypeInv, UntouchedInv, NEW p \in Pages, Handler(p)
  PROVE  UntouchedInv'
<1>0. TypeOK /\ WorldTyped /\ ServerTyped
  BY TypeParts DEF TypeInv
<1>1. ASSUME NEW q \in Pages, q # p
      PROVE  Untouched(q)'
  BY <1>1, HandlerAlone DEF Untouched, Busy
<1>2. CASE Accept(p)
  <2>1. req'[p] = Checked(req[p])
    BY <1>0, <1>2 DEF Accept, ServerTyped
  <2>2. /\ req'[p].prev = stored /\ req'[p].section = req[p].section
        /\ req'[p].value = req[p].value /\ req'[p].next = Amended(stored, req[p])
    BY <1>0, <2>1 DEF Checked, ServerTyped, Request
  <2>3. stored' = stored /\ held' = held /\ ~Stale(p) /\ ~TooLate(p)
    BY <1>2 DEF Accept, disk
  <2>4. Amended(stored, req'[p]) = Amended(stored, req[p])
    BY <2>2 DEF Amended
  <2>. QED BY <1>1, <2>2, <2>3, <2>4 DEF Untouched, UntouchedInv, Stale, TooLate
<1>3. CASE SetPassword(p) \/ InstallKey(p)
  <2>1. stored' = stored /\ held' = held /\ slipped' = slipped
    BY <1>3 DEF SetPassword, InstallKey, ghosts
  <2>2. CASE Fail(p)
    <3>1. req'[p].step = "failed"
      BY <1>0, <2>2 DEF Fail, NoRequest, ServerTyped
    <3>. QED BY <1>1, <3>1 DEF Untouched, UntouchedInv
  <2>3. CASE ~Fail(p)
    <3>1. /\ req'[p].prev = req[p].prev /\ req'[p].section = req[p].section
          /\ req'[p].value = req[p].value /\ req'[p].next = req[p].next
          /\ req[p].step \in {"password", "key"}
      BY <1>0, <1>3, <2>3 DEF SetPassword, InstallKey, Goes, ServerTyped, Request
    <3>2. Amended(stored, req'[p]) = Amended(stored, req[p])
      BY <3>1 DEF Amended
    <3>. QED BY <1>1, <2>1, <3>1, <3>2 DEF Untouched, UntouchedInv
  <2>. QED BY <2>2, <2>3
<1>4. CASE ~Accept(p) /\ ~SetPassword(p) /\ ~InstallKey(p)
  <2>1. req'[p].step \notin {"password", "key", "checked"}
    <3>1. CASE Fail(p)
      BY <1>0, <3>1 DEF Fail, NoRequest, ServerTyped
    <3>2. CASE ~Fail(p)
      BY <1>0, <1>4, <3>2 DEF Handler, Goes, Refuse, SaveNext, ApplyNext, Undo, Reapply, Tell,
                              Finish, NoRequest, ServerTyped, Request
    <3>. QED BY <3>1, <3>2
  <2>. QED BY <1>1, <2>1 DEF Untouched, UntouchedInv
<1>. QED BY <1>2, <1>3, <1>4

LEMMA StepUntouched == TypeInv /\ UntouchedInv /\ [Next]_vars => UntouchedInv'
<1> SUFFICES ASSUME TypeInv, UntouchedInv, [Next]_vars
             PROVE  UntouchedInv'
  OBVIOUS
<1>0. TypeOK /\ WorldTyped /\ ServerTyped
  BY TypeParts DEF TypeInv
<1>1. CASE UNCHANGED <<stored, held, req, slipped>>
  BY <1>1 DEF Untouched, UntouchedInv
<1>2. ASSUME NEW p \in Pages, Handler(p)
      PROVE  UntouchedInv'
  BY <1>2, HandlerUntouched
<1>3. ASSUME NEW p \in Pages, GetConfig(p)
      PROVE  UntouchedInv'
  <2>1. ASSUME NEW q \in Pages, req[q].step \in {"password", "key", "checked"}
        PROVE  held'[q] = held[q]
    BY <1>0, <1>3, <2>1 DEF GetConfig, Idle, ServerTyped
  <2>2. UNCHANGED <<stored, req, slipped>>
    BY <1>3 DEF GetConfig, disk, ghosts
  <2>. QED BY <2>1, <2>2 DEF Untouched, UntouchedInv
<1>4. ASSUME NEW p \in Pages, NEW section, NEW value, NEW choice, Ask(p, section, value, choice)
      PROVE  UntouchedInv'
  <2>1. ASSUME NEW q \in Pages
        PROVE  req'[q] = req[q] \/ req'[q].step = "asked"
    BY <1>0, <1>4 DEF Ask, ServerTyped, NoRequest
  <2>2. UNCHANGED <<stored, held, slipped>>
    BY <1>4 DEF Ask, disk, ghosts
  <2>. QED BY <2>1, <2>2 DEF Untouched, UntouchedInv
<1>5. CASE Boot \/ WebDies
  BY <1>5 DEF Boot, WebDies, NoRequest, Untouched, UntouchedInv
<1>6. CASE EditByHand
  BY <1>6 DEF EditByHand, UntouchedInv
<1>7. \/ UNCHANGED <<stored, held, req, slipped>>
      \/ \E p \in Pages : Handler(p) \/ GetConfig(p)
      \/ \E p \in Pages : \E section, value, choice : Ask(p, section, value, choice)
      \/ Boot \/ WebDies \/ EditByHand
  BY DEF Next, Watch, Crash, Respawn, serviceAction, RcService, Wedge, Tick, Question, Restart,
         Status, StartIt, CoolDown, server, disk, ghosts, vars
<1>. QED BY <1>1, <1>2, <1>3, <1>4, <1>5, <1>6, <1>7

THEOREM UntouchedHolds == Spec => []UntouchedInv
<1>1. Init => UntouchedInv
  BY DEF Init, NoRequest, Untouched, UntouchedInv
<1>2. TypeInv /\ UntouchedInv /\ [Next]_vars => UntouchedInv'
  BY StepUntouched
<1>. QED BY <1>1, <1>2, TypesHold, PTL DEF Spec

\* The only way from the checks to the saved file is the save.
LEMMA SavedBySaving ==
  ASSUME TypeInv, [Next]_vars, NEW p \in Pages, req[p].step = "checked", req'[p].step = "saved"
  PROVE  SaveNext(p) /\ stored' = req[p].next
<1>0. TypeOK /\ ServerTyped
  BY TypeParts DEF TypeInv
<1>1. req'[p] # req[p]
  OBVIOUS
<1>2. PICK q \in Pages : Handler(q)
  BY <1>1, OthersMove DEF vars, server
<1>3. Handler(p)
  BY <1>1, <1>2, HandlerAlone
<1>4. SaveNext(p)
  BY <1>3 DEF Handler, Refuse, Accept, SetPassword, InstallKey, ApplyNext,
         Undo, Reapply, Tell, Finish
<1>5. ~Fail(p)
  BY <1>0 DEF Fail, NoRequest, ServerTyped
<1>. QED BY <1>4, <1>5 DEF SaveNext

\* A save replaces what its author has seen, and only the section it is about
\* (putConfig, updateWiFi), of any number of callers.
THEOREM NobodyOverwritten == Spec => NobodyIsOverwritten
<1> DEFINE A == \A p \in Pages :
       req[p].step = "checked" /\ req'[p].step = "saved" /\ ~slipped =>
         CASE req[p].section = "grbl"  -> /\ held[p] \in {None, stored}
                                          /\ stored'.wifi = stored.wifi
                                          /\ stored'.ready = stored.ready
           [] req[p].section = "wifi"  -> /\ stored'.grbl = stored.grbl
                                          /\ stored'.ready = stored.ready
           [] req[p].section = "setup" -> /\ stored'.grbl = stored.grbl
                                          /\ ~stored.ready
<1>1. TypeInv /\ UntouchedInv /\ [Next]_vars => [A]_vars
  <2> SUFFICES ASSUME TypeInv, UntouchedInv, [Next]_vars, NEW p \in Pages,
                      req[p].step = "checked", req'[p].step = "saved", ~slipped
               PROVE  /\ req[p].section = "grbl" => held[p] \in {None, stored}
                      /\ req[p].section = "setup" => ~stored.ready
                      /\ req[p].section = "grbl" => stored'.wifi = stored.wifi
                      /\ req[p].section # "grbl" => stored'.grbl = stored.grbl
                      /\ req[p].section # "setup" => stored'.ready = stored.ready
    <3>1. TypeInv => \A p \in Pages : req[p].section \in {"grbl", "wifi", "setup"}
      BY DEF TypeInv, TypeOK, Request
    <3>. QED BY <3>1
  <2>0. stored \in Config /\ req[p] \in Request /\ Sound(req[p])
    BY DEF TypeInv, TypeOK, RequestInv
  <2>1. stored' = req[p].next
    BY SavedBySaving
  <2>2. Untouched(p)
    BY DEF UntouchedInv
  <2>3. stored' = Amended(stored, req[p])
    BY <2>1, <2>2 DEF Untouched
  <2>. QED BY <2>0, <2>2, <2>3, AmendedIsSound DEF Untouched
<1>. HIDE DEF A
<1>2. Spec => [][A]_vars
  BY <1>1, TypesHold, UntouchedHolds, PTL DEF Spec
<1>. QED BY <1>2 DEF A, NobodyIsOverwritten

-----------------------------------------------------------------------------
(***************************************************************************)
(* The file, what is generated from it and the processes.  While a request *)
(* is under way they are where its step leaves them: the services still    *)
(* follow the configuration it found, until they are told one by one.      *)
(***************************************************************************)
Stands(p) ==
  /\ req[p].step \in {"password", "key", "checked"} =>
       stored = req[p].prev /\ files = FilesOf(req[p].prev)
  /\ req[p].step = "saved" => stored = req[p].next /\ files = FilesOf(req[p].prev)
  /\ req[p].step = "undo" => stored = req[p].next
  /\ req[p].step = "reapply" => stored = req[p].prev
  /\ req[p].step = "tell" => stored = req[p].next /\ files = FilesOf(req[p].next)

\* The services a request has yet to tell.
Left(todo) == IF todo = <<>> THEN {} ELSE IF todo = <<"laserbridged">> THEN {"laserbridged"}
                                          ELSE Services
Serves(p) ==
  /\ req[p].step \in {"password", "key", "checked", "saved", "undo", "reapply"} =>
       \A s \in Services : Agrees(s, req[p].prev)
  /\ req[p].step = "tell" => \A s \in Services \ Left(req[p].todo) : Agrees(s, req[p].next)

Settled == files = FilesOf(stored) /\ \A s \in Services : Agrees(s, stored)
AgreeInv == ~marred => /\ stored.usable
                       /\ mu = None => Settled
                       /\ \A p \in Pages : Stands(p) /\ Serves(p)

\* A service that starts does what the file says, once the generated files agree
\* with it.
LEMMA StartAgrees ==
  ASSUME TypeInv, stored.usable, files = FilesOf(stored), NEW s \in Services
  PROVE  /\ Start(s) # Off <=> s = stored.grbl.backend
         /\ Start(s).state \in {"up", "wedged"} => Start(s).with = stored.grbl
         /\ Run(s) # Off /\ Run(s).with = stored.grbl
<1>1. Run(s) # Off /\ Run(s).with = stored.grbl
  BY DEF Run, Off, FilesOf
<1>2. Off.state = "stopped"
  BY DEF Off
<1>3. CASE s = stored.grbl.backend
  BY <1>1, <1>3 DEF Start, Named
<1>4. CASE s # stored.grbl.backend
  BY <1>1, <1>2, <1>4 DEF Start, Named
<1>. QED BY <1>1, <1>3, <1>4

\* A command or a respawn while nothing is provisional brings a service to what
\* the file says, or leaves it alone.
LEMMA ServiceAgrees ==
  ASSUME TypeInv, AgreeInv, ~marred, ~Provisional, UNCHANGED <<disk, server>>,
         NEW t \in Services, NEW x, proc' = [proc EXCEPT ![t] = x],
         x = Start(t) \/ x = proc[t] \/ (proc[t] # Off /\ x = Run(t))
  PROVE  AgreeInv'
<1>0. TypeOK /\ WorldTyped /\ ServerTyped
  BY TypeParts DEF TypeInv
<1>1. stored.usable /\ files = FilesOf(stored)
  <2>1. CASE mu = None
    BY <2>1 DEF AgreeInv, Settled
  <2>2. CASE mu # None
    <3>1. PICK p \in Pages : mu = p /\ Busy(p)
      BY <1>0, <2>2 DEF ServerTyped
    <3>2. req[p].step \in {"password", "key", "checked", "tell"}
      BY <1>0, <3>1 DEF Busy, Provisional, ServerTyped, Request, Steps
    <3>. QED BY <3>2 DEF AgreeInv, Stands
  <2>. QED BY <2>1, <2>2
<1>2. ASSUME NEW s \in Services, Agrees(s, stored)
      PROVE  Agrees(s, stored)'
  <2>1. CASE s # t
    BY <1>0, <1>2, <2>1 DEF Agrees, WorldTyped, disk
  <2>2. CASE s = t
    <3>1. proc'[s] = x /\ stored' = stored
      BY <1>0, <2>2 DEF WorldTyped, disk
    <3>. QED BY <1>1, <1>2, <2>2, <3>1, StartAgrees DEF Agrees
  <2>. QED BY <2>1, <2>2
<1>3. stored' = stored /\ files' = files /\ mu' = mu /\ req' = req
  BY DEF disk, server
<1>4. ASSUME NEW p \in Pages
      PROVE  Serves(p)'
  <2>1. req[p].step \notin {"saved", "undo", "reapply"}
    BY DEF Provisional
  <2>2. req[p].step \in {"password", "key", "checked"} => req[p].prev = stored
    BY DEF AgreeInv, Stands
  <2>3. req[p].step = "tell" => req[p].next = stored
    BY DEF AgreeInv, Stands
  <2>4. Serves(p)
    BY DEF AgreeInv
  <2>. QED BY <1>2, <1>3, <2>1, <2>2, <2>3, <2>4 DEF Serves
<1>5. ASSUME NEW p \in Pages
      PROVE  Stands(p)'
  BY <1>3 DEF AgreeInv, Stands
<1>. QED BY <1>1, <1>2, <1>3, <1>4, <1>5 DEF AgreeInv, Settled

LEMMA CommandAgrees ==
  ASSUME TypeInv, AgreeInv, UNCHANGED <<disk, server>>, NEW s \in Services,
         NEW action \in {"start", "restart"}, RcService(s, action)
  PROVE  AgreeInv'
<1> SUFFICES ASSUME ~marred'
             PROVE  AgreeInv'
  BY DEF AgreeInv
<1>1. ~marred /\ ~Provisional /\ proc' = [proc EXCEPT ![s] = Rc(s, action)]
  BY DEF RcService
<1>2. Rc(s, action) \in {Start(s), proc[s]}
  BY DEF Rc
<1>. QED BY <1>1, <1>2, ServiceAgrees

\* A process that exits, or stops answering, agrees with what it agreed with.
LEMMA FaultAgrees ==
  ASSUME TypeInv, AgreeInv, UNCHANGED <<disk, server, ghosts>>, NEW t \in Services,
         proc[t].state = "up",
         proc' \in {[proc EXCEPT ![t] = Down], [proc EXCEPT ![t].state = "wedged"]}
  PROVE  AgreeInv'
<1>0. WorldTyped
  BY TypeParts
<1>1. proc[t] # Off
  BY DEF Off
<1>2. /\ proc'[t] = Down \/ proc'[t] = [proc[t] EXCEPT !.state = "wedged"]
      /\ \A s \in Services : s # t => proc'[s] = proc[s]
  BY <1>0 DEF WorldTyped
<1>3. proc'[t] # Off
  BY <1>0, <1>2 DEF Down, Off, WorldTyped, Process
<1>4. proc'[t].state \in {"up", "wedged"} => proc'[t].with = proc[t].with
  BY <1>0, <1>2 DEF Down, WorldTyped, Process
<1>5. ASSUME NEW s \in Services
      PROVE  /\ proc'[s] # Off <=> proc[s] # Off
             /\ proc'[s].state \in {"up", "wedged"} => /\ proc[s].state \in {"up", "wedged"}
                                                       /\ proc'[s].with = proc[s].with
  BY <1>1, <1>2, <1>3, <1>4
<1>6. stored' = stored /\ files' = files /\ mu' = mu /\ req' = req /\ marred' = marred
  BY DEF disk, server, ghosts
<1>. QED BY <1>5, <1>6 DEF AgreeInv, Settled, Stands, Serves, Agrees

\* A request that ends with an error leaves what it found, and so does one that
\* takes the lock; the others leave what their next step finds.
LEMMA HandlerAgrees ==
  ASSUME TypeInv, AgreeInv, NEW p \in Pages, Handler(p)
  PROVE  AgreeInv'
<1> SUFFICES ASSUME ~marred'
             PROVE  AgreeInv'
  BY DEF AgreeInv
<1>0. TypeOK /\ WorldTyped /\ ServerTyped
  BY TypeParts DEF TypeInv
<1>1. ~marred
  BY DEF Handler, Refuse, Accept, SetPassword, InstallKey, SaveNext, ApplyNext, Undo, Reapply,
         Tell, Finish, RcService, ghosts
<1>2. /\ stored.usable /\ Stands(p) /\ Serves(p)
      /\ mu = None => Settled
  BY <1>1 DEF AgreeInv
<1>3. ASSUME NEW q \in Pages, q # p
      PROVE  Stands(q)' /\ Serves(q)'
  BY <1>3, HandlerAlone DEF Stands, Serves, Busy
<1>4. ASSUME stored'.usable, Stands(p)', Serves(p)', mu' = None => Settled'
      PROVE  AgreeInv'
  BY <1>3, <1>4 DEF AgreeInv
<1>5. ASSUME Fail(p), stored'.usable, Settled'
      PROVE  AgreeInv'
  <2>1. req'[p].step = "failed"
    BY <1>0, <1>5 DEF Fail, NoRequest, ServerTyped
  <2>. QED BY <1>4, <1>5, <2>1 DEF Stands, Serves
<1>6. Busy(p) => /\ mu = p /\ p # None
                 /\ req[p].prev \in Config /\ req[p].prev.usable
                 /\ req[p].next \in Config /\ req[p].next.usable
  BY <1>0, NamesAssumption DEF ServerTyped, RequestInv, Sound, Busy
<1>7. CASE Refuse(p)
  BY <1>2, <1>5, <1>7 DEF Refuse, Fail, disk, Settled, Agrees
<1>8. CASE Accept(p)
  <2>1. Settled /\ mu' = p /\ p # None
    BY <1>2, <1>8, NamesAssumption DEF Accept
  <2>2. req'[p].step \in {"password", "checked"} /\ req'[p].prev = stored
    BY <1>0, <1>8 DEF Accept, Checked, ServerTyped, Request
  <2>3. stored' = stored /\ files' = files /\ proc' = proc
    BY <1>8 DEF Accept, disk
  <2>. QED BY <1>2, <1>4, <2>1, <2>2, <2>3 DEF Settled, Stands, Serves, Agrees
<1>9. CASE SaveNext(p)
  <2>1. req[p].step = "checked" /\ files' = files /\ proc' = proc /\ Busy(p)
    BY <1>9 DEF SaveNext, Busy
  <2>2. CASE stored' = req[p].next /\ Goes(p, "saved") /\ UNCHANGED mu
    <3>1. req'[p] = [req[p] EXCEPT !.step = "saved"]
      BY <1>0, <2>2 DEF Goes, ServerTyped
    <3>2. req'[p].step = "saved" /\ req'[p].prev = req[p].prev /\ req'[p].next = req[p].next
      BY <1>0, <3>1 DEF ServerTyped, Request
    <3>. QED BY <1>2, <1>4, <1>6, <2>1, <2>2, <3>2 DEF Stands, Serves, Agrees
  <2>3. CASE Fail(p) /\ UNCHANGED stored
    BY <1>2, <1>5, <2>1, <2>3 DEF Stands, Serves, Settled, Agrees
  <2>. QED BY <1>9, <2>2, <2>3 DEF SaveNext
<1>15. CASE SetPassword(p) \/ InstallKey(p)
  <2>1. /\ stored' = stored /\ files' = files /\ proc' = proc
        /\ req[p].step \in {"password", "key"} /\ Busy(p)
    BY <1>15 DEF SetPassword, InstallKey, Busy
  <2>2. CASE Fail(p)
    BY <1>2, <1>5, <2>1, <2>2 DEF Stands, Serves, Settled, Agrees
  <2>3. CASE ~Fail(p)
    <3>1. /\ req'[p].step \in {"key", "checked"} /\ mu' = mu
          /\ req'[p].prev = req[p].prev /\ req'[p].next = req[p].next
      BY <1>0, <1>15, <2>3 DEF SetPassword, InstallKey, Goes, ServerTyped, Request
    <3>. QED BY <1>2, <1>4, <1>6, <2>1, <3>1 DEF Stands, Serves, Agrees
  <2>. QED BY <2>2, <2>3
<1>10. CASE ApplyNext(p)
  <2>1. req[p].step = "saved" /\ stored' = stored /\ proc' = proc /\ mu' = mu /\ Busy(p)
    BY <1>10 DEF ApplyNext, Busy
  <2>2. CASE Apply /\ req' = [req EXCEPT ![p].step = "tell",
                                ![p].todo = changedServices(req[p].prev, req[p].next)]
    <3>1. req'[p].step = "tell" /\ req'[p].next = req[p].next
          /\ req'[p].todo = changedServices(req[p].prev, req[p].next)
      BY <1>0, <2>2 DEF ServerTyped, Request
    <3>2. req[p].prev.grbl # req[p].next.grbl => Left(req'[p].todo) = Services
      BY <3>1 DEF Left, changedServices
    <3>3. req[p].prev.grbl = req[p].next.grbl =>
            \A s \in Services : Agrees(s, req[p].next)
      BY <1>2, <2>1 DEF Serves, Agrees
    <3>4. Serves(p)'
      BY <2>1, <3>1, <3>2, <3>3 DEF Serves, Agrees
    <3>5. Stands(p)'
      BY <1>2, <2>1, <2>2, <3>1 DEF Stands, Apply
    <3>. QED BY <1>2, <1>4, <1>6, <2>1, <3>4, <3>5
  <2>3. CASE Goes(p, "undo")
    <3>1. req'[p].step = "undo" /\ req'[p].next = req[p].next /\ req'[p].prev = req[p].prev
      BY <1>0, <2>3 DEF Goes, ServerTyped, Request
    <3>. QED BY <1>2, <1>4, <1>6, <2>1, <3>1 DEF Stands, Serves, Agrees
  <2>. QED BY <1>10, <2>2, <2>3 DEF ApplyNext
<1>11. CASE Undo(p)
  <2>1. req[p].step = "undo" /\ stored' = req[p].prev /\ proc' = proc /\ mu' = mu /\ Busy(p)
    BY <1>11 DEF Undo, Busy
  <2>2. req'[p].step = "reapply" /\ req'[p].prev = req[p].prev
    BY <1>0, <1>11 DEF Undo, Goes, ServerTyped, Request
  <2>. QED BY <1>2, <1>4, <1>6, <2>1, <2>2 DEF Stands, Serves, Agrees
<1>12. CASE Reapply(p)
  <2>1. req[p].step = "reapply" /\ Apply /\ Fail(p) /\ stored' = stored /\ proc' = proc
    BY <1>12 DEF Reapply
  <2>. QED BY <1>2, <1>5, <2>1 DEF Stands, Serves, Settled, Agrees, Apply
<1>13. CASE Tell(p)
  <2>. DEFINE s == Head(req[p].todo)
  <2>1. req[p].step = "tell" /\ req[p].todo # <<>> /\ stored' = stored /\ files' = files
        /\ mu' = mu /\ RcService(s, desiredAction(s, req[p].next)) /\ Busy(p)
    BY <1>13 DEF Tell, Busy, disk
  <2>2. req[p].todo \in {<<"laserbridged">>, <<"ser2net", "laserbridged">>}
    BY <1>0, <2>1 DEF ServerTyped, Request
  <2>3. /\ req'[p].step = "tell" /\ req'[p].next = req[p].next
        /\ req'[p].todo = Tail(req[p].todo)
    BY <1>0, <1>13, <2>1 DEF Tell, ServerTyped, Request
  <2>4. s \in Services
    BY <2>2 DEF Services
  <2>5. Left(req[p].todo) \subseteq Left(Tail(req[p].todo)) \cup {s}
    <3>1. CASE req[p].todo = <<"laserbridged">>
      <4>1. Left(req[p].todo) = {"laserbridged"} /\ s = "laserbridged"
        BY <3>1 DEF Left
      <4>. QED BY <4>1
    <3>2. CASE req[p].todo = <<"ser2net", "laserbridged">>
      <4>1. Tail(req[p].todo) = <<"laserbridged">> /\ s = "ser2net"
        BY <3>2
      <4>2. Left(<<"laserbridged">>) = {"laserbridged"}
        BY DEF Left
      <4>3. Left(req[p].todo) \subseteq Services
        BY DEF Left, Services
      <4>. QED BY <4>1, <4>2, <4>3 DEF Services
    <3>. QED BY <2>2, <3>1, <3>2
  <2>6. proc' = [proc EXCEPT ![s] = Rc(s, desiredAction(s, req[p].next))]
    BY <2>1 DEF RcService
  <2>7. stored = req[p].next /\ files = FilesOf(stored)
    BY <1>2, <2>1 DEF Stands
  <2>. HIDE DEF s
  <2>8. /\ proc'[s] # Off <=> s = stored.grbl.backend
        /\ proc'[s].state \in {"up", "wedged"} => proc'[s].with = stored.grbl
    <3>1. CASE stored.grbl.backend = s
      BY <1>0, <1>2, <2>4, <2>6, <2>7, <3>1, StartAgrees DEF Rc, desiredAction, WorldTyped
    <3>2. CASE stored.grbl.backend # s
      BY <1>0, <2>4, <2>6, <2>7, <3>2 DEF Rc, desiredAction, WorldTyped, Off
    <3>. QED BY <3>1, <3>2
  <2>9. \A t \in Services : t # s => proc'[t] = proc[t]
    BY <1>0, <2>6 DEF WorldTyped
  <2>10. Serves(p)'
    BY <1>2, <2>1, <2>3, <2>5, <2>7, <2>8, <2>9 DEF Serves, Agrees
  <2>11. Stands(p)'
    BY <1>2, <2>1, <2>3 DEF Stands
  <2>. QED BY <1>2, <1>4, <1>6, <2>1, <2>10, <2>11
<1>14. CASE Finish(p)
  <2>1. req'[p].step = "idle" /\ stored' = stored /\ files' = files /\ proc' = proc
    BY <1>0, <1>14 DEF Finish, NoRequest, ServerTyped, disk
  <2>2. Settled
    BY <1>2, <1>14 DEF Finish, Stands, Serves, Left, Settled
  <2>. QED BY <1>2, <1>4, <2>1, <2>2 DEF Stands, Serves, Settled, Agrees
<1>. QED BY <1>7, <1>8, <1>9, <1>10, <1>11, <1>12, <1>13, <1>14, <1>15 DEF Handler

LEMMA StepAgrees == TypeInv /\ AgreeInv /\ [Next]_vars => AgreeInv'
<1> SUFFICES ASSUME TypeInv, AgreeInv, [Next]_vars
             PROVE  AgreeInv'
  OBVIOUS
<1>0. TypeOK /\ WorldTyped /\ ServerTyped
  BY TypeParts DEF TypeInv
<1>1. CASE UNCHANGED <<disk, proc, mu, req, marred>>
  BY <1>1 DEF AgreeInv, Settled, Stands, Serves, Agrees, disk
<1>2. ASSUME NEW p \in Pages, Handler(p)
      PROVE  AgreeInv'
  BY <1>2, HandlerAgrees
<1>3. ASSUME NEW p \in Pages, NEW section, NEW value, NEW choice, Ask(p, section, value, choice)
      PROVE  AgreeInv'
  <2>1. ASSUME NEW q \in Pages
        PROVE  req'[q] = req[q] \/ req'[q].step = "asked"
    BY <1>0, <1>3 DEF Ask, ServerTyped, NoRequest
  <2>2. UNCHANGED <<stored, files, proc, mu, marred>>
    BY <1>3 DEF Ask, disk, ghosts
  <2>. QED BY <2>1, <2>2 DEF AgreeInv, Settled, Stands, Serves, Agrees
<1>4. ASSUME NEW s \in Services, Crash(s)
      PROVE  AgreeInv'
  BY <1>4, FaultAgrees DEF Crash
<1>5. CASE Wedge
  BY <1>5, FaultAgrees DEF Wedge, Services
<1>6. ASSUME NEW s \in Services, Respawn(s), ~marred'
      PROVE  AgreeInv'
  <2>1. ~marred /\ ~Provisional /\ proc' = [proc EXCEPT ![s] = Run(s)] /\ proc[s] # Off
    <3>1. Down.state = "down" /\ Off.state = "stopped"
      BY DEF Down, Off
    <3>. QED BY <1>6, <3>1 DEF Respawn
  <2>2. UNCHANGED <<disk, server>>
    BY <1>6 DEF Respawn
  <2>. QED BY <2>1, <2>2, ServiceAgrees
<1>7. ASSUME NEW s \in Services, NEW action \in {"start", "stop", "restart"},
             serviceAction(s, action), ~marred'
      PROVE  AgreeInv'
  BY <1>7, CommandAgrees DEF serviceAction
<1>8. CASE Restart \/ StartIt
  BY <1>8, CommandAgrees DEF Restart, StartIt, Services
<1>9. CASE Boot
  <2>1. stored' = Ensured(stored) /\ files' = FilesOf(stored') /\ proc' = Up(stored')
    BY <1>9 DEF Boot
  <2>2. stored'.usable
    BY <1>0, <2>1 DEF Ensured, WorldTyped, Config
  <2>3. Settled'
    BY <2>1 DEF Settled, Agrees, Up, Off
  <2>4. \A p \in Pages : req'[p].step = "idle"
    BY <1>9 DEF Boot, NoRequest
  <2>. QED BY <2>2, <2>3, <2>4 DEF AgreeInv, Stands, Serves
<1>10. CASE WebDies
  <2>. SUFFICES ASSUME ~marred'
                PROVE  AgreeInv'
    BY DEF AgreeInv
  <2>1. ~marred /\ mu = None /\ UNCHANGED <<files, proc>>
    BY <1>10 DEF WebDies
  <2>2. stored' = stored /\ stored.usable /\ Settled
    BY <1>10, <2>1 DEF WebDies, Ensured, AgreeInv
  <2>3. \A p \in Pages : req'[p].step = "idle"
    BY <1>10 DEF WebDies, NoRequest
  <2>. QED BY <2>1, <2>2, <2>3 DEF AgreeInv, Settled, Stands, Serves, Agrees
<1>11. CASE EditByHand
  BY <1>11 DEF EditByHand, AgreeInv
<1>12. \/ UNCHANGED <<disk, proc, mu, req, marred>>
       \/ \E p \in Pages : Handler(p)
       \/ \E p \in Pages : \E section, value, choice : Ask(p, section, value, choice)
       \/ \E s \in Services : Crash(s) \/ Respawn(s)
       \/ \E s \in Services, action \in {"start", "stop", "restart"} : serviceAction(s, action)
       \/ Wedge \/ Restart \/ StartIt \/ Boot \/ WebDies \/ EditByHand
  BY DEF Next, Watch, GetConfig, Tick, Question, Status, CoolDown, server, disk, ghosts, vars
<1>13. marred' => AgreeInv'
  BY DEF AgreeInv
<1>. QED BY <1>1, <1>2, <1>3, <1>4, <1>5, <1>6, <1>7, <1>8, <1>9, <1>10, <1>11, <1>12, <1>13

THEOREM AgreementHolds == Spec => []AgreeInv
<1>1. Init => AgreeInv
  <2> SUFFICES ASSUME Init
               PROVE  AgreeInv
    OBVIOUS
  <2>1. stored.usable /\ Settled
    BY DEF Init, Settled, Agrees, Up, Off
  <2>2. \A p \in Pages : req[p].step = "idle"
    BY DEF Init, NoRequest
  <2>. QED BY <2>1, <2>2 DEF AgreeInv, Stands, Serves
<1>2. TypeInv /\ AgreeInv /\ [Next]_vars => AgreeInv'
  BY StepAgrees
<1>. QED BY <1>1, <1>2, TypesHold, PTL DEF Spec

\* With no request under way, the file, what is generated from it and the
\* processes agree, but for the exceptions (putConfig, Apply, changedServices),
\* of any number of callers, settings and faults.
THEOREM SettledAgreement == Spec => []SettledAgrees
<1>1. AgreeInv => SettledAgrees
  BY DEF AgreeInv, Settled, SettledAgrees
<1>. QED BY <1>1, AgreementHolds, PTL

-----------------------------------------------------------------------------
(***************************************************************************)
(* The keys.  Until one is installed they are those that were found; from  *)
(* then on the restorer has them.                                          *)
(***************************************************************************)
Remembers(p) ==
  Busy(p) => IF req[p].section = "setup" /\ req[p].step \notin {"password", "key"}
             THEN req[p].was = req[p].found
             ELSE logins.keys = req[p].found
KeysInv == \A p \in Pages : Remembers(p)

LEMMA HandlerRemembers ==
  ASSUME TypeInv, KeysInv, NEW p \in Pages, Handler(p)
  PROVE  Remembers(p)'
<1>0. TypeOK /\ WorldTyped /\ ServerTyped
  BY TypeParts DEF TypeInv
<1>1. ASSUME req'[p].step \in {"failed", "idle"}
      PROVE  Remembers(p)'
  BY <1>1 DEF Remembers, Busy
<1>2. CASE Accept(p)
  <2>1. req'[p] = Checked(req[p]) /\ logins' = logins
    BY <1>0, <1>2 DEF Accept, ServerTyped, disk
  <2>2. /\ req'[p].found = logins.keys
        /\ req'[p].section = "setup" => req'[p].step = "password"
    BY <1>0, <2>1 DEF Checked, ServerTyped, Request
  <2>. QED BY <2>1, <2>2 DEF Remembers
<1>3. CASE SetPassword(p) /\ ~Fail(p)
  <2>1. /\ req'[p].step = "key" /\ req'[p].section = req[p].section
        /\ req'[p].found = req[p].found /\ req[p].step = "password" /\ Busy(p)
    BY <1>0, <1>3 DEF SetPassword, Goes, ServerTyped, Request, Busy
  <2>2. logins'.keys = logins.keys
    BY <1>0, <1>3 DEF SetPassword, WorldTyped
  <2>. QED BY <2>1, <2>2 DEF Remembers, KeysInv
<1>4. CASE InstallKey(p) /\ ~Fail(p)
  <2>1. /\ req'[p].step = "checked" /\ req'[p].section = req[p].section
        /\ req'[p].found = req[p].found /\ req'[p].was = logins.keys
        /\ req[p].step = "key" /\ Busy(p)
    BY <1>0, <1>4 DEF InstallKey, ServerTyped, Request, Busy
  <2>2. req[p].section = "setup"
    BY <1>0, <2>1 DEF ServerTyped, RequestInv, Sound
  <2>. QED BY <2>1, <2>2 DEF Remembers, KeysInv
<1>5. CASE (SaveNext(p) /\ ~Fail(p)) \/ ApplyNext(p) \/ Undo(p) \/ Tell(p)
  <2>1. /\ req'[p].section = req[p].section /\ req'[p].found = req[p].found
        /\ req'[p].was = req[p].was
        /\ req[p].step \notin {"password", "key"} /\ Busy(p)
        /\ req'[p].step \notin {"password", "key"}
    <3>1. CASE SaveNext(p) /\ ~Fail(p)
      BY <1>0, <3>1 DEF SaveNext, Goes, ServerTyped, Request, Busy
    <3>2. CASE ApplyNext(p)
      BY <1>0, <3>2 DEF ApplyNext, Goes, ServerTyped, Request, Busy
    <3>3. CASE Undo(p)
      BY <1>0, <3>3 DEF Undo, Goes, ServerTyped, Request, Busy
    <3>4. CASE Tell(p)
      BY <1>0, <3>4 DEF Tell, ServerTyped, Request, Busy
    <3>. QED BY <1>5, <3>1, <3>2, <3>3, <3>4
  <2>2. logins' = logins
    BY <1>5 DEF SaveNext, ApplyNext, Undo, Tell, disk
  <2>. QED BY <2>1, <2>2 DEF Remembers, KeysInv
<1>6. CASE Fail(p) \/ Finish(p)
  <2>1. req'[p].step \in {"failed", "idle"}
    BY <1>0, <1>6 DEF Fail, Finish, NoRequest, ServerTyped
  <2>. QED BY <1>1, <2>1
<1>. QED BY <1>2, <1>3, <1>4, <1>5, <1>6 DEF Handler, Refuse, Reapply

LEMMA StepRemembers == TypeInv /\ KeysInv /\ [Next]_vars => KeysInv'
<1> SUFFICES ASSUME TypeInv, KeysInv, [Next]_vars, NEW p \in Pages
             PROVE  Remembers(p)'
  BY DEF KeysInv
<1>1. CASE UNCHANGED vars
  BY <1>1 DEF KeysInv, Remembers, Busy, vars, server, disk
<1>2. ASSUME NEW q \in Pages, Handler(q)
      PROVE  Remembers(p)'
  BY <1>2, HandlerRemembers, HandlerAlone DEF Remembers, Busy
<1>3. CASE Next /\ ~ \E q \in Pages : Handler(q)
  <2>1. logins' = logins
    BY <1>3 DEF Next, Watch, GetConfig, Ask, Crash, Respawn, serviceAction, Wedge, Tick,
                Question, Restart, Status, StartIt, CoolDown, Boot, WebDies, EditByHand, disk
  <2>. QED BY <1>3, <2>1, OthersMove DEF KeysInv, Remembers, Busy
<1>. QED BY <1>1, <1>2, <1>3

THEOREM KeysHold == Spec => []KeysInv
<1>1. Init => KeysInv
  BY DEF Init, NoRequest, KeysInv, Remembers, Busy
<1>. QED BY <1>1, StepRemembers, TypesHold, PTL DEF Spec

\* An error leaves the file, what is generated from it and the authorized keys
\* as the request found them, if one thing went wrong (putConfig, updateWiFi,
\* completeSetup).
THEOREM ErrorsUndone == Spec => ErrorsChangeNothing
<1> DEFINE A == \A p \in Pages :
       mu = p /\ req'[p].step = "failed" /\ ~marred' =>
         /\ stored' = req[p].prev /\ files' = FilesOf(req[p].prev)
         /\ logins'.keys = req[p].found
<1>1. TypeInv /\ AgreeInv /\ KeysInv /\ [Next]_vars => [A]_vars
  <2> SUFFICES ASSUME TypeInv, AgreeInv, KeysInv, [Next]_vars, NEW p \in Pages,
                      mu = p, req'[p].step = "failed", ~marred'
               PROVE  /\ stored' = req[p].prev /\ files' = FilesOf(req[p].prev)
                      /\ logins'.keys = req[p].found
    OBVIOUS
  <2>0. WorldTyped /\ ServerTyped
    BY TypeParts
  <2>1. Busy(p) /\ mu # None
    BY <2>0, NamesAssumption DEF ServerTyped
  <2>2. req'[p] # req[p]
    BY <2>1 DEF Busy
  <2>3. Handler(p)
    BY <2>2, OthersMove, HandlerAlone DEF vars, server
  <2>4. \/ SetPassword(p) \/ InstallKey(p) \/ SaveNext(p) \/ ApplyNext(p) \/ Undo(p)
        \/ Reapply(p) \/ Tell(p) \/ Finish(p)
    BY <2>1, <2>3 DEF Handler, Refuse, Accept, Busy
  <2>5. ~marred
    BY <2>4 DEF SetPassword, InstallKey, SaveNext, ApplyNext, Undo, Reapply, Tell, Finish,
                RcService, ghosts
  <2>6. Stands(p) /\ Remembers(p)
    BY <2>5 DEF AgreeInv, KeysInv
  <2>7. RestoredKeys(p).keys = req[p].found \/ req[p].step \in {"password", "key"}
    BY <2>0, <2>1, <2>6 DEF RestoredKeys, Remembers, WorldTyped
  <2>8. CASE SetPassword(p) \/ InstallKey(p)
    <3>1. Fail(p)
      BY <2>0, <2>8 DEF SetPassword, InstallKey, Goes, ServerTyped, Request
    <3>2. /\ logins' = logins /\ stored' = stored /\ files' = files
          /\ req[p].step \in {"password", "key"}
      <4>1. ~(Goes(p, "key") /\ NoHit) \/ req'[p].step = "key"
        BY <2>0 DEF Goes, ServerTyped, Request
      <4>2. ~InstallKey(p) \/ req'[p].step = "checked" \/ UNCHANGED logins
        BY <2>0 DEF InstallKey, ServerTyped, Request
      <4>. QED BY <2>8, <4>1, <4>2 DEF SetPassword, InstallKey
    <3>. QED BY <2>1, <2>6, <3>2 DEF Stands, Remembers
  <2>9. CASE SaveNext(p)
    <3>1. ~Goes(p, "saved")
      BY <2>0 DEF Goes, ServerTyped, Request
    <3>2. stored' = stored /\ files' = files /\ logins' = RestoredKeys(p) /\ req[p].step = "checked"
      BY <2>5, <2>9, <3>1 DEF SaveNext
    <3>. QED BY <2>6, <2>7, <3>2 DEF Stands
  <2>10. CASE Reapply(p)
    BY <2>5, <2>6, <2>7, <2>10 DEF Reapply, Apply, Stands
  <2>11. \/ req'[p].step # "failed" \/ SetPassword(p) \/ InstallKey(p) \/ SaveNext(p)
         \/ Reapply(p)
    BY <2>0, <2>4 DEF ApplyNext, Undo, Tell, Finish, Goes, NoRequest, ServerTyped, Request
  <2>. QED BY <2>8, <2>9, <2>10, <2>11
<1>. HIDE DEF A
<1>2. Spec => [][A]_vars
  BY <1>1, TypesHold, AgreementHolds, KeysHold, PTL DEF Spec
<1>. QED BY <1>2 DEF A, ErrorsChangeNothing
=============================================================================
