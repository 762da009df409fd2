------------------------------ MODULE Handover ------------------------------
(***************************************************************************)
(* Who may drive the serial port, and with which settings: the stored      *)
(* configuration (config/store.go), the requests that change it            *)
(* (api/server.go, api/setup.go), what is generated from it                *)
(* (runtime/runtime.go), the two services of which it names one            *)
(* (rootfs/etc/init.d), and the watch that restarts a bridge that does not *)
(* answer (runtime/bridgewatch.go).                                        *)
(*                                                                         *)
(* A configuration is four things here: is the file readable, is the first *)
(* setup complete, the GRBL section, and the Wi-Fi section.  The tag of a  *)
(* configuration is its content, so a page holds the configuration it      *)
(* loaded.                                                                 *)
(***************************************************************************)
EXTENDS Naturals, Sequences

CONSTANTS
  Pages,        \* the callers of the API, browser pages or scripts
  Settings,     \* GRBL sections: records with a field "backend"
  DefaultGrbl,  \* the one of Default()
  Wifis,        \* Wi-Fi sections
  Keys,         \* contents of authorized_keys
  Choices,      \* what the setup wizard asks for: a new password, a key
  None,         \* no page, no configuration, no settings, no key
  Failures,     \* unanswered questions that make a hang
  Faults,       \* what may go wrong
  MaxRequests,  \* bound: requests altogether
  MaxHits       \* bound: faults altogether

Services == {"ser2net", "laserbridged"}
FaultKinds == {"save", "apply", "rc", "wedge", "crash", "death", "power", "edit"}

ASSUME NamesAssumption == None \notin Pages \cup Settings \cup Keys
ASSUME ChoicesAssumption == Choices \subseteq [password : BOOLEAN, key : Keys \cup {None}]
ASSUME SettingsAssumption == /\ DefaultGrbl \in Settings
                             /\ \A g \in Settings : g.backend \in Services
ASSUME FailuresAssumption == Failures \in Nat \ {0}
ASSUME BoundAssumption == {MaxRequests, MaxHits} \subseteq Nat /\ Faults \subseteq FaultKinds

Config == [usable : BOOLEAN, ready : BOOLEAN, grbl : Settings, wifi : Wifis]
Steps  == {"idle", "asked", "password", "key", "checked", "saved", "undo", "reapply", "tell",
           "failed"}

VARIABLES
  stored,   \* the configuration file
  files,    \* what Apply last generated from it
  logins,   \* the account's password, shipped or chosen, and authorized_keys
  proc,     \* each service: its state, and the settings it was started with
  mu,       \* Server.mu
  held,     \* the configuration each page has loaded
  req,      \* the request each page has under way
  watch,    \* BridgeWatch.Watch
  requests, \* counters of the bounds
  hits,
  marred,   \* history: something went wrong that nobody undoes before a boot
  slipped   \* history: was the file edited by hand since mu was taken?

server == <<mu, held, req>>
disk   == <<stored, files, logins>>
ghosts == <<marred, slipped>>
vars   == <<disk, proc, server, watch, requests, hits, ghosts>>

NoChoice  == [password |-> FALSE, key |-> None]
NoRequest == [step |-> "idle", section |-> "grbl", value |-> DefaultGrbl,
              choice |-> NoChoice, was |-> None, found |-> None,
              prev |-> None, next |-> None, todo |-> <<>>]
Off       == [state |-> "stopped", with |-> None]
Down      == [state |-> "down", with |-> None]
Watching  == [at |-> "idle", missed |-> 0, cool |-> TRUE]

\* ser2net.yaml, network-mode, wpa_supplicant.conf.
FilesOf(c) == [ser2net |-> c.grbl, ready |-> c.ready, wifi |-> c.wifi]

\* A fault of this kind happens, and there is one fewer to come.
Hit(kind) == kind \in Faults /\ hits < MaxHits /\ hits' = hits + 1
NoHit     == hits' = hits

-----------------------------------------------------------------------------
(***************************************************************************)
(* The two services.                                                       *)
(***************************************************************************)

\* "laserbridge grbl-backend": is it the service that should run?
Named(s) == stored.usable /\ stored.grbl.backend = s

\* laserbridged reads the configuration itself, ser2net the file generated
\* from it.
Run(s) == [state |-> "up",
           with |-> IF s = "laserbridged" THEN stored.grbl ELSE files.ser2net]

\* start_pre asks the configuration; a respawn does not run it.
Start(s) == IF Named(s) THEN Run(s) ELSE Off

\* What rc-service leaves behind, and what it may leave behind when it fails: a
\* service that went on running, one that is stopped but did not start again,
\* and for a frozen one a service marked as stopped.
Rc(s, action) == CASE action = "stop"    -> Off
                   [] action = "restart" -> Start(s)
                   [] action = "start"   -> IF proc[s] = Off THEN Start(s) ELSE proc[s]
Botched(s, action) ==
  {IF proc[s].state = "wedged" /\ action # "start" THEN Off ELSE proc[s]}
    \cup (IF action = "restart" THEN {Off} ELSE {})

\* A request that may yet be taken back has its configuration in the file.
Provisional == \E p \in Pages : req[p].step \in {"saved", "undo", "reapply"}

RcService(s, action) ==
  /\ \/ /\ proc' = [proc EXCEPT ![s] = Rc(s, action)]
        /\ NoHit
        /\ marred' = (marred \/ Provisional)
     \/ /\ IF proc[s].state = "wedged" THEN NoHit ELSE Hit("rc")
        /\ \E left \in Botched(s, action) : proc' = [proc EXCEPT ![s] = left]
        /\ marred' = TRUE
  /\ UNCHANGED slipped

\* A process exits, and supervise-daemon starts it again.
Crash(s) ==
  /\ proc[s].state = "up"
  /\ Hit("crash")
  /\ proc' = [proc EXCEPT ![s] = Down]
  /\ UNCHANGED <<disk, server, watch, requests, ghosts>>

Respawn(s) ==
  /\ proc[s] = Down
  /\ s = "laserbridged" => stored.usable
  /\ proc' = [proc EXCEPT ![s] = Run(s)]
  /\ marred' = (marred \/ Provisional)
  /\ UNCHANGED <<disk, server, watch, requests, hits, slipped>>

\* The bridge stops answering, and does not exit.
Wedge ==
  /\ proc["laserbridged"].state = "up"
  /\ Hit("wedge")
  /\ proc' = [proc EXCEPT !["laserbridged"].state = "wedged"]
  /\ UNCHANGED <<disk, server, watch, requests, ghosts>>

-----------------------------------------------------------------------------
(***************************************************************************)
(* The requests.                                                           *)
(***************************************************************************)

Idle(p) == req[p].step \in {"idle", "failed"}

\* GET /api/config: the configuration and its tag, for the requests to come.
GetConfig(p) ==
  /\ Idle(p) /\ requests < MaxRequests
  /\ stored.usable
  /\ held' = [held EXCEPT ![p] = stored]
  /\ UNCHANGED <<disk, proc, mu, req, watch, requests, hits, ghosts>>

\* A page asks for another GRBL section (PUT /api/config), or another Wi-Fi
\* section (PUT /api/wifi), or completes the setup with one (POST /api/setup).
\* Who has loaded nothing sends no tag; setupStatus says whether a setup is
\* required.
Ask(p, section, value, choice) ==
  /\ Idle(p) /\ requests < MaxRequests
  /\ section = "setup" => ~stored.ready
  /\ req' = [req EXCEPT ![p] = [NoRequest EXCEPT !.step = "asked", !.section = section,
                                                 !.value = value, !.choice = choice]]
  /\ requests' = requests + 1
  /\ UNCHANGED <<disk, proc, mu, held, watch, hits, ghosts>>

Goes(p, step) == req' = [req EXCEPT ![p].step = step]

\* Mutant: an error returns with the lock.
FailLocked(p) == UNCHANGED mu /\ req' = [req EXCEPT ![p] = [NoRequest EXCEPT !.step = "failed"]]

\* The request ends with an error, and the deferred unlock runs.
Fail(p) ==
  /\ req' = [req EXCEPT ![p] = [NoRequest EXCEPT !.step = "failed"]]
  /\ mu' = None

\* machineBusy: the only evidence of a running job is the bridge's word.
MayBeBusy == Named("laserbridged") /\ proc["laserbridged"].state = "up"

Stale(p) == req[p].section = "grbl" /\ held[p] \notin {None, stored}

\* The setup is completed once.
TooLate(p) == req[p].section = "setup" /\ stored.ready

\* The configuration cannot be read, the tag is of another one, the setup is
\* complete, or a save that restarts the bridge would interrupt a job and nobody
\* said force.
Refuse(p) ==
  /\ req[p].step = "asked" /\ mu = None
  /\ \/ ~stored.usable
     \/ Stale(p) \/ TooLate(p)
     \/ req[p].section = "grbl" /\ req[p].value # stored.grbl /\ MayBeBusy
  /\ Fail(p)
  /\ UNCHANGED <<disk, proc, held, watch, requests, hits, ghosts>>

\* Each handler changes its own section of what is stored now.
Amended(c, r) ==
  IF r.section = "setup" THEN [c EXCEPT !.ready = TRUE, !.wifi = r.value]
                         ELSE [c EXCEPT ![r.section] = r.value]

\* The configuration that was found and the one to be saved; the setup has the
\* account to see to first.  (History: the keys that were found.)
Checked(r) == [r EXCEPT !.step = IF r.section = "setup" THEN "password" ELSE "checked",
                        !.prev = stored, !.next = Amended(stored, r), !.found = logins.keys]

\* Mutant: the tag is compared and the configuration read without the lock.
AcceptUnlocked(p) ==
  /\ req[p].step = "asked"
  /\ stored.usable /\ ~Stale(p) /\ ~TooLate(p)
  /\ mu' = p
  /\ req' = [req EXCEPT ![p] = Checked(@)]
  /\ slipped' = FALSE
  /\ UNCHANGED <<disk, proc, held, watch, requests, hits, marred>>

Accept(p) ==
  /\ req[p].step = "asked" /\ mu = None
  /\ stored.usable /\ ~Stale(p) /\ ~TooLate(p)
  /\ mu' = p
  /\ req' = [req EXCEPT ![p] = Checked(@)]
  /\ slipped' = FALSE
  /\ UNCHANGED <<disk, proc, held, watch, requests, hits, marred>>

\* "The password is changed first: it is the one step that cannot be undone
\* afterwards" (completeSetup).
SetPassword(p) ==
  /\ req[p].step = "password"
  /\ \/ /\ logins' = [logins EXCEPT !.password = IF req[p].choice.password THEN "chosen" ELSE @]
        /\ Goes(p, "key") /\ NoHit /\ UNCHANGED mu
     \/ req[p].choice.password /\ Hit("save") /\ Fail(p) /\ UNCHANGED logins
  /\ UNCHANGED <<stored, files, proc, held, watch, requests, ghosts>>

\* authorized_keys is read, for authorizedRestorer, and replaced if a key was
\* chosen.
InstallKey(p) ==
  /\ req[p].step = "key"
  /\ \/ /\ logins' = [logins EXCEPT !.keys =
                        IF req[p].choice.key # None THEN req[p].choice.key ELSE @]
        /\ req' = [req EXCEPT ![p].step = "checked", ![p].was = logins.keys]
        /\ NoHit /\ UNCHANGED mu
     \/ req[p].choice.key # None /\ Hit("save") /\ Fail(p) /\ UNCHANGED logins
  /\ UNCHANGED <<stored, files, proc, held, watch, requests, ghosts>>

\* What authorizedRestorer returns.  The other handlers have no key to restore.
RestoredKeys(p) ==
  IF req[p].section = "setup" THEN [logins EXCEPT !.keys = req[p].was] ELSE logins

\* Store.Save replaces the file, or leaves it as it was.  In the latter case the
\* key is taken back, and nobody looks whether that works.
SaveNext(p) ==
  /\ req[p].step = "checked"
  /\ \/ stored' = req[p].next /\ Goes(p, "saved") /\ NoHit /\ UNCHANGED <<mu, logins, marred>>
     \/ /\ Hit("save") /\ Fail(p) /\ UNCHANGED stored
        /\ \/ logins' = RestoredKeys(p) /\ UNCHANGED marred
           \/ logins # RestoredKeys(p) /\ UNCHANGED logins /\ marred' = TRUE
  /\ UNCHANGED <<files, proc, held, watch, requests, slipped>>

\* Manager.Apply reads the store and writes one file after the other.  It may
\* stop before the first of them, between two of them, or after the last one.
Apply == stored.usable /\ files' = FilesOf(stored)
Partly == files' \in IF stored.usable
                     THEN {files, [files EXCEPT !.ser2net = stored.grbl],
                           [FilesOf(stored) EXCEPT !.wifi = files.wifi], FilesOf(stored)}
                     ELSE {files}

\* Mutant: the backend in charge is started rather than restarted.
StartAction(s, c) == IF c.grbl.backend = s THEN "start" ELSE "stop"

\* Both backends are told to reconsider.
changedServices(a, b) == IF a.grbl # b.grbl THEN <<"ser2net", "laserbridged">> ELSE <<>>
desiredAction(s, c) == IF c.grbl.backend = s THEN "restart" ELSE "stop"

ApplyNext(p) ==
  /\ req[p].step = "saved"
  /\ \/ /\ Apply
        /\ req' = [req EXCEPT ![p].step = "tell",
                              ![p].todo = changedServices(req[p].prev, req[p].next)]
        /\ NoHit
     \/ /\ Partly /\ Goes(p, "undo")
        /\ IF stored.usable THEN Hit("apply") ELSE NoHit
  /\ UNCHANGED <<stored, logins, proc, mu, held, watch, requests, ghosts>>

\* What made Apply fail, a full disk for one, may make the rest fail as well,
\* and nobody looks.
Undo(p) ==
  /\ req[p].step = "undo"
  /\ \/ stored' = req[p].prev /\ UNCHANGED marred
     \/ marred' = TRUE /\ UNCHANGED stored
  /\ Goes(p, "reapply")
  /\ UNCHANGED <<files, logins, proc, mu, held, watch, requests, hits, slipped>>

\* Mutant: the file is put back and nothing is generated from it again.
UndoOnly(p) ==
  /\ req[p].step = "reapply"
  /\ Fail(p)
  /\ UNCHANGED <<disk, proc, held, watch, requests, hits, ghosts>>

Reapply(p) ==
  /\ req[p].step = "reapply"
  /\ \/ Apply /\ logins' = RestoredKeys(p) /\ UNCHANGED marred
     \/ Partly /\ logins' \in {logins, RestoredKeys(p)} /\ marred' = TRUE
  /\ Fail(p)
  /\ UNCHANGED <<stored, proc, held, watch, requests, hits, slipped>>

\* A service that does not obey is a warning in the answer.
Tell(p) ==
  LET s == Head(req[p].todo) IN
  /\ req[p].step = "tell" /\ req[p].todo # <<>>
  /\ RcService(s, desiredAction(s, req[p].next))
  /\ req' = [req EXCEPT ![p].todo = Tail(@)]
  /\ UNCHANGED <<disk, mu, held, watch, requests>>

\* The answer carries the tag of what was written.
Finish(p) ==
  /\ req[p].step = "tell" /\ req[p].todo = <<>>
  /\ held' = [held EXCEPT ![p] = IF req[p].section = "grbl" THEN req[p].next ELSE @]
  /\ req' = [req EXCEPT ![p] = NoRequest]
  /\ mu' = None
  /\ UNCHANGED <<disk, proc, watch, requests, hits, ghosts>>

Handler(p) == \/ Refuse(p) \/ Accept(p) \/ SetPassword(p) \/ InstallKey(p)
              \/ SaveNext(p) \/ ApplyNext(p)
              \/ Undo(p) \/ Reapply(p) \/ Tell(p) \/ Finish(p)

\* POST /api/services takes no lock.  A stop is somebody's wish.
serviceAction(s, action) ==
  /\ requests < MaxRequests
  /\ requests' = requests + 1
  /\ \/ /\ RcService(s, action)
        /\ action # "stop"
     \/ /\ action = "stop"
        /\ proc' = [proc EXCEPT ![s] = Off]
        /\ marred' = TRUE
        /\ UNCHANGED <<hits, slipped>>
  /\ UNCHANGED <<disk, server, watch>>

-----------------------------------------------------------------------------
(***************************************************************************)
(* BridgeWatch.                                                            *)
(***************************************************************************)

\* Only a bridge that should run is asked.
Tick ==
  /\ watch.at = "idle"
  /\ watch' = IF Named("laserbridged") THEN [watch EXCEPT !.at = "ask"]
                                       ELSE [watch EXCEPT !.missed = 0]
  /\ UNCHANGED <<disk, proc, server, requests, hits, ghosts>>

\* One more question without an answer.  Beyond Failures the count is not
\* looked at.
Missed == IF watch.missed < Failures THEN watch.missed + 1 ELSE Failures

Question ==
  /\ watch.at = "ask"
  /\ \/ /\ proc["laserbridged"].state = "up"
        /\ watch' = [watch EXCEPT !.at = "idle", !.missed = 0]
     \/ /\ proc["laserbridged"].state # "up"
        /\ watch' = [watch EXCEPT !.missed = Missed,
                       !.at = IF Missed = Failures /\ watch.cool THEN "restart" ELSE "idle"]
  /\ UNCHANGED <<disk, proc, server, requests, hits, ghosts>>

\* Mutant, and an earlier version of the code: a bridge that is not running
\* cannot hang, and is left alone.
RestartRunning ==
  /\ watch.at = "restart"
  /\ IF proc["laserbridged"] = Off
     THEN watch' = Watching /\ UNCHANGED <<proc, hits, ghosts>>
     ELSE RcService("laserbridged", "restart") /\ watch' = [watch EXCEPT !.at = "status"]
  /\ UNCHANGED <<disk, server, requests>>

Restart ==
  /\ watch.at = "restart"
  /\ RcService("laserbridged", "restart")
  /\ watch' = [watch EXCEPT !.at = "status"]
  /\ UNCHANGED <<disk, server, requests>>

Restarted == [at |-> "idle", missed |-> 0, cool |-> FALSE]

\* A restart that ends with the service stopped is followed by a start.
Status ==
  /\ watch.at = "status"
  /\ watch' = IF proc["laserbridged"] = Off THEN [watch EXCEPT !.at = "start"] ELSE Restarted
  /\ UNCHANGED <<disk, proc, server, requests, hits, ghosts>>

StartIt ==
  /\ watch.at = "start"
  /\ RcService("laserbridged", "start")
  /\ watch' = Restarted
  /\ UNCHANGED <<disk, server, requests>>

CoolDown ==
  /\ ~watch.cool
  /\ watch' = [watch EXCEPT !.cool = TRUE]
  /\ UNCHANGED <<disk, proc, server, requests, hits, ghosts>>

Watch == Tick \/ Question \/ Restart \/ Status \/ StartIt

-----------------------------------------------------------------------------
(***************************************************************************)
(* Boots, dying processes, and the editor at the SSH prompt.               *)
(***************************************************************************)

\* Store.Ensure: of a file that cannot be used, Salvage keeps the network, and
\* with it that the setup is complete.
Ensured(c) == IF c.usable THEN c ELSE [c EXCEPT !.usable = TRUE, !.grbl = DefaultGrbl]

Up(c) == [s \in Services |-> IF s = c.grbl.backend THEN [state |-> "up", with |-> c.grbl]
                                                   ELSE Off]

\* The power goes and comes back: laserbridge-init, then whichever service the
\* configuration names.
Boot ==
  /\ Hit("power")
  /\ stored' = Ensured(stored)
  /\ files' = FilesOf(stored')
  /\ proc' = Up(stored')
  /\ mu' = None
  /\ req' = [p \in Pages |-> NoRequest]
  /\ watch' = Watching
  /\ marred' = FALSE /\ slipped' = FALSE
  /\ UNCHANGED <<logins, held, requests>>

\* The web backend alone: its handlers and its watch are gone wherever they
\* were, and "serve" ensures the file but applies nothing.
WebDies ==
  /\ Hit("death")
  /\ stored' = Ensured(stored)
  /\ mu' = None
  /\ req' = [p \in Pages |-> NoRequest]
  /\ watch' = Watching
  /\ marred' = (marred \/ mu # None)
  /\ UNCHANGED <<files, logins, proc, held, requests, slipped>>

\* Over SSH: another GRBL section, or one the program cannot use.
EditByHand ==
  /\ Hit("edit")
  /\ stored' \in {[stored EXCEPT !.usable = FALSE]}
                   \cup {[stored EXCEPT !.grbl = g] : g \in Settings}
  /\ marred' = TRUE /\ slipped' = TRUE
  /\ UNCHANGED <<files, logins, proc, server, watch, requests>>

-----------------------------------------------------------------------------
Init ==
  /\ stored \in {c \in Config : c.usable}
  /\ files = FilesOf(stored)
  /\ logins = [password |-> IF stored.ready THEN "chosen" ELSE "shipped", keys |-> None]
  /\ proc = Up(stored)
  /\ mu = None
  /\ held = [p \in Pages |-> None]
  /\ req = [p \in Pages |-> NoRequest]
  /\ watch = Watching
  /\ requests = 0 /\ hits = 0
  /\ marred = FALSE /\ slipped = FALSE

Next ==
  \/ \E p \in Pages : \/ GetConfig(p) \/ Handler(p)
                      \/ \E g \in Settings : Ask(p, "grbl", g, NoChoice)
                      \/ \E w \in Wifis : Ask(p, "wifi", w, NoChoice)
                      \/ \E w \in Wifis, c \in Choices : Ask(p, "setup", w, c)
  \/ \E s \in Services : \/ Crash(s) \/ Respawn(s)
                         \/ \E action \in {"start", "stop", "restart"} : serviceAction(s, action)
  \/ Wedge \/ Watch \/ CoolDown
  \/ Boot \/ WebDies \/ EditByHand

Spec == Init /\ [][Next]_vars

\* Goroutines are scheduled, the ticker ticks, time passes, and the supervisor
\* respawns.  Nobody has to use the appliance.
Fairness ==
  /\ \A p \in Pages : WF_vars(Handler(p))
  /\ \A s \in Services : WF_vars(Respawn(s))
  /\ WF_vars(Watch) /\ WF_vars(CoolDown)

FairSpec == Spec /\ Fairness

-----------------------------------------------------------------------------
(***************************************************************************)
(* Properties.                                                             *)
(***************************************************************************)

Request == [step : Steps, section : {"grbl", "wifi", "setup"}, value : Settings \cup Wifis,
            choice : Choices \cup {NoChoice}, was : Keys \cup {None},
            found : Keys \cup {None},
            prev : Config \cup {None}, next : Config \cup {None},
            todo : {<<>>, <<"laserbridged">>, <<"ser2net", "laserbridged">>}]
Process == [state : {"stopped", "up", "wedged", "down"}, with : Settings \cup {None}]

\* Types, and the lock: whoever is past the checks of putConfig, updateWiFi or
\* completeSetup holds Server.mu.
TypeOK ==
  /\ stored \in Config
  /\ files \in [ser2net : Settings, ready : BOOLEAN, wifi : Wifis]
  /\ logins \in [password : {"shipped", "chosen"}, keys : Keys \cup {None}]
  /\ proc \in [Services -> Process]
  /\ mu \in Pages \cup {None}
  /\ held \in [Pages -> Config \cup {None}]
  /\ req \in [Pages -> Request]
  /\ watch \in [at : {"idle", "ask", "restart", "status", "start"},
                missed : 0 .. Failures, cool : BOOLEAN]
  /\ requests \in 0 .. MaxRequests /\ hits \in 0 .. MaxHits
  /\ marred \in BOOLEAN /\ slipped \in BOOLEAN
  /\ \A p \in Pages : mu = p <=> req[p].step \notin {"idle", "asked", "failed"}

\* Does a service do what this configuration says: run, and with its settings,
\* or not run?
Agrees(s, c) ==
  /\ proc[s] # Off <=> s = c.grbl.backend
  /\ proc[s].state \in {"up", "wedged"} => proc[s].with = c.grbl

\* Whenever no request is under way, the file, what was generated from it and
\* the processes agree: the backend the configuration names runs, with the
\* settings that are stored, and the other one does not.  The exceptions are
\* those nobody repairs before the next boot: a hand-made edit, a stop somebody
\* asked for, a service command that failed, two failures of one request, a web
\* backend that died in the middle, and a service that was started on a
\* configuration that was then taken back (putConfig, Apply, changedServices).
SettledAgrees ==
  mu = None /\ ~marred =>
    /\ stored.usable /\ files = FilesOf(stored)
    /\ \A s \in Services : Agrees(s, stored)

\* A save replaces what its author has seen, and only the section it is about:
\* no page overwrites another one's work unknown to it, no handler another one's
\* section, and the setup is completed once, unless the file is edited by hand
\* while the lock is held (the If-Match check of putConfig, next.WiFi =
\* previous.WiFi, updateWiFi, "initial setup is already complete").
NobodyIsOverwritten ==
  [][\A p \in Pages :
       req[p].step = "checked" /\ req'[p].step = "saved" /\ ~slipped =>
         CASE req[p].section = "grbl"  -> /\ held[p] \in {None, stored}
                                          /\ stored'.wifi = stored.wifi
                                          /\ stored'.ready = stored.ready
           [] req[p].section = "wifi"  -> /\ stored'.grbl = stored.grbl
                                          /\ stored'.ready = stored.ready
           [] req[p].section = "setup" -> /\ stored'.grbl = stored.grbl
                                          /\ ~stored.ready]_vars

\* A request that is answered with an error leaves the file, what is generated
\* from it and the authorized keys as they were when it took the lock, if one
\* thing went wrong and not two (putConfig, "apply failed; previous config
\* restored"; authorizedRestorer, "so a failed setup can be undone").
ErrorsChangeNothing ==
  [][\A p \in Pages :
       mu = p /\ req'[p].step = "failed" /\ ~marred' =>
         /\ stored' = req[p].prev /\ files' = FilesOf(req[p].prev)
         /\ logins'.keys = req[p].found]_vars

\* A configuration that goes on naming laserbridged has a bridge that answers,
\* again and again: one that hangs, that was stopped by hand, that a failed
\* service command or a request taken back left stopped is brought up again
\* (BridgeWatch.Watch).
BridgeComesBack ==
  <>[]Named("laserbridged") => []<>(proc["laserbridged"].state = "up")
=============================================================================
