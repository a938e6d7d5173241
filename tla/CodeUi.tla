------------------------------- MODULE CodeUi --------------------------------
(***************************************************************************)
(* The dialogs that ask for the PIN and the PUK: lib/code-ui.c on top of   *)
(* the SIM manager of lib/sim.c, for one modem.                            *)
(*                                                                         *)
(* The code UI lives on two callbacks, one for the SIM status and one that *)
(* is asked for a code; each registers and closes the other.  Both are     *)
(* called from idle sources.  The functions of the API wait in nested main *)
(* loops until the state is OK or an error, and a code is typed in one     *)
(* more: while a dialog is open, everything else may happen, a second      *)
(* query included, which takes the dialog of the first away.               *)
(*                                                                         *)
(* frames is the stack of the waiting functions, the innermost first.  The *)
(* calls to oFono are synchronous, so what is between two waits is a step. *)
(***************************************************************************)
EXTENDS Naturals, Sequences

CONSTANTS Code,       \* what can be typed
          None,       \* no code; no user interface; no SIM manager
          MaxTries,   \* the attempts that a SIM allows
          MaxDepth,   \* bound on the functions nested in each other
          MaxSignals, \* bound on the signals waiting to be dispatched
          MaxChanges  \* bound on what happens to the SIM by itself

ASSUME CodeUiAssumption ==
  /\ None \notin Code
  /\ {MaxTries, MaxDepth, MaxSignals} \subseteq Nat \ {0}
  /\ MaxChanges \in Nat

VARIABLES
  sim,      \* the SIM as oFono has it
  signals,  \* the changed properties received and not yet dispatched
  view,     \* sim_data: what the library knows of the SIM
  idle,     \* the idle sources of sim_data
  cbs,      \* which callbacks of the code UI are registered
  show,     \* startup-pin-query, not the settings, has the code UI
  ui,       \* _code_ui
  dangling, \* a sim_status_timeout outlived its code UI
  frames,   \* the waiting functions
  changes   \* how often something happened to the SIM by itself

vars == <<sim, signals, view, idle, cbs, show, ui, dangling, frames, changes>>

(* The PinRequired property; "unknown" is not read yet, "other" any lock   *)
(* of the device.                                                          *)
Pin == {"none", "pin", "puk", "puk2", "other"}

(* enabled: it asks for its PIN when it is started.                        *)
Sim == [present: BOOLEAN, pin: Pin, enabled: BOOLEAN, secret: Code, left: 0..MaxTries]
SimData == [present: BOOLEAN, pin: Pin \cup {"unknown"}]

(* _get_status *)
Status(d) ==
  IF ~d.present THEN "NO_SIM"
  ELSE CASE d.pin = "unknown" -> "UNKNOWN"
         [] d.pin = "none"    -> "OK"
         [] d.pin = "pin"     -> "PIN_REQUIRED"
         [] d.pin = "puk"     -> "PUK_REQUIRED"
         [] d.pin = "puk2"    -> "PUK2_REQUIRED"
         [] d.pin = "other"   -> "LOCKED"

CodeRequired == {"PIN_REQUIRED", "PUK_REQUIRED"}
SimStatus == {"NO_SIM", "UNKNOWN", "OK", "PUK2_REQUIRED", "LOCKED"} \cup CodeRequired

(* What the library knows the SIM to ask for; nothing without its data.    *)
Known == IF view = None THEN "UNKNOWN" ELSE Status(view)

Errors == {"SIM_ERROR", "PIN_ERROR"}
State == Errors \cup {"NONE", "PIN_RETRY", "OK", "STARTUP", "PIN_ENABLE", "NEW_PIN", "CONFIRM_PIN"}

CodeUi == [state: State, status: SimStatus, code: Code \cup {None}, dialog: BOOLEAN,
           note: BOOLEAN, timer: BOOLEAN, verified: BOOLEAN, ok: BOOLEAN]

(* None is told from what may be there instead. *)
ASSUME NoneAssumption == None \notin SimData /\ None \notin CodeUi

Allocated(state) ==
  [state |-> state, status |-> "NO_SIM", code |-> None, dialog |-> FALSE,
   note |-> FALSE, timer |-> FALSE, verified |-> FALSE, ok |-> FALSE]

(* A waiting function: init, update_sim_status and what it is called for,  *)
(* change_code, set_current_code_active (with a call to make next, or an   *)
(* iteration of the main loop), gtk_dialog_run for a note, and get_code    *)
(* with the query that it belongs to.                                      *)
Purpose == [for: {"change"}] \cup [for: {"active"}, want: BOOLEAN]
Wait == [of: {"init", "note"}] \cup [of: {"update"}, goal: Purpose]
        \cup [of: {"repeat"}, goal: Purpose, at: {"call", "wait"}, rv: BOOLEAN]
Query == [of: {"query"}, by: Purpose \cup [for: {"required"}], type: {"pin", "puk"},
          renew: BOOLEAN, step: {"old", "new", "confirm"},
          old: Code \cup {None}, new: Code \cup {None}, alive: BOOLEAN, home: BOOLEAN]

Required == [for |-> "required"]

Top == Head(frames)
In(of) == frames # << >> /\ Top.of = of

(* A query loses its dialog, and with it all that was typed, or the data   *)
(* of the SIM that it goes on to use.                                      *)
EachQuery(stack, F(_)) ==
  [i \in 1..Len(stack) |-> IF stack[i].of = "query" THEN F(stack[i]) ELSE stack[i]]

DialogLost(stack) ==
  LET lost(q) == [q EXCEPT !.alive = FALSE, !.step = "old", !.old = None, !.new = None]
  IN EachQuery(stack, lost)

DataLost(stack) == LET lost(q) == [q EXCEPT !.home = FALSE] IN EachQuery(stack, lost)

Failed(u) == u.state \in Errors
Settled(u) == u.state \in Errors \cup {"OK"}

(* A loop that looks at the state would end.  It looks when the main loop  *)
(* has dispatched everything that was ready at the same priority.          *)
MustReturn ==
  \/ (In("init") \/ In("update")) /\ Settled(ui)
  \/ In("repeat") /\ (Top.at = "call" \/ (Top.goal.for = "change" /\ (ui.status = "OK" \/ Failed(ui))))
  \/ In("query") /\ ~Top.alive

InMainLoop == ~MustReturn

(* _notify_status, _notify_security_code: the source is made for data.     *)
Source(kind) == IF view' = None THEN {} ELSE {kind}

Init ==
  /\ sim \in [present: BOOLEAN, pin: {"none", "pin"}, enabled: BOOLEAN, secret: Code,
             left: {MaxTries}]
  /\ sim.pin = "pin" => sim.present /\ sim.enabled
  /\ signals = << >>
  /\ view = [present |-> sim.present, pin |-> sim.pin]
  /\ idle = {}
  /\ cbs = {}
  /\ show = FALSE
  /\ ui = None
  /\ dangling = FALSE
  /\ frames = << >>
  /\ changes = 0

(* The end of the process, orderly or not; the SIM stays as it is.         *)
ProcessEnds ==
  /\ signals' = << >>
  /\ view' = [present |-> sim.present, pin |-> sim.pin]
  /\ idle' = {}
  /\ cbs' = {}
  /\ ui' = None
  /\ dangling' = FALSE
  /\ frames' = << >>
  /\ UNCHANGED <<sim, show, changes>>

(* connui_cell_code_ui_destroy: the SIM status timeout is not removed.     *)
Destroy ==
  /\ cbs' = {}
  /\ dangling' = (dangling \/ ui.timer)
  /\ ui' = None
-----------------------------------------------------------------------------
(* The SIM and oFono *)

(* What becomes of a SIM when it is offered a wrong code for s.pin. *)
Punished(s, type) ==
  IF s.left > 1 THEN [s EXCEPT !.left = @ - 1]
  ELSE IF type = "pin" THEN [s EXCEPT !.pin = "puk", !.left = MaxTries]
  ELSE [s EXCEPT !.left = 0]

(* A call that brings the SIM from s to good if the code is right; the     *)
(* call may fail before it reaches the SIM, or after.                      *)
Outcomes(s, type, right, good) ==
  {[sim |-> s, ok |-> FALSE]} \cup
  (IF ~s.present THEN {}
   ELSE IF right THEN {[sim |-> good, ok |-> TRUE], [sim |-> good, ok |-> FALSE]}
   ELSE {[sim |-> Punished(s, type), ok |-> FALSE]})

Renewed(s, new) == [s EXCEPT !.secret = IF new = None THEN @ ELSE new]

(* EnterPin, and ChangePin or ResetPin for a SIM that asks for its PUK.    *)
Unlocked(s, type, old, new) ==
  IF s.pin # type THEN {[sim |-> s, ok |-> FALSE]}
  ELSE LET good == [Renewed(s, new) EXCEPT !.pin = "none", !.left = MaxTries] IN
       IF type = "pin" THEN Outcomes(s, type, old = s.secret, good)
       ELSE Outcomes(s, type, FALSE, good) \cup
            (IF s.left > 0 THEN Outcomes(s, type, TRUE, good) ELSE {})

ChangePin(s, old, new) == Outcomes(s, "pin", old = s.secret, Renewed(s, new))

(* LockPin, UnlockPin *)
SetQuery(s, code, want) == Outcomes(s, "pin", code = s.secret, [s EXCEPT !.enabled = want])

(* The properties that differ are announced to a SIM manager proxy. *)
Announced(new) ==
  IF view = None THEN << >>
  ELSE signals \o (IF new.present = sim.present THEN << >>
                   ELSE << [name |-> "Present", present |-> new.present] >>)
               \o (IF new.pin = sim.pin THEN << >>
                   ELSE << [name |-> "PinRequired", pin |-> new.pin] >>)

(* What the code UI does not do: the SIM is put in or taken out, restarted *)
(* or blocked, or its code is entered elsewhere.                           *)
SimChanges ==
  /\ InMainLoop
  /\ changes < MaxChanges
  /\ \E present \in BOOLEAN, pin \in Pin :
       /\ ~present => pin = "none"
       /\ pin = "pin" => sim.enabled
       /\ <<present, pin>> # <<sim.present, sim.pin>>
       /\ sim' = [sim EXCEPT !.present = present, !.pin = pin, !.left = MaxTries]
  /\ signals' = Announced(sim')
  /\ Len(signals') <= MaxSignals
  /\ changes' = changes + 1
  /\ UNCHANGED <<view, idle, cbs, show, ui, dangling, frames>>
-----------------------------------------------------------------------------
(* connui_cell_code_ui_sim_status_cb *)

(* A status that is an error to the user: a state of error is entered, and *)
(* at startup a note is shown.                                             *)
Noted(s) ==
  \/ s = "LOCKED"
  \/ /\ ui.state # "STARTUP"
     /\ s \in {"NO_SIM", "UNKNOWN"} \/ (s \in CodeRequired /\ ~ui.verified)

StateTold(s) ==
  IF s = "OK" THEN "OK"
  ELSE IF ~Noted(s) THEN ui.state
  ELSE IF s \notin CodeRequired THEN "SIM_ERROR"
  ELSE IF show THEN "PIN_ERROR" ELSE "PIN_RETRY"

WaitsForBetter(s) == s = "PUK2_REQUIRED" \/ (s = "UNKNOWN" /\ ui.state = "STARTUP")

(* Mutant: the callback is closed without asking to be asked. *)
StatusSeen_Unasked(u, sources) ==
  /\ ui' = u
  /\ cbs' = cbs \ {"status"}
  /\ idle' = sources

(* Mutant: registering does not look whether a code is required already. *)
StatusSeen_NoSource(u, sources) ==
  /\ ui' = u
  /\ cbs' = (cbs \ {"status"}) \cup (IF Failed(u) THEN {} ELSE {"code"})
  /\ idle' = sources

(* The end of the callback: without an error it asks to be asked for codes *)
(* and closes itself.                                                      *)
StatusSeen(u, sources) ==
  /\ ui' = u
  /\ cbs' = (cbs \ {"status"}) \cup (IF Failed(u) THEN {} ELSE {"code"})
  /\ idle' = sources \cup (IF Failed(u) THEN {} ELSE Source("code"))

(* sources and stack are the idle sources and the waiting functions as they *)
(* are when the callback is called.                                        *)
StatusTold(s, sources, stack) ==
  LET u == [ui EXCEPT !.status = s, !.state = StateTold(s), !.timer = WaitsForBetter(s)]
      returns == WaitsForBetter(s) \/ (s = "OK" /\ ui.note)
  IN
  \/ /\ "status" \notin cbs
     /\ idle' = sources
     /\ frames' = stack
     /\ UNCHANGED <<cbs, ui>>
  \/ /\ "status" \in cbs
     /\ returns
     /\ ui' = u
     /\ idle' = sources
     /\ frames' = stack
     /\ UNCHANGED cbs
  \/ /\ "status" \in cbs
     /\ ~returns
     /\ StatusSeen(u, sources)
     /\ frames' = stack
  \/ /\ "status" \in cbs  \* cellular_ui does not answer: the note is shown here
     /\ ~returns
     /\ show /\ Noted(s)
     /\ Len(stack) < MaxDepth
     /\ ui' = [u EXCEPT !.note = TRUE]
     /\ frames' = << [of |-> "note"] >> \o stack
     /\ idle' = sources
     /\ UNCHANGED cbs

NoteClosed ==
  /\ In("note")
  /\ view' = view
  /\ StatusSeen([ui EXCEPT !.note = FALSE], idle)
  /\ frames' = Tail(frames)
  /\ UNCHANGED <<sim, signals, show, dangling, changes>>

(* sim_status_timeout_cb *)
TimerFires ==
  /\ InMainLoop
  /\ ui # None /\ ui.timer
  /\ ui' = [ui EXCEPT !.timer = FALSE, !.state = "SIM_ERROR"]
  /\ cbs' = cbs \ {"status"}
  /\ UNCHANGED <<sim, signals, view, idle, show, dangling, frames, changes>>

(* ... of a code UI that was freed *)
DanglingTimerFires ==
  /\ InMainLoop
  /\ dangling
  /\ ProcessEnds
-----------------------------------------------------------------------------
(* Queries for a code *)

All(reports) == \A i \in 1..Len(reports) : reports[i]
Some(reports) == \E i \in 1..Len(reports) : reports[i]
Last(reports) == reports[Len(reports)]

(* Mutant: the dialog stays when the code is refused. *)
Verified_DialogStays(u, kept, reports) ==
  [u EXCEPT !.dialog = @ /\ ~Some(reports),
            !.state = IF Last(reports) THEN "OK" ELSE @,
            !.status = IF Last(reports) THEN "OK" ELSE "NO_SIM",
            !.code = IF All(reports) THEN kept ELSE None,
            !.verified = @ \/ ~All(reports),
            !.ok = @ \/ (~show /\ Some(reports))]

(* Mutant: the code is kept when it is refused. *)
Verified_CodeKept(u, kept, reports) ==
  [u EXCEPT !.dialog = FALSE,
            !.state = IF Last(reports) THEN "OK" ELSE @,
            !.status = IF Last(reports) THEN "OK" ELSE "NO_SIM",
            !.code = kept,
            !.verified = @ \/ ~All(reports),
            !.ok = @ \/ (~show /\ Some(reports))]

(* Mutant: the SIM status stays OK when the code is refused. *)
Verified_StatusStays(u, kept, reports) ==
  [u EXCEPT !.dialog = FALSE,
            !.state = IF Last(reports) THEN "OK" ELSE @,
            !.status = IF Last(reports) THEN "OK" ELSE @,
            !.code = IF All(reports) THEN kept ELSE None,
            !.verified = @ \/ ~All(reports),
            !.ok = @ \/ (~show /\ Some(reports))]

(* A code is accepted or refused (connui_cell_code_ui_verify_code_cb), for *)
(* every answer in reports; the last one is what the caller returns.       *)
Verified(u, kept, reports) ==
  [u EXCEPT !.dialog = FALSE,
            !.state = IF Last(reports) THEN "OK" ELSE @,
            !.status = IF Last(reports) THEN "OK" ELSE "NO_SIM",
            !.code = IF All(reports) THEN kept ELSE None,
            !.verified = @ \/ ~All(reports),
            !.ok = @ \/ (~show /\ Some(reports))]

(* Back in the function that asked, with its result; u is the code UI.     *)
Resumed(by, stack, rv, u) ==
  CASE by.for = "required" -> stack
    [] by.for = "change"   -> [stack EXCEPT ![1].rv = rv, ![1].at = "wait"]
    [] by.for = "active"   -> IF rv \/ Failed(u) THEN Tail(stack)
                              ELSE [stack EXCEPT ![1].at = "wait"]

(* What a query does at oFono: the SIM it leaves, what was reported, and   *)
(* the PinRequired property if that is read on the way (by verify_code).   *)
Effect(s, reports, read) == [sim |-> s, reports |-> reports, read |-> read]

VerifyRequired(type, old, new) ==
  {Effect(r.sim, <<r.ok>>, r.sim.pin) : r \in Unlocked(sim, type, old, new)}

(* connui_cell_security_code_set_enabled *)
SetEnabled(want, code) ==
  {Effect(r.sim, <<r.ok>>, None) : r \in SetQuery(sim, code, want)}

(* Mutant: the request is switched off with the new PIN, changed or not. *)
Change_NewCode(old, new) ==
  IF view.pin = "pin"
  THEN {Effect(r.sim, <<r.ok, r.ok>>, r.sim.pin) : r \in ChangePin(sim, old, new)}
  ELSE UNION {
    IF ~l.ok THEN {Effect(l.sim, <<FALSE>>, None)}
    ELSE UNION {
      {Effect(u.sim, <<r.ok, u.ok>>, r.sim.pin) : u \in SetQuery(r.sim, new, FALSE)} :
      r \in ChangePin(l.sim, old, new)} :
    l \in SetQuery(sim, old, TRUE)}

(* connui_cell_security_code_change: a SIM that does not ask for its PIN   *)
(* now is made to, and when the PIN was changed, or was not, it is made    *)
(* not to.                                                                 *)
Change(old, new) ==
  IF view.pin = "pin"
  THEN {Effect(r.sim, <<r.ok, r.ok>>, r.sim.pin) : r \in ChangePin(sim, old, new)}
  ELSE UNION {
    IF ~l.ok THEN {Effect(l.sim, <<FALSE>>, None)}
    ELSE UNION {
      {Effect(u.sim, <<r.ok, u.ok>>, r.sim.pin) :
         u \in SetQuery(r.sim, IF r.ok THEN new ELSE old, FALSE)} :
      r \in ChangePin(l.sim, old, new)} :
    l \in SetQuery(sim, old, TRUE)}

EffectsOf(by, type, old, new) ==
  CASE by.for = "required" -> VerifyRequired(type, old, new)
    [] by.for = "active"   -> SetEnabled(by.want, old)
    [] by.for = "change"   -> Change(old, new)

(* The code that is kept, to be used for the next query for a PIN. *)
Kept(type, old, new) == IF type = "puk" \/ new # None THEN new ELSE old

(* Mutant: a property that could not be read is not looked for. *)
Reread_Unchecked(e, fails) ==
  IF e.read = None THEN view ELSE [view EXCEPT !.pin = IF fails THEN None ELSE e.read]

(* _get_pin_required: a property that could not be read changes nothing.   *)
Reread(e, fails) == IF e.read = None \/ fails THEN view ELSE [view EXCEPT !.pin = e.read]

(* connui_cell_code_ui_code_cb has returned codes in u: they are used.     *)
Use(by, type, old, new, u, stack, sources) ==
  /\ \E e \in EffectsOf(by, type, old, new), fails \in BOOLEAN :
       LET bad == ~All(e.reports)
           verified == Verified(u, Kept(type, old, new), e.reports)
       IN
       /\ sim' = e.sim
       /\ view' = Reread(e, fails)
       /\ ui' = verified
       /\ cbs' = IF bad THEN (cbs \ {"code"}) \cup {"status"} ELSE cbs
       /\ idle' = sources \cup (IF bad THEN Source("status") ELSE {})
       /\ frames' = Resumed(by, DialogLost(stack), Last(e.reports), verified)
  /\ signals' = Announced(sim')
  /\ Len(signals') <= MaxSignals
  /\ UNCHANGED <<show, dangling, changes>>

(* connui_cell_code_ui_get_code: any other dialog is destroyed.            *)
Ask(query, u, stack, sources) ==
  /\ Len(stack) < MaxDepth
  /\ ui' = [u EXCEPT !.dialog = TRUE]
  /\ frames' = <<query>> \o DialogLost(stack)
  /\ idle' = sources
  /\ UNCHANGED <<sim, signals, view, cbs, show, dangling, changes>>

NewQuery(by, type, renew, step, old) ==
  [of |-> "query", by |-> by, type |-> type, renew |-> renew, step |-> step,
   old |-> old, new |-> None, alive |-> TRUE, home |-> TRUE]

(* connui_cell_code_ui_code_cb is called.  The code kept is used for a PIN *)
(* without asking.                                                         *)
CodeWanted(by, type, renew, stack, sources) ==
  LET u == [ui EXCEPT !.state = IF @ = "STARTUP" THEN @ ELSE "PIN_ENABLE"]
      known == type = "pin" /\ ui.code # None
  IN
  \/ /\ ~known
     /\ Ask(NewQuery(by, type, renew, "old", None), u, stack, sources)
  \/ /\ known /\ renew
     /\ Ask(NewQuery(by, type, renew, "new", ui.code), [u EXCEPT !.state = "NEW_PIN"], stack, sources)
  \/ /\ known /\ ~renew
     /\ Use(by, type, ui.code, None, u, stack, sources)
-----------------------------------------------------------------------------
(* What the main loop dispatches *)

SignalDispatched ==
  /\ InMainLoop
  /\ signals # << >>
  /\ view # None
  /\ LET s == Head(signals) IN
     view' = IF s.name = "Present" THEN [view EXCEPT !.present = s.present]
             ELSE [view EXCEPT !.pin = s.pin]
  /\ signals' = Tail(signals)
  /\ idle' = {"status", "code"}
  /\ UNCHANGED <<sim, cbs, show, ui, dangling, frames, changes>>

(* _idle_notify_status.  Idle sources wait until all signals are dispatched. *)
IdleStatus ==
  /\ InMainLoop
  /\ signals = << >>
  /\ "status" \in idle
  /\ view' = view
  /\ StatusTold(Status(view), idle \ {"status"}, frames)
  /\ UNCHANGED <<sim, signals, show, dangling, changes>>

(* _idle_notify_security_code, verify_required_pin.  It may be dispatched  *)
(* together with _idle_notify_status, before a loop looks at the state.    *)
IdleCode ==
  /\ signals = << >>
  /\ "code" \in idle
  /\ IF Status(view) \in CodeRequired /\ "code" \in cbs /\ ui.state # "NONE"
     THEN CodeWanted(Required, view.pin, view.pin = "puk", frames, idle \ {"code"})
     ELSE /\ idle' = idle \ {"code"}
          /\ UNCHANGED <<sim, signals, view, cbs, show, ui, dangling, frames, changes>>

(* connui_cell_modem_remove_simmgr: _sim_data_destroy tells UNKNOWN.       *)
SimManagerGoes ==
  /\ InMainLoop
  /\ view # None
  /\ changes < MaxChanges
  /\ view' = None
  /\ signals' = << >>
  /\ StatusTold("UNKNOWN", {}, DataLost(frames))
  /\ changes' = changes + 1
  /\ UNCHANGED <<sim, show, dangling>>

(* connui_cell_modem_add_simmgr; the properties may not be read.           *)
SimManagerComes ==
  /\ InMainLoop
  /\ view = None
  /\ view' \in {[present |-> sim.present, pin |-> sim.pin], [present |-> FALSE, pin |-> "unknown"]}
  /\ idle' = {"status", "code"}
  /\ UNCHANGED <<sim, signals, cbs, show, ui, dangling, frames, changes>>
-----------------------------------------------------------------------------
(* What the user does *)

(* connui_cell_code_ui_init of startup-pin-query, once the modem is        *)
(* online, or of the settings.                                             *)
Launch(startup) ==
  /\ frames = << >>
  /\ ui = None
  /\ show' = startup
  /\ ui' = Allocated(IF startup THEN "STARTUP" ELSE "NONE")
  /\ view' = view
  /\ cbs' = {"status"}
  /\ idle' = idle \cup Source("status")
  /\ frames' = << [of |-> "init"] >>
  /\ UNCHANGED <<sim, signals, dangling, changes>>

(* startup-pin-query ends with the query; the settings keep a code UI that *)
(* is OK.                                                                  *)
InitReturns ==
  /\ In("init")
  /\ Settled(ui)
  /\ IF show THEN ProcessEnds
     ELSE /\ frames' = Tail(frames)
          /\ IF ui.state = "OK" THEN UNCHANGED <<cbs, ui, dangling>> ELSE Destroy
          /\ UNCHANGED <<sim, signals, view, idle, show, changes>>

(* The settings show another modem, or are closed. *)
Close ==
  /\ frames = << >>
  /\ ui # None
  /\ Destroy
  /\ UNCHANGED <<sim, signals, view, idle, show, frames, changes>>

(* ... which the removal of a modem does while a function still waits.     *)
ClosedInside ==
  /\ InMainLoop
  /\ ~show
  /\ frames # << >>
  /\ ProcessEnds

(* change_code and set_current_code_active begin with update_sim_status.   *)
(* The settings can be used while no dialog is open.                       *)
Settings(goal) ==
  /\ InMainLoop
  /\ ui # None /\ ~show
  /\ frames # << >> => Top.of \in {"update", "repeat"}
  /\ Len(frames) < MaxDepth
  /\ view' = view
  /\ ui' = [ui EXCEPT !.state = "STARTUP", !.ok = IF goal.for = "change" THEN FALSE ELSE @]
  /\ cbs' = cbs \cup {"status"}
  /\ idle' = idle \cup Source("status")
  /\ frames' = << [of |-> "update", goal |-> goal] >> \o frames
  /\ UNCHANGED <<sim, signals, show, dangling, changes>>

UpdateReturns ==
  /\ In("update")
  /\ Settled(ui)
  /\ LET done == Failed(ui) \/ (Top.goal.for = "change" /\ ui.ok)
     IN frames' = IF done THEN Tail(frames)
                  ELSE << [of |-> "repeat", goal |-> Top.goal, at |-> "call", rv |-> FALSE] >>
                       \o Tail(frames)
  /\ UNCHANGED <<sim, signals, view, idle, cbs, show, ui, dangling, changes>>

(* connui_cell_security_code_change, connui_cell_security_code_set_enabled *)
(* can ask for a code.                                                     *)
CanAsk == view # None /\ "code" \in cbs /\ ui.state # "NONE"

(* set_current_code_active does not call while a PUK is required.          *)
Skips == Top.goal.for = "active" /\ ui.status = "PUK_REQUIRED"

RepeatAsks ==
  /\ In("repeat")
  /\ Top.at = "call"
  /\ ~Skips
  /\ CanAsk
  /\ CodeWanted(Top.goal, "pin", Top.goal.for = "change", frames, idle)

RepeatCannotAsk ==
  /\ In("repeat")
  /\ Top.at = "call"
  /\ Skips \/ ~CanAsk
  /\ frames' = Resumed(Top.goal, frames, FALSE, ui)
  /\ UNCHANGED <<sim, signals, view, idle, cbs, show, ui, dangling, changes>>

(* The loop of set_current_code_active, after the main loop dispatched     *)
(* something.                                                              *)
ActiveAgain ==
  /\ In("repeat")
  /\ Top.at = "wait" /\ Top.goal.for = "active"
  /\ frames' = [frames EXCEPT ![1].at = "call"]
  /\ UNCHANGED <<sim, signals, view, idle, cbs, show, ui, dangling, changes>>

(* The loops of change_code, once the SIM status is OK. *)
ChangeAgain ==
  /\ In("repeat")
  /\ Top.at = "wait" /\ Top.goal.for = "change"
  /\ ui.status = "OK" \/ Failed(ui)
  /\ frames' = IF Top.rv \/ Failed(ui) \/ ui.ok THEN Tail(frames)
               ELSE [frames EXCEPT ![1].at = "call"]
  /\ UNCHANGED <<sim, signals, view, idle, cbs, show, ui, dangling, changes>>

(* A code is typed. *)
Entered(c) ==
  LET below == Tail(frames)
      next(step, old, new) == [Top EXCEPT !.step = step, !.old = old, !.new = new]
      in(state) == [ui EXCEPT !.state = state]
  IN
  /\ In("query")
  /\ Top.alive
  /\ \/ /\ Top.step = "old" /\ Top.renew
        /\ Ask(next("new", c, None), in("NEW_PIN"), below, idle)
     \/ /\ Top.step = "new"
        /\ Ask(next("confirm", Top.old, c), in("CONFIRM_PIN"), below, idle)
     \/ /\ Top.step = "confirm" /\ c # Top.new
        /\ Ask(next("new", Top.old, None), in("NEW_PIN"), below, idle)
     \/ /\ Top.step = "confirm" /\ c = Top.new
        /\ Top.home
        /\ Use(Top.by, Top.type, Top.old, c, ui, below, idle)
     \/ /\ Top.step = "old" /\ ~Top.renew
        /\ Top.home
        /\ Use(Top.by, Top.type, c, None, ui, below, idle)

(* The query ends without a code; verify_required_pin then asks for a PUK  *)
(* once more, without a new PIN.                                           *)
QueryEnds(u) ==
  IF Top.by = Required /\ Top.renew
  THEN /\ Top.home
       /\ IF "code" \in cbs
          THEN Ask(NewQuery(Required, Top.type, FALSE, "old", None),
                   [u EXCEPT !.state = "PIN_ENABLE"], Tail(frames), idle)
          ELSE /\ ui' = u
               /\ frames' = Tail(frames)
               /\ UNCHANGED <<sim, signals, view, idle, cbs, show, dangling, changes>>
  ELSE /\ ui' = u
       /\ frames' = Resumed(Top.by, Tail(frames), FALSE, u)
       /\ UNCHANGED <<sim, signals, view, idle, cbs, show, dangling, changes>>

Cancelled ==
  /\ In("query")
  /\ Top.alive
  /\ QueryEnds([ui EXCEPT !.state = "PIN_ERROR", !.dialog = FALSE])

(* The dialog was destroyed by a query inside this one. *)
DialogGone ==
  /\ In("query")
  /\ ~Top.alive
  /\ QueryEnds([ui EXCEPT !.state = "PIN_ERROR"])

(* sim_data was freed meanwhile. *)
DataGone ==
  /\ In("query")
  /\ ~Top.home
  /\ ProcessEnds

StepOfFunction ==
  \/ InitReturns
  \/ UpdateReturns
  \/ RepeatAsks
  \/ RepeatCannotAsk
  \/ ActiveAgain
  \/ ChangeAgain
  \/ DialogGone
  \/ DataGone

Next ==
  \/ SimChanges
  \/ SimManagerGoes
  \/ SimManagerComes
  \/ SignalDispatched
  \/ IdleStatus
  \/ IdleCode
  \/ TimerFires
  \/ DanglingTimerFires
  \/ NoteClosed
  \/ \E startup \in BOOLEAN : Launch(startup)
  \/ Close
  \/ ClosedInside
  \/ \E goal \in Purpose : Settings(goal)
  \/ \E c \in Code : Entered(c)
  \/ Cancelled
  \/ StepOfFunction

Spec == Init /\ [][Next]_vars

UserActs == (\E c \in Code : Entered(c)) \/ (\E goal \in Purpose : Settings(goal))

(* Every iteration of the main loop dispatches what is ready, notes are    *)
(* closed, and the user at last only cancels.                              *)
FairSpec ==
  /\ Spec
  /\ WF_vars(StepOfFunction)
  /\ SF_vars(SignalDispatched)
  /\ SF_vars(IdleStatus)
  /\ SF_vars(IdleCode)
  /\ WF_vars(TimerFires)
  /\ WF_vars(NoteClosed)
  /\ WF_vars(Cancelled)
  /\ <>[][~UserActs]_vars
-----------------------------------------------------------------------------
(* Types. *)
TypeOK ==
  /\ sim \in Sim
  /\ view \in SimData \cup {None}
  /\ idle \subseteq {"status", "code"}
  /\ cbs \subseteq {"status", "code"}
  /\ show \in BOOLEAN
  /\ ui \in CodeUi \cup {None}
  /\ dangling \in BOOLEAN
  /\ Len(signals) <= MaxSignals
  /\ Len(frames) <= MaxDepth
  /\ \A i \in 1..Len(frames) : frames[i] \in Wait \cup Query
  /\ changes \in 0..MaxChanges

(* The dialog on the screen is that of a query under way: however the      *)
(* queries were nested and however they ended, none stays open.            *)
DialogBelongsToQuery ==
  ui # None => ui.dialog = \E i \in 1..Len(frames) : frames[i].of = "query" /\ frames[i].alive

(* A code is kept only while it is the PIN of the SIM: a code that the SIM *)
(* refused is never tried again unless the user types it again.            *)
KeptCodeIsThePin == ui # None => ui.code \in {None, sim.secret}

(* A loop that waits for a state can still be told of one.                 *)
WaitersAreTold ==
  (In("init") \/ In("update")) /\ ~Settled(ui) => cbs # {}

(* change_code does not try again without running the main loop when       *)
(* trying again cannot ask the user.                                       *)
ChangeDoesNotSpin ==
  In("repeat") /\ Top.goal.for = "change" /\ Top.at = "call" /\ ui.status = "OK" => CanAsk

(* A PIN or PUK was refused by the SIM. *)
Refused == sim'.left < sim.left \/ (sim'.pin = "puk" /\ sim.pin # "puk")

(* c, or the code typed before it, is wrong, or the answer to a change of  *)
(* the PIN was lost, after which security_code_change offers the old one.  *)
Mistaken(c) ==
  \/ Top.type = "puk"
  \/ (IF Top.step = "old" THEN c ELSE Top.old) # sim.secret
  \/ sim'.secret # sim.secret

(* The attempts of the SIM are the user's: however queries are retried,    *)
(* repeated or answered with the kept code, only a wrong code that has     *)
(* just been typed uses one up.                                            *)
AttemptsAreTheUsers ==
  [][Refused /\ changes' = changes => \E c \in Code : Entered(c) /\ Mistaken(c)]_vars

(* A function that waits for ever waits to be asked for a code by a SIM    *)
(* that asks for none (or for a query that is one too many for MaxDepth).  *)
Stuck == Known \notin CodeRequired \/ (Len(frames) = MaxDepth /\ ~In("query"))

OnlyUnaskedCodesHang == <>[](frames # << >>) => <>[]Stuck

(* The request for the PIN is enabled only for the time of a change: when  *)
(* the PIN was changed, the SIM asks for it if it did before.              *)
ChangeKeepsRequest ==
  [][sim'.secret # sim.secret /\ In("query") /\ Top.by.for = "change" /\ ui'.state = "OK"
     => sim'.enabled = sim.enabled]_vars
=============================================================================
