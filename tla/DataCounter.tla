---------------------------- MODULE DataCounter ----------------------------
(***************************************************************************)
(* The counter of mobile data (lib/datacounter.c), its dialog              *)
(* (cpa/data-counter.c, used as in cpa/cellularsettings.c) and what other  *)
(* processes write into the same keys of GConf: icd the bytes, the error   *)
(* note plugin the switch of the warning.                                  *)
(*                                                                         *)
(* There is one counter in a process, for use at home or while roaming; it *)
(* is read when its first user asks and then follows the notifications of  *)
(* GConf, which come in order, later, and for the keys of both sides.      *)
(* Numbers stand for bytes and for limits in MB (0: none); the period of   *)
(* the warnings, in bytes, is counted in MB as well.                       *)
(***************************************************************************)
EXTENDS Naturals, Sequences

CONSTANTS MaxCount, \* bound on the bytes
          MaxLimit, \* bound on the limit
          MaxQueue  \* bound on the notifications under way

ASSUME DataCounterAssumption ==
  MaxCount \in Nat \ {0} /\ MaxLimit \in Nat \ {0} /\ MaxQueue \in Nat

VARIABLES
  conf,       \* GConf
  dc,         \* the static datacounter
  queue,      \* notifications of GConf, the oldest first
  counterDialog, \* the dialog, one or none: its fields, as long as it is open
  saving,     \* what the save function has still to write
  disabling,  \* the side whose warning the error note plugin switches off
  overlapped  \* a save and a switching off ran at the same time

counterVars == <<conf, dc, queue, counterDialog, saving, disabling, overlapped>>

Home == {TRUE, FALSE}
Limit == 0..MaxLimit
Count == 0..MaxCount

Conf == [rx: Count, tx: Count, enabled: BOOLEAN, limit: Limit, period: Limit]
Change == [home: Home, key: {"rx", "tx", "reset"}, value: Count]
          \cup [home: Home, key: {"limit", "period"}, value: Limit]
          \cup [home: Home, key: {"enabled"}, value: BOOLEAN]
Datacounter == [initialized: BOOLEAN, home: Home, rx: Count, tx: Nat,
                limit: Limit, enabled: BOOLEAN]
Fields == [home: Home, enabled: BOOLEAN, limit: Limit, savable: BOOLEAN]

NoDialog == {}
Uninitialized ==
  [initialized |-> FALSE, home |-> FALSE, rx |-> 0, tx |-> 0, limit |-> 0, enabled |-> FALSE]

CounterInit ==
  /\ conf = [h \in Home |->
       [rx |-> 0, tx |-> 0, enabled |-> FALSE, limit |-> 0, period |-> 0]]
  /\ dc = Uninitialized
  /\ queue = << >>
  /\ counterDialog = NoDialog
  /\ saving = {}
  /\ disabling = {}
  /\ overlapped = FALSE
-----------------------------------------------------------------------------
(* connui_cell_datacounter_get: whatever is asked for, the counter that    *)
(* exists.                                                                 *)
Got(home) ==
  IF dc.initialized THEN dc
  ELSE [initialized |-> TRUE, home |-> home, rx |-> conf[home].rx, tx |-> conf[home].tx,
        limit |-> conf[home].limit, enabled |-> conf[home].enabled]

(* Mutant: the counter stays when its last user goes. *)
Closed_Kept(d) == d

(* connui_cell_datacounter_close, for the only user *)
ClosedCounter(d) == Uninitialized

(* Mutant: the home branch lacks the negation as well. *)
Taken_NegatedBoth(d, c) ==
  CASE c.home = d.home /\ c.key = "rx" -> [d EXCEPT !.rx = c.value]
    [] ~(c.home = d.home /\ c.key \in {"rx", "tx"}) -> [d EXCEPT !.tx = 0]
    [] OTHER -> d

(* connui_cell_datacounter_gconf_changed.  While roaming, any key but the  *)
(* bytes received and sent is taken for the bytes sent (a boolean counts   *)
(* 0), and the bytes sent are not.                                         *)
TakenChange(d, c) ==
  LET own == c.home = d.home IN
  CASE own /\ c.key = "rx" -> [d EXCEPT !.rx = c.value]
    [] ~d.home /\ ~(own /\ c.key \in {"rx", "tx"}) ->
         [d EXCEPT !.tx = IF c.key = "enabled" THEN 0 ELSE c.value]
    [] d.home /\ own /\ c.key = "tx" -> [d EXCEPT !.tx = c.value]
    [] d.home /\ own /\ c.key = "limit" -> [d EXCEPT !.limit = c.value]
    [] d.home /\ own /\ c.key = "enabled" -> [d EXCEPT !.enabled = c.value]
    [] OTHER -> d

(* GConf tells the clients that listen when a value has changed. *)
Changes(home, key, value) ==
  IF dc.initialized /\ conf[home][key] # value
  THEN <<[home |-> home, key |-> key, value |-> value]>> ELSE << >>

Written(home, key, value) ==
  /\ conf' = [conf EXCEPT ![home][key] = value]
  /\ queue' = queue \o Changes(home, key, value)
  /\ Len(queue') <= MaxQueue

(* The process is in no function that writes. *)
Idle == saving = {}
-----------------------------------------------------------------------------
(* cellular_data_counter_show: the fields are filled by the first update,  *)
(* which the registration brings.                                          *)
ShowCounter(home) ==
  /\ Idle
  /\ counterDialog = NoDialog
  /\ dc' = Got(home)
  /\ counterDialog' = {[home |-> home, enabled |-> dc'.enabled, limit |-> dc'.limit,
                        savable |-> TRUE]}
  /\ UNCHANGED <<conf, queue, saving, disabling, overlapped>>

(* connui_cell_datacounter_gconf_changed; the fields of the dialog stay.   *)
ChangeTold ==
  /\ Idle
  /\ queue # << >>
  /\ dc' = TakenChange(dc, Head(queue))
  /\ queue' = Tail(queue)
  /\ UNCHANGED <<conf, counterDialog, saving, disabling, overlapped>>

(* The user edits the fields (dc_enable_warning_button_toggled_cb,         *)
(* dc_limit_entry_insert_text_cb, dc_limit_entry_chagned_cb): the limit is *)
(* sensitive with the switch only, and without it nothing can be saved.    *)
Toggled ==
  \E d \in counterDialog :
    /\ Idle
    /\ counterDialog' = {[d EXCEPT !.enabled = ~@]}
    /\ UNCHANGED <<conf, dc, queue, saving, disabling, overlapped>>

LimitEdited(limit) ==
  \E d \in counterDialog :
    /\ Idle
    /\ d.enabled
    /\ d.limit # limit
    /\ counterDialog' = {[d EXCEPT !.limit = limit, !.savable = limit # 0]}
    /\ UNCHANGED <<conf, dc, queue, saving, disabling, overlapped>>

(* connui_cell_datacounter_reset: the time of the reset is written, the    *)
(* bytes are unset.                                                        *)
Reset ==
  \E d \in counterDialog :
    LET h == Got(TRUE).home IN
    /\ Idle
    /\ conf' = [conf EXCEPT ![h].rx = 0, ![h].tx = 0]
    /\ queue' = queue \o <<[home |-> h, key |-> "reset", value |-> 1]>>
                      \o Changes(h, "rx", 0) \o Changes(h, "tx", 0)
    /\ Len(queue') <= MaxQueue
    /\ UNCHANGED <<dc, counterDialog, saving, disabling, overlapped>>

(* cellular_data_counter_destroy *)
Destroy ==
  /\ counterDialog' = NoDialog
  /\ dc' = ClosedCounter(dc)
  /\ queue' = IF dc'.initialized THEN queue ELSE << >>

Cancel ==
  /\ Idle
  /\ counterDialog # NoDialog
  /\ Destroy
  /\ UNCHANGED <<conf, saving, disabling, overlapped>>

(* connui_cell_datacounter_save writes the switch, the limit and the       *)
(* period, and other processes may write in between.  Then the dialog is   *)
(* destroyed.                                                              *)
SaveSwitch ==
  \E d \in counterDialog :
    LET h == Got(TRUE).home IN
    /\ Idle
    /\ d.savable
    /\ Written(h, "enabled", d.enabled)
    /\ saving' = {[home |-> h, key |-> "limit"]}
    /\ overlapped' = (overlapped \/ h \in disabling)
    /\ UNCHANGED <<dc, counterDialog, disabling>>

SaveLimit ==
  \E s \in saving, d \in counterDialog :
    /\ s.key = "limit"
    /\ Written(s.home, "limit", d.limit)
    /\ saving' = {[s EXCEPT !.key = "period"]}
    /\ UNCHANGED <<dc, counterDialog, disabling, overlapped>>

(* Mutant: the period follows the limit also when switched off. *)
PeriodToSave_Always(d) == d.limit

(* The zeros are appended to the text of the limit. *)
PeriodToSave(d) == IF d.enabled THEN d.limit ELSE 0

SavePeriod ==
  \E s \in saving, d \in counterDialog :
    /\ s.key = "period"
    /\ conf' = [conf EXCEPT ![s.home].period = PeriodToSave(d)]
    /\ saving' = {}
    /\ Destroy
    /\ UNCHANGED <<disabling, overlapped>>
-----------------------------------------------------------------------------
(* Other processes *)

(* icd counts. *)
BytesCounted(home, key, value) ==
  /\ conf[home][key] # value
  /\ Written(home, key, value)
  /\ UNCHANGED <<dc, counterDialog, saving, disabling, overlapped>>

(* cell_dialog_error_note_disable_warning_cb: the switch, then the period. *)
DisableSwitch(home) ==
  /\ disabling = {}
  /\ Written(home, "enabled", FALSE)
  /\ disabling' = {home}
  /\ overlapped' = (overlapped \/ \E s \in saving : s.home = home)
  /\ UNCHANGED <<dc, counterDialog, saving>>

DisablePeriod ==
  \E home \in disabling :
    /\ Written(home, "period", 0)
    /\ disabling' = {}
    /\ UNCHANGED <<dc, counterDialog, saving, overlapped>>

CounterNext ==
  \/ \E home \in Home : ShowCounter(home)
  \/ ChangeTold
  \/ Toggled
  \/ \E limit \in Limit : LimitEdited(limit)
  \/ Reset
  \/ Cancel
  \/ SaveSwitch
  \/ SaveLimit
  \/ SavePeriod
  \/ \E home \in Home, key \in {"rx", "tx"}, value \in Count : BytesCounted(home, key, value)
  \/ \E home \in Home : DisableSwitch(home)
  \/ DisablePeriod
-----------------------------------------------------------------------------
CounterTypeOK ==
  /\ conf \in [Home -> Conf]
  /\ dc \in Datacounter
  /\ queue \in Seq(Change)
  /\ counterDialog \subseteq Fields
  /\ saving \subseteq [home: Home, key: {"limit", "period"}]
  /\ disabling \subseteq Home
  /\ overlapped \in BOOLEAN

(* When all notifications arrived, the counter holds what GConf does: the  *)
(* bytes received, and for the home counter the rest; what the roaming     *)
(* counter says of the bytes sent, the limit and the switch is as old as   *)
(* the counter, or nothing of the kind.                                    *)
CounterIsCurrent ==
  dc.initialized /\ queue = << >> =>
    LET c == conf[dc.home] IN
    /\ dc.rx = c.rx
    /\ dc.home => dc.tx = c.tx /\ dc.limit = c.limit /\ dc.enabled = c.enabled

(* The counter in the dialog, and the side that a save or a reset writes   *)
(* to, is the one in its title, although the counter is shared and save    *)
(* and reset name no side: no counter outlives the dialog that made it.    *)
DialogShowsItsSide ==
  \A d \in counterDialog : dc.initialized /\ dc.home = d.home

(* When nobody is writing, the period of the warnings is the limit, or     *)
(* zero when they are switched off, after any sequence of saves and        *)
(* switchings off that did not overlap.                                    *)
SwitchAndPeriodAgree ==
  saving = {} /\ disabling = {} /\ ~overlapped =>
    \A h \in Home : conf[h].period = IF conf[h].enabled THEN conf[h].limit ELSE 0
=============================================================================
