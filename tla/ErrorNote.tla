----------------------------- MODULE ErrorNote -----------------------------
(***************************************************************************)
(* The error note plugin (conndlgs/cell-dialog-error-note.c): notes about  *)
(* the registration that it asks for itself, notes that others ask for,    *)
(* and the warnings that the data counters reached their limit, which must *)
(* be acknowledged.                                                        *)
(*                                                                         *)
(* One dialog and one done function serve them all; they are static        *)
(* variables, as the record note.  Of the library the plugin sees the      *)
(* notifications only: they come for any modem with any registration.      *)
(*                                                                         *)
(* Left out: the note after the last modem (it runs a main loop in which   *)
(* all else goes on, and nothing follows it); errors of GConf and D-Bus;   *)
(* which connection the state is about.  The dialog for automatic          *)
(* connections is built in a dialog that does not exist (it uses the       *)
(* static _dialog): the process ends there, as it may anywhere.            *)
(***************************************************************************)
EXTENDS DialogServer, SequencesExt

CONSTANTS Modem,      \* the object paths of the modems
          AutoConnect \* initial lists of connections made automatically

ASSUME ErrorNoteAssumption ==
  /\ AutoConnect \subseteq Seq({"GPRS", "*", "WLAN_INFRA"})
  /\ None \notin {"text", "home", "roaming", "searching", "denied", "unknown"}

VARIABLES
  settings,  \* GConf: warnings enabled, acknowledged, automatic connections
  note,      \* the static variables of the plugin
  listeners, \* inetstate callbacks, by their button: "live" or "freed"
  sent,      \* idle sources of show_error_note, and calls on their way
  dropped,   \* warnings taken off the screen, or not shown, unacknowledged
  swept,     \* a registration took a warning off the screen
  refused    \* the server refused a note while another one was shown

noteVars == <<note, listeners, sent, dropped, swept, refused>>

Side == {"home", "roaming"}
Registration == Side \cup {"searching", "denied", "unknown"}

(* SEARCHING_OR_CONNECTED *)
Registered(reg) == reg \in Side \cup {"searching"}

Note == [dialog: Side \cup {"text", None}, fn: BOOLEAN, id: -1..MaxShown,
         notified: BOOLEAN, labels: {"none", "live", "freed"},
         pending: SUBSET Side, reg: [Modem -> Registration \cup {None}]]

Settings == [enabled: SUBSET Side, acked: SUBSET Side,
             auto: Seq({"GPRS", "*", "WLAN_INFRA", ""})]
-----------------------------------------------------------------------------
(* Mutant: only one of the two flags is looked at. *)
PendingAcks_HomeOnly(acked) == {"home"} \ acked

(* check_pending_acks *)
PendingAcks(acked) == Side \ acked

(* The plugin is loaded. *)
NewNote(acked) ==
  [dialog |-> None, fn |-> FALSE, id |-> 0, notified |-> FALSE, labels |-> "none",
   pending |-> PendingAcks(acked), reg |-> [m \in Modem |-> None]]

NoteInit ==
  /\ settings \in [enabled: SUBSET Side, acked: SUBSET Side, auto: AutoConnect]
  /\ note = NewNote(settings.acked)
  /\ listeners = {}
  /\ sent = {}
  /\ dropped = {}
  /\ swept = FALSE
  /\ refused = FALSE

(* The process ends and is started again; what GConf keeps remains. *)
NoteRestarts ==
  /\ note' = NewNote(settings.acked)
  /\ listeners' = {}
  /\ sent' = {}
  /\ dropped' = {}
  /\ swept' = FALSE
  /\ refused' = FALSE
  /\ UNCHANGED settings

(* Mutant: the change listener stays when the dialog goes. *)
Closed_StillNotified(n) ==
  [n EXCEPT !.dialog = None, !.fn = FALSE, !.id = IF n.fn THEN 0 ELSE @,
            !.labels = IF n.dialog \in Side THEN "freed" ELSE @]

(* cell_dialog_error_note_close; AfterDone is its call of the done         *)
(* function.                                                               *)
Closed(n) ==
  [n EXCEPT !.dialog = None, !.fn = FALSE, !.id = IF n.fn THEN 0 ELSE @,
            !.notified = FALSE,
            !.labels = IF n.dialog \in Side THEN "freed" ELSE @]

(* The buttons of a dialog that is destroyed. *)
Freed(ls) == IF ls = {} THEN {} ELSE {"freed"}

(* connui_inetstate_close for a callback that may be listed twice *)
Unlistened(ls) == {{}, ls \ {"live"}}
-----------------------------------------------------------------------------
(* _modem_status_cb *)

ModemTold(m) ==
  /\ note.reg[m] = None
  /\ note' = [note EXCEPT !.reg[m] = "unknown"]
  /\ UNCHANGED <<server, settings, listeners, sent, dropped, swept, refused>>

ModemRemovedTold(m) ==
  /\ note.reg[m] # None
  /\ note' = [note EXCEPT !.reg[m] = None]
  /\ UNCHANGED <<server, settings, listeners, sent, dropped, swept, refused>>

(* _net_status_cb: a warning from before the process started is asked for  *)
(* at the first registration it is about, whatever the plugin knows of the *)
(* modem.                                                                  *)
Acks(reg) ==
  /\ sent' = sent \cup ({reg} \cap note.pending)
  /\ UNCHANGED settings

Told(m, reg) ==
  [note EXCEPT !.pending = @ \ {reg}, !.reg[m] = reg]

(* The modem is not known yet. *)
NetToldEarly(m, reg) ==
  /\ note.reg[m] = None
  /\ Acks(reg)
  /\ note' = [note EXCEPT !.pending = @ \ {reg}]
  /\ UNCHANGED <<server, listeners, dropped, swept, refused>>

(* Nothing is to be shown; a dialog that is shown goes when a modem finds  *)
(* a network again, also when it is a warning.                             *)
NetTold(m, reg) ==
  LET closes == Registered(reg) /\ ~Registered(note.reg[m]) /\ note.dialog # None IN
  /\ note.reg[m] # None
  /\ reg # "denied"
  /\ Acks(reg)
  /\ note' = IF closes THEN Closed(Told(m, reg)) ELSE Told(m, reg)
  /\ served' = IF closes THEN AfterDone(note.fn, note.id) ELSE served
  /\ listeners' = IF closes THEN Freed(listeners) ELSE listeners
  /\ dropped' = IF closes THEN dropped \cup (({note.dialog} \cap Side) \ settings.acked)
                ELSE dropped
  /\ swept' = (swept \/ (closes /\ note.dialog \in Side))
  /\ UNCHANGED <<taken, refused>>

(* The registration was denied, or lost with a network selected by hand: a *)
(* note is to be shown.                                                    *)
LostTold(m, reg) ==
  /\ note.reg[m] # None
  /\ reg = "denied" \/ (reg = "unknown" /\ Registered(note.reg[m]))
  /\ Acks(reg)
  /\ UNCHANGED <<listeners, dropped, swept>>

NoteGranted(m, reg) ==
  /\ LostTold(m, reg)
  /\ Free
  /\ Showing("error_note")
  /\ note' = [Told(m, reg) EXCEPT !.dialog = "text", !.fn = TRUE, !.id = NewId]
  /\ UNCHANGED refused

(* The id that is to be done is overwritten by the refusal, with the done  *)
(* function of a dialog that may be shown left in place.                   *)
NoteRefused(m, reg) ==
  /\ LostTold(m, reg)
  /\ served # None
  /\ note' = [Told(m, reg) EXCEPT !.id = -1]
  /\ refused' = (refused \/ Serves("error_note"))
  /\ UNCHANGED server
-----------------------------------------------------------------------------
(* iap_dialog_error_note_show.  What is shown may have been asked for by   *)
(* this plugin or by another process.                                      *)

Asked(k) ==
  /\ Free
  /\ sent' \in {sent, sent \ {k}}

(* iap_dialog_error_note_limit_dialog: the counters are written into new   *)
(* labels, the state of the connection is listened to, the warning is to   *)
(* be acknowledged.                                                        *)
ShowWarning(k) ==
  /\ Asked(k)
  /\ k \in settings.enabled
  /\ Showing("error_note")
  /\ note' = [note EXCEPT !.dialog = k, !.fn = TRUE, !.id = NewId, !.notified = TRUE,
                          !.labels = "live"]
  /\ listeners' = listeners \cup {"live"}
  /\ settings' = [settings EXCEPT !.acked = @ \ {k}]
  /\ UNCHANGED <<dropped, swept, refused>>

(* The warning is switched off: done at once. *)
SkipWarning(k) ==
  /\ Asked(k)
  /\ k \notin settings.enabled
  /\ TakenOnly
  /\ note' = Closed([note EXCEPT !.fn = TRUE, !.id = NewId])
  /\ dropped' = IF k \in settings.acked THEN dropped ELSE dropped \cup {k}
  /\ UNCHANGED <<settings, listeners, swept, refused>>

(* iap_dialog_error_note_autoconnect_enabled: nothing to ask.  Otherwise   *)
(* the process ends (NoteRestarts).                                        *)
AutoConnected == \E i \in DOMAIN settings.auto : settings.auto[i] \in {"GPRS", "*"}

SkipAutoConnect ==
  /\ Asked("auto")
  /\ AutoConnected
  /\ TakenOnly
  /\ note' = Closed([note EXCEPT !.fn = TRUE, !.id = NewId])
  /\ UNCHANGED <<settings, listeners, dropped, swept, refused>>

(* Any other note; the one that there is no network is a banner only.      *)
ShowText ==
  /\ Asked("text")
  /\ Showing("error_note")
  /\ note' = [note EXCEPT !.dialog = "text", !.fn = TRUE, !.id = NewId, !.notified = TRUE]
  /\ UNCHANGED <<settings, listeners, dropped, swept, refused>>
-----------------------------------------------------------------------------
(* The user *)

(* cell_dialog_error_note_close_no_process_pending, also when the server   *)
(* cancels the dialog                                                      *)
TextAnswered ==
  /\ note.dialog = "text"
  /\ note' = Closed(note)
  /\ served' = AfterDone(note.fn, note.id)
  /\ UNCHANGED <<taken, settings, listeners, sent, dropped, swept, refused>>

(* iap_dialog_error_note_limit_dialog_response_cb, and with disables       *)
(* cell_dialog_error_note_disable_warning_cb                               *)
WarningAnswered(disables) ==
  /\ note.dialog \in Side
  /\ settings' = [settings EXCEPT
       !.acked = @ \cup {note.dialog},
       !.enabled = IF disables THEN @ \ {note.dialog} ELSE @]
  /\ listeners' \in {Freed(ls) : ls \in Unlistened(listeners)}
  /\ note' = Closed(note)
  /\ served' = AfterDone(note.fn, note.id)
  /\ UNCHANGED <<taken, sent, dropped, swept, refused>>

(* The values of the list that are about GPRS *)
Mobile(list) == SelectSeq(list, LAMBDA v : v \in {"GPRS", "*"})

(* cell_dialog_error_set_auto_connect for each value of the list: the last *)
(* one that is about GPRS decides.                                         *)
AutoAfterDisconnect(list) ==
  IF Mobile(list) = << >> THEN list
  ELSE IF Last(Mobile(list)) = "GPRS" THEN <<"">> ELSE <<"WLAN_INFRA">>

(* disconnect_button_clicked_cb, while                                     *)
(* cell_dialog_error_note_inetstate_cb made the button sensitive.  The     *)
(* dialog stays.                                                           *)
Disconnect ==
  /\ note.dialog \in Side
  /\ "live" \in listeners
  /\ settings' = [settings EXCEPT !.acked = @ \cup {note.dialog},
                                  !.auto = AutoAfterDisconnect(@)]
  /\ UNCHANGED <<server, noteVars>>

NoteNext ==
  \/ \E m \in Modem : ModemTold(m)
  \/ \E m \in Modem : ModemRemovedTold(m)
  \/ \E m \in Modem, reg \in Registration : NetToldEarly(m, reg)
  \/ \E m \in Modem, reg \in Registration : NetTold(m, reg)
  \/ \E m \in Modem, reg \in Registration : NoteGranted(m, reg)
  \/ \E m \in Modem, reg \in Registration : NoteRefused(m, reg)
  \/ \E k \in Side : ShowWarning(k)
  \/ \E k \in Side : SkipWarning(k)
  \/ SkipAutoConnect
  \/ ShowText
  \/ TextAnswered
  \/ \E disables \in BOOLEAN : WarningAnswered(disables)
  \/ Disconnect
-----------------------------------------------------------------------------
NoteTypeOK ==
  /\ settings \in Settings
  /\ note \in Note
  /\ listeners \subseteq {"live", "freed"}
  /\ sent \subseteq Side
  /\ dropped \subseteq Side
  /\ swept \in BOOLEAN
  /\ refused \in BOOLEAN

(* A warning that was shown and not acknowledged is on the screen, or will *)
(* be shown: it waits for a registration, for its source or for the        *)
(* server.  Ending the process at any moment loses none.  The exception is *)
(* a warning that a change of the registration takes off the screen, or    *)
(* that is switched off when its turn comes: it waits until the process    *)
(* starts again.                                                           *)
UnackedIsNotForgotten ==
  \A k \in Side \ settings.acked :
    note.dialog = k \/ k \in note.pending \cup sent \cup dropped

(* What others call back is still there: the button of a warning that the  *)
(* state of the connection makes sensitive, unless a registration took a   *)
(* warning off the screen (the answers stop listening, that close does     *)
(* not); and the labels of a warning that a change of the counters writes, *)
(* unless a text is shown after a warning (it listens to the counters too, *)
(* and writes labels that were freed).                                     *)
NothingDangles ==
  /\ "freed" \in listeners => swept
  /\ note.notified /\ note.labels = "freed" => note.dialog = "text"
=============================================================================
