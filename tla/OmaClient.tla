----------------------------- MODULE OmaClient -----------------------------
(***************************************************************************)
(* The plugin for settings that are provisioned over the air               *)
(* (conndlgs/cell-dialog-oma-cp-ui.c): which of the access points to use,  *)
(* the PIN of a message, and notes.                                        *)
(*                                                                         *)
(* show keeps its dialog in a local variable that hides the static one.    *)
(* So the server's cancel reaches no dialog, closing a request destroys no *)
(* dialog, and a dialog can be answered again, until the window manager    *)
(* destroys it; each answer closes the request that is served then.  The   *)
(* dialogs are modal: the last one of the process is the one that the user *)
(* can answer.                                                             *)
(*                                                                         *)
(* Left out: requests with malformed arguments, for which the local        *)
(* variable is read before it is written.                                  *)
(***************************************************************************)
EXTENDS DialogServer, Sequences, SequencesExt

VARIABLES
  oma,   \* the static variables of the plugin, and who waits for its reply
  stack, \* the dialogs on the screen, by kind and the id of their request
  timers \* the ids of the banners that will be taken away

omaVars == <<oma, stack, timers>>

Asking == {"select", "pin"}
OmaDialog == [kind: Asking \cup {"note"}, id: 1..MaxShown]

(* sender is the request that _sender comes from; waiting, the request for *)
(* an access point or a PIN whose sender got no signal yet; overtaken,     *)
(* that a banner's timer closed a request made after it.                   *)
Oma == [fn: BOOLEAN, id: 0..MaxShown, sender: 0..MaxShown, waiting: 0..MaxShown,
        overtaken: BOOLEAN]

NewOma == [fn |-> FALSE, id |-> 0, sender |-> 0, waiting |-> 0, overtaken |-> FALSE]

OmaInit == oma = NewOma /\ stack = << >> /\ timers = {}

OmaRestarts == oma' = NewOma /\ stack' = << >> /\ timers' = {}

(* cell_dialog_oma_cp_ui_close *)
OmaClosed(o) ==
  [o EXCEPT !.sender = 0, !.fn = FALSE, !.id = IF o.fn THEN 0 ELSE @]
-----------------------------------------------------------------------------
(* iap_dialog_oma_cp_ui_show *)

OmaTaken == [oma EXCEPT !.fn = TRUE, !.id = NewId]

(* connui_cell_code_ui_create_dialog makes no second dialog. *)
CodeUiBusy == \E i \in DOMAIN stack : stack[i].kind = "pin"

(* IAP_SELECT_REQ, PIN_QUERY_REQ and the notification settings_received *)
ShowOmaDialog(kind) ==
  /\ Free
  /\ ~(kind = "pin" /\ CodeUiBusy)
  /\ Showing("oma_cp_ui")
  /\ oma' = [OmaTaken EXCEPT !.sender = NewId,
                             !.waiting = IF kind \in Asking THEN NewId ELSE @]
  /\ stack' = Append(stack, [kind |-> kind, id |-> NewId])
  /\ UNCHANGED timers

(* The notifications settings_updated and settings_received_updated *)
ShowOmaBanner ==
  /\ Free
  /\ Showing("oma_cp_ui")
  /\ oma' = [OmaTaken EXCEPT !.sender = NewId]
  /\ timers' = timers \cup {NewId}
  /\ UNCHANGED stack

(* Nothing to show (pin_failed, whose banner needs no answer, an unknown   *)
(* notification, or a PIN query while the dialog of another is there): the *)
(* request is over, its id stays.                                          *)
ShowOmaNothing ==
  /\ Free
  /\ TakenOnly
  /\ oma' = OmaTaken
  /\ UNCHANGED <<stack, timers>>
-----------------------------------------------------------------------------
(* Mutant: the request is closed before the reply is sent. *)
Replied_AfterClose(o) == o

(* The signal goes to _sender; with none it goes to nobody in particular.  *)
Replied(o) == [o EXCEPT !.waiting = IF o.sender = o.waiting THEN 0 ELSE @]

(* ..._select_iap_response, ..._pin_query_response and                     *)
(* settings_received_response_cb.  The dialog for a PIN is destroyed, the  *)
(* others only when it was the window that was closed.                     *)
OmaAnswered(destroyed) ==
  LET top == Last(stack) IN
  /\ stack # << >>
  /\ served = None \/ Serves("oma_cp_ui")
  /\ oma' = OmaClosed(IF top.kind \in Asking THEN Replied(oma) ELSE oma)
  /\ served' = AfterDone(oma.fn, oma.id)
  /\ stack' = IF destroyed \/ top.kind = "pin" THEN Front(stack) ELSE stack
  /\ UNCHANGED <<taken, timers>>

(* settings_updated_timeout_cb *)
BannerTimeout(id) ==
  /\ id \in timers
  /\ timers' = timers \ {id}
  /\ oma' = [OmaClosed(oma) EXCEPT
       !.overtaken = @ \/ (Serves("oma_cp_ui") /\ served.id # id)]
  /\ served' = AfterDone(oma.fn, oma.id)
  /\ UNCHANGED <<taken, stack>>

OmaNext ==
  \/ \E kind \in Asking \cup {"note"} : ShowOmaDialog(kind)
  \/ ShowOmaBanner
  \/ ShowOmaNothing
  \/ \E destroyed \in BOOLEAN : OmaAnswered(destroyed)
  \/ \E id \in 1..MaxShown : BannerTimeout(id)
-----------------------------------------------------------------------------
OmaTypeOK ==
  /\ oma \in Oma
  /\ stack \in Seq(OmaDialog)
  /\ timers \subseteq 1..MaxShown

(* Who asked for an access point or a PIN is told one, even if nothing was *)
(* chosen, before the request is over.  A dialog of an earlier request     *)
(* that is still there answers nobody else's request, because the dialog   *)
(* on top is the one of the request that is served.  The exception is the  *)
(* timer of a banner: if the request of the banner was over before, by     *)
(* such a dialog, it takes away the request that is served then.           *)
OmaAskerIsTold ==
  \/ oma.waiting = 0
  \/ served = [plugin |-> "oma_cp_ui", id |-> oma.waiting]
  \/ oma.overtaken
=============================================================================
