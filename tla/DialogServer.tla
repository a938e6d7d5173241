---------------------------- MODULE DialogServer ----------------------------
(***************************************************************************)
(* The dialog server of libconnui (the process connui-conndlgs), as its    *)
(* cellular plugins use it: it calls a plugin's show function for one      *)
(* request after another, the plugin tells it that its dialog is on the    *)
(* screen (showing) and later that the request is done (done, with the id  *)
(* that show was given).  The next request is taken after that.  A plugin  *)
(* may also ask for the screen itself (iap_dialog_request_dialog) and is   *)
(* given an id, or -1 when a dialog is shown.                              *)
(***************************************************************************)
EXTENDS Integers

CONSTANTS None,    \* nothing; no dialog
          MaxShown \* bound on the requests taken in the life of the process

Plugin == {"error_note", "roaming", "oma_cp_ui"}
Request == [plugin: Plugin, id: 1..MaxShown]

ASSUME DialogServerAssumption == MaxShown \in Nat /\ None \notin Request

VARIABLES
  served, \* the request whose dialog is shown, or None
  taken   \* the requests taken so far: their ids are 1..taken

server == <<served, taken>>

ServerInit == served = None /\ taken = 0

(* The server is free to take a request, with this id. *)
Free == served = None /\ taken < MaxShown
NewId == taken + 1

(* showing() for the request just taken *)
Showing(p) ==
  /\ taken' = NewId
  /\ served' = [plugin |-> p, id |-> NewId]

(* The request was taken and is done, or was not worth a dialog. *)
TakenOnly ==
  /\ taken' = NewId
  /\ UNCHANGED served

(* done(id, process_pending), where there is a done function: what the     *)
(* server shows afterwards.  An id of no dialog is ignored.                *)
AfterDone(fn, id) ==
  IF fn /\ served # None /\ served.id = id THEN None ELSE served

Serves(p) == served # None /\ served.plugin = p
=============================================================================
