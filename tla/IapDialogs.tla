----------------------------- MODULE IapDialogs -----------------------------
(***************************************************************************)
(* The process connui-conndlgs: the dialog server and the plugins of this  *)
(* package that take turns in it.  A plugin whose request the server never *)
(* sees done keeps all others waiting.                                     *)
(***************************************************************************)
EXTENDS ErrorNote, RoamingDialog, OmaClient

vars == <<server, settings, noteVars, roamVars, omaVars>>

Init == ServerInit /\ NoteInit /\ RoamInit /\ OmaInit

(* The process ends, as it may at any time, and is started again; the      *)
(* connections that wait for its answers go away with it.                  *)
Restart ==
  /\ served' = None
  /\ UNCHANGED taken
  /\ NoteRestarts
  /\ RoamRestarts
  /\ OmaRestarts

Next ==
  \/ NoteNext /\ UNCHANGED <<roamVars, omaVars>>
  \/ RoamNext /\ UNCHANGED <<settings, noteVars, omaVars>>
  \/ OmaNext /\ UNCHANGED <<settings, noteVars, roamVars>>
  \/ Restart

Spec == Init /\ [][Next]_vars
-----------------------------------------------------------------------------
IapTypeOK ==
  /\ served \in Request \cup {None}
  /\ taken \in 0..MaxShown
  /\ NoteTypeOK
  /\ RoamTypeOK
  /\ OmaTypeOK

(* What the server takes for shown is shown by the plugin it believes, and *)
(* that plugin knows the id and the function to call, so the server will   *)
(* be free again; and a plugin has a dialog on the screen only in its      *)
(* turn.  The exception is an error note that another one was refused for: *)
(* the refusal overwrites its id, and nothing is ever shown again.         *)
ServedIsShown ==
  /\ Serves("error_note") /\ ~refused =>
       note.dialog # None /\ note.fn /\ note.id = served.id
  /\ Serves("roaming") => roam.dialog # None /\ roam.fn /\ roam.id = served.id
  /\ Serves("oma_cp_ui") => oma.fn /\ oma.id = served.id
  /\ note.dialog # None => Serves("error_note") \/ refused
  /\ roam.dialog # None => Serves("roaming")
=============================================================================
