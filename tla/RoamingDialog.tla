--------------------------- MODULE RoamingDialog ---------------------------
(***************************************************************************)
(* The plugin that asks whether data may be used while roaming             *)
(* (conndlgs/cell-dialog-roaming.c).  It keeps for which cards it asked    *)
(* and for which it was told no in two keys of GConf, which it reads as    *)
(* lists of IMSIs and writes as booleans: a boolean is read as no list.    *)
(***************************************************************************)
EXTENDS DialogServer

CONSTANTS Imsi,   \* the cards that are asked for
          Listed  \* the cards that the keys list at first, in both

ASSUME RoamingDialogAssumption ==
  /\ None \notin Imsi \cup {"ask", "confirm"}
  /\ Listed \subseteq Imsi

VARIABLES
  roam, \* the static variables of the plugin
  keys, \* GConf: the cards asked about, and the cards that are disabled
  said, \* what was last said about a card in a dialog
  torn  \* the second key was written without the first

roamVars == <<roam, keys, said, torn>>

Roam == [dialog: {"ask", "confirm", None}, imsi: Imsi \cup {None}, fn: BOOLEAN,
         id: 0..MaxShown]
Keys == [asked: SUBSET Imsi, disabled: SUBSET Imsi]

NewRoam == [dialog |-> None, imsi |-> None, fn |-> FALSE, id |-> 0]

(* The keys may list cards that were asked about, and said no to.          *)
RoamInit ==
  /\ roam = NewRoam
  /\ keys = [asked |-> Listed, disabled |-> Listed]
  /\ said = [i \in Imsi |-> IF i \in Listed THEN "no" ELSE "nothing"]
  /\ torn = FALSE

RoamRestarts ==
  /\ roam' = NewRoam
  /\ UNCHANGED <<keys, said, torn>>
-----------------------------------------------------------------------------
(* Mutant: the id is reset to what no request has, whose type is another. *)
RoamClosed_MinusOne(r) ==
  [r EXCEPT !.dialog = None, !.imsi = None, !.fn = FALSE, !.id = IF r.fn THEN -1 ELSE @]

(* roaming_dialog_close, after the sender of the request is replied to.    *)
RoamClosed(r) ==
  [r EXCEPT !.dialog = None, !.imsi = None, !.fn = FALSE, !.id = IF r.fn THEN 0 ELSE @]

(* Mutant: the id is not taken. *)
RoamAsked_NoId(i) ==
  [roam EXCEPT !.fn = TRUE, !.imsi = i]

(* iap_dialog_roaming_show *)
RoamAsked(i) ==
  [roam EXCEPT !.fn = TRUE, !.id = NewId, !.imsi = i]

(* Asked before and not disabled: replied at once. *)
ShowRoamingAllowed(i) ==
  /\ Free
  /\ i \in keys.asked
  /\ i \notin keys.disabled
  /\ TakenOnly
  /\ roam' = RoamClosed(RoamAsked(i))
  /\ UNCHANGED <<keys, said, torn>>

(* roaming_confirm_enable *)
ShowRoamingConfirm(i) ==
  /\ Free
  /\ i \in keys.asked \cap keys.disabled
  /\ Showing("roaming")
  /\ roam' = [RoamAsked(i) EXCEPT !.dialog = "confirm"]
  /\ UNCHANGED <<keys, said, torn>>

(* _auto_roam_ask *)
ShowRoamingAsk(i) ==
  /\ Free
  /\ i \notin keys.asked
  /\ Showing("roaming")
  /\ roam' = [RoamAsked(i) EXCEPT !.dialog = "ask"]
  /\ UNCHANGED <<keys, said, torn>>
-----------------------------------------------------------------------------
(* Mutant: the answer is kept where it was looked for, a no as a yes. *)
Kept_AsListWithoutNo(written) ==
  [k \in {"asked", "disabled"} |->
     IF k = "asked" /\ k \in written THEN keys.asked \cup {roam.imsi} ELSE keys[k]]

(* The two keys after those in written were set to a boolean. *)
Kept(written) ==
  [k \in {"asked", "disabled"} |-> IF k \in written THEN {} ELSE keys[k]]

(* roaming_auto_dialog_response_cb; each of the writes may fail, and what  *)
(* fails is only logged.                                                   *)
AskAnswered(ok, written) ==
  /\ roam.dialog = "ask"
  /\ keys' = Kept(written)
  /\ torn' = (torn \/ written = {"disabled"})
  /\ said' = [said EXCEPT ![roam.imsi] = IF ok THEN "yes" ELSE "no"]
  /\ roam' = IF ok THEN RoamClosed(roam) ELSE [roam EXCEPT !.dialog = "confirm"]
  /\ served' = IF ok THEN AfterDone(roam.fn, roam.id) ELSE served
  /\ UNCHANGED taken

(* roaming_note_response_cb: the reply is not kept. *)
ConfirmAnswered ==
  /\ roam.dialog = "confirm"
  /\ roam' = RoamClosed(roam)
  /\ served' = AfterDone(roam.fn, roam.id)
  /\ UNCHANGED <<taken, keys, said, torn>>

RoamNext ==
  \/ \E i \in Imsi : ShowRoamingAllowed(i)
  \/ \E i \in Imsi : ShowRoamingConfirm(i)
  \/ \E i \in Imsi : ShowRoamingAsk(i)
  \/ \E ok \in BOOLEAN, written \in SUBSET {"asked", "disabled"} : AskAnswered(ok, written)
  \/ ConfirmAnswered
-----------------------------------------------------------------------------
RoamTypeOK ==
  /\ roam \in Roam
  /\ keys \in Keys
  /\ said \in [Imsi -> {"nothing", "yes", "no"}]
  /\ torn \in BOOLEAN

(* A card that was said no to is not used for data without another dialog: *)
(* writing the answers in another form than they are read loses them, but  *)
(* never turns a no into a yes, unless the second key was written without  *)
(* the first (then the cards that the first one lists are allowed).        *)
NoIsKept ==
  \A i \in Imsi : i \in keys.asked /\ i \notin keys.disabled => said[i] = "yes" \/ torn
=============================================================================
