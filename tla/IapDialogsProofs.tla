-------------------------- MODULE IapDialogsProofs --------------------------
(* The invariants of IapDialogs, proved for any number of requests, any    *)
(* modems, cards and lists of connections.                                 *)
(*                                                                         *)
(* The inductive invariant has a part for the server and one for each      *)
(* plugin.  A step of a plugin does one of four things to the server       *)
(* (ServerStep); the parts of the other plugins survive each of them.      *)
EXTENDS IapDialogs, SequenceTheorems, TLAPS

ServerInv ==
  /\ served \in Request \cup {None}
  /\ taken \in 0..MaxShown
  /\ served # None => served.id = taken  \* numbered in the order of taking

(* A note that another one was refused for stays served for ever: the id   *)
(* that it is to be done with is lost.                                     *)
RefusedStaysServed == refused => Serves("error_note") /\ note.id <= 0

(* The state of the connection is listened to for the warning on the       *)
(* screen, unless a registration took one off it.                          *)
ListenersHaveWarning == listeners # {} => note.dialog \in Side \/ swept

NoteInv ==
  /\ NoteTypeOK
  /\ Serves("error_note") /\ ~refused =>
       note.dialog # None /\ note.fn /\ note.id = served.id
  /\ note.dialog # None => Serves("error_note") \/ refused
  /\ RefusedStaysServed
  /\ ListenersHaveWarning
  /\ UnackedIsNotForgotten
  /\ NothingDangles

(* A card that is asked about was not asked about before. *)
AskedIsNew == roam.dialog = "ask" => roam.imsi \in Imsi \ keys.asked

RoamInv ==
  /\ RoamTypeOK
  /\ Serves("roaming") => roam.dialog # None /\ roam.fn /\ roam.id = served.id
  /\ roam.dialog # None => Serves("roaming")
  /\ AskedIsNew
  /\ NoIsKept

(* The id that the OMA plugin keeps of a request that is over is not the   *)
(* one of the request that another plugin serves.                          *)
OmaIdsAreOwn ==
  /\ oma.id <= taken
  /\ oma.waiting <= taken
  /\ \A t \in timers : t <= taken
  /\ Serves("error_note") \/ Serves("roaming") => oma.id # taken

(* The dialog of the request that waits for a reply is the one on top, and *)
(* is no banner.                                                           *)
WaitingOnTop ==
  /\ oma.waiting \notin timers
  /\ Serves("oma_cp_ui") /\ oma.waiting = served.id => oma.sender = served.id
  /\ oma.waiting # 0 /\ ~oma.overtaken => stack # << >> /\ Last(stack).kind \in Asking

OmaInv ==
  /\ OmaTypeOK
  /\ Serves("oma_cp_ui") => oma.fn /\ oma.id = served.id
  /\ OmaIdsAreOwn
  /\ WaitingOnTop
  /\ OmaAskerIsTold

IInv == ServerInv /\ NoteInv /\ RoamInv /\ OmaInv

(* What a plugin does to the server: nothing, it takes the turn, it has    *)
(* nothing to show, or it gives the turn back.                             *)
ServerStep(p) ==
  \/ UNCHANGED server
  \/ Free /\ Showing(p)
  \/ Free /\ TakenOnly
  \/ Serves(p) /\ served' = None /\ UNCHANGED taken

LEMMA ServerStepInv ==
  ASSUME ServerInv, NEW p \in Plugin, ServerStep(p)
  PROVE  /\ ServerInv'
         /\ taken <= taken'
         /\ \A q \in Plugin \ {p} :
              /\ Serves(q)' <=> Serves(q)
              /\ Serves(q) => served' = served /\ taken' = taken
         /\ Serves(p)' => served'.id = taken'
<1> USE DialogServerAssumption DEF DialogServerAssumption
<1>1. CASE UNCHANGED server
  BY <1>1 DEF server, ServerInv, Serves
<1>2. CASE Free /\ Showing(p)
  <2>1. /\ taken' = taken + 1 /\ taken' \in 0..MaxShown
        /\ served' = [plugin |-> p, id |-> taken']
        /\ served' \in Request
        /\ served = None
    BY <1>2 DEF Free, Showing, NewId, Request, ServerInv
  <2>2. served' # None /\ served'.plugin = p /\ served'.id = taken'
    BY <2>1
  <2>. QED BY <2>1, <2>2 DEF ServerInv, Serves
<1>3. CASE Free /\ TakenOnly
  BY <1>3 DEF Free, TakenOnly, NewId, ServerInv, Serves
<1>4. CASE Serves(p) /\ served' = None /\ UNCHANGED taken
  BY <1>4 DEF Serves, ServerInv
<1>. QED BY <1>1, <1>2, <1>3, <1>4 DEF ServerStep

-----------------------------------------------------------------------------
(* The parts of the plugins whose turn it is not *)

LEMMA NoteUntouched ==
  ASSUME ServerInv, NoteInv, NEW p \in Plugin \ {"error_note"}, ServerStep(p),
         UNCHANGED <<settings, noteVars>>
  PROVE  NoteInv'
<1>1. /\ Serves("error_note")' <=> Serves("error_note")
      /\ Serves("error_note") => served' = served
  BY ServerStepInv DEF Plugin
<1>2. NoteTypeOK'
  BY DEF NoteInv, NoteTypeOK, noteVars
<1>3. UnackedIsNotForgotten' /\ NothingDangles' /\ ListenersHaveWarning'
  BY DEF NoteInv, UnackedIsNotForgotten, NothingDangles, ListenersHaveWarning, noteVars
<1>. QED BY <1>1, <1>2, <1>3 DEF NoteInv, RefusedStaysServed, noteVars

LEMMA RoamUntouched ==
  ASSUME ServerInv, RoamInv, NEW p \in Plugin \ {"roaming"}, ServerStep(p),
         UNCHANGED roamVars
  PROVE  RoamInv'
<1>1. /\ Serves("roaming")' <=> Serves("roaming")
      /\ Serves("roaming") => served' = served
  BY ServerStepInv DEF Plugin
<1>2. RoamTypeOK' /\ AskedIsNew' /\ NoIsKept'
  BY DEF RoamInv, RoamTypeOK, AskedIsNew, NoIsKept, roamVars
<1>. QED BY <1>1, <1>2 DEF RoamInv, roamVars

LEMMA OmaUntouched ==
  ASSUME ServerInv, OmaInv, NEW p \in Plugin \ {"oma_cp_ui"}, ServerStep(p),
         UNCHANGED omaVars
  PROVE  OmaInv'
<1>1. /\ Serves("oma_cp_ui")' <=> Serves("oma_cp_ui")
      /\ Serves("oma_cp_ui") => served' = served /\ taken' = taken
      /\ taken <= taken' /\ taken \in Nat /\ taken' \in Nat
  BY ServerStepInv, DialogServerAssumption DEF Plugin, ServerInv, DialogServerAssumption
<1>2. OmaTypeOK'
  BY DEF OmaInv, OmaTypeOK, omaVars
<1>3. OmaAskerIsTold'
  <2>1. ASSUME served = [plugin |-> "oma_cp_ui", id |-> oma.waiting], oma.waiting # 0
        PROVE  served' = served
    <3>1. oma.waiting \in 1..MaxShown
      BY <2>1, DialogServerAssumption
         DEF DialogServerAssumption, OmaInv, OmaTypeOK, Oma
    <3>2. served \in Request
      BY <2>1, <3>1 DEF Request, Plugin
    <3>. QED BY <1>1, <2>1, <3>2, DialogServerAssumption DEF DialogServerAssumption, Serves
  <2>. QED BY <2>1 DEF OmaInv, OmaAskerIsTold, omaVars
<1>4. WaitingOnTop'
  BY <1>1 DEF OmaInv, WaitingOnTop, omaVars
<1>5. OmaIdsAreOwn'
  <2>1. /\ oma.id \in Nat /\ oma.waiting \in Nat
        /\ \A t \in timers : t \in Nat
    BY DEF OmaInv, OmaTypeOK, Oma
  <2>2. ASSUME Serves("error_note")' \/ Serves("roaming")' PROVE oma.id # taken'
    <3>1. CASE taken' = taken
      BY <1>1, <2>2, <3>1 DEF ServerStep, OmaInv, OmaIdsAreOwn, server, Serves, Free, Showing,
                        TakenOnly, NewId
    <3>2. CASE taken' # taken
      BY <1>1, <2>1, <3>2 DEF OmaInv, OmaIdsAreOwn
    <3>. QED BY <3>1, <3>2
  <2>. QED BY <1>1, <2>1, <2>2 DEF OmaInv, OmaIdsAreOwn, omaVars
<1>. QED BY <1>1, <1>2, <1>3, <1>4, <1>5 DEF OmaInv, omaVars

-----------------------------------------------------------------------------
(* The roaming dialog *)

LEMMA RoamInitInv == ServerInit /\ RoamInit => RoamInv
<1> SUFFICES ASSUME ServerInit, RoamInit PROVE RoamInv
  OBVIOUS
<1> USE DialogServerAssumption, RoamingDialogAssumption
    DEF DialogServerAssumption, RoamingDialogAssumption
<1>1. RoamTypeOK
  <2>1. roam \in Roam
    BY DEF RoamInit, NewRoam, Roam
  <2>2. keys \in Keys
    BY DEF RoamInit, Keys
  <2>3. said \in [Imsi -> {"nothing", "yes", "no"}] /\ torn \in BOOLEAN
    BY DEF RoamInit
  <2>. QED BY <2>1, <2>2, <2>3 DEF RoamTypeOK
<1>2. NoIsKept /\ AskedIsNew
  BY DEF RoamInit, NewRoam, NoIsKept, AskedIsNew
<1>. QED BY <1>1, <1>2 DEF RoamInv, RoamInit, NewRoam, ServerInit, Serves

LEMMA RoamRestartsInv ==
  ASSUME RoamInv, RoamRestarts, served' = None
  PROVE  RoamInv'
<1> USE DialogServerAssumption, RoamingDialogAssumption
    DEF DialogServerAssumption, RoamingDialogAssumption
<1>1. RoamTypeOK'
  BY DEF RoamInv, RoamRestarts, NewRoam, RoamTypeOK, Roam
<1>2. NoIsKept' /\ AskedIsNew'
  BY DEF RoamInv, RoamRestarts, NewRoam, NoIsKept, AskedIsNew
<1>. QED BY <1>1, <1>2 DEF RoamInv, RoamRestarts, NewRoam, Serves

LEMMA RoamStep ==
  ASSUME ServerInv, RoamInv, RoamNext
  PROVE  ServerStep("roaming") /\ RoamInv'
<1> USE DialogServerAssumption, RoamingDialogAssumption
    DEF DialogServerAssumption, RoamingDialogAssumption
<1>0. /\ roam \in Roam /\ keys \in Keys
      /\ said \in [Imsi -> {"nothing", "yes", "no"}] /\ torn \in BOOLEAN
  BY DEF RoamInv, RoamTypeOK
<1>1. ASSUME NEW i \in Imsi, ShowRoamingAllowed(i)
      PROVE  ServerStep("roaming") /\ RoamInv'
  <2>1. Free /\ TakenOnly /\ ServerStep("roaming")
    BY <1>1 DEF ShowRoamingAllowed, ServerStep
  <2>2. roam' = [dialog |-> None, imsi |-> None, fn |-> FALSE, id |-> 0]
    BY <1>1, <1>0 DEF ShowRoamingAllowed, RoamClosed, RoamAsked, Roam
  <2>3. RoamTypeOK' /\ AskedIsNew' /\ NoIsKept'
    BY <1>0, <1>1, <2>2 DEF ShowRoamingAllowed, RoamTypeOK, Roam, AskedIsNew, NoIsKept, RoamInv
  <2>. QED BY <2>1, <2>2, <2>3 DEF RoamInv, Free, TakenOnly, Serves
<1>2. ASSUME NEW i \in Imsi, NEW d \in {"ask", "confirm"}, Free, Showing("roaming"),
             d = "ask" => i \notin keys.asked,
             roam' = [RoamAsked(i) EXCEPT !.dialog = d],
             UNCHANGED <<keys, said, torn>>
      PROVE  ServerStep("roaming") /\ RoamInv'
  <2>1. /\ taken' = taken + 1 /\ taken' \in 0..MaxShown
        /\ served' = [plugin |-> "roaming", id |-> taken']
    BY <1>2 DEF Free, Showing, NewId, ServerInv
  <2>2. roam' = [dialog |-> d, imsi |-> i, fn |-> TRUE, id |-> taken']
    BY <1>2, <1>0, <2>1 DEF RoamAsked, Roam, NewId
  <2>3. AskedIsNew' /\ NoIsKept'
    BY <1>0, <1>2, <2>2 DEF AskedIsNew, NoIsKept, RoamInv
  <2>5. RoamTypeOK'
    <3>1. roam' \in Roam
      BY <2>1, <2>2 DEF Roam
    <3>. QED BY <1>0, <1>2, <3>1 DEF RoamTypeOK
  <2>4. served' # None
    BY <2>1, <1>2 DEF Request, Plugin, ServerInv, Free
  <2>6. d # None
    OBVIOUS
  <2>. QED BY <1>2, <2>1, <2>2, <2>3, <2>4, <2>5, <2>6 DEF ServerStep, RoamInv, Serves
<1>3. ASSUME NEW ok \in BOOLEAN, NEW written \in SUBSET {"asked", "disabled"},
             AskAnswered(ok, written)
      PROVE  ServerStep("roaming") /\ RoamInv'
  <2>1. roam.dialog = "ask" /\ roam.imsi \in Imsi \ keys.asked /\ Serves("roaming")
        /\ roam.fn /\ roam.id = served.id
    BY <1>3 DEF AskAnswered, RoamInv, AskedIsNew
  <2>2. /\ keys' \in Keys
        /\ "asked" \in written => keys'.asked = {}
        /\ "asked" \notin written => keys'.asked = keys.asked
        /\ written = {} => keys' = keys
    BY <1>0, <1>3 DEF AskAnswered, Kept, Keys
  <2>3. said' \in [Imsi -> {"nothing", "yes", "no"}]
        /\ \A i \in keys.asked : said'[i] = said[i]
    BY <1>0, <1>3, <2>1 DEF AskAnswered, Keys
  <2>4. NoIsKept'
    <3>1. CASE "asked" \in written
      BY <2>2, <3>1 DEF NoIsKept
    <3>2. CASE written = {}
      BY <1>0, <1>3, <2>2, <2>3, <3>2 DEF NoIsKept, RoamInv, AskAnswered, Keys
    <3>3. CASE written = {"disabled"}
      BY <1>3, <3>3 DEF NoIsKept, AskAnswered
    <3>. QED BY <3>1, <3>2, <3>3
  <2>5. CASE ok
    <3>1. roam' = [dialog |-> None, imsi |-> None, fn |-> FALSE, id |-> 0]
      BY <1>0, <1>3, <2>1, <2>5 DEF AskAnswered, RoamClosed, Roam
    <3>2. served' = None /\ UNCHANGED taken
      BY <1>3, <2>1, <2>5 DEF AskAnswered, AfterDone, Serves
    <3>3. roam' \in Roam
      BY <3>1 DEF Roam
    <3>4. RoamTypeOK' /\ AskedIsNew'
      BY <1>0, <1>3, <2>2, <2>3, <3>1, <3>3 DEF RoamTypeOK, AskedIsNew, AskAnswered
    <3>. QED BY <2>1, <2>4, <3>1, <3>2, <3>4 DEF RoamInv, ServerStep, Serves
  <2>6. CASE ~ok
    <3>1. roam' = [roam EXCEPT !.dialog = "confirm"] /\ UNCHANGED server
      BY <1>3, <2>6 DEF AskAnswered, server
    <3>2. RoamTypeOK' /\ AskedIsNew'
      BY <1>0, <1>3, <2>2, <2>3, <3>1 DEF RoamTypeOK, Roam, AskedIsNew, AskAnswered
    <3>. QED BY <1>0, <2>1, <2>4, <3>1, <3>2 DEF RoamInv, ServerStep, Serves, server, Roam
  <2>. QED BY <2>5, <2>6
<1>4. ASSUME ConfirmAnswered
      PROVE  ServerStep("roaming") /\ RoamInv'
  <2>1. Serves("roaming") /\ roam.fn /\ roam.id = served.id
    BY <1>4 DEF ConfirmAnswered, RoamInv
  <2>2. roam' = [dialog |-> None, imsi |-> None, fn |-> FALSE, id |-> 0]
    BY <1>0, <1>4, <2>1 DEF ConfirmAnswered, RoamClosed, Roam
  <2>3. served' = None /\ UNCHANGED taken
    BY <1>4, <2>1 DEF ConfirmAnswered, AfterDone, Serves
  <2>4. RoamTypeOK' /\ AskedIsNew' /\ NoIsKept'
    BY <1>0, <1>4, <2>2 DEF ConfirmAnswered, RoamTypeOK, Roam, AskedIsNew, NoIsKept, RoamInv
  <2>. QED BY <2>1, <2>2, <2>3, <2>4 DEF RoamInv, ServerStep, Serves
<1>5. ASSUME NEW i \in Imsi, ShowRoamingConfirm(i)
      PROVE  ServerStep("roaming") /\ RoamInv'
  BY <1>5, <1>2 DEF ShowRoamingConfirm
<1>6. ASSUME NEW i \in Imsi, ShowRoamingAsk(i)
      PROVE  ServerStep("roaming") /\ RoamInv'
  BY <1>6, <1>2 DEF ShowRoamingAsk
<1>. QED BY <1>1, <1>3, <1>4, <1>5, <1>6 DEF RoamNext

-----------------------------------------------------------------------------
(* The dialog for settings provisioned over the air *)

LEMMA OmaInitInv == ServerInit /\ OmaInit => OmaInv
<1> SUFFICES ASSUME ServerInit, OmaInit PROVE OmaInv
  OBVIOUS
<1>1. OmaTypeOK
  BY DialogServerAssumption DEF DialogServerAssumption, OmaInit, NewOma, OmaTypeOK, Oma
<1>2. WaitingOnTop /\ OmaAskerIsTold /\ OmaIdsAreOwn
  BY DEF OmaInit, NewOma, WaitingOnTop, OmaAskerIsTold, OmaIdsAreOwn, ServerInit, Serves
<1>. QED BY <1>1, <1>2 DEF OmaInv, ServerInit, Serves

LEMMA OmaRestartsInv ==
  ASSUME ServerInv, OmaRestarts, served' = None, UNCHANGED taken
  PROVE  OmaInv'
<1>1. OmaTypeOK'
  BY DialogServerAssumption DEF DialogServerAssumption, OmaRestarts, NewOma, OmaTypeOK, Oma
<1>2. WaitingOnTop' /\ OmaAskerIsTold' /\ OmaIdsAreOwn'
  BY DEF OmaRestarts, NewOma, WaitingOnTop, OmaAskerIsTold, OmaIdsAreOwn, ServerInv, Serves
<1>. QED BY <1>1, <1>2 DEF OmaInv, Serves

LEMMA OmaClosedFields ==
  ASSUME NEW o \in Oma, NEW x, x = OmaClosed(o)
  PROVE  /\ x \in Oma
         /\ x.fn = FALSE /\ x.sender = 0
         /\ x.id = IF o.fn THEN 0 ELSE o.id
         /\ x.waiting = o.waiting /\ x.overtaken = o.overtaken
<1>1. 0 \in 0..MaxShown
  BY DialogServerAssumption DEF DialogServerAssumption
<1>. QED BY <1>1 DEF OmaClosed, Oma

LEMMA OmaTypes ==
  ASSUME OmaInv
  PROVE  /\ oma \in Oma /\ stack \in Seq(OmaDialog) /\ timers \subseteq 1..MaxShown
         /\ oma.id \in Nat /\ oma.waiting \in Nat /\ oma.sender \in Nat
         /\ oma.fn \in BOOLEAN /\ oma.overtaken \in BOOLEAN
BY DEF OmaInv, OmaTypeOK, Oma

(* A request is taken: its number is above all that the plugin keeps. *)
LEMMA OmaTakes ==
  ASSUME ServerInv, OmaInv, Free
  PROVE  /\ NewId \in 1..MaxShown /\ NewId \in 0..MaxShown
         /\ NewId = taken + 1 /\ taken \in Nat
         /\ oma.waiting = 0 \/ oma.overtaken
         /\ oma.id # NewId /\ oma.waiting # NewId
         /\ \A t \in timers : t < NewId
<1>1. taken \in Nat /\ taken < MaxShown /\ MaxShown \in Nat /\ served = None
  BY DialogServerAssumption DEF DialogServerAssumption, Free, ServerInv
<1>2. oma.waiting = 0 \/ oma.overtaken
  <2>1. ASSUME oma.waiting # 0 PROVE [plugin |-> "oma_cp_ui", id |-> oma.waiting] \in Request
    <3>1. oma.waiting \in 1..MaxShown
      BY <2>1, <1>1 DEF OmaInv, OmaTypeOK, Oma
    <3>. QED BY <3>1 DEF Request, Plugin
  <2>. QED BY <2>1, <1>1, DialogServerAssumption
           DEF OmaInv, OmaAskerIsTold, DialogServerAssumption
<1>3. \A t \in timers : t \in Nat
  BY OmaTypes, <1>1
<1>. QED BY <1>1, <1>2, <1>3, OmaTypes DEF OmaInv, OmaIdsAreOwn, NewId

LEMMA ShowOmaDialogInv ==
  ASSUME ServerInv, OmaInv, NEW kind \in Asking \cup {"note"}, ShowOmaDialog(kind)
  PROVE  ServerStep("oma_cp_ui") /\ OmaInv'
<1>1. Free /\ Showing("oma_cp_ui") /\ ServerStep("oma_cp_ui")
  BY DEF ShowOmaDialog, ServerStep
<1>2. /\ NewId \in 1..MaxShown /\ NewId \in 0..MaxShown
      /\ NewId = taken + 1 /\ taken \in Nat
      /\ oma.waiting = 0 \/ oma.overtaken
      /\ oma.waiting # NewId
      /\ \A t \in timers : t < NewId
  BY <1>1, OmaTakes
<1>3. /\ taken' = NewId
      /\ served' = [plugin |-> "oma_cp_ui", id |-> NewId]
  BY <1>1 DEF Showing
<1>4. /\ oma' \in Oma
      /\ oma'.fn = TRUE /\ oma'.id = NewId /\ oma'.sender = NewId
      /\ oma'.waiting = IF kind \in Asking THEN NewId ELSE oma.waiting
      /\ oma'.overtaken = oma.overtaken
  BY <1>2, OmaTypes DEF ShowOmaDialog, OmaTaken, Oma
<1>5. /\ stack' = Append(stack, [kind |-> kind, id |-> NewId])
      /\ timers' = timers
  BY DEF ShowOmaDialog
<1>6. /\ stack' \in Seq(OmaDialog) /\ stack' # << >>
      /\ Last(stack') = [kind |-> kind, id |-> NewId]
  <2>1. [kind |-> kind, id |-> NewId] \in OmaDialog
    BY <1>2 DEF OmaDialog
  <2>. QED BY <1>5, <2>1, OmaTypes DEF Last
<1>7. OmaTypeOK'
  BY <1>4, <1>5, <1>6, OmaTypes DEF OmaTypeOK
<1>8. \A t \in timers : t \in Nat
  BY OmaTypes
<1>9. oma'.waiting \notin timers'
  BY <1>2, <1>4, <1>5, <1>8 DEF OmaInv, WaitingOnTop
<1>10. WaitingOnTop'
  BY <1>2, <1>3, <1>4, <1>6, <1>9 DEF WaitingOnTop, Serves
<1>11. OmaAskerIsTold'
  BY <1>2, <1>3, <1>4 DEF OmaAskerIsTold
<1>12. OmaIdsAreOwn'
  BY <1>2, <1>3, <1>4, <1>5, <1>8, OmaTypes DEF OmaInv, OmaIdsAreOwn, Serves
<1>. QED BY <1>1, <1>3, <1>4, <1>7, <1>10, <1>11, <1>12 DEF OmaInv, Serves

LEMMA ShowOmaBannerInv ==
  ASSUME ServerInv, OmaInv, ShowOmaBanner
  PROVE  ServerStep("oma_cp_ui") /\ OmaInv'
<1>1. Free /\ Showing("oma_cp_ui") /\ ServerStep("oma_cp_ui")
  BY DEF ShowOmaBanner, ServerStep
<1>2. /\ NewId \in 1..MaxShown /\ NewId \in 0..MaxShown
      /\ NewId = taken + 1 /\ taken \in Nat
      /\ oma.waiting = 0 \/ oma.overtaken
      /\ oma.waiting # NewId
      /\ \A t \in timers : t < NewId
  BY <1>1, OmaTakes
<1>3. /\ taken' = NewId
      /\ served' = [plugin |-> "oma_cp_ui", id |-> NewId]
  BY <1>1 DEF Showing
<1>4. /\ oma' \in Oma
      /\ oma'.fn = TRUE /\ oma'.id = NewId /\ oma'.sender = NewId
      /\ oma'.waiting = oma.waiting
      /\ oma'.overtaken = oma.overtaken
  BY <1>2, OmaTypes DEF ShowOmaBanner, OmaTaken, Oma
<1>5. stack' = stack /\ timers' = timers \cup {NewId}
  BY DEF ShowOmaBanner
<1>6. OmaTypeOK'
  BY <1>2, <1>4, <1>5, OmaTypes DEF OmaTypeOK
<1>7. \A t \in timers : t \in Nat
  BY OmaTypes
<1>8. WaitingOnTop'
  BY <1>2, <1>3, <1>4, <1>5 DEF OmaInv, WaitingOnTop, Serves
<1>9. OmaAskerIsTold'
  BY <1>2, <1>3, <1>4 DEF OmaAskerIsTold
<1>10. OmaIdsAreOwn'
  BY <1>2, <1>3, <1>4, <1>5, <1>7, OmaTypes DEF OmaInv, OmaIdsAreOwn, Serves
<1>. QED BY <1>1, <1>3, <1>4, <1>6, <1>8, <1>9, <1>10 DEF OmaInv, Serves

LEMMA ShowOmaNothingInv ==
  ASSUME ServerInv, OmaInv, ShowOmaNothing
  PROVE  ServerStep("oma_cp_ui") /\ OmaInv'
<1>1. Free /\ TakenOnly /\ ServerStep("oma_cp_ui") /\ served = None
  BY DEF ShowOmaNothing, ServerStep, Free
<1>2. /\ NewId \in 1..MaxShown /\ NewId \in 0..MaxShown
      /\ NewId = taken + 1 /\ taken \in Nat
      /\ oma.waiting = 0 \/ oma.overtaken
      /\ \A t \in timers : t < NewId
  BY <1>1, OmaTakes
<1>3. taken' = NewId /\ served' = None
  BY <1>1 DEF TakenOnly
<1>4. /\ oma' \in Oma
      /\ oma'.id = NewId
      /\ oma'.waiting = oma.waiting
      /\ oma'.overtaken = oma.overtaken
      /\ stack' = stack /\ timers' = timers
  BY <1>2, OmaTypes DEF ShowOmaNothing, OmaTaken, Oma
<1>5. OmaTypeOK'
  BY <1>4, OmaTypes DEF OmaTypeOK
<1>6. \A t \in timers : t \in Nat
  BY OmaTypes
<1>7. WaitingOnTop' /\ OmaAskerIsTold'
  BY <1>2, <1>3, <1>4 DEF OmaInv, WaitingOnTop, OmaAskerIsTold, Serves
<1>8. OmaIdsAreOwn'
  BY <1>2, <1>3, <1>4, <1>6, OmaTypes DEF OmaInv, OmaIdsAreOwn, Serves
<1>. QED BY <1>1, <1>3, <1>5, <1>7, <1>8 DEF OmaInv, Serves

(* Closing gives back the turn, if it is this plugin's, and never the turn *)
(* of another.                                                             *)
LEMMA OmaGivesBack ==
  ASSUME ServerInv, OmaInv, served' = AfterDone(oma.fn, oma.id), UNCHANGED taken
  PROVE  /\ ServerStep("oma_cp_ui")
         /\ Serves("oma_cp_ui") => served' = None
         /\ ~Serves("oma_cp_ui") => served' = served
<1>1. CASE Serves("oma_cp_ui")
  <2>1. served # None /\ oma.fn /\ served.id = oma.id
    BY <1>1 DEF OmaInv, Serves
  <2>2. served' = None
    BY <2>1 DEF AfterDone
  <2>. QED BY <1>1, <2>2 DEF ServerStep
<1>2. CASE ~Serves("oma_cp_ui")
  <2>1. served = None \/ (served.id = taken /\ oma.id # taken)
    BY <1>2 DEF ServerInv, Request, Plugin, Serves, OmaInv, OmaIdsAreOwn
  <2>2. served' = served
    BY <2>1 DEF AfterDone
  <2>. QED BY <1>2, <2>2 DEF ServerStep, server
<1>. QED BY <1>1, <1>2

LEMMA OmaAnsweredInv ==
  ASSUME ServerInv, OmaInv, NEW destroyed \in BOOLEAN, OmaAnswered(destroyed)
  PROVE  ServerStep("oma_cp_ui") /\ OmaInv'
<1> DEFINE o == IF Last(stack).kind \in Asking THEN Replied(oma) ELSE oma
<1>1. /\ stack # << >> /\ (served = None \/ Serves("oma_cp_ui"))
      /\ oma' = OmaClosed(o)
      /\ served' = AfterDone(oma.fn, oma.id)
      /\ stack' = stack \/ stack' = Front(stack)
      /\ taken' = taken /\ timers' = timers
  BY DEF OmaAnswered
<1>2. ServerStep("oma_cp_ui") /\ served' = None
  BY <1>1, OmaGivesBack DEF Serves
<1>3. /\ o \in Oma /\ o.fn = oma.fn /\ o.id = oma.id /\ o.overtaken = oma.overtaken
      /\ o.waiting = oma.waiting \/ o.waiting = 0
      /\ Last(stack).kind \in Asking /\ oma.sender = oma.waiting => o.waiting = 0
  <2>1. 0 \in 0..MaxShown
    BY DialogServerAssumption DEF DialogServerAssumption
  <2>. QED BY <2>1, OmaTypes DEF Replied, Oma
<1>4. /\ oma' \in Oma
      /\ oma'.id = (IF oma.fn THEN 0 ELSE oma.id)
      /\ oma'.waiting = o.waiting /\ oma'.overtaken = oma.overtaken
  BY <1>1, <1>3, OmaClosedFields
<1>5. oma.waiting # 0 /\ ~oma.overtaken => o.waiting = 0
  <2>1. ASSUME oma.waiting # 0, ~oma.overtaken
        PROVE  Last(stack).kind \in Asking /\ oma.sender = oma.waiting
    <3>1. served = [plugin |-> "oma_cp_ui", id |-> oma.waiting]
      BY <2>1 DEF OmaInv, OmaAskerIsTold
    <3>2. oma.waiting \in 1..MaxShown
      BY <2>1, DialogServerAssumption DEF DialogServerAssumption, OmaInv, OmaTypeOK, Oma
    <3>3. Serves("oma_cp_ui") /\ oma.waiting = served.id
      <4>1. served \in Request
        BY <3>1, <3>2 DEF Request, Plugin
      <4>. QED BY <3>1, <4>1, DialogServerAssumption DEF DialogServerAssumption, Serves
    <3>. QED BY <2>1, <3>3 DEF OmaInv, WaitingOnTop
  <2>. QED BY <1>3, <2>1
<1>6. stack' \in Seq(OmaDialog)
  BY <1>1, OmaTypes DEF Front
<1>7. OmaTypeOK'
  BY <1>1, <1>4, <1>6, OmaTypes DEF OmaTypeOK
<1>8. oma'.waiting = 0 \/ oma'.overtaken
  BY <1>3, <1>4, <1>5
<1>9. oma'.waiting \notin timers'
  <2>1. 0 \notin timers
    BY OmaTypes
  <2>. QED BY <1>1, <1>3, <1>4, <2>1 DEF OmaInv, WaitingOnTop
<1>10. WaitingOnTop' /\ OmaAskerIsTold'
  BY <1>2, <1>8, <1>9 DEF WaitingOnTop, OmaAskerIsTold, Serves
<1>11. OmaIdsAreOwn'
  BY <1>1, <1>2, <1>3, <1>4, OmaTypes DEF OmaInv, OmaIdsAreOwn, Serves, ServerInv
<1>. QED BY <1>2, <1>7, <1>10, <1>11 DEF OmaInv, Serves

LEMMA BannerTimeoutInv ==
  ASSUME ServerInv, OmaInv, NEW id \in 1..MaxShown, BannerTimeout(id)
  PROVE  ServerStep("oma_cp_ui") /\ OmaInv'
<1> DEFINE overtakes == oma.overtaken \/ (Serves("oma_cp_ui") /\ served.id # id)
<1>1. /\ id \in timers
      /\ timers' = timers \ {id}
      /\ oma' = [OmaClosed(oma) EXCEPT !.overtaken = @ \/ (Serves("oma_cp_ui") /\ served.id # id)]
      /\ served' = AfterDone(oma.fn, oma.id)
      /\ taken' = taken /\ stack' = stack
  BY DEF BannerTimeout
<1>2. /\ ServerStep("oma_cp_ui")
      /\ Serves("oma_cp_ui") => served' = None
      /\ ~Serves("oma_cp_ui") => served' = served
  BY <1>1, OmaGivesBack
<1>3. /\ OmaClosed(oma) \in Oma
      /\ OmaClosed(oma).id = IF oma.fn THEN 0 ELSE oma.id
      /\ OmaClosed(oma).waiting = oma.waiting
      /\ OmaClosed(oma).overtaken = oma.overtaken
  BY OmaTypes, OmaClosedFields
<1>4. overtakes \in BOOLEAN
  BY OmaTypes DEF Serves
<1>5. oma' = [OmaClosed(oma) EXCEPT !.overtaken = overtakes]
  BY <1>1, <1>3
<1>6. /\ oma' \in Oma
      /\ oma'.id = (IF oma.fn THEN 0 ELSE oma.id)
      /\ oma'.waiting = oma.waiting
      /\ oma'.overtaken = overtakes
  <2> HIDE DEF overtakes
  <2>. QED BY <1>3, <1>4, <1>5 DEF Oma
<1>7. OmaTypeOK'
  BY <1>1, <1>6, OmaTypes DEF OmaTypeOK
<1>8. ASSUME oma.waiting # 0, ~oma.overtaken PROVE overtakes
  <2>1. served = [plugin |-> "oma_cp_ui", id |-> oma.waiting]
    BY <1>8 DEF OmaInv, OmaAskerIsTold
  <2>2. oma.waiting \in 1..MaxShown /\ oma.waiting # id
    BY <1>1, <1>8, DialogServerAssumption
       DEF DialogServerAssumption, OmaInv, OmaTypeOK, Oma, WaitingOnTop
  <2>3. served \in Request
    BY <2>1, <2>2 DEF Request, Plugin
  <2>. QED BY <2>1, <2>2, <2>3, DialogServerAssumption DEF DialogServerAssumption, Serves
<1>9. oma'.waiting = 0 \/ oma'.overtaken
  BY <1>6, <1>8
<1>10. ~Serves("oma_cp_ui")'
  BY <1>2 DEF Serves
<1>11. WaitingOnTop' /\ OmaAskerIsTold'
  BY <1>1, <1>6, <1>9, <1>10 DEF OmaInv, WaitingOnTop, OmaAskerIsTold
<1>12. OmaIdsAreOwn'
  <2>1. Serves("error_note")' \/ Serves("roaming")' => oma.id # taken /\ taken # 0
    BY <1>2 DEF OmaInv, OmaIdsAreOwn, Serves, ServerInv, Request
  <2>. QED BY <1>1, <1>6, <2>1, OmaTypes DEF OmaInv, OmaIdsAreOwn, ServerInv
<1>. QED BY <1>2, <1>7, <1>10, <1>11, <1>12 DEF OmaInv

LEMMA OmaStep ==
  ASSUME ServerInv, OmaInv, OmaNext
  PROVE  ServerStep("oma_cp_ui") /\ OmaInv'
BY ShowOmaDialogInv, ShowOmaBannerInv, ShowOmaNothingInv, OmaAnsweredInv, BannerTimeoutInv
   DEF OmaNext

-----------------------------------------------------------------------------
(* The error notes *)

LEMMA NoteTypes ==
  ASSUME NoteInv
  PROVE  /\ note \in Note /\ settings \in Settings
         /\ note.dialog \in Side \cup {"text", None} /\ note.fn \in BOOLEAN
         /\ note.id \in -1..MaxShown /\ note.pending \subseteq Side
         /\ listeners \subseteq {"live", "freed"} /\ sent \subseteq Side
         /\ dropped \subseteq Side /\ swept \in BOOLEAN /\ refused \in BOOLEAN
BY DEF NoteInv, NoteTypeOK, Note

LEMMA NewNoteFields ==
  /\ NewNote(settings.acked) \in Note
  /\ NewNote(settings.acked).dialog = None
  /\ NewNote(settings.acked).notified = FALSE
  /\ NewNote(settings.acked).pending = Side \ settings.acked
<1>1. 0 \in -1..MaxShown
  BY DialogServerAssumption DEF DialogServerAssumption
<1>2. Side \ settings.acked \in SUBSET Side /\ [m \in Modem |-> None] \in [Modem -> Registration \cup {None}]
  OBVIOUS
<1>. QED BY <1>1, <1>2 DEF NewNote, PendingAcks, Note

LEMMA NoteInitInv == ServerInit /\ NoteInit => NoteInv
<1> SUFFICES ASSUME ServerInit, NoteInit PROVE NoteInv
  OBVIOUS
<1>1. settings \in Settings
  <2>1. \A s \in Seq({"GPRS", "*", "WLAN_INFRA"}) : s \in Seq({"GPRS", "*", "WLAN_INFRA", ""})
    BY SeqMonotonic, {"GPRS", "*", "WLAN_INFRA"} \subseteq {"GPRS", "*", "WLAN_INFRA", ""}
  <2>2. AutoConnect \subseteq Seq({"GPRS", "*", "WLAN_INFRA", ""})
    BY <2>1, ErrorNoteAssumption DEF ErrorNoteAssumption
  <2>. QED BY <2>2 DEF NoteInit, Settings
<1>2. note = NewNote(settings.acked)
  BY DEF NoteInit
<1>3. NoteTypeOK
  BY <1>1, <1>2, NewNoteFields DEF NoteInit, NoteTypeOK
<1>4. UnackedIsNotForgotten /\ NothingDangles /\ ListenersHaveWarning /\ RefusedStaysServed
  BY <1>2, NewNoteFields
     DEF NoteInit, UnackedIsNotForgotten, NothingDangles, ListenersHaveWarning, RefusedStaysServed
<1>. QED BY <1>2, <1>3, <1>4, NewNoteFields DEF NoteInv, ServerInit, Serves

LEMMA NoteRestartsInv ==
  ASSUME NoteInv, NoteRestarts, served' = None
  PROVE  NoteInv'
<1>1. note' = NewNote(settings.acked) /\ settings' = settings
  BY DEF NoteRestarts
<1>2. NoteTypeOK'
  BY <1>1, NewNoteFields, NoteTypes DEF NoteRestarts, NoteTypeOK
<1>3. UnackedIsNotForgotten' /\ NothingDangles' /\ ListenersHaveWarning' /\ RefusedStaysServed'
  BY <1>1, NewNoteFields
     DEF NoteRestarts, UnackedIsNotForgotten, NothingDangles, ListenersHaveWarning,
         RefusedStaysServed
<1>. QED BY <1>1, <1>2, <1>3, NewNoteFields DEF NoteInv, Serves

LEMMA ClosedFields ==
  ASSUME NEW n \in Note, NEW x, x = Closed(n)
  PROVE  /\ x \in Note
         /\ x.dialog = None /\ x.fn = FALSE /\ x.notified = FALSE
         /\ x.id = IF n.fn THEN 0 ELSE n.id
         /\ x.pending = n.pending
<1>1. 0 \in -1..MaxShown
  BY DialogServerAssumption DEF DialogServerAssumption
<1>. QED BY <1>1 DEF Closed, Note

LEMMA ToldFields ==
  ASSUME NoteInv, NEW m \in Modem, NEW reg \in Registration, NEW t, t = Told(m, reg)
  PROVE  /\ t \in Note
         /\ t.dialog = note.dialog /\ t.fn = note.fn /\ t.id = note.id
         /\ t.notified = note.notified /\ t.labels = note.labels
         /\ t.pending = note.pending \ {reg}
BY NoteTypes DEF Told, Note

(* A warning that is not acknowledged moves from one list to another when  *)
(* a registration is told.                                                 *)
LEMMA AcksKeepWarnings ==
  ASSUME NoteInv, NEW reg \in Registration, Acks(reg)
  PROVE  /\ settings' = settings /\ sent' \subseteq Side
         /\ (note.pending \ {reg}) \cup sent' = note.pending \cup sent
BY NoteTypes DEF Acks

(* Nothing is on the screen when the server is free. *)
LEMMA NoteFree ==
  ASSUME ServerInv, NoteInv, Free
  PROVE  /\ note.dialog = None /\ ~refused
         /\ listeners # {} => swept
         /\ served = None
         /\ NewId \in -1..MaxShown
<1>1. served = None /\ ~Serves("error_note")
  BY DEF Free, Serves
<1>2. note.dialog = None /\ ~refused
  BY <1>1 DEF NoteInv, RefusedStaysServed
<1>3. note.dialog \notin Side
  BY <1>2, ErrorNoteAssumption DEF ErrorNoteAssumption, Side
<1>4. NewId \in -1..MaxShown
  BY DialogServerAssumption DEF DialogServerAssumption, Free, NewId, ServerInv
<1>. QED BY <1>1, <1>2, <1>3, <1>4 DEF NoteInv, ListenersHaveWarning

(* A note that goes gives the turn back, unless its id was lost. *)
LEMMA NoteGivesBack ==
  ASSUME ServerInv, NoteInv, note.dialog # None,
         served' = AfterDone(note.fn, note.id), UNCHANGED taken
  PROVE  /\ ServerStep("error_note")
         /\ Serves("error_note")
         /\ ~refused => served' = None
         /\ refused => served' = served
<1>1. Serves("error_note")
  BY DEF NoteInv, RefusedStaysServed
<1>2. CASE ~refused
  <2>1. served' = None
    BY <1>1, <1>2 DEF NoteInv, AfterDone, Serves
  <2>. QED BY <1>1, <1>2, <2>1 DEF ServerStep
<1>3. CASE refused
  <2>1. note.id <= 0 /\ served # None /\ served \in Request /\ note.id \in -1..MaxShown
    BY <1>1, <1>3, NoteTypes DEF NoteInv, RefusedStaysServed, ServerInv, Serves
  <2>2. served.id \in 1..MaxShown
    BY <2>1 DEF Request
  <2>3. served' = served
    BY <2>1, <2>2 DEF AfterDone
  <2>. QED BY <1>1, <1>3, <2>3 DEF ServerStep, server
<1>. QED BY <1>2, <1>3

(* A step that keeps the dialog and everything about it. *)
LEMMA NoteSame ==
  ASSUME NoteInv, NoteTypeOK', UnackedIsNotForgotten',
         note'.dialog = note.dialog, note'.fn = note.fn, note'.id = note.id,
         note'.notified = note.notified, note'.labels = note.labels,
         UNCHANGED <<server, listeners, swept, refused>>
  PROVE  ServerStep("error_note") /\ NoteInv'
<1>1. served' = served /\ ServerStep("error_note")
  BY DEF server, ServerStep
<1>2. NothingDangles' /\ ListenersHaveWarning' /\ RefusedStaysServed'
  BY <1>1 DEF NoteInv, NothingDangles, ListenersHaveWarning, RefusedStaysServed, Serves
<1>. QED BY <1>1, <1>2 DEF NoteInv, Serves

(* A step that closes the dialog and says where a warning in it goes. *)
LEMMA NoteCloses ==
  ASSUME ServerInv, NoteInv, NEW n \in Note, note.dialog # None,
         n.fn = note.fn, n.id = note.id,
         note' = Closed(n),
         served' = AfterDone(note.fn, note.id), UNCHANGED <<taken, refused>>,
         settings' \in Settings, listeners' \subseteq {"live", "freed"},
         sent' \subseteq Side, dropped' \subseteq Side, swept' \in BOOLEAN,
         UnackedIsNotForgotten',
         listeners' # {} => swept'
  PROVE  ServerStep("error_note") /\ NoteInv'
<1>1. /\ ServerStep("error_note") /\ Serves("error_note")
      /\ ~refused => served' = None
      /\ refused => served' = served
  BY NoteGivesBack
<1>2. /\ note' \in Note
      /\ note'.dialog = None /\ note'.fn = FALSE /\ note'.notified = FALSE
      /\ note'.id = IF note.fn THEN 0 ELSE note.id
  BY ClosedFields
<1>3. NoteTypeOK'
  BY <1>2, NoteTypes DEF NoteTypeOK
<1>4. NothingDangles' /\ ListenersHaveWarning'
  BY <1>2 DEF NothingDangles, ListenersHaveWarning
<1>5. RefusedStaysServed'
  BY <1>1, <1>2 DEF NoteInv, RefusedStaysServed, Serves
<1>. QED BY <1>1, <1>2, <1>3, <1>4, <1>5 DEF NoteInv, Serves

(* A step that takes the turn and puts a dialog on the screen. *)
LEMMA NoteShown ==
  ASSUME ServerInv, NoteInv, Free, Showing("error_note"),
         NEW d \in Side \cup {"text"},
         note' \in Note, note'.dialog = d, note'.fn = TRUE, note'.id = NewId,
         d \in Side => note'.labels = "live",
         settings' \in Settings, sent' \subseteq Side,
         listeners' = listeners \/ (d \in Side /\ listeners' = listeners \cup {"live"}),
         UNCHANGED <<dropped, swept, refused>>,
         UnackedIsNotForgotten'
  PROVE  ServerStep("error_note") /\ NoteInv'
<1>1. note.dialog = None /\ ~refused /\ (listeners # {} => swept)
  BY NoteFree
<1>2. served' = [plugin |-> "error_note", id |-> NewId] /\ ServerStep("error_note")
  BY DEF Showing, ServerStep
<1>3. Serves("error_note")' /\ served'.id = NewId
  <2>1. NewId \in 1..MaxShown
    BY DialogServerAssumption DEF DialogServerAssumption, Free, NewId, ServerInv
  <2>2. served' \in Request
    BY <1>2, <2>1 DEF Request, Plugin
  <2>. QED BY <1>2, <2>2, DialogServerAssumption DEF DialogServerAssumption, Serves
<1>4. d # None
  BY ErrorNoteAssumption DEF ErrorNoteAssumption, Side
<1>5. NoteTypeOK'
  BY NoteTypes DEF NoteTypeOK
<1>6. NothingDangles' /\ ListenersHaveWarning'
  BY <1>1 DEF NoteInv, NothingDangles, ListenersHaveWarning
<1>7. RefusedStaysServed'
  BY <1>1 DEF RefusedStaysServed
<1>. QED BY <1>1, <1>2, <1>3, <1>4, <1>5, <1>6, <1>7 DEF NoteInv

(* A step that takes a request and shows nothing. *)
LEMMA NoteSkipped ==
  ASSUME ServerInv, NoteInv, Free, TakenOnly,
         note' = Closed([note EXCEPT !.fn = TRUE, !.id = NewId]),
         UNCHANGED <<settings, listeners, swept, refused>>,
         sent' \subseteq Side, dropped' \subseteq Side,
         UnackedIsNotForgotten'
  PROVE  ServerStep("error_note") /\ NoteInv'
<1>1. note.dialog = None /\ ~refused /\ (listeners # {} => swept) /\ served = None
      /\ NewId \in -1..MaxShown
  BY NoteFree
<1>2. [note EXCEPT !.fn = TRUE, !.id = NewId] \in Note
  BY <1>1, NoteTypes DEF Note
<1>3. note' \in Note /\ note'.dialog = None /\ note'.notified = FALSE
  BY <1>2, ClosedFields
<1>4. ~Serves("error_note")' /\ ServerStep("error_note")
  BY <1>1 DEF TakenOnly, ServerStep, Serves
<1>5. NoteTypeOK'
  BY <1>3, NoteTypes DEF NoteTypeOK
<1>6. NothingDangles' /\ ListenersHaveWarning' /\ RefusedStaysServed'
  BY <1>1, <1>3 DEF NoteInv, NothingDangles, ListenersHaveWarning, RefusedStaysServed
<1>. QED BY <1>3, <1>4, <1>5, <1>6 DEF NoteInv

(* One lemma per handler, or per kind of handler *)

LEMMA ModemsToldInv ==
  ASSUME ServerInv, NoteInv, NEW m \in Modem, ModemTold(m) \/ ModemRemovedTold(m)
  PROVE  ServerStep("error_note") /\ NoteInv'
<1>1. PICK r \in {"unknown", None} : note' = [note EXCEPT !.reg[m] = r]
  BY DEF ModemTold, ModemRemovedTold
<1>2. UNCHANGED <<server, settings, listeners, sent, dropped, swept, refused>>
  BY DEF ModemTold, ModemRemovedTold
<1>3. /\ note' \in Note
      /\ note'.dialog = note.dialog /\ note'.fn = note.fn /\ note'.id = note.id
      /\ note'.notified = note.notified /\ note'.labels = note.labels
      /\ note'.pending = note.pending
  BY <1>1, NoteTypes DEF Note, Registration
<1>4. NoteTypeOK' /\ UnackedIsNotForgotten'
  BY <1>2, <1>3 DEF NoteInv, NoteTypeOK, UnackedIsNotForgotten
<1>. QED BY <1>2, <1>3, <1>4, NoteSame

LEMMA NetToldEarlyInv ==
  ASSUME ServerInv, NoteInv, NEW m \in Modem, NEW reg \in Registration, NetToldEarly(m, reg)
  PROVE  ServerStep("error_note") /\ NoteInv'
<1>1. /\ Acks(reg) /\ note' = [note EXCEPT !.pending = @ \ {reg}]
      /\ UNCHANGED <<server, listeners, dropped, swept, refused>>
  BY DEF NetToldEarly
<1>2. /\ note' \in Note
      /\ note'.dialog = note.dialog /\ note'.fn = note.fn /\ note'.id = note.id
      /\ note'.notified = note.notified /\ note'.labels = note.labels
      /\ note'.pending = note.pending \ {reg}
  BY <1>1, NoteTypes DEF Note
<1>3. /\ settings' = settings /\ sent' \subseteq Side
      /\ note'.pending \cup sent' = note.pending \cup sent
  BY <1>1, <1>2, AcksKeepWarnings
<1>4. UnackedIsNotForgotten'
  BY <1>1, <1>2, <1>3 DEF NoteInv, UnackedIsNotForgotten
<1>5. NoteTypeOK'
  BY <1>1, <1>2, <1>3, NoteTypes DEF NoteTypeOK
<1>. QED BY <1>1, <1>2, <1>4, <1>5, NoteSame

LEMMA NetToldInv ==
  ASSUME ServerInv, NoteInv, NEW m \in Modem, NEW reg \in Registration, NetTold(m, reg)
  PROVE  ServerStep("error_note") /\ NoteInv'
<1> DEFINE t == Told(m, reg)
           closes == Registered(reg) /\ ~Registered(note.reg[m]) /\ note.dialog # None
<1>1. /\ t \in Note
      /\ t.dialog = note.dialog /\ t.fn = note.fn /\ t.id = note.id
      /\ t.notified = note.notified /\ t.labels = note.labels
      /\ t.pending = note.pending \ {reg}
  BY ToldFields
<1>2. /\ settings' = settings /\ sent' \subseteq Side
      /\ t.pending \cup sent' = note.pending \cup sent
      /\ UNCHANGED <<taken, refused>>
  BY <1>1, AcksKeepWarnings DEF NetTold
<1>3. CASE closes
  <2>1. /\ note' = Closed(t)
        /\ served' = AfterDone(note.fn, note.id)
        /\ listeners' = Freed(listeners)
        /\ dropped' = dropped \cup (({note.dialog} \cap Side) \ settings.acked)
        /\ swept' = (swept \/ note.dialog \in Side)
    BY <1>3 DEF NetTold
  <2>2. listeners' \subseteq {"live", "freed"} /\ (listeners' # {} => swept')
    BY <2>1 DEF Freed, NoteInv, ListenersHaveWarning
  <2>3. note'.pending = t.pending
    BY <1>1, <2>1, ClosedFields
  <2>4. UnackedIsNotForgotten'
    BY <1>2, <2>1, <2>3 DEF NoteInv, UnackedIsNotForgotten
  <2>5. dropped' \subseteq Side /\ swept' \in BOOLEAN
    BY <2>1, NoteTypes
  <2>6. settings' \in Settings /\ note.dialog # None
    BY <1>2, <1>3, NoteTypes
  <2> HIDE DEF t, closes
  <2>. QED BY <1>1, <1>2, <2>1, <2>2, <2>4, <2>5, <2>6, NoteCloses
<1>4. CASE ~closes
  <2>1. note' = t /\ served' = served /\ listeners' = listeners /\ dropped' = dropped
        /\ swept' = swept
    BY <1>4, NoteTypes DEF NetTold
  <2>2. UnackedIsNotForgotten'
    BY <1>1, <1>2, <2>1 DEF NoteInv, UnackedIsNotForgotten
  <2>3. NoteTypeOK'
    BY <1>1, <1>2, <2>1, NoteTypes DEF NoteTypeOK
  <2> HIDE DEF t, closes
  <2>. QED BY <1>1, <1>2, <2>1, <2>2, <2>3, NoteSame DEF server
<1>. QED BY <1>3, <1>4

LEMMA NoteGrantedInv ==
  ASSUME ServerInv, NoteInv, NEW m \in Modem, NEW reg \in Registration, NoteGranted(m, reg)
  PROVE  ServerStep("error_note") /\ NoteInv'
<1>1. /\ Free /\ Showing("error_note") /\ Acks(reg)
      /\ note' = [Told(m, reg) EXCEPT !.dialog = "text", !.fn = TRUE, !.id = NewId]
      /\ UNCHANGED <<listeners, dropped, swept, refused>>
  BY DEF NoteGranted, LostTold
<1>2. note.dialog = None /\ NewId \in -1..MaxShown
  BY <1>1, NoteFree
<1>3. /\ note' \in Note
      /\ note'.dialog = "text" /\ note'.fn = TRUE /\ note'.id = NewId
      /\ note'.pending = note.pending \ {reg}
  <2> DEFINE t == Told(m, reg)
  <2>1. t \in Note /\ t.pending = note.pending \ {reg}
    BY ToldFields
  <2> HIDE DEF t
  <2>. QED BY <1>1, <1>2, <2>1 DEF Note, t
<1>4. /\ settings' = settings /\ sent' \subseteq Side
      /\ note'.pending \cup sent' = note.pending \cup sent
  BY <1>1, <1>3, AcksKeepWarnings
<1>5. UnackedIsNotForgotten'
  BY <1>1, <1>2, <1>3, <1>4, ErrorNoteAssumption
     DEF NoteInv, UnackedIsNotForgotten, ErrorNoteAssumption, Side
<1>6. settings' \in Settings /\ "text" \notin Side
  BY <1>4, NoteTypes DEF Side
<1>. QED BY <1>1, <1>3, <1>4, <1>5, <1>6, NoteShown

LEMMA NoteRefusedInv ==
  ASSUME ServerInv, NoteInv, NEW m \in Modem, NEW reg \in Registration, NoteRefused(m, reg)
  PROVE  ServerStep("error_note") /\ NoteInv'
<1> DEFINE t == Told(m, reg)
<1>1. /\ Acks(reg) /\ note' = [t EXCEPT !.id = -1]
      /\ refused' = (refused \/ Serves("error_note"))
      /\ UNCHANGED <<server, listeners, dropped, swept>>
  BY DEF NoteRefused, LostTold
<1>2. -1 \in -1..MaxShown
  BY DialogServerAssumption DEF DialogServerAssumption
<1>3. /\ t \in Note
      /\ t.dialog = note.dialog /\ t.fn = note.fn
      /\ t.notified = note.notified /\ t.labels = note.labels
      /\ t.pending = note.pending \ {reg}
  BY ToldFields
<1>4. /\ note' \in Note
      /\ note'.dialog = note.dialog /\ note'.fn = note.fn /\ note'.id = -1
      /\ note'.notified = note.notified /\ note'.labels = note.labels
      /\ note'.pending = note.pending \ {reg}
  <2> HIDE DEF t
  <2>. QED BY <1>1, <1>2, <1>3 DEF Note
<1>5. /\ settings' = settings /\ sent' \subseteq Side
      /\ note'.pending \cup sent' = note.pending \cup sent
  BY <1>1, <1>4, AcksKeepWarnings
<1>6. UnackedIsNotForgotten'
  BY <1>1, <1>4, <1>5 DEF NoteInv, UnackedIsNotForgotten
<1>7. NoteTypeOK'
  <2>1. refused' \in BOOLEAN
    <3>1. Serves("error_note") \in BOOLEAN
      BY DEF Serves
    <3>. QED BY <1>1, <3>1, NoteTypes
  <2>. QED BY <1>1, <1>4, <1>5, <2>1, NoteTypes DEF NoteTypeOK
<1>8. served' = served /\ ServerStep("error_note")
  BY <1>1 DEF server, ServerStep
<1>9. NothingDangles' /\ ListenersHaveWarning'
  BY <1>1, <1>4 DEF NoteInv, NothingDangles, ListenersHaveWarning
<1>10. RefusedStaysServed'
  <2>1. refused' => Serves("error_note")
    BY <1>1 DEF NoteInv, RefusedStaysServed
  <2>2. Serves("error_note") => Serves("error_note")'
    BY <1>8 DEF Serves
  <2>. QED BY <1>4, <2>1, <2>2 DEF RefusedStaysServed
<1>. QED BY <1>1, <1>4, <1>6, <1>7, <1>8, <1>9, <1>10 DEF NoteInv, Serves

LEMMA ShowWarningInv ==
  ASSUME ServerInv, NoteInv, NEW k \in Side, ShowWarning(k)
  PROVE  ServerStep("error_note") /\ NoteInv'
<1>1. /\ Free /\ Showing("error_note") /\ sent' \in {sent, sent \ {k}}
      /\ note' = [note EXCEPT !.dialog = k, !.fn = TRUE, !.id = NewId, !.notified = TRUE,
                              !.labels = "live"]
      /\ listeners' = listeners \cup {"live"}
      /\ settings' = [settings EXCEPT !.acked = @ \ {k}]
      /\ UNCHANGED <<dropped, swept, refused>>
  BY DEF ShowWarning, Asked
<1>2. note.dialog = None /\ NewId \in -1..MaxShown
  BY <1>1, NoteFree
<1>3. /\ note' \in Note
      /\ note'.dialog = k /\ note'.fn = TRUE /\ note'.id = NewId /\ note'.labels = "live"
      /\ note'.pending = note.pending
  BY <1>1, <1>2, NoteTypes DEF Note
<1>4. settings' \in Settings /\ settings'.acked = settings.acked \ {k}
  BY <1>1, NoteTypes DEF Settings
<1>5. \A l \in Side \ settings.acked : l \in note.pending \cup sent \cup dropped
  BY <1>2, ErrorNoteAssumption
     DEF NoteInv, UnackedIsNotForgotten, ErrorNoteAssumption, Side
<1>6. UnackedIsNotForgotten'
  BY <1>1, <1>3, <1>4, <1>5 DEF UnackedIsNotForgotten
<1>7. sent' \subseteq Side
  BY <1>1, NoteTypes
<1>. QED BY <1>1, <1>3, <1>4, <1>6, <1>7, NoteShown

LEMMA SkipWarningInv ==
  ASSUME ServerInv, NoteInv, NEW k \in Side, SkipWarning(k)
  PROVE  ServerStep("error_note") /\ NoteInv'
<1>1. /\ Free /\ TakenOnly /\ sent' \in {sent, sent \ {k}}
      /\ note' = Closed([note EXCEPT !.fn = TRUE, !.id = NewId])
      /\ dropped' = IF k \in settings.acked THEN dropped ELSE dropped \cup {k}
      /\ UNCHANGED <<settings, listeners, swept, refused>>
  BY DEF SkipWarning, Asked
<1>2. note.dialog = None /\ NewId \in -1..MaxShown
  BY <1>1, NoteFree
<1>3. note'.pending = note.pending
  <2>1. [note EXCEPT !.fn = TRUE, !.id = NewId] \in Note
    BY <1>2, NoteTypes DEF Note
  <2>2. note'.pending = [note EXCEPT !.fn = TRUE, !.id = NewId].pending
    BY <1>1, <2>1, ClosedFields
  <2>. QED BY <2>2, NoteTypes DEF Note
<1>4. \A l \in Side \ settings.acked : l \in note.pending \cup sent \cup dropped
  BY <1>2, ErrorNoteAssumption
     DEF NoteInv, UnackedIsNotForgotten, ErrorNoteAssumption, Side
<1>5. UnackedIsNotForgotten'
  BY <1>1, <1>3, <1>4 DEF UnackedIsNotForgotten
<1>6. sent' \subseteq Side /\ dropped' \subseteq Side
  BY <1>1, NoteTypes
<1>. QED BY <1>1, <1>5, <1>6, NoteSkipped

LEMMA SkipAutoConnectInv ==
  ASSUME ServerInv, NoteInv, SkipAutoConnect
  PROVE  ServerStep("error_note") /\ NoteInv'
<1>1. /\ Free /\ TakenOnly /\ sent' \in {sent, sent \ {"auto"}}
      /\ note' = Closed([note EXCEPT !.fn = TRUE, !.id = NewId])
      /\ UNCHANGED <<settings, listeners, dropped, swept, refused>>
  BY DEF SkipAutoConnect, Asked
<1>2. note.dialog = None /\ NewId \in -1..MaxShown
  BY <1>1, NoteFree
<1>3. note'.pending = note.pending
  <2>1. [note EXCEPT !.fn = TRUE, !.id = NewId] \in Note
    BY <1>2, NoteTypes DEF Note
  <2>2. note'.pending = [note EXCEPT !.fn = TRUE, !.id = NewId].pending
    BY <1>1, <2>1, ClosedFields
  <2>. QED BY <2>2, NoteTypes DEF Note
<1>4. sent' = sent
  BY <1>1, NoteTypes DEF Side
<1>5. \A l \in Side \ settings.acked : l \in note.pending \cup sent \cup dropped
  BY <1>2, ErrorNoteAssumption
     DEF NoteInv, UnackedIsNotForgotten, ErrorNoteAssumption, Side
<1>6. UnackedIsNotForgotten'
  BY <1>1, <1>3, <1>4, <1>5 DEF UnackedIsNotForgotten
<1>. QED BY <1>1, <1>4, <1>6, NoteTypes, NoteSkipped

LEMMA ShowTextInv ==
  ASSUME ServerInv, NoteInv, ShowText
  PROVE  ServerStep("error_note") /\ NoteInv'
<1>1. /\ Free /\ Showing("error_note") /\ sent' \in {sent, sent \ {"text"}}
      /\ note' = [note EXCEPT !.dialog = "text", !.fn = TRUE, !.id = NewId, !.notified = TRUE]
      /\ UNCHANGED <<settings, listeners, dropped, swept, refused>>
  BY DEF ShowText, Asked
<1>2. note.dialog = None /\ NewId \in -1..MaxShown
  BY <1>1, NoteFree
<1>3. /\ note' \in Note
      /\ note'.dialog = "text" /\ note'.fn = TRUE /\ note'.id = NewId
      /\ note'.pending = note.pending
  BY <1>1, <1>2, NoteTypes DEF Note
<1>4. sent' = sent /\ "text" \notin Side
  BY <1>1, NoteTypes DEF Side
<1>5. \A l \in Side \ settings.acked : l \in note.pending \cup sent \cup dropped
  BY <1>2, ErrorNoteAssumption
     DEF NoteInv, UnackedIsNotForgotten, ErrorNoteAssumption, Side
<1>6. UnackedIsNotForgotten'
  BY <1>1, <1>3, <1>4, <1>5 DEF UnackedIsNotForgotten
<1>. QED BY <1>1, <1>3, <1>4, <1>6, NoteTypes, NoteShown

LEMMA TextAnsweredInv ==
  ASSUME ServerInv, NoteInv, TextAnswered
  PROVE  ServerStep("error_note") /\ NoteInv'
<1>1. /\ note.dialog = "text" /\ note' = Closed(note)
      /\ served' = AfterDone(note.fn, note.id)
      /\ UNCHANGED <<taken, settings, listeners, sent, dropped, swept, refused>>
  BY DEF TextAnswered
<1>2. note.dialog # None /\ note.dialog \notin Side
  BY <1>1, ErrorNoteAssumption DEF ErrorNoteAssumption, Side
<1>3. note'.pending = note.pending
  BY <1>1, NoteTypes, ClosedFields
<1>4. UnackedIsNotForgotten'
  BY <1>1, <1>2, <1>3 DEF NoteInv, UnackedIsNotForgotten
<1>5. listeners' # {} => swept'
  BY <1>1, <1>2 DEF NoteInv, ListenersHaveWarning
<1>. QED BY <1>1, <1>2, <1>4, <1>5, NoteTypes, NoteCloses

LEMMA WarningAnsweredInv ==
  ASSUME ServerInv, NoteInv, NEW disables \in BOOLEAN, WarningAnswered(disables)
  PROVE  ServerStep("error_note") /\ NoteInv'
<1>1. /\ note.dialog \in Side
      /\ settings' = [settings EXCEPT
           !.acked = @ \cup {note.dialog},
           !.enabled = IF disables THEN @ \ {note.dialog} ELSE @]
      /\ listeners' \in {Freed(ls) : ls \in Unlistened(listeners)}
      /\ note' = Closed(note)
      /\ served' = AfterDone(note.fn, note.id)
      /\ UNCHANGED <<taken, sent, dropped, swept, refused>>
  BY DEF WarningAnswered
<1>2. note.dialog # None
  BY <1>1, ErrorNoteAssumption DEF ErrorNoteAssumption, Side
<1>3. note'.pending = note.pending
  BY <1>1, NoteTypes, ClosedFields
<1>4. settings' \in Settings /\ settings'.acked = settings.acked \cup {note.dialog}
  BY <1>1, NoteTypes DEF Settings
<1>5. UnackedIsNotForgotten'
  BY <1>1, <1>3, <1>4 DEF NoteInv, UnackedIsNotForgotten
<1>6. listeners' = {} \/ (listeners' = {"freed"} /\ "freed" \in listeners)
  BY <1>1, NoteTypes DEF Freed, Unlistened
<1>7. listeners' # {} => swept'
  BY <1>1, <1>6 DEF NoteInv, NothingDangles
<1>. QED BY <1>1, <1>2, <1>4, <1>5, <1>6, <1>7, NoteTypes, NoteCloses

LEMMA DisconnectInv ==
  ASSUME ServerInv, NoteInv, Disconnect
  PROVE  ServerStep("error_note") /\ NoteInv'
<1>1. /\ note.dialog \in Side
      /\ settings' = [settings EXCEPT !.acked = @ \cup {note.dialog},
                                      !.auto = AutoAfterDisconnect(@)]
      /\ UNCHANGED <<server, noteVars>>
  BY DEF Disconnect
<1>2. settings \in Settings
  BY NoteTypes
<1>3. AutoAfterDisconnect(settings.auto) \in Seq({"GPRS", "*", "WLAN_INFRA", ""})
  <2>1. AutoAfterDisconnect(settings.auto) \in {settings.auto, <<"">>, <<"WLAN_INFRA">>}
    BY DEF AutoAfterDisconnect
  <2>2. /\ <<"">> \in Seq({"GPRS", "*", "WLAN_INFRA", ""})
        /\ <<"WLAN_INFRA">> \in Seq({"GPRS", "*", "WLAN_INFRA", ""})
    OBVIOUS
  <2>3. settings.auto \in Seq({"GPRS", "*", "WLAN_INFRA", ""})
    BY <1>2 DEF Settings
  <2>. QED BY <2>1, <2>2, <2>3
<1>4. settings' \in Settings /\ settings'.acked = settings.acked \cup {note.dialog}
  BY <1>1, <1>2, <1>3 DEF Settings
<1>5. UnackedIsNotForgotten'
  BY <1>1, <1>4 DEF NoteInv, UnackedIsNotForgotten, noteVars
<1>6. NoteTypeOK'
  BY <1>1, <1>4 DEF NoteInv, NoteTypeOK, noteVars
<1>. QED BY <1>1, <1>5, <1>6, NoteSame DEF noteVars

LEMMA NoteStep ==
  ASSUME ServerInv, NoteInv, NoteNext
  PROVE  ServerStep("error_note") /\ NoteInv'
BY ModemsToldInv, NetToldEarlyInv, NetToldInv, NoteGrantedInv, NoteRefusedInv,
   ShowWarningInv, SkipWarningInv, SkipAutoConnectInv, ShowTextInv, TextAnsweredInv,
   WarningAnsweredInv, DisconnectInv
   DEF NoteNext

-----------------------------------------------------------------------------
(* All together *)

LEMMA InitIInv == Init => IInv
<1> SUFFICES ASSUME Init PROVE IInv
  OBVIOUS
<1>1. ServerInv
  BY DialogServerAssumption DEF DialogServerAssumption, Init, ServerInit, ServerInv
<1>. QED BY <1>1, NoteInitInv, RoamInitInv, OmaInitInv DEF Init, IInv

LEMMA RestartIInv == IInv /\ Restart => IInv'
<1> SUFFICES ASSUME IInv, Restart PROVE IInv'
  OBVIOUS
<1>1. ServerInv'
  BY DEF IInv, Restart, ServerInv
<1>2. NoteInv' /\ RoamInv' /\ OmaInv'
  BY NoteRestartsInv, RoamRestartsInv, OmaRestartsInv DEF IInv, Restart
<1>. QED BY <1>1, <1>2 DEF IInv

LEMMA NextIInv == IInv /\ [Next]_vars => IInv'
<1> SUFFICES ASSUME IInv, [Next]_vars PROVE IInv'
  OBVIOUS
<1>1. CASE NoteNext /\ UNCHANGED <<roamVars, omaVars>>
  <2>1. ServerStep("error_note") /\ NoteInv'
    BY <1>1, NoteStep DEF IInv
  <2>2. ServerInv' /\ RoamInv' /\ OmaInv'
    BY <1>1, <2>1, ServerStepInv, RoamUntouched, OmaUntouched DEF IInv, Plugin
  <2>. QED BY <2>1, <2>2 DEF IInv
<1>2. CASE RoamNext /\ UNCHANGED <<settings, noteVars, omaVars>>
  <2>1. ServerStep("roaming") /\ RoamInv'
    BY <1>2, RoamStep DEF IInv
  <2>2. ServerInv' /\ NoteInv' /\ OmaInv'
    BY <1>2, <2>1, ServerStepInv, NoteUntouched, OmaUntouched DEF IInv, Plugin
  <2>. QED BY <2>1, <2>2 DEF IInv
<1>3. CASE OmaNext /\ UNCHANGED <<settings, noteVars, roamVars>>
  <2>1. ServerStep("oma_cp_ui") /\ OmaInv'
    BY <1>3, OmaStep DEF IInv
  <2>2. ServerInv' /\ NoteInv' /\ RoamInv'
    BY <1>3, <2>1, ServerStepInv, NoteUntouched, RoamUntouched DEF IInv, Plugin
  <2>. QED BY <2>1, <2>2 DEF IInv
<1>4. CASE Restart
  BY <1>4, RestartIInv
<1>5. CASE UNCHANGED vars
  <2>1. UNCHANGED server /\ ServerStep("error_note") /\ ServerStep("roaming")
    BY <1>5 DEF vars, ServerStep
  <2>. QED BY <1>5, <2>1, ServerStepInv, NoteUntouched, RoamUntouched, OmaUntouched
           DEF IInv, Plugin, vars
<1>. QED BY <1>1, <1>2, <1>3, <1>4, <1>5 DEF Next

(* The process connui-conndlgs keeps the inductive invariant, for any      *)
(* number of requests and any modems and cards.                            *)
THEOREM Invariance == Spec => []IInv
<1>. QED BY InitIInv, NextIInv, PTL DEF Spec

(* The static variables of the plugins and what they keep in GConf have    *)
(* their types.                                                            *)
THEOREM TypeCorrect == Spec => []IapTypeOK
<1>1. IInv => IapTypeOK
  BY DEF IInv, IapTypeOK, ServerInv, NoteInv, RoamInv, OmaInv
<1>. QED BY <1>1, Invariance, PTL

(* The server waits for a dialog that is there, and will be told that it   *)
(* is done, unless a note was refused while another was shown.             *)
THEOREM TurnsAreGivenBack == Spec => []ServedIsShown
<1>1. IInv => ServedIsShown
  BY DEF IInv, ServedIsShown, NoteInv, RoamInv, OmaInv
<1>. QED BY <1>1, Invariance, PTL

(* A warning that was not acknowledged is shown again, also when the       *)
(* process ends and is started again at any moment.                        *)
THEOREM WarningsComeBack == Spec => []UnackedIsNotForgotten
<1>1. IInv => UnackedIsNotForgotten
  BY DEF IInv, NoteInv
<1>. QED BY <1>1, Invariance, PTL

(* What is called back of a warning is there, with the two exceptions that *)
(* the property names.                                                     *)
THEOREM CallbacksFindTheirWidgets == Spec => []NothingDangles
<1>1. IInv => NothingDangles
  BY DEF IInv, NoteInv
<1>. QED BY <1>1, Invariance, PTL

(* A card that was said no to is not allowed without another dialog.       *)
THEOREM RoamingNoIsKept == Spec => []NoIsKept
<1>1. IInv => NoIsKept
  BY DEF IInv, RoamInv
<1>. QED BY <1>1, Invariance, PTL

(* The sender of a question gets an answer before its request is over.     *)
THEOREM OmaSenderIsAnswered == Spec => []OmaAskerIsTold
<1>1. IInv => OmaAskerIsTold
  BY DEF IInv, OmaInv
<1>. QED BY <1>1, Invariance, PTL
=============================================================================
