---------------------------- MODULE CellSettings ----------------------------
(***************************************************************************)
(* The control panel applet (cpa/cellular-settings*.c) on top of the       *)
(* service calls of the library (module ServiceCalls, here Lib).           *)
(*                                                                         *)
(* The applet counts its unanswered requests in cs->pending, keeps the id  *)
(* of the one that it can cancel, and waits for the count to reach zero in *)
(* nested main loops: before it shows another modem, before it applies,    *)
(* when the modem shown is removed, and before it frees itself.  While it  *)
(* waits everything else may happen, and may start another such loop.      *)
(*                                                                         *)
(* frames is the stack of the handlers that are running, the innermost     *)
(* first.  A handler is a few steps; nothing else happens while its next   *)
(* step is not one of Loops, where it runs the main loop.                  *)
(***************************************************************************)
EXTENDS Integers, Sequences, FiniteSets

CONSTANTS Modem, Call, NoCall, NoModem, MaxId, \* as in ServiceCalls
          MaxDepth,  \* bound on the handlers nested in each other
          MaxClir    \* bound on the caller id changes under way

ASSUME AppletAssumption ==
  /\ NoCall \notin Call
  /\ NoModem \notin Modem
  /\ MaxId \in Nat \ {0}
  /\ IsFiniteSet(Call)
  /\ MaxDepth \in Nat \ {0}
  /\ MaxClir \in Nat

VARIABLES
  initialized, clients, service_call_id, service_calls, sups, pending, leaving,
  scd, held, \* as in ServiceCalls
  open,      \* _cellular_settings is allocated
  listed,    \* the modems in the list of the picker
  active,    \* the modem of the selected row
  modem_id,  \* the modem shown: the data "modem_id" of the selector
  counter,   \* cs->pending
  svc,       \* cs->call.svc_call_id
  role,      \* [Call -> Role], which request of the applet a call is
  clir,      \* caller id changes that will call back
  lost,      \* ... and those that will not
  frames     \* the running handlers

lib == <<initialized, clients, service_call_id, service_calls, sups, pending,
         leaving, scd, held>>
dialog == <<open, listed, active, modem_id>>
requests == <<counter, svc, role, clir, lost>>
vars == <<lib, dialog, requests, frames>>

Lib == INSTANCE ServiceCalls

Role == {"none", "waiting", "forward", "cid", "set"}

(* Handler: "choice" and "change" are _modem_selection_changed_cb without  *)
(* and with a modem shown before, "removal" is _modem_state_cb, "save" and *)
(* "close" are the responses of the dialog.                                *)
Handler == {"choice", "change", "removal", "save", "close"}
Loops == {"drain", "clir", "settle", "codeui"}
Steps == {"cancel", "apply", "set", "show", "cid", "query", "freed"}

Frame == [of: Handler, at: Loops \cup Steps, modem: Modem \cup {NoModem},
          target: Modem \cup {NoModem}]

InMainLoop == frames # << >> => Head(frames).at \in Loops

At(step) == frames # << >> /\ Head(frames).at = step

Top == Head(frames)

Goto(step) == [frames EXCEPT ![1].at = step]

Entered(of, at, m) ==
  <<[of |-> of, at |-> at, modem |-> m, target |-> modem_id]>> \o frames

(* cellular_settings_destroy and connui_cell_code_ui_destroy free what the *)
(* handlers below still use.                                               *)
AllFreed(stack) == [i \in 1..Len(stack) |-> [stack[i] EXCEPT !.at = "freed"]]

CodeUiFreed(stack) ==
  [i \in 1..Len(stack) |-> IF stack[i].at = "codeui" THEN [stack[i] EXCEPT !.at = "freed"]
                           ELSE stack[i]]

Init ==
  /\ Lib!Init
  /\ open = FALSE
  /\ listed = {}
  /\ active = NoModem
  /\ modem_id = NoModem
  /\ counter = 0
  /\ svc = 0
  /\ role = [c \in Call |-> "none"]
  /\ clir = 0
  /\ lost = 0
  /\ frames = << >>

(* A handler goes on with freed memory. *)
ProcessDies ==
  /\ Lib!ProcessDies
  /\ open' = FALSE
  /\ listed' = {}
  /\ active' = NoModem
  /\ modem_id' = NoModem
  /\ counter' = 0
  /\ svc' = 0
  /\ role' = [c \in Call |-> "none"]
  /\ clir' = 0
  /\ lost' = 0
  /\ frames' = << >>
-----------------------------------------------------------------------------
(* What the user does *)

(* execute: the dialog is built from the modems that have a model and a    *)
(* serial number; without any it is not shown.                             *)
Launch ==
  /\ ~open
  /\ frames = << >>
  /\ Lib!Register
  /\ \E named \in SUBSET {m \in Modem : sups'[m] # "absent" /\ m \notin leaving} :
       /\ named # {}
       /\ listed' = named
  /\ open' = TRUE
  /\ UNCHANGED <<active, modem_id, requests, frames>>

(* The page is insensitive while settings are applied, until they are      *)
(* being settled before another modem is shown.                            *)
Sensitive ==
  \A i \in 1..Len(frames) :
    /\ frames[i].at # "clir"
    /\ frames[i].of = "save" => frames[i].at # "settle"

Select(m) ==
  /\ open
  /\ InMainLoop
  /\ Sensitive
  /\ Len(frames) < MaxDepth
  /\ m \in listed
  /\ m # active
  /\ active' = m
  /\ frames' = IF modem_id = m THEN frames
               ELSE Entered(IF modem_id = NoModem THEN "choice" ELSE "change", "cancel", m)
  /\ UNCHANGED <<lib, open, listed, modem_id, requests>>

(* The OK button is sensitive when no request is left unanswered. *)
Save ==
  /\ open
  /\ frames = << >>
  /\ counter = 0
  /\ frames' = Entered("save", "apply", NoModem)
  /\ UNCHANGED <<lib, dialog, requests>>

CloseDialog ==
  /\ open
  /\ InMainLoop
  /\ Len(frames) < MaxDepth
  /\ frames' = Entered("close", "cancel", NoModem)
  /\ UNCHANGED <<lib, dialog, requests>>
-----------------------------------------------------------------------------
(* The steps of the handlers *)

(* The callback of a request. *)
Done(c) == role' = [role EXCEPT ![c] = "none"]

(* The process did not die in a call of the library. *)
GoesOn == clients'

(* cellular_settings_stop_progress_indicator *)
Stopped == IF counter = 0 THEN 0 ELSE counter - 1

(* _call_cancel.  A queued call calls back at once: pending-- and no id.   *)
CancelCalls ==
  /\ At("cancel")
  /\ \/ /\ svc = 0
        /\ UNCHANGED <<lib, requests>>
     \/ /\ svc # 0
        /\ Lib!CancelId(svc)
        /\ GoesOn
        /\ LET c == service_calls[svc] IN
           IF scd'[c].stage # "free" THEN UNCHANGED requests
           ELSE /\ counter' = counter - 1
                /\ svc' = 0
                /\ Done(c)
                /\ UNCHANGED <<clir, lost>>
  /\ frames' = Goto("drain")
  /\ UNCHANGED dialog

(* ... but the queue it is taken from was freed.                           *)
CancelStranded ==
  /\ At("cancel")
  /\ svc # 0
  /\ Lib!CancelId(svc)
  /\ ProcessDies

(* Mutant: cancelling does not wait for the callbacks. *)
Drained_NoWait(handler) ==
  /\ At("drain")
  /\ Top.of = handler

(* The loop of cellular_settings_cancel_service_calls ends. *)
Drained(handler) ==
  /\ At("drain")
  /\ Top.of = handler
  /\ counter = 0

ChoiceDrained ==
  /\ Drained("choice")
  /\ modem_id' = Top.modem
  /\ frames' = Goto("show")
  /\ UNCHANGED <<lib, open, listed, active, requests>>

ChangeDrained ==
  /\ Drained("change")
  /\ frames' = Goto("apply")
  /\ UNCHANGED <<lib, dialog, requests>>

(* Mutant: the applet stays without a modem. *)
RemovalDrained_Stays ==
  /\ Drained("removal")
  /\ listed' = listed \ {Top.modem}
  /\ active' = NoModem
  /\ modem_id' = NoModem
  /\ frames' = Tail(frames)
  /\ UNCHANGED <<lib, open, requests>>

(* The modem shown is taken out of the list; with the last one the applet  *)
(* goes too.                                                               *)
RemovalDrained ==
  /\ Drained("removal")
  /\ listed' = listed \ {Top.modem}
  /\ active' = NoModem
  /\ modem_id' = NoModem
  /\ frames' = IF listed' # {} THEN Tail(frames)
               ELSE [frames EXCEPT ![1].of = "close", ![1].at = "cancel"]
  /\ UNCHANGED <<lib, open, requests>>

(* cellular_settings_destroy after its loop *)
CloseDrained ==
  /\ Drained("close")
  /\ Lib!Close
  /\ open' = FALSE
  /\ listed' = {}
  /\ active' = NoModem
  /\ modem_id' = NoModem
  /\ svc' = 0
  /\ frames' = AllFreed(Tail(frames))
  /\ UNCHANGED <<counter, role, clir, lost>>

(* cellular_settings_apply refuses a diversion without a number: the old   *)
(* modem stays selected.                                                   *)
ApplyRefused ==
  /\ At("apply")
  /\ active' = IF Top.of = "change" /\ modem_id \in listed THEN modem_id ELSE active
  /\ frames' = Tail(frames)
  /\ UNCHANGED <<lib, open, listed, modem_id, requests>>

(* _call_apply_anonymity: nothing changed; or the change is asked for; or  *)
(* asking fails, and the loop is entered all the same.                     *)
ApplyClir ==
  /\ At("apply")
  /\ \/ /\ frames' = [frames EXCEPT ![1].target = modem_id, ![1].at = "set"]
        /\ UNCHANGED requests
     \/ /\ frames' = [frames EXCEPT ![1].target = modem_id, ![1].at = "clir"]
        /\ clir < MaxClir
        /\ clir' = clir + 1
        /\ counter' = counter + 1
        /\ UNCHANGED <<svc, role, lost>>
     \/ /\ frames' = [frames EXCEPT ![1].target = modem_id, ![1].at = "clir"]
        /\ UNCHANGED requests
  /\ UNCHANGED <<lib, dialog>>

ClirApplied ==
  /\ At("clir")
  /\ counter = 0
  /\ frames' = Goto("set")
  /\ UNCHANGED <<lib, dialog, requests>>

(* _call_apply_waiting, with the id of the modem that was shown when the   *)
(* handler began to apply: nothing changed, or the modem is gone; or the   *)
(* change is asked for with a call whose id is not kept.                   *)
ApplyWaiting ==
  /\ At("set")
  /\ \/ UNCHANGED <<lib, requests>>
     \/ /\ Top.target = modem_id
        /\ Top.target # NoModem
        /\ Lib!InTable(Top.target)
        /\ \E c \in Call :
             /\ Lib!Start(c, Top.target, FALSE)
             /\ role' = [role EXCEPT ![c] = "set"]
        /\ counter' = counter + 1
        /\ UNCHANGED <<svc, clir, lost>>
  /\ frames' = Goto("settle")
  /\ UNCHANGED dialog

(* The id was freed with the row of the modem that was shown, or there was *)
(* none to begin with.                                                     *)
ApplyWaitingFreed ==
  /\ At("set")
  /\ Top.target # modem_id \/ (Top.of = "change" /\ modem_id = NoModem)
  /\ ProcessDies

Settled ==
  /\ At("settle")
  /\ counter = 0
  /\ IF Top.of = "change"
     THEN /\ modem_id' = Top.modem
          /\ frames' = Goto("show")
     ELSE /\ modem_id' = modem_id
          /\ frames' = [frames EXCEPT ![1].of = "close", ![1].at = "cancel"]
  /\ UNCHANGED <<lib, open, listed, active, requests>>

(* _modem_show up to connui_cell_code_ui_init.  The code UI of a handler   *)
(* below is destroyed; as that handler still holds the lock file, no other *)
(* one is begun, and the error is shown.                                   *)
Show ==
  /\ At("show")
  /\ frames' = IF \E i \in 2..Len(frames) : frames[i].at \in {"codeui", "freed"}
               THEN CodeUiFreed(Tail(frames))
               ELSE Goto("codeui")
  /\ UNCHANGED <<lib, dialog, requests>>

CodeUiReturns ==
  /\ At("codeui")
  /\ frames' \in {Goto("cid"), Tail(frames)}
  /\ UNCHANGED <<lib, dialog, requests>>

(* _call_show: the caller id is asked for if telepathy is there ...        *)
ShowCallerId ==
  /\ At("cid")
  /\ \/ UNCHANGED <<lib, requests>>
     \/ /\ \E c \in Call :
             /\ Lib!StartCallerId(c)
             /\ role' = [role EXCEPT ![c] = "cid"]
        /\ counter' = counter + 1
        /\ UNCHANGED <<svc, clir, lost>>
  /\ frames' = Goto("query")
  /\ UNCHANGED dialog

(* ... and call waiting if the modem is.                                   *)
ShowWaiting ==
  LET m == Top.modem IN
  /\ At("query")
  /\ IF modem_id = m /\ Lib!InTable(m)
     THEN /\ \E c \in Call :
               /\ Lib!Start(c, m, TRUE)
               /\ role' = [role EXCEPT ![c] = "waiting"]
          /\ svc' = Lib!NextId
          /\ counter' = counter + 1
          /\ UNCHANGED <<clir, lost>>
     ELSE /\ svc' = 0
          /\ UNCHANGED <<lib, counter, role, clir, lost>>
  /\ frames' = Tail(frames)
  /\ UNCHANGED dialog

(* The id given to _modem_show was freed while the code UI ran.            *)
ShowFreed ==
  /\ At("query")
  /\ modem_id # Top.modem
  /\ ProcessDies

Freed ==
  /\ At("freed")
  /\ ProcessDies
-----------------------------------------------------------------------------
(* What the main loop dispatches *)

(* _get_call_waiting_cb goes on to ask for call forwarding. *)
Chains(c) ==
  /\ role[c] = "waiting"
  /\ ~scd[c].cancelled
  /\ scd[c].home
  /\ Lib!InTable(scd[c].modem)

AnswerAndChain(c) ==
  /\ InMainLoop
  /\ Chains(c)
  /\ \E d \in Call :
       /\ Lib!ReplyAndChain(c, d)
       /\ role' = [role EXCEPT ![c] = "none", ![d] = "forward"]
  /\ svc' = Lib!NextId
  /\ UNCHANGED <<dialog, counter, clir, lost, frames>>

(* Mutant: a cancelled request is not counted off. *)
CounterAfter_CancelledKept(c) == IF scd[c].cancelled THEN counter ELSE Stopped

(* A cancelled request and a change that was made are counted off without  *)
(* regard to the progress indicator.                                       *)
CounterAfter(c) ==
  IF scd[c].cancelled \/ role[c] = "set" THEN counter - 1 ELSE Stopped

(* Mutant: the id of a request that was answered is kept. *)
IdAfter_Kept(c) == svc

IdAfter(c) == IF role[c] \in {"waiting", "forward"} THEN 0 ELSE svc

(* Any other callback of the applet. *)
Answer(c) ==
  /\ InMainLoop
  /\ ~Chains(c)
  /\ Lib!Reply(c)
  /\ GoesOn
  /\ svc' = IdAfter(c)
  /\ counter' = CounterAfter(c)
  /\ Done(c)
  /\ UNCHANGED <<dialog, clir, lost, frames>>

(* The sups_data of the call are gone: the handler reads freed memory.     *)
AnswerStranded(c) ==
  /\ InMainLoop
  /\ scd[c].stage = "flight"
  /\ ~scd[c].home
  /\ ProcessDies

(* _set_clir_cb *)
ClirAnswered ==
  /\ InMainLoop
  /\ clir > 0
  /\ clir' = clir - 1
  /\ counter' = counter - 1
  /\ UNCHANGED <<lib, dialog, svc, role, lost, frames>>

(* _cid_set_cb finds no account of the connection manager "ring": it       *)
(* neither calls back nor frees the request.                               *)
ClirLost ==
  /\ InMainLoop
  /\ clir > 0
  /\ clir' = clir - 1
  /\ lost' = lost + 1
  /\ lost < MaxClir
  /\ UNCHANGED <<lib, dialog, counter, svc, role, frames>>

(* _modem_state_cb for a modem that is not in the list yet.  With an empty *)
(* list, left by the handler that removed the last modem and has not       *)
(* returned, the applet is destroyed instead.                              *)
ModemTold(m) ==
  /\ InMainLoop
  /\ open
  /\ Lib!InTable(m)
  /\ m \notin listed
  /\ IF listed # {}
     THEN /\ listed' = listed \cup {m}
          /\ frames' = frames
     ELSE /\ Len(frames) < MaxDepth
          /\ frames' = Entered("close", "cancel", NoModem)
          /\ listed' = listed
  /\ UNCHANGED <<lib, open, active, modem_id, requests>>

(* _modem_removed_cb calls _modem_state_cb with REMOVED.                   *)
ModemRemoved(m) ==
  /\ InMainLoop
  /\ Len(frames) < MaxDepth
  /\ Lib!ModemRemoved(m)
  /\ IF m = active
     THEN /\ frames' = Entered("removal", "cancel", m)
          /\ listed' = listed
     ELSE /\ listed' = listed \ {m}
          /\ frames' = IF open /\ listed' = {} THEN Entered("close", "cancel", m) ELSE frames
  /\ UNCHANGED <<open, active, modem_id, requests>>

(* The modem is finalised when the callbacks of its removal have returned. *)
ModemFinalized(m) ==
  /\ InMainLoop
  /\ \A i \in 1..Len(frames) : frames[i].of \in {"removal", "close"} => frames[i].modem # m
  /\ Lib!ModemFinalized(m)
  /\ UNCHANGED <<dialog, requests, frames>>

ModemAdded(m) ==
  /\ InMainLoop
  /\ sups[m] = "absent"
  /\ Lib!ModemAdded(m)
  /\ UNCHANGED <<dialog, requests, frames>>

InterfaceAdded(m) ==
  /\ InMainLoop
  /\ Lib!InterfaceAdded(m)
  /\ UNCHANGED <<dialog, requests, frames>>

InterfaceRemoved(m) ==
  /\ InMainLoop
  /\ Lib!InterfaceRemoved(m)
  /\ UNCHANGED <<dialog, requests, frames>>

StepOfHandler ==
  \/ CancelCalls
  \/ CancelStranded
  \/ ChoiceDrained
  \/ ChangeDrained
  \/ RemovalDrained
  \/ CloseDrained
  \/ ApplyRefused
  \/ ApplyClir
  \/ ClirApplied
  \/ ApplyWaiting
  \/ ApplyWaitingFreed
  \/ Settled
  \/ Show
  \/ CodeUiReturns
  \/ ShowCallerId
  \/ ShowWaiting
  \/ ShowFreed
  \/ Freed

Next ==
  \/ Launch
  \/ \E m \in Modem : Select(m)
  \/ Save
  \/ CloseDialog
  \/ StepOfHandler
  \/ \E c \in Call : AnswerAndChain(c)
  \/ \E c \in Call : Answer(c)
  \/ \E c \in Call : AnswerStranded(c)
  \/ ClirAnswered
  \/ ClirLost
  \/ \E m \in Modem : ModemTold(m)
  \/ \E m \in Modem : ModemRemoved(m)
  \/ \E m \in Modem : ModemFinalized(m)
  \/ \E m \in Modem : ModemAdded(m)
  \/ \E m \in Modem : InterfaceAdded(m)
  \/ \E m \in Modem : InterfaceRemoved(m)

Spec == Init /\ [][Next]_vars

(* Every request that was sent is answered, and the user finishes with the *)
(* code dialog.  A loop looks at the counter after each iteration, and an  *)
(* iteration dispatches a source once: the innermost handler goes on       *)
(* although others come and go in its loop, hence strong fairness at every *)
(* depth of nesting.                                                       *)
FairSpec ==
  /\ Spec
  /\ \A d \in 1..MaxDepth : SF_vars(Len(frames) = d /\ StepOfHandler)
  /\ \A c \in Call : WF_vars(AnswerAndChain(c) \/ Answer(c))
  /\ WF_vars(ClirAnswered \/ ClirLost)
-----------------------------------------------------------------------------
(* Types.  The applet is without a modem only while it destroys itself.    *)
TypeOK ==
  /\ open \in BOOLEAN
  /\ listed \subseteq Modem
  /\ {active, modem_id} \subseteq Modem \cup {NoModem}
  /\ counter \in Int
  /\ svc \in 0..MaxId
  /\ role \in [Call -> Role]
  /\ clir \in 0..MaxClir
  /\ lost \in 0..MaxClir
  /\ Len(frames) <= MaxDepth
  /\ \A i \in 1..Len(frames) : frames[i] \in Frame
  /\ open /\ listed = {} => \E i \in 1..Len(frames) : frames[i].of = "close"

(* pending is the number of requests that will still call back, plus those *)
(* that never do: no callback is counted twice, or not at all, whether it  *)
(* is answered, chained to the next one, or cancelled.                     *)
PendingCountsRequests ==
  open => counter = Cardinality({c \in Call : role[c] # "none"}) + clir + lost

(* The id kept for cancelling is that of the applet's own unanswered       *)
(* request; without an id there is none that could be cancelled.           *)
KeptIdIsOwnRequest ==
  open => IF svc # 0 THEN /\ service_calls[svc] # NoCall
                          /\ role[service_calls[svc]] \in {"waiting", "forward"}
          ELSE \A c \in Call : role[c] \notin {"waiting", "forward"}

(* Nobody calls back into the applet after it was freed.                   *)
NoRequestOutlivesApplet ==
  ~open => clir = 0 /\ \A c \in Call : role[c] = "none"

(* What keeps a handler waiting for ever, once the user leaves the applet  *)
(* alone, is a request that waits for the supplementary services of its    *)
(* modem, or a caller id change that was lost; without those every handler *)
(* returns, nested or not.  A user who goes on selecting modems inside the *)
(* loop of another handler can keep the counter from reaching zero.        *)
Stuck == lost > 0 \/ \E c \in Call : role[c] # "none" /\ scd[c].stage = "queued"

UserActs == Launch \/ Save \/ CloseDialog \/ \E m \in Modem : Select(m)

OnlyStuckRequestsHang ==
  <>[](frames # << >>) /\ <>[][~UserActs]_vars => <>[]Stuck
=============================================================================
