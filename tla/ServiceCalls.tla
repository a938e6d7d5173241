---------------------------- MODULE ServiceCalls ----------------------------
(***************************************************************************)
(* The service calls of the cellular library: lib/service-call.c (the id   *)
(* counter and the table of outstanding calls of the context), lib/sups.c  *)
(* (supplementary services: calls queued until the modem has the           *)
(* SupplementaryServices interface, then sent to oFono) and the caller id  *)
(* query of lib/net.c.  The life of the context (lib/context.c) is         *)
(* modelled as far as calls decide it: it lives while a client has a       *)
(* callback registered or a call is outstanding.                           *)
(*                                                                         *)
(* Everything runs on one GLib main loop.  One action is one handler run   *)
(* by that loop, or one public function called by a client.  The removal   *)
(* of a modem is two actions, because between them the clients are told    *)
(* and some of them run a nested main loop (cellular-settings.c).          *)
(***************************************************************************)
EXTENDS Naturals

CONSTANTS Modem,   \* the object paths of the modems
          Call,    \* the service_call_data records that can be allocated
          NoCall,  \* the NULL service_call_data
          NoModem, \* the modem of a call that addresses none
          MaxId    \* bound on service_call_id (the code has a 32-bit guint)

ASSUME ConstantsAssumption ==
  /\ NoCall \notin Call
  /\ NoModem \notin Modem
  /\ MaxId \in Nat \ {0}

VARIABLES
  initialized,     \* connui_cell_context.initialized
  clients,         \* some callback list of the context is not empty
  service_call_id, \* connui_cell_context.service_call_id
  service_calls,   \* connui_cell_context.service_calls; NULL when no id is used
  sups,            \* [Modem -> SupsState], the modem and its sups_data
  pending,         \* [Modem -> SUBSET Call], sups_data.pending
  leaving,         \* modems taken out of the table and not yet finalised
  scd,             \* [Call -> Scd], the service_call_data records
  held             \* [Call -> 0..MaxId], the id the caller keeps, 0 for none

vars == <<initialized, clients, service_call_id, service_calls, sups, pending,
          leaving, scd, held>>

Id == 1..MaxId

(* "absent": no such modem object; "none": modem without sups_data; the    *)
(* others have sups_data: "queue" without proxy, waiting for the interface;*)
(* "failed" without proxy although the interface is there (the proxy could *)
(* not be created); "proxy" with a proxy.                                  *)
SupsState == {"absent", "none", "queue", "failed", "proxy"}

(* stage: "free" record not allocated, "queued" waiting for a proxy,       *)
(* "flight" sent; home: async_data points to sups_data that still exist.   *)
Scd == [stage: {"free", "queued", "flight"}, id: 0..MaxId,
        modem: Modem \cup {NoModem}, home: BOOLEAN, cancelled: BOOLEAN]

FreeCall == [stage |-> "free", id |-> 0, modem |-> NoModem, home |-> TRUE,
             cancelled |-> FALSE]

NewCall(stage, i, m) == [stage |-> stage, id |-> i, modem |-> m,
                         home |-> TRUE, cancelled |-> FALSE]

NoCalls == [i \in Id |-> NoCall]
Outstanding(c) == scd[c].stage # "free"
InTable(m) == sups[m] # "absent" /\ m \notin leaving
-----------------------------------------------------------------------------
(* service_call_next_id, service_call_add, service_call_take *)

NextId == service_call_id + 1

Added(table, i, c) == [table EXCEPT ![i] = c]

Taken(table, i) == [table EXCEPT ![i] = NoCall]

(* Mutant: numbering starts again with every call that leaves. *)
IdAfterTake_Always(table, last) == 0

(* Mutant: a call that leaves gives its number back. *)
IdAfterTake_GivenBack(table, last) == last - 1

(* The table is dropped, and numbering starts again, with its last call. *)
IdAfterTake(table, last) == IF table = NoCalls THEN 0 ELSE last

-----------------------------------------------------------------------------
(* connui_cell_context_get, create_proxies, connui_cell_context_destroy *)

(* What a modem can look like when it is added: its interfaces include     *)
(* SupplementaryServices or not, and the proxy is created or not.          *)
Arrival == {"none", "proxy", "failed"}

(* The modem table after context_get: untouched when initialized, else the *)
(* answer of GetModems.                                                    *)
ModemsAfterGet ==
  IF initialized
  THEN {sups}
  ELSE {[m \in Modem |-> IF m \in leaving THEN sups[m] ELSE found[m]] :
          found \in [Modem -> Arrival \cup {"absent"}]}

(* Mutant: context_destroy does not look at the service calls. *)
ContextNeeded_ClientsOnly(cl, table) == cl

ContextNeeded(cl, table) == cl \/ table # NoCalls

(* connui_cell_context_destroy, given the clients, the calls and the       *)
(* modems the handler leaves behind.                                       *)
ContextDestroy(cl, table, s, p) ==
  /\ initialized' = ContextNeeded(cl, table)
  /\ sups' = IF ContextNeeded(cl, table) THEN s
             ELSE [m \in Modem |-> IF m \in leaving THEN s[m] ELSE "absent"]
  /\ pending' = IF ContextNeeded(cl, table) THEN p
                ELSE [m \in Modem |-> IF m \in leaving THEN p[m] ELSE {}]

Init ==
  /\ initialized = FALSE
  /\ clients = FALSE
  /\ service_call_id = 0
  /\ service_calls = NoCalls
  /\ sups = [m \in Modem |-> "absent"]
  /\ pending = [m \in Modem |-> {}]
  /\ leaving = {}
  /\ scd = [c \in Call |-> FreeCall]
  /\ held = [c \in Call |-> 0]

(* The process dies of a use after free and is started again. *)
ProcessDies ==
  /\ initialized' = FALSE
  /\ clients' = FALSE
  /\ service_call_id' = 0
  /\ service_calls' = NoCalls
  /\ sups' = [m \in Modem |-> "absent"]
  /\ pending' = [m \in Modem |-> {}]
  /\ leaving' = {}
  /\ scd' = [c \in Call |-> FreeCall]
  /\ held' = [c \in Call |-> 0]

(* A client registers its first callback, or closes its last one. *)
Register ==
  /\ ~clients
  /\ clients' = TRUE
  /\ initialized' = TRUE
  /\ sups' \in ModemsAfterGet
  /\ UNCHANGED <<service_call_id, service_calls, pending, leaving, scd, held>>

Close ==
  /\ clients
  /\ clients' = FALSE
  /\ ContextDestroy(FALSE, service_calls, sups, pending)
  /\ UNCHANGED <<service_call_id, service_calls, leaving, scd, held>>
-----------------------------------------------------------------------------
(* _sups_service_call and _do_call *)

(* _sups_data_get allocates the sups_data of a modem that has none. *)
SupsGot(s, m) == IF s[m] = "none" THEN [s EXCEPT ![m] = "queue"] ELSE s

(* A client asks modem m for call waiting or call forwarding and keeps the *)
(* returned id or not (set_call_waiting's callers do not).  A modem that   *)
(* is not in the table gives the id 0 and no call: no change of state.     *)
Start(c, m, keep) ==
  /\ ~Outstanding(c)
  /\ NextId \in Id
  /\ m \notin leaving
  /\ \E got \in ModemsAfterGet :
       /\ got[m] # "absent"
       /\ sups' = SupsGot(got, m)
       /\ IF got[m] = "proxy"
          THEN /\ scd' = [scd EXCEPT ![c] = NewCall("flight", NextId, m)]
               /\ pending' = pending
          ELSE /\ scd' = [scd EXCEPT ![c] = NewCall("queued", NextId, m)]
               /\ pending' = [pending EXCEPT ![m] = @ \cup {c}]
  /\ initialized' = TRUE
  /\ service_call_id' = NextId
  /\ service_calls' = Added(service_calls, NextId, c)
  /\ held' = [held EXCEPT ![c] = IF keep THEN NextId ELSE 0]
  /\ UNCHANGED <<clients, leaving>>

(* connui_cell_net_get_caller_id_anonymity: in the table like the others,  *)
(* but with no modem, no way to cancel it and no id for the caller.        *)
StartCallerId(c) ==
  /\ ~Outstanding(c)
  /\ NextId \in Id
  /\ sups' \in ModemsAfterGet
  /\ initialized' = TRUE
  /\ service_call_id' = NextId
  /\ service_calls' = Added(service_calls, NextId, c)
  /\ scd' = [scd EXCEPT ![c] = NewCall("flight", NextId, NoModem)]
  /\ UNCHANGED <<clients, pending, leaving, held>>

(* Mutant: the client keeps the id of a call that was answered. *)
Completed_IdKept(c, p) ==
  LET table == Taken(service_calls, scd[c].id) IN
  /\ service_calls' = table
  /\ service_call_id' = IdAfterTake(table, service_call_id)
  /\ scd' = [scd EXCEPT ![c] = FreeCall]
  /\ ContextDestroy(clients, table, sups, p)
  /\ UNCHANGED <<clients, leaving, held>>

(* The client's callback has run: service_call_remove and context_destroy  *)
(* by _remove_call.                                                        *)
Completed(c, p) ==
  LET table == Taken(service_calls, scd[c].id) IN
  /\ service_calls' = table
  /\ service_call_id' = IdAfterTake(table, service_call_id)
  /\ scd' = [scd EXCEPT ![c] = FreeCall]
  /\ held' = [held EXCEPT ![c] = 0]
  /\ ContextDestroy(clients, table, sups, p)
  /\ UNCHANGED <<clients, leaving>>

(* Mutant: the handler of a cancelled call returns without calling back. *)
Reply_CancelledDropped(c) ==
  /\ scd[c].stage = "flight"
  /\ ~scd[c].cancelled
  /\ Completed(c, pending)

(* The answer of oFono (or of telepathy) to call c is dispatched.  Without *)
(* its sups_data the handler reads freed memory (sd->path).                *)
Reply(c) ==
  /\ scd[c].stage = "flight"
  /\ \/ Completed(c, pending)
     \/ ~scd[c].home /\ ProcessDies

(* As Reply, and the callback asks the same modem for call d before the    *)
(* answered call leaves the table (_get_call_waiting_cb does).             *)
ReplyAndChain(c, d) ==
  LET m == scd[c].modem
      table == Taken(Added(service_calls, NextId, d), scd[c].id)
      stage == IF sups[m] = "proxy" THEN "flight" ELSE "queued"
  IN
  /\ scd[c].stage = "flight"
  /\ scd[c].home
  /\ ~scd[c].cancelled
  /\ ~Outstanding(d)
  /\ m # NoModem
  /\ InTable(m)
  /\ NextId \in Id
  /\ sups' = SupsGot(sups, m)
  /\ pending' = IF stage = "queued" THEN [pending EXCEPT ![m] = @ \cup {d}]
                ELSE pending
  /\ service_calls' = table
  /\ service_call_id' = IdAfterTake(table, NextId)
  /\ scd' = [scd EXCEPT ![c] = FreeCall, ![d] = NewCall(stage, NextId, m)]
  /\ held' = [held EXCEPT ![c] = 0, ![d] = NextId]
  /\ UNCHANGED <<initialized, clients, leaving>>
-----------------------------------------------------------------------------
(* connui_cell_cancel_service_call *)

(* Mutant: the cancelled call stays in the queue. *)
Unqueued_Kept(c) == pending

(* _sups_check_cancelled takes the call out of the queue of its sups_data. *)
Unqueued(c) ==
  IF scd[c].home THEN [pending EXCEPT ![scd[c].modem] = @ \ {c}] ELSE pending

(* What id i finds is cancelled.  A call in flight is answered later, with *)
(* the error CANCELLED; a queued call calls back at once.                  *)
CancelId(i) ==
  LET d == service_calls[i] IN
  /\ d # NoCall
  /\ \/ /\ scd[d].stage = "flight"
        /\ scd' = [scd EXCEPT ![d].cancelled = TRUE]
        /\ UNCHANGED <<initialized, clients, service_call_id, service_calls,
                       sups, pending, leaving, held>>
     \/ /\ scd[d].stage = "queued"
        /\ Completed(d, Unqueued(d))
     \/ /\ scd[d].stage = "queued"
        /\ ~scd[d].home
        /\ ProcessDies

(* The client cancels with the id it holds for call c. *)
Cancel(c) ==
  /\ held[c] # 0
  /\ CancelId(held[c])
-----------------------------------------------------------------------------
(* The signals of oFono *)

(* _sups_data_destroy frees the sups_data of m and tells no call of it. *)
Orphaned(m) ==
  [c \in Call |-> IF Outstanding(c) /\ scd[c].modem = m
                  THEN [scd[c] EXCEPT !.home = FALSE] ELSE scd[c]]

(* connui_cell_modem_add_supplementary_services: the proxy is created and  *)
(* the queue is sent, or the creation fails and the queue is kept.         *)
InterfaceAdded(m) ==
  /\ InTable(m)
  /\ sups[m] \in {"none", "queue"}
  /\ \/ /\ sups' = [sups EXCEPT ![m] = "proxy"]
        /\ scd' = [c \in Call |-> IF c \in pending[m]
                                  THEN [scd[c] EXCEPT !.stage = "flight"]
                                  ELSE scd[c]]
        /\ pending' = [pending EXCEPT ![m] = {}]
     \/ /\ sups' = [sups EXCEPT ![m] = "failed"]
        /\ UNCHANGED <<scd, pending>>
  /\ UNCHANGED <<initialized, clients, service_call_id, service_calls, leaving,
                 held>>

(* connui_cell_modem_remove_supplementary_services *)
InterfaceRemoved(m) ==
  /\ InTable(m)
  /\ sups[m] \in {"failed", "proxy"}
  /\ sups' = [sups EXCEPT ![m] = "none"]
  /\ pending' = [pending EXCEPT ![m] = {}]
  /\ scd' = Orphaned(m)
  /\ UNCHANGED <<initialized, clients, service_call_id, service_calls, leaving,
                 held>>

(* _modem_added_cb: a modem already in the table is replaced, which        *)
(* destroys the old object and its data.                                   *)
ModemAdded(m) ==
  /\ initialized
  /\ m \notin leaving
  /\ \E new \in Arrival : sups' = [sups EXCEPT ![m] = new]
  /\ pending' = [pending EXCEPT ![m] = {}]
  /\ scd' = Orphaned(m)
  /\ UNCHANGED <<initialized, clients, service_call_id, service_calls, leaving,
                 held>>

(* _modem_removed_cb takes the modem out of the table; the clients are     *)
(* told while its sups_data still exist.                                   *)
ModemRemoved(m) ==
  /\ initialized
  /\ InTable(m)
  /\ leaving' = leaving \cup {m}
  /\ UNCHANGED <<initialized, clients, service_call_id, service_calls, sups,
                 pending, scd, held>>

(* The last g_object_unref of _destroy_modem. *)
ModemFinalized(m) ==
  /\ m \in leaving
  /\ leaving' = leaving \ {m}
  /\ sups' = [sups EXCEPT ![m] = "absent"]
  /\ pending' = [pending EXCEPT ![m] = {}]
  /\ scd' = Orphaned(m)
  /\ UNCHANGED <<initialized, clients, service_call_id, service_calls, held>>

Next ==
  \/ Register
  \/ Close
  \/ \E c \in Call, m \in Modem, keep \in BOOLEAN : Start(c, m, keep)
  \/ \E c \in Call : StartCallerId(c)
  \/ \E c \in Call : Reply(c)
  \/ \E c, d \in Call : ReplyAndChain(c, d)
  \/ \E c \in Call : Cancel(c)
  \/ \E m \in Modem : InterfaceAdded(m)
  \/ \E m \in Modem : InterfaceRemoved(m)
  \/ \E m \in Modem : ModemAdded(m)
  \/ \E m \in Modem : ModemRemoved(m)
  \/ \E m \in Modem : ModemFinalized(m)

Spec == Init /\ [][Next]_vars

(* D-Bus answers every call, with an error after a timeout if need be, and *)
(* the main loop dispatches the answer.                                    *)
FairSpec == Spec /\ \A c \in Call : WF_vars(Reply(c))
-----------------------------------------------------------------------------
(* Types; a record that is not allocated holds nothing and is held by      *)
(* nobody.                                                                 *)
TypeOK ==
  /\ initialized \in BOOLEAN
  /\ clients \in BOOLEAN
  /\ service_call_id \in 0..MaxId
  /\ service_calls \in [Id -> Call \cup {NoCall}]
  /\ sups \in [Modem -> SupsState]
  /\ pending \in [Modem -> SUBSET Call]
  /\ leaving \in SUBSET Modem
  /\ scd \in [Call -> Scd]
  /\ held \in [Call -> 0..MaxId]
  /\ \A c \in Call : ~Outstanding(c) => scd[c] = FreeCall /\ held[c] = 0

(* The table and the records agree: every outstanding call is found under  *)
(* its own id, and every entry is an outstanding call.                     *)
CallsUnderOwnId ==
  /\ \A c \in Call : Outstanding(c) =>
       /\ scd[c].id \in 1..service_call_id
       /\ service_calls[scd[c].id] = c
  /\ \A i \in Id : service_calls[i] # NoCall =>
       /\ Outstanding(service_calls[i])
       /\ scd[service_calls[i]].id = i

(* Numbers are used again once the table has been empty; still, an id that *)
(* a client holds finds that client's own call, so that                    *)
(* connui_cell_cancel_service_call never cancels somebody else's.          *)
HeldIdFindsOwnCall ==
  \A c \in Call : held[c] # 0 => service_calls[held[c]] = c

(* The queue of a modem's sups_data and the queued calls agree: no entry   *)
(* is a freed record or a call of another modem, every queued call whose   *)
(* sups_data exist is in their queue, nothing waits once there is a proxy, *)
(* and what was sent was sent through a proxy that is still there.         *)
QueueHoldsLiveCalls ==
  /\ \A m \in Modem : \A c \in pending[m] :
       /\ scd[c].stage = "queued"
       /\ scd[c].modem = m
       /\ scd[c].home
       /\ sups[m] \in {"queue", "failed"}
  /\ \A c \in Call : scd[c].home /\ scd[c].modem # NoModem =>
       /\ scd[c].stage = "queued" => c \in pending[scd[c].modem]
       /\ scd[c].stage = "flight" => sups[scd[c].modem] = "proxy"

(* The context lives exactly as long as someone needs it: it is not torn   *)
(* down under an outstanding call (_remove_call asserts that it can still  *)
(* get it), and it is not kept once the last client and the last call are  *)
(* gone.                                                                   *)
ContextLivesWithItsUsers == initialized <=> ContextNeeded(clients, service_calls)

(* Whatever is cancelled, removed or restarted meanwhile, a call that was  *)
(* sent is answered and its record is freed.                               *)
SentCallsAreAnswered ==
  \A c \in Call : scd[c].stage = "flight" ~> scd[c].stage = "free"

(* The calls implement the requests: the number of a record is free or its *)
(* own, an answer ends one request, and a cancellation, which goes through *)
(* the table, meets the request of the client that asked for it.           *)
Requests == INSTANCE ServiceRequests WITH
  number <- [c \in Call |-> scd[c].id],
  kept <- held,
  cancelled <- {c \in Call : scd[c].cancelled}

ImplementsRequests == Requests!Spec
=============================================================================
