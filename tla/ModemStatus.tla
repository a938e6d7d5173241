---------------------------- MODULE ModemStatus -----------------------------
(***************************************************************************)
(* How a client of the cellular library learns the state of the modems:    *)
(* lib/context.c (the context and its table of modems), lib/modem.c (the   *)
(* modem itself and its interfaces) and the status part of lib/sim.c,      *)
(* lib/net.c and lib/connmgr.c, which follow one pattern.  A change makes  *)
(* an idle source, at most one per object, and the source tells the        *)
(* registered callbacks the state it finds when it runs.                   *)
(*                                                                         *)
(* Three states of a modem are related: what oFono has, what the library   *)
(* keeps, and what the clients have heard.  Between the first two are the  *)
(* D-Bus signals; one is queued only for a proxy that exists when it is    *)
(* emitted, and dropped when that proxy goes.  Between the last two are    *)
(* the idle sources.  One client stands for all callbacks of a kind.       *)
(*                                                                         *)
(* A synchronous D-Bus call does not run the main loop, but oFono works on *)
(* meanwhile: the creation of the context is three steps.  The removal and *)
(* the replacement of a modem are two, because clients are told between    *)
(* them and may run a nested main loop.                                    *)
(***************************************************************************)
EXTENDS Naturals, Sequences

CONSTANTS Modem,     \* the object paths of the modems
          Facet,     \* the interfaces modelled, some of "sim", "net", "conn"
          Val,       \* what a status can be
          Off,       \* the network states without a radio access technology
          Default,   \* the status of freshly allocated data
          None,      \* no data; nothing heard yet
          Gone,      \* CONNUI_MODEM_STATUS_REMOVED, ..._SIM_STATUS_UNKNOWN
          MaxSignals \* bound on the signals waiting to be dispatched

ASSUME StatusAssumption ==
  /\ Facet \subseteq {"sim", "net", "conn"}
  /\ Off \subseteq Val
  /\ Default \in Val
  /\ None \notin Val /\ Gone \notin Val /\ None # Gone
  /\ MaxSignals \in Nat \ {0}

VARIABLES
  ofono,      \* [Modem -> Reality], the modems as oFono has them
  signals,    \* the signals received and not yet dispatched
  context,    \* "none", "subscribed", "listed" (GetModems answered), "ready"
  obj,        \* [Modem -> Object], the modem objects of the library
  arriving,   \* [Modem -> Snapshot \cup {None}], modems about to be added
  idle,       \* the idle sources, <<modem, kind>>
  registered, \* the kinds of status with a registered callback
  heard,      \* [Kind -> [Modem -> what the callbacks were told last]]
  missed      \* modems that changed after they were announced, and may stay stale

vars == <<ofono, signals, context, obj, arriving, idle, registered, heard, missed>>

Kind == {"modem"} \cup Facet

(* What oFono has, and what ModemAdded and GetModems tell of it.           *)
Reality == [here: BOOLEAN, value: Val, ifaces: SUBSET Facet, facet: [Facet -> Val]]
Snapshot == [value: Val, ifaces: SUBSET Facet]
SnapshotOf(m) == [value |-> ofono[m].value, ifaces |-> ofono[m].ifaces]

ASSUME NoneAssumption == None \notin Snapshot

Nowhere == [here |-> FALSE, value |-> Default, ifaces |-> {},
            facet |-> [f \in Facet |-> Default]]

(* A modem object: "replacing" is in the table without its modem_data,     *)
(* "leaving" is out of the table with sim_data, net_data and cm_data left. *)
Object == [phase: {"absent", "present", "replacing", "leaving"}, view: Val,
           known: SUBSET Facet, data: [Facet -> Val \cup {None}]]

Absent == [phase |-> "absent", view |-> Default, known |-> {},
           data |-> [f \in Facet |-> None]]

HasData(o, f) == o.data[f] # None

(* The signals of the manager, of a modem and of its facets. *)
Signal ==
  [type: {"added"}, modem: Modem, value: Val, ifaces: SUBSET Facet]
  \cup [type: {"removed"}, modem: Modem]
  \cup [type: {"value"}, modem: Modem, value: Val]
  \cup [type: {"ifaces"}, modem: Modem, ifaces: SUBSET Facet]
  \cup [type: {"facet"}, modem: Modem, facet: Facet, value: Val]
-----------------------------------------------------------------------------
(* Idle sources and notifications *)

(* Mutant: the destruction of the data leaves the source in the main loop. *)
SourcesRemoved_Kept(sources, m, kinds) == sources

(* _modem_data_destroy, _sim_data_destroy... remove their source. *)
SourcesRemoved(sources, m, kinds) == sources \ ({m} \X kinds)

(* _notify_all: every modem in the table that has data of the facet. *)
NotifyAll(objects, facets) ==
  {s \in Modem \X facets : objects[s[1]].phase = "present" /\ HasData(objects[s[1]], s[2])}

(* _parse_property: whether a changed property is told.  The strength is   *)
(* not when there is no radio access technology.                           *)
Notifies(f, old, new) == f # "net" \/ old \notin Off \/ new \notin Off

(* Two states of a facet that clients need not tell apart. *)
SameShown(f, a, b) == a = b \/ (f = "net" /\ a \in Off /\ b \in Off)

Hear(h, m, kinds, v) ==
  [k \in Kind |-> IF k \in kinds \cap registered THEN [h[k] EXCEPT ![m] = v] ELSE h[k]]

(* Mutant: _sim_data_destroy does not tell, like _cm_data_destroy. *)
TellsItsEnd_NotSim == {"modem", "net"}

(* Whose destruction notifies: _cm_data_destroy does not. *)
TellsItsEnd == {"modem", "sim", "net"}

(* The signals of the queue that are in alive, in their order (a recursive *)
(* function, unlike SelectSeq, can be reasoned about).                     *)
Filtered(queue, alive) ==
  LET kept[n \in 0..Len(queue)] ==
        IF n = 0 THEN << >>
        ELSE IF queue[n] \in alive THEN Append(kept[n - 1], queue[n])
        ELSE kept[n - 1]
  IN kept[Len(queue)]

(* The signals that die with the proxies of m's facets, or of m itself. *)
Dying(m, facets, self) ==
  {s \in Signal : /\ s.modem = m
                  /\ \/ s.type = "facet" /\ s.facet \in facets
                     \/ self /\ s.type \in {"value", "ifaces"}}

Unsubscribed(queue, m, facets, self) ==
  Filtered(queue, Signal \ Dying(m, facets, self))
-----------------------------------------------------------------------------
(* oFono.  A signal is received when the process has a proxy for it. *)

(* Mutant: the manager's signals are connected after GetModems was called. *)
Subscribed_Late(s) ==
  CASE s.type \in {"added", "removed"} -> context = "ready"
    [] s.type \in {"value", "ifaces"}  -> obj[s.modem].phase # "absent"
    [] s.type = "facet"                -> HasData(obj[s.modem], s.facet)

Subscribed(s) ==
  CASE s.type \in {"added", "removed"} -> context # "none"
    [] s.type \in {"value", "ifaces"}  -> obj[s.modem].phase # "absent"
    [] s.type = "facet"                -> HasData(obj[s.modem], s.facet)

Emit(s) ==
  /\ Len(signals) < MaxSignals
  /\ signals' = IF Subscribed(s) THEN Append(signals, s) ELSE signals

(* Somebody was told of m, and the library has not dealt with it yet: what *)
(* it will be told is then older than what oFono has.                      *)
AnnouncedIn(queue, m) ==
  \E i \in 1..Len(queue) : queue[i].type = "added" /\ queue[i].modem = m

Announced(m) == arriving[m] # None \/ AnnouncedIn(signals, m)

LibraryUnchanged ==
  UNCHANGED <<context, obj, arriving, idle, registered, heard>>

ModemAppears(m) ==
  /\ ~ofono[m].here
  /\ \E v \in Val, i \in SUBSET Facet :
       /\ ofono' = [ofono EXCEPT ![m].here = TRUE, ![m].value = v, ![m].ifaces = i]
       /\ Emit([type |-> "added", modem |-> m, value |-> v, ifaces |-> i])
  /\ UNCHANGED missed
  /\ LibraryUnchanged

ModemVanishes(m) ==
  /\ ofono[m].here
  /\ ofono' = [ofono EXCEPT ![m] = Nowhere]
  /\ Emit([type |-> "removed", modem |-> m])
  /\ UNCHANGED missed
  /\ LibraryUnchanged

ValueChanges(m) ==
  /\ ofono[m].here
  /\ \E v \in Val \ {ofono[m].value} :
       /\ ofono' = [ofono EXCEPT ![m].value = v]
       /\ Emit([type |-> "value", modem |-> m, value |-> v])
  /\ missed' = IF Announced(m) THEN missed \cup {m} ELSE missed
  /\ LibraryUnchanged

(* An interface comes, with its properties at their default, or goes. *)
InterfaceChanges(m, f) ==
  /\ ofono[m].here
  /\ LET i == IF f \in ofono[m].ifaces THEN ofono[m].ifaces \ {f}
              ELSE ofono[m].ifaces \cup {f}
     IN
     /\ ofono' = [ofono EXCEPT ![m].ifaces = i, ![m].facet[f] = Default]
     /\ Emit([type |-> "ifaces", modem |-> m, ifaces |-> i])
  /\ missed' = IF Announced(m) THEN missed \cup {m} ELSE missed
  /\ LibraryUnchanged

FacetChanges(m, f) ==
  /\ f \in ofono[m].ifaces
  /\ \E v \in Val \ {ofono[m].facet[f]} :
       /\ ofono' = [ofono EXCEPT ![m].facet[f] = v]
       /\ Emit([type |-> "facet", modem |-> m, facet |-> f, value |-> v])
  /\ UNCHANGED missed
  /\ LibraryUnchanged
-----------------------------------------------------------------------------
(* Adding and removing *)

(* GetProperties: oFono's answer, or an error when the interface is gone,  *)
(* which leaves the data as allocated.                                     *)
Read(m, f) == IF f \in ofono[m].ifaces THEN ofono[m].facet[f] ELSE Default

(* connui_cell_modem_add with the properties told; bad are the interfaces  *)
(* whose proxy could not be created.                                       *)
Made(m, told, bad) ==
  [phase |-> "present", view |-> told.value, known |-> told.ifaces,
   data |-> [f \in Facet |-> IF f \in told.ifaces \ bad THEN Read(m, f) ELSE None]]

Init ==
  /\ ofono = [m \in Modem |-> Nowhere]
  /\ signals = << >>
  /\ context = "none"
  /\ obj = [m \in Modem |-> Absent]
  /\ arriving = [m \in Modem |-> None]
  /\ idle = {}
  /\ registered = {}
  /\ heard = [k \in Kind |-> [m \in Modem |-> None]]
  /\ missed = {}

(* The first client registers: the manager proxy is created, GetModems is  *)
(* called, and the modems of its answer are added.  A modem that is still  *)
(* being removed (by a callback further up the stack) is waited for.       *)
Open(k) ==
  /\ context = "none"
  /\ \A m \in Modem : obj[m].phase = "absent"
  /\ context' = "subscribed"
  /\ registered' = {k}
  /\ UNCHANGED <<ofono, signals, obj, arriving, idle, heard, missed>>

GetModems ==
  /\ context = "subscribed"
  /\ context' = "listed"
  /\ arriving' = [m \in Modem |-> IF ofono[m].here THEN SnapshotOf(m) ELSE None]
  /\ UNCHANGED <<ofono, signals, obj, idle, registered, heard, missed>>

GetModemsFails ==
  /\ context = "subscribed"
  /\ context' = "none"
  /\ registered' = {}
  /\ signals' = << >>
  /\ missed' = {}
  /\ UNCHANGED <<ofono, obj, arriving, idle, heard>>

Opened ==
  /\ context = "listed"
  /\ context' = "ready"
  /\ \E bad \in SUBSET Facet :
       obj' = [m \in Modem |-> IF arriving[m] # None THEN Made(m, arriving[m], bad)
                               ELSE Absent]
  /\ idle' = {<<m, "modem">> : m \in {n \in Modem : arriving[n] # None}}
             \cup NotifyAll(obj', Facet)
  /\ arriving' = [m \in Modem |-> None]
  /\ UNCHANGED <<ofono, signals, registered, heard, missed>>

(* connui_cell_modem_status_register, connui_cell_sim_status_register...   *)
(* A modem that is being replaced has no modem_data: _notify(NULL) ends    *)
(* the process (see ProcessDies).                                          *)
Register(k) ==
  /\ context = "ready"
  /\ k \notin registered
  /\ k = "modem" => \A m \in Modem : obj[m].phase # "replacing"
  /\ registered' = registered \cup {k}
  /\ idle' = idle \cup
       (IF k = "modem" THEN {<<m, "modem">> : m \in {n \in Modem : obj[n].phase = "present"}}
        ELSE NotifyAll(obj, {k}))
  /\ UNCHANGED <<ofono, signals, context, obj, arriving, heard, missed>>

Forgotten(h, k) == [h EXCEPT ![k] = [m \in Modem |-> None]]

(* connui_cell_..._status_close with other callbacks left. *)
Close(k) ==
  /\ context = "ready"
  /\ k \in registered
  /\ registered # {k}
  /\ registered' = registered \ {k}
  /\ heard' = Forgotten(heard, k)
  /\ UNCHANGED <<ofono, signals, context, obj, arriving, idle, missed>>

(* The last callback goes: context_destroy drops the table and all in it.  *)
(* The modems on their way out were taken from the table before.           *)
CloseLast(k) ==
  LET out == {m \in Modem : obj[m].phase = "leaving"} IN
  /\ context = "ready"
  /\ registered = {k}
  /\ \A m \in Modem : obj[m].phase # "replacing"
  /\ context' = "none"
  /\ registered' = {}
  /\ heard' = Forgotten(heard, k)
  /\ obj' = [m \in Modem |-> IF m \in out THEN obj[m] ELSE Absent]
  /\ idle' = {s \in idle : s[1] \in out}
  /\ signals' = Filtered(signals, {s \in Signal : s.type = "facet" /\ s.modem \in out})
  /\ missed' = {}
  /\ UNCHANGED <<ofono, arriving>>

(* While a modem is being replaced, a callback that registers for the      *)
(* modem status, reads the modem (g_assert(md)) or closes the last         *)
(* callback (the table is destroyed inside its own insertion) ends the     *)
(* process.  It is started again later.                                    *)
ProcessDies ==
  /\ \E m \in Modem : obj[m].phase = "replacing"
  /\ signals' = << >>
  /\ context' = "none"
  /\ obj' = [m \in Modem |-> Absent]
  /\ arriving' = [m \in Modem |-> None]
  /\ idle' = {}
  /\ registered' = {}
  /\ heard' = [k \in Kind |-> [m \in Modem |-> None]]
  /\ missed' = {}
  /\ UNCHANGED ofono
-----------------------------------------------------------------------------
(* The signals are dispatched in the order of their arrival. *)

Dispatch(type) ==
  /\ context = "ready" \/ type = "facet"
  /\ signals # << >>
  /\ Head(signals).type = type

(* connui_cell_modem_add tells the new modem, and every modem of a facet   *)
(* that the new one has.                                                   *)
AddedSources(sources, objects, m, facets) ==
  sources \cup {<<m, "modem">>} \cup NotifyAll(objects, facets)

(* _modem_added_cb for a modem that is not in the table.                   *)
ModemAdded ==
  /\ Dispatch("added")
  /\ LET s == Head(signals)
         m == s.modem
     IN
     /\ obj[m].phase = "absent"
     /\ \E bad \in SUBSET s.ifaces :
          /\ obj' = [obj EXCEPT ![m] = Made(m, s, bad)]
          /\ idle' = AddedSources(idle, obj', m, s.ifaces \ bad)
  /\ signals' = Tail(signals)
  /\ UNCHANGED <<ofono, context, arriving, registered, heard, missed>>

(* _modem_added_cb for a modem in the table: the insertion of the new      *)
(* object destroys the old one, which tells REMOVED first.                 *)
ModemReplaced ==
  /\ Dispatch("added")
  /\ LET s == Head(signals)
         m == s.modem
     IN
     /\ obj[m].phase = "present"
     /\ obj' = [obj EXCEPT ![m].phase = "replacing"]
     /\ arriving' = [arriving EXCEPT ![m] = [value |-> s.value, ifaces |-> s.ifaces]]
     /\ idle' = SourcesRemoved(idle, m, {"modem"})
     /\ heard' = Hear(heard, m, {"modem"}, Gone)
     /\ signals' = Unsubscribed(Tail(signals), m, {}, TRUE)
  /\ UNCHANGED <<ofono, context, registered, missed>>

(* The facets of the old object are gone, and the new modem is added.      *)
Replaced(m) ==
  /\ obj[m].phase = "replacing"
  /\ \E bad \in SUBSET arriving[m].ifaces :
       /\ obj' = [obj EXCEPT ![m] = Made(m, arriving[m], bad)]
       /\ idle' = AddedSources(SourcesRemoved(idle, m, Facet), obj', m,
                               arriving[m].ifaces \ bad)
  /\ heard' = Hear(heard, m, {f \in Facet : HasData(obj[m], f)} \cap TellsItsEnd, Gone)
  /\ signals' = Unsubscribed(signals, m, Facet, FALSE)
  /\ arriving' = [arriving EXCEPT ![m] = None]
  /\ UNCHANGED <<ofono, context, registered, missed>>

(* _modem_removed_cb: the modem leaves the table and tells REMOVED.        *)
ModemRemoved ==
  /\ Dispatch("removed")
  /\ LET m == Head(signals).modem IN
     /\ obj[m].phase \in {"present", "absent"}
     /\ IF obj[m].phase = "present"
        THEN /\ obj' = [obj EXCEPT ![m].phase = "leaving"]
             /\ idle' = SourcesRemoved(idle, m, {"modem"})
             /\ heard' = Hear(heard, m, {"modem"}, Gone)
        ELSE UNCHANGED <<obj, idle, heard>>
     /\ missed' = IF AnnouncedIn(Tail(signals), m) THEN missed ELSE missed \ {m}
  /\ signals' = Tail(signals)
  /\ UNCHANGED <<ofono, context, arriving, registered>>

(* The last g_object_unref of _destroy_modem, with the facets still there. *)
ModemFinalized(m) ==
  /\ obj[m].phase = "leaving"
  /\ obj' = [obj EXCEPT ![m] = Absent]
  /\ idle' = SourcesRemoved(idle, m, Facet)
  /\ heard' = Hear(heard, m, {f \in Facet : HasData(obj[m], f)} \cap TellsItsEnd, Gone)
  /\ signals' = Unsubscribed(signals, m, Facet, TRUE)
  /\ UNCHANGED <<ofono, context, arriving, registered, missed>>

(* _property_changed_cb of modem.c; not connected without modem_data.      *)
ValueTold ==
  /\ Dispatch("value")
  /\ LET s == Head(signals) IN
     IF obj[s.modem].phase = "present"
     THEN /\ obj' = [obj EXCEPT ![s.modem].view = s.value]
          /\ idle' = idle \cup {<<s.modem, "modem">>}
     ELSE UNCHANGED <<obj, idle>>
  /\ signals' = Tail(signals)
  /\ UNCHANGED <<ofono, context, arriving, registered, heard, missed>>

(* Mutant: the data of an interface that went are kept. *)
FacetsRemoved_Kept(o, gone) == o.data

FacetsRemoved(o, gone) == [f \in Facet |-> IF f \in gone THEN None ELSE o.data[f]]

(* _parse_interfaces: the new interfaces are added, then the old removed. *)
InterfacesTold ==
  /\ Dispatch("ifaces")
  /\ LET s == Head(signals)
         m == s.modem
         o == obj[m]
         gone == o.known \ s.ifaces
         new == s.ifaces \ o.known
     IN
     IF o.phase = "present"
     THEN \E bad \in SUBSET new :
            LET data == [f \in Facet |-> IF f \in new \ bad THEN Read(m, f)
                                         ELSE FacetsRemoved(o, gone)[f]]
            IN
            /\ obj' = [obj EXCEPT ![m].known = s.ifaces, ![m].data = data]
            /\ idle' = SourcesRemoved(idle, m, gone) \cup NotifyAll(obj', new \ bad)
                       \cup {<<m, "modem">>}
            /\ heard' = Hear(heard, m, {f \in gone : HasData(o, f)} \cap TellsItsEnd, Gone)
            /\ signals' = Unsubscribed(Tail(signals), m, gone, FALSE)
     ELSE /\ signals' = Tail(signals)
          /\ UNCHANGED <<obj, idle, heard>>
  /\ UNCHANGED <<ofono, context, arriving, registered, missed>>

(* _property_changed_cb of sim.c, net.c and connmgr.c. *)
FacetTold ==
  /\ Dispatch("facet")
  /\ LET s == Head(signals)
         m == s.modem
     IN
     /\ obj' = [obj EXCEPT ![m].data[s.facet] = s.value]
     /\ idle' = IF Notifies(s.facet, obj[m].data[s.facet], s.value)
                THEN idle \cup {<<m, s.facet>>} ELSE idle
  /\ signals' = Tail(signals)
  /\ UNCHANGED <<ofono, context, arriving, registered, heard, missed>>

(* _idle_notify, _idle_notify_status: the state found now is told. *)
IdleNotify(m, k) ==
  /\ <<m, k>> \in idle
  /\ idle' = idle \ {<<m, k>>}
  /\ heard' = Hear(heard, m, {k}, IF k = "modem" THEN obj[m].view ELSE obj[m].data[k])
  /\ UNCHANGED <<ofono, signals, context, obj, arriving, registered, missed>>

(* verify_code: the code entered changes what oFono requires, and the      *)
(* answer is kept at once; only the signal that follows is told.           *)
CodeVerified(m) ==
  /\ "sim" \in ofono[m].ifaces
  /\ HasData(obj[m], "sim")
  /\ \E v \in Val \ {ofono[m].facet["sim"]} :
       /\ ofono' = [ofono EXCEPT ![m].facet["sim"] = v]
       /\ Emit([type |-> "facet", modem |-> m, facet |-> "sim", value |-> v])
       /\ obj' = [obj EXCEPT ![m].data["sim"] = v]
  /\ UNCHANGED <<context, arriving, idle, registered, heard, missed>>

Next ==
  \/ \E m \in Modem : ModemAppears(m)
  \/ \E m \in Modem : ModemVanishes(m)
  \/ \E m \in Modem : ValueChanges(m)
  \/ \E m \in Modem, f \in Facet : InterfaceChanges(m, f)
  \/ \E m \in Modem, f \in Facet : FacetChanges(m, f)
  \/ \E k \in Kind : Open(k)
  \/ GetModems
  \/ GetModemsFails
  \/ Opened
  \/ \E k \in Kind : Register(k)
  \/ \E k \in Kind : Close(k)
  \/ \E k \in Kind : CloseLast(k)
  \/ ProcessDies
  \/ ModemAdded
  \/ ModemReplaced
  \/ \E m \in Modem : Replaced(m)
  \/ ModemRemoved
  \/ \E m \in Modem : ModemFinalized(m)
  \/ ValueTold
  \/ InterfacesTold
  \/ FacetTold
  \/ \E m \in Modem, k \in Kind : IdleNotify(m, k)
  \/ \E m \in Modem : CodeVerified(m)

Spec == Init /\ [][Next]_vars
-----------------------------------------------------------------------------
(* Types.  An object has data only for interfaces it knows, and one that   *)
(* is not there knows none.                                                *)
TypeOK ==
  /\ ofono \in [Modem -> Reality]
  /\ context \in {"none", "subscribed", "listed", "ready"}
  /\ signals \in Seq(Signal) /\ Len(signals) <= MaxSignals
  /\ obj \in [Modem -> Object]
  /\ arriving \in [Modem -> Snapshot \cup {None}]
  /\ idle \subseteq Modem \X Kind
  /\ registered \subseteq Kind
  /\ heard \in [Kind -> [Modem -> Val \cup {None, Gone}]]
  /\ missed \subseteq Modem
  /\ \A m \in Modem :
       /\ {f \in Facet : HasData(obj[m], f)} \subseteq obj[m].known
       /\ obj[m].phase = "absent" => obj[m] = Absent

(* No source of the main loop and no signal under way points to data that  *)
(* were freed: whatever is removed, replaced or closed takes its sources   *)
(* and subscriptions along.                                                *)
SourcesAreAlive ==
  /\ \A s \in idle :
       IF s[2] = "modem" THEN obj[s[1]].phase = "present"
       ELSE HasData(obj[s[1]], s[2])
  /\ \A i \in 1..Len(signals) :
       signals[i].type = "facet" => HasData(obj[signals[i].modem], signals[i].facet)

(* With no source left for an object, its callbacks have been told the     *)
(* state the library has, or its end.  The end of the connection manager   *)
(* is never told, and a code that was just verified is told when oFono's   *)
(* signal comes.                                                           *)
QuietMeansHeard ==
  context = "ready" =>
    \A m \in Modem, k \in registered : <<m, k>> \notin idle =>
      CASE k = "modem" -> IF obj[m].phase = "present" THEN heard[k][m] = obj[m].view
                          ELSE heard[k][m] \in {None, Gone}
        [] k # "modem" /\ HasData(obj[m], k) /\ obj[m].phase = "present" ->
             \/ SameShown(k, heard[k][m], obj[m].data[k])
             \/ k = "sim" /\ \E i \in 1..Len(signals) :
                  signals[i].type = "facet" /\ signals[i].modem = m /\ signals[i].facet = k
        [] k # "modem" /\ ~HasData(obj[m], k) ->
             k \in {"sim", "net"} => heard[k][m] \in {None, Gone}
        [] OTHER -> TRUE

(* With no signal left, the library has what oFono has: the same modems,   *)
(* and for each of them the same state, interfaces and facets, unless it   *)
(* changed between being announced and being added.                        *)
QuietMeansCurrent ==
  context = "ready" /\ signals = << >> =>
    \A m \in Modem : obj[m].phase \in {"absent", "present"} =>
      /\ obj[m].phase = "present" <=> ofono[m].here
      /\ ofono[m].here /\ m \notin missed =>
           /\ obj[m].view = ofono[m].value
           /\ obj[m].known = ofono[m].ifaces
           /\ \A f \in Facet : HasData(obj[m], f) => obj[m].data[f] = ofono[m].facet[f]

(* Whenever a callback or the main loop runs, every modem in the table has *)
(* its modem_data: what _modem_get_data asserts and _notify relies on.     *)
ListedModemsHaveData ==
  context = "ready" => \A m \in Modem : obj[m].phase # "replacing"
=============================================================================
