------------------------------ MODULE HomeItem ------------------------------
(***************************************************************************)
(* The item of the home screen that shows the operators' names             *)
(* (home-item/operator-name-cbs-home-item.c) against what the library      *)
(* tells it.                                                               *)
(*                                                                         *)
(* The library is reduced as in module StatusItem, to the modems in the    *)
(* table, what is known of their registration and the idle sources.  The   *)
(* label shows the modems of the table, in its order; here it is a         *)
(* function of the modem.  The radio access technology is left out: that   *)
(* it changed makes the item draw once more what it shows.                 *)
(***************************************************************************)
EXTENDS FiniteSets, Naturals

CONSTANTS Modem,    \* the object paths of the modems
          NetState, \* what ofono may say of a registration
          Name,     \* the names of operators, with the empty one
          NoState,  \* no data; no name
          Fallback, \* the name that the codes of a network stand for
          MaxIdle   \* bound on the sources waiting when something changes

(* home_item_modem: what the item keeps of a modem *)
Entry == [reg: {"searching", "home"}, name: Name]

ASSUME HomeItemAssumption ==
  /\ Cardinality(Modem) <= 2  \* the label has two lines
  /\ NetState \subseteq [reg: {"unknown", "searching", "home"}, name: Name \cup {NoState},
                         network: {"none", "plain", "coded"}]
  /\ {"", Fallback} \subseteq Name
  /\ NoState \notin NetState /\ NoState \notin Name /\ NoState \notin Entry
  /\ MaxIdle \in Nat

VARIABLES
  listed, \* connui_cell_modem_get_modems
  net,    \* [Modem -> the state kept by the library, or NoState]
  idle,   \* the idle sources of the library, <<modem, kind>>
  modems, \* [Modem -> what the item keeps of the modem, or NoState]
  label,  \* [Modem -> the name drawn, or the empty string]
  flight, \* flight mode, as told to the item
  muted   \* modems that were told of, or forgotten, in flight mode only

homeVars == <<listed, net, idle, modems, label, flight, muted>>

Sources == Modem \X {"modem", "net"}

(* No state at first: hildon-home starts before the modems are known. *)
HomeInit ==
  /\ listed = {}
  /\ net = [m \in Modem |-> NoState]
  /\ idle = {}
  /\ modems = [m \in Modem |-> NoState]
  /\ label = [m \in Modem |-> ""]
  /\ flight = FALSE
  /\ muted = {}
-----------------------------------------------------------------------------
(* update_widget: what the label shows of the entries es of the modems in  *)
(* the table.                                                              *)
LabelOf(es, there) ==
  [m \in Modem |-> IF m \in there /\ es[m] # NoState THEN es[m].name ELSE ""]

(* MODEM_REGISTERED, and what get_operator_name needs *)
TellsName(s) == s.reg = "home" /\ s.network # "none" /\ s.name # NoState

(* get_operator_name *)
NameTold(s) == IF s.name = "" /\ s.network = "coded" THEN Fallback ELSE s.name

(* Mutant: a name is kept once there is one. *)
EntryAfter_FirstName(e, s) ==
  [reg |-> s.reg,
   name |-> IF TellsName(s) /\ e.name = "" THEN NameTold(s) ELSE e.name]

(* Mutant: the name is taken over, also when there is none. *)
EntryAfter_Unguarded(e, s) == [reg |-> s.reg, name |-> NameTold(s)]

(* The entry after widget_net_status_cb: without a name that is told, the  *)
(* one before is kept, whatever the network.                               *)
EntryAfter(e, s) ==
  [reg |-> s.reg, name |-> IF TellsName(s) THEN NameTold(s) ELSE e.name]

(* modem_get, modem_create *)
EntryOf(m) == IF modems[m] # NoState THEN modems[m] ELSE [reg |-> "unknown", name |-> ""]

(* widget_net_status_cb; it draws whenever something changed.              *)
Heard(m, s, there) ==
  LET e == IF s.reg = "unknown" THEN NoState ELSE EntryAfter(EntryOf(m), s) IN
  IF flight THEN UNCHANGED <<modems, label>> /\ muted' = muted \cup {m}
  ELSE /\ modems' = [modems EXCEPT ![m] = e]
       /\ label' = IF e = NoState \/ e # modems[m] \/ TellsName(s)
                   THEN LabelOf(modems', there) ELSE label
       /\ muted' = muted \ {m}

(* widget_modem_status_cb *)
Redrawn(there) ==
  /\ label' = IF flight THEN label ELSE LabelOf(modems, there)
  /\ UNCHANGED <<modems, muted>>

(* What the destructors of a modem tell: that it is gone, and that its     *)
(* registration is unknown.                                                *)
EndTold(m, there) ==
  IF net[m] # NoState THEN Heard(m, [reg |-> "unknown"], there) ELSE Redrawn(there)
-----------------------------------------------------------------------------
(* The library, see module ModemStatus *)

Calm == Cardinality(idle) <= MaxIdle

Announced(m, n) ==
  {<<m, "modem">>} \cup {<<o, "net">> : o \in {p \in Modem : n[m] # NoState /\ n[p] # NoState}}

Added(m) ==
  /\ \E s \in NetState \cup {NoState} : net' = [net EXCEPT ![m] = s]
  /\ idle' = (idle \ ({m} \X {"modem", "net"})) \cup Announced(m, net')

ModemAdded(m) ==
  /\ Calm
  /\ m \notin listed
  /\ listed' = listed \cup {m}
  /\ Added(m)
  /\ UNCHANGED <<modems, label, flight, muted>>

ModemRemoved(m) ==
  /\ Calm
  /\ m \in listed
  /\ listed' = listed \ {m}
  /\ net' = [net EXCEPT ![m] = NoState]
  /\ idle' = idle \ ({m} \X {"modem", "net"})
  /\ EndTold(m, listed')
  /\ UNCHANGED flight

ModemReplaced(m) ==
  /\ Calm
  /\ m \in listed
  /\ EndTold(m, listed)
  /\ Added(m)
  /\ UNCHANGED <<listed, flight>>

NetAdded(m) ==
  /\ Calm
  /\ m \in listed
  /\ net[m] = NoState
  /\ \E s \in NetState : net' = [net EXCEPT ![m] = s]
  /\ idle' = idle \cup Announced(m, net')
  /\ UNCHANGED <<listed, modems, label, flight, muted>>

NetRemoved(m) ==
  /\ Calm
  /\ net[m] # NoState
  /\ net' = [net EXCEPT ![m] = NoState]
  /\ idle' = (idle \ {<<m, "net">>}) \cup {<<m, "modem">>}
  /\ Heard(m, [reg |-> "unknown"], listed)
  /\ UNCHANGED <<listed, flight>>

NetChanges(m) ==
  /\ Calm
  /\ net[m] # NoState
  /\ \E s \in NetState \ {net[m]} : net' = [net EXCEPT ![m] = s]
  /\ idle' = idle \cup {<<m, "net">>}
  /\ UNCHANGED <<listed, modems, label, flight, muted>>

ModemNotified(m) ==
  /\ <<m, "modem">> \in idle
  /\ idle' = idle \ {<<m, "modem">>}
  /\ Redrawn(listed)
  /\ UNCHANGED <<listed, net, flight>>

NetNotified(m) ==
  /\ <<m, "net">> \in idle
  /\ idle' = idle \ {<<m, "net">>}
  /\ Heard(m, net[m], listed)
  /\ UNCHANGED <<listed, net, flight>>

(* widget_flightmode_cb: all is forgotten, and nothing brings it back. *)
FlightMode(offline) ==
  /\ offline # flight
  /\ flight' = offline
  /\ modems' = IF offline THEN [m \in Modem |-> NoState] ELSE modems
  /\ label' = IF offline THEN LabelOf(modems', listed) ELSE label
  /\ muted' = IF offline THEN muted \cup listed ELSE muted
  /\ UNCHANGED <<listed, net, idle>>

HomeNext ==
  \/ \E m \in Modem : ModemAdded(m)
  \/ \E m \in Modem : ModemRemoved(m)
  \/ \E m \in Modem : ModemReplaced(m)
  \/ \E m \in Modem : NetAdded(m)
  \/ \E m \in Modem : NetRemoved(m)
  \/ \E m \in Modem : NetChanges(m)
  \/ \E m \in Modem : ModemNotified(m)
  \/ \E m \in Modem : NetNotified(m)
  \/ \E offline \in BOOLEAN : FlightMode(offline)
-----------------------------------------------------------------------------
HomeTypeOK ==
  /\ listed \subseteq Modem
  /\ net \in [Modem -> NetState \cup {NoState}]
  /\ idle \subseteq Sources
  /\ modems \in [Modem -> Entry \cup {NoState}]
  /\ label \in [Modem -> Name]
  /\ flight \in BOOLEAN
  /\ muted \subseteq Modem

(* When nothing is under way and flight mode is off, the label shows what  *)
(* the item keeps: nothing of a modem that is gone, has no registration    *)
(* or an unknown one, and of a modem that is registered the name that its  *)
(* network has now, unless what was told of it came in flight mode (then   *)
(* nothing brings its name back until the registration changes).  A modem  *)
(* that only lost its network keeps the name.                              *)
LabelAsTold ==
  idle = {} /\ ~flight =>
    /\ label = LabelOf(modems, listed)
    /\ \A m \in Modem :
         IF net[m] = NoState \/ (net[m] # NoState /\ net[m].reg = "unknown") THEN label[m] = ""
         ELSE TellsName(net[m]) /\ m \notin muted => label[m] = NameTold(net[m])
=============================================================================
