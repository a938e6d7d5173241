----------------------------- MODULE StatusItem -----------------------------
(***************************************************************************)
(* The cellular item of the status menu (status-menu-item/status-item.c):  *)
(* the icons it draws in the status area against what the library tells    *)
(* it.                                                                     *)
(*                                                                         *)
(* The library is that of module ModemStatus, reduced to what this process *)
(* can tell apart: the modems in the table, the registration and the       *)
(* bearer kept for them, and the idle sources.  None of the item's         *)
(* callbacks runs a main loop, so that removing or replacing a modem with  *)
(* all it tells is one step here.                                          *)
(*                                                                         *)
(* The process has one item; its private data are the record item.         *)
(***************************************************************************)
EXTENDS FiniteSets, Naturals

CONSTANTS Modem,        \* the object paths of the modems
          Gprs,         \* the modems that have a connection manager at times
          Registration, \* some of "unknown", "home", "searching", "denied"
          None,         \* no data; nothing drawn
          MaxPending    \* bound on the sources waiting when something changes

(* Who is not registered is told apart from whom the network denies only   *)
(* offline; how the registered ones differ is the radio access technology. *)
Icon == {"slow", "fast", "searching", "offline", "off"}

Entry == [reg: Registration, fast: BOOLEAN, icon: Icon \cup {None}]

ASSUME StatusItemAssumption ==
  /\ Cardinality(Modem) <= 2  \* the area has room for two modems
  /\ Gprs \subseteq Modem
  /\ Registration \subseteq {"unknown", "home", "searching", "denied"}
  /\ "unknown" \in Registration
  /\ None \notin Registration /\ None \notin BOOLEAN /\ None \notin Entry
  /\ MaxPending \in Nat

VARIABLES
  listed,  \* connui_cell_modem_get_modems
  net,     \* [Modem -> registration kept by the library, or None]
  fast,    \* [Modem -> the bearer is a fast one, or None]
  idle,    \* the idle sources of the library, <<modem, kind>>
  item,    \* ConnuiCellularStatusItemPrivate, and the icon set last
  returned \* modems added when the item already had an entry for them

library == <<listed, net, fast, idle>>
vars == <<library, item, returned>>

Item == [modems: [Modem -> Entry \cup {None}], modems_changed: BOOLEAN,
         display: {"on", "dimmed", "off"}, display_was_off: BOOLEAN,
         offline: BOOLEAN, drawn: [Modem -> Icon \cup {None}]]

(* _add_modem *)
NewEntry == [reg |-> "unknown", fast |-> FALSE, icon |-> None]

(* _get_icons *)
IconOf(reg, isFast, offline) ==
  CASE reg = "home" /\ isFast                  -> "fast"
    [] reg = "home" /\ ~isFast                 -> "slow"
    [] reg = "unknown" /\ offline              -> "offline"
    [] reg = "denied" \/ (reg = "unknown" /\ ~offline) -> "off"
    [] OTHER                                   -> "searching"
-----------------------------------------------------------------------------
(* connui_cellular_status_item_update_icon, with the modems there are *)

HasEntry(i, m) == i.modems[m] # None

WithIcons(i, ms) ==
  LET kept(m) == i.modems[m]
      icon(m) == IconOf(kept(m).reg, kept(m).fast, i.offline)
  IN [i EXCEPT !.modems = [m \in Modem |->
        IF m \in ms /\ HasEntry(i, m) THEN [kept(m) EXCEPT !.icon = icon(m)] ELSE kept(m)]]

Drawn(i, there) ==
  [i EXCEPT !.drawn = [m \in Modem |->
     IF m \in there /\ HasEntry(i, m) THEN i.modems[m].icon ELSE None]]

(* Mutant: nothing remembers that the display was off. *)
Update_Forgotten(i, ms, changed, there) ==
  LET new == WithIcons(i, ms) IN
  IF i.display = "off" THEN i
  ELSE IF changed \/ new # i THEN Drawn(new, there) ELSE new

(* The icons of ms are looked up again; everything is drawn if one of them *)
(* changed, and nothing happens while the display is off.                  *)
Update(i, ms, changed, there) ==
  LET new == WithIcons(i, ms) IN
  IF i.display = "off" THEN [i EXCEPT !.display_was_off = TRUE]
  ELSE IF changed \/ new # i THEN Drawn(new, there) ELSE new

UpdateAll(i, there) == Update(i, Modem, i.modems_changed, there)
UpdateOne(i, m, there) == Update(i, {m}, FALSE, there)

(* _modem_status_cb, for CONNUI_MODEM_STATUS_REMOVED and for any other.    *)
RemovedTold(i, m, there) ==
  IF HasEntry(i, m)
  THEN UpdateAll([i EXCEPT !.modems[m] = None, !.modems_changed = TRUE], there)
  ELSE i

StatusTold(i, m, there) ==
  IF HasEntry(i, m) THEN i ELSE UpdateAll([i EXCEPT !.modems[m] = NewEntry], there)

(* _get_modem *)
GotEntry(i, m) == IF HasEntry(i, m) THEN i.modems[m] ELSE NewEntry

(* _net_status_cb *)
NetTold(i, m, reg, there) ==
  UpdateOne([i EXCEPT !.modems[m] = [GotEntry(i, m) EXCEPT !.reg = reg]], m, there)

(* _connmgr_status_cb *)
ConnTold(i, m, isFast, there) ==
  UpdateOne([i EXCEPT !.modems[m] = [GotEntry(i, m) EXCEPT !.fast = isFast]], m, there)

(* What the destructors of a modem tell: first that it is gone, then that  *)
(* its registration is unknown; nothing of its connection manager.         *)
EndTold(i, m, there) ==
  LET gone == RemovedTold(i, m, there) IN
  IF net[m] # None THEN NetTold(gone, m, "unknown", there) ELSE gone
-----------------------------------------------------------------------------
(* connui_cellular_status_item_init: the callbacks are registered, which   *)
(* makes idle sources for all that is there, and the modems are listed.    *)
Init ==
  /\ listed \in SUBSET Modem
  /\ net \in [Modem -> Registration \cup {None}]
  /\ fast \in [Modem -> BOOLEAN \cup {None}]
  /\ \A m \in Modem \ listed : net[m] = None
  /\ \A m \in Modem : m \notin listed \cap Gprs => fast[m] = None
  /\ idle = {s \in listed \X {"modem", "net", "conn"} :
               /\ s[2] = "net" => net[s[1]] # None
               /\ s[2] = "conn" => fast[s[1]] # None}
  /\ item = UpdateAll(
       [modems |-> [m \in Modem |-> IF m \in listed THEN NewEntry ELSE None],
        modems_changed |-> FALSE, display |-> "on", display_was_off |-> FALSE,
        offline |-> FALSE, drawn |-> [m \in Modem |-> None]], listed)
  /\ returned = {}

Calm == Cardinality(idle) <= MaxPending

(* The sources made when modem m has become known with a registration or a *)
(* bearer: its own, and those of every modem that has the same.            *)
Announced(m, n, f) ==
  {<<m, "modem">>}
  \cup {<<o, "net">> : o \in {p \in Modem : n[m] # None /\ n[p] # None}}
  \cup {<<o, "conn">> : o \in {p \in Modem : f[m] # None /\ f[p] # None}}

(* A modem is added, with the interfaces it has. *)
Added(m) ==
  /\ \E r \in Registration \cup {None} : net' = [net EXCEPT ![m] = r]
  /\ \E b \in BOOLEAN \cup {None} :
       /\ m \notin Gprs => b = None
       /\ fast' = [fast EXCEPT ![m] = b]
  /\ idle' = (idle \ ({m} \X {"modem", "net", "conn"})) \cup Announced(m, net', fast')

ModemAdded(m) ==
  /\ Calm
  /\ m \notin listed
  /\ listed' = listed \cup {m}
  /\ Added(m)
  /\ returned' = IF HasEntry(item, m) THEN returned \cup {m} ELSE returned
  /\ UNCHANGED item

ModemRemoved(m) ==
  /\ Calm
  /\ m \in listed
  /\ listed' = listed \ {m}
  /\ net' = [net EXCEPT ![m] = None]
  /\ fast' = [fast EXCEPT ![m] = None]
  /\ idle' = idle \ ({m} \X {"modem", "net", "conn"})
  /\ item' = EndTold(item, m, listed')
  /\ returned' = returned \ {m}

(* A modem is added while it is in the table: the new object is listed     *)
(* when the destructors of the old one tell its end.                       *)
ModemReplaced(m) ==
  /\ Calm
  /\ m \in listed
  /\ item' = EndTold(item, m, listed)
  /\ Added(m)
  /\ returned' = returned \ {m}
  /\ UNCHANGED listed

NetAdded(m) ==
  /\ Calm
  /\ m \in listed
  /\ net[m] = None
  /\ \E r \in Registration : net' = [net EXCEPT ![m] = r]
  /\ idle' = idle \cup {<<m, "modem">>} \cup {<<o, "net">> : o \in {p \in Modem : net'[p] # None}}
  /\ UNCHANGED <<listed, fast, item, returned>>

(* Mutant: _net_data_destroy leaves its source in the main loop. *)
NetRemoved_SourceKept(m) ==
  /\ Calm
  /\ net[m] # None
  /\ net' = [net EXCEPT ![m] = None]
  /\ idle' = idle \cup {<<m, "modem">>}
  /\ item' = NetTold(item, m, "unknown", listed)
  /\ UNCHANGED <<listed, fast, returned>>

(* connui_cell_modem_remove_netreg: the end of the registration is told.   *)
NetRemoved(m) ==
  /\ Calm
  /\ net[m] # None
  /\ net' = [net EXCEPT ![m] = None]
  /\ idle' = (idle \ {<<m, "net">>}) \cup {<<m, "modem">>}
  /\ item' = NetTold(item, m, "unknown", listed)
  /\ UNCHANGED <<listed, fast, returned>>

ConnAdded(m) ==
  /\ Calm
  /\ m \in listed \cap Gprs
  /\ fast[m] = None
  /\ \E b \in BOOLEAN : fast' = [fast EXCEPT ![m] = b]
  /\ idle' = idle \cup {<<m, "modem">>} \cup {<<o, "conn">> : o \in {p \in Modem : fast'[p] # None}}
  /\ UNCHANGED <<listed, net, item, returned>>

(* connui_cell_modem_remove_connection_manager tells nobody. *)
ConnRemoved(m) ==
  /\ Calm
  /\ fast[m] # None
  /\ fast' = [fast EXCEPT ![m] = None]
  /\ idle' = (idle \ {<<m, "conn">>}) \cup {<<m, "modem">>}
  /\ UNCHANGED <<listed, net, item, returned>>

RegistrationChanges(m) ==
  /\ Calm
  /\ net[m] # None
  /\ \E r \in Registration \ {net[m]} : net' = [net EXCEPT ![m] = r]
  /\ idle' = idle \cup {<<m, "net">>}
  /\ UNCHANGED <<listed, fast, item, returned>>

BearerChanges(m) ==
  /\ Calm
  /\ fast[m] # None
  /\ fast' = [fast EXCEPT ![m] = ~@]
  /\ idle' = idle \cup {<<m, "conn">>}
  /\ UNCHANGED <<listed, net, item, returned>>

IdleNotify(m, k) ==
  /\ <<m, k>> \in idle
  /\ idle' = idle \ {<<m, k>>}
  /\ item' = CASE k = "modem" -> StatusTold(item, m, listed)
               [] k = "net"   -> NetTold(item, m, net[m], listed)
               [] k = "conn"  -> ConnTold(item, m, fast[m], listed)
  /\ UNCHANGED <<listed, net, fast, returned>>

(* connui_cellular_status_item_display_cb *)
DisplayChanges(d) ==
  LET i == [item EXCEPT !.display = d] IN
  /\ d # item.display
  /\ item' = IF d = "on" /\ i.display_was_off
             THEN [UpdateAll(i, listed) EXCEPT !.display_was_off = FALSE] ELSE i
  /\ UNCHANGED <<library, returned>>

(* connui_cellular_status_item_flightmode_cb *)
FlightMode(o) ==
  /\ o # item.offline
  /\ item' = UpdateAll([item EXCEPT !.offline = o], listed)
  /\ UNCHANGED <<library, returned>>

Next ==
  \/ \E m \in Modem : ModemAdded(m)
  \/ \E m \in Modem : ModemRemoved(m)
  \/ \E m \in Modem : ModemReplaced(m)
  \/ \E m \in Modem : NetAdded(m)
  \/ \E m \in Modem : NetRemoved(m)
  \/ \E m \in Modem : ConnAdded(m)
  \/ \E m \in Modem : ConnRemoved(m)
  \/ \E m \in Modem : RegistrationChanges(m)
  \/ \E m \in Modem : BearerChanges(m)
  \/ \E m \in Modem, k \in {"modem", "net", "conn"} : IdleNotify(m, k)
  \/ \E d \in {"on", "dimmed", "off"} : DisplayChanges(d)
  \/ \E o \in BOOLEAN : FlightMode(o)

Spec == Init /\ [][Next]_vars
-----------------------------------------------------------------------------
(* Types; sources are those of data that exist. *)
TypeOK ==
  /\ listed \subseteq Modem
  /\ net \in [Modem -> Registration \cup {None}]
  /\ fast \in [Modem -> BOOLEAN \cup {None}]
  /\ idle \subseteq listed \X {"modem", "net", "conn"}
  /\ item \in Item
  /\ returned \subseteq listed
  /\ \A s \in idle : /\ s[2] = "net" => net[s[1]] # None
                     /\ s[2] = "conn" => fast[s[1]] # None

(* What should be drawn for a modem in the table.  The end of a connection *)
(* manager is told to nobody: its last bearer stays.                       *)
Shown(m) ==
  LET e == item.modems[m] IN
  IconOf(IF net[m] = None THEN "unknown" ELSE net[m],
         IF fast[m] = None THEN e.fast ELSE fast[m], item.offline)

Quiet == idle = {} /\ item.display = "on" /\ ~item.display_was_off

(* When all is told and the display is on, every modem in the table has an *)
(* entry and is drawn as the library knows it, and no other modem is, in   *)
(* whatever order things were told and whatever was not drawn while the    *)
(* display was off.  The exception is a modem that comes back while the    *)
(* item still has an entry for it, made by what was told of its            *)
(* registration after it was gone: as long as its icon stays that of the   *)
(* entry it may not be drawn.                                              *)
DrawnAsTold ==
  Quiet => \A m \in Modem :
    IF m \in listed
    THEN /\ HasEntry(item, m)
         /\ item.drawn[m] = Shown(m) \/ (m \in returned /\ item.drawn[m] = None)
    ELSE item.drawn[m] = None
=============================================================================
