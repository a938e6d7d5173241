-------------------------- MODULE StatusItemProofs --------------------------
(* The invariants of StatusItem, proved for any modems and registrations.  *)
EXTENDS StatusItem, TLAPS

(* What is drawn of the modems in the table is the icon kept for them; ret *)
(* are those which may not be drawn.                                       *)
Matches(i, there, ret) ==
  \A m \in Modem :
    IF m \in there /\ HasEntry(i, m)
    THEN i.drawn[m] = i.modems[m].icon \/ (m \in ret /\ i.drawn[m] = None)
    ELSE i.drawn[m] = None

(* The icons kept for the modems in ms are those of what is kept of them. *)
IconsRight(i, ms) ==
  \A m \in ms :
    HasEntry(i, m) => i.modems[m].icon = IconOf(i.modems[m].reg, i.modems[m].fast, i.offline)

(* What the item missed while the display was off it remembers: that there *)
(* are icons to look up, and that a modem was removed.                     *)
ItemInv(i, there, ret) ==
  /\ i \in Item
  /\ Matches(i, there, ret) \/ (i.display_was_off /\ i.modems_changed)
  /\ i.display_was_off \/ IconsRight(i, Modem)

(* Nothing is known of a modem that is not in the table. *)
OnlyListed == \A m \in Modem \ listed : net[m] = None /\ fast[m] = None

(* What has no source waiting was told, and nothing was told since. *)
EntriesTold ==
  \A m \in Modem :
    /\ net[m] = None /\ HasEntry(item, m) => item.modems[m].reg = "unknown"
    /\ net[m] # None /\ <<m, "net">> \notin idle =>
         HasEntry(item, m) /\ item.modems[m].reg = net[m]
    /\ fast[m] # None /\ <<m, "conn">> \notin idle =>
         HasEntry(item, m) /\ item.modems[m].fast = fast[m]
    /\ m \in listed /\ <<m, "modem">> \notin idle => HasEntry(item, m)

IInv == TypeOK /\ OnlyListed /\ EntriesTold /\ ItemInv(item, listed, returned)

(* j has the entries of i, but for their icons. *)
SameEntry(j, i, m) ==
  /\ HasEntry(j, m) <=> HasEntry(i, m)
  /\ HasEntry(i, m) =>
       j.modems[m].reg = i.modems[m].reg /\ j.modems[m].fast = i.modems[m].fast

SameEntries(j, i, ms) == \A m \in ms : SameEntry(j, i, m)
-----------------------------------------------------------------------------
LEMMA IconType ==
  ASSUME NEW reg \in Registration, NEW f \in BOOLEAN, NEW o \in BOOLEAN
  PROVE  IconOf(reg, f, o) \in Icon
<1>1. reg \in {"unknown", "home", "searching", "denied"}
  BY StatusItemAssumption DEF StatusItemAssumption
<1>. QED BY <1>1 DEF IconOf, Icon

LEMMA NewEntryType == NewEntry \in Entry /\ NewEntry # None
<1>1. NewEntry \in Entry
  BY StatusItemAssumption DEF StatusItemAssumption, NewEntry, Entry
<1>. QED BY <1>1, StatusItemAssumption DEF StatusItemAssumption

Wrote(i, m, e) == [i EXCEPT !.modems[m] = e]

(* Writing one entry leaves the rest of the item alone. *)
LEMMA EntryWritten ==
  ASSUME NEW i \in Item, NEW m \in Modem, NEW e \in Entry \cup {None}, NEW j,
         j = Wrote(i, m, e)
  PROVE  /\ j \in Item /\ j.modems[m] = e
         /\ \A o \in Modem \ {m} : j.modems[o] = i.modems[o]
         /\ j.drawn = i.drawn /\ j.display = i.display /\ j.offline = i.offline
         /\ j.display_was_off = i.display_was_off
         /\ j.modems_changed = i.modems_changed
BY DEF Item, Wrote

LEMMA EntryOfItem ==
  ASSUME NEW i \in Item, NEW m \in Modem
  PROVE  /\ HasEntry(i, m) => i.modems[m] \in Entry
         /\ GotEntry(i, m) \in Entry /\ GotEntry(i, m) # None
<1>1. i.modems[m] \in Entry \cup {None}
  BY DEF Item
<1>. QED BY <1>1, NewEntryType, StatusItemAssumption
     DEF StatusItemAssumption, HasEntry, GotEntry

(* Looking icons up changes no more than the icons of the modems asked for. *)
LEMMA IconsLookedUp ==
  ASSUME NEW i \in Item, NEW ms \in SUBSET Modem, NEW new, new = WithIcons(i, ms)
  PROVE  /\ new \in Item
         /\ SameEntries(new, i, Modem)
         /\ \A m \in Modem \ ms : new.modems[m] = i.modems[m]
         /\ IconsRight(new, ms)
         /\ new.drawn = i.drawn /\ new.display = i.display /\ new.offline = i.offline
         /\ new.display_was_off = i.display_was_off
         /\ new.modems_changed = i.modems_changed
<1> DEFINE icon(m) == IconOf(i.modems[m].reg, i.modems[m].fast, i.offline)
           kept(m) == IF m \in ms /\ HasEntry(i, m)
                      THEN [i.modems[m] EXCEPT !.icon = icon(m)] ELSE i.modems[m]
<1>1. new = [i EXCEPT !.modems = [m \in Modem |-> kept(m)]]
  BY DEF WithIcons
<1>2. ASSUME NEW m \in Modem, m \in ms, HasEntry(i, m)
      PROVE  /\ kept(m) \in Entry /\ kept(m).icon = icon(m)
             /\ kept(m).reg = i.modems[m].reg /\ kept(m).fast = i.modems[m].fast
  <2>1. i.modems[m] \in Entry
    BY <1>2, EntryOfItem
  <2>2. icon(m) \in Icon
    BY <2>1, IconType DEF Entry, Item
  <2>3. kept(m) = [i.modems[m] EXCEPT !.icon = icon(m)]
    BY <1>2
  <2> HIDE DEF icon, kept
  <2>. QED BY <2>1, <2>2, <2>3 DEF Entry
<1>3. \A m \in Modem : ~(m \in ms /\ HasEntry(i, m)) => kept(m) = i.modems[m]
  OBVIOUS
<1> HIDE DEF kept, icon
<1>4. \A m \in Modem : i.modems[m] \in Entry \cup {None}
  BY DEF Item
<1>5. [m \in Modem |-> kept(m)] \in [Modem -> Entry \cup {None}]
  BY <1>2, <1>3, <1>4
<1>6. /\ new \in Item /\ new.modems = [m \in Modem |-> kept(m)]
      /\ new.drawn = i.drawn /\ new.display = i.display /\ new.offline = i.offline
      /\ new.display_was_off = i.display_was_off
      /\ new.modems_changed = i.modems_changed
  BY <1>1, <1>5 DEF Item
<1>7. \A m \in Modem : new.modems[m] = kept(m)
  BY <1>6
<1>8. \A m \in Modem : HasEntry(new, m) <=> HasEntry(i, m)
  BY <1>2, <1>3, <1>7, StatusItemAssumption DEF StatusItemAssumption, HasEntry
<1>9. SameEntries(new, i, Modem)
  BY <1>2, <1>3, <1>7, <1>8 DEF SameEntries, SameEntry
<1>10. IconsRight(new, ms)
  BY <1>2, <1>6, <1>7, <1>8 DEF IconsRight, icon
<1>. QED BY <1>3, <1>6, <1>7, <1>9, <1>10

LEMMA DrawnMatches ==
  ASSUME NEW i \in Item, NEW there, NEW new, new = Drawn(i, there)
  PROVE  /\ new \in Item /\ new.modems = i.modems
         /\ \A ret : Matches(new, there, ret)
         /\ new.display = i.display /\ new.offline = i.offline
         /\ new.display_was_off = i.display_was_off
         /\ new.modems_changed = i.modems_changed
<1> DEFINE d(m) == IF m \in there /\ HasEntry(i, m) THEN i.modems[m].icon ELSE None
<1>1. \A m \in Modem : d(m) \in Icon \cup {None}
  BY EntryOfItem DEF Entry
<1>2. new = [i EXCEPT !.drawn = [m \in Modem |-> d(m)]]
  BY DEF Drawn
<1>3. \A m \in Modem : /\ m \in there /\ HasEntry(i, m) => d(m) = i.modems[m].icon
                       /\ ~(m \in there /\ HasEntry(i, m)) => d(m) = None
  OBVIOUS
<1> HIDE DEF d
<1>4. /\ new \in Item /\ new.modems = i.modems
      /\ new.drawn = [m \in Modem |-> d(m)]
      /\ new.display = i.display /\ new.offline = i.offline
      /\ new.display_was_off = i.display_was_off
      /\ new.modems_changed = i.modems_changed
  BY <1>1, <1>2 DEF Item
<1>5. \A ret : Matches(new, there, ret)
  BY <1>3, <1>4 DEF Matches, HasEntry
<1>. QED BY <1>4, <1>5

(* An update with the display off only notes it; with any other the icons  *)
(* are those of the entries, and either all is drawn or nothing changed.   *)
LEMMA Updated ==
  ASSUME NEW i \in Item, NEW ms \in SUBSET Modem, NEW changed \in BOOLEAN, NEW there,
         NEW j, j = Update(i, ms, changed, there)
  PROVE  /\ j \in Item /\ SameEntries(j, i, Modem)
         /\ j.display = i.display /\ j.offline = i.offline
         /\ j.modems_changed = i.modems_changed
         /\ i.display = "off" =>
              j.modems = i.modems /\ j.drawn = i.drawn /\ j.display_was_off
         /\ i.display # "off" =>
              /\ j.display_was_off = i.display_was_off
              /\ IconsRight(j, ms)
              /\ \A m \in Modem \ ms : j.modems[m] = i.modems[m]
              /\ (\A ret : Matches(j, there, ret)) \/ (~changed /\ j = i)
<1> DEFINE new == WithIcons(i, ms)
<1>1. /\ new \in Item /\ SameEntries(new, i, Modem)
      /\ \A m \in Modem \ ms : new.modems[m] = i.modems[m]
      /\ IconsRight(new, ms)
      /\ new.display = i.display /\ new.offline = i.offline
      /\ new.display_was_off = i.display_was_off
      /\ new.modems_changed = i.modems_changed
  BY IconsLookedUp
<1>2. CASE i.display = "off"
  <2>1. j = [i EXCEPT !.display_was_off = TRUE]
    BY <1>2 DEF Update
  <2>2. /\ j \in Item /\ j.modems = i.modems /\ j.drawn = i.drawn /\ j.display_was_off
        /\ j.display = i.display /\ j.offline = i.offline
        /\ j.modems_changed = i.modems_changed
    BY <2>1 DEF Item
  <2>. QED BY <1>2, <2>2 DEF SameEntries, SameEntry, HasEntry
<1>3. CASE i.display # "off"
  <2>1. j = IF changed \/ new # i THEN Drawn(new, there) ELSE new
    BY <1>3 DEF Update
  <2> HIDE DEF new
  <2>2. CASE changed \/ new # i
    <3>1. /\ j \in Item /\ j.modems = new.modems
          /\ \A ret : Matches(j, there, ret)
          /\ j.display = new.display /\ j.offline = new.offline
          /\ j.display_was_off = new.display_was_off
          /\ j.modems_changed = new.modems_changed
      BY <1>1, <2>1, <2>2, DrawnMatches
    <3>2. SameEntries(j, i, Modem)
      BY <1>1, <3>1 DEF SameEntries, SameEntry, HasEntry
    <3>3. IconsRight(j, ms)
      BY <1>1, <3>1 DEF IconsRight, HasEntry
    <3>. QED BY <1>1, <1>3, <3>1, <3>2, <3>3
  <2>3. CASE ~changed /\ new = i
    <3>1. j = new
      BY <2>1, <2>3
    <3>. QED BY <1>1, <1>3, <2>3, <3>1
  <2>. QED BY <2>2, <2>3
<1>. QED BY <1>2, <1>3

(* All icons are looked up: what was missed while the display was off is   *)
(* made good.                                                              *)
LEMMA AllUpdated ==
  ASSUME NEW i \in Item, NEW there, NEW ret, NEW j, j = UpdateAll(i, there),
         Matches(i, there, ret) \/ i.modems_changed
  PROVE  /\ SameEntries(j, i, Modem) /\ ItemInv(j, there, ret)
         /\ j.display = i.display /\ j.offline = i.offline
         /\ i.display # "off" => Matches(j, there, ret) /\ IconsRight(j, Modem)
<1>1. j = Update(i, Modem, i.modems_changed, there) /\ i.modems_changed \in BOOLEAN
  BY DEF UpdateAll, Item
<1>2. /\ j \in Item /\ SameEntries(j, i, Modem)
      /\ j.display = i.display /\ j.offline = i.offline
      /\ j.modems_changed = i.modems_changed
      /\ i.display = "off" =>
           j.modems = i.modems /\ j.drawn = i.drawn /\ j.display_was_off
      /\ i.display # "off" =>
           /\ IconsRight(j, Modem)
           /\ (\A r : Matches(j, there, r)) \/ (~i.modems_changed /\ j = i)
  BY <1>1, Updated
<1>3. CASE i.display = "off"
  <2>1. Matches(j, there, ret) \/ j.modems_changed
    BY <1>2, <1>3 DEF Matches, HasEntry
  <2>. QED BY <1>2, <1>3, <2>1 DEF ItemInv
<1>4. CASE i.display # "off"
  <2>1. Matches(j, there, ret)
    BY <1>2, <1>4
  <2>. QED BY <1>2, <1>4, <2>1 DEF ItemInv
<1>. QED BY <1>3, <1>4

(* One icon is looked up: those of the others are right, or will be.       *)
LEMMA OneUpdated ==
  ASSUME NEW i \in Item, NEW m \in Modem, NEW there, NEW ret,
         NEW j, j = UpdateOne(i, m, there),
         Matches(i, there, ret) \/ (i.display_was_off /\ i.modems_changed),
         i.display_was_off \/ IconsRight(i, Modem \ {m})
  PROVE  SameEntries(j, i, Modem) /\ ItemInv(j, there, ret)
<1> DEFINE no == FALSE
<1>1. j = Update(i, {m}, no, there) /\ no \in BOOLEAN /\ ~no
  BY DEF UpdateOne
<1> HIDE DEF no
<1>2. /\ j \in Item /\ SameEntries(j, i, Modem) /\ j.offline = i.offline
      /\ j.modems_changed = i.modems_changed
      /\ i.display = "off" =>
           j.modems = i.modems /\ j.drawn = i.drawn /\ j.display_was_off
      /\ i.display # "off" =>
           /\ j.display_was_off = i.display_was_off
           /\ IconsRight(j, {m})
           /\ \A o \in Modem \ {m} : j.modems[o] = i.modems[o]
           /\ (\A r : Matches(j, there, r)) \/ j = i
  BY <1>1, Updated
<1>3. CASE i.display = "off"
  <2>1. Matches(i, there, ret) => Matches(j, there, ret)
    BY <1>2, <1>3 DEF Matches, HasEntry
  <2>. QED BY <1>2, <1>3, <2>1 DEF ItemInv
<1>4. CASE i.display # "off"
  <2>1. Matches(j, there, ret) \/ (j.display_was_off /\ j.modems_changed)
    BY <1>2, <1>4
  <2>2. j.display_was_off \/ IconsRight(j, Modem)
    BY <1>2, <1>4 DEF IconsRight, HasEntry
  <2>. QED BY <1>2, <2>1, <2>2 DEF ItemInv
<1>. QED BY <1>3, <1>4
-----------------------------------------------------------------------------
(* The entry of m is e now, but for its icon, and the others are the same. *)
HasBecome(j, i, m, e) ==
  /\ SameEntries(j, i, Modem \ {m})
  /\ HasEntry(j, m) /\ j.modems[m].reg = e.reg /\ j.modems[m].fast = e.fast

(* An entry is written, with the icon that it had, and its icon looked up. *)
LEMMA EntryTold ==
  ASSUME NEW i, NEW m \in Modem, NEW there, NEW ret, ItemInv(i, there, ret),
         NEW e \in Entry, e.icon = GotEntry(i, m).icon,
         NEW j, j = UpdateOne(Wrote(i, m, e), m, there)
  PROVE  ItemInv(j, there, ret) /\ HasBecome(j, i, m, e)
<1> DEFINE k == Wrote(i, m, e)
<1>1. e # None
  BY StatusItemAssumption DEF StatusItemAssumption
<1>2. /\ k \in Item /\ k.modems[m] = e
      /\ \A o \in Modem \ {m} : k.modems[o] = i.modems[o]
      /\ k.drawn = i.drawn /\ k.offline = i.offline
      /\ k.display_was_off = i.display_was_off
      /\ k.modems_changed = i.modems_changed
  BY EntryWritten DEF ItemInv
<1>3. j = UpdateOne(k, m, there)
  OBVIOUS
<1> HIDE DEF k
<1>4. Matches(i, there, ret) => Matches(k, there, ret)
  <2>1. SUFFICES ASSUME Matches(i, there, ret), NEW o \in Modem
                 PROVE  IF o \in there /\ HasEntry(k, o)
                        THEN k.drawn[o] = k.modems[o].icon \/ (o \in ret /\ k.drawn[o] = None)
                        ELSE k.drawn[o] = None
    BY DEF Matches
  <2>2. CASE o # m
    BY <1>2, <2>1, <2>2 DEF Matches, HasEntry
  <2>3. CASE o = m /\ HasEntry(i, m)
    <3>1. e.icon = i.modems[m].icon
      BY <2>3 DEF GotEntry
    <3>. QED BY <1>1, <1>2, <2>1, <2>3, <3>1 DEF Matches, HasEntry
  <2>4. CASE o = m /\ ~HasEntry(i, m)
    <3>1. e.icon = None
      BY <2>4 DEF GotEntry, NewEntry
    <3>2. k.drawn[m] = None
      BY <1>2, <2>1, <2>4 DEF Matches
    <3>. QED BY <1>1, <1>2, <2>4, <3>1, <3>2 DEF HasEntry
  <2>. QED BY <2>2, <2>3, <2>4
<1>5. IconsRight(i, Modem) => IconsRight(k, Modem \ {m})
  BY <1>2 DEF IconsRight, HasEntry
<1>6. SameEntries(j, k, Modem) /\ ItemInv(j, there, ret)
  BY <1>2, <1>3, <1>4, <1>5, OneUpdated DEF ItemInv
<1>7. SameEntries(j, i, Modem \ {m})
  BY <1>2, <1>6 DEF SameEntries, SameEntry, HasEntry
<1>. QED BY <1>1, <1>2, <1>6, <1>7 DEF HasBecome, SameEntries, SameEntry, HasEntry

(* The entry of m has the registration r now, and the bearer that it had.  *)
HasRegistration(j, i, m, r) ==
  HasEntry(j, m) /\ j.modems[m].reg = r /\ j.modems[m].fast = GotEntry(i, m).fast

LEMMA NetHeard ==
  ASSUME NEW i, NEW m \in Modem, NEW there, NEW ret, ItemInv(i, there, ret),
         NEW r \in Registration
  PROVE  LET j == NetTold(i, m, r, there) IN
         /\ ItemInv(j, there, ret) /\ SameEntries(j, i, Modem \ {m})
         /\ HasRegistration(j, i, m, r)
<1> DEFINE j == NetTold(i, m, r, there)
<1> DEFINE e == [GotEntry(i, m) EXCEPT !.reg = r]
<1>1. GotEntry(i, m) \in Entry
  BY EntryOfItem DEF ItemInv
<1>2. e \in Entry /\ e.reg = r /\ e.fast = GotEntry(i, m).fast /\ e.icon = GotEntry(i, m).icon
  BY <1>1 DEF Entry
<1>3. j = UpdateOne(Wrote(i, m, e), m, there)
  BY DEF NetTold, Wrote
<1> HIDE DEF e, j
<1>. QED BY <1>2, <1>3, EntryTold DEF HasBecome, HasRegistration, j

(* The entry of m has the bearer f now, and the registration that it had.  *)
HasBearer(j, i, m, f) ==
  HasEntry(j, m) /\ j.modems[m].reg = GotEntry(i, m).reg /\ j.modems[m].fast = f

LEMMA ConnHeard ==
  ASSUME NEW i, NEW m \in Modem, NEW there, NEW ret, ItemInv(i, there, ret),
         NEW f, f \in BOOLEAN, NEW j, j = ConnTold(i, m, f, there)
  PROVE  /\ ItemInv(j, there, ret) /\ SameEntries(j, i, Modem \ {m})
         /\ HasBearer(j, i, m, f)
<1> DEFINE e == [GotEntry(i, m) EXCEPT !.fast = f]
<1>1. GotEntry(i, m) \in Entry
  BY EntryOfItem DEF ItemInv
<1>2. e \in Entry /\ e.icon = GotEntry(i, m).icon
  BY <1>1 DEF Entry
<1>4. e.reg = GotEntry(i, m).reg /\ e.fast = f
  BY <1>1 DEF Entry
<1>3. j = UpdateOne(Wrote(i, m, e), m, there)
  BY DEF ConnTold, Wrote
<1> HIDE DEF e
<1>5. ItemInv(j, there, ret) /\ HasBecome(j, i, m, e)
  BY <1>2, <1>3, EntryTold
<1>. QED BY <1>4, <1>5 DEF HasBecome, HasBearer

LEMMA StatusHeard ==
  ASSUME NEW i, NEW m \in Modem, NEW there, NEW ret, ItemInv(i, there, ret),
         NEW j, j = StatusTold(i, m, there)
  PROVE  /\ ItemInv(j, there, ret) /\ SameEntries(j, i, Modem \ {m}) /\ HasEntry(j, m)
         /\ j.modems[m].reg = GotEntry(i, m).reg /\ j.modems[m].fast = GotEntry(i, m).fast
<1>1. CASE HasEntry(i, m)
  BY <1>1 DEF StatusTold, GotEntry, SameEntries, SameEntry
<1>2. CASE ~HasEntry(i, m)
  <2> DEFINE k == Wrote(i, m, NewEntry)
  <2>1. /\ k \in Item /\ k.modems[m] = NewEntry
        /\ \A o \in Modem \ {m} : k.modems[o] = i.modems[o]
        /\ k.drawn = i.drawn /\ k.modems_changed = i.modems_changed
    BY EntryWritten, NewEntryType DEF ItemInv
  <2>2. j = UpdateAll(k, there)
    BY <1>2 DEF StatusTold, Wrote
  <2> HIDE DEF k
  <2>3. Matches(i, there, ret) => Matches(k, there, ret)
    <3>1. NewEntry.icon = None
      BY DEF NewEntry
    <3>. QED BY <1>2, <2>1, <3>1 DEF Matches, HasEntry
  <2>4. SameEntries(j, k, Modem) /\ ItemInv(j, there, ret)
    BY <2>1, <2>2, <2>3, AllUpdated DEF ItemInv
  <2>5. SameEntries(j, i, Modem \ {m})
    BY <2>1, <2>4 DEF SameEntries, SameEntry, HasEntry
  <2>. QED BY <1>2, <2>1, <2>4, <2>5, NewEntryType DEF SameEntries, SameEntry, HasEntry, GotEntry
<1>. QED BY <1>1, <1>2

(* A modem was removed, and may no longer be in the table: its entry goes. *)
LEMMA RemovalHeard ==
  ASSUME NEW i, NEW m \in Modem, NEW before, NEW there, NEW ret,
         ItemInv(i, before, ret), before \ {m} = there \ {m},
         NEW j, j = RemovedTold(i, m, there)
  PROVE  /\ ItemInv(j, there, ret \ {m}) /\ SameEntries(j, i, Modem \ {m})
         /\ ~HasEntry(j, m)
<1>1. CASE ~HasEntry(i, m)
  <2>1. j = i
    BY <1>1 DEF RemovedTold
  <2>2. Matches(i, before, ret) => Matches(i, there, ret \ {m})
    BY <1>1 DEF Matches
  <2>. QED BY <1>1, <2>1, <2>2 DEF ItemInv, SameEntries, SameEntry
<1>2. CASE HasEntry(i, m)
  <2> DEFINE g == Wrote(i, m, None)
             k == [g EXCEPT !.modems_changed = TRUE]
  <2>1. g \in Item /\ g.modems[m] = None /\ \A o \in Modem \ {m} : g.modems[o] = i.modems[o]
    BY EntryWritten DEF ItemInv
  <2>3. j = UpdateAll(k, there)
    BY <1>2 DEF RemovedTold, Wrote
  <2> HIDE DEF g
  <2>2. k = [g EXCEPT !.modems_changed = TRUE]
    OBVIOUS
  <2> HIDE DEF k
  <2>4. k \in Item /\ k.modems = g.modems /\ k.modems_changed
    BY <2>1, <2>2 DEF Item
  <2>5. SameEntries(j, k, Modem) /\ ItemInv(j, there, ret \ {m})
    BY <2>3, <2>4, AllUpdated
  <2>. QED BY <2>1, <2>4, <2>5 DEF SameEntries, SameEntry, HasEntry
<1>. QED BY <1>1, <1>2

(* What the destructors of a modem tell leaves at most an entry without a  *)
(* registration.                                                           *)
LEMMA EndHeard ==
  ASSUME TypeOK, NEW m \in Modem, NEW there, listed \ {m} = there \ {m},
         ItemInv(item, listed, returned), NEW j, j = EndTold(item, m, there)
  PROVE  /\ ItemInv(j, there, returned \ {m}) /\ SameEntries(j, item, Modem \ {m})
         /\ HasEntry(j, m) => j.modems[m].reg = "unknown"
<1> DEFINE gone == RemovedTold(item, m, there)
<1>1. /\ ItemInv(gone, there, returned \ {m}) /\ SameEntries(gone, item, Modem \ {m})
      /\ ~HasEntry(gone, m)
  BY RemovalHeard
<1>2. j = IF net[m] # None THEN NetTold(gone, m, "unknown", there) ELSE gone
  BY DEF EndTold
<1> HIDE DEF gone
<1>3. CASE net[m] = None
  BY <1>1, <1>2, <1>3
<1>4. CASE net[m] # None
  <2> DEFINE unknown == "unknown"
             rest == returned \ {m}
  <2>1. unknown \in Registration /\ j = NetTold(gone, m, unknown, there)
    BY <1>2, <1>4, StatusItemAssumption DEF StatusItemAssumption
  <2>2. ItemInv(gone, there, rest)
    BY <1>1
  <2> HIDE DEF unknown, rest
  <2>3. /\ ItemInv(j, there, rest) /\ SameEntries(j, gone, Modem \ {m})
        /\ HasRegistration(j, gone, m, unknown)
    BY <2>1, <2>2, NetHeard
  <2>. QED BY <1>1, <2>3 DEF SameEntries, SameEntry, HasRegistration, unknown, rest
<1>. QED BY <1>3, <1>4
-----------------------------------------------------------------------------
(* What the library makes known of a modem that is added: its own sources  *)
(* for all that it has, and no source fewer for the others.                *)
LibraryTypeOK ==
  /\ net \in [Modem -> Registration \cup {None}]
  /\ fast \in [Modem -> BOOLEAN \cup {None}]
  /\ idle \subseteq listed \X {"modem", "net", "conn"}
  /\ \A s \in idle : /\ s[2] = "net" => net[s[1]] # None
                     /\ s[2] = "conn" => fast[s[1]] # None

Known(m) ==
  /\ LibraryTypeOK'
  /\ \A o \in Modem \ {m} : net'[o] = net[o] /\ fast'[o] = fast[o]
  /\ \A o \in Modem \ {m}, k \in {"modem", "net", "conn"} :
       <<o, k>> \in idle => <<o, k>> \in idle'
  /\ <<m, "modem">> \in idle'
  /\ net'[m] # None => <<m, "net">> \in idle'
  /\ fast'[m] # None => <<m, "conn">> \in idle'
  /\ OnlyListed'

LEMMA AddedKnown ==
  ASSUME TypeOK, OnlyListed, NEW m \in Modem, Added(m), listed' = listed \cup {m}
  PROVE  Known(m)
<1>1. /\ net' \in [Modem -> Registration \cup {None}]
      /\ fast' \in [Modem -> BOOLEAN \cup {None}]
      /\ \A o \in Modem \ {m} : net'[o] = net[o] /\ fast'[o] = fast[o]
  BY DEF Added, TypeOK
<1>2. OnlyListed'
  BY <1>1 DEF OnlyListed
<1>3. \A s : s \in idle' <=>
        \/ s \in idle /\ s \notin {m} \X {"modem", "net", "conn"}
        \/ s = <<m, "modem">>
        \/ net'[m] # None /\ \E o \in Modem : net'[o] # None /\ s = <<o, "net">>
        \/ fast'[m] # None /\ \E o \in Modem : fast'[o] # None /\ s = <<o, "conn">>
  BY DEF Added, Announced
<1>4. ASSUME NEW s \in idle'
      PROVE  /\ s \in listed' \X {"modem", "net", "conn"}
             /\ s[2] = "net" => net'[s[1]] # None
             /\ s[2] = "conn" => fast'[s[1]] # None
  <2>1. CASE s \in idle /\ s \notin {m} \X {"modem", "net", "conn"}
    BY <1>1, <2>1 DEF TypeOK
  <2>2. CASE s = <<m, "modem">>
    BY <2>2
  <2>3. CASE \E o \in Modem : net'[o] # None /\ s = <<o, "net">>
    BY <1>2, <2>3 DEF OnlyListed
  <2>4. CASE \E o \in Modem : fast'[o] # None /\ s = <<o, "conn">>
    BY <1>2, <2>4 DEF OnlyListed
  <2>. QED BY <1>3, <2>1, <2>2, <2>3, <2>4
<1>5. /\ \A o \in Modem \ {m}, k \in {"modem", "net", "conn"} :
           <<o, k>> \in idle => <<o, k>> \in idle'
      /\ <<m, "modem">> \in idle'
      /\ net'[m] # None => <<m, "net">> \in idle'
      /\ fast'[m] # None => <<m, "conn">> \in idle'
  BY <1>3
<1>6. LibraryTypeOK'
  BY <1>1, <1>4 DEF LibraryTypeOK
<1>. QED BY <1>1, <1>2, <1>5, <1>6 DEF Known

(* A modem that is added is not drawn yet; one for which there is still an *)
(* entry may stay so.                                                      *)
LEMMA ModemAddedInv == ASSUME IInv, NEW m \in Modem, ModemAdded(m) PROVE IInv'
<1>1. /\ m \notin listed /\ listed' = listed \cup {m} /\ Added(m) /\ item' = item
      /\ returned' = IF HasEntry(item, m) THEN returned \cup {m} ELSE returned
  BY DEF ModemAdded
<1>2. TypeOK'
  <2>1. Known(m)
    BY <1>1, AddedKnown DEF IInv
  <2>2. LibraryTypeOK'
    BY <2>1 DEF Known
  <2>3. item' \in Item /\ listed' \subseteq Modem /\ returned' \subseteq listed'
    BY <1>1 DEF IInv, TypeOK
  <2>. QED BY <2>2, <2>3 DEF TypeOK, LibraryTypeOK
<1>3. Matches(item, listed, returned) => Matches(item, listed', returned')
  BY <1>1 DEF Matches
<1>4. ItemInv(item', listed', returned')
  BY <1>1, <1>3 DEF IInv, ItemInv
<1>5. EntriesTold'
  <2>1. SUFFICES ASSUME NEW o \in Modem
        PROVE  /\ net'[o] = None /\ HasEntry(item, o) => item.modems[o].reg = "unknown"
               /\ net'[o] # None /\ <<o, "net">> \notin idle' =>
                    HasEntry(item, o) /\ item.modems[o].reg = net'[o]
               /\ fast'[o] # None /\ <<o, "conn">> \notin idle' =>
                    HasEntry(item, o) /\ item.modems[o].fast = fast'[o]
               /\ o \in listed' /\ <<o, "modem">> \notin idle' => HasEntry(item, o)
    BY <1>1 DEF EntriesTold
  <2>2. CASE o = m
    BY <1>1, <2>2, AddedKnown DEF IInv, Known, EntriesTold, OnlyListed
  <2>3. CASE o # m
    BY <1>1, <2>3, AddedKnown DEF IInv, Known, EntriesTold
  <2>. QED BY <2>2, <2>3
<1>. QED BY <1>1, <1>2, <1>4, <1>5, AddedKnown DEF IInv, Known

LEMMA ModemRemovedInv == ASSUME IInv, NEW m \in Modem, ModemRemoved(m) PROVE IInv'
<1>1. /\ m \in listed /\ listed' = listed \ {m} /\ returned' = returned \ {m}
      /\ net' = [net EXCEPT ![m] = None] /\ fast' = [fast EXCEPT ![m] = None]
      /\ idle' = idle \ ({m} \X {"modem", "net", "conn"})
      /\ item' = EndTold(item, m, listed')
  BY DEF ModemRemoved
<1>2. /\ ItemInv(item', listed', returned') /\ SameEntries(item', item, Modem \ {m})
      /\ HasEntry(item', m) => item'.modems[m].reg = "unknown"
  BY <1>1, EndHeard DEF IInv
<1>3. TypeOK'
  <2>1. /\ net' \in [Modem -> Registration \cup {None}]
        /\ fast' \in [Modem -> BOOLEAN \cup {None}]
        /\ listed' \subseteq Modem /\ returned' \subseteq listed'
    BY <1>1 DEF IInv, TypeOK
  <2>2. ASSUME NEW s \in idle'
        PROVE  /\ s \in listed' \X {"modem", "net", "conn"}
               /\ s[2] = "net" => net'[s[1]] # None
               /\ s[2] = "conn" => fast'[s[1]] # None
    BY <1>1, <2>2 DEF IInv, TypeOK
  <2>. QED BY <1>2, <2>1, <2>2 DEF TypeOK, ItemInv
<1>4. OnlyListed'
  BY <1>1 DEF IInv, TypeOK, OnlyListed
<1>5. EntriesTold'
  <2>1. SUFFICES ASSUME NEW o \in Modem
        PROVE  /\ net'[o] = None /\ HasEntry(item', o) => item'.modems[o].reg = "unknown"
               /\ net'[o] # None /\ <<o, "net">> \notin idle' =>
                    HasEntry(item', o) /\ item'.modems[o].reg = net'[o]
               /\ fast'[o] # None /\ <<o, "conn">> \notin idle' =>
                    HasEntry(item', o) /\ item'.modems[o].fast = fast'[o]
               /\ o \in listed' /\ <<o, "modem">> \notin idle' => HasEntry(item', o)
    BY DEF EntriesTold
  <2>2. CASE o = m
    BY <1>1, <1>2, <2>2 DEF IInv, TypeOK
  <2>3. CASE o # m
    BY <1>1, <1>2, <2>3 DEF IInv, TypeOK, EntriesTold, SameEntries, SameEntry
  <2>. QED BY <2>2, <2>3
<1>. QED BY <1>2, <1>3, <1>4, <1>5 DEF IInv

LEMMA ModemReplacedInv == ASSUME IInv, NEW m \in Modem, ModemReplaced(m) PROVE IInv'
<1>1. /\ m \in listed /\ listed' = listed \cup {m} /\ listed' = listed
      /\ returned' = returned \ {m} /\ Added(m) /\ item' = EndTold(item, m, listed)
  BY DEF ModemReplaced
<1>2. /\ ItemInv(item', listed', returned') /\ SameEntries(item', item, Modem \ {m})
      /\ HasEntry(item', m) => item'.modems[m].reg = "unknown"
  BY <1>1, EndHeard DEF IInv
<1>3. TypeOK'
  <2>1. Known(m)
    BY <1>1, AddedKnown DEF IInv
  <2>2. LibraryTypeOK'
    BY <2>1 DEF Known
  <2>3. item' \in Item /\ listed' \subseteq Modem /\ returned' \subseteq listed'
    BY <1>1, <1>2 DEF IInv, TypeOK, ItemInv
  <2>. QED BY <2>2, <2>3 DEF TypeOK, LibraryTypeOK
<1>4. EntriesTold'
  <2>1. SUFFICES ASSUME NEW o \in Modem
        PROVE  /\ net'[o] = None /\ HasEntry(item', o) => item'.modems[o].reg = "unknown"
               /\ net'[o] # None /\ <<o, "net">> \notin idle' =>
                    HasEntry(item', o) /\ item'.modems[o].reg = net'[o]
               /\ fast'[o] # None /\ <<o, "conn">> \notin idle' =>
                    HasEntry(item', o) /\ item'.modems[o].fast = fast'[o]
               /\ o \in listed' /\ <<o, "modem">> \notin idle' => HasEntry(item', o)
    BY DEF EntriesTold
  <2>2. CASE o = m
    BY <1>1, <1>2, <2>2, AddedKnown DEF IInv, Known
  <2>3. CASE o # m
    BY <1>1, <1>2, <2>3, AddedKnown DEF IInv, Known, EntriesTold, SameEntries, SameEntry
  <2>. QED BY <2>2, <2>3
<1>. QED BY <1>1, <1>2, <1>3, <1>4, AddedKnown DEF IInv, Known
-----------------------------------------------------------------------------
(* What EntriesTold says of one modem. *)
Told(m) ==
  /\ net[m] = None /\ HasEntry(item, m) => item.modems[m].reg = "unknown"
  /\ net[m] # None /\ <<m, "net">> \notin idle =>
       HasEntry(item, m) /\ item.modems[m].reg = net[m]
  /\ fast[m] # None /\ <<m, "conn">> \notin idle =>
       HasEntry(item, m) /\ item.modems[m].fast = fast[m]
  /\ m \in listed /\ <<m, "modem">> \notin idle => HasEntry(item, m)

(* What changes of a modem without being told at once has a source, unless *)
(* it is the end of its connection manager.                                *)
LEMMA LibraryChanged ==
  ASSUME IInv, UNCHANGED <<listed, item, returned>>, LibraryTypeOK', OnlyListed',
         \A m \in Modem : net'[m] = net[m] \/ (net'[m] # None /\ <<m, "net">> \in idle'),
         \A m \in Modem : \/ fast'[m] = fast[m] \/ fast'[m] = None
                          \/ <<m, "conn">> \in idle',
         \A m \in Modem : \/ \A k \in {"modem", "net", "conn"} :
                               <<m, k>> \in idle => <<m, k>> \in idle'
                          \/ /\ fast'[m] = None
                             /\ \A k \in {"modem", "net"} : <<m, k>> \in idle => <<m, k>> \in idle'
  PROVE  IInv'
<1>1. TypeOK'
  BY DEF IInv, TypeOK, LibraryTypeOK
<1>2. ItemInv(item, listed, returned)'
  BY DEF IInv
<1>3. ASSUME NEW m \in Modem PROVE Told(m)'
  BY DEF IInv, EntriesTold, Told
<1>4. EntriesTold'
  BY <1>3 DEF EntriesTold, Told
<1>. QED BY <1>1, <1>2, <1>4 DEF IInv

(* What is told of a modem leaves the others as they are. *)
LEMMA OneHeard ==
  ASSUME IInv, NEW m \in Modem, UNCHANGED <<listed, returned>>,
         LibraryTypeOK', OnlyListed', Told(m)',
         ItemInv(item', listed, returned), SameEntries(item', item, Modem \ {m}),
         \A o \in Modem \ {m} : net'[o] = net[o] /\ fast'[o] = fast[o],
         \A o \in Modem \ {m}, k \in {"modem", "net", "conn"} :
           <<o, k>> \in idle => <<o, k>> \in idle'
  PROVE  IInv'
<1>1. TypeOK'
  BY DEF IInv, TypeOK, LibraryTypeOK, ItemInv
<1>2. ASSUME NEW o \in Modem PROVE Told(o)'
  BY DEF IInv, EntriesTold, Told, SameEntries, SameEntry
<1>3. EntriesTold'
  BY <1>2 DEF EntriesTold, Told
<1>. QED BY <1>1, <1>3 DEF IInv

LEMMA NetAddedInv == ASSUME IInv, NEW m \in Modem, NetAdded(m) PROVE IInv'
<1>1. /\ m \in listed /\ UNCHANGED <<listed, fast, item, returned>>
      /\ net' \in [Modem -> Registration \cup {None}]
      /\ net'[m] # None /\ \A o \in Modem \ {m} : net'[o] = net[o]
  BY StatusItemAssumption DEF StatusItemAssumption, NetAdded, IInv, TypeOK
<1>2. OnlyListed'
  BY <1>1 DEF IInv, OnlyListed
<1>3. \A s : s \in idle' <=> \/ s \in idle \/ s = <<m, "modem">>
                             \/ \E o \in Modem : net'[o] # None /\ s = <<o, "net">>
  BY DEF NetAdded
<1>4. ASSUME NEW s \in idle'
      PROVE  /\ s \in listed' \X {"modem", "net", "conn"}
             /\ s[2] = "net" => net'[s[1]] # None
             /\ s[2] = "conn" => fast'[s[1]] # None
  <2>1. CASE s \in idle
    BY <1>1, <2>1 DEF IInv, TypeOK
  <2>2. CASE s = <<m, "modem">>
    BY <1>1, <2>2
  <2>3. CASE \E o \in Modem : net'[o] # None /\ s = <<o, "net">>
    BY <1>1, <1>2, <2>3 DEF OnlyListed
  <2>. QED BY <1>3, <2>1, <2>2, <2>3
<1>5. LibraryTypeOK'
  BY <1>1, <1>4 DEF LibraryTypeOK, IInv, TypeOK
<1>. QED BY <1>1, <1>2, <1>3, <1>5, LibraryChanged

LEMMA ConnAddedInv == ASSUME IInv, NEW m \in Modem, ConnAdded(m) PROVE IInv'
<1>1. /\ m \in listed /\ UNCHANGED <<listed, net, item, returned>>
      /\ fast' \in [Modem -> BOOLEAN \cup {None}]
      /\ fast'[m] # None /\ \A o \in Modem \ {m} : fast'[o] = fast[o]
  BY StatusItemAssumption DEF StatusItemAssumption, ConnAdded, IInv, TypeOK
<1>2. OnlyListed'
  BY <1>1 DEF IInv, OnlyListed
<1>3. \A s : s \in idle' <=> \/ s \in idle \/ s = <<m, "modem">>
                             \/ \E o \in Modem : fast'[o] # None /\ s = <<o, "conn">>
  BY DEF ConnAdded
<1>4. ASSUME NEW s \in idle'
      PROVE  /\ s \in listed' \X {"modem", "net", "conn"}
             /\ s[2] = "net" => net'[s[1]] # None
             /\ s[2] = "conn" => fast'[s[1]] # None
  <2>1. CASE s \in idle
    BY <1>1, <2>1 DEF IInv, TypeOK
  <2>2. CASE s = <<m, "modem">>
    BY <1>1, <2>2
  <2>3. CASE \E o \in Modem : fast'[o] # None /\ s = <<o, "conn">>
    BY <1>1, <1>2, <2>3 DEF OnlyListed
  <2>. QED BY <1>3, <2>1, <2>2, <2>3
<1>5. LibraryTypeOK'
  BY <1>1, <1>4 DEF LibraryTypeOK, IInv, TypeOK
<1>. QED BY <1>1, <1>2, <1>3, <1>5, LibraryChanged

LEMMA ConnRemovedInv == ASSUME IInv, NEW m \in Modem, ConnRemoved(m) PROVE IInv'
<1>1. /\ UNCHANGED <<listed, net, item, returned>>
      /\ fast[m] # None /\ fast' = [fast EXCEPT ![m] = None]
      /\ idle' = (idle \ {<<m, "conn">>}) \cup {<<m, "modem">>}
  BY DEF ConnRemoved
<1>2. m \in listed
  BY <1>1 DEF IInv, OnlyListed
<1>3. /\ fast' \in [Modem -> BOOLEAN \cup {None}]
      /\ fast'[m] = None /\ \A o \in Modem \ {m} : fast'[o] = fast[o]
  BY <1>1 DEF IInv, TypeOK
<1>4. OnlyListed'
  BY <1>1, <1>3 DEF IInv, OnlyListed
<1>5. ASSUME NEW s \in idle'
      PROVE  /\ s \in listed' \X {"modem", "net", "conn"}
             /\ s[2] = "net" => net'[s[1]] # None
             /\ s[2] = "conn" => fast'[s[1]] # None
  BY <1>1, <1>2, <1>3, <1>5 DEF IInv, TypeOK
<1>6. LibraryTypeOK'
  BY <1>1, <1>3, <1>5 DEF LibraryTypeOK, IInv, TypeOK
<1>7. \A o \in Modem :
        \/ \A k \in {"modem", "net", "conn"} : <<o, k>> \in idle => <<o, k>> \in idle'
        \/ /\ fast'[o] = None
           /\ \A k \in {"modem", "net"} : <<o, k>> \in idle => <<o, k>> \in idle'
  BY <1>1, <1>3
<1>. QED BY <1>1, <1>3, <1>4, <1>6, <1>7, LibraryChanged

LEMMA RegistrationChangesInv ==
  ASSUME IInv, NEW m \in Modem, RegistrationChanges(m) PROVE IInv'
<1>1. /\ UNCHANGED <<listed, fast, item, returned>> /\ net[m] # None
      /\ net' \in [Modem -> Registration \cup {None}]
      /\ net'[m] # None /\ \A o \in Modem \ {m} : net'[o] = net[o]
      /\ idle' = idle \cup {<<m, "net">>}
  BY StatusItemAssumption DEF StatusItemAssumption, RegistrationChanges, IInv, TypeOK
<1>2. m \in listed
  BY <1>1 DEF IInv, OnlyListed
<1>3. OnlyListed'
  BY <1>1, <1>2 DEF IInv, OnlyListed
<1>4. ASSUME NEW s \in idle'
      PROVE  /\ s \in listed' \X {"modem", "net", "conn"}
             /\ s[2] = "net" => net'[s[1]] # None
             /\ s[2] = "conn" => fast'[s[1]] # None
  BY <1>1, <1>2, <1>4 DEF IInv, TypeOK
<1>5. LibraryTypeOK'
  BY <1>1, <1>4 DEF LibraryTypeOK, IInv, TypeOK
<1>. QED BY <1>1, <1>3, <1>5, LibraryChanged

LEMMA BearerChangesInv ==
  ASSUME IInv, NEW m \in Modem, BearerChanges(m) PROVE IInv'
<1>1. /\ UNCHANGED <<listed, net, item, returned>> /\ fast[m] # None
      /\ fast' = [fast EXCEPT ![m] = ~@] /\ idle' = idle \cup {<<m, "conn">>}
  BY DEF BearerChanges
<1>2. m \in listed
  BY <1>1 DEF IInv, OnlyListed
<1>3. \A b \in BOOLEAN : [fast EXCEPT ![m] = b] \in [Modem -> BOOLEAN \cup {None}]
  BY DEF IInv, TypeOK
<1>4. /\ fast' \in [Modem -> BOOLEAN \cup {None}]
      /\ fast'[m] # None /\ \A o \in Modem \ {m} : fast'[o] = fast[o]
  BY <1>1, <1>3, StatusItemAssumption DEF StatusItemAssumption, IInv, TypeOK
<1>5. OnlyListed'
  BY <1>1, <1>2, <1>4 DEF IInv, OnlyListed
<1>6. ASSUME NEW s \in idle'
      PROVE  /\ s \in listed' \X {"modem", "net", "conn"}
             /\ s[2] = "net" => net'[s[1]] # None
             /\ s[2] = "conn" => fast'[s[1]] # None
  BY <1>1, <1>2, <1>4, <1>6 DEF IInv, TypeOK
<1>7. LibraryTypeOK'
  BY <1>1, <1>4, <1>6 DEF LibraryTypeOK, IInv, TypeOK
<1>. QED BY <1>1, <1>4, <1>5, <1>7, LibraryChanged

LEMMA NetRemovedInv == ASSUME IInv, NEW m \in Modem, NetRemoved(m) PROVE IInv'
<1>1. /\ UNCHANGED <<listed, fast, returned>> /\ net[m] # None
      /\ net' = [net EXCEPT ![m] = None]
      /\ idle' = (idle \ {<<m, "net">>}) \cup {<<m, "modem">>}
      /\ item' = NetTold(item, m, "unknown", listed)
  BY DEF NetRemoved
<1>2. m \in listed
  BY <1>1 DEF IInv, OnlyListed
<1> DEFINE unknown == "unknown"
<1>3. unknown \in Registration /\ item' = NetTold(item, m, unknown, listed)
  BY <1>1, StatusItemAssumption DEF StatusItemAssumption
<1> HIDE DEF unknown
<1>4. /\ ItemInv(item', listed, returned) /\ SameEntries(item', item, Modem \ {m})
      /\ HasRegistration(item', item, m, unknown)
  BY <1>3, NetHeard DEF IInv
<1>5. /\ net' \in [Modem -> Registration \cup {None}]
      /\ net'[m] = None /\ \A o \in Modem \ {m} : net'[o] = net[o]
  BY <1>1 DEF IInv, TypeOK
<1>6. OnlyListed'
  BY <1>1, <1>5 DEF IInv, OnlyListed
<1>7. ASSUME NEW s \in idle'
      PROVE  /\ s \in listed' \X {"modem", "net", "conn"}
             /\ s[2] = "net" => net'[s[1]] # None
             /\ s[2] = "conn" => fast'[s[1]] # None
  BY <1>1, <1>2, <1>5, <1>7 DEF IInv, TypeOK
<1>8. LibraryTypeOK'
  BY <1>1, <1>5, <1>7 DEF LibraryTypeOK, IInv, TypeOK
<1>9. Told(m)'
  BY <1>1, <1>4, <1>5 DEF Told, IInv, EntriesTold, GotEntry, HasRegistration, unknown
<1>10. \A o \in Modem \ {m}, k \in {"modem", "net", "conn"} :
         <<o, k>> \in idle => <<o, k>> \in idle'
  BY <1>1
<1>. QED BY <1>1, <1>4, <1>5, <1>6, <1>8, <1>9, <1>10, OneHeard

LEMMA IdleNotifyInv ==
  ASSUME IInv, NEW m \in Modem, NEW k \in {"modem", "net", "conn"}, IdleNotify(m, k)
  PROVE  IInv'
<1>1. /\ UNCHANGED <<listed, net, fast, returned>> /\ <<m, k>> \in idle
      /\ idle' = idle \ {<<m, k>>}
  BY DEF IdleNotify
<1>2. m \in listed /\ (k = "net" => net[m] # None) /\ (k = "conn" => fast[m] # None)
  BY <1>1 DEF IInv, TypeOK
<1>3. OnlyListed'
  BY <1>1 DEF IInv, OnlyListed
<1>4. LibraryTypeOK'
  BY <1>1 DEF LibraryTypeOK, IInv, TypeOK
<1>5. \A o \in Modem \ {m}, l \in {"modem", "net", "conn"} :
        <<o, l>> \in idle => <<o, l>> \in idle'
  BY <1>1
<1>6. CASE k = "modem"
  <2>1. item' = StatusTold(item, m, listed)
    BY <1>6 DEF IdleNotify
  <2>2. /\ ItemInv(item', listed, returned) /\ SameEntries(item', item, Modem \ {m})
        /\ HasEntry(item', m) /\ item'.modems[m].reg = GotEntry(item, m).reg
        /\ item'.modems[m].fast = GotEntry(item, m).fast
    BY <2>1, StatusHeard DEF IInv
  <2>3. Told(m)'
    BY <1>1, <1>6, <2>2 DEF Told, IInv, EntriesTold, GotEntry, NewEntry
  <2>. QED BY <1>1, <1>3, <1>4, <1>5, <2>2, <2>3, OneHeard
<1>7. CASE k = "net"
  <2>1. item' = NetTold(item, m, net[m], listed)
    BY <1>7 DEF IdleNotify
  <2>2. net[m] \in Registration
    BY <1>2, <1>7 DEF IInv, TypeOK
  <2>3. /\ ItemInv(item', listed, returned) /\ SameEntries(item', item, Modem \ {m})
        /\ HasRegistration(item', item, m, net[m])
    <3>1. ItemInv(item, listed, returned)
      BY DEF IInv
    <3>. QED BY <2>1, <2>2, <3>1, NetHeard
  <2>4. Told(m)'
    BY <1>1, <1>2, <1>7, <2>3 DEF Told, IInv, EntriesTold, GotEntry, HasRegistration
  <2>. QED BY <1>1, <1>3, <1>4, <1>5, <2>3, <2>4, OneHeard
<1>8. CASE k = "conn"
  <2>1. item' = ConnTold(item, m, fast[m], listed)
    BY <1>8 DEF IdleNotify
  <2>2. fast[m] \in BOOLEAN
    BY <1>2, <1>8 DEF IInv, TypeOK
  <2>3. /\ ItemInv(item', listed, returned) /\ SameEntries(item', item, Modem \ {m})
        /\ HasBearer(item', item, m, fast[m])
    BY <2>1, <2>2, ConnHeard DEF IInv
  <2>4. Told(m)'
    BY <1>1, <1>2, <1>8, <2>3 DEF Told, IInv, EntriesTold, GotEntry, NewEntry, HasBearer
  <2>. QED BY <1>1, <1>3, <1>4, <1>5, <2>3, <2>4, OneHeard
<1>. QED BY <1>6, <1>7, <1>8

(* The display and the flight mode change no entry but for its icon. *)
LEMMA DrawnAgain ==
  ASSUME IInv, UNCHANGED <<library, returned>>,
         ItemInv(item', listed, returned), SameEntries(item', item, Modem)
  PROVE  IInv'
<1>1. UNCHANGED <<listed, net, fast, idle>>
  BY DEF library
<1>2. TypeOK' /\ OnlyListed'
  BY <1>1 DEF IInv, TypeOK, OnlyListed, ItemInv
<1>3. ASSUME NEW m \in Modem PROVE Told(m)'
  BY <1>1 DEF IInv, EntriesTold, Told, SameEntries, SameEntry
<1>4. EntriesTold'
  BY <1>3 DEF EntriesTold, Told
<1>. QED BY <1>1, <1>2, <1>4 DEF IInv

(* The display comes on: what it missed is looked up and drawn.            *)
LEMMA DisplayChangesInv ==
  ASSUME IInv, NEW d \in {"on", "dimmed", "off"}, DisplayChanges(d)
  PROVE  IInv'
<1> DEFINE i == [item EXCEPT !.display = d]
           u == UpdateAll(i, listed)
<1>1. /\ UNCHANGED <<library, returned>>
      /\ item' = IF d = "on" /\ i.display_was_off
                 THEN [u EXCEPT !.display_was_off = FALSE] ELSE i
  BY DEF DisplayChanges
<1>2. /\ i \in Item /\ i.modems = item.modems /\ i.drawn = item.drawn /\ i.display = d
      /\ i.offline = item.offline /\ i.display_was_off = item.display_was_off
      /\ i.modems_changed = item.modems_changed
  BY DEF IInv, ItemInv, Item
<1> HIDE DEF i
<1>3. SameEntries(i, item, Modem)
  BY <1>2 DEF SameEntries, SameEntry, HasEntry
<1>4. ItemInv(i, listed, returned)
  BY <1>2 DEF IInv, ItemInv, Matches, IconsRight, HasEntry
<1>5. CASE d = "on" /\ i.display_was_off
  <2>1. Matches(i, listed, returned) \/ i.modems_changed
    BY <1>4 DEF ItemInv
  <2>2. /\ SameEntries(u, i, Modem) /\ u \in Item
        /\ Matches(u, listed, returned) /\ IconsRight(u, Modem)
    BY <1>2, <1>5, <2>1, AllUpdated DEF ItemInv
  <2> HIDE DEF u
  <2>3. item' = [u EXCEPT !.display_was_off = FALSE]
    BY <1>1, <1>5
  <2>4. /\ item' \in Item /\ item'.modems = u.modems /\ item'.drawn = u.drawn
        /\ item'.offline = u.offline
    BY <2>2, <2>3 DEF Item
  <2>5. Matches(item', listed, returned) /\ IconsRight(item', Modem)
    BY <2>2, <2>4 DEF Matches, IconsRight, HasEntry
  <2>6. SameEntries(item', item, Modem)
    BY <1>3, <2>2, <2>4 DEF SameEntries, SameEntry, HasEntry
  <2>. QED BY <1>1, <2>4, <2>5, <2>6, DrawnAgain DEF ItemInv
<1>6. CASE ~(d = "on" /\ i.display_was_off)
  <2>1. item' = i
    BY <1>1, <1>6
  <2>. QED BY <1>1, <1>3, <1>4, <2>1, DrawnAgain
<1>. QED BY <1>5, <1>6

LEMMA FlightModeInv == ASSUME IInv, NEW o \in BOOLEAN, FlightMode(o) PROVE IInv'
<1> DEFINE i == [item EXCEPT !.offline = o]
<1>1. UNCHANGED <<library, returned>> /\ item' = UpdateAll(i, listed)
  BY DEF FlightMode
<1>2. /\ i \in Item /\ i.modems = item.modems /\ i.drawn = item.drawn
      /\ i.display_was_off = item.display_was_off
      /\ i.modems_changed = item.modems_changed
  BY DEF IInv, ItemInv, Item
<1> HIDE DEF i
<1>3. Matches(i, listed, returned) \/ i.modems_changed
  BY <1>2 DEF IInv, ItemInv, Matches, HasEntry
<1>4. SameEntries(item', i, Modem) /\ ItemInv(item', listed, returned)
  BY <1>1, <1>2, <1>3, AllUpdated
<1>5. SameEntries(item', item, Modem)
  BY <1>2, <1>4 DEF SameEntries, SameEntry, HasEntry
<1>. QED BY <1>1, <1>4, <1>5, DrawnAgain

(* The modems there are at first are drawn as unknown, and all that is     *)
(* known of them has a source.                                             *)
LEMMA InitIInv == Init => IInv
<1> SUFFICES ASSUME Init PROVE IInv
  OBVIOUS
<1> DEFINE no == FALSE
           i == [modems |-> [m \in Modem |-> IF m \in listed THEN NewEntry ELSE None],
                 modems_changed |-> no, display |-> "on", display_was_off |-> no,
                 offline |-> no, drawn |-> [m \in Modem |-> None]]
<1>1. /\ listed \subseteq Modem
      /\ net \in [Modem -> Registration \cup {None}]
      /\ fast \in [Modem -> BOOLEAN \cup {None}]
      /\ \A m \in Modem \ listed : net[m] = None
      /\ \A m \in Modem : m \notin listed \cap Gprs => fast[m] = None
      /\ idle = {s \in listed \X {"modem", "net", "conn"} :
                   /\ s[2] = "net" => net[s[1]] # None
                   /\ s[2] = "conn" => fast[s[1]] # None}
      /\ item = UpdateAll(i, listed) /\ returned = {}
  BY DEF Init
<1>2. no \in BOOLEAN
  OBVIOUS
<1> HIDE DEF no
<1>3. /\ i \in Item /\ i.drawn = [m \in Modem |-> None]
      /\ i.modems = [m \in Modem |-> IF m \in listed THEN NewEntry ELSE None]
  BY <1>2, NewEntryType DEF Item
<1> HIDE DEF i
<1>4. \A m \in Modem :
        /\ m \in listed => i.modems[m] = NewEntry /\ HasEntry(i, m)
        /\ m \notin listed => ~HasEntry(i, m)
  BY <1>3, NewEntryType DEF HasEntry
<1>5. NewEntry.icon = None /\ NewEntry.reg = "unknown"
  BY DEF NewEntry
<1>6. Matches(i, listed, returned)
  BY <1>3, <1>4, <1>5 DEF Matches
<1>7. SameEntries(item, i, Modem) /\ ItemInv(item, listed, returned)
  BY <1>1, <1>3, <1>6, AllUpdated
<1>8. OnlyListed
  BY <1>1 DEF OnlyListed
<1>9. LibraryTypeOK
  BY <1>1 DEF LibraryTypeOK
<1>10. TypeOK
  BY <1>1, <1>7, <1>9 DEF TypeOK, LibraryTypeOK, ItemInv
<1>11. ASSUME NEW m \in Modem PROVE Told(m)
  <2>1. /\ m \in listed => <<m, "modem">> \in idle
        /\ m \in listed /\ net[m] # None => <<m, "net">> \in idle
        /\ m \in listed /\ fast[m] # None => <<m, "conn">> \in idle
    BY <1>1
  <2>2. HasEntry(item, m) => m \in listed /\ item.modems[m].reg = "unknown"
    BY <1>4, <1>5, <1>7 DEF SameEntries, SameEntry
  <2>. QED BY <1>8, <2>1, <2>2 DEF Told, OnlyListed
<1>12. EntriesTold
  BY <1>11 DEF EntriesTold, Told
<1>. QED BY <1>7, <1>8, <1>10, <1>12 DEF IInv

LEMMA NextIInv == IInv /\ [Next]_vars => IInv'
<1> SUFFICES ASSUME IInv, [Next]_vars PROVE IInv'
  OBVIOUS
<1>1. CASE UNCHANGED vars
  BY <1>1 DEF vars, library, IInv, TypeOK, OnlyListed, EntriesTold
<1>2. ASSUME NEW m \in Modem, ModemAdded(m) PROVE IInv'
  BY <1>2, ModemAddedInv
<1>3. ASSUME NEW m \in Modem, ModemRemoved(m) PROVE IInv'
  BY <1>3, ModemRemovedInv
<1>4. ASSUME NEW m \in Modem, ModemReplaced(m) PROVE IInv'
  BY <1>4, ModemReplacedInv
<1>5. ASSUME NEW m \in Modem, NetAdded(m) PROVE IInv'
  BY <1>5, NetAddedInv
<1>6. ASSUME NEW m \in Modem, NetRemoved(m) PROVE IInv'
  BY <1>6, NetRemovedInv
<1>7. ASSUME NEW m \in Modem, ConnAdded(m) PROVE IInv'
  BY <1>7, ConnAddedInv
<1>8. ASSUME NEW m \in Modem, ConnRemoved(m) PROVE IInv'
  BY <1>8, ConnRemovedInv
<1>9. ASSUME NEW m \in Modem, RegistrationChanges(m) PROVE IInv'
  BY <1>9, RegistrationChangesInv
<1>10. ASSUME NEW m \in Modem, BearerChanges(m) PROVE IInv'
  BY <1>10, BearerChangesInv
<1>11. ASSUME NEW m \in Modem, NEW k \in {"modem", "net", "conn"}, IdleNotify(m, k)
       PROVE  IInv'
  BY <1>11, IdleNotifyInv
<1>12. ASSUME NEW d \in {"on", "dimmed", "off"}, DisplayChanges(d) PROVE IInv'
  BY <1>12, DisplayChangesInv
<1>13. ASSUME NEW o \in BOOLEAN, FlightMode(o) PROVE IInv'
  BY <1>13, FlightModeInv
<1>. QED BY <1>1, <1>2, <1>3, <1>4, <1>5, <1>6, <1>7, <1>8, <1>9, <1>10, <1>11,
            <1>12, <1>13 DEF Next

LEMMA Invariance == Spec => []IInv
BY InitIInv, NextIInv, PTL DEF Spec
-----------------------------------------------------------------------------
(* The private record of the item keeps its type, and the library has      *)
(* sources only of what exists.                                            *)
THEOREM TypeCorrect == Spec => []TypeOK
<1>1. IInv => TypeOK
  BY DEF IInv
<1>. QED BY Invariance, <1>1, PTL

(* When all is told and the display is on, the status area shows what the  *)
(* library knows, for any number of modems and in whatever order they came *)
(* and went while it was on or off.                                        *)
THEOREM StatusIsCurrent == Spec => []DrawnAsTold
<1>1. ASSUME IInv, Quiet, NEW m \in Modem, m \in listed
      PROVE  /\ HasEntry(item, m)
             /\ item.drawn[m] = Shown(m) \/ (m \in returned /\ item.drawn[m] = None)
  <2>1. /\ Matches(item, listed, returned) /\ IconsRight(item, Modem)
        /\ HasEntry(item, m)
    BY <1>1 DEF IInv, ItemInv, Quiet, EntriesTold
  <2>2. item.modems[m].reg = IF net[m] = None THEN "unknown" ELSE net[m]
    BY <1>1, <2>1 DEF IInv, EntriesTold, Quiet
  <2>3. item.modems[m].fast = IF fast[m] = None THEN item.modems[m].fast ELSE fast[m]
    BY <1>1 DEF IInv, EntriesTold, Quiet
  <2>4. item.modems[m].icon = IconOf(item.modems[m].reg, item.modems[m].fast, item.offline)
    BY <2>1 DEF IconsRight
  <2>5. Shown(m) = item.modems[m].icon
    BY <2>2, <2>3, <2>4 DEF Shown
  <2>. QED BY <1>1, <2>1, <2>5 DEF Matches
<1>2. ASSUME IInv, Quiet, NEW m \in Modem, m \notin listed PROVE item.drawn[m] = None
  BY <1>2 DEF IInv, ItemInv, Quiet, Matches
<1>3. IInv => DrawnAsTold
  BY <1>1, <1>2 DEF DrawnAsTold
<1>. QED BY Invariance, <1>3, PTL
=============================================================================
