-------------------------- MODULE SmallPartsProofs --------------------------
(* The invariants of SmallParts, proved for every bound on counts, limits  *)
(* and notifications, every set of modems and of what is said of their     *)
(* registration, and every set of broadcast messages.                      *)
EXTENDS SmallParts, SequenceTheorems, FiniteSetTheorems, WellFoundedInduction, TLAPS

-----------------------------------------------------------------------------
(* The data counter.  What a queue of notifications leaves of a value of   *)
(* key k of home h that was a: b.                                          *)
Own(c, h, k) == c.home = h /\ c.key = k

Leads(q, h, k, a, b) ==
  \/ /\ \A i \in 1..Len(q) : ~Own(q[i], h, k)
     /\ a = b
  \/ \E i \in 1..Len(q) :
       /\ Own(q[i], h, k)
       /\ q[i].value = b
       /\ \A j \in 1..Len(q) : j > i => ~Own(q[j], h, k)

LEMMA LeadsEmpty ==
  ASSUME NEW h, NEW k, NEW a, NEW b
  PROVE  Leads(<< >>, h, k, a, b) <=> a = b
BY DEF Leads

LEMMA LeadsAppend ==
  ASSUME NEW q \in Seq(Change), NEW c \in Change, NEW h, NEW k, NEW a, NEW b, Leads(q, h, k, a, b)
  PROVE  /\ Own(c, h, k) => Leads(q \o <<c>>, h, k, a, c.value)
         /\ ~Own(c, h, k) => Leads(q \o <<c>>, h, k, a, b)
<1> DEFINE r == q \o <<c>>
<1>1. /\ Len(r) = Len(q) + 1 /\ Len(q) \in Nat
      /\ \A i \in 1..Len(q) : r[i] = q[i]
      /\ r[Len(q) + 1] = c
  OBVIOUS
<1> HIDE DEF r
<1>2. ASSUME Own(c, h, k) PROVE Leads(r, h, k, a, c.value)
  BY <1>1, <1>2 DEF Leads
<1>3. ASSUME ~Own(c, h, k) PROVE Leads(r, h, k, a, b)
  <2>1. CASE a = b /\ \A i \in 1..Len(q) : ~Own(q[i], h, k)
    <3>1. ASSUME NEW i \in 1..Len(r) PROVE ~Own(r[i], h, k)
      <4>1. CASE i = Len(q) + 1
        BY <4>1, <1>1, <1>3
      <4>2. CASE i # Len(q) + 1
        BY <4>2, <1>1, <2>1
      <4>. QED BY <4>1, <4>2
    <3>. QED BY <2>1, <3>1 DEF Leads
  <2>2. CASE ~(a = b /\ \A i \in 1..Len(q) : ~Own(q[i], h, k))
    <3>1. PICK i \in 1..Len(q) :
            /\ Own(q[i], h, k) /\ q[i].value = b
            /\ \A j \in 1..Len(q) : j > i => ~Own(q[j], h, k)
      BY <2>2 DEF Leads
    <3>2. i \in 1..Len(r) /\ r[i] = q[i]
      BY <1>1
    <3>3. ASSUME NEW j \in 1..Len(r), j > i PROVE ~Own(r[j], h, k)
      <4>1. CASE j = Len(q) + 1
        BY <4>1, <1>1, <1>3
      <4>2. CASE j # Len(q) + 1
        BY <4>2, <1>1, <3>1, <3>3
      <4>. QED BY <4>1, <4>2
    <3>. QED BY <3>1, <3>2, <3>3 DEF Leads
  <2>. QED BY <2>1, <2>2
<1>. QED BY <1>2, <1>3 DEF r

LEMMA LeadsTail ==
  ASSUME NEW q \in Seq(Change), q # << >>, NEW h, NEW k, NEW a, NEW b, Leads(q, h, k, a, b)
  PROVE  Leads(Tail(q), h, k, IF Own(Head(q), h, k) THEN Head(q).value ELSE a, b)
<1> DEFINE r == Tail(q)
<1>1. /\ Len(q) = Len(r) + 1 /\ Len(r) \in Nat
      /\ \A i \in 1..Len(r) : r[i] = q[i + 1]
      /\ Head(q) = q[1]
  OBVIOUS
<1>0. SUFFICES Leads(r, h, k, IF Own(Head(q), h, k) THEN Head(q).value ELSE a, b)
  OBVIOUS
<1> HIDE DEF r
<1>2. CASE \A i \in 1..Len(q) : ~Own(q[i], h, k)
  BY <1>1, <1>2 DEF Leads
<1>3. CASE \E i \in 1..Len(q) : Own(q[i], h, k)
  <2>1. PICK i \in 1..Len(q) :
          /\ Own(q[i], h, k) /\ q[i].value = b
          /\ \A j \in 1..Len(q) : j > i => ~Own(q[j], h, k)
    BY <1>3 DEF Leads
  <2>2. CASE i = 1
    <3>1. \A j \in 1..Len(r) : ~Own(r[j], h, k)
      BY <1>1, <2>1, <2>2
    <3>. QED BY <3>1, <2>1, <2>2, <1>1 DEF Leads
  <2>3. CASE i # 1
    <3>0. i - 1 \in 1..Len(r) /\ (i - 1) + 1 = i
      BY <1>1, <2>3
    <3>1. PICK n \in 1..Len(r) : n + 1 = i
      BY <3>0
    <3>2. ASSUME NEW j \in 1..Len(r), j > n PROVE ~Own(r[j], h, k)
      <4>1. j + 1 \in 1..Len(q) /\ j + 1 > i
        BY <1>1, <3>1, <3>2
      <4>. QED BY <4>1, <1>1, <2>1
    <3>3. r[n] = q[i]
      BY <1>1, <3>1
    <3>4. Own(r[n], h, k) /\ r[n].value = b
      BY <2>1, <3>3
    <3>5. \E x \in 1..Len(r) :
            /\ Own(r[x], h, k) /\ r[x].value = b
            /\ \A j \in 1..Len(r) : j > x => ~Own(r[j], h, k)
      BY <3>2, <3>4
    <3>. QED BY <3>5 DEF Leads
  <2>. QED BY <2>2, <2>3
<1>. QED BY <1>2, <1>3

(* What GConf tells of a write brings the value written.                   *)
LEMMA LeadsChanges ==
  ASSUME NEW q \in Seq(Change), NEW h, NEW k, NEW a, Leads(q, h, k, a, conf[h][k]),
         dc.initialized,
         NEW home, NEW key, NEW value, [home |-> home, key |-> key, value |-> value] \in Change
  PROVE  Leads(q \o Changes(home, key, value), h, k, a,
               IF home = h /\ key = k THEN value ELSE conf[h][k])
<1> DEFINE c == [home |-> home, key |-> key, value |-> value]
<1>1. CASE conf[home][key] = value
  <2>1. q \o Changes(home, key, value) = q
    BY <1>1 DEF Changes
  <2>. QED BY <1>1, <2>1
<1>2. CASE conf[home][key] # value
  <2>1. q \o Changes(home, key, value) = q \o <<c>>
    BY <1>2 DEF Changes
  <2>2. c.value = value /\ (Own(c, h, k) <=> home = h /\ key = k)
    BY DEF Own
  <2>3. c \in Change
    OBVIOUS
  <2> HIDE DEF c
  <2>. QED BY <2>1, <2>2, <2>3, LeadsAppend
<1>. QED BY <1>1, <1>2

LEMMA ChangesType ==
  ASSUME NEW q \in Seq(Change), NEW home, NEW key, NEW value,
         [home |-> home, key |-> key, value |-> value] \in Change
  PROVE  q \o Changes(home, key, value) \in Seq(Change)
<1>1. Changes(home, key, value) \in Seq(Change)
  BY DEF Changes
<1>. QED BY <1>1

(* The counter d follows the configuration c: what it follows at all is,   *)
(* after the notifications of q, as it is there.                           *)
Follows(q, d, c) ==
  /\ Leads(q, d.home, "rx", d.rx, c[d.home].rx)
  /\ d.home => /\ Leads(q, d.home, "tx", d.tx, c[d.home].tx)
               /\ Leads(q, d.home, "limit", d.limit, c[d.home].limit)
               /\ Leads(q, d.home, "enabled", d.enabled, c[d.home].enabled)

(* The dialog and the counter live and die together. *)
DialogHasCounter ==
  /\ \A d, e \in counterDialog : d = e
  /\ counterDialog # {} <=> dc.initialized
  /\ \A d \in counterDialog : dc.home = d.home

CounterFollows ==
  IF dc.initialized THEN Follows(queue, dc, conf) ELSE queue = << >>

(* A save is one at a time, with its dialog, and of its side. *)
SaveHasDialog ==
  /\ \A s, t \in saving : s = t
  /\ \A s \in saving : counterDialog # {} /\ s.home = dc.home
  /\ \A h, i \in disabling : h = i

(* What a save or a switching off has written stays until it is done, and  *)
(* nobody else writes what it has not come to, unless they overlap.        *)
WritersApart ==
  ~overlapped =>
    \A h \in Home :
      /\ h \in disabling => ~conf[h].enabled /\ \A s \in saving : s.home # h
      /\ \A s \in saving, d \in counterDialog :
           s.home = h =>
             /\ conf[h].enabled = d.enabled
             /\ s.key = "period" => conf[h].limit = d.limit
      /\ h \notin disabling /\ (\A s \in saving : s.home # h) =>
           conf[h].period = IF conf[h].enabled THEN conf[h].limit ELSE 0

CounterInv ==
  CounterTypeOK /\ DialogHasCounter /\ CounterFollows /\ SaveHasDialog /\ WritersApart

LEMMA CounterUninitialized == Uninitialized \in Datacounter
<1>1. 0 \in Count /\ 0 \in Limit /\ 0 \in Nat
  BY DataCounterAssumption DEF DataCounterAssumption, Count, Limit
<1>. QED BY <1>1 DEF Uninitialized, Datacounter, Home

LEMMA CounterInitInv == ASSUME CounterInit PROVE CounterInv
<1>1. CounterTypeOK
  <2>1. 0 \in Count /\ 0 \in Limit /\ 0 \in Nat
    BY DataCounterAssumption DEF DataCounterAssumption, Count, Limit
  <2>2. [rx |-> 0, tx |-> 0, enabled |-> FALSE, limit |-> 0, period |-> 0] \in Conf
    BY <2>1 DEF Conf
  <2>3. Uninitialized \in Datacounter
    BY CounterUninitialized
  <2>4. queue \in Seq(Change)
    BY DEF CounterInit
  <2>. QED BY <2>2, <2>3, <2>4 DEF CounterInit, CounterTypeOK, NoDialog, Home
<1>2. DialogHasCounter /\ CounterFollows /\ SaveHasDialog
  BY DEF CounterInit, DialogHasCounter, CounterFollows, SaveHasDialog, Uninitialized, NoDialog
<1>3. WritersApart
  BY DEF CounterInit, WritersApart, Home
<1>. QED BY <1>1, <1>2, <1>3 DEF CounterInv

(* A change that is told reaches the field of its key, on the own side.    *)
LEMMA TakenFields ==
  ASSUME NEW d \in Datacounter, NEW c \in Change
  PROVE  LET t == TakenChange(d, c) IN
         /\ t \in Datacounter
         /\ t.initialized = d.initialized /\ t.home = d.home
         /\ t.rx = IF Own(c, d.home, "rx") THEN c.value ELSE d.rx
         /\ d.home =>
              /\ t.tx = IF Own(c, d.home, "tx") THEN c.value ELSE d.tx
              /\ t.limit = IF Own(c, d.home, "limit") THEN c.value ELSE d.limit
              /\ t.enabled = IF Own(c, d.home, "enabled") THEN c.value ELSE d.enabled
<1> DEFINE own == c.home = d.home
           t == TakenChange(d, c)
<1>1. CASE own /\ c.key = "rx"
  <2>1. t = [d EXCEPT !.rx = c.value]
    BY <1>1 DEF TakenChange
  <2>2. c.value \in Count
    BY <1>1 DEF Change
  <2>. QED BY <1>1, <2>1, <2>2 DEF Datacounter, Own
<1>2. CASE ~d.home /\ ~(own /\ c.key \in {"rx", "tx"})
  <2>1. t = [d EXCEPT !.tx = IF c.key = "enabled" THEN 0 ELSE c.value]
    BY <1>2 DEF TakenChange
  <2>2. (IF c.key = "enabled" THEN 0 ELSE c.value) \in Nat
    <3>1. c.key # "enabled" => c.value \in Count \cup Limit
      BY DEF Change
    <3>. QED BY <3>1 DEF Count, Limit
  <2>. QED BY <1>2, <2>1, <2>2 DEF Datacounter, Own
<1>3. CASE own /\ d.home /\ c.key = "tx"
  <2>1. t = [d EXCEPT !.tx = c.value]
    BY <1>3 DEF TakenChange
  <2>2. c.value \in Nat
    BY <1>3 DEF Change, Count
  <2>. QED BY <1>3, <2>1, <2>2 DEF Datacounter, Own
<1>4. CASE own /\ d.home /\ c.key = "limit"
  <2>1. t = [d EXCEPT !.limit = c.value]
    BY <1>4 DEF TakenChange
  <2>2. c.value \in Limit
    BY <1>4 DEF Change
  <2>. QED BY <1>4, <2>1, <2>2 DEF Datacounter, Own
<1>5. CASE own /\ d.home /\ c.key = "enabled"
  <2>1. t = [d EXCEPT !.enabled = c.value]
    BY <1>5 DEF TakenChange
  <2>2. c.value \in BOOLEAN
    BY <1>5 DEF Change
  <2>. QED BY <1>5, <2>1, <2>2 DEF Datacounter, Own
<1>6. CASE /\ ~(own /\ c.key = "rx")
           /\ ~(~d.home /\ ~(own /\ c.key \in {"rx", "tx"}))
           /\ ~(own /\ d.home /\ c.key \in {"tx", "limit", "enabled"})
  <2>1. t = d
    BY <1>6 DEF TakenChange
  <2>. QED BY <1>6, <2>1 DEF Own
<1>. QED BY <1>1, <1>2, <1>3, <1>4, <1>5, <1>6

LEMMA TakenFollows ==
  ASSUME NEW q \in Seq(Change), q # << >>, NEW d \in Datacounter, NEW c, Follows(q, d, c)
  PROVE  Follows(Tail(q), TakenChange(d, Head(q)), c)
<1> DEFINE h == Head(q)
           t == TakenChange(d, h)
<1>1. h \in Change
  OBVIOUS
<1>2. /\ t.home = d.home
      /\ t.rx = IF Own(h, d.home, "rx") THEN h.value ELSE d.rx
      /\ d.home =>
           /\ t.tx = IF Own(h, d.home, "tx") THEN h.value ELSE d.tx
           /\ t.limit = IF Own(h, d.home, "limit") THEN h.value ELSE d.limit
           /\ t.enabled = IF Own(h, d.home, "enabled") THEN h.value ELSE d.enabled
  BY <1>1, TakenFields
<1>3. ASSUME NEW k, NEW a, NEW b, Leads(q, d.home, k, a, b)
      PROVE  Leads(Tail(q), d.home, k, IF Own(h, d.home, k) THEN h.value ELSE a, b)
  BY <1>3, LeadsTail
<1> HIDE DEF t, h
<1>4. Leads(Tail(q), t.home, "rx", t.rx, c[t.home].rx)
  BY <1>2, <1>3 DEF Follows
<1>5. ASSUME d.home PROVE /\ Leads(Tail(q), t.home, "tx", t.tx, c[t.home].tx)
                          /\ Leads(Tail(q), t.home, "limit", t.limit, c[t.home].limit)
                          /\ Leads(Tail(q), t.home, "enabled", t.enabled, c[t.home].enabled)
  BY <1>2, <1>3, <1>5 DEF Follows
<1>. QED BY <1>2, <1>4, <1>5 DEF Follows, t, h

-----------------------------------------------------------------------------
(* What a write into a key leaves in GConf. *)
LEMMA ConfWritten ==
  ASSUME CounterTypeOK, NEW home \in Home, NEW key \in {"rx", "tx", "limit", "period", "enabled"},
         NEW value, [home |-> home, key |-> key, value |-> value] \in Change,
         Written(home, key, value)
  PROVE  /\ conf' \in [Home -> Conf]
         /\ queue' \in Seq(Change)
         /\ \A h \in Home, k \in {"rx", "tx", "limit", "period", "enabled"} :
              conf'[h][k] = IF h = home /\ k = key THEN value ELSE conf[h][k]
<1> DEFINE c == [home |-> home, key |-> key, value |-> value]
<1>1. /\ key \in {"rx", "tx"} => value \in Count
      /\ key \in {"limit", "period"} => value \in Limit
      /\ key = "enabled" => value \in BOOLEAN
  <2>1. c \in Change /\ c.key = key /\ c.value = value
    OBVIOUS
  <2> HIDE DEF c
  <2>. QED BY <2>1 DEF Change
<1>2. conf' = [conf EXCEPT ![home] = [conf[home] EXCEPT ![key] = value]]
  BY DEF Written, CounterTypeOK
<1>3. /\ [conf[home] EXCEPT ![key] = value] \in Conf
      /\ \A k \in {"rx", "tx", "limit", "period", "enabled"} :
           [conf[home] EXCEPT ![key] = value][k] = IF k = key THEN value ELSE conf[home][k]
  <2>1. conf[home] \in Conf
    BY DEF CounterTypeOK
  <2>2. CASE key = "rx"
    BY <1>1, <2>1, <2>2 DEF Conf
  <2>3. CASE key = "tx"
    BY <1>1, <2>1, <2>3 DEF Conf
  <2>4. CASE key = "limit"
    BY <1>1, <2>1, <2>4 DEF Conf
  <2>5. CASE key = "period"
    BY <1>1, <2>1, <2>5 DEF Conf
  <2>6. CASE key = "enabled"
    BY <1>1, <2>1, <2>6 DEF Conf
  <2>. QED BY <2>2, <2>3, <2>4, <2>5, <2>6
<1>4. queue' \in Seq(Change)
  BY ChangesType DEF Written, CounterTypeOK
<1>. QED BY <1>2, <1>3, <1>4 DEF CounterTypeOK

LEMMA WrittenFollows ==
  ASSUME CounterTypeOK, CounterFollows, UNCHANGED dc,
         NEW home \in Home, NEW key \in {"rx", "tx", "limit", "period", "enabled"},
         NEW value, [home |-> home, key |-> key, value |-> value] \in Change,
         Written(home, key, value)
  PROVE  CounterFollows'
<1>1. CASE ~dc.initialized
  BY <1>1 DEF Written, Changes, CounterFollows
<1>2. CASE dc.initialized
  <2>1. dc.home \in Home /\ queue \in Seq(Change)
    BY DEF CounterTypeOK, Datacounter
  <2>2. ASSUME NEW k \in {"rx", "tx", "limit", "period", "enabled"}, NEW a,
               Leads(queue, dc.home, k, a, conf[dc.home][k])
        PROVE  Leads(queue', dc.home, k, a, conf'[dc.home][k])
    <3>1. conf'[dc.home][k] = IF home = dc.home /\ key = k THEN value ELSE conf[dc.home][k]
      BY <2>1, ConfWritten
    <3>2. queue' = queue \o Changes(home, key, value)
      BY DEF Written
    <3>3. Leads(queue \o Changes(home, key, value), dc.home, k, a,
                IF home = dc.home /\ key = k THEN value ELSE conf[dc.home][k])
      BY <1>2, <2>1, <2>2, LeadsChanges, Zenon
    <3>. QED BY <3>1, <3>2, <3>3
  <2>3. Follows(queue, dc, conf)
    BY <1>2 DEF CounterFollows
  <2>4. Leads(queue', dc.home, "rx", dc.rx, conf'[dc.home].rx)
    BY <2>2, <2>3 DEF Follows
  <2>5. ASSUME dc.home
        PROVE  /\ Leads(queue', dc.home, "tx", dc.tx, conf'[dc.home].tx)
               /\ Leads(queue', dc.home, "limit", dc.limit, conf'[dc.home].limit)
               /\ Leads(queue', dc.home, "enabled", dc.enabled, conf'[dc.home].enabled)
    BY <2>2, <2>3, <2>5 DEF Follows
  <2>. QED BY <1>2, <2>4, <2>5 DEF CounterFollows, Follows
<1>. QED BY <1>1, <1>2

LEMMA WrittenType ==
  ASSUME CounterTypeOK, UNCHANGED dc,
         NEW home \in Home, NEW key \in {"rx", "tx", "limit", "period", "enabled"},
         NEW value, [home |-> home, key |-> key, value |-> value] \in Change,
         Written(home, key, value),
         counterDialog' \subseteq Fields,
         saving' \subseteq [home: Home, key: {"limit", "period"}],
         disabling' \subseteq Home, overlapped' \in BOOLEAN
  PROVE  CounterTypeOK'
<1>1. conf' \in [Home -> Conf] /\ queue' \in Seq(Change)
  BY ConfWritten
<1>. QED BY <1>1 DEF CounterTypeOK

LEMMA ShowCounterInv ==
  ASSUME CounterInv, NEW home \in Home, ShowCounter(home) PROVE CounterInv'
<1> USE DEF CounterInv
<1>1. /\ ~dc.initialized /\ queue = << >> /\ saving = {}
      /\ queue' = << >> /\ conf' = conf
  BY DEF ShowCounter, DialogHasCounter, CounterFollows, NoDialog, Idle
<1>2. dc' = [initialized |-> TRUE, home |-> home, rx |-> conf[home].rx, tx |-> conf[home].tx,
             limit |-> conf[home].limit, enabled |-> conf[home].enabled]
  BY <1>1 DEF ShowCounter, Got
<1>3. conf[home] \in Conf
  BY DEF CounterTypeOK
<1>4. dc' \in Datacounter
  BY <1>2, <1>3 DEF Conf, Datacounter, Count
<1>5. counterDialog' = {[home |-> home, enabled |-> dc'.enabled, limit |-> dc'.limit,
                         savable |-> TRUE]}
  BY DEF ShowCounter
<1>6. counterDialog' \subseteq Fields
  BY <1>4, <1>5 DEF Fields, Datacounter
<1>7. CounterTypeOK'
  BY <1>4, <1>6 DEF CounterTypeOK, ShowCounter
<1>8. DialogHasCounter'
  BY <1>2, <1>5 DEF DialogHasCounter
<1>9. CounterFollows'
  BY <1>1, <1>2, LeadsEmpty DEF CounterFollows, Follows
<1>10. SaveHasDialog' /\ WritersApart'
  BY <1>1 DEF SaveHasDialog, WritersApart, ShowCounter
<1>. QED BY <1>7, <1>8, <1>9, <1>10

LEMMA ChangeToldInv == ASSUME CounterInv, ChangeTold PROVE CounterInv'
<1> USE DEF CounterInv
<1>1. queue \in Seq(Change) /\ queue # << >> /\ dc \in Datacounter
  BY DEF ChangeTold, CounterTypeOK
<1>2. dc' = TakenChange(dc, Head(queue)) /\ queue' = Tail(queue)
  BY DEF ChangeTold
<1>3. Head(queue) \in Change /\ Tail(queue) \in Seq(Change)
  BY <1>1
<1>4. dc' \in Datacounter /\ dc'.initialized = dc.initialized /\ dc'.home = dc.home
  BY <1>1, <1>2, <1>3, TakenFields
<1>5. CounterTypeOK'
  BY <1>2, <1>3, <1>4 DEF CounterTypeOK, ChangeTold
<1>6. DialogHasCounter'
  BY <1>4 DEF DialogHasCounter, ChangeTold
<1>7. dc.initialized
  BY <1>1 DEF CounterFollows
<1>8. CounterFollows'
  <2>1. Follows(queue, dc, conf)
    BY <1>7 DEF CounterFollows
  <2>2. Follows(Tail(queue), TakenChange(dc, Head(queue)), conf)
    BY <2>1, <1>1, TakenFollows
  <2>. QED BY <1>2, <1>4, <1>7, <2>2 DEF CounterFollows, ChangeTold
<1>9. SaveHasDialog' /\ WritersApart'
  BY <1>4 DEF SaveHasDialog, WritersApart, ChangeTold
<1>. QED BY <1>5, <1>6, <1>8, <1>9

LEMMA EditedInv ==
  ASSUME CounterInv, Toggled \/ \E limit \in Limit : LimitEdited(limit) PROVE CounterInv'
<1> USE DEF CounterInv
<1>1. PICK d \in counterDialog, e \in Fields :
        counterDialog' = {e} /\ e.home = d.home
  <2>1. CASE Toggled
    <3>1. PICK d \in counterDialog : counterDialog' = {[d EXCEPT !.enabled = ~@]}
      BY <2>1 DEF Toggled
    <3>2. d \in Fields
      BY DEF CounterTypeOK
    <3>3. [d EXCEPT !.enabled = ~@] \in Fields /\ [d EXCEPT !.enabled = ~@].home = d.home
      BY <3>2 DEF Fields
    <3>. QED BY <3>1, <3>3
  <2>2. ASSUME NEW limit \in Limit, LimitEdited(limit)
        PROVE  \E d \in counterDialog, e \in Fields :
                 counterDialog' = {e} /\ e.home = d.home
    <3>1. PICK d \in counterDialog :
            counterDialog' = {[d EXCEPT !.limit = limit, !.savable = limit # 0]}
      BY <2>2 DEF LimitEdited
    <3>2. d \in Fields
      BY DEF CounterTypeOK
    <3>3. /\ [d EXCEPT !.limit = limit, !.savable = limit # 0] \in Fields
          /\ [d EXCEPT !.limit = limit, !.savable = limit # 0].home = d.home
      BY <3>2 DEF Fields
    <3>. QED BY <3>1, <3>3
  <2>. QED BY <2>1, <2>2
<1>2. UNCHANGED <<conf, dc, queue, saving, disabling, overlapped>> /\ saving = {}
  BY DEF Toggled, LimitEdited, Idle
<1>3. CounterTypeOK'
  BY <1>1, <1>2 DEF CounterTypeOK
<1>4. DialogHasCounter' /\ CounterFollows'
  BY <1>1, <1>2 DEF DialogHasCounter, CounterFollows
<1>5. SaveHasDialog' /\ WritersApart'
  BY <1>2 DEF SaveHasDialog, WritersApart
<1>. QED BY <1>3, <1>4, <1>5

LEMMA CancelInv == ASSUME CounterInv, Cancel PROVE CounterInv'
<1> USE DEF CounterInv
<1>1. /\ dc' = Uninitialized /\ queue' = << >> /\ counterDialog' = {} /\ saving = {}
      /\ ~Uninitialized.initialized
  BY DEF Cancel, Destroy, ClosedCounter, Uninitialized, NoDialog, Idle
<1>2. Uninitialized \in Datacounter
  BY CounterUninitialized
<1>3. CounterTypeOK'
  BY <1>1, <1>2 DEF CounterTypeOK, Cancel
<1>4. DialogHasCounter' /\ CounterFollows' /\ SaveHasDialog' /\ WritersApart'
  BY <1>1 DEF DialogHasCounter, CounterFollows, SaveHasDialog, WritersApart, Cancel
<1>. QED BY <1>3, <1>4

(* Writes that are neither of a save nor of a switching off. *)
LEMMA WritersUndisturbed ==
  ASSUME WritersApart, UNCHANGED <<counterDialog, saving, disabling, overlapped>>,
         \A i \in Home : /\ conf'[i].enabled = conf[i].enabled
                         /\ conf'[i].limit = conf[i].limit
                         /\ conf'[i].period = conf[i].period
  PROVE  WritersApart'
<1> SUFFICES ASSUME ~overlapped, NEW i \in Home
    PROVE  /\ i \in disabling => ~conf'[i].enabled /\ \A s \in saving : s.home # i
           /\ \A s \in saving, d \in counterDialog :
                s.home = i =>
                  /\ conf'[i].enabled = d.enabled
                  /\ s.key = "period" => conf'[i].limit = d.limit
           /\ i \notin disabling /\ (\A s \in saving : s.home # i) =>
                conf'[i].period = IF conf'[i].enabled THEN conf'[i].limit ELSE 0
  BY DEF WritersApart
<1>1. /\ conf'[i].enabled = conf[i].enabled
      /\ conf'[i].limit = conf[i].limit
      /\ conf'[i].period = conf[i].period
  OBVIOUS
<1>. QED BY <1>1 DEF WritersApart

LEMMA ResetInv == ASSUME CounterInv, Reset PROVE CounterInv'
<1> USE DEF CounterInv
<1> DEFINE h == dc.home
           c == [home |-> h, key |-> "reset", value |-> 1]
           q == queue \o <<c>>
           r == q \o Changes(h, "rx", 0)
<1>1. /\ dc.initialized /\ saving = {} /\ h \in Home /\ queue \in Seq(Change)
      /\ Follows(queue, dc, conf)
  BY DEF Reset, Idle, DialogHasCounter, CounterTypeOK, Datacounter, CounterFollows
<1>2. /\ conf' = [conf EXCEPT ![h].rx = 0, ![h].tx = 0]
      /\ queue' = r \o Changes(h, "tx", 0)
      /\ UNCHANGED <<dc, counterDialog, saving, disabling, overlapped>>
  BY <1>1 DEF Reset, Got
<1>3. 0 \in Count /\ 1 \in Count
  BY DataCounterAssumption DEF DataCounterAssumption, Count
<1>4. /\ c \in Change
      /\ [home |-> h, key |-> "rx", value |-> 0] \in Change
      /\ [home |-> h, key |-> "tx", value |-> 0] \in Change
  BY <1>1, <1>3 DEF Change
<1>5. q \in Seq(Change)
  BY <1>1, <1>4
<1>6. r \in Seq(Change)
  BY <1>4, <1>5, ChangesType
<1>7. queue' \in Seq(Change)
  BY <1>2, <1>4, <1>6, ChangesType
<1>8. conf[h] \in Conf
  BY <1>1 DEF CounterTypeOK
<1>9. conf' = [conf EXCEPT ![h] = [conf[h] EXCEPT !.rx = 0, !.tx = 0]]
  BY <1>1, <1>2 DEF CounterTypeOK
<1>10. /\ [conf[h] EXCEPT !.rx = 0, !.tx = 0] \in Conf
       /\ [conf[h] EXCEPT !.rx = 0, !.tx = 0].enabled = conf[h].enabled
       /\ [conf[h] EXCEPT !.rx = 0, !.tx = 0].limit = conf[h].limit
       /\ [conf[h] EXCEPT !.rx = 0, !.tx = 0].period = conf[h].period
       /\ [conf[h] EXCEPT !.rx = 0, !.tx = 0].rx = 0
       /\ [conf[h] EXCEPT !.rx = 0, !.tx = 0].tx = 0
  BY <1>3, <1>8 DEF Conf
<1>11. CounterTypeOK'
  BY <1>2, <1>7, <1>9, <1>10, <1>1 DEF CounterTypeOK
<1>12. ASSUME NEW k \in {"rx", "tx", "limit", "enabled"}, NEW a, Leads(queue, h, k, a, conf[h][k])
       PROVE  Leads(queue', h, k, a, IF k \in {"rx", "tx"} THEN 0 ELSE conf[h][k])
  <2>1. ~Own(c, h, k)
    BY DEF Own
  <2>2. Leads(q, h, k, a, conf[h][k])
    BY <1>1, <1>4, <1>12, <2>1, LeadsAppend
  <2>3. Leads(r, h, k, a, IF h = h /\ "rx" = k THEN 0 ELSE conf[h][k])
    BY <1>1, <1>4, <1>5, <2>2, LeadsChanges, Zenon
  <2>4. CASE k = "rx"
    <3>1. Leads(r, h, k, a, 0)
      BY <2>3, <2>4
    <3>2. CASE conf[h]["tx"] = 0
      BY <3>1, <3>2, <1>2, <1>6, <2>4 DEF Changes
    <3>3. CASE conf[h]["tx"] # 0
      <4>1. queue' = r \o <<[home |-> h, key |-> "tx", value |-> 0]>>
        BY <3>3, <1>1, <1>2 DEF Changes
      <4>2. ~Own([home |-> h, key |-> "tx", value |-> 0], h, k)
        BY <2>4 DEF Own
      <4>3. Leads(r \o <<[home |-> h, key |-> "tx", value |-> 0]>>, h, k, a, 0)
        BY <3>1, <4>2, <1>4, <1>6, LeadsAppend, Zenon
      <4>. QED BY <4>1, <4>3, <2>4
    <3>. QED BY <3>2, <3>3
  <2>5. CASE k # "rx"
    <3>1. Leads(r, h, k, a, conf[h][k])
      BY <2>3, <2>5
    <3>2. Leads(r \o Changes(h, "tx", 0), h, k, a, IF h = h /\ "tx" = k THEN 0 ELSE conf[h][k])
      BY <1>1, <1>4, <1>6, <3>1, LeadsChanges, Zenon
    <3>. QED BY <3>2, <1>2, <2>5
  <2>. QED BY <2>4, <2>5
<1>13. CounterFollows'
  <2>1. Leads(queue', h, "rx", dc.rx, 0)
    BY <1>1, <1>12 DEF Follows
  <2>2. ASSUME h PROVE /\ Leads(queue', h, "tx", dc.tx, 0)
                       /\ Leads(queue', h, "limit", dc.limit, conf[h].limit)
                       /\ Leads(queue', h, "enabled", dc.enabled, conf[h].enabled)
    BY <1>1, <1>12, <2>2 DEF Follows
  <2>3. conf'[h] = [conf[h] EXCEPT !.rx = 0, !.tx = 0]
    BY <1>1, <1>9 DEF CounterTypeOK
  <2>. QED BY <2>1, <2>2, <2>3, <1>1, <1>2, <1>10 DEF CounterFollows, Follows
<1>14. DialogHasCounter' /\ SaveHasDialog'
  BY <1>2 DEF DialogHasCounter, SaveHasDialog
<1>15. \A i \in Home : /\ conf'[i].enabled = conf[i].enabled
                       /\ conf'[i].limit = conf[i].limit
                       /\ conf'[i].period = conf[i].period
  BY <1>1, <1>9, <1>10 DEF CounterTypeOK
<1>16. WritersApart'
  BY <1>2, <1>15, WritersUndisturbed
<1>. QED BY <1>11, <1>13, <1>14, <1>16

LEMMA BytesCountedInv ==
  ASSUME CounterInv, NEW home \in Home, NEW key \in {"rx", "tx"}, NEW value \in Count,
         BytesCounted(home, key, value)
  PROVE  CounterInv'
<1> USE DEF CounterInv
<1>1. /\ Written(home, key, value)
      /\ UNCHANGED <<dc, counterDialog, saving, disabling, overlapped>>
  BY DEF BytesCounted
<1>2. [home |-> home, key |-> key, value |-> value] \in Change
  BY DEF Change
<1>3. CounterTypeOK'
  BY <1>1, <1>2, WrittenType DEF CounterTypeOK
<1>4. CounterFollows'
  BY <1>1, <1>2, WrittenFollows
<1>5. \A i \in Home, k \in {"limit", "period", "enabled"} : conf'[i][k] = conf[i][k]
  BY <1>1, <1>2, ConfWritten
<1>6. DialogHasCounter' /\ SaveHasDialog'
  BY <1>1 DEF DialogHasCounter, SaveHasDialog
<1>7. WritersApart'
  BY <1>1, <1>5, WritersUndisturbed
<1>. QED BY <1>3, <1>4, <1>6, <1>7

LEMMA SaveSwitchInv == ASSUME CounterInv, SaveSwitch PROVE CounterInv'
<1> USE DEF CounterInv
<1> DEFINE h == dc.home
<1>1. PICK d \in counterDialog :
        /\ Written(h, "enabled", d.enabled)
        /\ saving' = {[home |-> h, key |-> "limit"]}
        /\ overlapped' = (overlapped \/ h \in disabling)
        /\ UNCHANGED <<dc, counterDialog, disabling>>
  BY DEF SaveSwitch, Got, DialogHasCounter
<1>2. h \in Home /\ d.enabled \in BOOLEAN /\ saving = {}
  BY DEF CounterTypeOK, Datacounter, Fields, SaveSwitch, Idle
<1>3. [home |-> h, key |-> "enabled", value |-> d.enabled] \in Change
  BY <1>2 DEF Change
<1>4. CounterTypeOK'
  BY <1>1, <1>2, <1>3, WrittenType DEF CounterTypeOK
<1>5. CounterFollows'
  BY <1>1, <1>2, <1>3, WrittenFollows
<1>6. DialogHasCounter' /\ SaveHasDialog'
  BY <1>1 DEF DialogHasCounter, SaveHasDialog
<1>7. \A i \in Home : /\ conf'[i]["enabled"] = IF i = h THEN d.enabled ELSE conf[i]["enabled"]
                      /\ conf'[i]["limit"] = conf[i]["limit"]
                      /\ conf'[i]["period"] = conf[i]["period"]
  BY <1>1, <1>2, <1>3, ConfWritten
<1>8. WritersApart'
  <2>1. SUFFICES ASSUME ~overlapped', NEW i \in Home
        PROVE  /\ i \in disabling => ~conf'[i].enabled /\ i # h
               /\ i = h => conf'[i].enabled = d.enabled
               /\ i \notin disabling /\ i # h =>
                    conf'[i].period = IF conf'[i].enabled THEN conf'[i].limit ELSE 0
    BY <1>1 DEF WritersApart, DialogHasCounter
  <2>2. ~overlapped /\ h \notin disabling
    BY <1>1, <2>1
  <2>3. CASE i = h
    BY <1>7, <2>2, <2>3
  <2>4. CASE i # h
    BY <1>2, <1>7, <2>2, <2>4 DEF WritersApart
  <2>. QED BY <2>3, <2>4
<1>. QED BY <1>4, <1>5, <1>6, <1>8

LEMMA SaveLimitInv == ASSUME CounterInv, SaveLimit PROVE CounterInv'
<1> USE DEF CounterInv
<1>1. PICK s \in saving, d \in counterDialog :
        /\ s.key = "limit"
        /\ Written(s.home, "limit", d.limit)
        /\ saving' = {[s EXCEPT !.key = "period"]}
        /\ UNCHANGED <<dc, counterDialog, disabling, overlapped>>
  BY DEF SaveLimit
<1> DEFINE h == s.home
<1>2. h \in Home /\ d.limit \in Limit /\ s \in [home: Home, key: {"limit", "period"}]
  BY DEF CounterTypeOK, Fields
<1>3. [home |-> h, key |-> "limit", value |-> d.limit] \in Change
  BY <1>2 DEF Change
<1>4. /\ saving' \subseteq [home: Home, key: {"limit", "period"}]
      /\ \A t \in saving' : t.home = h
  BY <1>1, <1>2
<1>5. CounterTypeOK'
  BY <1>1, <1>2, <1>3, <1>4, WrittenType DEF CounterTypeOK
<1>6. CounterFollows'
  BY <1>1, <1>2, <1>3, WrittenFollows
<1>7. DialogHasCounter' /\ SaveHasDialog'
  BY <1>1, <1>4 DEF DialogHasCounter, SaveHasDialog
<1>8. \A i \in Home : /\ conf'[i]["limit"] = IF i = h THEN d.limit ELSE conf[i]["limit"]
                      /\ conf'[i]["enabled"] = conf[i]["enabled"]
                      /\ conf'[i]["period"] = conf[i]["period"]
  BY <1>1, <1>2, <1>3, ConfWritten
<1>9. WritersApart'
  BY <1>1, <1>2, <1>4, <1>8 DEF WritersApart, DialogHasCounter, SaveHasDialog
<1>. QED BY <1>5, <1>6, <1>7, <1>9

LEMMA SavePeriodInv == ASSUME CounterInv, SavePeriod PROVE CounterInv'
<1> USE DEF CounterInv
<1>1. PICK s \in saving, d \in counterDialog :
        /\ s.key = "period"
        /\ conf' = [conf EXCEPT ![s.home].period = PeriodToSave(d)]
  BY DEF SavePeriod
<1> DEFINE h == s.home
<1>2. /\ h \in Home /\ d.limit \in Limit /\ d.enabled \in BOOLEAN
      /\ conf[h] \in Conf
  BY DEF CounterTypeOK, Fields
<1>3. PeriodToSave(d) \in Limit
  BY <1>2, DataCounterAssumption DEF PeriodToSave, DataCounterAssumption, Limit
<1>4. /\ conf' = [conf EXCEPT ![h] = [conf[h] EXCEPT !.period = PeriodToSave(d)]]
      /\ [conf[h] EXCEPT !.period = PeriodToSave(d)] \in Conf
      /\ [conf[h] EXCEPT !.period = PeriodToSave(d)].enabled = conf[h].enabled
      /\ [conf[h] EXCEPT !.period = PeriodToSave(d)].limit = conf[h].limit
      /\ [conf[h] EXCEPT !.period = PeriodToSave(d)].period = PeriodToSave(d)
  BY <1>1, <1>2, <1>3 DEF CounterTypeOK, Conf
<1>5. /\ dc' = Uninitialized /\ queue' = << >> /\ counterDialog' = {} /\ saving' = {}
      /\ ~Uninitialized.initialized /\ UNCHANGED <<disabling, overlapped>>
  BY DEF SavePeriod, Destroy, ClosedCounter, Uninitialized, NoDialog
<1>6. CounterTypeOK'
  BY <1>2, <1>4, <1>5, CounterUninitialized DEF CounterTypeOK
<1>7. DialogHasCounter' /\ CounterFollows' /\ SaveHasDialog'
  BY <1>5 DEF DialogHasCounter, CounterFollows, SaveHasDialog
<1>8. \A i \in Home : /\ conf'[i].enabled = conf[i].enabled
                      /\ conf'[i].limit = conf[i].limit
                      /\ conf'[i].period = IF i = h THEN PeriodToSave(d) ELSE conf[i].period
  BY <1>2, <1>4 DEF CounterTypeOK
<1>9. WritersApart'
  <2>1. SUFFICES ASSUME ~overlapped, NEW i \in Home
        PROVE  /\ i \in disabling => ~conf'[i].enabled
               /\ i \notin disabling =>
                    conf'[i].period = IF conf'[i].enabled THEN conf'[i].limit ELSE 0
    BY <1>5 DEF WritersApart
  <2>2. CASE i = h
    BY <1>1, <1>8, <2>1, <2>2 DEF WritersApart, PeriodToSave
  <2>3. CASE i # h
    BY <1>1, <1>8, <2>1, <2>3 DEF WritersApart, SaveHasDialog
  <2>. QED BY <2>2, <2>3
<1>. QED BY <1>6, <1>7, <1>9

LEMMA DisableSwitchInv ==
  ASSUME CounterInv, NEW home \in Home, DisableSwitch(home) PROVE CounterInv'
<1> USE DEF CounterInv
<1> DEFINE off == FALSE
<1>1. /\ Written(home, "enabled", off)
      /\ disabling = {} /\ disabling' = {home}
      /\ overlapped' = (overlapped \/ \E s \in saving : s.home = home)
      /\ UNCHANGED <<dc, counterDialog, saving>>
  BY DEF DisableSwitch
<1>2. [home |-> home, key |-> "enabled", value |-> off] \in Change
  BY DEF Change
<1>8. off = FALSE
  OBVIOUS
<1> HIDE DEF off
<1>3. CounterTypeOK'
  BY <1>1, <1>2, WrittenType DEF CounterTypeOK
<1>4. CounterFollows'
  BY <1>1, <1>2, WrittenFollows
<1>5. \A i \in Home : /\ conf'[i]["enabled"] = IF i = home THEN off ELSE conf[i]["enabled"]
                      /\ conf'[i]["limit"] = conf[i]["limit"]
                      /\ conf'[i]["period"] = conf[i]["period"]
  BY <1>1, <1>2, ConfWritten
<1>6. DialogHasCounter' /\ SaveHasDialog'
  BY <1>1 DEF DialogHasCounter, SaveHasDialog
<1>7. WritersApart'
  <2>1. SUFFICES ASSUME ~overlapped', NEW i \in Home
        PROVE  /\ i = home => ~conf'[i].enabled /\ \A s \in saving : s.home # i
               /\ \A s \in saving, d \in counterDialog :
                    s.home = i =>
                      /\ conf'[i].enabled = d.enabled
                      /\ s.key = "period" => conf'[i].limit = d.limit
               /\ i # home /\ (\A s \in saving : s.home # i) =>
                    conf'[i].period = IF conf'[i].enabled THEN conf'[i].limit ELSE 0
    BY <1>1 DEF WritersApart
  <2>2. ~overlapped /\ \A s \in saving : s.home # home
    BY <1>1, <2>1
  <2>3. CASE i = home
    BY <1>5, <1>8, <2>2, <2>3
  <2>4. CASE i # home
    <3>1. /\ conf'[i].enabled = conf[i].enabled
          /\ conf'[i].limit = conf[i].limit
          /\ conf'[i].period = conf[i].period
      BY <1>5, <2>4
    <3>. QED BY <1>1, <2>2, <2>4, <3>1 DEF WritersApart
  <2>. QED BY <2>3, <2>4
<1>. QED BY <1>3, <1>4, <1>6, <1>7

LEMMA DisablePeriodInv == ASSUME CounterInv, DisablePeriod PROVE CounterInv'
<1> USE DEF CounterInv
<1>1. PICK home \in disabling :
        /\ Written(home, "period", 0)
        /\ disabling' = {}
        /\ UNCHANGED <<dc, counterDialog, saving, overlapped>>
  BY DEF DisablePeriod
<1>2. home \in Home /\ 0 \in Limit
  BY DataCounterAssumption DEF DataCounterAssumption, CounterTypeOK, Limit
<1>3. [home |-> home, key |-> "period", value |-> 0] \in Change
  BY <1>2 DEF Change
<1>4. CounterTypeOK'
  BY <1>1, <1>2, <1>3, WrittenType DEF CounterTypeOK
<1>5. CounterFollows'
  BY <1>1, <1>2, <1>3, WrittenFollows
<1>6. \A i \in Home : /\ conf'[i]["period"] = IF i = home THEN 0 ELSE conf[i]["period"]
                      /\ conf'[i]["limit"] = conf[i]["limit"]
                      /\ conf'[i]["enabled"] = conf[i]["enabled"]
  BY <1>1, <1>2, <1>3, ConfWritten
<1>7. DialogHasCounter' /\ SaveHasDialog'
  BY <1>1 DEF DialogHasCounter, SaveHasDialog
<1>8. WritersApart'
  BY <1>1, <1>2, <1>6 DEF WritersApart, SaveHasDialog
<1>. QED BY <1>4, <1>5, <1>7, <1>8

LEMMA CounterNextInv == CounterInv /\ [CounterNext]_counterVars => CounterInv'
<1> SUFFICES ASSUME CounterInv, [CounterNext]_counterVars PROVE CounterInv'
  OBVIOUS
<1>1. CASE UNCHANGED counterVars
  BY <1>1 DEF counterVars, CounterInv, CounterTypeOK, DialogHasCounter, CounterFollows,
              SaveHasDialog, WritersApart
<1>2. CASE CounterNext
  BY <1>2, ShowCounterInv, ChangeToldInv, EditedInv, ResetInv, CancelInv, SaveSwitchInv,
     SaveLimitInv, SavePeriodInv, BytesCountedInv, DisableSwitchInv, DisablePeriodInv
     DEF CounterNext
<1>. QED BY <1>1, <1>2

LEMMA CounterIsCurrentLemma ==
  ASSUME CounterInv PROVE CounterIsCurrent /\ DialogShowsItsSide /\ SwitchAndPeriodAgree
<1>1. CounterIsCurrent
  BY LeadsEmpty DEF CounterInv, CounterIsCurrent, CounterFollows, Follows
<1>2. DialogShowsItsSide
  BY DEF CounterInv, DialogShowsItsSide, DialogHasCounter
<1>3. SwitchAndPeriodAgree
  BY DEF CounterInv, SwitchAndPeriodAgree, WritersApart
<1>. QED BY <1>1, <1>2, <1>3

-----------------------------------------------------------------------------
(* The operator names.  Registrations and sources are of modems there are; *)
(* entries are of registrations there are, and none are kept in flight     *)
(* mode; the label shows them; and what was told is kept, but for what was *)
(* told in flight mode.                                                    *)
NetOfListed ==
  \A m \in Modem :
    /\ net[m] # NoState => m \in listed
    /\ <<m, "net">> \in idle => net[m] # NoState
    /\ modems[m] # NoState => net[m] # NoState /\ ~flight

LabelDrawn == label = LabelOf(modems, listed)

NamesHeard ==
  \A m \in Modem :
    net[m] # NoState /\ <<m, "net">> \notin idle =>
      /\ net[m].reg = "unknown" => modems[m] = NoState
      /\ TellsName(net[m]) /\ m \notin muted =>
           modems[m] # NoState /\ modems[m].name = NameTold(net[m])

HomeInv == HomeTypeOK /\ NetOfListed /\ LabelDrawn /\ NamesHeard

LEMMA EntryIsState == NoState \notin Entry /\ NoState \notin NetState
BY HomeItemAssumption DEF HomeItemAssumption

LEMMA NetStateType ==
  ASSUME NEW s \in NetState
  PROVE  s \in [reg: {"unknown", "searching", "home"}, name: Name \cup {NoState},
                network: {"none", "plain", "coded"}]
BY HomeItemAssumption DEF HomeItemAssumption

LEMMA LabelType ==
  ASSUME NEW es \in [Modem -> Entry \cup {NoState}], NEW there
  PROVE  LabelOf(es, there) \in [Modem -> Name]
<1>1. \A m \in Modem : es[m] # NoState => es[m].name \in Name
  BY DEF Entry
<1>2. "" \in Name
  BY HomeItemAssumption DEF HomeItemAssumption
<1>. QED BY <1>1, <1>2 DEF LabelOf

LEMMA NameToldType ==
  ASSUME NEW s \in NetState, TellsName(s) PROVE NameTold(s) \in Name
<1>1. s.name \in Name
  BY NetStateType DEF TellsName
<1>2. Fallback \in Name
  BY HomeItemAssumption DEF HomeItemAssumption
<1>. QED BY <1>1, <1>2 DEF NameTold

(* The entry that widget_net_status_cb leaves. *)
LEMMA EntryHeard ==
  ASSUME HomeInv, NEW m \in Modem, NEW s \in NetState, s.reg # "unknown"
  PROVE  /\ EntryAfter(EntryOf(m), s) \in Entry
         /\ TellsName(s) => EntryAfter(EntryOf(m), s).name = NameTold(s)
<1>1. EntryOf(m).name \in Name
  <2>1. modems[m] \in Entry \cup {NoState}
    BY DEF HomeInv, HomeTypeOK
  <2>2. CASE modems[m] # NoState
    BY <2>1, <2>2 DEF EntryOf, Entry
  <2>3. CASE modems[m] = NoState
    BY <2>3, HomeItemAssumption DEF EntryOf, HomeItemAssumption
  <2>. QED BY <2>2, <2>3
<1>2. s.reg \in {"searching", "home"}
  BY NetStateType
<1>3. (IF TellsName(s) THEN NameTold(s) ELSE EntryOf(m).name) \in Name
  BY <1>1, NameToldType
<1>. QED BY <1>2, <1>3 DEF EntryAfter, Entry

(* What a callback about the registration does: nothing in flight mode.    *)
LEMMA HeardInv ==
  ASSUME HomeInv, NEW m \in Modem, NEW s, NEW there \in SUBSET Modem,
         Heard(m, s, there),
         \/ s \in NetState /\ there = listed
         \/ s = [reg |-> "unknown"] /\ there \in {listed, listed \ {m}}
  PROVE  /\ modems' \in [Modem -> Entry \cup {NoState}]
         /\ label' = LabelOf(modems', there)
         /\ muted' = IF flight THEN muted \cup {m} ELSE muted \ {m}
         /\ \A o \in Modem \ {m} : modems'[o] = modems[o]
         /\ s.reg = "unknown" => modems'[m] = NoState
         /\ flight => modems' = modems
         /\ ~flight /\ TellsName(s) => modems'[m] # NoState /\ modems'[m].name = NameTold(s)
<1> DEFINE e == IF s.reg = "unknown" THEN NoState ELSE EntryAfter(EntryOf(m), s)
<1>1. modems \in [Modem -> Entry \cup {NoState}]
  BY DEF HomeInv, HomeTypeOK
<1>2. CASE flight
  <2>1. modems' = modems /\ label' = label /\ muted' = muted \cup {m}
    BY <1>2 DEF Heard
  <2>2. \A o \in Modem : modems[o] = NoState
    BY <1>2 DEF HomeInv, NetOfListed
  <2>3. LabelOf(modems, listed) = LabelOf(modems, there)
    BY <2>2 DEF LabelOf
  <2>. QED BY <1>1, <1>2, <2>1, <2>2, <2>3 DEF HomeInv, LabelDrawn
<1>3. CASE ~flight
  <2>1. /\ modems' = [modems EXCEPT ![m] = e]
        /\ label' = IF e = NoState \/ e # modems[m] \/ TellsName(s)
                    THEN LabelOf(modems', there) ELSE label
        /\ muted' = muted \ {m}
    BY <1>3 DEF Heard
  <2>2. e \in Entry \cup {NoState} /\ (s.reg # "unknown" => e \in Entry)
    BY EntryHeard
  <2>3. TellsName(s) => e \in Entry /\ e.name = NameTold(s)
    <3>1. TellsName(s) => s.reg = "home"
      BY DEF TellsName
    <3>. QED BY <3>1, EntryHeard
  <2> HIDE DEF e
  <2>4. label' = LabelOf(modems', there)
    <3>1. CASE e = NoState \/ e # modems[m] \/ TellsName(s)
      BY <2>1, <3>1
    <3>2. CASE ~(e = NoState \/ e # modems[m] \/ TellsName(s))
      <4>1. modems' = modems /\ label' = label
        BY <1>1, <2>1, <3>2
      <4>2. there = listed
        BY <3>2 DEF e
      <4>. QED BY <4>1, <4>2 DEF HomeInv, LabelDrawn
    <3>. QED BY <3>1, <3>2
  <2>5. s.reg = "unknown" => e = NoState
    BY DEF e
  <2>. QED BY <1>1, <1>3, <2>1, <2>2, <2>3, <2>4, <2>5, EntryIsState
<1>. QED BY <1>2, <1>3

LEMMA RedrawnInv ==
  ASSUME HomeInv, NEW m \in Modem, NEW there \in {listed, listed \ {m}}, Redrawn(there)
  PROVE  modems' = modems /\ muted' = muted /\ label' = LabelOf(modems, there)
<1>1. CASE flight
  <2>1. \A o \in Modem : modems[o] = NoState
    BY <1>1 DEF HomeInv, NetOfListed
  <2>2. LabelOf(modems, listed) = LabelOf(modems, there)
    BY <2>1 DEF LabelOf
  <2>. QED BY <1>1, <2>2 DEF HomeInv, LabelDrawn, Redrawn
<1>2. CASE ~flight
  BY <1>2 DEF Redrawn
<1>. QED BY <1>1, <1>2

(* A modem that is told to be gone keeps no name. *)
LEMMA EndToldInv ==
  ASSUME HomeInv, NEW m \in Modem, NEW there \in {listed, listed \ {m}}, EndTold(m, there)
  PROVE  /\ modems' \in [Modem -> Entry \cup {NoState}]
         /\ label' = LabelOf(modems', there)
         /\ muted' \in SUBSET Modem
         /\ \A o \in Modem \ {m} : modems'[o] = modems[o] /\ (o \in muted' <=> o \in muted)
         /\ modems'[m] = NoState
         /\ flight => modems' = modems
<1>1. muted \subseteq Modem /\ modems \in [Modem -> Entry \cup {NoState}] /\ listed \subseteq Modem
  BY DEF HomeInv, HomeTypeOK
<1>2. CASE net[m] # NoState
  <2>1. Heard(m, [reg |-> "unknown"], there)
    BY <1>2 DEF EndTold
  <2>2. there \in SUBSET Modem
    BY <1>1
  <2>. QED BY <1>1, <2>1, <2>2, HeardInv
<1>3. CASE net[m] = NoState
  <2>1. Redrawn(there)
    BY <1>3 DEF EndTold
  <2>2. modems[m] = NoState
    BY <1>3 DEF HomeInv, NetOfListed
  <2>. QED BY <1>1, <2>1, <2>2, RedrawnInv
<1>. QED BY <1>2, <1>3

LEMMA HomeInitInv == ASSUME HomeInit PROVE HomeInv
<1>1. "" \in Name
  BY HomeItemAssumption DEF HomeItemAssumption
<1>2. HomeTypeOK
  BY <1>1 DEF HomeInit, HomeTypeOK, Sources
<1>3. NetOfListed /\ NamesHeard
  BY DEF HomeInit, NetOfListed, NamesHeard
<1>4. LabelDrawn
  BY DEF HomeInit, LabelDrawn, LabelOf
<1>. QED BY <1>2, <1>3, <1>4 DEF HomeInv

(* An added modem is announced with its registration, and not without.     *)
LEMMA AddedNet ==
  ASSUME HomeTypeOK, NEW m \in Modem, Added(m)
  PROVE  /\ net' \in [Modem -> NetState \cup {NoState}]
         /\ \A o \in Modem \ {m} : net'[o] = net[o]
         /\ idle' \subseteq Sources
         /\ \A o \in Modem \ {m} : <<o, "net">> \in idle => <<o, "net">> \in idle'
         /\ \A o \in Modem \ {m} :
              <<o, "net">> \in idle' => <<o, "net">> \in idle \/ net'[o] # NoState
         /\ <<m, "net">> \in idle' <=> net'[m] # NoState
<1>1. PICK s \in NetState \cup {NoState} : net' = [net EXCEPT ![m] = s]
  BY DEF Added
<1>2. /\ net' \in [Modem -> NetState \cup {NoState}]
      /\ \A o \in Modem \ {m} : net'[o] = net[o]
  BY <1>1 DEF HomeTypeOK
<1>3. idle' = (idle \ ({m} \X {"modem", "net"})) \cup Announced(m, net')
  BY DEF Added
<1>4. /\ Announced(m, net') \subseteq Sources
      /\ \A o \in Modem : <<o, "net">> \in Announced(m, net')
                            <=> net'[m] # NoState /\ net'[o] # NoState
  BY DEF Announced, Sources
<1>5. \A o \in Modem : <<o, "net">> \in {m} \X {"modem", "net"} <=> o = m
  OBVIOUS
<1> HIDE DEF Announced
<1>. QED BY <1>2, <1>3, <1>4, <1>5 DEF HomeTypeOK

LEMMA ModemAddedInv ==
  ASSUME HomeInv, NEW m \in Modem, ModemAdded(m) PROVE HomeInv'
<1> USE DEF HomeInv
<1>1. /\ m \notin listed /\ listed' = listed \cup {m}
      /\ UNCHANGED <<modems, label, flight, muted>> /\ Added(m)
  BY DEF ModemAdded
<1>2. HomeTypeOK'
  BY <1>1, AddedNet DEF HomeTypeOK
<1>3. net[m] = NoState /\ modems[m] = NoState
  BY <1>1 DEF NetOfListed
<1>4. NetOfListed'
  BY <1>1, <1>3, AddedNet DEF NetOfListed
<1>5. LabelDrawn'
  BY <1>1, <1>3 DEF LabelDrawn, LabelOf
<1>6. NamesHeard'
  BY <1>1, AddedNet DEF NamesHeard
<1>. QED BY <1>2, <1>4, <1>5, <1>6

LEMMA ModemRemovedInv ==
  ASSUME HomeInv, NEW m \in Modem, ModemRemoved(m) PROVE HomeInv'
<1> USE DEF HomeInv
<1>1. /\ listed' = listed \ {m}
      /\ net' = [net EXCEPT ![m] = NoState]
      /\ idle' = idle \ ({m} \X {"modem", "net"})
      /\ EndTold(m, listed \ {m}) /\ flight' = flight
  BY DEF ModemRemoved
<1>2. /\ modems' \in [Modem -> Entry \cup {NoState}]
      /\ label' = LabelOf(modems', listed \ {m})
      /\ muted' \in SUBSET Modem
      /\ \A o \in Modem \ {m} : modems'[o] = modems[o] /\ (o \in muted' <=> o \in muted)
      /\ modems'[m] = NoState
  BY <1>1, EndToldInv
<1>3. /\ net' \in [Modem -> NetState \cup {NoState}]
      /\ \A o \in Modem \ {m} : net'[o] = net[o]
      /\ net'[m] = NoState
  BY <1>1 DEF HomeTypeOK
<1>4. /\ idle' \subseteq Sources
      /\ <<m, "net">> \notin idle'
      /\ \A o \in Modem \ {m} : <<o, "net">> \in idle' <=> <<o, "net">> \in idle
  BY <1>1 DEF HomeTypeOK
<1>5. HomeTypeOK'
  BY <1>1, <1>2, <1>3, <1>4, LabelType DEF HomeTypeOK
<1>6. NetOfListed'
  BY <1>1, <1>2, <1>3, <1>4 DEF NetOfListed
<1>7. LabelDrawn'
  BY <1>1, <1>2 DEF LabelDrawn
<1>8. NamesHeard'
  BY <1>2, <1>3, <1>4 DEF NamesHeard
<1>. QED BY <1>5, <1>6, <1>7, <1>8

LEMMA ModemReplacedInv ==
  ASSUME HomeInv, NEW m \in Modem, ModemReplaced(m) PROVE HomeInv'
<1> USE DEF HomeInv
<1>1. /\ EndTold(m, listed) /\ Added(m) /\ UNCHANGED <<listed, flight>> /\ m \in listed
  BY DEF ModemReplaced
<1>2. /\ modems' \in [Modem -> Entry \cup {NoState}]
      /\ label' = LabelOf(modems', listed)
      /\ muted' \in SUBSET Modem
      /\ \A o \in Modem \ {m} : modems'[o] = modems[o] /\ (o \in muted' <=> o \in muted)
      /\ modems'[m] = NoState
  BY <1>1, EndToldInv
<1>3. HomeTypeOK'
  BY <1>1, <1>2, AddedNet, LabelType DEF HomeTypeOK
<1>4. NetOfListed'
  BY <1>1, <1>2, AddedNet DEF NetOfListed
<1>5. LabelDrawn'
  BY <1>1, <1>2 DEF LabelDrawn
<1>6. NamesHeard'
  BY <1>1, <1>2, AddedNet DEF NamesHeard
<1>. QED BY <1>3, <1>4, <1>5, <1>6

LEMMA NetAddedInv ==
  ASSUME HomeInv, NEW m \in Modem, NetAdded(m) PROVE HomeInv'
<1> USE DEF HomeInv
<1>1. PICK s \in NetState : net' = [net EXCEPT ![m] = s]
  BY DEF NetAdded
<1>2. /\ m \in listed /\ net[m] = NoState
      /\ idle' = idle \cup Announced(m, net')
      /\ UNCHANGED <<listed, modems, label, flight, muted>>
  BY DEF NetAdded
<1>3. /\ net' \in [Modem -> NetState \cup {NoState}]
      /\ \A o \in Modem \ {m} : net'[o] = net[o]
      /\ net'[m] # NoState
  BY <1>1, EntryIsState DEF HomeTypeOK
<1>4. /\ idle' \subseteq Sources
      /\ \A o \in Modem : <<o, "net">> \in idle'
                            <=> <<o, "net">> \in idle \/ net'[o] # NoState
  BY <1>2, <1>3 DEF HomeTypeOK, Announced, Sources
<1>5. HomeTypeOK'
  BY <1>2, <1>3, <1>4 DEF HomeTypeOK
<1>6. NetOfListed'
  BY <1>2, <1>3, <1>4 DEF NetOfListed
<1>7. LabelDrawn' /\ NamesHeard'
  BY <1>2, <1>3, <1>4 DEF LabelDrawn, NamesHeard
<1>. QED BY <1>5, <1>6, <1>7

LEMMA NetRemovedInv ==
  ASSUME HomeInv, NEW m \in Modem, NetRemoved(m) PROVE HomeInv'
<1> USE DEF HomeInv
<1>1. /\ net' = [net EXCEPT ![m] = NoState]
      /\ idle' = (idle \ {<<m, "net">>}) \cup {<<m, "modem">>}
      /\ Heard(m, [reg |-> "unknown"], listed)
      /\ UNCHANGED <<listed, flight>>
  BY DEF NetRemoved
<1>2. /\ modems' \in [Modem -> Entry \cup {NoState}]
      /\ label' = LabelOf(modems', listed)
      /\ muted' \in SUBSET Modem
      /\ \A o \in Modem \ {m} : modems'[o] = modems[o] /\ (o \in muted' <=> o \in muted)
      /\ modems'[m] = NoState
  BY <1>1, HeardInv DEF HomeTypeOK
<1>3. /\ net' \in [Modem -> NetState \cup {NoState}]
      /\ \A o \in Modem \ {m} : net'[o] = net[o]
      /\ net'[m] = NoState
  BY <1>1 DEF HomeTypeOK
<1>4. /\ idle' \subseteq Sources
      /\ <<m, "net">> \notin idle'
      /\ \A o \in Modem \ {m} : <<o, "net">> \in idle' <=> <<o, "net">> \in idle
  BY <1>1 DEF HomeTypeOK, Sources
<1>5. HomeTypeOK'
  BY <1>1, <1>2, <1>3, <1>4, LabelType DEF HomeTypeOK
<1>6. NetOfListed' /\ LabelDrawn'
  BY <1>1, <1>2, <1>3, <1>4 DEF NetOfListed, LabelDrawn
<1>7. NamesHeard'
  BY <1>2, <1>3, <1>4 DEF NamesHeard
<1>. QED BY <1>5, <1>6, <1>7

LEMMA NetChangesInv ==
  ASSUME HomeInv, NEW m \in Modem, NetChanges(m) PROVE HomeInv'
<1> USE DEF HomeInv
<1>1. PICK s \in NetState : net' = [net EXCEPT ![m] = s]
  BY DEF NetChanges
<1>2. /\ net[m] # NoState
      /\ idle' = idle \cup {<<m, "net">>}
      /\ UNCHANGED <<listed, modems, label, flight, muted>>
  BY DEF NetChanges
<1>3. /\ net' \in [Modem -> NetState \cup {NoState}]
      /\ \A o \in Modem \ {m} : net'[o] = net[o]
      /\ net'[m] # NoState
  BY <1>1, EntryIsState DEF HomeTypeOK
<1>4. idle' \subseteq Sources
  BY <1>2 DEF HomeTypeOK, Sources
<1>5. HomeTypeOK' /\ LabelDrawn'
  BY <1>2, <1>3, <1>4 DEF HomeTypeOK, LabelDrawn
<1>6. NetOfListed' /\ NamesHeard'
  BY <1>2, <1>3 DEF NetOfListed, NamesHeard
<1>. QED BY <1>5, <1>6

LEMMA ModemNotifiedInv ==
  ASSUME HomeInv, NEW m \in Modem, ModemNotified(m) PROVE HomeInv'
<1> USE DEF HomeInv
<1>1. /\ idle' = idle \ {<<m, "modem">>} /\ Redrawn(listed)
      /\ UNCHANGED <<listed, net, flight>>
  BY DEF ModemNotified
<1>2. modems' = modems /\ muted' = muted /\ label' = LabelOf(modems, listed)
  BY <1>1, RedrawnInv
<1>3. \A o \in Modem : <<o, "net">> \in idle' <=> <<o, "net">> \in idle
  BY <1>1
<1>4. HomeTypeOK'
  BY <1>1, <1>2, LabelType DEF HomeTypeOK
<1>5. NetOfListed' /\ LabelDrawn' /\ NamesHeard'
  BY <1>1, <1>2, <1>3 DEF NetOfListed, LabelDrawn, NamesHeard
<1>. QED BY <1>4, <1>5

LEMMA NetNotifiedInv ==
  ASSUME HomeInv, NEW m \in Modem, NetNotified(m) PROVE HomeInv'
<1> USE DEF HomeInv
<1>1. /\ <<m, "net">> \in idle
      /\ idle' = idle \ {<<m, "net">>} /\ Heard(m, net[m], listed)
      /\ UNCHANGED <<listed, net, flight>>
  BY DEF NetNotified
<1>2. net[m] \in NetState
  BY <1>1 DEF NetOfListed, HomeTypeOK
<1>3. /\ modems' \in [Modem -> Entry \cup {NoState}]
      /\ label' = LabelOf(modems', listed)
      /\ muted' = IF flight THEN muted \cup {m} ELSE muted \ {m}
      /\ \A o \in Modem \ {m} : modems'[o] = modems[o]
      /\ net[m].reg = "unknown" => modems'[m] = NoState
      /\ flight => modems' = modems
      /\ ~flight /\ TellsName(net[m]) =>
           modems'[m] # NoState /\ modems'[m].name = NameTold(net[m])
  BY <1>1, <1>2, HeardInv DEF HomeTypeOK
<1>4. \A o \in Modem \ {m} : <<o, "net">> \in idle' <=> <<o, "net">> \in idle
  BY <1>1
<1>5. HomeTypeOK'
  BY <1>1, <1>3, LabelType DEF HomeTypeOK
<1>6. NetOfListed' /\ LabelDrawn'
  BY <1>1, <1>2, <1>3, <1>4, EntryIsState DEF NetOfListed, LabelDrawn
<1>7. NamesHeard'
  BY <1>1, <1>3, <1>4 DEF NamesHeard
<1>. QED BY <1>5, <1>6, <1>7

LEMMA FlightModeInv ==
  ASSUME HomeInv, NEW offline \in BOOLEAN, FlightMode(offline) PROVE HomeInv'
<1> USE DEF HomeInv
<1>1. CASE offline
  <2>1. /\ flight' = TRUE /\ modems' = [m \in Modem |-> NoState]
        /\ label' = LabelOf(modems', listed) /\ muted' = muted \cup listed
        /\ UNCHANGED <<listed, net, idle>>
    BY <1>1 DEF FlightMode
  <2>2. modems' \in [Modem -> Entry \cup {NoState}]
    BY <2>1
  <2>3. HomeTypeOK'
    BY <2>1, <2>2, LabelType DEF HomeTypeOK
  <2>4. NetOfListed' /\ LabelDrawn' /\ NamesHeard'
    BY <2>1 DEF NetOfListed, LabelDrawn, NamesHeard
  <2>. QED BY <2>3, <2>4
<1>2. CASE ~offline
  <2>1. /\ flight' = FALSE
        /\ UNCHANGED <<modems, label, muted, listed, net, idle>>
    BY <1>2 DEF FlightMode
  <2>. QED BY <2>1 DEF HomeTypeOK, NetOfListed, LabelDrawn, NamesHeard
<1>. QED BY <1>1, <1>2

LEMMA HomeNextInv == HomeInv /\ [HomeNext]_homeVars => HomeInv'
<1> SUFFICES ASSUME HomeInv, [HomeNext]_homeVars PROVE HomeInv'
  OBVIOUS
<1>1. CASE UNCHANGED homeVars
  BY <1>1 DEF homeVars, HomeInv, HomeTypeOK, NetOfListed, LabelDrawn, NamesHeard
<1>2. CASE HomeNext
  BY <1>2, ModemAddedInv, ModemRemovedInv, ModemReplacedInv, NetAddedInv, NetRemovedInv,
     NetChangesInv, ModemNotifiedInv, NetNotifiedInv, FlightModeInv DEF HomeNext
<1>. QED BY <1>1, <1>2

LEMMA LabelAsToldLemma == ASSUME HomeInv PROVE LabelAsTold
<1> SUFFICES ASSUME idle = {}, NEW m \in Modem
    PROVE  /\ net[m] = NoState \/ net[m].reg = "unknown" => label[m] = ""
           /\ net[m] # NoState /\ TellsName(net[m]) /\ m \notin muted =>
                label[m] = NameTold(net[m])
  BY DEF HomeInv, LabelAsTold, LabelDrawn
<1>1. label[m] = IF m \in listed /\ modems[m] # NoState THEN modems[m].name ELSE ""
  BY DEF HomeInv, LabelDrawn, LabelOf
<1>2. <<m, "net">> \notin idle
  OBVIOUS
<1>. QED BY <1>1, <1>2 DEF HomeInv, NetOfListed, NamesHeard

-----------------------------------------------------------------------------
(* The cell broadcasts.  A set of positions that has with one all that are *)
(* before it is an interval, as long as it has elements.                   *)
LEMMA Least ==
  ASSUME NEW T \in SUBSET Nat, T # {}
  PROVE  \E x \in T : \A y \in T : x <= y
<1>1. PICK x \in T : \A y \in T : ~(<<y, x>> \in OpToRel(<, Nat))
  BY NatLessThanWellFounded, WFMin, Zenon
<1>2. \A y \in T : ~(y < x)
  BY <1>1 DEF OpToRel
<1>. QED BY <1>2

LEMMA InitialSegment ==
  ASSUME NEW L \in Nat, NEW D \in SUBSET (1..L), \A i \in D, j \in 1..L : j < i => j \in D
  PROVE  \E k \in 0..L : D = 1..k /\ Cardinality(D) = k
<1> DEFINE T == {i \in 1..(L + 1) : i \notin D}
<1>1. L + 1 \in T /\ T \subseteq Nat
  OBVIOUS
<1>2. PICK x \in T : \A y \in T : x <= y
  BY <1>1, Least
<1>3. x - 1 \in 0..L /\ x \in 1..(L + 1) /\ x \notin D
  OBVIOUS
<1>4. \A i \in 1..(x - 1) : i \in D
  BY <1>2, <1>3
<1>5. \A i \in D : i \in 1..(x - 1)
  BY <1>3
<1>6. D = 1..(x - 1)
  BY <1>4, <1>5
<1>7. Cardinality(1..(x - 1)) = x - 1
  BY <1>3, FS_Interval
<1>. QED BY <1>3, <1>6, <1>7

(* Pages kept of a message of P pages: in order, each once. *)
Kept(pages, P) ==
  /\ \A i \in 1..Len(pages) : pages[i].number \in 1..P /\ ~pages[i].left
  /\ \A i, j \in 1..Len(pages) : i < j => pages[i].number < pages[j].number

LEMMA InsertedKept ==
  ASSUME NEW pages \in Seq(Page), NEW P \in 1..15, Kept(pages, P), NEW n \in 1..P,
         \A i \in DOMAIN pages : pages[i].number # n
  PROVE  /\ Inserted(pages, n) \in Seq(Page)
         /\ Len(Inserted(pages, n)) = Len(pages) + 1
         /\ Kept(Inserted(pages, n), P)
<1> DEFINE D == {i \in DOMAIN pages : pages[i].number < n}
           L == Len(pages)
           e == [number |-> n, left |-> FALSE]
<1>1. L \in Nat /\ DOMAIN pages = 1..L /\ \A i \in 1..L : pages[i] \in Page
  OBVIOUS
<1>2. \A i \in 1..L : pages[i].number \in 1..P /\ ~pages[i].left
  BY DEF Kept
<1>3. \A i, j \in 1..L : i < j => pages[i].number < pages[j].number
  BY DEF Kept
<1>4. \A i \in D, j \in 1..L : j < i => j \in D
  BY <1>1, <1>2, <1>3
<1>5. D \in SUBSET (1..L)
  BY <1>1
<1>6. PICK k \in 0..L : D = 1..k /\ Cardinality(D) = k
  <2> HIDE DEF D, L
  <2>. QED BY <1>1, <1>4, <1>5, InitialSegment
<1>7. e \in Page /\ e.number = n /\ ~e.left
  BY DEF Page
<1> HIDE DEF e
<1> DEFINE a == SubSeq(pages, 1, k)
           b == SubSeq(pages, k + 1, L)
           r == a \o <<e>> \o b
<1>8. Inserted(pages, n) = r
  <2>1. Inserted(pages, n) = InsertAt(pages, k + 1, e)
    BY <1>6 DEF Inserted, e
  <2>2. k + 1 - 1 = k
    BY <1>1, <1>6
  <2>3. PICK i : i = k + 1
    OBVIOUS
  <2>4. InsertAt(pages, i, e) = SubSeq(pages, 1, i - 1) \o <<e>> \o SubSeq(pages, i, L)
    BY Zenon DEF InsertAt
  <2>5. i - 1 = k
    BY <2>2, <2>3
  <2>. QED BY <2>1, <2>3, <2>4, <2>5
<1>9. a \in Seq(Page) /\ Len(a) = k /\ \A i \in 1..k : a[i] = pages[i]
  BY <1>1, <1>6
<1>10. b \in Seq(Page) /\ Len(b) = L - k /\ \A i \in 1..(L - k) : b[i] = pages[k + i]
  <2>1. \A i \in (k + 1)..L : pages[i] \in Page
    BY <1>1, <1>6
  <2>2. /\ b \in Seq(Page)
        /\ Len(b) = IF k + 1 <= L THEN L - (k + 1) + 1 ELSE 0
        /\ \A i \in 1..(L - (k + 1) + 1) : b[i] = pages[(k + 1) + i - 1]
    BY <1>1, <1>6, <2>1, SubSeqProperties
  <2>3. L - (k + 1) + 1 = L - k
    BY <1>1
  <2>6. \A i \in 1..(L - k) : (k + 1) + i - 1 = k + i
    BY <1>1, <1>6
  <2>4. Len(b) = L - k
    <3>1. CASE k + 1 <= L
      BY <3>1, <2>2, <2>3
    <3>2. CASE ~(k + 1 <= L)
      <4>1. L - k = 0
        <5>1. L \in Nat /\ k \in 0..L
          BY <1>1
        <5> HIDE DEF L, b
        <5>. QED BY <3>2, <5>1
      <4>. QED BY <3>2, <4>1, <2>2
    <3>. QED BY <3>1, <3>2
  <2>5. \A i \in 1..(L - k) : b[i] = pages[k + i]
    BY <2>2, <2>3, <2>6
  <2>. QED BY <2>2, <2>4, <2>5
<1> HIDE DEF a, b
<1>11. /\ r \in Seq(Page) /\ Len(r) = L + 1
       /\ \A i \in 1..k : r[i] = pages[i]
       /\ r[k + 1] = e
       /\ \A i \in (k + 2)..(L + 1) : r[i] = pages[i - 1]
  <2>1. a \o <<e>> \in Seq(Page) /\ Len(a \o <<e>>) = k + 1
    BY <1>7, <1>9
  <2>2. \A i \in 1..k : (a \o <<e>>)[i] = pages[i]
    BY <1>7, <1>9
  <2>3. (a \o <<e>>)[k + 1] = e
    BY <1>7, <1>9
  <2> DEFINE c == a \o <<e>>
  <2> HIDE DEF c
  <2>4. /\ c \in Seq(Page) /\ Len(c) = k + 1
        /\ \A i \in 1..k : c[i] = pages[i]
        /\ c[k + 1] = e
    BY <2>1, <2>2, <2>3 DEF c
  <2>5. r = c \o b
    BY DEF c
  <2>6. r \in Seq(Page) /\ Len(r) = L + 1
    <3>1. c \o b \in Seq(Page) /\ Len(c \o b) = Len(c) + Len(b)
      BY <2>4, <1>10, ConcatProperties
    <3>2. Len(c) + Len(b) = L + 1
      BY <2>4, <1>1, <1>10
    <3> HIDE DEF r, L
    <3>. QED BY <3>1, <3>2, <2>5
  <2>7. \A i \in 1..(k + 1) : r[i] = c[i]
    BY <2>4, <2>5, <1>10
  <2>8. ASSUME NEW i \in (k + 2)..(L + 1) PROVE r[i] = pages[i - 1]
    <3>1. r[i] = b[i - (k + 1)] /\ i - (k + 1) \in 1..(L - k)
      BY <2>4, <2>5, <1>1, <1>10
    <3>2. k + (i - (k + 1)) = i - 1
      BY <1>1
    <3>. QED BY <3>1, <3>2, <1>10
  <2>. QED BY <2>4, <2>6, <2>7, <2>8
<1> HIDE DEF r, L, D
<1>12. \A i \in 1..k : pages[i].number < n
  BY <1>6 DEF D
<1>13. \A i \in (k + 1)..L : pages[i].number > n
  <2>1. SUFFICES ASSUME NEW i \in (k + 1)..L PROVE pages[i].number > n
    OBVIOUS
  <2>2. i \in 1..L /\ i \notin D
    BY <1>1, <1>6
  <2>3. ~(pages[i].number < n) /\ pages[i].number # n /\ pages[i].number \in 1..P
    BY <2>2, <1>1, <1>2 DEF D
  <2>. QED BY <2>3
<1>14. \A i \in 1..(L + 1) :
         \/ i \in 1..k /\ r[i] = pages[i]
         \/ i = k + 1 /\ r[i] = e
         \/ i \in (k + 2)..(L + 1) /\ r[i] = pages[i - 1] /\ i - 1 \in (k + 1)..L
  BY <1>1, <1>11
<1>15. \A i \in 1..(L + 1) : r[i].number \in 1..P /\ ~r[i].left
  BY <1>1, <1>2, <1>7, <1>14
<1>16. ASSUME NEW i \in 1..(L + 1), NEW j \in 1..(L + 1), i < j
       PROVE  r[i].number < r[j].number
  <2>1. CASE i \in 1..k /\ j \in 1..k
    BY <2>1, <1>1, <1>3, <1>14, <1>16
  <2>2. CASE i \in 1..k /\ j = k + 1
    BY <2>2, <1>7, <1>11, <1>12
  <2>3. CASE i \in 1..k /\ j \in (k + 2)..(L + 1)
    <3>1. j - 1 \in 1..L /\ i \in 1..L /\ i < j - 1
      BY <2>3, <1>1
    <3>. QED BY <2>3, <3>1, <1>3, <1>11
  <2>4. CASE i = k + 1 /\ j \in (k + 2)..(L + 1)
    <3>1. j - 1 \in (k + 1)..L
      BY <2>4, <1>1
    <3>2. j - 1 \in 1..L
      BY <3>1, <1>1
    <3>. QED BY <2>4, <3>1, <3>2, <1>2, <1>7, <1>11, <1>13
  <2>5. CASE i \in (k + 2)..(L + 1) /\ j \in (k + 2)..(L + 1)
    <3>1. i - 1 \in 1..L /\ j - 1 \in 1..L /\ i - 1 < j - 1
      BY <2>5, <1>1, <1>16
    <3>. QED BY <2>5, <3>1, <1>3, <1>11
  <2>. QED BY <1>1, <1>16, <2>1, <2>2, <2>3, <2>4, <2>5
<1>. QED BY <1>8, <1>11, <1>15, <1>16 DEF Kept, L

(* When there are as many as there can be, each is in its place. *)
LEMMA AllInPlace ==
  ASSUME NEW P \in 1..15, NEW pages \in Seq(Page), Kept(pages, P), Len(pages) = P
  PROVE  \A i \in 1..P : pages[i].number = i
<1>1. \A i \in 1..P : pages[i].number \in 1..P
  BY DEF Kept
<1>2. \A i, j \in 1..P : i < j => pages[i].number < pages[j].number
  BY DEF Kept
<1>3. \A i \in 1..P : pages[i].number >= i
  <2> DEFINE T == {i \in 1..P : pages[i].number < i}
  <2>1. SUFFICES ASSUME T # {} PROVE FALSE
    BY <1>1
  <2>2. PICK x \in T : \A y \in T : x <= y
    <3>1. T \in SUBSET Nat
      OBVIOUS
    <3> HIDE DEF T
    <3>. QED BY <2>1, <3>1, Least
  <2>3. x # 1
    BY <1>1
  <2>4. x - 1 \in 1..P /\ x - 1 \notin T
    BY <2>2, <2>3
  <2>5. pages[x - 1].number >= x - 1
    BY <1>1, <2>4
  <2>6. pages[x - 1].number < pages[x].number
    BY <1>2, <2>4
  <2>. QED BY <1>1, <2>4, <2>5, <2>6
<1>4. \A i \in 1..P : pages[i].number <= i
  <2> DEFINE T == {m \in 0..(P - 1) : pages[P - m].number > P - m}
  <2>1. ASSUME T # {} PROVE FALSE
    <3>1. T \in SUBSET Nat
      OBVIOUS
    <3>2. PICK x \in T : \A y \in T : x <= y
      <4> HIDE DEF T
      <4>. QED BY <2>1, <3>1, Least
    <3>3. x # 0
      BY <1>1
    <3>4. x - 1 \in 0..(P - 1) /\ x - 1 \notin T
      <4>1. x \in 0..(P - 1)
        OBVIOUS
      <4> HIDE DEF T
      <4>. QED BY <4>1, <3>2, <3>3
    <3>5. P - (x - 1) \in 1..P /\ P - x \in 1..P /\ P - x < P - (x - 1)
      BY <3>3
    <3>6. pages[P - (x - 1)].number <= P - (x - 1)
      BY <1>1, <3>4, <3>5
    <3>7. pages[P - x].number < pages[P - (x - 1)].number
      BY <1>2, <3>5
    <3>8. pages[P - x].number \in 1..P /\ pages[P - (x - 1)].number \in 1..P
      BY <1>1, <3>5
    <3>. QED BY <3>6, <3>7, <3>8
  <2>2. SUFFICES ASSUME NEW i \in 1..P PROVE pages[i].number <= i
    OBVIOUS
  <2>3. P - i \in 0..(P - 1) /\ P - (P - i) = i
    OBVIOUS
  <2>4. P - i \notin T
    BY <2>1
  <2>. QED BY <2>3, <2>4, <1>1
<1>. QED BY <1>1, <1>3, <1>4

(* Messages that are not complete are kept in order, without pages from an *)
(* area that was left.                                                     *)
NodesKept ==
  \A m \in Message, u \in Update :
    Kept(nodes[<<m, u>>], m.pages) /\ Len(nodes[<<m, u>>]) < m.pages

DeliveredWhole == \A i \in DOMAIN delivered : delivered[i].number = i /\ ~delivered[i].left

BroadcastInv == BroadcastTypeOK /\ NodesKept /\ DeliveredWhole

LEMMA MessageType == ASSUME NEW m \in Message PROVE m.pages \in 1..15
BY CellBroadcastAssumption DEF CellBroadcastAssumption

LEMMA EmptyKept ==
  ASSUME NEW P \in 1..15 PROVE Kept(<< >>, P) /\ Len(<< >>) < P /\ << >> \in Seq(Page)
<1>1. Len(<< >>) = 0 /\ 1..0 = {} /\ << >> \in Seq(Page)
  OBVIOUS
<1>. QED BY <1>1 DEF Kept

LEMMA BroadcastInitInv == ASSUME BroadcastInit PROVE BroadcastInv
<1>1. \A s \in Serial : nodes[s] = << >>
  BY DEF BroadcastInit
<1>2. nodes \in [Serial -> Seq(Page)]
  BY DEF BroadcastInit
<1>3. BroadcastTypeOK
  <2>1. recv \in [Message -> Update \cup {None}]
    BY DEF BroadcastInit
  <2>2. delivered \in Seq(Page) /\ alive \in BOOLEAN
    BY DEF BroadcastInit
  <2>. QED BY <1>2, <2>1, <2>2 DEF BroadcastTypeOK
<1>4. NodesKept
  BY <1>1, MessageType, EmptyKept DEF NodesKept, Serial
<1>5. DeliveredWhole
  BY DEF BroadcastInit, DeliveredWhole
<1>. QED BY <1>3, <1>4, <1>5 DEF BroadcastInv

LEMMA OnlyPageInv ==
  ASSUME BroadcastInv, NEW m \in Message, NEW u \in Update, OnlyPage(m, u) PROVE BroadcastInv'
<1> USE DEF BroadcastInv
<1> DEFINE page == [number |-> 1, left |-> FALSE]
<1>1. /\ recv' = [recv EXCEPT ![m] = u] /\ delivered' = <<page>>
      /\ UNCHANGED <<nodes, alive>>
  BY DEF OnlyPage
<1>2. page \in Page /\ page.number = 1 /\ ~page.left
  BY DEF Page
<1> HIDE DEF page
<1>3. recv' \in [Message -> Update \cup {None}]
  BY <1>1 DEF BroadcastTypeOK
<1>4. delivered' \in Seq(Page)
  BY <1>1, <1>2
<1>5. BroadcastTypeOK'
  BY <1>1, <1>3, <1>4 DEF BroadcastTypeOK
<1>6. NodesKept' /\ DeliveredWhole'
  BY <1>1, <1>2 DEF NodesKept, DeliveredWhole
<1>. QED BY <1>5, <1>6

(* A new page goes to its place among those of its message. *)
LEMMA NewPageKept ==
  ASSUME BroadcastInv, NEW m \in Message, NEW u \in Update, NEW n \in 1..m.pages,
         NewPage(m, u, n)
  PROVE  /\ Inserted(nodes[<<m, u>>], n) \in Seq(Page)
         /\ Len(Inserted(nodes[<<m, u>>], n)) = Len(nodes[<<m, u>>]) + 1
         /\ Kept(Inserted(nodes[<<m, u>>], n), m.pages)
<1>1. nodes[<<m, u>>] \in Seq(Page)
  BY DEF BroadcastInv, BroadcastTypeOK, Serial
<1>2. m.pages \in 1..15 /\ Kept(nodes[<<m, u>>], m.pages)
  BY MessageType DEF BroadcastInv, NodesKept
<1>3. \A i \in DOMAIN nodes[<<m, u>>] : nodes[<<m, u>>][i].number # n
  BY DEF NewPage
<1>. QED BY <1>1, <1>2, <1>3, InsertedKept

LEMMA PageKeptInv ==
  ASSUME BroadcastInv, NEW m \in Message, NEW u \in Update, NEW n \in 1..m.pages,
         PageKept(m, u, n)
  PROVE  BroadcastInv'
<1> USE DEF BroadcastInv
<1> DEFINE pages == Inserted(nodes[<<m, u>>], n)
<1>1. /\ pages \in Seq(Page) /\ Len(pages) = Len(nodes[<<m, u>>]) + 1
      /\ Kept(pages, m.pages)
  BY NewPageKept DEF PageKept
<1>2. /\ Len(nodes[<<m, u>>]) + 1 < m.pages
      /\ nodes' = [nodes EXCEPT ![<<m, u>>] = pages]
      /\ UNCHANGED <<recv, delivered, alive>>
  BY DEF PageKept
<1> HIDE DEF pages
<1>3. /\ nodes' \in [Serial -> Seq(Page)]
      /\ nodes'[<<m, u>>] = pages
      /\ \A s \in Serial : s # <<m, u>> => nodes'[s] = nodes[s]
  BY <1>1, <1>2 DEF BroadcastTypeOK, Serial
<1>4. BroadcastTypeOK'
  BY <1>2, <1>3 DEF BroadcastTypeOK
<1>5. ASSUME NEW o \in Message, NEW v \in Update
      PROVE  Kept(nodes'[<<o, v>>], o.pages) /\ Len(nodes'[<<o, v>>]) < o.pages
  <2>1. CASE <<o, v>> = <<m, u>>
    BY <2>1, <1>1, <1>2, <1>3
  <2>2. CASE <<o, v>> # <<m, u>>
    BY <2>2, <1>3 DEF NodesKept, Serial
  <2>. QED BY <2>1, <2>2
<1>6. DeliveredWhole'
  BY <1>2 DEF DeliveredWhole
<1>. QED BY <1>4, <1>5, <1>6 DEF NodesKept

(* What expires is kept no longer. *)
LEMMA ExpireInv ==
  ASSUME NEW ss, NEW ns, Expire(ss, ns),
         \A s \in Serial : s \notin ss => ns[s] \in Seq(Page),
         \A m \in Message, u \in Update :
           <<m, u>> \notin ss =>
             Kept(ns[<<m, u>>], m.pages) /\ Len(ns[<<m, u>>]) < m.pages
  PROVE  /\ nodes' \in [Serial -> Seq(Page)]
         /\ alive' \in BOOLEAN
         /\ NodesKept'
<1>1. nodes' = [s \in Serial |-> IF s \in ss THEN << >> ELSE ns[s]]
  BY DEF Expire
<1>2. << >> \in Seq(Page)
  OBVIOUS
<1>3. nodes' \in [Serial -> Seq(Page)]
  BY <1>1, <1>2
<1>4. alive' \in BOOLEAN
  BY Zenon DEF Expire
<1>5. ASSUME NEW m \in Message, NEW u \in Update
      PROVE  Kept(nodes'[<<m, u>>], m.pages) /\ Len(nodes'[<<m, u>>]) < m.pages
  <2>1. nodes'[<<m, u>>] = IF <<m, u>> \in ss THEN << >> ELSE ns[<<m, u>>]
    BY <1>1 DEF Serial
  <2>. QED BY <2>1, MessageType, EmptyKept
<1>. QED BY <1>3, <1>4, <1>5 DEF NodesKept

LEMMA PageCompletesInv ==
  ASSUME BroadcastInv, NEW m \in Message, NEW u \in Update, NEW n \in 1..m.pages,
         PageCompletes(m, u, n)
  PROVE  BroadcastInv'
<1> USE DEF BroadcastInv
<1> DEFINE pages == Inserted(nodes[<<m, u>>], n)
           ns == [nodes EXCEPT ![<<m, u>>] = << >>]
<1>1. /\ pages \in Seq(Page) /\ Len(pages) = Len(nodes[<<m, u>>]) + 1
      /\ Kept(pages, m.pages)
  BY NewPageKept DEF PageCompletes
<1>2. /\ Len(nodes[<<m, u>>]) + 1 = m.pages
      /\ delivered' = pages
      /\ recv' = [recv EXCEPT ![m] = u]
      /\ Expire(Overtaken(m, u), ns)
  BY DEF PageCompletes
<1> HIDE DEF pages
<1>3. \A i \in 1..m.pages : pages[i].number = i
  BY <1>1, <1>2, MessageType, AllInPlace
<1>4. DeliveredWhole'
  <2>1. DOMAIN pages = 1..m.pages
    BY <1>1, <1>2
  <2>. QED BY <1>1, <1>2, <1>3, <2>1 DEF DeliveredWhole, Kept
<1>5. /\ ns \in [Serial -> Seq(Page)] /\ ns[<<m, u>>] = << >>
      /\ \A s \in Serial : s # <<m, u>> => ns[s] = nodes[s]
  BY DEF BroadcastTypeOK, Serial
<1> HIDE DEF ns
<1>6. ASSUME NEW o \in Message, NEW v \in Update
      PROVE  Kept(ns[<<o, v>>], o.pages) /\ Len(ns[<<o, v>>]) < o.pages
  <2>1. CASE <<o, v>> = <<m, u>>
    BY <2>1, <1>5, MessageType, EmptyKept
  <2>2. CASE <<o, v>> # <<m, u>>
    BY <2>2, <1>5 DEF NodesKept, Serial
  <2>. QED BY <2>1, <2>2
<1>7. nodes' \in [Serial -> Seq(Page)] /\ alive' \in BOOLEAN /\ NodesKept'
  BY <1>2, <1>5, <1>6, ExpireInv
<1>8. recv' \in [Message -> Update \cup {None}]
  BY <1>2 DEF BroadcastTypeOK
<1>9. BroadcastTypeOK'
  BY <1>1, <1>2, <1>7, <1>8 DEF BroadcastTypeOK
<1>. QED BY <1>4, <1>7, <1>9

LEMMA LocationChangedInv ==
  ASSUME BroadcastInv, NEW plmn \in BOOLEAN, NEW lac \in BOOLEAN, NEW ci \in BOOLEAN,
         LocationChanged(plmn, lac, ci)
  PROVE  BroadcastInv'
<1> USE DEF BroadcastInv
<1> DEFINE ended == Ended(plmn, lac, ci)
           ss == {s \in Serial : s[1].scope \in ended}
           ns == [s \in Serial |-> IF s[1].scope \in ended THEN Left(nodes[s]) ELSE nodes[s]]
<1>1. /\ recv' = [m \in Message |-> IF m.scope \in ended THEN None ELSE recv[m]]
      /\ Expire(ss, ns)
      /\ delivered' = delivered
  BY DEF LocationChanged, Expired
<1>2. \A s \in Serial : s \notin ss => ns[s] = nodes[s]
  OBVIOUS
<1>3. recv' \in [Message -> Update \cup {None}]
  BY <1>1 DEF BroadcastTypeOK
<1> HIDE DEF ss, ns
<1>4. \A s \in Serial : s \notin ss => ns[s] \in Seq(Page)
  BY <1>2 DEF BroadcastTypeOK
<1>5. \A m \in Message, u \in Update :
        <<m, u>> \notin ss => Kept(ns[<<m, u>>], m.pages) /\ Len(ns[<<m, u>>]) < m.pages
  BY <1>2 DEF NodesKept, Serial
<1>6. nodes' \in [Serial -> Seq(Page)] /\ alive' \in BOOLEAN /\ NodesKept'
  BY <1>1, <1>4, <1>5, ExpireInv
<1>7. BroadcastTypeOK' /\ DeliveredWhole'
  BY <1>1, <1>3, <1>6 DEF BroadcastTypeOK, DeliveredWhole
<1>. QED BY <1>6, <1>7

LEMMA BroadcastNextInv == BroadcastInv /\ [BroadcastNext]_broadcastVars => BroadcastInv'
<1> SUFFICES ASSUME BroadcastInv, [BroadcastNext]_broadcastVars PROVE BroadcastInv'
  OBVIOUS
<1>1. CASE UNCHANGED broadcastVars
  BY <1>1 DEF broadcastVars, BroadcastInv, BroadcastTypeOK, NodesKept, DeliveredWhole
<1>2. CASE BroadcastNext
  BY <1>2, OnlyPageInv, PageKeptInv, PageCompletesInv, LocationChangedInv DEF BroadcastNext
<1>. QED BY <1>1, <1>2

LEMMA MessagesWholeLemma == ASSUME BroadcastInv PROVE MessagesWhole
<1>1. \A s \in Serial : Len(nodes[s]) < s[1].pages
  BY DEF BroadcastInv, NodesKept, Serial
<1>. QED BY <1>1 DEF BroadcastInv, DeliveredWhole, MessagesWhole

(* The comparison of update numbers: eight more modulo 16, compared as if  *)
(* they did not wrap.                                                      *)
LEMMA NewerJudged ==
  ASSUME NEW new \in 0..15, NEW old \in 0..15, new # old
  PROVE  (Newer(new, old) = EightOrLessHigher(new, old)) <=> ((old < 8) <=> (new > old))
<1>1. (old + 8) % 16 = IF old < 8 THEN old + 8 ELSE old - 8
  OBVIOUS
<1>2. (new + 16 - old) % 16 = IF new >= old THEN new - old ELSE new + 16 - old
  OBVIOUS
<1>3. Newer(new, old) <=> new <= IF old < 8 THEN old + 8 ELSE old - 8
  BY <1>1 DEF Newer
<1>4. EightOrLessHigher(new, old)
      <=> (IF new >= old THEN new - old ELSE new + 16 - old) \in 1..8
  BY <1>2 DEF EightOrLessHigher
<1>5. Newer(new, old) \in BOOLEAN /\ EightOrLessHigher(new, old) \in BOOLEAN
  BY DEF Newer, EightOrLessHigher
<1>6. (Newer(new, old) <=> EightOrLessHigher(new, old)) <=> ((old < 8) <=> (new > old))
  <2>1. CASE old < 8 /\ new > old
    BY <1>3, <1>4, <2>1
  <2>2. CASE old < 8 /\ new < old
    BY <1>3, <1>4, <2>2
  <2>3. CASE old >= 8 /\ new > old
    BY <1>3, <1>4, <2>3
  <2>4. CASE old >= 8 /\ new < old
    BY <1>3, <1>4, <2>4
  <2>. QED BY <2>1, <2>2, <2>3, <2>4
<1>. QED BY <1>5, <1>6

LEMMA UpdatesJudgedLemma == ASSUME BroadcastInv PROVE UpdatesJudged
<1>1. \A m \in Message : recv[m] # None => recv[m] \in 0..15
  BY CellBroadcastAssumption DEF CellBroadcastAssumption, BroadcastInv, BroadcastTypeOK
<1>. QED BY <1>1, NewerJudged DEF UpdatesJudged

-----------------------------------------------------------------------------
(* The part that runs keeps its invariant; the other two stand still.      *)
IInv == CounterInv /\ HomeInv /\ BroadcastInv

LEMMA Invariance == Spec => []IInv
<1>1. Init => IInv
  BY CounterInitInv, HomeInitInv, BroadcastInitInv DEF Init, IInv
<1>2. IInv /\ [Next]_vars => IInv'
  <2> SUFFICES ASSUME IInv, [Next]_vars PROVE IInv'
    OBVIOUS
  <2>1. /\ [CounterNext]_counterVars
        /\ [HomeNext]_homeVars
        /\ [BroadcastNext]_broadcastVars
    BY DEF vars, Next, CounterRuns, HomeRuns, BroadcastRuns
  <2>. QED BY <2>1, CounterNextInv, HomeNextInv, BroadcastNextInv DEF IInv
<1>. QED BY <1>1, <1>2, PTL DEF Spec

(* Every variable keeps its type; so every page kept or delivered is one.  *)
THEOREM TypeCorrect == Spec => []PartsTypeOK
<1>1. IInv => PartsTypeOK
  BY DEF IInv, CounterInv, HomeInv, BroadcastInv, PartsTypeOK
<1>. QED BY Invariance, <1>1, PTL

(* The counter holds what GConf does once everything was told, although    *)
(* changes are told late, for both sides, and misread while roaming.       *)
THEOREM CounterCurrent == Spec => []CounterIsCurrent
<1>1. IInv => CounterIsCurrent
  BY CounterIsCurrentLemma DEF IInv
<1>. QED BY Invariance, <1>1, PTL

(* A dialog shows, saves and resets the side in its title.                 *)
THEOREM DialogsShowTheirSide == Spec => []DialogShowsItsSide
<1>1. IInv => DialogShowsItsSide
  BY CounterIsCurrentLemma DEF IInv
<1>. QED BY Invariance, <1>1, PTL

(* The period of the warnings follows the switch and the limit, whatever   *)
(* icd, the dialog and the error note write, unless a save overlaps with   *)
(* the switching off of the same side.                                     *)
THEOREM WritersAgree == Spec => []SwitchAndPeriodAgree
<1>1. IInv => SwitchAndPeriodAgree
  BY CounterIsCurrentLemma DEF IInv
<1>. QED BY Invariance, <1>1, PTL

(* The label shows the names of the registrations there are, for any       *)
(* registrations and any order of signals, sources and flight mode.        *)
THEOREM LabelShowsNames == Spec => []LabelAsTold
<1>1. IInv => LabelAsTold
  BY LabelAsToldLemma DEF IInv
<1>. QED BY Invariance, <1>1, PTL

(* Messages are delivered whole and in order, for any number of pages up   *)
(* to fifteen, any messages and any updates.                               *)
THEOREM BroadcastsAreWhole == Spec => []MessagesWhole
<1>1. IInv => MessagesWhole
  BY MessagesWholeLemma DEF IInv
<1>. QED BY Invariance, <1>1, PTL

(* Of two updates the later one is found for all sixteen numbers where     *)
(* they do not wrap at eight, and never where they do.                     *)
THEOREM UpdatesAreJudged == Spec => []UpdatesJudged
<1>1. IInv => UpdatesJudged
  BY UpdatesJudgedLemma DEF IInv
<1>. QED BY Invariance, <1>1, PTL
=============================================================================
