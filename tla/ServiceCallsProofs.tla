------------------------- MODULE ServiceCallsProofs -------------------------
(* The invariants of ServiceCalls, and that its calls are the requests of  *)
(* ServiceRequests, proved for every set of modems, every set of call      *)
(* records and every bound on the ids.                                     *)
EXTENDS ServiceCalls, TLAPS

(* A queued call addresses a modem. *)
QueuedHaveModem == \A c \in Call : scd[c].stage = "queued" => scd[c].modem \in Modem

(* The inductive invariant.  HeldIdFindsOwnCall is preserved because       *)
(* CallsUnderOwnId bounds every id in use by service_call_id: the next     *)
(* number is not in use, and numbering restarts only when none is.         *)
IInv ==
  /\ TypeOK
  /\ CallsUnderOwnId
  /\ HeldIdFindsOwnCall
  /\ QueueHoldsLiveCalls
  /\ QueuedHaveModem
  /\ ContextLivesWithItsUsers

USE ConstantsAssumption DEF ConstantsAssumption

LEMMA FreeCallType == FreeCall \in Scd
BY DEF FreeCall, Scd

LEMMA InitIInv == Init => IInv
<1> SUFFICES ASSUME Init PROVE IInv
  OBVIOUS
<1>1. TypeOK
  <2>1. initialized \in BOOLEAN /\ clients \in BOOLEAN
    BY Zenon DEF Init
  <2>7. service_call_id \in 0..MaxId
    BY DEF Init
  <2>8. leaving \in SUBSET Modem
    BY DEF Init
  <2>2. service_calls \in [Id -> Call \cup {NoCall}]
    BY DEF Init, NoCalls
  <2>5. sups \in [Modem -> SupsState]
    BY DEF Init, SupsState
  <2>6. pending \in [Modem -> SUBSET Call]
    BY DEF Init
  <2>3. scd \in [Call -> Scd] /\ held \in [Call -> 0..MaxId]
    BY FreeCallType DEF Init
  <2>4. \A c \in Call : scd[c] = FreeCall /\ held[c] = 0
    BY DEF Init
  <2>. QED BY <2>1, <2>2, <2>3, <2>4, <2>5, <2>6, <2>7, <2>8
       DEF TypeOK
<1>2. \A c \in Call : scd[c] = FreeCall /\ held[c] = 0
  BY DEF Init
<1>3. CallsUnderOwnId /\ HeldIdFindsOwnCall /\ QueuedHaveModem
  <2>1. \A i \in Id : service_calls[i] = NoCall
    BY DEF Init, NoCalls
  <2>2. \A c \in Call : scd[c].stage = "free"
    BY <1>2 DEF FreeCall
  <2>. QED BY <1>2, <2>1, <2>2 DEF CallsUnderOwnId, HeldIdFindsOwnCall,
                                   QueuedHaveModem, Outstanding
<1>4. QueueHoldsLiveCalls
  BY <1>2 DEF Init, QueueHoldsLiveCalls, FreeCall
<1>5. ContextLivesWithItsUsers
  BY DEF Init, ContextLivesWithItsUsers, ContextNeeded
<1>. QED BY <1>1, <1>3, <1>4, <1>5 DEF IInv

(* A restarted process is in the initial state. *)
LEMMA ProcessDiesIInv == ProcessDies => IInv'
<1> SUFFICES ASSUME ProcessDies PROVE IInv'
  OBVIOUS
<1>1. TypeOK'
  <2>1. initialized' \in BOOLEAN /\ clients' \in BOOLEAN
    BY Zenon DEF ProcessDies
  <2>7. service_call_id' \in 0..MaxId
    BY DEF ProcessDies
  <2>8. leaving' \in SUBSET Modem
    BY DEF ProcessDies
  <2>2. service_calls' \in [Id -> Call \cup {NoCall}]
    BY DEF ProcessDies, NoCalls
  <2>5. sups' \in [Modem -> SupsState]
    BY DEF ProcessDies, SupsState
  <2>6. pending' \in [Modem -> SUBSET Call]
    BY DEF ProcessDies
  <2>3. scd' \in [Call -> Scd] /\ held' \in [Call -> 0..MaxId]
    BY FreeCallType DEF ProcessDies
  <2>4. \A c \in Call : scd'[c] = FreeCall /\ held'[c] = 0
    BY DEF ProcessDies
  <2>. QED BY <2>1, <2>2, <2>3, <2>4, <2>5, <2>6, <2>7, <2>8
       DEF TypeOK
<1>2. \A c \in Call : scd'[c] = FreeCall /\ held'[c] = 0
  BY DEF ProcessDies
<1>3. CallsUnderOwnId' /\ HeldIdFindsOwnCall' /\ QueuedHaveModem'
  <2>1. \A i \in Id : service_calls'[i] = NoCall
    BY DEF ProcessDies, NoCalls
  <2>2. \A c \in Call : scd'[c].stage = "free"
    BY <1>2 DEF FreeCall
  <2>. QED BY <1>2, <2>1, <2>2 DEF CallsUnderOwnId, HeldIdFindsOwnCall,
                                   QueuedHaveModem, Outstanding
<1>4. QueueHoldsLiveCalls'
  BY <1>2 DEF ProcessDies, QueueHoldsLiveCalls, FreeCall
<1>5. ContextLivesWithItsUsers'
  BY DEF ProcessDies, ContextLivesWithItsUsers, ContextNeeded
<1>. QED BY <1>1, <1>3, <1>4, <1>5 DEF IInv

(* No entry of the table is the same as no call outstanding. *)
LEMMA EmptyTable ==
  ASSUME IInv
  PROVE  service_calls = NoCalls <=> \A c \in Call : ~Outstanding(c)
<1>1. ASSUME service_calls = NoCalls, NEW c \in Call, Outstanding(c) PROVE FALSE
  BY <1>1 DEF IInv, TypeOK, CallsUnderOwnId, NoCalls, Id
<1>2. ASSUME \A c \in Call : ~Outstanding(c), NEW i \in Id
      PROVE  service_calls[i] = NoCall
  BY <1>2 DEF IInv, TypeOK, CallsUnderOwnId
<1>3. (\A i \in Id : service_calls[i] = NoCall) => service_calls = NoCalls
  BY DEF IInv, TypeOK, NoCalls
<1>. QED BY <1>1, <1>2, <1>3

(* Without a call in the table every queue is empty. *)
LEMMA EmptyQueues ==
  ASSUME IInv, service_calls = NoCalls
  PROVE  \A m \in Modem : pending[m] = {}
<1>1. \A c \in Call : scd[c].stage = "free"
  BY EmptyTable DEF Outstanding
<1>2. \A m \in Modem : \A c \in pending[m] : c \in Call /\ scd[c].stage = "queued"
  BY DEF IInv, TypeOK, QueueHoldsLiveCalls
<1>. QED BY <1>1, <1>2

LEMMA RegisterIInv == IInv /\ Register => IInv'
<1> SUFFICES ASSUME IInv, Register PROVE IInv'
  OBVIOUS
<1>1. sups' \in [Modem -> SupsState]
  BY DEF IInv, TypeOK, Register, ModemsAfterGet, Arrival, SupsState
<1>2. TypeOK'
  BY <1>1 DEF IInv, TypeOK, Register, Outstanding
<1>3. CallsUnderOwnId' /\ HeldIdFindsOwnCall' /\ QueuedHaveModem'
  BY DEF IInv, CallsUnderOwnId, HeldIdFindsOwnCall, QueuedHaveModem, Register,
         Outstanding
<1>4. ContextLivesWithItsUsers'
  BY DEF Register, ContextLivesWithItsUsers, ContextNeeded
<1>5. QueueHoldsLiveCalls'
  <2>1. CASE initialized
    BY <2>1 DEF IInv, QueueHoldsLiveCalls, Register, ModemsAfterGet
  <2>2. CASE ~initialized
    <3>1. service_calls = NoCalls
      BY <2>2 DEF IInv, ContextLivesWithItsUsers, ContextNeeded
    <3>2. \A c \in Call : scd[c].stage = "free"
      BY <3>1, EmptyTable DEF Outstanding
    <3>3. \A m \in Modem : pending[m] = {}
      BY <3>1, EmptyQueues
    <3>. QED BY <3>2, <3>3 DEF QueueHoldsLiveCalls, Register
  <2>. QED BY <2>1, <2>2
<1>. QED BY <1>2, <1>3, <1>4, <1>5 DEF IInv

(* context_destroy keeps the types, and what survives it are the modems    *)
(* and queues it was given while the context is needed.                    *)
LEMMA ContextDestroyTypes ==
  ASSUME NEW cl, NEW table, NEW s \in [Modem -> SupsState],
         NEW p \in [Modem -> SUBSET Call], ContextDestroy(cl, table, s, p)
  PROVE  /\ initialized' = ContextNeeded(cl, table)
         /\ initialized' \in BOOLEAN
         /\ sups' \in [Modem -> SupsState]
         /\ pending' \in [Modem -> SUBSET Call]
         /\ \A m \in Modem : pending'[m] = p[m] \/ pending'[m] = {}
         /\ ContextNeeded(cl, table) => sups' = s /\ pending' = p
<1>1. ContextNeeded(cl, table) \in BOOLEAN
  BY DEF ContextNeeded
<1>2. CASE ContextNeeded(cl, table)
  BY <1>1, <1>2 DEF ContextDestroy
<1>3. CASE ~ContextNeeded(cl, table)
  BY <1>1, <1>3 DEF ContextDestroy, SupsState
<1>. QED BY <1>2, <1>3

LEMMA CloseIInv == IInv /\ Close => IInv'
<1> SUFFICES ASSUME IInv, Close PROVE IInv'
  OBVIOUS
<1>1. /\ ContextDestroy(FALSE, service_calls, sups, pending)
      /\ clients' = FALSE
      /\ UNCHANGED <<service_call_id, service_calls, leaving, scd, held>>
  BY DEF Close
<1>2. /\ sups \in [Modem -> SupsState]
      /\ pending \in [Modem -> SUBSET Call]
  BY DEF IInv, TypeOK
<1>3. /\ initialized' = ContextNeeded(FALSE, service_calls)
      /\ initialized' \in BOOLEAN
      /\ sups' \in [Modem -> SupsState]
      /\ pending' \in [Modem -> SUBSET Call]
      /\ \A m \in Modem : pending'[m] = pending[m] \/ pending'[m] = {}
      /\ ContextNeeded(FALSE, service_calls) => sups' = sups /\ pending' = pending
  BY <1>1, <1>2, ContextDestroyTypes
<1>4. TypeOK'
  BY <1>1, <1>3 DEF IInv, TypeOK, Outstanding
<1>5. CallsUnderOwnId' /\ HeldIdFindsOwnCall' /\ QueuedHaveModem'
  BY <1>1 DEF IInv, CallsUnderOwnId, HeldIdFindsOwnCall, QueuedHaveModem,
              Outstanding
<1>6. ContextLivesWithItsUsers'
  BY <1>1, <1>3 DEF ContextLivesWithItsUsers, ContextNeeded
<1>7. QueueHoldsLiveCalls'
  <2>1. CASE service_calls # NoCalls
    BY <2>1, <1>1, <1>3 DEF IInv, QueueHoldsLiveCalls, ContextNeeded
  <2>2. CASE service_calls = NoCalls
    <3>1. \A c \in Call : scd'[c].stage = "free"
      BY <2>2, <1>1, EmptyTable DEF Outstanding
    <3>2. \A m \in Modem : pending'[m] = {}
      BY <2>2, <1>3, EmptyQueues
    <3>. QED BY <3>1, <3>2 DEF QueueHoldsLiveCalls
  <2>. QED BY <2>1, <2>2
<1>. QED BY <1>4, <1>5, <1>6, <1>7 DEF IInv

(* What context_get leaves to a handler: the modems it knew, or, when the  *)
(* context is new, any modems, while no call is outstanding.               *)
LEMMA AfterGet ==
  ASSUME IInv, NEW got \in ModemsAfterGet
  PROVE  /\ got \in [Modem -> SupsState]
         /\ got = sups \/ \A c \in Call : scd[c] = FreeCall
         /\ got = sups \/ \A m \in Modem : pending[m] = {}
<1>1. CASE initialized
  BY <1>1 DEF IInv, TypeOK, ModemsAfterGet
<1>2. CASE ~initialized
  <2>1. service_calls = NoCalls
    BY <1>2 DEF IInv, ContextLivesWithItsUsers, ContextNeeded
  <2>2. \A c \in Call : scd[c] = FreeCall
    BY <2>1, EmptyTable DEF IInv, TypeOK
  <2>3. got \in [Modem -> SupsState]
    BY <1>2 DEF IInv, TypeOK, ModemsAfterGet, Arrival, SupsState
  <2>. QED BY <2>1, <2>2, <2>3, EmptyQueues
<1>. QED BY <1>1, <1>2

-----------------------------------------------------------------------------
(* The counter, the table, the records and the ids the clients hold, as    *)
(* values: the part of IInv that adding and taking a call must keep.       *)
TableOK(last, table, s, h) ==
  /\ last \in 0..MaxId
  /\ table \in [Id -> Call \cup {NoCall}]
  /\ s \in [Call -> Scd]
  /\ h \in [Call -> 0..MaxId]
  /\ \A c \in Call : s[c].stage = "free" => s[c] = FreeCall /\ h[c] = 0
  /\ \A c \in Call : s[c].stage # "free" => s[c].id \in 1..last /\ table[s[c].id] = c
  /\ \A i \in Id : table[i] # NoCall => s[table[i]].stage # "free" /\ s[table[i]].id = i
  /\ \A c \in Call : h[c] # 0 => table[h[c]] = c

LEMMA TableOKNow == IInv => TableOK(service_call_id, service_calls, scd, held)
BY DEF IInv, TypeOK, CallsUnderOwnId, HeldIdFindsOwnCall, TableOK, Outstanding

(* The state after a step satisfies IInv when its parts do. *)
LEMMA TableOKNext ==
  ASSUME TableOK(service_call_id', service_calls', scd', held'),
         initialized' \in BOOLEAN, clients' \in BOOLEAN,
         sups' \in [Modem -> SupsState], pending' \in [Modem -> SUBSET Call],
         leaving' \in SUBSET Modem,
         QueueHoldsLiveCalls', QueuedHaveModem', ContextLivesWithItsUsers'
  PROVE  IInv'
BY DEF IInv, TypeOK, CallsUnderOwnId, HeldIdFindsOwnCall, TableOK, Outstanding

(* A call enters the table under the next number. *)
LEMMA TableAdd ==
  ASSUME NEW last, NEW table, NEW s, NEW h, TableOK(last, table, s, h),
         last + 1 \in Id, NEW c \in Call, s[c].stage = "free",
         NEW x \in Scd, x.stage # "free", x.id = last + 1,
         NEW hc \in {0, last + 1}
  PROVE  /\ TableOK(last + 1, Added(table, last + 1, c), [s EXCEPT ![c] = x],
                    [h EXCEPT ![c] = hc])
         /\ Added(table, last + 1, c) # NoCalls
<1> DEFINE table2 == Added(table, last + 1, c)
           s2 == [s EXCEPT ![c] = x]
           h2 == [h EXCEPT ![c] = hc]
<1>1. /\ last \in Nat /\ last + 1 \in 1..MaxId
      /\ table \in [Id -> Call \cup {NoCall}]
      /\ s \in [Call -> Scd] /\ h \in [Call -> 0..MaxId]
  BY DEF TableOK, Id
<1>2. \A d \in Call : s[d].id # last + 1
  BY <1>1 DEF TableOK, FreeCall
<1>3. table[last + 1] = NoCall
  BY <1>1, <1>2 DEF TableOK
<1>4. \A d \in Call : h[d] # last + 1
  BY <1>1, <1>3 DEF TableOK
<1>5. /\ table2 \in [Id -> Call \cup {NoCall}]
      /\ table2[last + 1] = c
      /\ \A i \in Id : i # last + 1 => table2[i] = table[i]
  BY <1>1 DEF Added
<1>6. /\ s2 \in [Call -> Scd] /\ h2 \in [Call -> 0..MaxId]
      /\ s2[c] = x /\ h2[c] = hc
      /\ \A d \in Call : d # c => s2[d] = s[d] /\ h2[d] = h[d]
  BY <1>1 DEF Id
<1>7. table2 # NoCalls
  BY <1>5 DEF NoCalls
<1>8. \A d \in Call : s2[d].stage = "free" => s2[d] = FreeCall /\ h2[d] = 0
  BY <1>6 DEF TableOK
<1>9. ASSUME NEW d \in Call, s2[d].stage # "free"
      PROVE  s2[d].id \in 1..(last + 1) /\ table2[s2[d].id] = d
  <2>1. CASE d = c
    BY <2>1, <1>1, <1>5, <1>6
  <2>2. CASE d # c
    <3>1. s[d].id \in 1..last /\ table[s[d].id] = d
      BY <2>2, <1>9, <1>6 DEF TableOK
    <3>. QED BY <3>1, <2>2, <1>1, <1>2, <1>5, <1>6 DEF Id
  <2>. QED BY <2>1, <2>2
<1>10. ASSUME NEW i \in Id, table2[i] # NoCall
       PROVE  s2[table2[i]].stage # "free" /\ s2[table2[i]].id = i
  <2>1. CASE i = last + 1
    BY <2>1, <1>5, <1>6
  <2>2. CASE i # last + 1
    <3>1. table2[i] = table[i] /\ table[i] \in Call
      BY <2>2, <1>10, <1>1, <1>5
    <3>2. s[table[i]].stage # "free" /\ s[table[i]].id = i
      BY <3>1, <1>10 DEF TableOK
    <3>. QED BY <3>1, <3>2, <1>6
  <2>. QED BY <2>1, <2>2
<1>11. ASSUME NEW d \in Call, h2[d] # 0
       PROVE  table2[h2[d]] = d
  <2>1. CASE d = c
    BY <2>1, <1>11, <1>5, <1>6
  <2>2. CASE d # c
    BY <2>2, <1>11, <1>1, <1>4, <1>5, <1>6 DEF TableOK, Id
  <2>. QED BY <2>1, <2>2
<1>. QED BY <1>1, <1>5, <1>6, <1>7, <1>8, <1>9, <1>10, <1>11 DEF TableOK

(* A call leaves the table; numbering may start again. *)
LEMMA TableTake ==
  ASSUME NEW last, NEW table, NEW s, NEW h, TableOK(last, table, s, h),
         NEW c \in Call, s[c].stage # "free",
         NEW table2, table2 = Taken(table, s[c].id)
  PROVE  TableOK(IdAfterTake(table2, last), table2,
                 [s EXCEPT ![c] = FreeCall], [h EXCEPT ![c] = 0])
<1> DEFINE s2 == [s EXCEPT ![c] = FreeCall]
           h2 == [h EXCEPT ![c] = 0]
           last2 == IdAfterTake(table2, last)
<1>1. /\ last \in Nat /\ last \in 0..MaxId
      /\ table \in [Id -> Call \cup {NoCall}]
      /\ s \in [Call -> Scd] /\ h \in [Call -> 0..MaxId]
      /\ s[c].id \in Id /\ table[s[c].id] = c
  BY DEF TableOK, Id
<1>2. /\ table2 \in [Id -> Call \cup {NoCall}]
      /\ table2[s[c].id] = NoCall
      /\ \A i \in Id : i # s[c].id => table2[i] = table[i]
  BY <1>1 DEF Taken
<1>3. /\ s2 \in [Call -> Scd] /\ h2 \in [Call -> 0..MaxId]
      /\ s2[c] = FreeCall /\ h2[c] = 0
      /\ \A d \in Call : d # c => s2[d] = s[d] /\ h2[d] = h[d]
  BY <1>1, FreeCallType
<1>4. \A d \in Call : s2[d].stage = "free" => s2[d] = FreeCall /\ h2[d] = 0
  BY <1>3 DEF TableOK
<1>5. ASSUME NEW d \in Call, s2[d].stage # "free"
      PROVE  /\ d # c /\ s2[d] = s[d]
             /\ s[d].id \in 1..last /\ s[d].id \in Id
             /\ table2[s[d].id] = d
  <2>1. d # c /\ s2[d] = s[d]
    BY <1>5, <1>3 DEF FreeCall
  <2>2. s[d].id \in 1..last /\ table[s[d].id] = d
    BY <2>1, <1>5 DEF TableOK
  <2>. QED BY <2>1, <2>2, <1>1, <1>2 DEF Id
<1>6. last2 \in 0..MaxId
  BY <1>1 DEF IdAfterTake
<1>7. ASSUME NEW d \in Call, s2[d].stage # "free"
      PROVE  s2[d].id \in 1..last2 /\ table2[s2[d].id] = d
  <2>1. table2 # NoCalls
    BY <1>5, <1>7 DEF NoCalls
  <2>. QED BY <2>1, <1>5, <1>7 DEF IdAfterTake
<1>8. ASSUME NEW i \in Id, table2[i] # NoCall
      PROVE  s2[table2[i]].stage # "free" /\ s2[table2[i]].id = i
  <2>1. /\ i # s[c].id /\ table2[i] = table[i] /\ table[i] \in Call
    BY <1>8, <1>1, <1>2
  <2>2. s[table[i]].stage # "free" /\ s[table[i]].id = i
    BY <2>1, <1>8 DEF TableOK
  <2>3. table[i] # c
    BY <2>1, <2>2
  <2>. QED BY <2>1, <2>2, <2>3, <1>3
<1>9. ASSUME NEW d \in Call, h2[d] # 0
      PROVE  table2[h2[d]] = d
  <2>1. d # c /\ h2[d] = h[d]
    BY <1>9, <1>3
  <2>2. table[h[d]] = d /\ h[d] \in Id
    BY <2>1, <1>9, <1>1 DEF TableOK, Id
  <2>3. h[d] # s[c].id
    BY <2>1, <2>2, <1>1
  <2>. QED BY <2>1, <2>2, <2>3, <1>2
<1>. QED BY <1>2, <1>3, <1>4, <1>6, <1>7, <1>8, <1>9 DEF TableOK

(* The records change in what the table does not look at. *)
LEMMA TableKeep ==
  ASSUME NEW last, NEW table, NEW s, NEW h, TableOK(last, table, s, h),
         NEW s2 \in [Call -> Scd],
         \A c \in Call : /\ s2[c].id = s[c].id
                         /\ s2[c].stage = "free" <=> s[c].stage = "free"
                         /\ s[c].stage = "free" => s2[c] = s[c]
  PROVE  TableOK(last, table, s2, h)
<1>1. ASSUME NEW i \in Id, table[i] # NoCall
      PROVE  s2[table[i]].stage # "free" /\ s2[table[i]].id = i
  <2>1. table[i] \in Call
    BY <1>1 DEF TableOK
  <2>. QED BY <2>1, <1>1 DEF TableOK
<1>. QED BY <1>1 DEF TableOK
-----------------------------------------------------------------------------
LEMMA NewCallType ==
  ASSUME NEW stage \in {"queued", "flight"}, NEW i \in Id,
         NEW m \in Modem \cup {NoModem}
  PROVE  /\ NewCall(stage, i, m) \in Scd
         /\ NewCall(stage, i, m).stage = stage
         /\ NewCall(stage, i, m).id = i
         /\ NewCall(stage, i, m).modem = m
         /\ NewCall(stage, i, m).home
BY DEF NewCall, Scd, Id

LEMMA StartIInv ==
  ASSUME IInv, NEW c \in Call, NEW m \in Modem, NEW keep \in BOOLEAN,
         Start(c, m, keep)
  PROVE  IInv'
<1>1. PICK got \in ModemsAfterGet :
        /\ got[m] # "absent"
        /\ sups' = SupsGot(got, m)
        /\ IF got[m] = "proxy"
           THEN /\ scd' = [scd EXCEPT ![c] = NewCall("flight", NextId, m)]
                /\ pending' = pending
           ELSE /\ scd' = [scd EXCEPT ![c] = NewCall("queued", NextId, m)]
                /\ pending' = [pending EXCEPT ![m] = @ \cup {c}]
  BY DEF Start
<1>2. /\ scd[c].stage = "free" /\ NextId \in Id /\ initialized' = TRUE
      /\ service_call_id' = NextId
      /\ service_calls' = Added(service_calls, NextId, c)
      /\ held' = [held EXCEPT ![c] = IF keep THEN NextId ELSE 0]
      /\ UNCHANGED <<clients, leaving>>
  BY DEF Start, Outstanding
<1> DEFINE stage == IF got[m] = "proxy" THEN "flight" ELSE "queued"
           x == NewCall(stage, NextId, m)
<1>3. /\ x \in Scd /\ x.stage = stage /\ x.id = NextId /\ x.modem = m /\ x.home
  BY <1>2, NewCallType
<1>4. scd' = [scd EXCEPT ![c] = x]
  BY <1>1
<1>5. /\ TableOK(service_call_id', service_calls', scd', held')
      /\ service_calls' # NoCalls
  <2>1. TableOK(service_call_id, service_calls, scd, held)
    BY TableOKNow
  <2>2. x.stage # "free"
    BY <1>3
  <2>3. NextId = service_call_id + 1
    BY DEF NextId
  <2> DEFINE hc == IF keep THEN service_call_id + 1 ELSE 0
  <2>4. /\ hc \in {0, service_call_id + 1}
        /\ x.id = service_call_id + 1
        /\ service_call_id + 1 \in Id
    BY <2>3, <1>2, <1>3
  <2>5. /\ service_call_id' = service_call_id + 1
        /\ service_calls' = Added(service_calls, service_call_id + 1, c)
        /\ scd' = [scd EXCEPT ![c] = x]
        /\ held' = [held EXCEPT ![c] = hc]
    BY <2>3, <1>2, <1>4
  <2>6. x \in Scd /\ scd[c].stage = "free"
    BY <1>2, <1>3
  <2>. HIDE DEF x, hc
  <2>7. /\ TableOK(service_call_id + 1, Added(service_calls, service_call_id + 1, c),
                  [scd EXCEPT ![c] = x], [held EXCEPT ![c] = hc])
        /\ Added(service_calls, service_call_id + 1, c) # NoCalls
    BY <2>1, <2>2, <2>4, <2>6, TableAdd
  <2>. QED BY <2>5, <2>7
<1>6. /\ got \in [Modem -> SupsState]
      /\ got = sups \/ \A d \in Call : scd[d] = FreeCall
      /\ got = sups \/ \A n \in Modem : pending[n] = {}
  BY AfterGet
<1>7. /\ sups' \in [Modem -> SupsState]
      /\ sups'[m] = IF got[m] = "none" THEN "queue" ELSE got[m]
      /\ \A n \in Modem : n # m => sups'[n] = got[n]
  BY <1>1, <1>6 DEF SupsGot, SupsState
<1>8. /\ pending \in [Modem -> SUBSET Call] /\ scd \in [Call -> Scd]
      /\ initialized \in BOOLEAN /\ clients \in BOOLEAN /\ leaving \in SUBSET Modem
  BY DEF IInv, TypeOK
<1>9. /\ pending' \in [Modem -> SUBSET Call]
      /\ \A n \in Modem : n # m => pending'[n] = pending[n]
      /\ pending'[m] = IF stage = "queued" THEN pending[m] \cup {c} ELSE pending[m]
  BY <1>1, <1>8
<1>10. scd'[c] = x /\ \A d \in Call : d # c => scd'[d] = scd[d]
  BY <1>4, <1>8
<1>11. \A n \in Modem : c \notin pending[n]
  BY <1>2 DEF IInv, QueueHoldsLiveCalls
<1>12. \A n \in Modem, d \in Call : d \in pending[n] =>
         /\ scd[d].stage = "queued" /\ scd[d].modem = n /\ scd[d].home
         /\ sups[n] \in {"queue", "failed"} /\ got = sups
  BY <1>6 DEF IInv, QueueHoldsLiveCalls
<1>13. \A d \in Call : scd[d].home /\ scd[d].modem # NoModem =>
         /\ scd[d].stage = "queued" => d \in pending[scd[d].modem]
         /\ scd[d].stage = "flight" => sups[scd[d].modem] = "proxy" /\ got = sups
  BY <1>6 DEF IInv, QueueHoldsLiveCalls, FreeCall
<1>14. QueueHoldsLiveCalls'
  <2>1. ASSUME NEW n \in Modem, NEW d \in pending'[n]
        PROVE  /\ scd'[d].stage = "queued" /\ scd'[d].modem = n /\ scd'[d].home
               /\ sups'[n] \in {"queue", "failed"}
    <3>0. d \in Call
      BY <1>9
    <3>1. CASE d = c
      <4>1. n = m /\ stage = "queued"
        BY <3>1, <1>9, <1>11
      <4>. QED BY <4>1, <3>1, <1>1, <1>3, <1>6, <1>7, <1>10 DEF SupsState
    <3>2. CASE d # c
      BY <3>0, <3>2, <1>7, <1>9, <1>10, <1>12
    <3>. QED BY <3>1, <3>2
  <2>2. ASSUME NEW d \in Call, scd'[d].home, scd'[d].modem # NoModem
        PROVE  /\ scd'[d].stage = "queued" => d \in pending'[scd'[d].modem]
               /\ scd'[d].stage = "flight" => sups'[scd'[d].modem] = "proxy"
    <3>1. CASE d = c
      BY <3>1, <1>3, <1>7, <1>9, <1>10
    <3>2. CASE d # c
      <4>1. scd'[d] = scd[d] /\ scd[d].modem \in Modem
        BY <3>2, <2>2, <1>8, <1>10 DEF Scd
      <4>. QED BY <4>1, <2>2, <1>7, <1>9, <1>13
    <3>. QED BY <3>1, <3>2
  <2>. QED BY <2>1, <2>2 DEF QueueHoldsLiveCalls
<1>15. QueuedHaveModem'
  BY <1>3, <1>10 DEF IInv, QueuedHaveModem
<1>16. ContextLivesWithItsUsers'
  BY <1>2, <1>5 DEF ContextLivesWithItsUsers, ContextNeeded
<1>. QED
  BY <1>2, <1>5, <1>7, <1>8, <1>9, <1>14, <1>15, <1>16, TableOKNext

LEMMA StartCallerIdIInv ==
  ASSUME IInv, NEW c \in Call, StartCallerId(c)
  PROVE  IInv'
<1> DEFINE x == NewCall("flight", service_call_id + 1, NoModem)
<1>1. /\ scd[c].stage = "free" /\ held[c] = 0 /\ scd[c] = FreeCall
      /\ service_call_id + 1 \in Id
      /\ sups' \in ModemsAfterGet /\ initialized' = TRUE
      /\ service_call_id' = service_call_id + 1
      /\ service_calls' = Added(service_calls, service_call_id + 1, c)
      /\ scd' = [scd EXCEPT ![c] = x]
      /\ UNCHANGED <<clients, pending, leaving, held>>
  BY DEF IInv, TypeOK, StartCallerId, Outstanding, NextId
<1>2. /\ x \in Scd /\ x.stage = "flight" /\ x.id = service_call_id + 1
      /\ x.modem = NoModem
  BY <1>1, NewCallType
<1>3. /\ pending \in [Modem -> SUBSET Call] /\ scd \in [Call -> Scd]
      /\ clients \in BOOLEAN /\ leaving \in SUBSET Modem
      /\ held \in [Call -> 0..MaxId]
  BY DEF IInv, TypeOK
<1>4. /\ TableOK(service_call_id', service_calls', scd', held')
      /\ service_calls' # NoCalls
  <2>1. TableOK(service_call_id, service_calls, scd, held)
    BY TableOKNow
  <2>2. held' = [held EXCEPT ![c] = 0]
    BY <1>1, <1>3
  <2>3. x.stage # "free"
    BY <1>2
  <2>. HIDE DEF x
  <2>4. /\ TableOK(service_call_id + 1, Added(service_calls, service_call_id + 1, c),
                  [scd EXCEPT ![c] = x], [held EXCEPT ![c] = 0])
        /\ Added(service_calls, service_call_id + 1, c) # NoCalls
    BY <2>1, <2>3, <1>1, <1>2, TableAdd
  <2>. QED BY <2>2, <2>4, <1>1
<1>5. /\ sups' \in [Modem -> SupsState]
      /\ sups' = sups \/ \A d \in Call : scd[d] = FreeCall
      /\ sups' = sups \/ \A n \in Modem : pending[n] = {}
  BY <1>1, AfterGet
<1>6. scd'[c] = x /\ \A d \in Call : d # c => scd'[d] = scd[d]
  BY <1>1, <1>3
<1>7. QueueHoldsLiveCalls'
  <2>1. ASSUME NEW n \in Modem, NEW d \in pending'[n]
        PROVE  /\ scd'[d].stage = "queued" /\ scd'[d].modem = n /\ scd'[d].home
               /\ sups'[n] \in {"queue", "failed"}
    BY <1>1, <1>3, <1>5, <1>6 DEF IInv, QueueHoldsLiveCalls
  <2>2. ASSUME NEW d \in Call, scd'[d].home, scd'[d].modem # NoModem
        PROVE  /\ scd'[d].stage = "queued" => d \in pending'[scd'[d].modem]
               /\ scd'[d].stage = "flight" => sups'[scd'[d].modem] = "proxy"
    <3>1. d # c /\ scd'[d] = scd[d]
      BY <2>2, <1>2, <1>6
    <3>. QED BY <3>1, <2>2, <1>1, <1>5 DEF IInv, QueueHoldsLiveCalls, FreeCall
  <2>. QED BY <2>1, <2>2 DEF QueueHoldsLiveCalls
<1>8. QueuedHaveModem'
  BY <1>2, <1>6 DEF IInv, QueuedHaveModem
<1>9. ContextLivesWithItsUsers'
  BY <1>1, <1>4 DEF ContextLivesWithItsUsers, ContextNeeded
<1>. QED
  BY <1>1, <1>3, <1>4, <1>5, <1>7, <1>8, <1>9, TableOKNext

(* A call that calls back leaves the table and, if it was in one, its queue. *)
LEMMA CompletedIInv ==
  ASSUME IInv, NEW c \in Call, Outstanding(c),
         NEW p \in [Modem -> SUBSET Call],
         \A m \in Modem : p[m] = pending[m] \ {c},
         Completed(c, p)
  PROVE  IInv'
<1> DEFINE table == Taken(service_calls, scd[c].id)
<1>1. /\ service_calls' = table
      /\ service_call_id' = IdAfterTake(table, service_call_id)
      /\ scd' = [scd EXCEPT ![c] = FreeCall]
      /\ held' = [held EXCEPT ![c] = 0]
      /\ ContextDestroy(clients, table, sups, p)
      /\ UNCHANGED <<clients, leaving>>
  BY DEF Completed
<1>2. /\ sups \in [Modem -> SupsState] /\ pending \in [Modem -> SUBSET Call]
      /\ scd \in [Call -> Scd] /\ clients \in BOOLEAN /\ leaving \in SUBSET Modem
  BY DEF IInv, TypeOK
<1>3. TableOK(service_call_id', service_calls', scd', held')
  BY <1>1, TableOKNow, TableTake DEF Outstanding
<1> HIDE DEF table
<1>4. /\ initialized' = ContextNeeded(clients, table)
      /\ initialized' \in BOOLEAN
      /\ sups' \in [Modem -> SupsState]
      /\ pending' \in [Modem -> SUBSET Call]
      /\ \A m \in Modem : pending'[m] = p[m] \/ pending'[m] = {}
      /\ ContextNeeded(clients, table) => sups' = sups /\ pending' = p
  BY <1>1, <1>2, ContextDestroyTypes
<1>5. scd'[c] = FreeCall /\ \A d \in Call : d # c => scd'[d] = scd[d]
  BY <1>1, <1>2
<1>6. FreeCall.stage = "free"
  BY DEF FreeCall
<1>7. QueuedHaveModem'
  BY <1>5, <1>6 DEF IInv, QueuedHaveModem
<1>8. ContextLivesWithItsUsers'
  BY <1>1, <1>4 DEF ContextLivesWithItsUsers, ContextNeeded
<1>9. QueueHoldsLiveCalls'
  <2>1. CASE ContextNeeded(clients, table)
    <3>1. sups' = sups /\ pending' = p
      BY <2>1, <1>4
    <3>2. ASSUME NEW n \in Modem, NEW d \in pending'[n]
          PROVE  /\ scd'[d].stage = "queued" /\ scd'[d].modem = n /\ scd'[d].home
                 /\ sups'[n] \in {"queue", "failed"}
      <4>1. d \in pending[n] /\ d # c /\ d \in Call
        BY <3>1, <3>2, <1>2
      <4>. QED BY <4>1, <3>1, <1>5 DEF IInv, QueueHoldsLiveCalls
    <3>3. ASSUME NEW d \in Call, scd'[d].home, scd'[d].modem # NoModem
          PROVE  /\ scd'[d].stage = "queued" => d \in pending'[scd'[d].modem]
                 /\ scd'[d].stage = "flight" => sups'[scd'[d].modem] = "proxy"
      <4>1. d # c /\ scd'[d] = scd[d]
        BY <3>3, <1>5 DEF FreeCall
      <4>2. scd[d].modem \in Modem
        BY <4>1, <3>3, <1>2 DEF Scd
      <4>. QED BY <4>1, <4>2, <3>1, <3>3 DEF IInv, QueueHoldsLiveCalls
    <3>. QED BY <3>2, <3>3 DEF QueueHoldsLiveCalls
  <2>2. CASE ~ContextNeeded(clients, table)
    <3>1. service_calls' = NoCalls
      BY <2>2, <1>1 DEF ContextNeeded
    <3>2. \A i \in Id : service_calls'[i] = NoCall
      BY <3>1 DEF NoCalls
    <3>3. \A d \in Call : scd'[d].stage = "free"
      BY <3>2, <1>3 DEF TableOK, Id
    <3>4. ASSUME NEW n \in Modem, NEW d \in pending'[n] PROVE FALSE
      <4>1. d \in pending[n] /\ d # c /\ d \in Call
        BY <3>4, <1>2, <1>4
      <4>2. scd[d].stage = "queued"
        BY <4>1 DEF IInv, QueueHoldsLiveCalls
      <4>. QED BY <4>1, <4>2, <3>3, <1>5
    <3>. QED BY <3>3, <3>4 DEF QueueHoldsLiveCalls
  <2>. QED BY <2>1, <2>2
<1>. QED
  BY <1>1, <1>2, <1>3, <1>4, <1>7, <1>8, <1>9, TableOKNext

(* A call that is not queued is in no queue. *)
LEMMA NotQueued ==
  ASSUME IInv, NEW c \in Call, scd[c].stage # "queued" \/ ~scd[c].home
  PROVE  \A m \in Modem : pending[m] = pending[m] \ {c}
<1>1. \A m \in Modem : c \notin pending[m]
  BY DEF IInv, QueueHoldsLiveCalls
<1>. QED BY <1>1

LEMMA ReplyIInv ==
  ASSUME IInv, NEW c \in Call, Reply(c)
  PROVE  IInv'
<1>1. CASE Completed(c, pending)
  <2>1. scd[c].stage = "flight" /\ Outstanding(c)
    BY DEF Reply, Outstanding
  <2>2. pending \in [Modem -> SUBSET Call]
    BY DEF IInv, TypeOK
  <2>3. \A m \in Modem : pending[m] = pending[m] \ {c}
    BY <2>1, NotQueued
  <2>. QED BY <1>1, <2>1, <2>2, <2>3, CompletedIInv
<1>2. CASE ProcessDies
  BY <1>2, ProcessDiesIInv
<1>. QED BY <1>1, <1>2 DEF Reply

(* Fields that losing the sups_data or being cancelled leaves alone. *)
LEMMA RecordFields ==
  ASSUME NEW x \in Scd, NEW y, y \in {[x EXCEPT !.home = FALSE], [x EXCEPT !.cancelled = TRUE]}
  PROVE  /\ y \in Scd
         /\ y.id = x.id
         /\ y.stage = x.stage
         /\ y.modem = x.modem
BY DEF Scd

LEMMA CancelIInv ==
  ASSUME IInv, NEW c \in Call, Cancel(c)
  PROVE  IInv'
<1> DEFINE d == service_calls[held[c]]
<1>1. d = c /\ d \in Call
  BY DEF Cancel, CancelId, IInv, HeldIdFindsOwnCall
<1>2. /\ pending \in [Modem -> SUBSET Call] /\ scd \in [Call -> Scd]
      /\ sups \in [Modem -> SupsState] /\ initialized \in BOOLEAN
      /\ clients \in BOOLEAN /\ leaving \in SUBSET Modem
  BY DEF IInv, TypeOK
<1> HIDE DEF d
<1>3. CASE /\ scd[d].stage = "flight"
           /\ scd' = [scd EXCEPT ![d].cancelled = TRUE]
           /\ UNCHANGED <<initialized, clients, service_call_id, service_calls,
                          sups, pending, leaving, held>>
  <2>1. /\ scd'[d] = [scd[d] EXCEPT !.cancelled = TRUE]
        /\ \A e \in Call : e # d => scd'[e] = scd[e]
        /\ scd' = [e \in Call |-> scd'[e]]
    BY <1>1, <1>2, <1>3
  <2>7. \A e \in Call : scd'[e] \in Scd /\ scd'[e].id = scd[e].id
    BY <2>1, <1>1, <1>2, RecordFields
  <2>8. \A e \in Call : scd'[e].stage = scd[e].stage
    BY <2>1, <1>1, <1>2, RecordFields
  <2>9. \A e \in Call : scd'[e].modem = scd[e].modem
    BY <2>1, <1>1, <1>2, RecordFields
  <2>10. \A e \in Call : scd'[e].home = scd[e].home
    <3>1. scd'[d].home = scd[d].home
      BY <2>1, <1>1, <1>2 DEF Scd
    <3>. QED BY <3>1, <2>1
  <2>2. TableOK(service_call_id, service_calls, scd, held)
    BY TableOKNow
  <2>3. TableOK(service_call_id', service_calls', scd', held')
    <3>1. scd' \in [Call -> Scd]
      BY <2>1, <2>7
    <3>2. \A e \in Call : scd[e].stage = "free" => scd'[e] = scd[e]
      BY <2>1, <1>3
    <3>3. \A e \in Call : /\ scd'[e].id = scd[e].id
                          /\ scd'[e].stage = "free" <=> scd[e].stage = "free"
                          /\ scd[e].stage = "free" => scd'[e] = scd[e]
      BY <3>2, <2>7, <2>8
    <3>4. TableOK(service_call_id, service_calls, scd', held)
      BY <2>2, <3>1, <3>3, TableKeep
    <3>. QED BY <3>4, <1>3
  <2>4. QueueHoldsLiveCalls'
    <3>1. ASSUME NEW n \in Modem, NEW e \in pending'[n]
          PROVE  /\ scd'[e].stage = "queued" /\ scd'[e].modem = n /\ scd'[e].home
                 /\ sups'[n] \in {"queue", "failed"}
      <4>1. e \in Call /\ e \in pending[n]
        BY <3>1, <1>2, <1>3
      <4>2. e # d
        BY <4>1, <1>3 DEF IInv, QueueHoldsLiveCalls
      <4>. QED BY <4>1, <4>2, <2>1, <1>3 DEF IInv, QueueHoldsLiveCalls
    <3>2. ASSUME NEW e \in Call, scd'[e].home, scd'[e].modem # NoModem
          PROVE  /\ scd'[e].stage = "queued" => e \in pending'[scd'[e].modem]
                 /\ scd'[e].stage = "flight" => sups'[scd'[e].modem] = "proxy"
      <4>1. scd[e].home
        BY Zenon, <3>2, <2>10
      <4>2. scd'[e].modem = scd[e].modem /\ scd'[e].stage = scd[e].stage
        BY <2>8, <2>9
      <4>3. pending' = pending /\ sups' = sups
        BY <1>3
      <4>. QED BY <3>2, <4>1, <4>2, <4>3 DEF IInv, QueueHoldsLiveCalls
    <3>. QED BY <3>1, <3>2 DEF QueueHoldsLiveCalls
  <2>5. QueuedHaveModem'
    BY <2>8, <2>9 DEF IInv, QueuedHaveModem
  <2>6. ContextLivesWithItsUsers'
    BY <1>3 DEF IInv, ContextLivesWithItsUsers, ContextNeeded
  <2>. QED BY <2>3, <2>4, <2>5, <2>6, <1>2, <1>3, TableOKNext
<1>4. CASE scd[d].stage = "queued" /\ Completed(d, Unqueued(d))
  <2>1. /\ Unqueued(d) \in [Modem -> SUBSET Call]
        /\ \A m \in Modem : Unqueued(d)[m] = pending[m] \ {d}
    <3>1. CASE scd[d].home
      <4>1. scd[d].modem \in Modem
        BY <1>1, <1>4 DEF IInv, QueuedHaveModem
      <4>2. \A m \in Modem : m # scd[d].modem => d \notin pending[m]
        BY <1>1 DEF IInv, QueueHoldsLiveCalls
      <4>3. Unqueued(d) = [pending EXCEPT ![scd[d].modem] = @ \ {d}]
        BY <3>1 DEF Unqueued
      <4>. QED BY <4>1, <4>2, <4>3, <1>2
    <3>2. CASE ~scd[d].home
      BY <3>2, <1>1, <1>2, NotQueued DEF Unqueued
    <3>. QED BY <3>1, <3>2
  <2>2. Outstanding(d)
    BY <1>4 DEF Outstanding
  <2>. QED BY <2>1, <2>2, <1>1, <1>4, CompletedIInv
<1>5. CASE ProcessDies
  BY <1>5, ProcessDiesIInv
<1>. QED BY <1>3, <1>4, <1>5 DEF Cancel, CancelId, d

(* The sups_data of a modem are destroyed, whatever becomes of the modem. *)
LEMMA OrphanedIInv ==
  ASSUME IInv, NEW m \in Modem, NEW new \in SupsState, leaving' \in SUBSET Modem,
         sups' = [sups EXCEPT ![m] = new],
         pending' = [pending EXCEPT ![m] = {}],
         scd' = Orphaned(m),
         UNCHANGED <<initialized, clients, service_call_id, service_calls, held>>
  PROVE  IInv'
<1>1. /\ pending \in [Modem -> SUBSET Call] /\ scd \in [Call -> Scd]
      /\ sups \in [Modem -> SupsState] /\ initialized \in BOOLEAN
      /\ clients \in BOOLEAN
  BY DEF IInv, TypeOK
<1>2. \A e \in Call :
        scd'[e] = IF scd[e].stage # "free" /\ scd[e].modem = m
                  THEN [scd[e] EXCEPT !.home = FALSE] ELSE scd[e]
  BY DEF Orphaned, Outstanding
<1>9. \A e \in Call : scd'[e] \in {scd[e], [scd[e] EXCEPT !.home = FALSE]}
  BY <1>2
<1>10. \A e \in Call : scd'[e] \in Scd /\ scd'[e].id = scd[e].id
  BY <1>1, <1>9, RecordFields
<1>11. \A e \in Call : scd'[e].stage = scd[e].stage
  BY <1>1, <1>9, RecordFields
<1>12. \A e \in Call : scd'[e].modem = scd[e].modem
  BY <1>1, <1>9, RecordFields
<1>13. \A e \in Call : scd[e].stage = "free" \/ scd[e].modem # m => scd'[e] = scd[e]
  BY <1>2
<1>14. ASSUME NEW e \in Call, scd[e].stage # "free", scd[e].modem = m
       PROVE  ~scd'[e].home
  BY <1>1, <1>2, <1>14 DEF Scd
<1>4. TableOK(service_call_id', service_calls', scd', held')
  <2>1. TableOK(service_call_id, service_calls, scd, held)
    BY TableOKNow
  <2>2. scd' \in [Call -> Scd]
    <3>1. scd' = [e \in Call |-> scd'[e]]
      BY DEF Orphaned
    <3>. QED BY <3>1, <1>10
  <2>3. \A e \in Call : /\ scd'[e].id = scd[e].id
                        /\ scd'[e].stage = "free" <=> scd[e].stage = "free"
                        /\ scd[e].stage = "free" => scd'[e] = scd[e]
    BY <1>10, <1>11, <1>13
  <2>4. TableOK(service_call_id, service_calls, scd', held)
    BY <2>1, <2>2, <2>3, TableKeep
  <2>. QED BY <2>4
<1>5. /\ sups' \in [Modem -> SupsState] /\ pending' \in [Modem -> SUBSET Call]
      /\ pending'[m] = {}
      /\ \A n \in Modem : n # m => pending'[n] = pending[n] /\ sups'[n] = sups[n]
  BY <1>1
<1>6. QueueHoldsLiveCalls'
  <2>1. ASSUME NEW n \in Modem, NEW e \in pending'[n]
        PROVE  /\ scd'[e].stage = "queued" /\ scd'[e].modem = n /\ scd'[e].home
               /\ sups'[n] \in {"queue", "failed"}
    <3>1. n # m /\ e \in pending[n] /\ e \in Call
      BY <2>1, <1>1, <1>5
    <3>2. /\ scd[e].stage = "queued" /\ scd[e].modem = n /\ scd[e].home
          /\ sups[n] \in {"queue", "failed"}
      BY <3>1 DEF IInv, QueueHoldsLiveCalls
    <3>3. scd'[e] = scd[e]
      BY <3>1, <3>2, <1>13
    <3>. QED BY <3>1, <3>2, <3>3, <1>5
  <2>2. ASSUME NEW e \in Call, scd'[e].home, scd'[e].modem # NoModem
        PROVE  /\ scd'[e].stage = "queued" => e \in pending'[scd'[e].modem]
               /\ scd'[e].stage = "flight" => sups'[scd'[e].modem] = "proxy"
    <3>1. CASE scd[e].modem = m
      <4>1. scd[e].stage = "free"
        BY Zenon, <3>1, <2>2, <1>14
      <4>. QED BY <4>1, <1>11
    <3>2. CASE scd[e].modem # m
      <4>1. scd'[e] = scd[e] /\ scd[e].modem \in Modem
        BY <3>2, <2>2, <1>1, <1>13 DEF Scd
      <4>. QED BY <4>1, <3>2, <2>2, <1>5 DEF IInv, QueueHoldsLiveCalls
    <3>. QED BY <3>1, <3>2
  <2>. QED BY <2>1, <2>2 DEF QueueHoldsLiveCalls
<1>7. QueuedHaveModem'
  BY <1>11, <1>12 DEF IInv, QueuedHaveModem
<1>8. ContextLivesWithItsUsers'
  BY DEF IInv, ContextLivesWithItsUsers, ContextNeeded
<1>. QED BY <1>1, <1>4, <1>5, <1>6, <1>7, <1>8, TableOKNext

LEMMA ReplyAndChainIInv ==
  ASSUME IInv, NEW c \in Call, NEW d \in Call, ReplyAndChain(c, d)
  PROVE  IInv'
<1> DEFINE m == scd[c].modem
           stage == IF sups[m] = "proxy" THEN "flight" ELSE "queued"
           x == NewCall(stage, service_call_id + 1, m)
           table == Added(service_calls, service_call_id + 1, d)
           mid == [scd EXCEPT ![d] = x]
           midh == [held EXCEPT ![d] = service_call_id + 1]
<1>1. /\ scd \in [Call -> Scd] /\ held \in [Call -> 0..MaxId]
      /\ sups \in [Modem -> SupsState] /\ pending \in [Modem -> SUBSET Call]
      /\ initialized \in BOOLEAN /\ clients \in BOOLEAN /\ leaving \in SUBSET Modem
  BY DEF IInv, TypeOK
<1>2. /\ scd[c].stage = "flight" /\ scd[d].stage = "free" /\ c # d
      /\ m \in Modem /\ service_call_id + 1 \in Id
  BY <1>1 DEF ReplyAndChain, Outstanding, NextId, Scd
<1>3. x \in Scd /\ x.stage = stage /\ x.id = service_call_id + 1 /\ x.modem = m /\ x.home
  BY <1>2, NewCallType
<1>4. stage \in {"queued", "flight"}
  OBVIOUS
<1>5. /\ sups' = SupsGot(sups, m)
      /\ pending' = IF stage = "queued" THEN [pending EXCEPT ![m] = @ \cup {d}]
                    ELSE pending
      /\ service_calls' = Taken(table, scd[c].id)
      /\ service_call_id' = IdAfterTake(service_calls', service_call_id + 1)
      /\ scd' = [scd EXCEPT ![c] = FreeCall, ![d] = x]
      /\ held' = [held EXCEPT ![c] = 0, ![d] = service_call_id + 1]
      /\ UNCHANGED <<initialized, clients, leaving>>
  BY DEF ReplyAndChain, NextId
<1> HIDE DEF x, stage, m
<1>6. TableOK(service_call_id + 1, table, mid, midh)
  <2>1. TableOK(service_call_id, service_calls, scd, held)
    BY TableOKNow
  <2>2. x.stage # "free"
    BY <1>3, <1>4
  <2>3. service_call_id + 1 \in {0, service_call_id + 1}
    OBVIOUS
  <2>4. x \in Scd /\ x.id = service_call_id + 1
    BY <1>3
  <2>. QED BY <2>1, <2>2, <2>3, <2>4, <1>2, TableAdd
<1>7. /\ mid[c] = scd[c] /\ mid[c].stage # "free"
      /\ scd' = [mid EXCEPT ![c] = FreeCall]
      /\ held' = [midh EXCEPT ![c] = 0]
  <2>1. mid \in [Call -> Scd] /\ midh \in [Call -> 0..MaxId]
    BY <1>6 DEF TableOK
  <2>2. mid[c] = scd[c] /\ mid[c].stage # "free"
    BY <1>1, <1>2
  <2>3. scd' = [mid EXCEPT ![c] = FreeCall]
    BY <1>1, <1>2, <1>5
  <2>4. held' = [midh EXCEPT ![c] = 0]
    BY <1>1, <1>2, <1>5
  <2>. QED BY <2>2, <2>3, <2>4
<1>8. /\ scd'[c] = FreeCall /\ scd'[d] = x
      /\ \A e \in Call : e # c /\ e # d => scd'[e] = scd[e]
  BY <1>1, <1>2, <1>5
<1>9. TableOK(service_call_id', service_calls', scd', held')
  <2> DEFINE table2 == Taken(table, mid[c].id)
  <2>1. table2 = Taken(table, mid[c].id) /\ service_calls' = table2
    BY <1>5, <1>7
  <2>. HIDE DEF table, mid, midh, table2
  <2>2. TableOK(IdAfterTake(table2, service_call_id + 1), table2,
                [mid EXCEPT ![c] = FreeCall], [midh EXCEPT ![c] = 0])
    BY <2>1, <1>6, <1>7, TableTake
  <2>. QED BY <2>1, <2>2, <1>5, <1>7
<1>10. service_calls' # NoCalls
  <2>1. x.stage # "free"
    BY <1>3, <1>4
  <2>. QED BY <2>1, <1>8, <1>9 DEF TableOK, NoCalls, Id
<1>11. /\ sups' \in [Modem -> SupsState]
       /\ sups'[m] = IF sups[m] = "none" THEN "queue" ELSE sups[m]
       /\ \A n \in Modem : n # m => sups'[n] = sups[n]
  BY <1>1, <1>2, <1>5 DEF SupsGot, SupsState
<1>12. sups[m] # "absent"
  BY DEF ReplyAndChain, InTable, m
<1>13. stage = IF sups[m] = "proxy" THEN "flight" ELSE "queued"
  BY DEF stage
<1>14. /\ pending' \in [Modem -> SUBSET Call]
       /\ \A n \in Modem : n # m => pending'[n] = pending[n]
       /\ pending'[m] = IF stage = "queued" THEN pending[m] \cup {d} ELSE pending[m]
  BY <1>1, <1>2, <1>5
<1>15. \A n \in Modem : c \notin pending[n] /\ d \notin pending[n]
  BY <1>2 DEF IInv, QueueHoldsLiveCalls
<1>16. FreeCall.stage = "free"
  BY DEF FreeCall
<1>17. QueueHoldsLiveCalls'
  <2>1. ASSUME NEW n \in Modem, NEW e \in pending'[n]
        PROVE  /\ scd'[e].stage = "queued" /\ scd'[e].modem = n /\ scd'[e].home
               /\ sups'[n] \in {"queue", "failed"}
    <3>0. e \in Call
      BY <1>14
    <3>1. CASE e = d
      <4>1. n = m /\ stage = "queued"
        BY <3>1, <1>14, <1>15
      <4>2. sups'[n] \in {"queue", "failed"}
        BY <4>1, <1>1, <1>2, <1>11, <1>12, <1>13 DEF SupsState
      <4>3. scd'[e].home
        BY <3>1, <1>3, <1>8
      <4>. QED BY <4>1, <4>2, <4>3, <3>1, <1>3, <1>8
    <3>2. CASE e # d
      <4>1. e \in pending[n] /\ e # c
        BY <3>2, <1>14, <1>15
      <4>2. scd'[e] = scd[e]
        BY <3>0, <3>2, <4>1, <1>8
      <4>. QED BY <4>1, <4>2, <1>11 DEF IInv, QueueHoldsLiveCalls
    <3>. QED BY <3>1, <3>2
  <2>2. ASSUME NEW e \in Call, scd'[e].home, scd'[e].modem # NoModem
        PROVE  /\ scd'[e].stage = "queued" => e \in pending'[scd'[e].modem]
               /\ scd'[e].stage = "flight" => sups'[scd'[e].modem] = "proxy"
    <3>1. CASE e = d
      BY <3>1, <1>2, <1>3, <1>8, <1>11, <1>13, <1>14
    <3>2. CASE e = c
      BY <3>2, <1>8, <1>16
    <3>3. CASE e # c /\ e # d
      <4>1. scd'[e] = scd[e] /\ scd[e].modem \in Modem
        BY <3>3, <2>2, <1>1, <1>8 DEF Scd
      <4>2. /\ scd[e].stage = "queued" => e \in pending[scd[e].modem]
            /\ scd[e].stage = "flight" => sups[scd[e].modem] = "proxy"
        BY <4>1, <2>2 DEF IInv, QueueHoldsLiveCalls
      <4>. QED BY <4>1, <4>2, <1>2, <1>11, <1>14
    <3>. QED BY <3>1, <3>2, <3>3
  <2>. QED BY <2>1, <2>2 DEF QueueHoldsLiveCalls
<1>18. QueuedHaveModem'
  BY <1>2, <1>3, <1>8, <1>16 DEF IInv, QueuedHaveModem
<1>19. ContextLivesWithItsUsers'
  <2>1. service_calls # NoCalls
    BY <1>2, EmptyTable DEF Outstanding
  <2>2. initialized
    BY <2>1 DEF IInv, ContextLivesWithItsUsers, ContextNeeded
  <2>. QED BY <2>2, <1>5, <1>10 DEF ContextLivesWithItsUsers, ContextNeeded
<1>. QED
  BY <1>1, <1>5, <1>9, <1>11, <1>14, <1>17, <1>18, <1>19, TableOKNext

LEMMA InterfaceAddedIInv ==
  ASSUME IInv, NEW m \in Modem, InterfaceAdded(m)
  PROVE  IInv'
<1>1. /\ scd \in [Call -> Scd] /\ sups \in [Modem -> SupsState]
      /\ pending \in [Modem -> SUBSET Call]
      /\ initialized \in BOOLEAN /\ clients \in BOOLEAN /\ leaving \in SUBSET Modem
  BY DEF IInv, TypeOK
<1>2. UNCHANGED <<initialized, clients, service_call_id, service_calls, leaving, held>>
  BY DEF InterfaceAdded
<1>3. TableOK(service_call_id, service_calls, scd, held)
  BY TableOKNow
<1>4. ContextLivesWithItsUsers'
  BY <1>2 DEF IInv, ContextLivesWithItsUsers, ContextNeeded
<1>5. CASE sups' = [sups EXCEPT ![m] = "failed"] /\ UNCHANGED <<scd, pending>>
  <2>1. /\ sups' \in [Modem -> SupsState] /\ sups'[m] = "failed"
        /\ \A n \in Modem : n # m => sups'[n] = sups[n]
    BY <1>1, <1>5 DEF SupsState
  <2>2. sups[m] # "proxy"
    BY DEF InterfaceAdded
  <2>3. QueueHoldsLiveCalls'
    BY <2>1, <2>2, <1>1, <1>5 DEF IInv, QueueHoldsLiveCalls
  <2>4. QueuedHaveModem'
    BY <1>5 DEF IInv, QueuedHaveModem
  <2>. QED BY <2>1, <2>3, <2>4, <1>1, <1>2, <1>3, <1>4, <1>5, TableOKNext
<1>6. CASE /\ sups' = [sups EXCEPT ![m] = "proxy"]
           /\ scd' = [c \in Call |-> IF c \in pending[m]
                                     THEN [scd[c] EXCEPT !.stage = "flight"]
                                     ELSE scd[c]]
           /\ pending' = [pending EXCEPT ![m] = {}]
  <2>1. /\ sups' \in [Modem -> SupsState] /\ sups'[m] = "proxy"
        /\ pending' \in [Modem -> SUBSET Call] /\ pending'[m] = {}
        /\ \A n \in Modem : n # m => sups'[n] = sups[n] /\ pending'[n] = pending[n]
    BY <1>1, <1>6 DEF SupsState
  <2>2. \A c \in Call : c \in pending[m] => scd[c].stage = "queued" /\ scd[c].modem = m
    BY DEF IInv, QueueHoldsLiveCalls
  <2>3. \A c \in Call : c \notin pending[m] => scd'[c] = scd[c]
    BY <1>6
  <2>4. \A c \in Call : c \in pending[m] => scd'[c] = [scd[c] EXCEPT !.stage = "flight"]
    BY <1>6
  <2>5. ASSUME NEW c \in Call, c \in pending[m]
        PROVE  /\ scd'[c] \in Scd /\ scd'[c].id = scd[c].id
               /\ scd'[c].stage = "flight" /\ scd'[c].modem = m
    <3>1. scd[c] \in Scd
      BY <1>1
    <3>. QED BY <3>1, <2>2, <2>4, <2>5 DEF Scd
  <2>6. TableOK(service_call_id', service_calls', scd', held')
    <3>1. scd' \in [Call -> Scd]
      <4>1. \A c \in Call : scd'[c] \in Scd
        BY <1>1, <2>3, <2>5
      <4>2. scd' = [c \in Call |-> scd'[c]]
        BY <1>6
      <4>. QED BY <4>1, <4>2
    <3>2. \A c \in Call : /\ scd'[c].id = scd[c].id
                          /\ scd'[c].stage = "free" <=> scd[c].stage = "free"
                          /\ scd[c].stage = "free" => scd'[c] = scd[c]
      BY <2>2, <2>3, <2>5
    <3>3. TableOK(service_call_id, service_calls, scd', held)
      BY <1>3, <3>1, <3>2, TableKeep
    <3>. QED BY <3>3, <1>2
  <2>7. QueueHoldsLiveCalls'
    <3>1. ASSUME NEW n \in Modem, NEW e \in pending'[n]
          PROVE  /\ scd'[e].stage = "queued" /\ scd'[e].modem = n /\ scd'[e].home
                 /\ sups'[n] \in {"queue", "failed"}
      <4>1. n # m /\ e \in pending[n] /\ e \in Call
        BY <3>1, <2>1
      <4>2. e \notin pending[m]
        BY <4>1, <2>2 DEF IInv, QueueHoldsLiveCalls
      <4>3. scd'[e] = scd[e] /\ sups'[n] = sups[n]
        BY <4>1, <4>2, <2>1, <2>3
      <4>. QED BY <4>1, <4>3 DEF IInv, QueueHoldsLiveCalls
    <3>2. ASSUME NEW e \in Call, scd'[e].home, scd'[e].modem # NoModem
          PROVE  /\ scd'[e].stage = "queued" => e \in pending'[scd'[e].modem]
                 /\ scd'[e].stage = "flight" => sups'[scd'[e].modem] = "proxy"
      <4>1. CASE e \in pending[m]
        BY <4>1, <2>1, <2>5
      <4>2. CASE e \notin pending[m]
        <5>1. scd'[e] = scd[e] /\ scd[e].modem \in Modem
          BY <4>2, <3>2, <1>1, <2>3 DEF Scd
        <5>2. /\ scd[e].stage = "queued" => e \in pending[scd[e].modem]
              /\ scd[e].stage = "flight" => sups[scd[e].modem] = "proxy"
          BY <5>1, <3>2 DEF IInv, QueueHoldsLiveCalls
        <5>. QED BY <5>1, <5>2, <4>2, <2>1
      <4>. QED BY <4>1, <4>2
    <3>. QED BY <3>1, <3>2 DEF QueueHoldsLiveCalls
  <2>8. QueuedHaveModem'
    <3>1. \A e \in Call : scd'[e].stage = "queued" => scd'[e] = scd[e]
      BY <2>3, <2>5
    <3>. QED BY <3>1 DEF IInv, QueuedHaveModem
  <2>. QED BY <2>1, <2>6, <2>7, <2>8, <1>1, <1>2, <1>4, TableOKNext
<1>. QED BY <1>5, <1>6 DEF InterfaceAdded

LEMMA InterfaceRemovedIInv ==
  ASSUME IInv, NEW m \in Modem, InterfaceRemoved(m)
  PROVE  IInv'
<1>1. "none" \in SupsState /\ leaving' \in SUBSET Modem
  BY DEF IInv, TypeOK, InterfaceRemoved, SupsState
<1>2. /\ sups' = [sups EXCEPT ![m] = "none"]
      /\ pending' = [pending EXCEPT ![m] = {}]
      /\ scd' = Orphaned(m)
      /\ UNCHANGED <<initialized, clients, service_call_id, service_calls, held>>
  BY DEF InterfaceRemoved
<1>. QED BY <1>1, <1>2, OrphanedIInv

LEMMA ModemAddedIInv ==
  ASSUME IInv, NEW m \in Modem, ModemAdded(m)
  PROVE  IInv'
<1>1. PICK new \in Arrival : sups' = [sups EXCEPT ![m] = new]
  BY DEF ModemAdded
<1>2. new \in SupsState /\ leaving' \in SUBSET Modem
  BY DEF IInv, TypeOK, ModemAdded, Arrival, SupsState
<1>3. /\ pending' = [pending EXCEPT ![m] = {}]
      /\ scd' = Orphaned(m)
      /\ UNCHANGED <<initialized, clients, service_call_id, service_calls, held>>
  BY DEF ModemAdded
<1>. QED BY <1>1, <1>2, <1>3, OrphanedIInv

LEMMA ModemFinalizedIInv ==
  ASSUME IInv, NEW m \in Modem, ModemFinalized(m)
  PROVE  IInv'
<1>1. "absent" \in SupsState /\ leaving' \in SUBSET Modem
  BY DEF IInv, TypeOK, ModemFinalized, SupsState
<1>2. /\ sups' = [sups EXCEPT ![m] = "absent"]
      /\ pending' = [pending EXCEPT ![m] = {}]
      /\ scd' = Orphaned(m)
      /\ UNCHANGED <<initialized, clients, service_call_id, service_calls, held>>
  BY DEF ModemFinalized
<1>. QED BY <1>1, <1>2, OrphanedIInv

LEMMA ModemRemovedIInv ==
  ASSUME IInv, NEW m \in Modem, ModemRemoved(m)
  PROVE  IInv'
<1>1. /\ leaving' \in SUBSET Modem
      /\ UNCHANGED <<initialized, clients, service_call_id, service_calls, sups,
                     pending, scd, held>>
  BY DEF IInv, TypeOK, ModemRemoved
<1>2. TypeOK'
  BY <1>1 DEF IInv, TypeOK, Outstanding
<1>. QED
  BY <1>1, <1>2 DEF IInv, CallsUnderOwnId, HeldIdFindsOwnCall, QueuedHaveModem,
       QueueHoldsLiveCalls, ContextLivesWithItsUsers, ContextNeeded, Outstanding

LEMMA StutterIInv == IInv /\ UNCHANGED vars => IInv'
BY DEF vars, IInv, TypeOK, CallsUnderOwnId, HeldIdFindsOwnCall, QueuedHaveModem,
       QueueHoldsLiveCalls, ContextLivesWithItsUsers, ContextNeeded, Outstanding
-----------------------------------------------------------------------------
(* Every step keeps the inductive invariant: the steps of Next one by one. *)
LEMMA NextIInv == IInv /\ [Next]_vars => IInv'
<1> SUFFICES ASSUME IInv, [Next]_vars PROVE IInv'
  OBVIOUS
<1>1. ASSUME Register PROVE IInv'
  BY <1>1, RegisterIInv
<1>2. ASSUME Close PROVE IInv'
  BY <1>2, CloseIInv
<1>3. ASSUME NEW c \in Call, NEW m \in Modem, NEW keep \in BOOLEAN, Start(c, m, keep)
      PROVE  IInv'
  BY <1>3, StartIInv
<1>4. ASSUME NEW c \in Call, StartCallerId(c) PROVE IInv'
  BY <1>4, StartCallerIdIInv
<1>5. ASSUME NEW c \in Call, Reply(c) PROVE IInv'
  BY <1>5, ReplyIInv
<1>6. ASSUME NEW c \in Call, NEW d \in Call, ReplyAndChain(c, d) PROVE IInv'
  BY <1>6, ReplyAndChainIInv
<1>7. ASSUME NEW c \in Call, Cancel(c) PROVE IInv'
  BY <1>7, CancelIInv
<1>8. ASSUME NEW m \in Modem, InterfaceAdded(m) PROVE IInv'
  BY <1>8, InterfaceAddedIInv
<1>9. ASSUME NEW m \in Modem, InterfaceRemoved(m) PROVE IInv'
  BY <1>9, InterfaceRemovedIInv
<1>10. ASSUME NEW m \in Modem, ModemAdded(m) PROVE IInv'
  BY <1>10, ModemAddedIInv
<1>11. ASSUME NEW m \in Modem, ModemRemoved(m) PROVE IInv'
  BY <1>11, ModemRemovedIInv
<1>12. ASSUME NEW m \in Modem, ModemFinalized(m) PROVE IInv'
  BY <1>12, ModemFinalizedIInv
<1>13. CASE UNCHANGED vars
  BY <1>13, StutterIInv
<1>. QED BY <1>1, <1>2, <1>3, <1>4, <1>5, <1>6, <1>7, <1>8, <1>9, <1>10, <1>11,
            <1>12, <1>13 DEF Next

(* Spec keeps the inductive invariant, for every set of modems and of call *)
(* records and every bound on the ids.                                     *)
THEOREM Invariance == Spec => []IInv
<1>. QED BY InitIInv, NextIInv, PTL DEF Spec

(* Every variable has its type, and a freed record is held by nobody. *)
THEOREM TypeCorrect == Spec => []TypeOK
<1>1. IInv => TypeOK
  BY DEF IInv
<1>. QED BY <1>1, Invariance, PTL

(* service_call_find finds every outstanding call, and only those. *)
THEOREM TableCorrect == Spec => []CallsUnderOwnId
<1>1. IInv => CallsUnderOwnId
  BY DEF IInv
<1>. QED BY <1>1, Invariance, PTL

(* connui_cell_cancel_service_call cancels the caller's own call, although *)
(* numbering restarts whenever the table empties.                          *)
THEOREM CancelSafe == Spec => []HeldIdFindsOwnCall
<1>1. IInv => HeldIdFindsOwnCall
  BY DEF IInv
<1>. QED BY <1>1, Invariance, PTL

(* What connui_cell_modem_add_supplementary_services sends is never a      *)
(* freed record, and a queued call whose sups_data exist is never lost.    *)
THEOREM QueueCorrect == Spec => []QueueHoldsLiveCalls
<1>1. IInv => QueueHoldsLiveCalls
  BY DEF IInv
<1>. QED BY <1>1, Invariance, PTL

(* connui_cell_context_destroy tears the context down exactly when the     *)
(* last client and the last call are gone.                                 *)
THEOREM ContextCorrect == Spec => []ContextLivesWithItsUsers
<1>1. IInv => ContextLivesWithItsUsers
  BY DEF IInv
<1>. QED BY <1>1, Invariance, PTL
-----------------------------------------------------------------------------
(* The refinement.  The calls of the library implement the requests of     *)
(* ServiceRequests.  What this needs of the inductive invariant: an id in  *)
(* use is not above the last one, so the next one is fresh, and a held id  *)
(* finds its own call, so a cancellation reaches the request it names.     *)

number == [c \in Call |-> scd[c].id]
cancelled == {c \in Call : scd[c].cancelled}

(* What the requests see of a step that leaves ids and cancellations alone. *)
LEMMA Unseen ==
  ASSUME \A c \in Call : scd'[c].id = scd[c].id /\ scd'[c].cancelled = scd[c].cancelled,
         held' = held
  PROVE  UNCHANGED Requests!vars
BY DEF Requests!vars

(* A request is outstanding exactly when its record is in use. *)
LEMMA OutstandingSame ==
  ASSUME IInv, NEW c \in Call
  PROVE  /\ Requests!Outstanding(c) <=> Outstanding(c)
         /\ ~Outstanding(c) => scd[c] = FreeCall /\ held[c] = 0
<1>1. ~Outstanding(c) => scd[c] = FreeCall /\ held[c] = 0
  BY DEF IInv, TypeOK
<1>2. Outstanding(c) => scd[c].id \in 1..service_call_id
  BY DEF IInv, CallsUnderOwnId
<1>3. service_call_id \in Nat
  BY DEF IInv, TypeOK
<1>. QED BY <1>1, <1>2, <1>3 DEF Requests!Outstanding, FreeCall

(* The next number is that of no request. *)
LEMMA NextFresh ==
  ASSUME IInv, NextId \in Id
  PROVE  NextId \in Requests!Fresh
<1>1. service_call_id \in Nat
  BY DEF IInv, TypeOK
<1>2. ASSUME NEW c \in Call PROVE scd[c].id # NextId
  <2>1. CASE Outstanding(c)
    BY <2>1, <1>1 DEF IInv, CallsUnderOwnId, NextId
  <2>2. CASE ~Outstanding(c)
    BY <2>2, <1>1 DEF IInv, TypeOK, FreeCall, NextId
  <2>. QED BY <2>1, <2>2
<1>. QED BY <1>2 DEF Requests!Fresh, Id

LEMMA InitRefines == Init => Requests!Init
BY DEF Init, Requests!Init, FreeCall

LEMMA DiesRefines == ProcessDies => Requests!End
BY DEF ProcessDies, Requests!End, FreeCall

LEMMA StartRefines ==
  ASSUME IInv, NEW c \in Call, NEW m \in Modem, NEW keep \in BOOLEAN, Start(c, m, keep)
  PROVE  Requests!Ask(c)
<1>1. ~Requests!Outstanding(c) /\ NextId \in Requests!Fresh
  BY OutstandingSame, NextFresh DEF Start
<1>2. PICK stage \in {"flight", "queued"} : scd' = [scd EXCEPT ![c] = NewCall(stage, NextId, m)]
  BY DEF Start
<1>3. scd \in [Call -> Scd] /\ held \in [Call -> 0..MaxId] /\ ~scd[c].cancelled
  BY OutstandingSame DEF IInv, TypeOK, Start, FreeCall
<1>4. number' = [number EXCEPT ![c] = NextId]
  BY <1>2, <1>3 DEF number, NewCall
<1>5. cancelled' = cancelled
  BY <1>2, <1>3 DEF cancelled, NewCall
<1>6. held' = [held EXCEPT ![c] = 0] \/ held' = [held EXCEPT ![c] = NextId]
  BY DEF Start
<1>. QED BY <1>1, <1>4, <1>5, <1>6 DEF Requests!Ask, number, cancelled

LEMMA StartCallerIdRefines ==
  ASSUME IInv, NEW c \in Call, StartCallerId(c)
  PROVE  Requests!Ask(c)
<1>1. ~Requests!Outstanding(c) /\ NextId \in Requests!Fresh
  BY OutstandingSame, NextFresh DEF StartCallerId
<1>2. scd' = [scd EXCEPT ![c] = NewCall("flight", NextId, NoModem)]
  BY DEF StartCallerId
<1>3. /\ scd \in [Call -> Scd] /\ held \in [Call -> 0..MaxId]
      /\ ~scd[c].cancelled /\ held[c] = 0
  BY OutstandingSame DEF IInv, TypeOK, StartCallerId, FreeCall
<1>4. number' = [number EXCEPT ![c] = NextId]
  BY <1>2, <1>3 DEF number, NewCall
<1>5. cancelled' = cancelled
  BY <1>2, <1>3 DEF cancelled, NewCall
<1>6. held' = [held EXCEPT ![c] = 0]
  BY <1>3 DEF StartCallerId
<1>. QED BY <1>1, <1>4, <1>5, <1>6 DEF Requests!Ask, number, cancelled

LEMMA CompletedRefines ==
  ASSUME IInv, NEW c \in Call, Outstanding(c), NEW p, Completed(c, p)
  PROVE  Requests!CallBack(c)
<1>1. Requests!Outstanding(c)
  BY OutstandingSame
<1>2. scd \in [Call -> Scd] /\ held' = [held EXCEPT ![c] = 0]
  BY DEF IInv, TypeOK, Completed
<1>3. scd' = [scd EXCEPT ![c] = FreeCall]
  BY DEF Completed
<1>4. number' = [number EXCEPT ![c] = 0] /\ cancelled' = cancelled \ {c}
  BY <1>2, <1>3 DEF number, cancelled, FreeCall
<1>. QED BY <1>1, <1>2, <1>4 DEF Requests!CallBack, number, cancelled

LEMMA ReplyRefines ==
  ASSUME IInv, NEW c \in Call, Reply(c)
  PROVE  Requests!CallBack(c) \/ Requests!End
BY CompletedRefines, DiesRefines DEF Reply, Outstanding

LEMMA ReplyAndChainRefines ==
  ASSUME IInv, NEW c \in Call, NEW d \in Call, ReplyAndChain(c, d)
  PROVE  Requests!CallBackAndAsk(c, d)
<1>1. Outstanding(c) /\ ~Outstanding(d) /\ ~scd[c].cancelled /\ NextId \in Id
  BY DEF ReplyAndChain, Outstanding
<1>2. Requests!Outstanding(c) /\ ~Requests!Outstanding(d) /\ NextId \in Requests!Fresh
  BY <1>1, OutstandingSame, NextFresh
<1>3. PICK stage \in {"flight", "queued"} :
        scd' = [scd EXCEPT ![c] = FreeCall, ![d] = NewCall(stage, NextId, scd[c].modem)]
  BY DEF ReplyAndChain
<1>4. scd \in [Call -> Scd] /\ c # d /\ ~scd[d].cancelled
  BY <1>1, OutstandingSame DEF IInv, TypeOK, FreeCall
<1>5. number' = [number EXCEPT ![c] = 0, ![d] = NextId]
  BY <1>3, <1>4 DEF number, NewCall, FreeCall
<1>6. cancelled' = cancelled
  BY <1>1, <1>3, <1>4 DEF cancelled, NewCall, FreeCall
<1>7. held' = [held EXCEPT ![c] = 0, ![d] = NextId]
  BY DEF ReplyAndChain
<1>. QED BY <1>1, <1>2, <1>5, <1>6, <1>7 DEF Requests!CallBackAndAsk, number, cancelled

LEMMA CancelRefines ==
  ASSUME IInv, NEW c \in Call, Cancel(c)
  PROVE  Requests!Cancel(c) \/ Requests!CallBack(c) \/ Requests!End
<1>1. service_calls[held[c]] = c /\ held[c] \in Id /\ CancelId(held[c])
  BY DEF IInv, TypeOK, HeldIdFindsOwnCall, Cancel, Id
<1>2. Outstanding(c) /\ scd[c].id = held[c]
  <2>1. service_calls[held[c]] # NoCall
    BY <1>1, ConstantsAssumption DEF ConstantsAssumption
  <2>. QED BY <1>1, <2>1 DEF IInv, CallsUnderOwnId
<1>3. CASE /\ scd[c].stage = "flight"
           /\ scd' = [scd EXCEPT ![c].cancelled = TRUE]
           /\ held' = held
  <2>1. scd \in [Call -> Scd]
    BY DEF IInv, TypeOK
  <2>2. number' = number /\ cancelled' = cancelled \cup {c}
    BY <1>3, <2>1 DEF number, cancelled, Scd
  <2>3. held[c] = number[c] /\ Requests!Outstanding(c)
    BY <1>2, OutstandingSame DEF number
  <2>. QED BY <1>3, <2>2, <2>3 DEF Requests!Cancel, number, cancelled
<1>4. CASE Completed(c, Unqueued(c))
  BY <1>2, <1>4, CompletedRefines
<1>5. CASE ProcessDies
  BY <1>5, DiesRefines
<1>. QED BY <1>1, <1>3, <1>4, <1>5 DEF CancelId

LEMMA SignalsUnseen ==
  ASSUME IInv, NEW m \in Modem,
         InterfaceAdded(m) \/ InterfaceRemoved(m) \/ ModemAdded(m) \/ ModemRemoved(m)
           \/ ModemFinalized(m)
  PROVE  UNCHANGED Requests!vars
<1>1. scd \in [Call -> Scd]
  BY DEF IInv, TypeOK
<1>2. scd' = scd \/ scd' = Orphaned(m)
        \/ scd' = [c \in Call |-> IF c \in pending[m] THEN [scd[c] EXCEPT !.stage = "flight"]
                                  ELSE scd[c]]
  BY DEF InterfaceAdded, InterfaceRemoved, ModemAdded, ModemRemoved, ModemFinalized
<1>3. held' = held
  BY DEF InterfaceAdded, InterfaceRemoved, ModemAdded, ModemRemoved, ModemFinalized
<1>4. ASSUME NEW c \in Call
      PROVE  scd'[c].id = scd[c].id /\ scd'[c].cancelled = scd[c].cancelled
  BY <1>1, <1>2 DEF Orphaned, Scd
<1>. QED BY <1>3, <1>4, Unseen

(* Every step is a step of the requests, or they do not see it. *)
LEMMA NextRefines ==
  ASSUME IInv, [Next]_vars
  PROVE  [Requests!Next]_(Requests!vars)
<1>1. CASE UNCHANGED vars
  BY <1>1 DEF vars, Requests!vars
<1>2. CASE Register \/ Close
  BY <1>2, Unseen DEF Register, Close
<1>3. ASSUME NEW c \in Call, NEW m \in Modem, NEW keep \in BOOLEAN, Start(c, m, keep)
      PROVE  Requests!Next
  BY <1>3, StartRefines DEF Requests!Next
<1>4. ASSUME NEW c \in Call, StartCallerId(c) PROVE Requests!Next
  BY <1>4, StartCallerIdRefines DEF Requests!Next
<1>5. ASSUME NEW c \in Call, Reply(c) PROVE Requests!Next
  BY <1>5, ReplyRefines DEF Requests!Next
<1>6. ASSUME NEW c \in Call, NEW d \in Call, ReplyAndChain(c, d) PROVE Requests!Next
  BY <1>6, ReplyAndChainRefines DEF Requests!Next
<1>7. ASSUME NEW c \in Call, Cancel(c) PROVE Requests!Next
  BY <1>7, CancelRefines DEF Requests!Next
<1>8. ASSUME NEW m \in Modem,
             InterfaceAdded(m) \/ InterfaceRemoved(m) \/ ModemAdded(m) \/ ModemRemoved(m)
               \/ ModemFinalized(m)
      PROVE  UNCHANGED Requests!vars
  BY <1>8, SignalsUnseen
<1>. QED BY <1>1, <1>2, <1>3, <1>4, <1>5, <1>6, <1>7, <1>8 DEF Next

(* The calls of connui_cell_sups_* and of the caller id promise what       *)
(* ServiceRequests says: a number of its own for each request, one answer, *)
(* and a cancellation that meets the request it was meant for.             *)
THEOREM CallsImplementRequests == Spec => ImplementsRequests
<1>1. Init => Requests!Init
  BY InitRefines
<1>2. IInv /\ [Next]_vars => [Requests!Next]_(Requests!vars)
  BY NextRefines
<1>3. Spec => []IInv
  BY Invariance
<1>. QED BY <1>1, <1>2, <1>3, PTL DEF Spec, ImplementsRequests, Requests!Spec
=============================================================================
