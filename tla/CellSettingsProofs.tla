------------------------- MODULE CellSettingsProofs -------------------------
(***************************************************************************)
(* Proofs about the settings applet (module CellSettings).  The applet     *)
(* runs on the service calls of the library; what it relies on there is    *)
(* the inductive invariant proved in ServiceCallsProofs, here              *)
(* LibProofs!IInv, which every step of the applet keeps because every one  *)
(* of its steps is a step of the library or leaves it alone.               *)
(***************************************************************************)
EXTENDS CellSettings, FiniteSetTheorems, TLAPS

LibProofs == INSTANCE ServiceCallsProofs

Cancellable == {"waiting", "forward"}

(* The steps from the moment a modem is about to be shown until its call   *)
(* waiting is asked for.                                                   *)
ShowSteps == {"show", "codeui", "cid", "query"}

Requested == {c \in Call : role[c] # "none"}

(* Which steps a handler can be at, and the modem it was begun with.       *)
FrameOK(f) ==
  /\ f.of = "close" => f.at \in {"cancel", "drain", "freed"}
  /\ f.of \in {"choice", "change"} => f.modem \in Modem
  /\ f.at \in ShowSteps => f.of \in {"choice", "change"}

(* A handler below another one is in its main loop, or was freed; and no   *)
(* handler shows a modem while one below it is in the code dialog.         *)
StackOK(stack) ==
  /\ stack \in Seq(Frame)
  /\ Len(stack) <= MaxDepth
  /\ \A i \in 1..Len(stack) : FrameOK(stack[i])
  /\ \A i \in 2..Len(stack) : stack[i].at \in Loops \cup {"freed"}
  /\ \A i, j \in 1..Len(stack) :
       i < j /\ stack[i].at \in {"codeui", "cid", "query"} => stack[j].at # "codeui"

Showing(stack) == \E i \in 1..Len(stack) : stack[i].at \in ShowSteps

Closing(stack) == \E i \in 1..Len(stack) : stack[i].of = "close"

(* No request that could be cancelled is under way while a modem is shown: *)
(* the id of its own request will find no other one to replace.            *)
QuietWhileShowing == Showing(frames) => \A c \in Call : role[c] \notin Cancellable

(* The requests of the applet are exactly the outstanding calls.           *)
RolesAreCalls == \A c \in Call : role[c] # "none" <=> scd[c].stage # "free"

(* A request that can be cancelled is held under the id that is kept.      *)
KeptIdIsHeld == \A c \in Call : role[c] \in Cancellable => svc # 0 /\ held[c] = svc

(* An id that is kept is that of a request that can be cancelled.          *)
KeptIdIsUsed ==
  svc # 0 => service_calls[svc] # NoCall /\ role[service_calls[svc]] \in Cancellable

(* An applet that was freed has no request under way.                      *)
NoRequestLeft ==
  ~open => /\ counter = 0 /\ svc = 0 /\ clir = 0 /\ lost = 0
           /\ \A c \in Call : role[c] = "none"

RequestTypes ==
  /\ counter \in Int
  /\ svc \in 0..MaxId
  /\ role \in [Call -> Role]
  /\ clir \in 0..MaxClir
  /\ lost \in 0..MaxClir

RequestsOK ==
  /\ RequestTypes
  /\ PendingCountsRequests
  /\ RolesAreCalls
  /\ KeptIdIsHeld
  /\ KeptIdIsUsed
  /\ NoRequestLeft

(* The list is empty only while the applet is being closed; and of a freed *)
(* applet only handlers are left that will go on with freed memory.        *)
DialogOK ==
  /\ open \in BOOLEAN
  /\ listed \subseteq Modem
  /\ active \in Modem \cup {NoModem}
  /\ modem_id \in Modem \cup {NoModem}
  /\ open /\ listed = {} => Closing(frames)
  /\ ~open => /\ active = NoModem /\ modem_id = NoModem
              /\ \A i \in 1..Len(frames) : frames[i].at = "freed"

(* The inductive invariant.                                                *)
IInv ==
  /\ LibProofs!IInv
  /\ RequestsOK
  /\ DialogOK
  /\ StackOK(frames)
  /\ QuietWhileShowing
-----------------------------------------------------------------------------
(* The library under the applet: its steps keep its invariant.             *)
LEMMA LibAssumption == LibProofs!ConstantsAssumption
BY AppletAssumption DEF LibProofs!ConstantsAssumption

LEMMA LibStart ==
  ASSUME LibProofs!IInv, NEW c \in Call, NEW m \in Modem, NEW keep \in BOOLEAN, Lib!Start(c, m, keep)
  PROVE  LibProofs!IInv'
<1>1. LibProofs!Start(c, m, keep)
  BY DEF Lib!Start, LibProofs!Start, Lib!NextId, LibProofs!NextId, Lib!Id,
         LibProofs!Id, Lib!Outstanding, LibProofs!Outstanding,
         Lib!ModemsAfterGet, LibProofs!ModemsAfterGet, Lib!Arrival,
         LibProofs!Arrival, Lib!SupsGot, LibProofs!SupsGot, Lib!NewCall,
         LibProofs!NewCall, Lib!Added, LibProofs!Added
<1>. QED BY <1>1, LibAssumption, LibProofs!StartIInv

LEMMA LibStartCallerId ==
  ASSUME LibProofs!IInv, NEW c \in Call, Lib!StartCallerId(c)
  PROVE  LibProofs!IInv'
<1>1. LibProofs!StartCallerId(c)
  BY DEF Lib!StartCallerId, LibProofs!StartCallerId, Lib!NextId,
         LibProofs!NextId, Lib!Id, LibProofs!Id, Lib!Outstanding,
         LibProofs!Outstanding, Lib!ModemsAfterGet,
         LibProofs!ModemsAfterGet, Lib!Arrival, LibProofs!Arrival,
         Lib!NewCall, LibProofs!NewCall, Lib!Added, LibProofs!Added
<1>. QED BY <1>1, LibAssumption, LibProofs!StartCallerIdIInv

LEMMA LibReply ==
  ASSUME LibProofs!IInv, NEW c \in Call, Lib!Reply(c)
  PROVE  LibProofs!IInv'
<1>1. LibProofs!Reply(c)
  BY DEF Lib!Reply, LibProofs!Reply, Lib!Completed, LibProofs!Completed,
         Lib!Taken, LibProofs!Taken, Lib!IdAfterTake,
         LibProofs!IdAfterTake, Lib!NoCalls, LibProofs!NoCalls, Lib!Id,
         LibProofs!Id, Lib!FreeCall, LibProofs!FreeCall,
         Lib!ContextDestroy, LibProofs!ContextDestroy, Lib!ContextNeeded,
         LibProofs!ContextNeeded, Lib!ProcessDies, LibProofs!ProcessDies
<1>. QED BY <1>1, LibAssumption, LibProofs!ReplyIInv

LEMMA LibReplyAndChain ==
  ASSUME LibProofs!IInv, NEW c \in Call, NEW d \in Call, Lib!ReplyAndChain(c, d)
  PROVE  LibProofs!IInv'
<1>1. LibProofs!ReplyAndChain(c, d)
  BY DEF Lib!ReplyAndChain, LibProofs!ReplyAndChain, Lib!Taken,
         LibProofs!Taken, Lib!Added, LibProofs!Added, Lib!NextId,
         LibProofs!NextId, Lib!IdAfterTake, LibProofs!IdAfterTake,
         Lib!NoCalls, LibProofs!NoCalls, Lib!Id, LibProofs!Id,
         Lib!Outstanding, LibProofs!Outstanding, Lib!InTable,
         LibProofs!InTable, Lib!SupsGot, LibProofs!SupsGot, Lib!FreeCall,
         LibProofs!FreeCall, Lib!NewCall, LibProofs!NewCall
<1>. QED BY <1>1, LibAssumption, LibProofs!ReplyAndChainIInv

LEMMA LibInterfaceAdded ==
  ASSUME LibProofs!IInv, NEW m \in Modem, Lib!InterfaceAdded(m)
  PROVE  LibProofs!IInv'
<1>1. LibProofs!InterfaceAdded(m)
  BY DEF Lib!InterfaceAdded, LibProofs!InterfaceAdded, Lib!InTable,
         LibProofs!InTable
<1>. QED BY <1>1, LibAssumption, LibProofs!InterfaceAddedIInv

LEMMA LibInterfaceRemoved ==
  ASSUME LibProofs!IInv, NEW m \in Modem, Lib!InterfaceRemoved(m)
  PROVE  LibProofs!IInv'
<1>1. LibProofs!InterfaceRemoved(m)
  BY DEF Lib!InterfaceRemoved, LibProofs!InterfaceRemoved, Lib!InTable,
         LibProofs!InTable, Lib!Orphaned, LibProofs!Orphaned,
         Lib!Outstanding, LibProofs!Outstanding
<1>. QED BY <1>1, LibAssumption, LibProofs!InterfaceRemovedIInv

LEMMA LibModemAdded ==
  ASSUME LibProofs!IInv, NEW m \in Modem, Lib!ModemAdded(m)
  PROVE  LibProofs!IInv'
<1>1. LibProofs!ModemAdded(m)
  BY DEF Lib!ModemAdded, LibProofs!ModemAdded, Lib!Arrival,
         LibProofs!Arrival, Lib!Orphaned, LibProofs!Orphaned,
         Lib!Outstanding, LibProofs!Outstanding
<1>. QED BY <1>1, LibAssumption, LibProofs!ModemAddedIInv

LEMMA LibModemRemoved ==
  ASSUME LibProofs!IInv, NEW m \in Modem, Lib!ModemRemoved(m)
  PROVE  LibProofs!IInv'
<1>1. LibProofs!ModemRemoved(m)
  BY DEF Lib!ModemRemoved, LibProofs!ModemRemoved, Lib!InTable,
         LibProofs!InTable
<1>. QED BY <1>1, LibAssumption, LibProofs!ModemRemovedIInv

LEMMA LibModemFinalized ==
  ASSUME LibProofs!IInv, NEW m \in Modem, Lib!ModemFinalized(m)
  PROVE  LibProofs!IInv'
<1>1. LibProofs!ModemFinalized(m)
  BY DEF Lib!ModemFinalized, LibProofs!ModemFinalized, Lib!Orphaned,
         LibProofs!Orphaned, Lib!Outstanding, LibProofs!Outstanding
<1>. QED BY <1>1, LibAssumption, LibProofs!ModemFinalizedIInv

LEMMA LibInit ==
  ASSUME Lib!Init
  PROVE  LibProofs!IInv
<1>1. LibProofs!Init
  BY DEF Lib!Init, LibProofs!Init, Lib!NoCalls, LibProofs!NoCalls, Lib!Id, LibProofs!Id,
         Lib!FreeCall, LibProofs!FreeCall
<1>. QED BY <1>1, LibAssumption, LibProofs!InitIInv

LEMMA LibProcessDies ==
  ASSUME Lib!ProcessDies
  PROVE  LibProofs!IInv'
<1>1. LibProofs!ProcessDies
  BY DEF Lib!ProcessDies, LibProofs!ProcessDies, Lib!NoCalls, LibProofs!NoCalls, Lib!Id,
         LibProofs!Id, Lib!FreeCall, LibProofs!FreeCall
<1>. QED BY <1>1, LibAssumption, LibProofs!ProcessDiesIInv

LEMMA LibRegister ==
  ASSUME LibProofs!IInv, Lib!Register
  PROVE  LibProofs!IInv'
<1>1. LibProofs!Register
  BY DEF Lib!Register, LibProofs!Register, Lib!ModemsAfterGet, LibProofs!ModemsAfterGet,
         Lib!Arrival, LibProofs!Arrival
<1>. QED BY <1>1, LibAssumption, LibProofs!RegisterIInv

LEMMA LibClose ==
  ASSUME LibProofs!IInv, Lib!Close
  PROVE  LibProofs!IInv'
<1>1. LibProofs!Close
  BY DEF Lib!Close, LibProofs!Close, Lib!ContextDestroy, LibProofs!ContextDestroy,
         Lib!ContextNeeded, LibProofs!ContextNeeded, Lib!NoCalls, LibProofs!NoCalls,
         Lib!Id, LibProofs!Id
<1>. QED BY <1>1, LibAssumption, LibProofs!CloseIInv

(* The applet cancels with an id that it holds for one of its calls.       *)
LEMMA LibCancel ==
  ASSUME LibProofs!IInv, NEW c \in Call, held[c] # 0, held[c] = svc, Lib!CancelId(svc)
  PROVE  LibProofs!IInv'
<1>1. LibProofs!Cancel(c)
  BY DEF Lib!CancelId, LibProofs!CancelId, LibProofs!Cancel, Lib!Completed,
         LibProofs!Completed, Lib!Unqueued, LibProofs!Unqueued, Lib!Taken,
         LibProofs!Taken, Lib!IdAfterTake, LibProofs!IdAfterTake, Lib!NoCalls,
         LibProofs!NoCalls, Lib!Id, LibProofs!Id, Lib!FreeCall, LibProofs!FreeCall,
         Lib!ContextDestroy, LibProofs!ContextDestroy, Lib!ContextNeeded,
         LibProofs!ContextNeeded, Lib!ProcessDies, LibProofs!ProcessDies
<1>. QED BY <1>1, LibAssumption, LibProofs!CancelIInv

LEMMA LibStutter ==
  ASSUME LibProofs!IInv, UNCHANGED lib
  PROVE  LibProofs!IInv'
<1>1. UNCHANGED LibProofs!vars
  BY DEF lib, LibProofs!vars
<1>. QED BY <1>1, LibAssumption, LibProofs!StutterIInv

(* What the applet needs of the library's invariant: the records, and that *)
(* the table finds exactly the outstanding calls, each under its own id.   *)
LEMMA LibTable ==
  ASSUME LibProofs!IInv
  PROVE  /\ clients \in BOOLEAN
         /\ service_call_id \in 0..MaxId
         /\ service_calls \in [1..MaxId -> Call \cup {NoCall}]
         /\ scd \in [Call -> Lib!Scd]
         /\ held \in [Call -> 0..MaxId]
         /\ \A c \in Call : scd[c].stage = "free" => held[c] = 0
         /\ \A c \in Call : scd[c].stage # "free" =>
              scd[c].id \in 1..service_call_id /\ service_calls[scd[c].id] = c
         /\ \A i \in 1..MaxId : service_calls[i] # NoCall =>
              scd[service_calls[i]].stage # "free" /\ scd[service_calls[i]].id = i
BY DEF LibProofs!IInv, LibProofs!TypeOK, LibProofs!CallsUnderOwnId, LibProofs!Id,
       LibProofs!Outstanding, LibProofs!Scd, Lib!Scd
-----------------------------------------------------------------------------
(* Stacks of handlers *)

(* A handler is entered.                                                   *)
LEMMA StackPush ==
  ASSUME NEW stack, StackOK(stack), Len(stack) < MaxDepth,
         stack # << >> => Head(stack).at \in Loops,
         NEW f \in Frame, FrameOK(f), f.at \in {"cancel", "apply"}
  PROVE  /\ StackOK(<<f>> \o stack)
         /\ Showing(<<f>> \o stack) => Showing(stack)
         /\ Closing(stack) \/ f.of = "close" => Closing(<<f>> \o stack)
<1> DEFINE new == <<f>> \o stack
<1>1. /\ new \in Seq(Frame)
      /\ Len(new) = Len(stack) + 1
      /\ new[1] = f
      /\ \A i \in 1..Len(stack) : new[i + 1] = stack[i]
  BY DEF StackOK
<1>2. /\ \A i \in 2..Len(new) : i - 1 \in 1..Len(stack) /\ new[i] = stack[i - 1]
      /\ 1 \in 1..Len(new)
      /\ \A i \in 1..Len(new) : i = 1 \/ i \in 2..Len(new)
  BY <1>1 DEF StackOK
<1> HIDE DEF new
<1>3. \A i \in 1..Len(stack) : stack[i].at \in Loops \cup {"freed"}
  BY DEF StackOK
<1>4. \A i \in 1..Len(new) : FrameOK(new[i])
  BY <1>1, <1>2 DEF StackOK
<1>5. \A i \in 2..Len(new) : new[i].at \in Loops \cup {"freed"}
  BY <1>2, <1>3
<1>6. ASSUME NEW i \in 1..Len(new), NEW j \in 1..Len(new), i < j,
             new[i].at \in {"codeui", "cid", "query"}
      PROVE  new[j].at # "codeui"
  <2>1. i # 1 /\ i \in 2..Len(new) /\ j \in 2..Len(new)
    BY <1>1, <1>2, <1>6
  <2>2. new[i] = stack[i - 1] /\ new[j] = stack[j - 1] /\ i - 1 < j - 1
    BY <1>2, <1>6, <2>1
  <2>. QED BY <1>2, <1>6, <2>1, <2>2 DEF StackOK
<1>7. StackOK(new)
  <2>1. Len(new) <= MaxDepth
    BY <1>1, AppletAssumption DEF StackOK
  <2>. QED BY <1>1, <1>4, <1>5, <1>6, <2>1 DEF StackOK
<1>8. ASSUME Showing(new) PROVE Showing(stack)
  <2>1. PICK i \in 1..Len(new) : new[i].at \in ShowSteps
    BY <1>8 DEF Showing
  <2>2. i # 1
    BY <1>1, <2>1 DEF ShowSteps
  <2>. QED BY <1>2, <2>1, <2>2 DEF Showing
<1>9. ASSUME Closing(stack) \/ f.of = "close" PROVE Closing(new)
  <2>1. CASE f.of = "close"
    BY <1>1, <1>2, <2>1 DEF Closing
  <2>2. CASE Closing(stack)
    <3>1. PICK i \in 1..Len(stack) : stack[i].of = "close"
      BY <2>2 DEF Closing
    <3>2. i + 1 \in 1..Len(new) /\ new[i + 1].of = "close"
      BY <1>1, <3>1 DEF StackOK
    <3>. QED BY <3>2 DEF Closing
  <2>. QED BY <1>9, <2>1, <2>2
<1>. QED BY <1>7, <1>8, <1>9 DEF new

(* The innermost handler returns.                                          *)
LEMMA StackPop ==
  ASSUME NEW stack, StackOK(stack), stack # << >>
  PROVE  /\ StackOK(Tail(stack))
         /\ Showing(Tail(stack)) => Showing(stack)
         /\ Head(stack).at \in {"codeui", "cid", "query"} => ~Showing(Tail(stack))
         /\ Closing(stack) /\ Head(stack).of # "close" => Closing(Tail(stack))
<1> DEFINE new == Tail(stack)
<1>1. /\ new \in Seq(Frame)
      /\ Len(stack) = Len(new) + 1
      /\ Head(stack) = stack[1]
      /\ \A i \in 1..Len(new) : i + 1 \in 2..Len(stack) /\ new[i] = stack[i + 1]
      /\ 1 \in 1..Len(stack) /\ 2..Len(stack) \subseteq 1..Len(stack)
      /\ Len(new) \in Nat
  BY DEF StackOK
<1> HIDE DEF new
<1>2. \A i \in 1..Len(new) : i \in Nat /\ new[i].at \in Loops \cup {"freed"}
  BY <1>1 DEF StackOK
<1>3. StackOK(new)
  <2>1. \A i \in 1..Len(new) : FrameOK(new[i])
    BY <1>1 DEF StackOK
  <2>2. \A i \in 2..Len(new) : new[i].at \in Loops \cup {"freed"}
    BY <1>1, <1>2
  <2>3. ASSUME NEW i \in 1..Len(new), NEW j \in 1..Len(new), i < j,
               new[i].at \in {"codeui", "cid", "query"}
        PROVE  new[j].at # "codeui"
    <3>1. i + 1 \in 1..Len(stack) /\ j + 1 \in 1..Len(stack) /\ i + 1 < j + 1
      BY <1>1, <2>3
    <3>. QED BY <1>1, <2>3, <3>1 DEF StackOK
  <2>4. Len(new) <= MaxDepth
    BY <1>1, AppletAssumption DEF StackOK
  <2>. QED BY <1>1, <2>1, <2>2, <2>3, <2>4 DEF StackOK
<1>4. ASSUME Showing(new) PROVE Showing(stack)
  <2>1. PICK i \in 1..Len(new) : new[i].at \in ShowSteps
    BY <1>4 DEF Showing
  <2>2. i + 1 \in 1..Len(stack) /\ stack[i + 1].at \in ShowSteps
    BY <1>1, <2>1
  <2>. QED BY <2>2 DEF Showing
<1>5. ASSUME Head(stack).at \in {"codeui", "cid", "query"} PROVE ~Showing(new)
  <2> SUFFICES ASSUME NEW i \in 1..Len(new), new[i].at \in ShowSteps PROVE FALSE
    BY DEF Showing
  <2>1. new[i].at = "codeui"
    BY <1>2 DEF ShowSteps, Loops
  <2>2. 1 \in 1..Len(stack) /\ i + 1 \in 1..Len(stack) /\ 1 < i + 1
    BY <1>1
  <2>. QED BY <1>1, <1>5, <2>1, <2>2 DEF StackOK
<1>6. ASSUME Closing(stack), Head(stack).of # "close" PROVE Closing(new)
  <2>1. PICK i \in 1..Len(stack) : stack[i].of = "close"
    BY <1>6 DEF Closing
  <2>2. i # 1
    BY <1>1, <1>6, <2>1
  <2>3. i - 1 \in 1..Len(new) /\ new[i - 1] = stack[i]
    BY <1>1, <2>2
  <2>. QED BY <2>1, <2>3 DEF Closing
<1>. QED BY <1>3, <1>4, <1>5, <1>6 DEF new

(* The innermost handler makes a step.                                     *)
LEMMA StackStep ==
  ASSUME NEW stack, StackOK(stack), stack # << >>,
         NEW f \in Frame, FrameOK(f),
         f.at \in {"codeui", "cid", "query"} =>
           Head(stack).at \in {"codeui", "cid", "query"}
             \/ \A i \in 2..Len(stack) : stack[i].at # "codeui"
  PROVE  /\ StackOK([stack EXCEPT ![1] = f])
         /\ Showing([stack EXCEPT ![1] = f]) => Showing(stack) \/ f.at \in ShowSteps
         /\ Closing(stack) /\ (Head(stack).of = "close" => f.of = "close")
              => Closing([stack EXCEPT ![1] = f])
         /\ f.of = "close" => Closing([stack EXCEPT ![1] = f])
<1> DEFINE new == [stack EXCEPT ![1] = f]
<1>1. /\ new \in Seq(Frame)
      /\ Len(new) = Len(stack)
      /\ Head(stack) = stack[1]
      /\ new[1] = f
      /\ \A i \in 1..Len(stack) : i # 1 => new[i] = stack[i]
      /\ 1 \in 1..Len(stack)
      /\ Len(stack) \in Nat
  BY DEF StackOK
<1> HIDE DEF new
<1>2. StackOK(new)
  <2>1. \A i \in 1..Len(new) : FrameOK(new[i])
    BY <1>1 DEF StackOK
  <2>2. \A i \in 2..Len(new) : new[i].at \in Loops \cup {"freed"}
    BY <1>1 DEF StackOK
  <2>3. ASSUME NEW i \in 1..Len(new), NEW j \in 1..Len(new), i < j,
               new[i].at \in {"codeui", "cid", "query"}
        PROVE  new[j].at # "codeui"
    <3>1. new[j] = stack[j] /\ j \in 2..Len(stack)
      BY <1>1, <2>3
    <3>2. CASE i = 1
      BY <1>1, <2>3, <3>1, <3>2 DEF StackOK
    <3>3. CASE i # 1
      BY <1>1, <2>3, <3>1, <3>3 DEF StackOK
    <3>. QED BY <3>2, <3>3
  <2>. QED BY <1>1, <2>1, <2>2, <2>3 DEF StackOK
<1>3. Showing(new) => Showing(stack) \/ f.at \in ShowSteps
  BY <1>1 DEF Showing
<1>4. ASSUME Closing(stack), Head(stack).of = "close" => f.of = "close"
      PROVE  Closing(new)
  BY <1>1, <1>4 DEF Closing
<1>5. f.of = "close" => Closing(new)
  BY <1>1 DEF Closing
<1>. QED BY <1>2, <1>3, <1>4, <1>5 DEF new

FreedHandler(f) == [f EXCEPT !.at = "freed"]

LEMMA FreedFrame ==
  ASSUME NEW f \in Frame, FrameOK(f)
  PROVE  /\ FreedHandler(f) \in Frame
         /\ FrameOK(FreedHandler(f))
         /\ FreedHandler(f).of = f.of
         /\ FreedHandler(f).at = "freed"
BY DEF FreedHandler, Frame, FrameOK, Steps, ShowSteps

(* Some handlers find later that what they use was freed.                  *)
LEMMA StackFreed ==
  ASSUME NEW stack, StackOK(stack), NEW new,
         DOMAIN new = 1..Len(stack),
         new = [i \in 1..Len(stack) |-> new[i]],
         \A i \in 1..Len(stack) :
            new[i] = stack[i] \/ new[i] = FreedHandler(stack[i])
  PROVE  /\ StackOK(new)
         /\ Len(new) = Len(stack)
         /\ Showing(new) => Showing(stack)
         /\ Closing(stack) => Closing(new)
<1>1. Len(stack) \in Nat /\ \A i \in 1..Len(stack) : stack[i] \in Frame /\ FrameOK(stack[i])
  BY DEF StackOK
<1>2. \A i \in 1..Len(stack) :
        /\ new[i] \in Frame
        /\ FrameOK(new[i])
        /\ new[i].of = stack[i].of
        /\ new[i].at = stack[i].at \/ new[i].at = "freed"
  <2> TAKE i \in 1..Len(stack)
  <2>1. CASE new[i] = stack[i]
    BY <1>1, <2>1
  <2>2. CASE new[i] = FreedHandler(stack[i])
    BY <1>1, <2>2, FreedFrame
  <2>. QED BY <2>1, <2>2
<1>3. new \in Seq(Frame) /\ Len(new) = Len(stack)
  BY <1>1, <1>2
<1>4. 2..Len(stack) \subseteq 1..Len(stack)
  BY <1>1
<1>5. StackOK(new)
  <2>1. \A i \in 2..Len(new) : new[i].at \in Loops \cup {"freed"}
    BY <1>2, <1>3, <1>4 DEF StackOK
  <2>2. ASSUME NEW i \in 1..Len(new), NEW j \in 1..Len(new), i < j,
               new[i].at \in {"codeui", "cid", "query"}
        PROVE  new[j].at # "codeui"
    BY <1>2, <1>3, <2>2 DEF StackOK
  <2>. QED BY <1>2, <1>3, <2>1, <2>2 DEF StackOK
<1>6. Showing(new) => Showing(stack)
  BY <1>2, <1>3 DEF Showing, ShowSteps
<1>7. Closing(stack) => Closing(new)
  BY <1>2, <1>3 DEF Closing
<1>. QED BY <1>3, <1>5, <1>6, <1>7

LEMMA StackCodeUiFreed ==
  ASSUME NEW stack, StackOK(stack)
  PROVE  /\ StackOK(CodeUiFreed(stack))
         /\ Len(CodeUiFreed(stack)) = Len(stack)
         /\ Showing(CodeUiFreed(stack)) => Showing(stack)
         /\ Closing(stack) => Closing(CodeUiFreed(stack))
<1> DEFINE new == CodeUiFreed(stack)
<1>1. /\ DOMAIN new = 1..Len(stack)
      /\ new = [i \in 1..Len(stack) |-> new[i]]
      /\ \A i \in 1..Len(stack) :
            new[i] = stack[i] \/ new[i] = FreedHandler(stack[i])
  BY DEF CodeUiFreed, FreedHandler
<1> HIDE DEF new
<1>2. /\ StackOK(new) /\ Len(new) = Len(stack)
      /\ Showing(new) => Showing(stack)
      /\ Closing(stack) => Closing(new)
  BY <1>1, StackFreed
<1>. QED BY <1>2 DEF new

LEMMA StackAllFreed ==
  ASSUME NEW stack, StackOK(stack)
  PROVE  /\ StackOK(AllFreed(stack))
         /\ ~Showing(AllFreed(stack))
         /\ \A i \in 1..Len(AllFreed(stack)) : AllFreed(stack)[i].at = "freed"
<1> DEFINE new == AllFreed(stack)
<1>1. /\ DOMAIN new = 1..Len(stack)
      /\ new = [i \in 1..Len(stack) |-> new[i]]
      /\ \A i \in 1..Len(stack) : new[i] = FreedHandler(stack[i])
  BY DEF AllFreed, FreedHandler
<1> HIDE DEF new
<1>2. StackOK(new) /\ Len(new) = Len(stack)
  BY <1>1, StackFreed
<1>3. \A i \in 1..Len(new) : new[i].at = "freed"
  BY <1>1, <1>2, FreedFrame DEF StackOK
<1>4. ~Showing(new)
  BY <1>3 DEF Showing, ShowSteps
<1>. QED BY <1>2, <1>3, <1>4 DEF new
-----------------------------------------------------------------------------
(* The requests                                                            *)

LEMMA RequestedIsFinite ==
  ASSUME NEW S \in SUBSET Call
  PROVE  IsFiniteSet(S) /\ Cardinality(S) \in Nat
BY AppletAssumption, FS_Subset, FS_CardinalityType

(* A request is added to those under way, or is done.                      *)
LEMMA CountAdd ==
  ASSUME NEW c \in Call, role \in [Call -> Role], role[c] = "none",
         NEW r \in Role, r # "none",
         role' = [role EXCEPT ![c] = r]
  PROVE  /\ role' \in [Call -> Role]
         /\ Cardinality(Requested') = Cardinality(Requested) + 1
<1>1. Requested \in SUBSET Call /\ c \notin Requested
  BY DEF Requested
<1>2. Requested' = Requested \cup {c}
  BY DEF Requested
<1>. QED BY <1>1, <1>2, RequestedIsFinite, FS_AddElement

LEMMA CountDrop ==
  ASSUME NEW c \in Call, role \in [Call -> Role], role[c] # "none", Done(c)
  PROVE  /\ role' \in [Call -> Role]
         /\ Cardinality(Requested') = Cardinality(Requested) - 1
         /\ Cardinality(Requested) >= 1
<1>1. /\ Requested \in SUBSET Call /\ c \in Requested
      /\ Requested' = Requested \ {c}
      /\ role' \in [Call -> Role]
  BY DEF Requested, Done, Role
<1>2. Requested' \in SUBSET Call /\ c \notin Requested' /\ Requested = Requested' \cup {c}
  BY <1>1
<1>3. Cardinality(Requested) = Cardinality(Requested') + 1
  BY <1>2, RequestedIsFinite, FS_AddElement
<1>. QED BY <1>1, <1>2, <1>3, RequestedIsFinite

LEMMA CountMove ==
  ASSUME NEW c \in Call, NEW d \in Call, c # d,
         role \in [Call -> Role], role[c] # "none", role[d] = "none",
         role' = [role EXCEPT ![c] = "none", ![d] = "forward"]
  PROVE  /\ role' \in [Call -> Role]
         /\ Cardinality(Requested') = Cardinality(Requested)
<1>1. /\ Requested \in SUBSET Call /\ c \in Requested /\ d \notin Requested
      /\ Requested' = (Requested \ {c}) \cup {d}
      /\ role' \in [Call -> Role]
  BY DEF Requested, Role
<1> DEFINE Rest == Requested \ {c}
<1>2. /\ Rest \in SUBSET Call /\ c \notin Rest /\ d \notin Rest
      /\ Requested = Rest \cup {c} /\ Requested' = Rest \cup {d}
  BY <1>1
<1>3. /\ Cardinality(Requested) = Cardinality(Rest) + 1
      /\ Cardinality(Requested') = Cardinality(Rest) + 1
  <2> HIDE DEF Rest
  <2>. QED BY <1>2, RequestedIsFinite, FS_AddElement
<1>. QED BY <1>1, <1>3

(* When the counter of an open applet is zero nothing is under way.        *)
LEMMA CountZero ==
  ASSUME RequestsOK, counter = 0
  PROVE  /\ \A c \in Call : role[c] = "none"
         /\ clir = 0 /\ lost = 0
<1>1. CASE ~open
  BY <1>1 DEF RequestsOK, NoRequestLeft
<1>2. CASE open
  <2>1. 0 = Cardinality(Requested) + clir + lost
    BY <1>2 DEF RequestsOK, PendingCountsRequests, Requested
  <2>2. Requested \in SUBSET Call /\ clir \in Nat /\ lost \in Nat
    BY AppletAssumption DEF Requested, RequestsOK, RequestTypes
  <2>3. IsFiniteSet(Requested) /\ Cardinality(Requested) \in Nat
    BY <2>2, RequestedIsFinite
  <2>4. Cardinality(Requested) = 0 /\ clir = 0 /\ lost = 0
    BY <2>1, <2>2, <2>3
  <2>5. Requested = {}
    BY <2>3, <2>4, FS_EmptySet
  <2>. QED BY <2>4, <2>5 DEF Requested
<1>. QED BY <1>1, <1>2

(* What a step of the library does to the calls: c is started, c ends, or  *)
(* none is started and none ends.                                          *)
Sent(c) ==
  /\ scd[c].stage = "free" /\ scd'[c].stage # "free"
  /\ \A d \in Call \ {c} : scd'[d] = scd[d] /\ held'[d] = held[d]
  /\ service_calls' = [service_calls EXCEPT ![Lib!NextId] = c]
  /\ Lib!NextId \in 1..MaxId

Ended(c) ==
  /\ scd[c].stage # "free" /\ scd'[c].stage = "free"
  /\ \A d \in Call \ {c} : scd'[d] = scd[d] /\ held'[d] = held[d]
  /\ service_calls' = [service_calls EXCEPT ![scd[c].id] = NoCall]

SameCalls ==
  /\ \A c \in Call : scd'[c].stage = "free" <=> scd[c].stage = "free"
  /\ UNCHANGED <<held, service_calls>>

LEMMA StartSends ==
  ASSUME LibProofs!IInv, NEW c \in Call, NEW m, NEW keep \in BOOLEAN, Lib!Start(c, m, keep)
  PROVE  Sent(c) /\ held'[c] = IF keep THEN Lib!NextId ELSE 0
<1>1. scd \in [Call -> Lib!Scd] /\ held \in [Call -> 0..MaxId]
  BY LibTable
<1>2. /\ scd[c].stage = "free"
      /\ Lib!NextId \in 1..MaxId
      /\ service_calls' = [service_calls EXCEPT ![Lib!NextId] = c]
      /\ held' = [held EXCEPT ![c] = IF keep THEN Lib!NextId ELSE 0]
  BY DEF Lib!Start, Lib!Outstanding, Lib!Id, Lib!Added
<1>3. \/ scd' = [scd EXCEPT ![c] = Lib!NewCall("flight", Lib!NextId, m)]
      \/ scd' = [scd EXCEPT ![c] = Lib!NewCall("queued", Lib!NextId, m)]
  BY DEF Lib!Start
<1>4. scd'[c].stage # "free" /\ \A d \in Call \ {c} : scd'[d] = scd[d]
  BY <1>1, <1>3 DEF Lib!NewCall
<1>. QED BY <1>1, <1>2, <1>4 DEF Sent

LEMMA StartCallerIdSends ==
  ASSUME LibProofs!IInv, NEW c \in Call, Lib!StartCallerId(c)
  PROVE  Sent(c)
<1>1. scd \in [Call -> Lib!Scd]
  BY LibTable
<1>2. /\ scd[c].stage = "free"
      /\ Lib!NextId \in 1..MaxId
      /\ service_calls' = [service_calls EXCEPT ![Lib!NextId] = c]
      /\ held' = held
      /\ scd' = [scd EXCEPT ![c] = Lib!NewCall("flight", Lib!NextId, NoModem)]
  BY DEF Lib!StartCallerId, Lib!Outstanding, Lib!Id, Lib!Added
<1>3. scd'[c].stage # "free" /\ \A d \in Call \ {c} : scd'[d] = scd[d]
  BY <1>1, <1>2 DEF Lib!NewCall
<1>. QED BY <1>2, <1>3 DEF Sent

LEMMA CompletedEnds ==
  ASSUME LibProofs!IInv, NEW c \in Call, NEW p, scd[c].stage # "free", Lib!Completed(c, p)
  PROVE  Ended(c)
<1>1. scd \in [Call -> Lib!Scd] /\ held \in [Call -> 0..MaxId]
  BY LibTable
<1>2. /\ service_calls' = [service_calls EXCEPT ![scd[c].id] = NoCall]
      /\ scd' = [scd EXCEPT ![c] = Lib!FreeCall]
      /\ held' = [held EXCEPT ![c] = 0]
  BY DEF Lib!Completed, Lib!Taken
<1>3. scd'[c].stage = "free" /\ \A d \in Call \ {c} : scd'[d] = scd[d] /\ held'[d] = held[d]
  BY <1>1, <1>2 DEF Lib!FreeCall
<1>. QED BY <1>2, <1>3 DEF Ended

LEMMA ReplyEnds ==
  ASSUME LibProofs!IInv, NEW c \in Call, Lib!Reply(c), GoesOn
  PROVE  Ended(c)
<1>1. ~Lib!ProcessDies
  BY DEF Lib!ProcessDies, GoesOn
<1>2. scd[c].stage # "free" /\ Lib!Completed(c, pending)
  BY <1>1 DEF Lib!Reply
<1>. QED BY <1>2, CompletedEnds

(* A call in flight is cancelled later, a queued one at once.              *)
LEMMA CancelEnds ==
  ASSUME LibProofs!IInv, Lib!CancelId(svc), service_calls[svc] \in Call, GoesOn
  PROVE  \/ SameCalls /\ scd'[service_calls[svc]].stage # "free"
         \/ Ended(service_calls[svc])
<1> DEFINE c == service_calls[svc]
<1>1. ~Lib!ProcessDies
  BY DEF Lib!ProcessDies, GoesOn
<1>2. CASE /\ scd[c].stage = "flight"
           /\ scd' = [scd EXCEPT ![c].cancelled = TRUE]
           /\ UNCHANGED <<held, service_calls>>
  <2>1. scd \in [Call -> Lib!Scd]
    BY LibTable
  <2> HIDE DEF c
  <2>2. c \in Call
    BY DEF c
  <2>3. \A d \in Call : scd'[d].stage = scd[d].stage
    <3> TAKE d \in Call
    <3>1. CASE d = c
      BY <1>2, <2>1, <3>1 DEF Lib!Scd
    <3>2. CASE d # c
      BY <1>2, <2>1, <3>2
    <3>. QED BY <3>1, <3>2
  <2>4. SameCalls /\ scd'[c].stage # "free"
    BY <1>2, <2>2, <2>3 DEF SameCalls
  <2>. QED BY <2>4 DEF c
<1>3. CASE scd[c].stage = "queued" /\ Lib!Completed(c, Lib!Unqueued(c))
  BY <1>3, CompletedEnds
<1>. QED BY <1>1, <1>2, <1>3 DEF Lib!CancelId

(* The signals of oFono neither start nor end a call.                      *)
LEMMA OrphanedSame ==
  ASSUME LibProofs!IInv, NEW m, scd' = Lib!Orphaned(m), UNCHANGED <<held, service_calls>>
  PROVE  SameCalls
<1>1. scd \in [Call -> Lib!Scd]
  BY LibTable
<1>2. \A c \in Call : scd'[c].stage = scd[c].stage
  BY <1>1 DEF Lib!Orphaned, Lib!Scd
<1>. QED BY <1>2 DEF SameCalls

LEMMA InterfaceAddedSame ==
  ASSUME LibProofs!IInv, NEW m \in Modem, Lib!InterfaceAdded(m)
  PROVE  SameCalls
<1>1. scd \in [Call -> Lib!Scd]
  BY LibTable
<1>2. UNCHANGED <<held, service_calls>>
  BY DEF Lib!InterfaceAdded
<1>3. \A c \in pending[m] : scd[c].stage = "queued"
  BY DEF LibProofs!IInv, LibProofs!QueueHoldsLiveCalls
<1>4. \/ scd' = [c \in Call |-> IF c \in pending[m] THEN [scd[c] EXCEPT !.stage = "flight"]
                                ELSE scd[c]]
      \/ scd' = scd
  BY DEF Lib!InterfaceAdded
<1>5. \A c \in Call : scd'[c].stage = "free" <=> scd[c].stage = "free"
  <2> TAKE c \in Call
  <2>1. CASE scd' = scd
    BY <2>1
  <2>2. CASE scd' = [e \in Call |-> IF e \in pending[m]
                                    THEN [scd[e] EXCEPT !.stage = "flight"] ELSE scd[e]]
    <3>1. CASE c \in pending[m]
      BY <1>1, <1>3, <2>2, <3>1 DEF Lib!Scd
    <3>2. CASE c \notin pending[m]
      BY <2>2, <3>2
    <3>. QED BY <3>1, <3>2
  <2>. QED BY <1>4, <2>1, <2>2
<1>. QED BY <1>2, <1>5 DEF SameCalls

LEMMA RequestsKept ==
  ASSUME RequestsOK, SameCalls, UNCHANGED requests, UNCHANGED open
  PROVE  RequestsOK'
<1>1. UNCHANGED <<counter, svc, role, clir, lost, held, service_calls, open>>
  BY DEF requests, SameCalls
<1>2. RequestTypes' /\ PendingCountsRequests' /\ NoRequestLeft'
  BY <1>1 DEF RequestsOK, RequestTypes, PendingCountsRequests, NoRequestLeft
<1>3. RolesAreCalls'
  BY <1>1 DEF RequestsOK, RolesAreCalls, SameCalls
<1>4. KeptIdIsHeld' /\ KeptIdIsUsed'
  BY <1>1 DEF RequestsOK, KeptIdIsHeld, KeptIdIsUsed
<1>. QED BY <1>2, <1>3, <1>4 DEF RequestsOK

(* A request is sent, and counted.                                         *)
LEMMA RequestAdded ==
  ASSUME LibProofs!IInv, RequestsOK, open, open',
         NEW c \in Call, Sent(c),
         NEW r \in Role \ {"none"}, role' = [role EXCEPT ![c] = r],
         counter' = counter + 1,
         UNCHANGED <<clir, lost>>,
         \/ r \notin Cancellable /\ svc' = svc
         \/ /\ svc' = Lib!NextId /\ held'[c] = Lib!NextId
            /\ r \in Cancellable
            /\ \A d \in Call : role[d] \notin Cancellable
  PROVE  RequestsOK'
<1>1. /\ service_call_id \in 0..MaxId
      /\ service_calls \in [1..MaxId -> Call \cup {NoCall}]
      /\ \A i \in 1..MaxId : service_calls[i] # NoCall =>
              scd[service_calls[i]].stage # "free" /\ scd[service_calls[i]].id = i
      /\ \A d \in Call : scd[d].stage # "free" => scd[d].id \in 1..service_call_id
  BY LibTable
<1>2. /\ role \in [Call -> Role] /\ counter \in Int /\ svc \in 0..MaxId
      /\ clir \in 0..MaxClir /\ lost \in 0..MaxClir
  BY DEF RequestsOK, RequestTypes
<1>3. role[c] = "none"
  BY DEF RequestsOK, RolesAreCalls, Sent
<1>4. r \in Role /\ r # "none"
  OBVIOUS
<1>5. /\ role' \in [Call -> Role]
      /\ Cardinality(Requested') = Cardinality(Requested) + 1
  BY <1>2, <1>3, <1>4, CountAdd
<1>6. RequestTypes'
  BY <1>2, <1>5 DEF RequestTypes, Sent
<1>7. PendingCountsRequests'
  <2>1. Requested \in SUBSET Call
    BY DEF Requested
  <2>2. Cardinality(Requested) \in Nat
    BY <2>1, RequestedIsFinite
  <2>3. counter = Cardinality(Requested) + clir + lost
    BY DEF RequestsOK, PendingCountsRequests, Requested
  <2>4. clir \in Nat /\ lost \in Nat
    BY <1>2, AppletAssumption
  <2>5. counter' = Cardinality(Requested') + clir' + lost'
    BY <1>5, <2>2, <2>3, <2>4
  <2>. QED BY <2>5 DEF PendingCountsRequests, Requested
<1>8. \A d \in Call \ {c} : role'[d] = role[d]
  BY <1>2
<1>9. role'[c] = r
  BY <1>2
<1>10. RolesAreCalls'
  <2> SUFFICES ASSUME NEW d \in Call PROVE role'[d] # "none" <=> scd'[d].stage # "free"
    BY DEF RolesAreCalls
  <2>1. CASE d = c
    BY <1>4, <1>9, <2>1 DEF Sent
  <2>2. CASE d # c
    BY <1>8, <2>2 DEF Sent, RequestsOK, RolesAreCalls
  <2>. QED BY <2>1, <2>2
<1>11. KeptIdIsHeld'
  <2> SUFFICES ASSUME NEW d \in Call, role'[d] \in Cancellable
               PROVE  svc' # 0 /\ held'[d] = svc'
    BY DEF KeptIdIsHeld
  <2>1. CASE d = c
    BY <1>1, <1>9, <2>1 DEF Sent
  <2>2. CASE d # c
    <3>1. role[d] \in Cancellable /\ held'[d] = held[d]
      BY <1>8, <2>2 DEF Sent
    <3>2. svc' = svc
      BY <3>1
    <3>. QED BY <3>1, <3>2 DEF RequestsOK, KeptIdIsHeld
  <2>. QED BY <2>1, <2>2
<1>12. KeptIdIsUsed'
  <2>1. service_calls' = [service_calls EXCEPT ![Lib!NextId] = c]
    BY DEF Sent
  <2>2. CASE svc' = Lib!NextId /\ r \in Cancellable
    <3>1. service_calls'[svc'] = c
      BY <1>1, <2>1, <2>2 DEF Sent
    <3>2. c # NoCall
      BY AppletAssumption
    <3>. QED BY <1>9, <2>2, <3>1, <3>2 DEF KeptIdIsUsed
  <2>3. CASE svc' = svc /\ svc # 0
    <3>1. service_calls[svc] # NoCall /\ role[service_calls[svc]] \in Cancellable
      BY <2>3 DEF RequestsOK, KeptIdIsUsed
    <3>2. svc \in 1..MaxId /\ service_calls[svc] \in Call
      BY <1>1, <1>2, <2>3, <3>1
    <3>3. svc \in 1..service_call_id
      BY <1>1, <3>1, <3>2
    <3>4. svc # Lib!NextId
      BY <1>1, <3>3 DEF Lib!NextId
    <3>5. service_calls'[svc] = service_calls[svc]
      BY <1>1, <2>1, <3>2, <3>4
    <3>6. service_calls[svc] # c
      BY <1>3, <3>1 DEF Cancellable
    <3>7. role'[service_calls[svc]] = role[service_calls[svc]]
      BY <1>8, <3>2, <3>6
    <3>. QED BY <2>3, <3>1, <3>5, <3>7 DEF KeptIdIsUsed
  <2>4. CASE svc' = 0
    BY <2>4 DEF KeptIdIsUsed
  <2>. QED BY <2>2, <2>3, <2>4
<1>. QED BY <1>6, <1>7, <1>10, <1>11, <1>12 DEF RequestsOK, NoRequestLeft

(* A request is answered or taken from the queue, and counted off.         *)
LEMMA RequestDone ==
  ASSUME LibProofs!IInv, RequestsOK, UNCHANGED open,
         NEW c \in Call, Ended(c), Done(c),
         counter' = counter - 1,
         svc' = IF role[c] \in Cancellable THEN 0 ELSE svc,
         UNCHANGED <<clir, lost>>
  PROVE  RequestsOK'
<1>1. /\ service_calls \in [1..MaxId -> Call \cup {NoCall}]
      /\ scd[c].id \in 1..MaxId /\ service_calls[scd[c].id] = c
      /\ held \in [Call -> 0..MaxId]
  <2>1. scd[c].id \in 1..service_call_id /\ service_call_id \in 0..MaxId
    BY LibTable DEF Ended
  <2>2. scd[c].id \in 1..MaxId
    BY <2>1, AppletAssumption
  <2>. QED BY <2>2, LibTable DEF Ended
<1>2. /\ role \in [Call -> Role] /\ counter \in Int /\ svc \in 0..MaxId
      /\ clir \in 0..MaxClir /\ lost \in 0..MaxClir
  BY DEF RequestsOK, RequestTypes
<1>3. role[c] # "none"
  BY DEF RequestsOK, RolesAreCalls, Ended
<1>4. /\ role' \in [Call -> Role]
      /\ Cardinality(Requested') = Cardinality(Requested) - 1
  BY <1>2, <1>3, CountDrop
<1>5. open
  BY <1>3 DEF RequestsOK, NoRequestLeft
<1>6. RequestTypes'
  BY <1>2, <1>4, AppletAssumption DEF RequestTypes
<1>7. PendingCountsRequests'
  <2>1. Requested \in SUBSET Call
    BY DEF Requested
  <2>2. Cardinality(Requested) \in Nat
    BY <2>1, RequestedIsFinite
  <2>3. counter = Cardinality(Requested) + clir + lost
    BY <1>5 DEF RequestsOK, PendingCountsRequests, Requested
  <2>4. clir \in Nat /\ lost \in Nat
    BY <1>2, AppletAssumption
  <2>5. counter' = Cardinality(Requested') + clir' + lost'
    BY <1>4, <2>2, <2>3, <2>4
  <2>. QED BY <2>5 DEF PendingCountsRequests, Requested
<1>8. /\ \A d \in Call \ {c} : role'[d] = role[d]
      /\ role'[c] = "none"
  BY <1>2 DEF Done
<1>9. RolesAreCalls'
  <2> SUFFICES ASSUME NEW d \in Call PROVE role'[d] # "none" <=> scd'[d].stage # "free"
    BY DEF RolesAreCalls
  <2>1. CASE d = c
    BY <1>8, <2>1 DEF Ended
  <2>2. CASE d # c
    BY <1>8, <2>2 DEF Ended, RequestsOK, RolesAreCalls
  <2>. QED BY <2>1, <2>2
<1>10. \A d \in Call \ {c} : role[d] \in Cancellable => svc # 0 /\ service_calls[svc] = d
  <2> SUFFICES ASSUME NEW d \in Call \ {c}, role[d] \in Cancellable
               PROVE  svc # 0 /\ service_calls[svc] = d
    OBVIOUS
  <2>1. svc # 0 /\ held[d] = svc
    BY DEF RequestsOK, KeptIdIsHeld
  <2>. QED BY <2>1 DEF LibProofs!IInv, LibProofs!HeldIdFindsOwnCall
<1>11. role[c] \in Cancellable => svc # 0 /\ service_calls[svc] = c
  BY DEF RequestsOK, KeptIdIsHeld, LibProofs!IInv, LibProofs!HeldIdFindsOwnCall
<1>12. KeptIdIsHeld'
  <2> SUFFICES ASSUME NEW d \in Call, role'[d] \in Cancellable
               PROVE  svc' # 0 /\ held'[d] = svc'
    BY DEF KeptIdIsHeld
  <2>1. d # c /\ role[d] \in Cancellable
    BY <1>8 DEF Cancellable
  <2>2. role[c] \notin Cancellable
    BY <1>10, <1>11, <2>1
  <2>. QED BY <2>1, <2>2 DEF RequestsOK, KeptIdIsHeld, Ended
<1>13. KeptIdIsUsed'
  <2> SUFFICES ASSUME svc' # 0
               PROVE  service_calls'[svc'] # NoCall /\ role'[service_calls'[svc']] \in Cancellable
    BY DEF KeptIdIsUsed
  <2>1. svc' = svc /\ role[c] \notin Cancellable
    OBVIOUS
  <2>2. service_calls[svc] # NoCall /\ role[service_calls[svc]] \in Cancellable
    BY <2>1 DEF RequestsOK, KeptIdIsUsed
  <2>3. svc \in 1..MaxId /\ service_calls[svc] \in Call \ {c}
    BY <1>1, <1>2, <2>1, <2>2
  <2>4. service_calls'[svc] = service_calls[svc]
    BY <1>1, <2>3 DEF Ended
  <2>. QED BY <1>8, <2>1, <2>2, <2>3, <2>4
<1>. QED BY <1>5, <1>6, <1>7, <1>9, <1>12, <1>13 DEF RequestsOK, NoRequestLeft

(* The answered request for call waiting goes on as one for forwarding.    *)
LEMMA RequestChained ==
  ASSUME LibProofs!IInv, RequestsOK, UNCHANGED open,
         NEW c \in Call, NEW d \in Call,
         Lib!ReplyAndChain(c, d), role[c] = "waiting",
         role' = [role EXCEPT ![c] = "none", ![d] = "forward"],
         svc' = Lib!NextId,
         UNCHANGED <<counter, clir, lost>>
  PROVE  RequestsOK'
<1>1. /\ scd \in [Call -> Lib!Scd] /\ held \in [Call -> 0..MaxId]
      /\ service_call_id \in 0..MaxId
      /\ service_calls \in [1..MaxId -> Call \cup {NoCall}]
  BY LibTable
<1>2. /\ scd[c].stage = "flight" /\ scd[d].stage = "free" /\ c # d
      /\ Lib!NextId \in 1..MaxId
      /\ held' = [held EXCEPT ![c] = 0, ![d] = Lib!NextId]
      /\ service_calls' =
           [[service_calls EXCEPT ![Lib!NextId] = d] EXCEPT ![scd[c].id] = NoCall]
  BY DEF Lib!ReplyAndChain, Lib!Outstanding, Lib!Id, Lib!Added, Lib!Taken
<1>3. /\ scd'[c].stage = "free" /\ scd'[d].stage # "free"
      /\ \A e \in Call \ {c, d} : scd'[e] = scd[e]
  <2>1. PICK stage \in {"flight", "queued"} :
          scd' = [scd EXCEPT ![c] = Lib!FreeCall,
                             ![d] = Lib!NewCall(stage, Lib!NextId, scd[c].modem)]
    BY DEF Lib!ReplyAndChain
  <2>. QED BY <1>1, <1>2, <2>1 DEF Lib!FreeCall, Lib!NewCall
<1>4. scd[c].id \in 1..service_call_id
  BY <1>2, LibTable
<1>5. service_calls'[Lib!NextId] = d
  BY <1>1, <1>2, <1>4 DEF Lib!NextId
<1>6. /\ role \in [Call -> Role] /\ counter \in Int /\ svc \in 0..MaxId
      /\ clir \in 0..MaxClir /\ lost \in 0..MaxClir
  BY DEF RequestsOK, RequestTypes
<1>7. role[d] = "none" /\ role[c] # "none"
  BY <1>2 DEF RequestsOK, RolesAreCalls
<1>8. /\ role' \in [Call -> Role]
      /\ Cardinality(Requested') = Cardinality(Requested)
  BY <1>2, <1>6, <1>7, CountMove
<1>9. open
  BY <1>7 DEF RequestsOK, NoRequestLeft
<1>10. RequestTypes'
  BY <1>2, <1>6, <1>8 DEF RequestTypes
<1>11. PendingCountsRequests'
  BY <1>8 DEF RequestsOK, PendingCountsRequests, Requested
<1>12. /\ role'[c] = "none" /\ role'[d] = "forward"
       /\ \A e \in Call \ {c, d} : role'[e] = role[e]
  BY <1>2, <1>6
<1>13. RolesAreCalls'
  <2> SUFFICES ASSUME NEW e \in Call PROVE role'[e] # "none" <=> scd'[e].stage # "free"
    BY DEF RolesAreCalls
  <2>1. CASE e \in {c, d}
    BY <1>3, <1>12, <2>1
  <2>2. CASE e \notin {c, d}
    BY <1>3, <1>12, <2>2 DEF RequestsOK, RolesAreCalls
  <2>. QED BY <2>1, <2>2
<1>14. \A e \in Call \ {c, d} : role[e] \notin Cancellable
  <2> SUFFICES ASSUME NEW e \in Call \ {c, d}, role[e] \in Cancellable PROVE FALSE
    OBVIOUS
  <2>1. svc # 0 /\ held[e] = svc /\ held[c] = svc
    BY DEF RequestsOK, KeptIdIsHeld, Cancellable
  <2>. QED BY <2>1 DEF LibProofs!IInv, LibProofs!HeldIdFindsOwnCall
<1>15. KeptIdIsHeld'
  <2> SUFFICES ASSUME NEW e \in Call, role'[e] \in Cancellable
               PROVE  svc' # 0 /\ held'[e] = svc'
    BY DEF KeptIdIsHeld
  <2>1. e = d
    BY <1>12, <1>14 DEF Cancellable
  <2>. QED BY <1>1, <1>2, <2>1
<1>16. KeptIdIsUsed'
  BY <1>5, <1>12, AppletAssumption DEF KeptIdIsUsed, Cancellable
<1>. QED BY <1>9, <1>10, <1>11, <1>13, <1>15, <1>16 DEF RequestsOK, NoRequestLeft

(* A caller id change is asked for, answered, or lost.                     *)
LEMMA ClirChanged ==
  ASSUME RequestsOK, UNCHANGED <<open, svc, role, scd, held, service_calls>>,
         open \/ clir > 0,
         clir' \in 0..MaxClir, lost' \in 0..MaxClir,
         \/ clir' = clir + 1 /\ lost' = lost /\ counter' = counter + 1
         \/ clir' = clir - 1 /\ lost' = lost /\ counter' = counter - 1
         \/ clir' = clir - 1 /\ lost' = lost + 1 /\ counter' = counter
  PROVE  RequestsOK'
<1>1. open
  BY DEF RequestsOK, NoRequestLeft
<1>2. /\ counter \in Int /\ clir \in Nat /\ lost \in Nat /\ clir' \in Nat /\ lost' \in Nat
  BY AppletAssumption DEF RequestsOK, RequestTypes
<1>3. PendingCountsRequests'
  <2>1. Requested \in SUBSET Call
    BY DEF Requested
  <2>2. Cardinality(Requested) \in Nat
    BY <2>1, RequestedIsFinite
  <2>3. counter = Cardinality(Requested) + clir + lost
    BY <1>1 DEF RequestsOK, PendingCountsRequests, Requested
  <2>4. counter' = Cardinality(Requested) + clir' + lost'
    BY <1>2, <2>2, <2>3
  <2>. QED BY <2>4 DEF PendingCountsRequests, Requested
<1>4. RequestTypes'
  BY <1>2 DEF RequestsOK, RequestTypes
<1>5. RolesAreCalls' /\ KeptIdIsHeld' /\ KeptIdIsUsed'
  BY DEF RequestsOK, RolesAreCalls, KeptIdIsHeld, KeptIdIsUsed
<1>. QED BY <1>1, <1>3, <1>4, <1>5 DEF RequestsOK, NoRequestLeft
-----------------------------------------------------------------------------
(* The handlers                                                            *)

(* The handler that is running, if it does not go on with freed memory.    *)
LEMMA Running ==
  ASSUME IInv, frames # << >>
  PROVE  /\ Top \in Frame /\ FrameOK(Top) /\ Top = frames[1]
         /\ Len(frames) \in 1..MaxDepth
         /\ Top.at # "freed" => open
         /\ Top.at \in ShowSteps => Showing(frames)
<1>1. frames \in Seq(Frame) /\ Len(frames) <= MaxDepth /\ MaxDepth \in Nat
  BY AppletAssumption DEF IInv, StackOK
<1>2. Len(frames) \in 1..MaxDepth /\ 1 \in 1..Len(frames) /\ Top = frames[1]
  BY <1>1 DEF Top
<1>3. Top \in Frame
  BY <1>1, <1>2
<1>4. FrameOK(Top)
  BY <1>2 DEF IInv, StackOK
<1>5. Top.at # "freed" => open
  BY <1>2 DEF IInv, DialogOK
<1>6. Top.at \in ShowSteps => Showing(frames)
  BY <1>2 DEF Showing
<1>. QED BY <1>2, <1>3, <1>4, <1>5, <1>6

(* It goes on to another step.                                             *)
LEMMA GotoStack ==
  ASSUME IInv, frames # << >>, NEW step \in Loops \cup Steps,
         step \in {"cancel", "drain"} \/ Top.of # "close",
         step \in ShowSteps => Top.of \in {"choice", "change"},
         step \in {"codeui", "cid", "query"} =>
           Top.at \in {"codeui", "cid", "query"}
             \/ \A i \in 2..Len(frames) : frames[i].at # "codeui"
  PROVE  /\ StackOK(Goto(step))
         /\ Showing(Goto(step)) => Showing(frames) \/ step \in ShowSteps
         /\ Closing(frames) => Closing(Goto(step))
<1> DEFINE f == [Top EXCEPT !.at = step]
<1>1. Top \in Frame /\ FrameOK(Top) /\ Top = frames[1] /\ Top = Head(frames)
  BY Running DEF Top
<1>2. f \in Frame /\ f.of = Top.of /\ f.at = step /\ f.modem = Top.modem
  BY <1>1 DEF Frame
<1>3. Goto(step) = [frames EXCEPT ![1] = f]
  BY <1>1 DEF Goto
<1> HIDE DEF f
<1>4. FrameOK(f)
  BY <1>1, <1>2 DEF FrameOK
<1>5. StackOK(frames)
  BY DEF IInv
<1>6. f.at \in {"codeui", "cid", "query"} =>
        Head(frames).at \in {"codeui", "cid", "query"}
          \/ \A i \in 2..Len(frames) : frames[i].at # "codeui"
  BY <1>1, <1>2
<1>7. Head(frames).of = "close" => f.of = "close"
  BY <1>1, <1>2
<1>8. /\ StackOK([frames EXCEPT ![1] = f])
      /\ Showing([frames EXCEPT ![1] = f]) => Showing(frames) \/ f.at \in ShowSteps
      /\ Closing(frames) => Closing([frames EXCEPT ![1] = f])
  BY <1>2, <1>4, <1>5, <1>6, <1>7, StackStep
<1>. QED BY <1>2, <1>3, <1>8

(* Another handler is entered from the main loop.                          *)
LEMMA EnteredStack ==
  ASSUME IInv, InMainLoop, Len(frames) < MaxDepth,
         NEW of \in Handler, NEW at \in {"cancel", "apply"}, NEW m \in Modem \cup {NoModem},
         of = "close" => at = "cancel",
         of \in {"choice", "change"} => m \in Modem
  PROVE  /\ StackOK(Entered(of, at, m))
         /\ Showing(Entered(of, at, m)) => Showing(frames)
         /\ Closing(frames) \/ of = "close" => Closing(Entered(of, at, m))
<1> DEFINE f == [of |-> of, at |-> at, modem |-> m, target |-> modem_id]
<1>1. modem_id \in Modem \cup {NoModem}
  BY DEF IInv, DialogOK
<1>2. f \in Frame /\ f.of = of /\ f.at = at /\ f.modem = m
  BY <1>1 DEF Frame, Steps
<1>3. Entered(of, at, m) = <<f>> \o frames
  BY DEF Entered
<1> HIDE DEF f
<1>4. FrameOK(f)
  BY <1>2 DEF FrameOK, ShowSteps
<1>5. StackOK(frames) /\ (frames # << >> => Head(frames).at \in Loops)
  BY DEF IInv, InMainLoop
<1>. QED BY <1>2, <1>3, <1>4, <1>5, StackPush

LEMMA QuietKept ==
  ASSUME QuietWhileShowing, Showing(frames') => Showing(frames),
         \A c \in Call : role'[c] \in Cancellable => role[c] \in Cancellable
  PROVE  QuietWhileShowing'
BY DEF QuietWhileShowing

(* Steps of the applet that touch neither its requests nor the library.    *)
LEMMA AllKept ==
  ASSUME IInv, UNCHANGED <<lib, requests, open>>
  PROVE  /\ LibProofs!IInv'
         /\ RequestsOK'
         /\ (Showing(frames') => Showing(frames)) => QuietWhileShowing'
<1>1. LibProofs!IInv'
  BY LibStutter DEF IInv
<1>2. SameCalls
  BY DEF lib, SameCalls
<1>3. RequestsOK'
  BY <1>2, RequestsKept DEF IInv
<1>4. ASSUME Showing(frames') => Showing(frames) PROVE QuietWhileShowing'
  BY <1>4, QuietKept DEF IInv, requests
<1>. QED BY <1>1, <1>3, <1>4

LEMMA Assembled ==
  ASSUME LibProofs!IInv', RequestsOK', DialogOK', StackOK(frames'), QuietWhileShowing'
  PROVE  IInv'
BY DEF IInv

LEMMA InitIInv == Init => IInv
<1> SUFFICES ASSUME Init PROVE IInv
  OBVIOUS
<1>1. LibProofs!IInv
  BY LibInit DEF Init
<1>2. StackOK(frames) /\ ~Showing(frames)
  BY AppletAssumption DEF Init, StackOK, Showing
<1>3. RequestTypes
  BY AppletAssumption DEF Init, RequestTypes, Role
<1>4. \A c \in Call : role[c] = "none" /\ scd[c].stage = "free"
  BY DEF Init, Lib!Init, Lib!FreeCall
<1>5. RequestsOK
  BY <1>3, <1>4 DEF Init, RequestsOK, PendingCountsRequests, RolesAreCalls, KeptIdIsHeld,
     KeptIdIsUsed, NoRequestLeft, Cancellable
<1>6. DialogOK
  <2>1. frames = << >> /\ 1..Len(frames) = {}
    BY DEF Init
  <2>. QED BY <2>1 DEF Init, DialogOK
<1>. QED BY <1>1, <1>2, <1>5, <1>6 DEF IInv, QuietWhileShowing

LEMMA ProcessDiesIInv ==
  ASSUME ProcessDies
  PROVE  IInv'
<1>1. LibProofs!IInv'
  BY LibProcessDies DEF ProcessDies
<1>2. StackOK(frames') /\ ~Showing(frames')
  BY AppletAssumption DEF ProcessDies, StackOK, Showing
<1>3. RequestTypes'
  BY AppletAssumption DEF ProcessDies, RequestTypes, Role
<1>4. \A c \in Call : role'[c] = "none" /\ scd'[c].stage = "free"
  BY DEF ProcessDies, Lib!ProcessDies, Lib!FreeCall
<1>5. RequestsOK'
  BY <1>3, <1>4 DEF ProcessDies, RequestsOK, PendingCountsRequests, RolesAreCalls,
     KeptIdIsHeld, KeptIdIsUsed, NoRequestLeft, Cancellable
<1>6. DialogOK'
  <2>1. frames' = << >> /\ 1..Len(frames') = {}
    BY DEF ProcessDies
  <2>. QED BY <2>1 DEF ProcessDies, DialogOK
<1>7. QuietWhileShowing'
  BY <1>2 DEF QuietWhileShowing
<1>. QED BY <1>1, <1>2, <1>5, <1>6, <1>7, Assembled
-----------------------------------------------------------------------------
(* What the user does                                                      *)

LEMMA LaunchIInv ==
  ASSUME IInv, Launch
  PROVE  IInv'
<1>1. LibProofs!IInv'
  BY LibRegister DEF IInv, Launch
<1>2. /\ ~open /\ open' = TRUE /\ frames = << >>
      /\ UNCHANGED <<active, modem_id, counter, svc, role, clir, lost, frames>>
      /\ listed' \subseteq Modem /\ listed' # {}
  BY DEF Launch, requests
<1>3. UNCHANGED <<scd, held, service_calls>>
  BY DEF Launch, Lib!Register
<1>4. /\ counter = 0 /\ svc = 0 /\ clir = 0 /\ lost = 0
      /\ \A c \in Call : role[c] = "none"
  BY <1>2 DEF IInv, RequestsOK, NoRequestLeft
<1>5. PendingCountsRequests'
  <2>1. Requested = {}
    BY <1>4 DEF Requested
  <2>2. Cardinality(Requested) = 0
    BY <2>1, FS_EmptySet
  <2>. QED BY <1>2, <1>4, <2>2 DEF PendingCountsRequests, Requested
<1>6. RequestsOK'
  BY <1>2, <1>3, <1>4, <1>5 DEF IInv, RequestsOK, RequestTypes, RolesAreCalls, KeptIdIsHeld,
     KeptIdIsUsed, NoRequestLeft, Cancellable
<1>7. StackOK(frames') /\ QuietWhileShowing'
  BY <1>2 DEF IInv, QuietWhileShowing
<1>8. DialogOK'
  BY <1>2 DEF IInv, DialogOK
<1>. QED BY <1>1, <1>6, <1>7, <1>8, Assembled

LEMMA SelectIInv ==
  ASSUME IInv, NEW m \in Modem, Select(m)
  PROVE  IInv'
<1>1. /\ open /\ UNCHANGED <<lib, open, listed, modem_id, requests>>
      /\ active' = m
  BY DEF Select
<1>2. /\ StackOK(frames')
      /\ Showing(frames') => Showing(frames)
      /\ Closing(frames) => Closing(frames')
  <2>1. CASE frames' = frames
    BY <2>1 DEF IInv
  <2>2. ASSUME NEW of \in {"choice", "change"}, frames' = Entered(of, "cancel", m)
        PROVE  /\ StackOK(frames')
               /\ Showing(frames') => Showing(frames)
               /\ Closing(frames) => Closing(frames')
    BY <2>2, EnteredStack DEF Select, Handler
  <2>. QED BY <2>1, <2>2 DEF Select
<1>3. DialogOK'
  BY <1>1, <1>2 DEF IInv, DialogOK
<1>. QED BY <1>1, <1>2, <1>3, AllKept, Assembled

LEMMA SaveIInv ==
  ASSUME IInv, Save
  PROVE  IInv'
<1>1. /\ open /\ UNCHANGED <<lib, open, listed, active, modem_id, requests>>
      /\ frames' = Entered("save", "apply", NoModem)
  BY DEF Save, dialog
<1>2. InMainLoop /\ Len(frames) < MaxDepth
  BY AppletAssumption DEF Save, InMainLoop
<1>3. /\ StackOK(frames')
      /\ Showing(frames') => Showing(frames)
      /\ Closing(frames) => Closing(frames')
  BY <1>1, <1>2, EnteredStack DEF Handler
<1>4. DialogOK'
  BY <1>1, <1>3 DEF IInv, DialogOK
<1>. QED BY <1>1, <1>3, <1>4, AllKept, Assembled

LEMMA CloseDialogIInv ==
  ASSUME IInv, CloseDialog
  PROVE  IInv'
<1>1. /\ open /\ UNCHANGED <<lib, open, listed, active, modem_id, requests>>
      /\ InMainLoop /\ Len(frames) < MaxDepth
      /\ frames' = Entered("close", "cancel", NoModem)
  BY DEF CloseDialog, dialog
<1>2. /\ StackOK(frames')
      /\ Showing(frames') => Showing(frames)
      /\ Closing(frames')
  BY <1>1, EnteredStack DEF Handler
<1>3. DialogOK'
  BY <1>1, <1>2 DEF IInv, DialogOK
<1>. QED BY <1>1, <1>2, <1>3, AllKept, Assembled
-----------------------------------------------------------------------------
(* The steps of the handlers                                               *)

LEMMA Waiting ==
  ASSUME IInv, NEW step, At(step), step # "freed"
  PROVE  /\ frames # << >> /\ Top.at = step /\ open
         /\ Top \in Frame /\ FrameOK(Top)
         /\ step \in ShowSteps => Showing(frames)
BY Running DEF At, Top

LEMMA CancelCallsIInv ==
  ASSUME IInv, CancelCalls
  PROVE  IInv'
<1>1. At("cancel") /\ frames' = Goto("drain") /\ UNCHANGED <<open, listed, active, modem_id>>
  BY DEF CancelCalls, dialog
<1>2. frames # << >> /\ open
  BY <1>1, Waiting
<1>3. /\ StackOK(frames')
      /\ Showing(frames') => Showing(frames)
      /\ Closing(frames) => Closing(frames')
  BY <1>1, <1>2, GotoStack DEF Loops, ShowSteps
<1>4. DialogOK'
  BY <1>1, <1>2, <1>3 DEF IInv, DialogOK
<1>5. CASE UNCHANGED <<lib, requests>>
  BY <1>1, <1>3, <1>4, <1>5, AllKept, Assembled
<1>6. ASSUME svc # 0, Lib!CancelId(svc), GoesOn,
             IF scd'[service_calls[svc]].stage # "free" THEN UNCHANGED requests
             ELSE /\ counter' = counter - 1
                  /\ svc' = 0
                  /\ Done(service_calls[svc])
                  /\ UNCHANGED <<clir, lost>>
      PROVE  IInv'
  <2>1. /\ service_calls[svc] \in Call
        /\ role[service_calls[svc]] \in Cancellable
    <3>1. svc \in 1..MaxId /\ service_calls \in [1..MaxId -> Call \cup {NoCall}]
      BY <1>6, LibTable DEF IInv, RequestsOK, RequestTypes
    <3>. QED BY <1>6, <3>1 DEF IInv, RequestsOK, KeptIdIsUsed
  <2>2. PICK c \in Call : c = service_calls[svc]
    BY <2>1
  <2>3. role[c] \in Cancellable /\ held[c] = svc
    BY <2>1, <2>2 DEF IInv, RequestsOK, KeptIdIsHeld
  <2>4. LibProofs!IInv'
    BY <1>6, <2>3, LibCancel DEF IInv
  <2>5. \/ SameCalls /\ scd'[c].stage # "free"
        \/ Ended(c)
    BY <1>6, <2>1, <2>2, CancelEnds DEF IInv
  <2>6. CASE SameCalls /\ scd'[c].stage # "free"
    <3>1. UNCHANGED requests
      BY <1>6, <2>2, <2>6
    <3>2. RequestsOK'
      BY <1>1, <2>6, <3>1, RequestsKept DEF IInv
    <3>3. QuietWhileShowing'
      BY <1>3, <3>1, QuietKept DEF IInv, requests
    <3>. QED BY <1>3, <1>4, <2>4, <3>2, <3>3, Assembled
  <2>7. CASE Ended(c)
    <3>1. scd'[c].stage = "free"
      BY <2>7 DEF Ended
    <3>2. counter' = counter - 1 /\ svc' = 0 /\ Done(c) /\ UNCHANGED <<clir, lost>>
      BY <1>6, <2>2, <3>1
    <3>3. RequestsOK'
      BY <1>1, <2>3, <2>7, <3>2, RequestDone DEF IInv
    <3>4. \A d \in Call : role'[d] \in Cancellable => role[d] \in Cancellable
      BY <3>2 DEF Done, Cancellable, IInv, RequestsOK, RequestTypes
    <3>5. QuietWhileShowing'
      BY <1>3, <3>4, QuietKept DEF IInv
    <3>. QED BY <1>3, <1>4, <2>4, <3>3, <3>5, Assembled
  <2>. QED BY <2>5, <2>6, <2>7
<1>. QED BY <1>5, <1>6 DEF CancelCalls

LEMMA ChoiceDrainedIInv ==
  ASSUME IInv, ChoiceDrained
  PROVE  IInv'
<1>1. /\ At("drain") /\ Top.of = "choice" /\ counter = 0
      /\ modem_id' = Top.modem /\ frames' = Goto("show")
      /\ UNCHANGED <<lib, open, listed, active, requests>>
  BY DEF ChoiceDrained, Drained
<1>2. frames # << >> /\ open /\ Top \in Frame /\ FrameOK(Top)
  BY <1>1, Waiting
<1>3. /\ StackOK(frames')
      /\ Closing(frames) => Closing(frames')
  BY <1>1, <1>2, GotoStack DEF Loops, Steps
<1>4. \A c \in Call : role'[c] = "none"
  BY <1>1, CountZero DEF IInv, requests
<1>5. QuietWhileShowing'
  BY <1>4 DEF QuietWhileShowing, Cancellable
<1>6. DialogOK'
  BY <1>1, <1>2, <1>3 DEF IInv, DialogOK, FrameOK
<1>. QED BY <1>1, <1>3, <1>5, <1>6, AllKept, Assembled

LEMMA ChangeDrainedIInv ==
  ASSUME IInv, ChangeDrained
  PROVE  IInv'
<1>1. /\ At("drain") /\ Top.of = "change" /\ frames' = Goto("apply")
      /\ UNCHANGED <<lib, open, listed, active, modem_id, requests>>
  BY DEF ChangeDrained, Drained, dialog
<1>2. frames # << >> /\ open
  BY <1>1, Waiting
<1>3. /\ StackOK(frames')
      /\ Showing(frames') => Showing(frames)
      /\ Closing(frames) => Closing(frames')
  BY <1>1, <1>2, GotoStack DEF Steps, ShowSteps
<1>4. DialogOK'
  BY <1>1, <1>2, <1>3 DEF IInv, DialogOK
<1>. QED BY <1>1, <1>3, <1>4, AllKept, Assembled

(* A handler turns into the one that closes the dialog.                    *)
LEMMA TurnedToClose ==
  ASSUME IInv, frames # << >>
  PROVE  LET new == [frames EXCEPT ![1].of = "close", ![1].at = "cancel"] IN
         /\ StackOK(new)
         /\ Showing(new) => Showing(frames)
         /\ Closing(new)
<1> DEFINE g == [Top EXCEPT !.of = "close"]
           f == [g EXCEPT !.at = "cancel"]
           new == [frames EXCEPT ![1].of = "close", ![1].at = "cancel"]
<1>1. Top \in Frame /\ FrameOK(Top) /\ Top = frames[1] /\ frames \in Seq(Frame)
  BY Running DEF IInv, StackOK
<1>2. new = [frames EXCEPT ![1] = f]
  BY <1>1
<1>3. f \in Frame /\ f.of = "close" /\ f.at = "cancel"
  <2>1. g \in Frame /\ g.of = "close"
    BY <1>1 DEF Frame, Handler
  <2> HIDE DEF g
  <2>. QED BY <2>1 DEF Frame, Steps
<1> HIDE DEF f, g
<1>4. FrameOK(f) /\ f.at \notin ShowSteps
  BY <1>3 DEF FrameOK, ShowSteps
<1>5. /\ StackOK([frames EXCEPT ![1] = f])
      /\ Showing([frames EXCEPT ![1] = f]) => Showing(frames) \/ f.at \in ShowSteps
      /\ Closing([frames EXCEPT ![1] = f])
  <2>1. StackOK(frames)
    BY DEF IInv
  <2>. QED BY <1>3, <1>4, <2>1, StackStep
<1>. QED BY <1>2, <1>4, <1>5

(* ... or remembers the modem it applies to.                               *)
LEMMA AppliedStack ==
  ASSUME IInv, At("apply"), NEW step \in {"clir", "set"}
  PROVE  LET new == [frames EXCEPT ![1].target = modem_id, ![1].at = step] IN
         /\ StackOK(new)
         /\ Showing(new) => Showing(frames)
         /\ Closing(frames) => Closing(new)
<1> DEFINE g == [Top EXCEPT !.target = modem_id]
           f == [g EXCEPT !.at = step]
           new == [frames EXCEPT ![1].target = modem_id, ![1].at = step]
<1>1. Top \in Frame /\ FrameOK(Top) /\ Top = frames[1] /\ frames \in Seq(Frame)
      /\ frames # << >> /\ Top.at = "apply" /\ Top = Head(frames)
  BY Running DEF IInv, StackOK, At, Top
<1>2. f \in Frame /\ f.of = Top.of /\ f.at = step /\ f.modem = Top.modem
  <2>1. g \in Frame /\ g.of = Top.of /\ g.modem = Top.modem
    BY <1>1 DEF Frame, IInv, DialogOK
  <2> HIDE DEF g
  <2>. QED BY <2>1 DEF Frame, Loops, Steps
<1>3. new = [frames EXCEPT ![1] = f]
  BY <1>1
<1> HIDE DEF f, g
<1>4. FrameOK(f) /\ f.at \notin ShowSteps /\ f.of # "close" /\ Head(frames).of # "close"
  BY <1>1, <1>2 DEF FrameOK, ShowSteps
<1>5. /\ StackOK([frames EXCEPT ![1] = f])
      /\ Showing([frames EXCEPT ![1] = f]) => Showing(frames) \/ f.at \in ShowSteps
      /\ Closing(frames) => Closing([frames EXCEPT ![1] = f])
  <2>1. StackOK(frames)
    BY DEF IInv
  <2>2. f.at \notin {"codeui", "cid", "query"}
    BY <1>2
  <2>. QED BY <1>1, <1>2, <1>4, <2>1, <2>2, StackStep
<1>. QED BY <1>3, <1>4, <1>5

(* The innermost handler returns.                                          *)
LEMMA ReturnedStack ==
  ASSUME IInv, frames # << >>
  PROVE  /\ StackOK(Tail(frames))
         /\ Showing(Tail(frames)) => Showing(frames)
         /\ Top.at \in {"codeui", "cid", "query"} => ~Showing(Tail(frames))
         /\ Closing(frames) /\ Top.of # "close" => Closing(Tail(frames))
BY StackPop DEF IInv, Top

LEMMA RemovalDrainedIInv ==
  ASSUME IInv, RemovalDrained
  PROVE  IInv'
<1>1. /\ At("drain") /\ Top.of = "removal"
      /\ listed' = listed \ {Top.modem} /\ active' = NoModem /\ modem_id' = NoModem
      /\ UNCHANGED <<lib, open, requests>>
  BY DEF RemovalDrained, Drained
<1>2. frames # << >> /\ open
  BY <1>1, Waiting
<1>3. /\ StackOK(frames')
      /\ Showing(frames') => Showing(frames)
      /\ listed' # {} \/ Closing(frames')
  <2>1. CASE listed' # {} /\ frames' = Tail(frames)
    BY <1>2, <2>1, ReturnedStack
  <2>2. CASE frames' = [frames EXCEPT ![1].of = "close", ![1].at = "cancel"]
    BY <1>2, <2>2, TurnedToClose
  <2>. QED BY <2>1, <2>2 DEF RemovalDrained
<1>4. DialogOK'
  BY <1>1, <1>2, <1>3 DEF IInv, DialogOK
<1>. QED BY <1>1, <1>3, <1>4, AllKept, Assembled

LEMMA CloseDrainedIInv ==
  ASSUME IInv, CloseDrained
  PROVE  IInv'
<1>1. /\ At("drain") /\ counter = 0 /\ Lib!Close /\ open' = FALSE
      /\ listed' = {} /\ active' = NoModem /\ modem_id' = NoModem /\ svc' = 0
      /\ frames' = AllFreed(Tail(frames))
      /\ UNCHANGED <<counter, role, clir, lost>>
  BY DEF CloseDrained, Drained
<1>2. LibProofs!IInv'
  BY <1>1, LibClose DEF IInv
<1>3. UNCHANGED <<scd, held, service_calls>>
  BY <1>1 DEF Lib!Close
<1>4. clir = 0 /\ lost = 0 /\ \A c \in Call : role[c] = "none"
  BY <1>1, CountZero DEF IInv
<1>5. RequestsOK'
  BY <1>1, <1>3, <1>4, AppletAssumption DEF IInv, RequestsOK, RequestTypes, RolesAreCalls,
     KeptIdIsHeld, KeptIdIsUsed, NoRequestLeft, PendingCountsRequests, Cancellable
<1>6. frames # << >>
  BY <1>1, Waiting
<1>7. /\ StackOK(frames') /\ ~Showing(frames')
      /\ \A i \in 1..Len(frames') : frames'[i].at = "freed"
  BY <1>1, <1>6, ReturnedStack, StackAllFreed
<1>8. DialogOK'
  BY <1>1, <1>7 DEF DialogOK
<1>9. QuietWhileShowing'
  BY <1>7 DEF QuietWhileShowing
<1>. QED BY <1>2, <1>5, <1>7, <1>8, <1>9, Assembled

LEMMA ApplyRefusedIInv ==
  ASSUME IInv, ApplyRefused
  PROVE  IInv'
<1>1. /\ At("apply") /\ frames' = Tail(frames)
      /\ active' \in {modem_id, active}
      /\ UNCHANGED <<lib, open, listed, modem_id, requests>>
  BY DEF ApplyRefused
<1>2. frames # << >> /\ open /\ FrameOK(Top) /\ Top.at = "apply"
  BY <1>1, Waiting
<1>3. /\ StackOK(frames')
      /\ Showing(frames') => Showing(frames)
      /\ Closing(frames) => Closing(frames')
  BY <1>1, <1>2, ReturnedStack DEF FrameOK
<1>4. DialogOK'
  BY <1>1, <1>2, <1>3 DEF IInv, DialogOK
<1>. QED BY <1>1, <1>3, <1>4, AllKept, Assembled

LEMMA ApplyClirIInv ==
  ASSUME IInv, ApplyClir
  PROVE  IInv'
<1>1. At("apply") /\ UNCHANGED <<lib, open, listed, active, modem_id>>
  BY DEF ApplyClir, dialog
<1>2. open
  BY <1>1, Waiting
<1>3. /\ StackOK(frames')
      /\ Showing(frames') => Showing(frames)
      /\ Closing(frames) => Closing(frames')
  <2>1. PICK step \in {"clir", "set"} :
          frames' = [frames EXCEPT ![1].target = modem_id, ![1].at = step]
    BY DEF ApplyClir
  <2>. QED BY <1>1, <2>1, AppliedStack
<1>4. DialogOK'
  BY <1>1, <1>2, <1>3 DEF IInv, DialogOK
<1>5. CASE UNCHANGED requests
  BY <1>1, <1>3, <1>4, <1>5, AllKept, Assembled
<1>6. CASE /\ clir < MaxClir /\ clir' = clir + 1 /\ counter' = counter + 1
           /\ UNCHANGED <<svc, role, lost>>
  <2>1. LibProofs!IInv' /\ UNCHANGED <<scd, held, service_calls>>
    BY <1>1, LibStutter DEF IInv, lib
  <2>2. clir' \in 0..MaxClir /\ lost' \in 0..MaxClir
    BY <1>6, AppletAssumption DEF IInv, RequestsOK, RequestTypes
  <2>3. RequestsOK'
    BY <1>1, <1>2, <1>6, <2>1, <2>2, ClirChanged DEF IInv
  <2>4. QuietWhileShowing'
    BY <1>3, <1>6, QuietKept DEF IInv
  <2>. QED BY <1>3, <1>4, <2>1, <2>3, <2>4, Assembled
<1>. QED BY <1>5, <1>6 DEF ApplyClir

LEMMA ClirAppliedIInv ==
  ASSUME IInv, ClirApplied
  PROVE  IInv'
<1>1. /\ At("clir") /\ frames' = Goto("set")
      /\ UNCHANGED <<lib, open, listed, active, modem_id, requests>>
  BY DEF ClirApplied, dialog
<1>2. frames # << >> /\ open /\ FrameOK(Top) /\ Top.at = "clir"
  BY <1>1, Waiting
<1>3. /\ StackOK(frames')
      /\ Showing(frames') => Showing(frames)
      /\ Closing(frames) => Closing(frames')
  BY <1>1, <1>2, GotoStack DEF Steps, ShowSteps, FrameOK
<1>4. DialogOK'
  BY <1>1, <1>2, <1>3 DEF IInv, DialogOK
<1>. QED BY <1>1, <1>3, <1>4, AllKept, Assembled

LEMMA ApplyWaitingIInv ==
  ASSUME IInv, ApplyWaiting
  PROVE  IInv'
<1>1. /\ At("set") /\ frames' = Goto("settle")
      /\ UNCHANGED <<open, listed, active, modem_id>>
  BY DEF ApplyWaiting, dialog
<1>2. frames # << >> /\ open /\ Top \in Frame /\ FrameOK(Top) /\ Top.at = "set"
  BY <1>1, Waiting
<1>3. /\ StackOK(frames')
      /\ Showing(frames') => Showing(frames)
      /\ Closing(frames) => Closing(frames')
  BY <1>1, <1>2, GotoStack DEF Loops, ShowSteps, FrameOK
<1>4. DialogOK'
  BY <1>1, <1>2, <1>3 DEF IInv, DialogOK
<1>5. CASE UNCHANGED <<lib, requests>>
  BY <1>1, <1>3, <1>4, <1>5, AllKept, Assembled
<1>6. CASE /\ Top.target # NoModem
           /\ \E c \in Call : Lib!Start(c, Top.target, FALSE) /\ role' = [role EXCEPT ![c] = "set"]
           /\ counter' = counter + 1
           /\ UNCHANGED <<svc, clir, lost>>
  <2>1. PICK c \in Call : Lib!Start(c, Top.target, FALSE) /\ role' = [role EXCEPT ![c] = "set"]
    BY <1>6
  <2>2. Top.target \in Modem
    BY <1>2, <1>6 DEF Frame
  <2>3. LibProofs!IInv' /\ Sent(c)
    BY <2>1, <2>2, LibStart, StartSends DEF IInv
  <2>4. "set" \in Role \ {"none"} /\ "set" \notin Cancellable
    BY DEF Role, Cancellable
  <2>5. RequestsOK'
    <3> DEFINE r == "set"
    <3> HIDE DEF r
    <3>1. r \in Role \ {"none"} /\ r \notin Cancellable /\ role' = [role EXCEPT ![c] = r]
      BY <2>1, <2>4 DEF r
    <3>. QED BY <1>1, <1>2, <1>6, <2>3, <3>1, RequestAdded DEF IInv
  <2>6. \A d \in Call : role'[d] \in Cancellable => role[d] \in Cancellable
    BY <2>1 DEF Cancellable, IInv, RequestsOK, RequestTypes
  <2>7. QuietWhileShowing'
    BY <1>3, <2>6, QuietKept DEF IInv
  <2>. QED BY <1>3, <1>4, <2>3, <2>5, <2>7, Assembled
<1>. QED BY <1>5, <1>6 DEF ApplyWaiting

LEMMA SettledIInv ==
  ASSUME IInv, Settled
  PROVE  IInv'
<1>1. /\ At("settle") /\ counter = 0
      /\ UNCHANGED <<lib, open, listed, active, requests>>
  BY DEF Settled
<1>2. frames # << >> /\ open /\ Top \in Frame /\ FrameOK(Top) /\ Top.at = "settle"
  BY <1>1, Waiting
<1>3. StackOK(frames') /\ (Closing(frames) => Closing(frames'))
  <2>1. CASE Top.of = "change" /\ frames' = Goto("show")
    BY <1>2, <2>1, GotoStack DEF Steps
  <2>2. CASE frames' = [frames EXCEPT ![1].of = "close", ![1].at = "cancel"]
    BY <1>2, <2>2, TurnedToClose
  <2>. QED BY <2>1, <2>2 DEF Settled
<1>4. modem_id' \in Modem \cup {NoModem}
  BY <1>2 DEF Settled, FrameOK, IInv, DialogOK
<1>5. DialogOK'
  BY <1>1, <1>2, <1>3, <1>4 DEF IInv, DialogOK
<1>6. \A c \in Call : role'[c] = "none"
  BY <1>1, CountZero DEF IInv, requests
<1>7. QuietWhileShowing'
  BY <1>6 DEF QuietWhileShowing, Cancellable
<1>. QED BY <1>1, <1>3, <1>5, <1>7, AllKept, Assembled

LEMMA ShowIInv ==
  ASSUME IInv, Show
  PROVE  IInv'
<1>1. At("show") /\ UNCHANGED <<lib, open, listed, active, modem_id, requests>>
  BY DEF Show, dialog
<1>2. frames # << >> /\ open /\ FrameOK(Top) /\ Top.at = "show" /\ Showing(frames)
  BY <1>1, Waiting DEF ShowSteps
<1>3. Top.of \in {"choice", "change"}
  BY <1>2 DEF FrameOK, ShowSteps
<1>4. /\ StackOK(frames')
      /\ Closing(frames) => Closing(frames')
  <2>1. CASE frames' = CodeUiFreed(Tail(frames))
    BY <1>2, <1>3, <2>1, ReturnedStack, StackCodeUiFreed
  <2>2. CASE /\ ~\E i \in 2..Len(frames) : frames[i].at \in {"codeui", "freed"}
             /\ frames' = Goto("codeui")
    <3>1. \A i \in 2..Len(frames) : frames[i].at # "codeui"
      BY <2>2
    <3>. QED BY <1>2, <1>3, <2>2, <3>1, GotoStack DEF Loops
  <2>. QED BY <2>1, <2>2 DEF Show
<1>5. DialogOK'
  BY <1>1, <1>2, <1>4 DEF IInv, DialogOK
<1>. QED BY <1>1, <1>2, <1>4, <1>5, AllKept, Assembled

LEMMA CodeUiReturnsIInv ==
  ASSUME IInv, CodeUiReturns
  PROVE  IInv'
<1>1. At("codeui") /\ UNCHANGED <<lib, open, listed, active, modem_id, requests>>
  BY DEF CodeUiReturns, dialog
<1>2. frames # << >> /\ open /\ FrameOK(Top) /\ Top.at = "codeui" /\ Showing(frames)
  BY <1>1, Waiting DEF ShowSteps
<1>3. Top.of \in {"choice", "change"}
  BY <1>2 DEF FrameOK, ShowSteps
<1>4. /\ StackOK(frames')
      /\ Closing(frames) => Closing(frames')
  <2>1. CASE frames' = Tail(frames)
    BY <1>2, <1>3, <2>1, ReturnedStack
  <2>2. CASE frames' = Goto("cid")
    BY <1>2, <1>3, <2>2, GotoStack DEF Steps
  <2>. QED BY <2>1, <2>2 DEF CodeUiReturns
<1>5. DialogOK'
  BY <1>1, <1>2, <1>4 DEF IInv, DialogOK
<1>. QED BY <1>1, <1>2, <1>4, <1>5, AllKept, Assembled

LEMMA ShowCallerIdIInv ==
  ASSUME IInv, ShowCallerId
  PROVE  IInv'
<1>1. /\ At("cid") /\ frames' = Goto("query")
      /\ UNCHANGED <<open, listed, active, modem_id>>
  BY DEF ShowCallerId, dialog
<1>2. frames # << >> /\ open /\ FrameOK(Top) /\ Top.at = "cid" /\ Showing(frames)
  BY <1>1, Waiting DEF ShowSteps
<1>3. Top.of \in {"choice", "change"}
  BY <1>2 DEF FrameOK, ShowSteps
<1>4. /\ StackOK(frames')
      /\ Closing(frames) => Closing(frames')
  BY <1>1, <1>2, <1>3, GotoStack DEF Steps
<1>5. DialogOK'
  BY <1>1, <1>2, <1>4 DEF IInv, DialogOK
<1>6. CASE UNCHANGED <<lib, requests>>
  BY <1>1, <1>2, <1>4, <1>5, <1>6, AllKept, Assembled
<1>7. CASE /\ \E c \in Call : Lib!StartCallerId(c) /\ role' = [role EXCEPT ![c] = "cid"]
           /\ counter' = counter + 1
           /\ UNCHANGED <<svc, clir, lost>>
  <2>1. PICK c \in Call : Lib!StartCallerId(c) /\ role' = [role EXCEPT ![c] = "cid"]
    BY <1>7
  <2>2. LibProofs!IInv' /\ Sent(c)
    BY <2>1, LibStartCallerId, StartCallerIdSends DEF IInv
  <2>3. RequestsOK'
    <3> DEFINE r == "cid"
    <3>1. r \in Role \ {"none"} /\ r \notin Cancellable
      BY DEF Role, Cancellable
    <3> HIDE DEF r
    <3>2. role' = [role EXCEPT ![c] = r]
      BY <2>1 DEF r
    <3>. QED BY <1>1, <1>2, <1>7, <2>2, <3>1, <3>2, RequestAdded DEF IInv
  <2>4. \A d \in Call : role'[d] \in Cancellable => role[d] \in Cancellable
    BY <2>1 DEF Cancellable, IInv, RequestsOK, RequestTypes
  <2>5. QuietWhileShowing'
    BY <1>2, <2>4, QuietKept DEF IInv
  <2>. QED BY <1>4, <1>5, <2>2, <2>3, <2>5, Assembled
<1>. QED BY <1>6, <1>7 DEF ShowCallerId

LEMMA ShowWaitingIInv ==
  ASSUME IInv, ShowWaiting
  PROVE  IInv'
<1>1. /\ At("query") /\ frames' = Tail(frames)
      /\ UNCHANGED <<open, listed, active, modem_id>>
  BY DEF ShowWaiting, dialog
<1>2. frames # << >> /\ open /\ FrameOK(Top) /\ Top.at = "query" /\ Showing(frames)
  BY <1>1, Waiting DEF ShowSteps
<1>3. Top.of \in {"choice", "change"} /\ Top.modem \in Modem
  BY <1>2 DEF FrameOK, ShowSteps
<1>4. /\ StackOK(frames')
      /\ ~Showing(frames')
      /\ Closing(frames) => Closing(frames')
  BY <1>1, <1>2, <1>3, ReturnedStack
<1>5. DialogOK'
  BY <1>1, <1>2, <1>4 DEF IInv, DialogOK
<1>6. QuietWhileShowing'
  BY <1>4 DEF QuietWhileShowing
<1>7. \A c \in Call : role[c] \notin Cancellable
  BY <1>2 DEF IInv, QuietWhileShowing
<1>8. CASE svc' = 0 /\ UNCHANGED <<lib, counter, role, clir, lost>>
  <2>1. svc = 0
    <3>1. service_calls \in [1..MaxId -> Call \cup {NoCall}] /\ svc \in 0..MaxId
      BY LibTable DEF IInv, RequestsOK, RequestTypes
    <3>2. svc # 0 => svc \in 1..MaxId
      BY <3>1, AppletAssumption
    <3>. QED BY <1>7, <3>1, <3>2 DEF IInv, RequestsOK, KeptIdIsUsed
  <2>2. UNCHANGED requests
    BY <1>8, <2>1 DEF requests
  <2>. QED BY <1>1, <1>4, <1>5, <1>6, <1>8, <2>2, AllKept, Assembled
<1>9. CASE /\ \E c \in Call : /\ Lib!Start(c, Top.modem, TRUE)
                              /\ role' = [role EXCEPT ![c] = "waiting"]
           /\ svc' = Lib!NextId
           /\ counter' = counter + 1
           /\ UNCHANGED <<clir, lost>>
  <2>1. PICK c \in Call : Lib!Start(c, Top.modem, TRUE) /\ role' = [role EXCEPT ![c] = "waiting"]
    BY <1>9
  <2>2. LibProofs!IInv' /\ Sent(c) /\ held'[c] = Lib!NextId
    <3> DEFINE keep == TRUE
    <3>1. keep \in BOOLEAN
      OBVIOUS
    <3> HIDE DEF keep
    <3>2. keep /\ Lib!Start(c, Top.modem, keep)
      BY <2>1 DEF keep
    <3>3. Sent(c) /\ held'[c] = IF keep THEN Lib!NextId ELSE 0
      BY <3>1, <3>2, StartSends DEF IInv
    <3>4. LibProofs!IInv'
      BY <1>3, <3>1, <3>2, LibStart DEF IInv
    <3>. QED BY <3>2, <3>3, <3>4
  <2>3. RequestsOK'
    <3> DEFINE r == "waiting"
    <3>1. r \in Role \ {"none"} /\ r \in Cancellable
      BY DEF Role, Cancellable
    <3> HIDE DEF r
    <3>2. role' = [role EXCEPT ![c] = r]
      BY <2>1 DEF r
    <3>. QED BY <1>1, <1>2, <1>7, <1>9, <2>2, <3>1, <3>2, RequestAdded DEF IInv
  <2>. QED BY <1>4, <1>5, <1>6, <2>2, <2>3, Assembled
<1>. QED BY <1>8, <1>9 DEF ShowWaiting
-----------------------------------------------------------------------------
(* What the main loop dispatches                                           *)

(* Steps that leave the dialog and its handlers alone.                     *)
LEMMA DialogKept ==
  ASSUME IInv, UNCHANGED <<dialog, frames>>
  PROVE  DialogOK' /\ StackOK(frames') /\ (Showing(frames') => Showing(frames))
BY DEF IInv, DialogOK, dialog

LEMMA AnswerAndChainIInv ==
  ASSUME IInv, NEW c \in Call, AnswerAndChain(c)
  PROVE  IInv'
<1>1. PICK d \in Call : /\ Lib!ReplyAndChain(c, d)
                        /\ role' = [role EXCEPT ![c] = "none", ![d] = "forward"]
  BY DEF AnswerAndChain
<1>2. /\ role[c] = "waiting" /\ svc' = Lib!NextId
      /\ UNCHANGED <<dialog, frames, open, counter, clir, lost>>
  BY DEF AnswerAndChain, Chains, dialog
<1>3. LibProofs!IInv'
  BY <1>1, LibReplyAndChain DEF IInv
<1>4. RequestsOK'
  BY <1>1, <1>2, RequestChained DEF IInv
<1>5. ~Showing(frames)
  BY <1>2 DEF IInv, QuietWhileShowing, Cancellable
<1>6. QuietWhileShowing'
  BY <1>2, <1>5 DEF QuietWhileShowing
<1>. QED BY <1>2, <1>3, <1>4, <1>6, DialogKept, Assembled

LEMMA AnswerIInv ==
  ASSUME IInv, NEW c \in Call, Answer(c)
  PROVE  IInv'
<1>1. /\ Lib!Reply(c) /\ GoesOn /\ Done(c)
      /\ svc' = IdAfter(c) /\ counter' = CounterAfter(c)
      /\ UNCHANGED <<dialog, frames, open, clir, lost>>
  BY DEF Answer, dialog
<1>2. LibProofs!IInv' /\ Ended(c)
  BY <1>1, LibReply, ReplyEnds DEF IInv
<1>3. role \in [Call -> Role] /\ role[c] # "none"
  BY <1>2 DEF Ended, IInv, RequestsOK, RequestTypes, RolesAreCalls
<1>4. counter' = counter - 1
  <2>1. Cardinality(Requested) >= 1 /\ Cardinality(Requested) \in Nat
    <3>1. Requested \in SUBSET Call
      BY DEF Requested
    <3>. QED BY <1>1, <1>3, <3>1, CountDrop, RequestedIsFinite
  <2>2. counter = Cardinality(Requested) + clir + lost
    BY <1>3 DEF IInv, RequestsOK, NoRequestLeft, PendingCountsRequests, Requested
  <2>3. clir \in Nat /\ lost \in Nat
    BY AppletAssumption DEF IInv, RequestsOK, RequestTypes
  <2>4. counter # 0
    BY <2>1, <2>2, <2>3
  <2>. QED BY <1>1, <2>4 DEF CounterAfter, Stopped
<1>5. svc' = IF role[c] \in Cancellable THEN 0 ELSE svc
  BY <1>1 DEF IdAfter, Cancellable
<1>6. RequestsOK'
  BY <1>1, <1>2, <1>4, <1>5, RequestDone DEF IInv
<1>7. \A d \in Call : role'[d] \in Cancellable => role[d] \in Cancellable
  BY <1>1, <1>3 DEF Done, Cancellable
<1>8. QuietWhileShowing'
  BY <1>1, <1>7, DialogKept, QuietKept DEF IInv
<1>. QED BY <1>1, <1>2, <1>6, <1>8, DialogKept, Assembled

LEMMA ClirIInv ==
  ASSUME IInv, ClirAnswered \/ ClirLost
  PROVE  IInv'
<1>1. /\ clir > 0
      /\ UNCHANGED <<lib, dialog, frames, open, svc, role>>
  BY DEF ClirAnswered, ClirLost, dialog
<1>2. LibProofs!IInv' /\ UNCHANGED <<scd, held, service_calls>>
  BY <1>1, LibStutter DEF IInv, lib
<1>3. \/ clir' = clir - 1 /\ lost' = lost /\ counter' = counter - 1
      \/ clir' = clir - 1 /\ lost' = lost + 1 /\ counter' = counter /\ lost < MaxClir
  BY DEF ClirAnswered, ClirLost
<1>4. clir' \in 0..MaxClir /\ lost' \in 0..MaxClir
  BY <1>1, <1>3, AppletAssumption DEF IInv, RequestsOK, RequestTypes
<1>5. RequestsOK'
  BY <1>1, <1>2, <1>3, <1>4, ClirChanged DEF IInv
<1>6. QuietWhileShowing'
  BY <1>1, DialogKept, QuietKept DEF IInv
<1>. QED BY <1>1, <1>2, <1>5, <1>6, DialogKept, Assembled

LEMMA ModemToldIInv ==
  ASSUME IInv, NEW m \in Modem, ModemTold(m)
  PROVE  IInv'
<1>1. /\ open /\ InMainLoop
      /\ UNCHANGED <<lib, open, active, modem_id, requests>>
  BY DEF ModemTold
<1>2. /\ StackOK(frames')
      /\ Showing(frames') => Showing(frames)
      /\ listed' \subseteq Modem
      /\ listed' # {} \/ Closing(frames')
  <2>1. CASE listed' = listed \cup {m} /\ frames' = frames
    BY <2>1 DEF IInv, DialogOK
  <2>2. CASE /\ Len(frames) < MaxDepth
             /\ frames' = Entered("close", "cancel", NoModem)
             /\ listed' = listed
    BY <1>1, <2>2, EnteredStack DEF Handler, IInv, DialogOK
  <2>. QED BY <2>1, <2>2 DEF ModemTold
<1>3. DialogOK'
  BY <1>1, <1>2 DEF IInv, DialogOK
<1>. QED BY <1>1, <1>2, <1>3, AllKept, Assembled

(* The applet is told of a removal, and may enter a handler.               *)
LEMMA ModemRemovedIInv ==
  ASSUME IInv, NEW m \in Modem, ModemRemoved(m)
  PROVE  IInv'
<1>1. /\ InMainLoop /\ Len(frames) < MaxDepth /\ Lib!ModemRemoved(m)
      /\ UNCHANGED <<open, active, modem_id, requests>>
  BY DEF ModemRemoved
<1>2. LibProofs!IInv'
  BY <1>1, LibModemRemoved DEF IInv
<1>3. SameCalls
  BY <1>1 DEF Lib!ModemRemoved, SameCalls
<1>4. RequestsOK'
  BY <1>1, <1>3, RequestsKept DEF IInv
<1>5. m = active => open
  BY AppletAssumption DEF IInv, DialogOK
<1>6. /\ StackOK(frames')
      /\ Showing(frames') => Showing(frames)
      /\ listed' \subseteq Modem
      /\ open /\ listed' = {} => Closing(frames')
      /\ ~open => frames' = frames
  <2>1. CASE m = active /\ frames' = Entered("removal", "cancel", m) /\ listed' = listed
    BY <1>1, <1>5, <2>1, EnteredStack DEF Handler, IInv, DialogOK
  <2>2. CASE open /\ listed' = listed \ {m} /\ frames' = Entered("close", "cancel", m)
    BY <1>1, <2>2, EnteredStack DEF Handler, IInv, DialogOK
  <2>3. CASE ~(open /\ listed' = {}) /\ listed' = listed \ {m} /\ frames' = frames
    BY <2>3 DEF IInv, DialogOK
  <2>. QED BY <2>1, <2>2, <2>3 DEF ModemRemoved
<1>7. DialogOK'
  BY <1>1, <1>6 DEF IInv, DialogOK
<1>8. QuietWhileShowing'
  BY <1>1, <1>6, QuietKept DEF IInv, requests
<1>. QED BY <1>2, <1>4, <1>6, <1>7, <1>8, Assembled

(* The other signals of oFono only concern the library.                    *)
LEMMA SignalIInv ==
  ASSUME IInv, LibProofs!IInv', SameCalls, UNCHANGED <<dialog, requests, frames>>
  PROVE  IInv'
<1>1. UNCHANGED open
  BY DEF dialog
<1>2. RequestsOK'
  BY <1>1, RequestsKept DEF IInv
<1>3. QuietWhileShowing'
  BY DialogKept, QuietKept DEF IInv, requests
<1>. QED BY <1>2, <1>3, DialogKept, Assembled

LEMMA SignalsIInv ==
  ASSUME IInv, NEW m \in Modem,
         \/ ModemFinalized(m) \/ ModemAdded(m) \/ InterfaceAdded(m) \/ InterfaceRemoved(m)
  PROVE  IInv'
<1>1. CASE ModemFinalized(m)
  <2>1. Lib!ModemFinalized(m) /\ UNCHANGED <<dialog, requests, frames>>
    BY <1>1 DEF ModemFinalized
  <2>2. LibProofs!IInv'
    BY <2>1, LibModemFinalized DEF IInv
  <2>3. SameCalls
    BY <2>1, OrphanedSame DEF IInv, Lib!ModemFinalized
  <2>. QED BY <2>1, <2>2, <2>3, SignalIInv
<1>2. CASE ModemAdded(m)
  <2>1. Lib!ModemAdded(m) /\ UNCHANGED <<dialog, requests, frames>>
    BY <1>2 DEF ModemAdded
  <2>2. LibProofs!IInv'
    BY <2>1, LibModemAdded DEF IInv
  <2>3. SameCalls
    BY <2>1, OrphanedSame DEF IInv, Lib!ModemAdded
  <2>. QED BY <2>1, <2>2, <2>3, SignalIInv
<1>3. CASE InterfaceAdded(m)
  <2>1. Lib!InterfaceAdded(m) /\ UNCHANGED <<dialog, requests, frames>>
    BY <1>3 DEF InterfaceAdded
  <2>2. LibProofs!IInv' /\ SameCalls
    BY <2>1, LibInterfaceAdded, InterfaceAddedSame DEF IInv
  <2>. QED BY <2>1, <2>2, SignalIInv
<1>4. CASE InterfaceRemoved(m)
  <2>1. Lib!InterfaceRemoved(m) /\ UNCHANGED <<dialog, requests, frames>>
    BY <1>4 DEF InterfaceRemoved
  <2>2. LibProofs!IInv'
    BY <2>1, LibInterfaceRemoved DEF IInv
  <2>3. SameCalls
    BY <2>1, OrphanedSame DEF IInv, Lib!InterfaceRemoved
  <2>. QED BY <2>1, <2>2, <2>3, SignalIInv
<1>. QED BY <1>1, <1>2, <1>3, <1>4
-----------------------------------------------------------------------------
LEMMA StepOfHandlerIInv ==
  ASSUME IInv, StepOfHandler
  PROVE  IInv'
<1>1. CASE ProcessDies
  BY <1>1, ProcessDiesIInv
<1>2. CancelStranded \/ ApplyWaitingFreed \/ ShowFreed \/ Freed => ProcessDies
  BY DEF CancelStranded, ApplyWaitingFreed, ShowFreed, Freed
<1>. QED
  BY <1>1, <1>2, CancelCallsIInv, ChoiceDrainedIInv, ChangeDrainedIInv, RemovalDrainedIInv,
     CloseDrainedIInv, ApplyRefusedIInv, ApplyClirIInv, ClirAppliedIInv, ApplyWaitingIInv,
     SettledIInv, ShowIInv, CodeUiReturnsIInv, ShowCallerIdIInv, ShowWaitingIInv
  DEF StepOfHandler

LEMMA NextIInv == IInv /\ [Next]_vars => IInv'
<1> SUFFICES ASSUME IInv, [Next]_vars PROVE IInv'
  OBVIOUS
<1>1. ASSUME NEW c \in Call, AnswerStranded(c) PROVE IInv'
  BY <1>1, ProcessDiesIInv DEF AnswerStranded
<1>2. CASE UNCHANGED vars
  BY <1>2, AllKept, DialogKept, Assembled DEF vars, dialog
<1>. QED
  BY <1>1, <1>2, LaunchIInv, SelectIInv, SaveIInv, CloseDialogIInv, StepOfHandlerIInv,
     AnswerAndChainIInv, AnswerIInv, ClirIInv, ModemToldIInv, ModemRemovedIInv, SignalsIInv
  DEF Next

(* Whatever handlers are nested in the loops of others, however requests   *)
(* are chained and cancelled, and wherever the applet is freed inside      *)
(* itself, the library and the stack of handlers fit together.             *)
THEOREM Invariance == Spec => []IInv
<1>. QED BY InitIInv, NextIInv, PTL DEF Spec

(* Every variable keeps its type, the stack of handlers is no deeper than  *)
(* its bound, and the open dialog is without a modem only while a handler  *)
(* closes it (_modem_state_cb).                                            *)
THEOREM TypeCorrect == Spec => []TypeOK
<1>1. IInv => TypeOK
  <2> SUFFICES ASSUME IInv PROVE TypeOK
    OBVIOUS
  <2>1. frames \in Seq(Frame)
    BY DEF IInv, StackOK
  <2>2. \A i \in 1..Len(frames) : frames[i] \in Frame
    BY <2>1
  <2>. QED BY <2>2 DEF IInv, StackOK, DialogOK, RequestsOK, RequestTypes, Closing, TypeOK
<1>. QED BY <1>1, Invariance, PTL

(* cs->pending is the number of requests that will still call back and of  *)
(* those that never do: the loops that wait for zero wait for all of them, *)
(* and for nothing else, whatever is answered, chained, cancelled or lost  *)
(* while they run nested in each other.                                    *)
THEOREM CounterCorrect == Spec => []PendingCountsRequests
<1>1. IInv => PendingCountsRequests
  BY DEF IInv, RequestsOK
<1>. QED BY <1>1, Invariance, PTL

(* cs->call.svc_call_id is the id of the applet's own unanswered request,  *)
(* or zero when there is none that _call_cancel could cancel.              *)
THEOREM KeptIdCorrect == Spec => []KeptIdIsOwnRequest
<1>1. IInv => KeptIdIsOwnRequest
  BY DEF IInv, RequestsOK, KeptIdIsHeld, KeptIdIsUsed, KeptIdIsOwnRequest, Cancellable
<1>. QED BY <1>1, Invariance, PTL

(* cellular_settings_destroy leaves no request behind that would call back *)
(* into freed memory.                                                      *)
THEOREM DestroyCorrect == Spec => []NoRequestOutlivesApplet
<1>1. IInv => NoRequestOutlivesApplet
  BY DEF IInv, RequestsOK, NoRequestLeft, NoRequestOutlivesApplet
<1>. QED BY <1>1, Invariance, PTL

(* What the library promises any client it keeps under the applet, whose   *)
(* nested loops, dying process and ids kept over a chain of calls are not  *)
(* those of ServiceCalls: an outstanding call is found under its own id,   *)
(* an id that is held finds its own call, and the queues hold live calls.  *)
THEOREM LibrarySafe ==
  Spec => [](/\ LibProofs!CallsUnderOwnId
             /\ LibProofs!HeldIdFindsOwnCall
             /\ LibProofs!QueueHoldsLiveCalls
             /\ LibProofs!ContextLivesWithItsUsers)
<1>1. IInv => /\ LibProofs!CallsUnderOwnId
              /\ LibProofs!HeldIdFindsOwnCall
              /\ LibProofs!QueueHoldsLiveCalls
              /\ LibProofs!ContextLivesWithItsUsers
  BY DEF IInv, LibProofs!IInv
<1>. QED BY <1>1, Invariance, PTL
=============================================================================
