---------------------------- MODULE CodeUiProofs ----------------------------
(***************************************************************************)
(* Proofs about the dialogs for PIN and PUK (module CodeUi).               *)
(*                                                                         *)
(* What is hard here is the stack of the waiting functions: a query may    *)
(* come above any of them, take the dialog of the queries below away, and  *)
(* leave them to find that out when it is over.  Stack says which stacks   *)
(* there are, and it is the part of the inductive invariant on which all   *)
(* other parts rest.                                                       *)
(***************************************************************************)
EXTENDS CodeUi, TLAPS

Frame == Wait \cup Query

Signal == [name: {"Present"}, present: BOOLEAN] \cup [name: {"PinRequired"}, pin: Pin]

IsQuery(f) == f.of = "query"
Alive(f) == f.of = "query" /\ f.alive

(* change_code is about to call, and a query that it called for.           *)
ChangeCalls(f) == f.of = "repeat" /\ f.goal.for = "change" /\ f.at = "call"
ChangeAsked(f) == f.of = "query" /\ f.by.for = "change"

(* The function that called for query q.                                   *)
Called(f, q) == f.of = "repeat" /\ f.goal = q.by /\ f.at = "call"

(* change_code wants a new code, set_current_code_active does not, and a   *)
(* new code is typed only after the old one.                               *)
QueryOK(f) ==
  f.of = "query" => /\ f.by.for = "change" => f.renew
                    /\ f.by.for = "active" => ~f.renew
                    /\ f.step # "old" => f.renew

(* A function that called for a query is directly below it; connui_cell_   *)
(* code_ui_init is below everything; one dialog is on the screen at most;  *)
(* and above a change that is about to call is nothing but what it called. *)
Stack(s) ==
  /\ s \in Seq(Frame)
  /\ \A i \in 1..Len(s) : QueryOK(s[i])
  /\ \A i \in 1..Len(s) : s[i].of = "init" => i = Len(s)
  /\ \A i \in 1..Len(s) : IsQuery(s[i]) /\ s[i].by.for # "required" => i < Len(s) /\ Called(s[i + 1], s[i])
  /\ \A i, j \in 1..Len(s) : Alive(s[i]) /\ Alive(s[j]) => i = j
  /\ \A i \in 1..Len(s) : ChangeCalls(s[i]) /\ i # 1 => ChangeAsked(s[i - 1])

Types ==
  /\ sim \in Sim
  /\ view \in SimData \cup {None}
  /\ idle \subseteq {"status", "code"}
  /\ cbs \subseteq {"status", "code"}
  /\ show \in BOOLEAN
  /\ ui \in CodeUi \cup {None}
  /\ dangling \in BOOLEAN
  /\ signals \in Seq(Signal)

Bounds ==
  /\ Len(signals) <= MaxSignals
  /\ Len(frames) <= MaxDepth
  /\ changes \in 0..MaxChanges

(* What is there only as long as something else is.                        *)
Lifetimes ==
  /\ view = None => idle = {} /\ \A i \in 1..Len(frames) : IsQuery(frames[i]) => ~frames[i].home
  /\ ui = None => cbs = {} /\ frames = << >>

(* startup-pin-query does not change codes, and only it shows notes.       *)
Roles ==
  ui # None =>
    /\ ui.note => show
    /\ \A i \in 1..Len(frames) :
         /\ frames[i].of \in {"update", "repeat"} => ~show /\ ui.state # "NONE"
         /\ frames[i].of = "note" => show

(* A function that waits in a loop is told, or a query is about to end.    *)
Told == ui # None /\ ~Settled(ui) => cbs # {} \/ In("query")

(* The status is OK because the SIM manager says so, and a code can be     *)
(* asked for; or a code was refused, and it cannot.                        *)
SaysOK == view # None /\ Status(view) = "OK" /\ "code" \in cbs

Certain == IF ui.status = "OK" THEN SaysOK ELSE "code" \notin cbs

(* change_code looks at the state only when that is certain.               *)
ChangeWaits == In("repeat") /\ Top.goal.for = "change" /\ Top.at = "wait"
ChangeUpdates == In("update") /\ Top.goal.for = "change"

Sure ==
  /\ ChangeWaits /\ ui.status = "OK" /\ ~Failed(ui) /\ ~ui.ok => SaysOK
  /\ ChangeUpdates /\ ui.state = "OK" /\ ~ui.ok => Certain
  /\ frames # << >> /\ ChangeCalls(Top) => Certain

(* The inductive invariant. *)
IInv ==
  /\ Types
  /\ Bounds
  /\ Stack(frames)
  /\ Lifetimes
  /\ Roles
  /\ DialogBelongsToQuery
  /\ KeptCodeIsThePin
  /\ Told
  /\ Sure
-----------------------------------------------------------------------------
(* Frames and stacks of them *)

RepeatFrame == [of: {"repeat"}, goal: Purpose, at: {"call", "wait"}, rv: BOOLEAN]
UpdateFrame == [of: {"update"}, goal: Purpose]

LEMMA FrameTypes ==
  ASSUME NEW f \in Frame
  PROVE  /\ f.of \in {"init", "note", "update", "repeat", "query"}
         /\ f.of = "query" => f \in Query
         /\ f.of = "repeat" => f \in RepeatFrame
         /\ f.of = "update" => f \in UpdateFrame
BY DEF Frame, Wait, Query, RepeatFrame, UpdateFrame

(* What a query is when its dialog, or the data of the SIM, is gone.       *)
Lost(q) == [q EXCEPT !.alive = FALSE, !.step = "old", !.old = None, !.new = None]
Away(q) == [q EXCEPT !.home = FALSE]

LEMMA LostQuery ==
  ASSUME NEW q \in Query
  PROVE  /\ Lost(q) \in Query
         /\ Lost(q).of = "query"
         /\ Lost(q).by = q.by
         /\ Lost(q).renew = q.renew
         /\ Lost(q).home = q.home
         /\ Lost(q).step = "old"
         /\ ~Lost(q).alive
BY DEF Lost, Query

LEMMA AwayQuery ==
  ASSUME NEW q \in Query
  PROVE  /\ Away(q) \in Query
         /\ Away(q).of = "query"
         /\ Away(q).by = q.by
         /\ Away(q).renew = q.renew
         /\ Away(q).alive = q.alive
         /\ Away(q).step = q.step
         /\ ~Away(q).home
BY DEF Away, Query

(* Frame g is frame f, but for what a query may lose.                      *)
SameFrame(g, f) ==
  /\ g.of = f.of
  /\ f.of # "query" => g = f
  /\ f.of = "query" => g.by = f.by /\ g.renew = f.renew

LEMMA DialogLostFacts ==
  ASSUME NEW s \in Seq(Frame)
  PROVE  /\ DialogLost(s) \in Seq(Frame)
         /\ Len(DialogLost(s)) = Len(s)
         /\ \A i \in 1..Len(s) :
              /\ SameFrame(DialogLost(s)[i], s[i])
              /\ IsQuery(s[i]) => /\ DialogLost(s)[i].step = "old"
                                  /\ DialogLost(s)[i].home = s[i].home
                                  /\ ~DialogLost(s)[i].alive
<1>1. DialogLost(s) = [i \in 1..Len(s) |-> IF s[i].of = "query" THEN Lost(s[i]) ELSE s[i]]
  BY DEF DialogLost, EachQuery, Lost
<1>2. \A i \in 1..Len(s) : s[i] \in Frame
  OBVIOUS
<1>3. \A i \in 1..Len(s) : s[i].of = "query" => s[i] \in Query
  BY <1>2, FrameTypes
<1>4. \A i \in 1..Len(s) : (IF s[i].of = "query" THEN Lost(s[i]) ELSE s[i]) \in Frame
  BY <1>2, <1>3, LostQuery DEF Frame
<1>5. DialogLost(s) \in Seq(Frame) /\ Len(DialogLost(s)) = Len(s)
  BY <1>1, <1>4
<1>6. ASSUME NEW i \in 1..Len(s)
      PROVE  /\ SameFrame(DialogLost(s)[i], s[i])
             /\ IsQuery(s[i]) => /\ DialogLost(s)[i].step = "old"
                                 /\ DialogLost(s)[i].home = s[i].home
                                 /\ ~DialogLost(s)[i].alive
  <2>1. DialogLost(s)[i] = IF s[i].of = "query" THEN Lost(s[i]) ELSE s[i]
    BY <1>1
  <2>2. CASE s[i].of = "query"
    BY <2>1, <2>2, <1>3, LostQuery DEF SameFrame, IsQuery
  <2>3. CASE s[i].of # "query"
    BY <2>1, <2>3 DEF SameFrame, IsQuery
  <2>. QED BY <2>2, <2>3
<1>. QED BY <1>5, <1>6

LEMMA DataLostFacts ==
  ASSUME NEW s \in Seq(Frame)
  PROVE  /\ DataLost(s) \in Seq(Frame)
         /\ Len(DataLost(s)) = Len(s)
         /\ \A i \in 1..Len(s) :
              /\ SameFrame(DataLost(s)[i], s[i])
              /\ IsQuery(s[i]) => /\ DataLost(s)[i].step = s[i].step
                                  /\ DataLost(s)[i].alive = s[i].alive
                                  /\ ~DataLost(s)[i].home
<1>1. DataLost(s) = [i \in 1..Len(s) |-> IF s[i].of = "query" THEN Away(s[i]) ELSE s[i]]
  BY DEF DataLost, EachQuery, Away
<1>2. \A i \in 1..Len(s) : s[i] \in Frame
  OBVIOUS
<1>3. \A i \in 1..Len(s) : s[i].of = "query" => s[i] \in Query
  BY <1>2, FrameTypes
<1>4. \A i \in 1..Len(s) : (IF s[i].of = "query" THEN Away(s[i]) ELSE s[i]) \in Frame
  BY <1>2, <1>3, AwayQuery DEF Frame
<1>5. DataLost(s) \in Seq(Frame) /\ Len(DataLost(s)) = Len(s)
  BY <1>1, <1>4
<1>6. ASSUME NEW i \in 1..Len(s)
      PROVE  /\ SameFrame(DataLost(s)[i], s[i])
             /\ IsQuery(s[i]) => /\ DataLost(s)[i].step = s[i].step
                                 /\ DataLost(s)[i].alive = s[i].alive
                                 /\ ~DataLost(s)[i].home
  <2>1. DataLost(s)[i] = IF s[i].of = "query" THEN Away(s[i]) ELSE s[i]
    BY <1>1
  <2>2. CASE s[i].of = "query"
    BY <2>1, <2>2, <1>3, AwayQuery DEF SameFrame, IsQuery
  <2>3. CASE s[i].of # "query"
    BY <2>1, <2>3 DEF SameFrame, IsQuery
  <2>. QED BY <2>2, <2>3
<1>. QED BY <1>5, <1>6

LEMMA TailFacts ==
  ASSUME NEW s \in Seq(Frame), s # << >>
  PROVE  /\ Tail(s) \in Seq(Frame)
         /\ Len(s) \in Nat \ {0}
         /\ Len(Tail(s)) = Len(s) - 1
         /\ \A i \in 1..(Len(s) - 1) : Tail(s)[i] = s[i + 1]
         /\ Head(s) = s[1]
OBVIOUS

LEMMA PushFacts ==
  ASSUME NEW s \in Seq(Frame), NEW f \in Frame
  PROVE  /\ <<f>> \o s \in Seq(Frame)
         /\ Len(<<f>> \o s) = Len(s) + 1
         /\ (<<f>> \o s)[1] = f
         /\ \A i \in 1..Len(s) : (<<f>> \o s)[i + 1] = s[i]
         /\ Head(<<f>> \o s) = f
         /\ <<f>> \o s # << >>
OBVIOUS

(* A stack stays one when queries lose something. *)
LEMMA StackSame ==
  ASSUME NEW s, Stack(s), NEW t \in Seq(Frame), Len(t) = Len(s),
         \A i \in 1..Len(s) :
           /\ SameFrame(t[i], s[i])
           /\ IsQuery(s[i]) => /\ t[i].step \in {"old", s[i].step}
                               /\ t[i].alive => s[i].alive
  PROVE  Stack(t)
<1>1. \A i \in 1..Len(s) : QueryOK(t[i])
  BY DEF Stack, SameFrame, QueryOK, IsQuery
<1>2. \A i \in 1..Len(s) : t[i].of = "init" => i = Len(s)
  BY DEF Stack, SameFrame
<1>3. \A i \in 1..Len(s) :
        IsQuery(t[i]) /\ t[i].by.for # "required" => i < Len(s) /\ Called(t[i + 1], t[i])
  <2> SUFFICES ASSUME NEW i \in 1..Len(s), IsQuery(t[i]), t[i].by.for # "required"
               PROVE  i < Len(s) /\ Called(t[i + 1], t[i])
    OBVIOUS
  <2>1. IsQuery(s[i]) /\ t[i].by = s[i].by
    BY DEF SameFrame, IsQuery
  <2>2. i < Len(s) /\ Called(s[i + 1], s[i])
    BY <2>1 DEF Stack
  <2>3. s \in Seq(Frame) /\ i + 1 \in 1..Len(s)
    BY <2>2 DEF Stack
  <2>4. SameFrame(t[i + 1], s[i + 1])
    BY <2>3
  <2>. QED BY <2>1, <2>2, <2>4 DEF SameFrame, Called
<1>4. \A i, j \in 1..Len(s) : Alive(t[i]) /\ Alive(t[j]) => i = j
  BY DEF Stack, SameFrame, Alive, IsQuery
<1>5. \A i \in 1..Len(s) : ChangeCalls(t[i]) /\ i # 1 => ChangeAsked(t[i - 1])
  <2> SUFFICES ASSUME NEW i \in 1..Len(s), ChangeCalls(t[i]), i # 1
               PROVE  ChangeAsked(t[i - 1])
    OBVIOUS
  <2>1. ChangeCalls(s[i])
    BY DEF SameFrame, ChangeCalls
  <2>2. ChangeAsked(s[i - 1]) /\ i - 1 \in 1..Len(s)
    BY <2>1 DEF Stack
  <2>. QED BY <2>2 DEF SameFrame, ChangeAsked
<1>. QED BY <1>1, <1>2, <1>3, <1>4, <1>5 DEF Stack

LEMMA StackDialogLost ==
  ASSUME NEW s, Stack(s)
  PROVE  Stack(DialogLost(s))
<1>1. s \in Seq(Frame)
  BY DEF Stack
<1>2. /\ DialogLost(s) \in Seq(Frame)
      /\ Len(DialogLost(s)) = Len(s)
      /\ \A i \in 1..Len(s) :
           /\ SameFrame(DialogLost(s)[i], s[i])
           /\ IsQuery(s[i]) => DialogLost(s)[i].step = "old" /\ ~DialogLost(s)[i].alive
  BY <1>1, DialogLostFacts
<1> DEFINE t == DialogLost(s)
<1> HIDE DEF t
<1>. QED BY <1>2, StackSame DEF t

LEMMA StackDataLost ==
  ASSUME NEW s, Stack(s)
  PROVE  Stack(DataLost(s))
<1>1. s \in Seq(Frame)
  BY DEF Stack
<1>2. /\ DataLost(s) \in Seq(Frame)
      /\ Len(DataLost(s)) = Len(s)
      /\ \A i \in 1..Len(s) :
           /\ SameFrame(DataLost(s)[i], s[i])
           /\ IsQuery(s[i]) => /\ DataLost(s)[i].step = s[i].step
                               /\ DataLost(s)[i].alive = s[i].alive
  BY <1>1, DataLostFacts
<1> DEFINE t == DataLost(s)
<1> HIDE DEF t
<1>. QED BY <1>2, StackSame DEF t

LEMMA StackTail ==
  ASSUME NEW s, Stack(s), s # << >>
  PROVE  Stack(Tail(s))
<1>0. s \in Seq(Frame)
  BY DEF Stack
<1> DEFINE t == Tail(s)
<1>1. /\ t \in Seq(Frame)
      /\ Len(s) \in Nat \ {0}
      /\ Len(t) = Len(s) - 1
      /\ \A i \in 1..(Len(s) - 1) : t[i] = s[i + 1]
  BY <1>0, TailFacts
<1> HIDE DEF t
<1>2. \A i \in 1..Len(t) : i + 1 \in 1..Len(s) /\ t[i] = s[i + 1]
  BY <1>1
<1>3. \A i \in 1..Len(t) : QueryOK(t[i])
  BY <1>2 DEF Stack
<1>4. \A i \in 1..Len(t) : t[i].of = "init" => i = Len(t)
  <2> SUFFICES ASSUME NEW i \in 1..Len(t), t[i].of = "init"
               PROVE  i = Len(t)
    OBVIOUS
  <2>1. i + 1 \in 1..Len(s) /\ s[i + 1].of = "init"
    BY <1>2
  <2>2. i + 1 = Len(s)
    BY <2>1 DEF Stack
  <2>. QED BY <2>2, <1>1
<1>5. \A i \in 1..Len(t) :
        IsQuery(t[i]) /\ t[i].by.for # "required" => i < Len(t) /\ Called(t[i + 1], t[i])
  <2> SUFFICES ASSUME NEW i \in 1..Len(t), IsQuery(t[i]), t[i].by.for # "required"
               PROVE  i < Len(t) /\ Called(t[i + 1], t[i])
    OBVIOUS
  <2>1. i + 1 < Len(s) /\ Called(s[(i + 1) + 1], s[i + 1])
    BY <1>2 DEF Stack
  <2>2. i < Len(t) /\ i + 1 \in 1..Len(t)
    BY <2>1, <1>1
  <2>. QED BY <2>1, <2>2, <1>2
<1>6. \A i, j \in 1..Len(t) : Alive(t[i]) /\ Alive(t[j]) => i = j
  <2> SUFFICES ASSUME NEW i \in 1..Len(t), NEW j \in 1..Len(t), Alive(t[i]), Alive(t[j])
               PROVE  i = j
    OBVIOUS
  <2>1. i + 1 = j + 1
    BY <1>2 DEF Stack
  <2>. QED BY <2>1, <1>1
<1>7. \A i \in 1..Len(t) : ChangeCalls(t[i]) /\ i # 1 => ChangeAsked(t[i - 1])
  <2> SUFFICES ASSUME NEW i \in 1..Len(t), ChangeCalls(t[i]), i # 1
               PROVE  ChangeAsked(t[i - 1])
    OBVIOUS
  <2>1. /\ i + 1 \in 1..Len(s)
        /\ i + 1 # 1
        /\ i - 1 \in 1..Len(t)
        /\ (i + 1) - 1 = (i - 1) + 1
    BY <1>1
  <2>2. ChangeAsked(s[(i + 1) - 1])
    BY <1>2, <2>1 DEF Stack
  <2>. QED BY <2>1, <2>2, <1>2
<1>8. Stack(t)
  BY <1>1, <1>3, <1>4, <1>5, <1>6, <1>7 DEF Stack
<1>. QED BY <1>8 DEF t

LEMMA StackPush ==
  ASSUME NEW s, Stack(s), NEW f \in Frame, QueryOK(f),
         f.of = "init" => s = << >>,
         IsQuery(f) /\ f.by.for # "required" => s # << >> /\ Called(s[1], f),
         Alive(f) => \A i \in 1..Len(s) : ~Alive(s[i]),
         s # << >> /\ ChangeCalls(s[1]) => ChangeAsked(f)
  PROVE  Stack(<<f>> \o s)
<1>0. s \in Seq(Frame)
  BY DEF Stack
<1> DEFINE t == <<f>> \o s
<1>1. /\ t \in Seq(Frame)
      /\ Len(s) \in Nat
      /\ Len(t) = Len(s) + 1
      /\ t[1] = f
      /\ \A i \in 1..Len(s) : t[i + 1] = s[i]
  BY <1>0, PushFacts
<1>a. s = << >> <=> Len(s) = 0
  BY <1>0
<1> HIDE DEF t
<1>2. \A i \in 1..Len(t) : i # 1 => i - 1 \in 1..Len(s) /\ t[i] = s[i - 1]
  <2> SUFFICES ASSUME NEW i \in 1..Len(t), i # 1
               PROVE  i - 1 \in 1..Len(s) /\ t[i] = s[i - 1]
    OBVIOUS
  <2>1. i - 1 \in 1..Len(s) /\ (i - 1) + 1 = i
    BY <1>1
  <2>2. t[(i - 1) + 1] = s[i - 1]
    BY <2>1, <1>1
  <2>. QED BY <2>1, <2>2
<1>3. \A i \in 1..Len(t) : QueryOK(t[i])
  BY <1>1, <1>2 DEF Stack
<1>4. \A i \in 1..Len(t) : t[i].of = "init" => i = Len(t)
  <2> SUFFICES ASSUME NEW i \in 1..Len(t), t[i].of = "init"
               PROVE  i = Len(t)
    OBVIOUS
  <2>1. CASE i = 1
    BY <2>1, <1>1, <1>a
  <2>2. CASE i # 1
    <3>1. i - 1 \in 1..Len(s) /\ s[i - 1].of = "init"
      BY <2>2, <1>2
    <3>2. i - 1 = Len(s)
      BY <3>1 DEF Stack
    <3>. QED BY <3>2, <1>1
  <2>. QED BY <2>1, <2>2
<1>5. \A i \in 1..Len(t) :
        IsQuery(t[i]) /\ t[i].by.for # "required" => i < Len(t) /\ Called(t[i + 1], t[i])
  <2> SUFFICES ASSUME NEW i \in 1..Len(t), IsQuery(t[i]), t[i].by.for # "required"
               PROVE  i < Len(t) /\ Called(t[i + 1], t[i])
    OBVIOUS
  <2>1. CASE i = 1
    <3>1. s # << >> /\ Called(s[1], f)
      BY <2>1, <1>1
    <3>2. 1 \in 1..Len(s)
      BY <3>1, <1>a, <1>1
    <3>3. t[1 + 1] = s[1]
      BY <3>2, <1>1
    <3>4. 1 < Len(t)
      BY <3>2, <1>1
    <3>. QED BY <2>1, <3>1, <3>3, <3>4, <1>1
  <2>2. CASE i # 1
    <3>1. i - 1 \in 1..Len(s) /\ t[i] = s[i - 1]
      BY <2>2, <1>2
    <3>2. i - 1 < Len(s) /\ Called(s[(i - 1) + 1], s[i - 1])
      BY <3>1 DEF Stack
    <3>3. i \in 1..Len(s) /\ (i - 1) + 1 = i /\ i < Len(t)
      BY <3>1, <3>2, <1>1
    <3>4. t[i + 1] = s[i]
      BY <3>3, <1>1
    <3>. QED BY <3>1, <3>2, <3>3, <3>4
  <2>. QED BY <2>1, <2>2
<1>6. \A i, j \in 1..Len(t) : Alive(t[i]) /\ Alive(t[j]) => i = j
  <2> SUFFICES ASSUME NEW i \in 1..Len(t), NEW j \in 1..Len(t), Alive(t[i]), Alive(t[j])
               PROVE  i = j
    OBVIOUS
  <2>1. CASE i = 1
    BY <2>1, <1>1, <1>2
  <2>2. CASE j = 1
    BY <2>2, <1>1, <1>2
  <2>3. CASE i # 1 /\ j # 1
    <3>1. i - 1 = j - 1
      BY <2>3, <1>2 DEF Stack
    <3>. QED BY <3>1, <1>1
  <2>. QED BY <2>1, <2>2, <2>3
<1>7. \A i \in 1..Len(t) : ChangeCalls(t[i]) /\ i # 1 => ChangeAsked(t[i - 1])
  <2> SUFFICES ASSUME NEW i \in 1..Len(t), ChangeCalls(t[i]), i # 1
               PROVE  ChangeAsked(t[i - 1])
    OBVIOUS
  <2>1. i - 1 \in 1..Len(s) /\ ChangeCalls(s[i - 1])
    BY <1>2
  <2>2. CASE i - 1 = 1
    BY <2>1, <2>2, <1>1, <1>a
  <2>3. CASE i - 1 # 1
    <3>1. ChangeAsked(s[(i - 1) - 1])
      BY <2>1, <2>3 DEF Stack
    <3>2. i - 1 \in 1..Len(t)
      BY <1>1
    <3>. QED BY <3>1, <3>2, <2>3, <1>2
  <2>. QED BY <2>2, <2>3
<1>8. Stack(t)
  BY <1>1, <1>3, <1>4, <1>5, <1>6, <1>7 DEF Stack
<1>. QED BY <1>8 DEF t

(* The innermost function goes on. *)
LEMMA StackTop ==
  ASSUME NEW s, Stack(s), s # << >>, s[1].of = "repeat", NEW f \in RepeatFrame
  PROVE  Stack([s EXCEPT ![1] = f])
<1>0. s \in Seq(Frame) /\ Len(s) \in Nat \ {0}
  BY DEF Stack
<1>1. f \in Frame /\ f.of = "repeat"
  BY DEF RepeatFrame, Frame, Wait
<1> DEFINE t == [s EXCEPT ![1] = f]
<1>2. /\ t \in Seq(Frame)
      /\ Len(t) = Len(s)
      /\ t[1] = f
      /\ \A i \in 1..Len(s) : i # 1 => t[i] = s[i]
  BY <1>0, <1>1
<1> HIDE DEF t
<1>3. \A i \in 1..Len(t) : QueryOK(t[i])
  BY <1>1, <1>2 DEF Stack, QueryOK
<1>4. \A i \in 1..Len(t) : t[i].of = "init" => i = Len(t)
  BY <1>1, <1>2 DEF Stack
<1>5. \A i \in 1..Len(t) :
        IsQuery(t[i]) /\ t[i].by.for # "required" => i < Len(t) /\ Called(t[i + 1], t[i])
  <2> SUFFICES ASSUME NEW i \in 1..Len(t), IsQuery(t[i]), t[i].by.for # "required"
               PROVE  i < Len(t) /\ Called(t[i + 1], t[i])
    OBVIOUS
  <2>1. i # 1 /\ t[i] = s[i]
    BY <1>1, <1>2 DEF IsQuery
  <2>2. i < Len(s) /\ Called(s[i + 1], s[i])
    BY <2>1, <1>2 DEF Stack
  <2>3. i + 1 \in 1..Len(s) /\ i + 1 # 1
    BY <2>1, <2>2, <1>0, <1>2
  <2>. QED BY <2>1, <2>2, <2>3, <1>2
<1>6. \A i, j \in 1..Len(t) : Alive(t[i]) /\ Alive(t[j]) => i = j
  BY <1>1, <1>2 DEF Stack, Alive
<1>7. \A i \in 1..Len(t) : ChangeCalls(t[i]) /\ i # 1 => ChangeAsked(t[i - 1])
  <2> SUFFICES ASSUME NEW i \in 1..Len(t), ChangeCalls(t[i]), i # 1
               PROVE  ChangeAsked(t[i - 1])
    OBVIOUS
  <2>1. ChangeAsked(s[i - 1])
    BY <1>2 DEF Stack
  <2>2. i - 1 # 1
    BY <2>1 DEF ChangeAsked
  <2>3. i - 1 \in 1..Len(s)
    BY <1>2, <1>0
  <2>. QED BY <2>1, <2>2, <2>3, <1>2
<1>8. Stack(t)
  BY <1>2, <1>3, <1>4, <1>5, <1>6, <1>7 DEF Stack
<1>. QED BY <1>8 DEF t
-----------------------------------------------------------------------------
(* The SIM: what a query leaves, and what it tells *)

LEMMA RenewedSim ==
  ASSUME NEW s \in Sim, NEW new \in Code \cup {None}
  PROVE  /\ Renewed(s, new) \in Sim
         /\ Renewed(s, new).secret = IF new = None THEN s.secret ELSE new
BY DEF Renewed, Sim

LEMMA PunishedSim ==
  ASSUME NEW s \in Sim, NEW type
  PROVE  Punished(s, type) \in Sim /\ Punished(s, type).secret = s.secret
<1>1. MaxTries \in Nat \ {0} /\ s.left \in 0..MaxTries
  BY CodeUiAssumption DEF Sim
<1>2. CASE s.left > 1
  <2>1. s.left - 1 \in 0..MaxTries
    BY <1>1, <1>2
  <2>. QED BY <1>2, <2>1 DEF Punished, Sim
<1>3. CASE ~(s.left > 1) /\ type = "pin"
  <2>1. MaxTries \in 0..MaxTries
    BY <1>1
  <2>2. Punished(s, type) = [[s EXCEPT !.pin = "puk"] EXCEPT !.left = MaxTries]
    BY <1>3 DEF Punished, Sim
  <2>. QED BY <2>1, <2>2 DEF Sim, Pin
<1>4. CASE ~(s.left > 1) /\ type # "pin"
  <2>1. 0 \in 0..MaxTries
    BY <1>1
  <2>. QED BY <1>4, <2>1 DEF Punished, Sim
<1>. QED BY <1>2, <1>3, <1>4

(* A call that reports success found the right code and did its work.      *)
LEMMA OutcomesFacts ==
  ASSUME NEW s \in Sim, NEW type, NEW right \in BOOLEAN, NEW good \in Sim,
         NEW r \in Outcomes(s, type, right, good)
  PROVE  /\ r.sim \in Sim
         /\ r.ok \in BOOLEAN
         /\ r.ok => right /\ r.sim = good
<1>1. \/ r = [sim |-> s, ok |-> FALSE]
      \/ right /\ r \in {[sim |-> good, ok |-> TRUE], [sim |-> good, ok |-> FALSE]}
      \/ r = [sim |-> Punished(s, type), ok |-> FALSE]
  BY DEF Outcomes
<1>2. CASE r = [sim |-> s, ok |-> FALSE]
  BY <1>2
<1>3. CASE right /\ r = [sim |-> good, ok |-> TRUE]
  BY <1>3
<1>4. CASE right /\ r = [sim |-> good, ok |-> FALSE]
  BY <1>4
<1>5. CASE r = [sim |-> Punished(s, type), ok |-> FALSE]
  BY <1>5, PunishedSim
<1>. QED BY <1>1, <1>2, <1>3, <1>4, <1>5

LEMMA UnlockedFacts ==
  ASSUME NEW s \in Sim, NEW type \in {"pin", "puk"},
         NEW old \in Code \cup {None}, NEW new \in Code \cup {None},
         NEW r \in Unlocked(s, type, old, new)
  PROVE  /\ r.sim \in Sim
         /\ r.ok \in BOOLEAN
         /\ r.ok => Kept(type, old, new) \in {None, r.sim.secret}
<1> DEFINE good == [Renewed(s, new) EXCEPT !.pin = "none", !.left = MaxTries]
<1>1. /\ good \in Sim
      /\ good.secret = IF new = None THEN s.secret ELSE new
  <2> DEFINE n == Renewed(s, new)
  <2>1. /\ n \in Sim
        /\ n.secret = IF new = None THEN s.secret ELSE new
    BY RenewedSim
  <2>2. good = [[n EXCEPT !.pin = "none"] EXCEPT !.left = MaxTries]
    BY <2>1 DEF Sim
  <2>3. MaxTries \in 0..MaxTries
    BY CodeUiAssumption
  <2>4. "none" \in Pin
    BY DEF Pin
  <2> HIDE DEF good, n
  <2>. QED BY <2>1, <2>2, <2>3, <2>4 DEF Sim
<1>2. CASE s.pin # type
  <2>1. r = [sim |-> s, ok |-> FALSE]
    BY <1>2 DEF Unlocked
  <2>. QED BY <2>1
<1>3. CASE s.pin = type /\ type = "pin"
  <2>1. r \in Outcomes(s, type, old = s.secret, good)
    BY <1>3 DEF Unlocked
  <2> HIDE DEF good
  <2> DEFINE right == old = s.secret
  <2>2. right \in BOOLEAN
    OBVIOUS
  <2>3. r \in Outcomes(s, type, right, good)
    BY <2>1
  <2> HIDE DEF right
  <2>4. /\ r.sim \in Sim
        /\ r.ok \in BOOLEAN
        /\ r.ok => right /\ r.sim = good
    BY <1>1, <2>2, <2>3, OutcomesFacts
  <2>. QED BY <1>1, <1>3, <2>4 DEF right, Kept
<1>4. CASE s.pin = type /\ type = "puk"
  <2>1. r \in Outcomes(s, type, FALSE, good) \/ r \in Outcomes(s, type, TRUE, good)
    BY <1>4 DEF Unlocked
  <2> HIDE DEF good
  <2>2. /\ r.sim \in Sim
        /\ r.ok \in BOOLEAN
        /\ r.ok => r.sim = good
    BY <1>1, <2>1, OutcomesFacts
  <2>. QED BY <1>1, <1>4, <2>2 DEF Kept
<1>. QED BY <1>2, <1>3, <1>4

LEMMA ChangePinFacts ==
  ASSUME NEW s \in Sim, NEW old \in Code \cup {None}, NEW new \in Code \cup {None},
         NEW r \in ChangePin(s, old, new)
  PROVE  /\ r.sim \in Sim
         /\ r.ok \in BOOLEAN
         /\ r.ok => /\ old = s.secret
                    /\ r.sim.secret = IF new = None THEN s.secret ELSE new
<1> DEFINE right == old = s.secret
           good == Renewed(s, new)
<1>1. r \in Outcomes(s, "pin", right, good)
  BY DEF ChangePin
<1>2. /\ right \in BOOLEAN
      /\ good \in Sim
      /\ good.secret = IF new = None THEN s.secret ELSE new
  BY RenewedSim
<1> HIDE DEF right, good
<1>3. /\ r.sim \in Sim
      /\ r.ok \in BOOLEAN
      /\ r.ok => right /\ r.sim = good
  BY <1>1, <1>2, OutcomesFacts
<1>. QED BY <1>2, <1>3 DEF right

LEMMA SetQueryFacts ==
  ASSUME NEW s \in Sim, NEW code \in Code \cup {None}, NEW want \in BOOLEAN,
         NEW r \in SetQuery(s, code, want)
  PROVE  /\ r.sim \in Sim
         /\ r.ok \in BOOLEAN
         /\ r.ok => code = s.secret /\ r.sim.secret = s.secret
<1> DEFINE right == code = s.secret
           good == [s EXCEPT !.enabled = want]
<1>1. r \in Outcomes(s, "pin", right, good)
  BY DEF SetQuery
<1>2. /\ right \in BOOLEAN
      /\ good \in Sim
      /\ good.secret = s.secret
  BY DEF Sim
<1> HIDE DEF right, good
<1>3. /\ r.sim \in Sim
      /\ r.ok \in BOOLEAN
      /\ r.ok => right /\ r.sim = good
  BY <1>1, <1>2, OutcomesFacts
<1>. QED BY <1>2, <1>3 DEF right

(* The effect of a query, and that the code kept after it, when all was    *)
(* reported to be well, is the PIN that the SIM has then.                  *)
EffectOK(e, kept) ==
  /\ e.sim \in Sim
  /\ e.reports \in Seq(BOOLEAN) \ {<< >>}
  /\ e.read \in Pin \cup {None}
  /\ All(e.reports) => kept \in {None, e.sim.secret}

LEMMA ReportsOne ==
  ASSUME NEW a \in BOOLEAN
  PROVE  /\ <<a>> \in Seq(BOOLEAN) \ {<< >>}
         /\ All(<<a>>) => a
BY DEF All

LEMMA ReportsTwo ==
  ASSUME NEW a \in BOOLEAN, NEW b \in BOOLEAN
  PROVE  /\ <<a, b>> \in Seq(BOOLEAN) \ {<< >>}
         /\ All(<<a, b>>) => a /\ b
BY DEF All

LEMMA VerifyEffect ==
  ASSUME sim \in Sim, NEW type \in {"pin", "puk"},
         NEW old \in Code \cup {None}, NEW new \in Code \cup {None},
         NEW e \in VerifyRequired(type, old, new)
  PROVE  EffectOK(e, Kept(type, old, new))
<1>1. PICK r \in Unlocked(sim, type, old, new) : e = Effect(r.sim, <<r.ok>>, r.sim.pin)
  BY DEF VerifyRequired
<1>2. /\ r.sim \in Sim
      /\ r.ok \in BOOLEAN
      /\ r.ok => Kept(type, old, new) \in {None, r.sim.secret}
  BY UnlockedFacts
<1>3. e.sim = r.sim /\ e.reports = <<r.ok>> /\ e.read = r.sim.pin
  BY <1>1 DEF Effect
<1>4. r.sim.pin \in Pin
  BY <1>2 DEF Sim
<1>. QED BY <1>2, <1>3, <1>4, ReportsOne DEF EffectOK

LEMMA SetEnabledEffect ==
  ASSUME sim \in Sim, NEW type \in {"pin", "puk"}, NEW want \in BOOLEAN,
         NEW old \in Code \cup {None},
         NEW e \in SetEnabled(want, old)
  PROVE  EffectOK(e, Kept(type, old, None))
<1>1. PICK r \in SetQuery(sim, old, want) : e = Effect(r.sim, <<r.ok>>, None)
  BY DEF SetEnabled
<1>2. /\ r.sim \in Sim
      /\ r.ok \in BOOLEAN
      /\ r.ok => old = sim.secret /\ r.sim.secret = sim.secret
  BY SetQueryFacts
<1>3. e.sim = r.sim /\ e.reports = <<r.ok>> /\ e.read = None
  BY <1>1 DEF Effect
<1>4. Kept(type, old, None) \in {None, old}
  BY DEF Kept
<1>. QED BY <1>2, <1>3, <1>4, ReportsOne DEF EffectOK

LEMMA ChangeEffect ==
  ASSUME sim \in Sim, NEW type \in {"pin", "puk"},
         NEW old \in Code \cup {None}, NEW new \in Code \cup {None},
         NEW e \in Change(old, new)
  PROVE  EffectOK(e, Kept(type, old, new))
<1>1. CASE view.pin = "pin"
  <2>1. PICK r \in ChangePin(sim, old, new) : e = Effect(r.sim, <<r.ok, r.ok>>, r.sim.pin)
    BY <1>1 DEF Change
  <2>2. /\ r.sim \in Sim
        /\ r.ok \in BOOLEAN
        /\ r.ok => old = sim.secret /\ r.sim.secret = IF new = None THEN sim.secret ELSE new
    BY ChangePinFacts
  <2>3. e.sim = r.sim /\ e.reports = <<r.ok, r.ok>> /\ e.read = r.sim.pin
    BY <2>1 DEF Effect
  <2>4. r.sim.pin \in Pin
    BY <2>2 DEF Sim
  <2>5. r.ok => Kept(type, old, new) \in {None, r.sim.secret}
    BY <2>2 DEF Kept
  <2>. QED BY <2>2, <2>3, <2>4, <2>5, ReportsTwo DEF EffectOK
<1>2. CASE view.pin # "pin"
  <2>1. PICK l \in SetQuery(sim, old, TRUE) :
          e \in IF ~l.ok THEN {Effect(l.sim, <<FALSE>>, None)}
                ELSE UNION {
                  {Effect(u.sim, <<r.ok, u.ok>>, r.sim.pin) :
                     u \in SetQuery(r.sim, IF r.ok THEN new ELSE old, FALSE)} :
                  r \in ChangePin(l.sim, old, new)}
    BY <1>2 DEF Change
  <2>2. l.sim \in Sim /\ l.ok \in BOOLEAN
    BY SetQueryFacts
  <2>3. CASE ~l.ok
    <3>1. e = Effect(l.sim, <<FALSE>>, None)
      BY <2>1, <2>3
    <3>2. e.sim = l.sim /\ e.reports = <<FALSE>> /\ e.read = None
      BY <3>1 DEF Effect
    <3>. QED BY <2>2, <3>2, ReportsOne DEF EffectOK
  <2>4. CASE l.ok
    <3>1. PICK r \in ChangePin(l.sim, old, new) :
            e \in {Effect(u.sim, <<r.ok, u.ok>>, r.sim.pin) :
                     u \in SetQuery(r.sim, IF r.ok THEN new ELSE old, FALSE)}
      BY <2>1, <2>4
    <3> DEFINE code == IF r.ok THEN new ELSE old
    <3>2. PICK u \in SetQuery(r.sim, code, FALSE) : e = Effect(u.sim, <<r.ok, u.ok>>, r.sim.pin)
      BY <3>1
    <3>3. /\ r.sim \in Sim
          /\ r.ok \in BOOLEAN
          /\ r.ok => old = l.sim.secret
                     /\ r.sim.secret = IF new = None THEN l.sim.secret ELSE new
      BY <2>2, ChangePinFacts
    <3>4. code \in Code \cup {None}
      OBVIOUS
    <3> HIDE DEF code
    <3>5. /\ u.sim \in Sim
          /\ u.ok \in BOOLEAN
          /\ u.ok => u.sim.secret = r.sim.secret
      BY <3>2, <3>3, <3>4, SetQueryFacts
    <3>6. e.sim = u.sim /\ e.reports = <<r.ok, u.ok>> /\ e.read = r.sim.pin
      BY <3>2 DEF Effect
    <3>7. r.sim.pin \in Pin
      BY <3>3 DEF Sim
    <3>8. r.ok /\ u.ok => Kept(type, old, new) \in {None, u.sim.secret}
      BY <3>3, <3>5 DEF Kept
    <3>. QED BY <3>3, <3>5, <3>6, <3>7, <3>8, ReportsTwo DEF EffectOK
  <2>. QED BY <2>2, <2>3, <2>4
<1>. QED BY <1>1, <1>2

Asker == Purpose \cup [for: {"required"}]

LEMMA AskerCases ==
  ASSUME NEW by \in Asker
  PROVE  /\ by.for \in {"required", "change", "active"}
         /\ by.for = "active" => by.want \in BOOLEAN
         /\ by.for # "required" => by \in Purpose
BY DEF Asker, Purpose

LEMMA EffectsFacts ==
  ASSUME sim \in Sim, NEW by \in Asker, NEW type \in {"pin", "puk"},
         NEW old \in Code \cup {None}, NEW new \in Code \cup {None},
         by.for = "active" => new = None,
         NEW e \in EffectsOf(by, type, old, new)
  PROVE  EffectOK(e, Kept(type, old, new))
<1>1. CASE by.for = "required"
  <2>1. e \in VerifyRequired(type, old, new)
    BY <1>1 DEF EffectsOf
  <2>. QED BY <2>1, VerifyEffect
<1>2. CASE by.for = "active"
  <2>1. e \in SetEnabled(by.want, old) /\ new = None
    BY <1>2 DEF EffectsOf
  <2>2. by.want \in BOOLEAN
    BY <1>2, AskerCases
  <2> DEFINE want == by.want
  <2> HIDE DEF want
  <2>3. want \in BOOLEAN /\ e \in SetEnabled(want, old)
    BY <2>1, <2>2 DEF want
  <2>4. EffectOK(e, Kept(type, old, None))
    BY <2>3, SetEnabledEffect
  <2>. QED BY <2>1, <2>4
<1>3. CASE by.for = "change"
  <2>1. e \in Change(old, new)
    BY <1>3 DEF EffectsOf
  <2>. QED BY <2>1, ChangeEffect
<1>. QED BY <1>1, <1>2, <1>3, AskerCases

LEMMA AnnouncedSeq ==
  ASSUME NEW new \in Sim, signals \in Seq(Signal)
  PROVE  Announced(new) \in Seq(Signal)
<1> DEFINE p == [name |-> "Present", present |-> new.present]
           r == [name |-> "PinRequired", pin |-> new.pin]
<1>1. p \in Signal /\ r \in Signal
  BY DEF Signal, Sim
<1> HIDE DEF p, r
<1>2. /\ (IF new.present = sim.present THEN << >> ELSE <<p>>) \in Seq(Signal)
      /\ (IF new.pin = sim.pin THEN << >> ELSE <<r>>) \in Seq(Signal)
  BY <1>1
<1>. QED BY <1>2 DEF Announced, p, r
-----------------------------------------------------------------------------
(* The code UI and the functions that come back to it *)

(* Code UI v is code UI u, but for its state and its dialog.               *)
Kin(v, u) ==
  /\ v \in CodeUi
  /\ v.status = u.status /\ v.code = u.code /\ v.note = u.note
  /\ v.timer = u.timer /\ v.verified = u.verified /\ v.ok = u.ok

LEMMA WithState ==
  ASSUME NEW u \in CodeUi, NEW st \in State
  PROVE  /\ Kin([u EXCEPT !.state = st], u)
         /\ [u EXCEPT !.state = st].state = st
         /\ [u EXCEPT !.state = st].dialog = u.dialog
BY DEF CodeUi, Kin

LEMMA WithDialog ==
  ASSUME NEW u \in CodeUi, NEW b \in BOOLEAN
  PROVE  /\ Kin([u EXCEPT !.dialog = b], u)
         /\ [u EXCEPT !.dialog = b].state = u.state
         /\ [u EXCEPT !.dialog = b].dialog = b
BY DEF CodeUi, Kin

LEMMA AllSaysLast ==
  ASSUME NEW reports \in Seq(BOOLEAN) \ {<< >>}
  PROVE  /\ Last(reports) \in BOOLEAN
         /\ All(reports) => Last(reports)
         /\ Last(reports) => Some(reports)
<1>1. Len(reports) \in 1..Len(reports)
  OBVIOUS
<1>. QED BY <1>1 DEF All, Some, Last

LEMMA VerifiedFacts ==
  ASSUME NEW u \in CodeUi, NEW kept \in Code \cup {None},
         NEW reports \in Seq(BOOLEAN) \ {<< >>}, show \in BOOLEAN
  PROVE  LET v == Verified(u, kept, reports) IN
         /\ v \in CodeUi
         /\ ~v.dialog
         /\ v.note = u.note
         /\ v.state \in {"OK", u.state}
         /\ v.code = IF All(reports) THEN kept ELSE None
         /\ Last(reports) => v.state = "OK" /\ v.status = "OK" /\ (show \/ v.ok)
         /\ ~Last(reports) => v.status = "NO_SIM"
<1> DEFINE l == Last(reports)
           a == All(reports)
           o == Some(reports)
<1>1. l \in BOOLEAN /\ a \in BOOLEAN /\ o \in BOOLEAN /\ (l => o)
  BY AllSaysLast DEF All, Some
<1>2. Verified(u, kept, reports) =
        [u EXCEPT !.dialog = FALSE,
                  !.state = IF l THEN "OK" ELSE @,
                  !.status = IF l THEN "OK" ELSE "NO_SIM",
                  !.code = IF a THEN kept ELSE None,
                  !.verified = @ \/ ~a,
                  !.ok = @ \/ (~show /\ o)]
  BY DEF Verified
<1>3. "OK" \in State /\ {"OK", "NO_SIM"} \subseteq SimStatus
  BY DEF State, SimStatus
<1> HIDE DEF l, a, o
<1>4. u.state \in State /\ u.verified \in BOOLEAN /\ u.ok \in BOOLEAN
  BY DEF CodeUi
<1> DEFINE v == Verified(u, kept, reports)
<1>5. v \in CodeUi
  BY <1>1, <1>2, <1>3, <1>4 DEF CodeUi
<1>6. ~v.dialog /\ v.note = u.note /\ v.state \in {"OK", u.state}
  BY <1>2 DEF CodeUi
<1>7. v.code = IF a THEN kept ELSE None
  BY <1>2 DEF CodeUi
<1>8. l => v.state = "OK" /\ v.status = "OK"
  BY <1>2 DEF CodeUi
<1>9. l => show \/ v.ok
  BY <1>1, <1>2, <1>4 DEF CodeUi
<1>10. ~l => v.status = "NO_SIM"
  BY <1>2 DEF CodeUi
<1>. QED BY <1>5, <1>6, <1>7, <1>8, <1>9, <1>10 DEF l, a

(* Every function of stack t was in stack s already, with at least as much *)
(* to lose.                                                                *)
Within(t, s) ==
  \A i \in 1..Len(t) : \E j \in 1..Len(s) :
    /\ t[i].of = s[j].of
    /\ IsQuery(t[i]) => (t[i].home => s[j].home) /\ (t[i].alive => s[j].alive)

LEMMA WithinSelf ==
  ASSUME NEW s
  PROVE  Within(s, s)
BY DEF Within

LEMMA WithinTrans ==
  ASSUME NEW r, NEW s, NEW t, Within(r, s), Within(s, t)
  PROVE  Within(r, t)
<1> SUFFICES ASSUME NEW i \in 1..Len(r)
             PROVE  \E k \in 1..Len(t) :
                      /\ r[i].of = t[k].of
                      /\ IsQuery(r[i]) => (r[i].home => t[k].home) /\ (r[i].alive => t[k].alive)
  BY DEF Within
<1>1. PICK j \in 1..Len(s) :
        /\ r[i].of = s[j].of
        /\ IsQuery(r[i]) => (r[i].home => s[j].home) /\ (r[i].alive => s[j].alive)
  BY DEF Within
<1>2. PICK k \in 1..Len(t) :
        /\ s[j].of = t[k].of
        /\ IsQuery(s[j]) => (s[j].home => t[k].home) /\ (s[j].alive => t[k].alive)
  BY DEF Within
<1>. QED BY <1>1, <1>2 DEF IsQuery

LEMMA WithinTail ==
  ASSUME NEW s \in Seq(Frame), s # << >>
  PROVE  Within(Tail(s), s)
<1>1. /\ Len(s) \in Nat
      /\ Len(Tail(s)) = Len(s) - 1
      /\ \A i \in 1..(Len(s) - 1) : Tail(s)[i] = s[i + 1]
  BY TailFacts
<1>2. \A i \in 1..Len(Tail(s)) : i + 1 \in 1..Len(s) /\ Tail(s)[i] = s[i + 1]
  BY <1>1
<1>. QED BY <1>2 DEF Within

LEMMA WithinDialogLost ==
  ASSUME NEW s \in Seq(Frame)
  PROVE  Within(DialogLost(s), s)
<1>1. /\ Len(DialogLost(s)) = Len(s)
      /\ \A i \in 1..Len(s) :
           /\ SameFrame(DialogLost(s)[i], s[i])
           /\ IsQuery(s[i]) => /\ DialogLost(s)[i].home = s[i].home
                               /\ ~DialogLost(s)[i].alive
  BY DialogLostFacts
<1>. QED BY <1>1 DEF Within, SameFrame, IsQuery

LEMMA ResumedFacts ==
  ASSUME NEW s, Stack(s), NEW by \in Asker, NEW rv \in BOOLEAN, NEW u,
         by.for = "required" => s = << >> \/ ~ChangeCalls(s[1]),
         by.for # "required" => s # << >> /\ s[1].of = "repeat" /\ s[1].goal = by
  PROVE  LET t == Resumed(by, s, rv, u) IN
         /\ Stack(t)
         /\ Len(t) <= Len(s)
         /\ Within(t, s)
         /\ t # << >> => ~ChangeCalls(t[1])
<1>0. s \in Seq(Frame)
  BY DEF Stack
<1> DEFINE t == Resumed(by, s, rv, u)
<1>1. CASE by.for = "required"
  <2>1. t = s
    BY <1>1 DEF Resumed
  <2>. QED BY <1>0, <1>1, <2>1, WithinSelf
<1>2. CASE by.for \in {"change", "active"}
  <2>1. s # << >> /\ s[1].of = "repeat" /\ s[1].goal = by /\ 1 \in 1..Len(s)
    BY <1>0, <1>2
  <2>2. s[1] \in RepeatFrame
    BY <1>0, <2>1, FrameTypes
  <2> DEFINE g == [s[1] EXCEPT !.rv = rv]
             f == [g EXCEPT !.at = "wait"]
             h == [s[1] EXCEPT !.at = "wait"]
  <2>3. f \in RepeatFrame /\ f.at = "wait" /\ h \in RepeatFrame /\ h.at = "wait"
    BY <2>2 DEF RepeatFrame
  <2>4. [s EXCEPT ![1].rv = rv, ![1].at = "wait"] = [s EXCEPT ![1] = f]
    BY <1>0, <2>1, <2>2
  <2>5. [s EXCEPT ![1].at = "wait"] = [s EXCEPT ![1] = h]
    OBVIOUS
  <2> HIDE DEF f, g, h
  <2>6. ASSUME NEW x \in RepeatFrame, x.at = "wait", t = [s EXCEPT ![1] = x]
        PROVE  Stack(t) /\ Len(t) <= Len(s) /\ Within(t, s) /\ (t # << >> => ~ChangeCalls(t[1]))
    <3>1. Stack([s EXCEPT ![1] = x])
      BY <2>1, StackTop
    <3>2. Len([s EXCEPT ![1] = x]) = Len(s) /\ [s EXCEPT ![1] = x][1] = x
          /\ \A i \in 1..Len(s) : i # 1 => [s EXCEPT ![1] = x][i] = s[i]
      BY <1>0, <2>1
    <3>3. x.of = "repeat"
      BY DEF RepeatFrame
    <3>4. Within(t, s)
      BY <2>1, <2>6, <3>2, <3>3 DEF Within, IsQuery
    <3>5. ~ChangeCalls(t[1])
      BY <2>6, <3>2 DEF ChangeCalls
    <3>6. Len(t) <= Len(s)
      BY <1>0, <2>6, <3>2
    <3>. QED BY <2>6, <3>1, <3>4, <3>5, <3>6
  <2>7. CASE by.for = "change"
    <3>1. t = [s EXCEPT ![1] = f]
      BY <2>4, <2>7 DEF Resumed
    <3> HIDE DEF t
    <3>2. Stack(t) /\ Len(t) <= Len(s) /\ Within(t, s) /\ (t # << >> => ~ChangeCalls(t[1]))
      BY <2>3, <2>6, <3>1
    <3>. QED BY <3>2 DEF t
  <2>8. CASE by.for = "active" /\ (rv \/ Failed(u))
    <3>1. t = Tail(s)
      BY <2>8 DEF Resumed
    <3>2. /\ Len(s) \in Nat \ {0}
          /\ Len(Tail(s)) = Len(s) - 1
          /\ \A i \in 1..(Len(s) - 1) : Tail(s)[i] = s[i + 1]
          /\ Tail(s) \in Seq(Frame)
      BY <1>0, <2>1, TailFacts
    <3>3. Stack(t) /\ Within(t, s) /\ Len(t) <= Len(s)
      BY <1>0, <2>1, <3>1, <3>2, StackTail, WithinTail
    <3>4. ASSUME t # << >>
          PROVE  ~ChangeCalls(t[1])
      <4>1. 1 \in 1..(Len(s) - 1)
        BY <3>1, <3>2, <3>4
      <4>2. t[1] = s[2] /\ 2 \in 1..Len(s)
        BY <3>1, <3>2, <4>1
      <4>3. ChangeCalls(s[2]) => ChangeAsked(s[1])
        BY <4>2 DEF Stack
      <4>. QED BY <2>1, <4>2, <4>3 DEF ChangeAsked
    <3>. QED BY <3>3, <3>4
  <2>9. CASE by.for = "active" /\ ~(rv \/ Failed(u))
    <3>1. t = [s EXCEPT ![1] = h]
      BY <2>5, <2>9 DEF Resumed
    <3> HIDE DEF t
    <3>2. Stack(t) /\ Len(t) <= Len(s) /\ Within(t, s) /\ (t # << >> => ~ChangeCalls(t[1]))
      BY <2>3, <2>6, <3>1
    <3>. QED BY <3>2 DEF t
  <2>. QED BY <1>2, <2>7, <2>8, <2>9
<1>. QED BY <1>1, <1>2, AskerCases

(* What the parts of the invariant need after a step. *)
LEMMA RolesKept ==
  ASSUME Roles, ui # None, ui'.note => show, show' = show,
         ui'.state = "NONE" => ui.state = "NONE", Within(frames', frames)
  PROVE  Roles'
<1> SUFFICES ASSUME NEW i \in 1..Len(frames')
             PROVE  /\ frames'[i].of \in {"update", "repeat"} => ~show /\ ui'.state # "NONE"
                    /\ frames'[i].of = "note" => show
  BY DEF Roles
<1>1. PICK j \in 1..Len(frames) : frames'[i].of = frames[j].of
  BY DEF Within
<1>. QED BY <1>1 DEF Roles

LEMMA NoDialog ==
  ASSUME Within(frames', frames), \A i \in 1..Len(frames) : ~Alive(frames[i]),
         ui' \in CodeUi, ~ui'.dialog
  PROVE  DialogBelongsToQuery'
<1>1. ASSUME NEW i \in 1..Len(frames')
      PROVE  ~(frames'[i].of = "query" /\ frames'[i].alive)
  <2>1. PICK j \in 1..Len(frames) :
          /\ frames'[i].of = frames[j].of
          /\ IsQuery(frames'[i]) => (frames'[i].alive => frames[j].alive)
    BY DEF Within
  <2>. QED BY <2>1 DEF Alive, IsQuery
<1>. QED BY <1>1 DEF DialogBelongsToQuery, CodeUi

LEMMA SureQuiet ==
  ASSUME Stack(frames'), frames' # << >> => ~ChangeCalls(frames'[1]),
         \/ Failed(ui)'
         \/ ui'.ok
         \/ ui'.status # "OK" /\ "code" \notin cbs'
         \/ \A i \in 1..Len(frames') : frames'[i].of \notin {"update", "repeat"}
  PROVE  Sure'
<1>1. CASE frames' = << >>
  BY <1>1 DEF Sure, ChangeWaits, ChangeUpdates, In
<1>2. CASE frames' # << >>
  <2>0. frames' \in Seq(Frame)
    BY DEF Stack
  <2>1. Top' = frames'[1] /\ 1 \in 1..Len(frames')
    BY <1>2, <2>0, TailFacts DEF Top
  <2>2. ~ChangeCalls(Top)'
    BY <1>2, <2>1 DEF ChangeCalls
  <2>3. (ChangeWaits /\ ui.status = "OK" /\ ~Failed(ui) /\ ~ui.ok => SaysOK)'
    BY <2>1 DEF ChangeWaits, In
  <2>4. (ChangeUpdates /\ ui.state = "OK" /\ ~ui.ok => Certain)'
    BY <2>1 DEF ChangeUpdates, In, Certain, Failed, Errors
  <2>. QED BY <2>2, <2>3, <2>4 DEF Sure
<1>. QED BY <1>1, <1>2

LEMMA SureQuery ==
  ASSUME frames' # << >>, Top'.of \in {"query", "note", "init"}
  PROVE  Sure'
BY DEF Sure, ChangeWaits, ChangeUpdates, In, ChangeCalls

(* Another dialog is opened. *)
LEMMA AskIInv ==
  ASSUME IInv, ui # None,
         NEW query \in Query, query.alive, query.home => view # None, QueryOK(query),
         NEW u, Kin(u, ui), u.state = "NONE" => ui.state = "NONE",
         NEW stack, Stack(stack), Within(stack, frames),
         query.by.for # "required" => stack # << >> /\ Called(stack[1], query),
         stack # << >> /\ ChangeCalls(stack[1]) => ChangeAsked(query),
         NEW sources, sources \subseteq idle,
         Ask(query, u, stack, sources)
  PROVE  IInv'
<1>0. stack \in Seq(Frame) /\ query \in Frame /\ query.of = "query"
  BY DEF Stack, Frame, Query
<1> DEFINE d == DialogLost(stack)
<1>1. /\ d \in Seq(Frame)
      /\ Len(d) = Len(stack)
      /\ \A i \in 1..Len(stack) :
           /\ SameFrame(d[i], stack[i])
           /\ IsQuery(stack[i]) => d[i].home = stack[i].home /\ ~d[i].alive
  BY <1>0, DialogLostFacts
<1>2. Stack(d)
  BY StackDialogLost
<1>3. Within(d, frames)
  BY <1>0, WithinDialogLost, WithinTrans
<1>4. frames' = <<query>> \o d /\ Len(stack) < MaxDepth
  BY DEF Ask
<1>a. stack = << >> <=> Len(stack) = 0
  BY <1>0
<1>b. d = << >> <=> Len(d) = 0
  BY <1>1
<1> HIDE DEF d
<1>5. \A i \in 1..Len(d) : ~Alive(d[i])
  BY <1>1 DEF Alive, SameFrame, IsQuery
<1>6. /\ frames' \in Seq(Frame)
      /\ Len(frames') = Len(d) + 1
      /\ frames'[1] = query
      /\ \A i \in 1..Len(d) : frames'[i + 1] = d[i]
      /\ Head(frames') = query
      /\ frames' # << >>
  BY <1>0, <1>1, <1>4, PushFacts
<1>7. \A i \in 1..Len(frames') : i # 1 => i - 1 \in 1..Len(d) /\ frames'[i] = d[i - 1]
  <2> SUFFICES ASSUME NEW i \in 1..Len(frames'), i # 1
               PROVE  i - 1 \in 1..Len(d) /\ frames'[i] = d[i - 1]
    OBVIOUS
  <2>1. i - 1 \in 1..Len(d) /\ (i - 1) + 1 = i
    BY <1>1, <1>6
  <2>2. frames'[(i - 1) + 1] = d[i - 1]
    BY <1>6, <2>1
  <2>. QED BY <2>1, <2>2
<1>8. 1 \in 1..Len(frames')
  BY <1>1, <1>6
<1>9. ui' = [u EXCEPT !.dialog = TRUE] /\ idle' = sources
      /\ UNCHANGED <<sim, signals, view, cbs, show, dangling, changes>>
  BY DEF Ask
<1>10. /\ ui' \in CodeUi
       /\ ui'.state = u.state
       /\ ui'.dialog
       /\ ui'.code = ui.code
       /\ ui'.note = ui.note
  BY <1>9, WithDialog DEF Kin
<1>11. Types'
  BY <1>9, <1>10 DEF IInv, Types
<1>12. Bounds'
  <2>1. Len(frames') <= MaxDepth
    BY <1>0, <1>1, <1>4, <1>6, CodeUiAssumption
  <2>. QED BY <1>9, <2>1 DEF IInv, Bounds
<1>13. Stack(frames')
  <2>1. query.by.for # "required" => d # << >> /\ Called(d[1], query)
    BY <1>0, <1>1, <1>a, <1>b DEF SameFrame, Called
  <2>2. d # << >> /\ ChangeCalls(d[1]) => ChangeAsked(query)
    BY <1>0, <1>1, <1>a, <1>b DEF SameFrame, ChangeCalls
  <2>3. Stack(<<query>> \o d)
    BY <1>0, <1>2, <1>5, <2>1, <2>2, StackPush
  <2>. QED BY <1>4, <2>3
<1>14. Lifetimes'
  <2>1. ui' # None
    BY <1>10, NoneAssumption
  <2>2. ASSUME view' = None
        PROVE  idle' = {} /\ \A i \in 1..Len(frames') : IsQuery(frames'[i]) => ~frames'[i].home
    <3>1. view = None /\ idle' = {}
      BY <1>9, <2>2 DEF IInv, Lifetimes
    <3>2. ASSUME NEW i \in 1..Len(frames'), IsQuery(frames'[i])
          PROVE  ~frames'[i].home
      <4>1. CASE i = 1
        BY <1>6, <3>1, <4>1
      <4>2. CASE i # 1
        <5>1. i - 1 \in 1..Len(d) /\ IsQuery(d[i - 1]) /\ frames'[i] = d[i - 1]
          BY <1>7, <3>2, <4>2
        <5>2. PICK j \in 1..Len(frames) :
                d[i - 1].of = frames[j].of /\ (d[i - 1].home => frames[j].home)
          BY <1>3, <5>1 DEF Within
        <5>3. ~frames[j].home
          BY <3>1, <5>1, <5>2 DEF IInv, Lifetimes, IsQuery
        <5>. QED BY <5>1, <5>2, <5>3
      <4>. QED BY <4>1, <4>2
    <3>. QED BY <3>1, <3>2
  <2>. QED BY <2>1, <2>2 DEF Lifetimes
<1>15. Roles'
  <2>1. ASSUME NEW i \in 1..Len(frames'), frames'[i].of \in {"update", "repeat", "note"}
        PROVE  /\ frames'[i].of \in {"update", "repeat"} => ~show /\ ui'.state # "NONE"
               /\ frames'[i].of = "note" => show
    <3>1. i # 1
      BY <1>0, <1>6, <2>1
    <3>2. i - 1 \in 1..Len(d) /\ frames'[i] = d[i - 1]
      BY <1>7, <3>1
    <3>3. PICK j \in 1..Len(frames) : d[i - 1].of = frames[j].of
      BY <1>3, <3>2 DEF Within
    <3>4. /\ frames[j].of \in {"update", "repeat"} => ~show /\ ui.state # "NONE"
          /\ frames[j].of = "note" => show
      BY DEF IInv, Roles
    <3>. QED BY <1>10, <3>2, <3>3, <3>4
  <2>. QED BY <1>9, <1>10, <2>1 DEF IInv, Roles
<1>16. DialogBelongsToQuery'
  BY <1>0, <1>6, <1>8, <1>10 DEF DialogBelongsToQuery
<1>17. KeptCodeIsThePin'
  BY <1>9, <1>10 DEF IInv, KeptCodeIsThePin
<1>18. Told'
  BY <1>0, <1>6 DEF Told, In, Top
<1>19. Sure'
  <2>1. Top'.of = "query"
    BY <1>0, <1>6 DEF Top
  <2>. QED BY <1>6, <2>1, SureQuery
<1>. QED BY <1>11, <1>12, <1>13, <1>14, <1>15, <1>16, <1>17, <1>18, <1>19 DEF IInv

(* The codes of a query are used. *)
LEMMA UseIInv ==
  ASSUME IInv, ui # None, view # None,
         NEW by \in Asker, NEW type \in {"pin", "puk"},
         NEW old \in Code \cup {None}, NEW new \in Code \cup {None},
         by.for = "active" => new = None,
         NEW u, Kin(u, ui), u.state = "NONE" => ui.state = "NONE",
         NEW stack, Stack(stack), Within(stack, frames), Len(stack) <= Len(frames),
         by.for = "required" => stack = << >> \/ ~ChangeCalls(stack[1]),
         by.for # "required" => stack # << >> /\ stack[1].of = "repeat" /\ stack[1].goal = by,
         NEW sources, sources \subseteq idle,
         Use(by, type, old, new, u, stack, sources)
  PROVE  IInv'
<1>0. stack \in Seq(Frame) /\ sim \in Sim /\ view \in SimData /\ show \in BOOLEAN
  BY DEF Stack, IInv, Types
<1> DEFINE kept == Kept(type, old, new)
<1>1. kept \in Code \cup {None}
  BY DEF Kept
<1>2. PICK e \in EffectsOf(by, type, old, new), fails \in BOOLEAN :
        /\ sim' = e.sim
        /\ view' = Reread(e, fails)
        /\ ui' = Verified(u, kept, e.reports)
        /\ cbs' = IF ~All(e.reports) THEN (cbs \ {"code"}) \cup {"status"} ELSE cbs
        /\ idle' = sources \cup (IF ~All(e.reports) THEN Source("status") ELSE {})
        /\ frames' = Resumed(by, DialogLost(stack), Last(e.reports), Verified(u, kept, e.reports))
  BY DEF Use
<1>3. EffectOK(e, kept)
  BY <1>0, EffectsFacts
<1> HIDE DEF kept
<1> DEFINE reports == e.reports
<1>4. /\ e.sim \in Sim
      /\ reports \in Seq(BOOLEAN) \ {<< >>}
      /\ e.read \in Pin \cup {None}
      /\ All(reports) => kept \in {None, e.sim.secret}
  BY <1>3 DEF EffectOK
<1> DEFINE v == Verified(u, kept, reports)
           d == DialogLost(stack)
           l == Last(reports)
<1>5. /\ signals' = Announced(sim')
      /\ Len(signals') <= MaxSignals
      /\ UNCHANGED <<show, dangling, changes>>
  BY DEF Use
<1>6. /\ sim' = e.sim
      /\ view' = Reread(e, fails)
      /\ ui' = v
      /\ cbs' = IF ~All(reports) THEN (cbs \ {"code"}) \cup {"status"} ELSE cbs
      /\ idle' = sources \cup (IF ~All(reports) THEN Source("status") ELSE {})
      /\ frames' = Resumed(by, d, l, v)
  BY <1>2
<1> HIDE DEF reports
<1>7. /\ v \in CodeUi
      /\ ~v.dialog
      /\ v.note = u.note
      /\ v.state \in {"OK", u.state}
      /\ v.code = IF All(reports) THEN kept ELSE None
      /\ l => v.state = "OK" /\ v.status = "OK" /\ (show \/ v.ok)
      /\ ~l => v.status = "NO_SIM"
  BY <1>0, <1>1, <1>4, VerifiedFacts DEF Kin
<1>8. l \in BOOLEAN /\ (All(reports) => l)
  BY <1>4, AllSaysLast
<1>9. /\ d \in Seq(Frame)
      /\ Len(d) = Len(stack)
      /\ \A i \in 1..Len(stack) :
           /\ SameFrame(d[i], stack[i])
           /\ IsQuery(stack[i]) => d[i].home = stack[i].home /\ ~d[i].alive
  BY <1>0, DialogLostFacts
<1>10. Stack(d) /\ Within(d, stack)
  BY <1>0, StackDialogLost, WithinDialogLost
<1>a. stack = << >> <=> Len(stack) = 0
  BY <1>0
<1>b. d = << >> <=> Len(d) = 0
  BY <1>9
<1> HIDE DEF v, d, l
<1>11. by.for = "required" => d = << >> \/ ~ChangeCalls(d[1])
  BY <1>0, <1>9, <1>a, <1>b DEF SameFrame, ChangeCalls
<1>12. by.for # "required" => d # << >> /\ d[1].of = "repeat" /\ d[1].goal = by
  BY <1>0, <1>9, <1>a, <1>b DEF SameFrame
<1> DEFINE t == Resumed(by, d, l, v)
<1>13. /\ Stack(t)
       /\ Len(t) <= Len(d)
       /\ Within(t, d)
       /\ t # << >> => ~ChangeCalls(t[1])
  BY <1>8, <1>10, <1>11, <1>12, ResumedFacts
<1>14. frames' = t
  BY <1>6
<1> HIDE DEF t
<1>15. Within(frames', d) /\ Within(frames', frames)
  BY <1>10, <1>13, <1>14, WithinTrans
<1>16. ui' # None
  BY <1>6, <1>7, NoneAssumption
<1>17. view' \in SimData
  BY <1>0, <1>4, <1>6 DEF Reread, SimData
<1>18. idle' \subseteq {"status", "code"} /\ cbs' \subseteq {"status", "code"}
  BY <1>6 DEF Source, IInv, Types
<1>19. Types'
  <2>1. signals' \in Seq(Signal)
    BY <1>4, <1>5, <1>6, AnnouncedSeq DEF IInv, Types
  <2>. QED BY <1>4, <1>5, <1>6, <1>7, <1>17, <1>18, <2>1 DEF IInv, Types
<1>20. Bounds'
  <2>1. Len(frames') <= MaxDepth
    <3>1. Len(frames') \in Nat /\ Len(d) \in Nat /\ Len(frames) \in Nat
      BY <1>9, <1>13, <1>14 DEF Stack, IInv
    <3>. QED BY <1>9, <1>13, <1>14, <3>1, CodeUiAssumption DEF IInv, Bounds
  <2>. QED BY <1>5, <2>1 DEF IInv, Bounds
<1>21. Lifetimes'
  BY <1>16, <1>17, NoneAssumption DEF Lifetimes
<1>22. Roles'
  BY <1>5, <1>6, <1>7, <1>15, RolesKept DEF IInv, Roles, Kin
<1>23. DialogBelongsToQuery'
  <2>1. ASSUME NEW i \in 1..Len(frames')
        PROVE  ~(frames'[i].of = "query" /\ frames'[i].alive)
    <3>1. PICK j \in 1..Len(d) :
            /\ frames'[i].of = d[j].of
            /\ IsQuery(frames'[i]) => (frames'[i].alive => d[j].alive)
      BY <1>15 DEF Within
    <3>2. SameFrame(d[j], stack[j]) /\ (IsQuery(stack[j]) => ~d[j].alive)
      BY <1>9
    <3>. QED BY <3>1, <3>2 DEF IsQuery, SameFrame
  <2>2. ui'.dialog = FALSE
    BY <1>6, <1>7 DEF CodeUi
  <2>. QED BY <2>1, <2>2 DEF DialogBelongsToQuery
<1>24. KeptCodeIsThePin'
  BY <1>4, <1>6, <1>7 DEF KeptCodeIsThePin
<1>25. Told'
  BY <1>6, <1>7, <1>8 DEF Told, Settled
<1>26. Sure'
  <2>1. CASE show
    <3>1. \A i \in 1..Len(frames') : frames'[i].of \notin {"update", "repeat"}
      BY <1>15, <2>1 DEF IInv, Roles, Within
    <3>. QED BY <1>13, <1>14, <3>1, SureQuiet
  <2>2. CASE ~show /\ l
    BY <1>6, <1>7, <1>13, <1>14, <2>2, SureQuiet
  <2>3. CASE ~l
    <3>1. ui'.status # "OK" /\ "code" \notin cbs'
      BY <1>6, <1>7, <1>8, <2>3
    <3>. QED BY <1>13, <1>14, <3>1, SureQuiet
  <2>. QED BY <1>8, <2>1, <2>2, <2>3
<1>. QED BY <1>13, <1>14, <1>19, <1>20, <1>21, <1>22, <1>23, <1>24, <1>25, <1>26 DEF IInv
-----------------------------------------------------------------------------
(* The SIM status is told *)

LEMMA StateToldFacts ==
  ASSUME ui \in CodeUi, NEW s \in SimStatus
  PROVE  /\ StateTold(s) \in State
         /\ StateTold(s) = "NONE" => ui.state = "NONE"
         /\ StateTold(s) = "OK" => s = "OK" \/ ui.state = "OK"
         /\ s = "OK" => StateTold(s) = "OK"
BY DEF StateTold, State, Errors, CodeUi

LEMMA StatusFacts ==
  ASSUME NEW d \in SimData
  PROVE  Status(d) \in SimStatus
BY DEF Status, SimStatus, SimData, Pin, CodeRequired

(* Functions above or below change nothing for the dialog on the screen.   *)
LEMMA DialogTail ==
  ASSUME Stack(frames), DialogBelongsToQuery, frames # << >>, ~Alive(frames[1]),
         ui # None, ui'.dialog = ui.dialog, frames' = Tail(frames)
  PROVE  DialogBelongsToQuery'
<1>1. /\ frames \in Seq(Frame)
      /\ Len(frames) \in Nat \ {0}
      /\ Len(frames') = Len(frames) - 1
      /\ \A i \in 1..(Len(frames) - 1) : frames'[i] = frames[i + 1]
  BY TailFacts DEF Stack
<1>2. \A i \in 1..Len(frames') : i + 1 \in 1..Len(frames) /\ frames'[i] = frames[i + 1]
  BY <1>1
<1>3. ASSUME NEW i \in 1..Len(frames), Alive(frames[i])
      PROVE  \E k \in 1..Len(frames') : Alive(frames'[k])
  <2>1. i # 1
    BY <1>3
  <2>2. i - 1 \in 1..Len(frames') /\ (i - 1) + 1 = i
    BY <1>1, <2>1
  <2>. QED BY <1>2, <1>3, <2>2
<1>4. (\E i \in 1..Len(frames) : Alive(frames[i])) <=> \E k \in 1..Len(frames') : Alive(frames'[k])
  BY <1>2, <1>3
<1>. QED BY <1>4 DEF DialogBelongsToQuery, Alive

LEMMA DialogPush ==
  ASSUME NEW s \in Seq(Frame), Len(s) = Len(frames), DialogBelongsToQuery,
         \A i \in 1..Len(s) : Alive(s[i]) <=> Alive(frames[i]),
         NEW f \in Frame, ~Alive(f), ui # None, ui'.dialog = ui.dialog, frames' = <<f>> \o s
  PROVE  DialogBelongsToQuery'
<1>1. /\ Len(s) \in Nat
      /\ Len(frames') = Len(s) + 1
      /\ frames'[1] = f
      /\ \A i \in 1..Len(s) : frames'[i + 1] = s[i]
  BY PushFacts
<1>2. \A i \in 1..Len(s) : i + 1 \in 1..Len(frames') /\ frames'[i + 1] = s[i]
  BY <1>1
<1>3. ASSUME NEW i \in 1..Len(frames'), Alive(frames'[i])
      PROVE  \E k \in 1..Len(s) : Alive(s[k])
  <2>1. i # 1
    BY <1>1, <1>3
  <2>2. i - 1 \in 1..Len(s) /\ (i - 1) + 1 = i
    BY <1>1, <2>1
  <2>. QED BY <1>2, <1>3, <2>2
<1>4. (\E i \in 1..Len(frames) : Alive(frames[i])) <=> \E k \in 1..Len(frames') : Alive(frames'[k])
  BY <1>2, <1>3
<1>. QED BY <1>4 DEF DialogBelongsToQuery, Alive

LEMMA DialogSame ==
  ASSUME Len(frames') = Len(frames), DialogBelongsToQuery,
         \A i \in 1..Len(frames) : Alive(frames'[i]) <=> Alive(frames[i]),
         ui # None, ui'.dialog = ui.dialog
  PROVE  DialogBelongsToQuery'
BY DEF DialogBelongsToQuery, Alive

LEMMA StatusToldIInv ==
  ASSUME IInv, InMainLoop, NEW s \in SimStatus,
         s = "OK" => view' # None /\ Status(view') = "OK",
         view' \in SimData \cup {None},
         NEW stack, Stack(stack), Len(stack) = Len(frames), Within(stack, frames),
         \A i \in 1..Len(frames) :
           /\ SameFrame(stack[i], frames[i])
           /\ IsQuery(frames[i]) => stack[i].alive = frames[i].alive,
         NEW sources, sources \subseteq {"status", "code"},
         view' = None => sources = {} /\ \A i \in 1..Len(stack) : IsQuery(stack[i]) => ~stack[i].home,
         sim' = sim, show' = show, dangling' = dangling,
         signals' \in Seq(Signal), Len(signals') <= MaxSignals, changes' \in 0..MaxChanges,
         StatusTold(s, sources, stack)
  PROVE  IInv'
<1>0. /\ stack \in Seq(Frame)
      /\ frames \in Seq(Frame)
      /\ ui \in CodeUi \cup {None}
      /\ cbs \subseteq {"status", "code"}
      /\ Len(frames) <= MaxDepth
      /\ stack = << >> <=> frames = << >>
  BY DEF Stack, IInv, Types, Bounds
<1>1. \A i \in 1..Len(frames) : Alive(stack[i]) <=> Alive(frames[i])
  BY DEF Alive, SameFrame, IsQuery
<1>2. frames # << >> =>
        /\ Head(stack) = stack[1] /\ Top = frames[1] /\ SameFrame(stack[1], frames[1])
        /\ 1 \in 1..Len(frames)
  <2>1. ASSUME frames # << >>
        PROVE  1 \in 1..Len(frames) /\ Head(stack) = stack[1] /\ Top = frames[1]
    BY <1>0, <2>1, TailFacts DEF Top
  <2>. QED BY <2>1
<1> DEFINE u == [ui EXCEPT !.status = s, !.state = StateTold(s), !.timer = WaitsForBetter(s)]
           returns == WaitsForBetter(s) \/ (s = "OK" /\ ui.note)
<1>3. \/ /\ "status" \notin cbs
         /\ idle' = sources
         /\ frames' = stack
         /\ UNCHANGED <<cbs, ui>>
      \/ /\ "status" \in cbs
         /\ returns
         /\ ui' = u
         /\ idle' = sources
         /\ frames' = stack
         /\ UNCHANGED cbs
      \/ /\ "status" \in cbs
         /\ ~returns
         /\ StatusSeen(u, sources)
         /\ frames' = stack
      \/ /\ "status" \in cbs
         /\ show
         /\ Len(stack) < MaxDepth
         /\ ui' = [u EXCEPT !.note = TRUE]
         /\ frames' = << [of |-> "note"] >> \o stack
         /\ idle' = sources
         /\ UNCHANGED cbs
  BY DEF StatusTold
<1>4. "status" \in cbs => ui \in CodeUi /\ ui # None
  BY <1>0, NoneAssumption DEF IInv, Lifetimes
<1>5. ASSUME "status" \in cbs
      PROVE  /\ u \in CodeUi
             /\ u.status = s /\ u.state = StateTold(s)
             /\ u.code = ui.code /\ u.dialog = ui.dialog /\ u.note = ui.note /\ u.ok = ui.ok
  <2>1. StateTold(s) \in State /\ WaitsForBetter(s) \in BOOLEAN
    BY <1>4, <1>5, StateToldFacts DEF WaitsForBetter
  <2>. QED BY <1>4, <1>5, <2>1 DEF CodeUi
<1>6. ASSUME "status" \in cbs
      PROVE  /\ StateTold(s) = "NONE" => ui.state = "NONE"
             /\ StateTold(s) = "OK" => s = "OK" \/ ui.state = "OK"
             /\ s = "OK" => StateTold(s) = "OK"
  BY <1>4, <1>6, StateToldFacts
<1> HIDE DEF u
<1>7. CASE "status" \notin cbs /\ idle' = sources /\ frames' = stack /\ UNCHANGED <<cbs, ui>>
  <2>1. Types'
    BY <1>7 DEF IInv, Types
  <2>2. Bounds'
    BY <1>0, <1>7 DEF Bounds
  <2>3. Lifetimes'
    BY <1>0, <1>7 DEF IInv, Lifetimes
  <2>4. Roles'
    <3>1. CASE ui = None
      BY <1>7, <3>1 DEF Roles
    <3>2. CASE ui # None
      BY <1>7, <3>2, RolesKept DEF IInv, Roles
    <3>. QED BY <3>1, <3>2
  <2>5. DialogBelongsToQuery'
    <3>1. CASE ui = None
      BY <1>7, <3>1 DEF DialogBelongsToQuery
    <3>2. CASE ui # None
      BY <1>1, <1>7, <3>2, DialogSame DEF IInv
    <3>. QED BY <3>1, <3>2
  <2>6. KeptCodeIsThePin'
    BY <1>7 DEF IInv, KeptCodeIsThePin
  <2>7. Told'
    BY <1>0, <1>2, <1>7 DEF IInv, Told, In, Top, SameFrame, Settled
  <2>8. Sure'
    <3>1. CASE frames = << >>
      BY <1>0, <1>7, <3>1 DEF Sure, ChangeWaits, ChangeUpdates, In
    <3>2. CASE frames # << >>
      <4>1. Top' = stack[1] /\ SameFrame(stack[1], Top)
        BY <1>2, <1>7, <3>2 DEF Top
      <4>2. ChangeWaits' => Top.of = "repeat" /\ Top.goal.for = "change"
        BY <4>1 DEF ChangeWaits, In, SameFrame
      <4>3. ChangeWaits' => ui.status # "OK"
        BY <3>2, <4>2 DEF InMainLoop, MustReturn, In
      <4>4. ChangeUpdates' => ui.state # "OK"
        BY <3>2, <4>1 DEF ChangeUpdates, InMainLoop, MustReturn, In, SameFrame, Settled
      <4>5. ~ChangeCalls(Top)'
        BY <3>2, <4>1 DEF ChangeCalls, InMainLoop, MustReturn, In, SameFrame
      <4>. QED BY <1>7, <4>3, <4>4, <4>5 DEF Sure
    <3>. QED BY <3>1, <3>2
  <2>. QED BY <1>7, <2>1, <2>2, <2>3, <2>4, <2>5, <2>6, <2>7, <2>8 DEF IInv
<1>8. ASSUME "status" \in cbs, frames' = stack, ui' = u,
             \/ returns /\ idle' = sources /\ cbs' = cbs
             \/ ~returns /\ StatusSeen(u, sources)
      PROVE  IInv'
  <2>0. /\ u \in CodeUi
        /\ u.status = s /\ u.state = StateTold(s)
        /\ u.code = ui.code /\ u.dialog = ui.dialog /\ u.note = ui.note /\ u.ok = ui.ok
        /\ ui # None
        /\ u # None
    BY <1>4, <1>5, <1>8, NoneAssumption
  <2>1. idle' \subseteq {"status", "code"} /\ (view' = None => idle' = {})
    BY <1>8 DEF StatusSeen, Source
  <2>2. cbs' \subseteq {"status", "code"} /\ (~Failed(u) => cbs' # {})
    BY <1>0, <1>8 DEF StatusSeen
  <2>3. Types'
    BY <1>8, <2>0, <2>1, <2>2 DEF IInv, Types
  <2>4. Bounds'
    BY <1>0, <1>8 DEF Bounds
  <2>5. Lifetimes'
    BY <1>8, <2>0, <2>1 DEF Lifetimes
  <2>6. Roles'
    BY <1>6, <1>8, <2>0, RolesKept DEF IInv, Roles
  <2>7. DialogBelongsToQuery'
    BY <1>1, <1>8, <2>0, DialogSame DEF IInv
  <2>8. KeptCodeIsThePin'
    BY <1>8, <2>0 DEF IInv, KeptCodeIsThePin
  <2>9. Told'
    BY <1>8, <2>2 DEF Told, Settled, Failed
  <2>10. ASSUME s = "OK", ~show
         PROVE  SaysOK'
    <3>1. ~returns
      BY <2>0, <2>10 DEF WaitsForBetter, IInv, Roles
    <3>2. u.state = "OK"
      BY <1>6, <1>8, <2>0, <2>10
    <3>3. ~Failed(u)
      BY <3>2 DEF Failed, Errors
    <3>4. "code" \in cbs'
      BY <1>8, <3>1, <3>3 DEF StatusSeen
    <3>. QED BY <2>10, <3>4 DEF SaysOK
  <2>11. Sure'
    <3>1. CASE frames = << >>
      BY <1>0, <1>8, <3>1 DEF Sure, ChangeWaits, ChangeUpdates, In
    <3>2. CASE frames # << >>
      <4>1. Top' = stack[1] /\ SameFrame(stack[1], Top)
        BY <1>2, <1>8, <3>2 DEF Top
      <4>2. Top.of \in {"update", "repeat"} => ~show
        BY <1>2, <2>0, <3>2 DEF IInv, Roles
      <4>3. ChangeWaits' /\ ui'.status = "OK" => SaysOK'
        BY <1>8, <2>0, <2>10, <4>1, <4>2 DEF ChangeWaits, In, SameFrame
      <4>4. ChangeUpdates' /\ ui'.state = "OK" => SaysOK'
        <5>1. ChangeUpdates' => ui.state # "OK" /\ ~show
          BY <3>2, <4>1, <4>2 DEF ChangeUpdates, InMainLoop, MustReturn, In, SameFrame, Settled
        <5>. QED BY <1>6, <1>8, <2>0, <2>10, <5>1
      <4>5. ChangeUpdates' /\ ui'.state = "OK" => Certain'
        <5>1. ChangeUpdates' => ui.state # "OK"
          BY <3>2, <4>1 DEF ChangeUpdates, InMainLoop, MustReturn, In, SameFrame, Settled
        <5>2. ChangeUpdates' /\ ui'.state = "OK" => ui'.status = "OK"
          BY <1>6, <1>8, <2>0, <5>1
        <5>. QED BY <4>4, <5>2 DEF Certain
      <4>6. ~ChangeCalls(Top)'
        BY <3>2, <4>1 DEF ChangeCalls, InMainLoop, MustReturn, In, SameFrame
      <4>. QED BY <4>3, <4>5, <4>6 DEF Sure
    <3>. QED BY <3>1, <3>2
  <2>. QED BY <1>8, <2>3, <2>4, <2>5, <2>6, <2>7, <2>8, <2>9, <2>11 DEF IInv
<1>9. CASE /\ "status" \in cbs
           /\ show
           /\ Len(stack) < MaxDepth
           /\ ui' = [u EXCEPT !.note = TRUE]
           /\ frames' = << [of |-> "note"] >> \o stack
           /\ idle' = sources
           /\ UNCHANGED cbs
  <2>0. /\ ui' \in CodeUi
        /\ ui'.code = ui.code /\ ui'.dialog = ui.dialog
        /\ ui # None
        /\ ui' # None
    <3>1. ui' \in CodeUi /\ ui'.code = u.code /\ ui'.dialog = u.dialog
      BY <1>5, <1>9 DEF CodeUi
    <3>. QED BY <1>4, <1>5, <1>9, <3>1, NoneAssumption
  <2> DEFINE n == [of |-> "note"]
  <2>1. n \in Frame /\ n.of = "note"
    BY DEF Frame, Wait
  <2> HIDE DEF n
  <2>2. /\ frames' = <<n>> \o stack
        /\ frames' \in Seq(Frame)
        /\ Len(frames') = Len(stack) + 1
        /\ frames'[1] = n
        /\ \A i \in 1..Len(stack) : frames'[i + 1] = stack[i]
        /\ Head(frames') = n
        /\ frames' # << >>
    BY <1>0, <1>9, <2>1, PushFacts DEF n
  <2>3. \A i \in 1..Len(frames') : i # 1 => i - 1 \in 1..Len(stack) /\ frames'[i] = stack[i - 1]
    <3> SUFFICES ASSUME NEW i \in 1..Len(frames'), i # 1
                 PROVE  i - 1 \in 1..Len(stack) /\ frames'[i] = stack[i - 1]
      OBVIOUS
    <3>1. i - 1 \in 1..Len(stack) /\ (i - 1) + 1 = i
      BY <1>0, <2>2
    <3>2. frames'[(i - 1) + 1] = stack[i - 1]
      BY <2>2, <3>1
    <3>. QED BY <3>1, <3>2
  <2>4. \A i \in 1..Len(stack) : stack[i].of \notin {"update", "repeat"}
    BY <1>9, <2>0 DEF IInv, Roles, Within
  <2>5. Types'
    BY <1>9, <2>0 DEF IInv, Types
  <2>6. Bounds'
    <3>1. Len(frames') <= MaxDepth
      BY <1>0, <1>9, <2>2, CodeUiAssumption
    <3>. QED BY <3>1 DEF Bounds
  <2>7. Lifetimes'
    <3>1. ASSUME view' = None, NEW i \in 1..Len(frames'), IsQuery(frames'[i])
          PROVE  ~frames'[i].home
      <4>1. i # 1
        BY <2>1, <2>2, <3>1 DEF IsQuery
      <4>. QED BY <2>3, <3>1, <4>1
    <3>. QED BY <1>9, <2>0, <3>1 DEF Lifetimes
  <2>8. Roles'
    <3>1. ASSUME NEW i \in 1..Len(frames')
          PROVE  frames'[i].of \notin {"update", "repeat"}
      <4>1. CASE i = 1
        BY <2>1, <2>2, <4>1
      <4>2. CASE i # 1
        BY <2>3, <2>4, <4>2
      <4>. QED BY <4>1, <4>2
    <3>. QED BY <1>9, <3>1 DEF Roles
  <2>9. DialogBelongsToQuery'
    <3>1. ~Alive(n)
      BY <2>1 DEF Alive
    <3>. QED BY <1>0, <1>1, <2>0, <2>1, <2>2, <3>1, DialogPush DEF IInv
  <2>10. KeptCodeIsThePin'
    BY <2>0 DEF IInv, KeptCodeIsThePin
  <2>11. Told'
    BY <1>9 DEF Told
  <2>12. Sure'
    <3>1. Top'.of = "note"
      BY <2>1, <2>2 DEF Top
    <3>. QED BY <2>2, <3>1, SureQuery
  <2>13. Stack(frames')
    <3>1. QueryOK(n) /\ ~IsQuery(n) /\ ~Alive(n) /\ n.of # "init"
      BY <2>1 DEF QueryOK, IsQuery, Alive
    <3>2. stack # << >> => ~ChangeCalls(stack[1])
      <4>1. stack # << >> => 1 \in 1..Len(stack)
        BY <1>0
      <4>. QED BY <2>4, <4>1 DEF ChangeCalls
    <3>. QED BY <2>1, <2>2, <3>1, <3>2, StackPush
  <2>. QED BY <2>5, <2>6, <2>7, <2>8, <2>9, <2>10, <2>11, <2>12, <2>13 DEF IInv
<1>. QED BY <1>3, <1>7, <1>8, <1>9 DEF StatusSeen
-----------------------------------------------------------------------------
(* Every action keeps the invariant. *)

LEMMA IInvUi ==
  ASSUME IInv
  PROVE  /\ ui # None => ui \in CodeUi
         /\ view # None => view \in SimData
         /\ cbs # {} => ui # None
         /\ idle # {} => view # None
         /\ frames # << >> => ui # None
         /\ frames \in Seq(Frame) /\ Stack(frames)
BY DEF IInv, Types, Lifetimes, Stack

(* The innermost function. *)
LEMMA TopFacts ==
  ASSUME IInv, frames # << >>
  PROVE  /\ Top = frames[1] /\ 1 \in 1..Len(frames)
         /\ Top \in Frame /\ QueryOK(Top)
         /\ Stack(Tail(frames)) /\ Within(Tail(frames), frames)
         /\ Len(Tail(frames)) <= Len(frames)
         /\ Tail(frames) # << >> => 2 \in 1..Len(frames) /\ Tail(frames)[1] = frames[2]
         /\ IsQuery(Top) /\ Top.by.for # "required" =>
              Tail(frames) # << >> /\ Called(Tail(frames)[1], Top)
         /\ Tail(frames) # << >> /\ ChangeCalls(Tail(frames)[1]) => ChangeAsked(Top)
         /\ Top.of = "init" => Tail(frames) = << >>
<1>1. frames \in Seq(Frame) /\ Stack(frames)
  BY IInvUi
<1>2. /\ Tail(frames) \in Seq(Frame)
      /\ Len(frames) \in Nat \ {0}
      /\ Len(Tail(frames)) = Len(frames) - 1
      /\ \A i \in 1..(Len(frames) - 1) : Tail(frames)[i] = frames[i + 1]
      /\ Head(frames) = frames[1]
  BY <1>1, TailFacts
<1>3. Top = frames[1] /\ 1 \in 1..Len(frames) /\ Top \in Frame
  BY <1>1, <1>2 DEF Top
<1>4. QueryOK(Top)
  BY <1>1, <1>3 DEF Stack
<1>5. Stack(Tail(frames)) /\ Within(Tail(frames), frames)
  BY <1>1, StackTail, WithinTail
<1> DEFINE t == Tail(frames)
<1>6. t = << >> <=> Len(frames) = 1
  BY <1>2
<1> HIDE DEF t
<1>7. t # << >> => 2 \in 1..Len(frames) /\ t[1] = frames[2]
  <2>1. ASSUME t # << >>
        PROVE  1 \in 1..(Len(frames) - 1) /\ 1 + 1 = 2 /\ 2 \in 1..Len(frames)
    BY <1>2, <1>6, <2>1
  <2>. QED BY <1>2, <2>1 DEF t
<1>8. IsQuery(Top) /\ Top.by.for # "required" => t # << >> /\ Called(t[1], Top)
  <2>1. ASSUME IsQuery(Top), Top.by.for # "required"
        PROVE  1 < Len(frames) /\ Called(frames[1 + 1], frames[1])
    BY <1>1, <1>3, <2>1 DEF Stack
  <2>. QED BY <1>2, <1>3, <1>6, <1>7, <2>1
<1>9. t # << >> /\ ChangeCalls(t[1]) => ChangeAsked(Top)
  <2>1. ASSUME t # << >>, ChangeCalls(t[1])
        PROVE  ChangeAsked(frames[2 - 1])
    BY <1>1, <1>7, <2>1 DEF Stack
  <2>. QED BY <1>3, <2>1
<1>10. Top.of = "init" => t = << >>
  <2>1. Top.of = "init" => 1 = Len(frames)
    BY <1>1, <1>3 DEF Stack
  <2>. QED BY <1>6, <2>1
<1>11. Len(Tail(frames)) <= Len(frames)
  BY <1>2
<1>. QED BY <1>3, <1>4, <1>5, <1>7, <1>8, <1>9, <1>10, <1>11 DEF t

LEMMA EmptyStack ==
  /\ Stack(<< >>)
  /\ << >> \in Seq(Frame)
  /\ Len(<< >>) = 0
  /\ \A i \in 1..Len(<< >>) : FALSE
<1>1. << >> \in Seq(Frame) /\ Len(<< >>) = 0
  OBVIOUS
<1>2. 1..0 = {}
  OBVIOUS
<1>3. 1..Len(<< >>) = {}
  BY <1>1, <1>2
<1>. QED BY <1>1, <1>3 DEF Stack

LEMMA FreshView ==
  ASSUME NEW s \in Sim
  PROVE  [present |-> s.present, pin |-> s.pin] \in SimData
BY DEF Sim, SimData

LEMMA InitIInv == Init => IInv
<1> SUFFICES ASSUME Init
             PROVE  IInv
  OBVIOUS
<1>0. /\ sim \in Sim
      /\ signals = << >> /\ view = [present |-> sim.present, pin |-> sim.pin]
      /\ idle = {} /\ cbs = {} /\ show = FALSE /\ ui = None /\ dangling = FALSE
      /\ frames = << >> /\ changes = 0
  <2>1. MaxTries \in 0..MaxTries
    BY CodeUiAssumption
  <2>. QED BY <2>1 DEF Init, Sim, Pin
<1>1. Types
  <2>1. << >> \in Seq(Signal)
    OBVIOUS
  <2>. QED BY <1>0, <2>1, FreshView DEF Types
<1>2. Bounds
  BY <1>0, CodeUiAssumption DEF Bounds
<1>3. Stack(frames)
  BY <1>0, EmptyStack
<1>4. Lifetimes
  BY <1>0, FreshView, NoneAssumption DEF Lifetimes
<1>. QED BY <1>0, <1>1, <1>2, <1>3, <1>4
         DEF IInv, Roles, DialogBelongsToQuery, KeptCodeIsThePin, Told, Sure, ChangeWaits,
             ChangeUpdates, In

(* A process that ends leaves nothing but the SIM. *)
LEMMA ProcessEndsIInv ==
  ASSUME IInv, ProcessEnds
  PROVE  IInv'
<1>0. /\ signals' = << >> /\ view' = [present |-> sim.present, pin |-> sim.pin]
      /\ idle' = {} /\ cbs' = {} /\ ui' = None /\ dangling' = FALSE
      /\ frames' = << >> /\ UNCHANGED <<sim, show, changes>>
  BY DEF ProcessEnds
<1>1. Types'
  <2>1. << >> \in Seq(Signal)
    OBVIOUS
  <2>. QED BY <1>0, <2>1, FreshView DEF IInv, Types
<1>2. Bounds'
  <2>1. Len(signals') = 0 /\ Len(frames') = 0
    BY <1>0
  <2>2. 0 <= MaxSignals /\ 0 <= MaxDepth
    BY CodeUiAssumption
  <2>. QED BY <1>0, <2>1, <2>2 DEF IInv, Bounds
<1>3. Stack(frames')
  BY <1>0, EmptyStack
<1>4. Lifetimes'
  BY <1>0, FreshView, NoneAssumption DEF IInv, Types, Lifetimes
<1>. QED BY <1>0, <1>1, <1>2, <1>3, <1>4
         DEF IInv, Roles, DialogBelongsToQuery, KeptCodeIsThePin, Told, Sure, ChangeWaits,
             ChangeUpdates, In

(* A step that leaves the functions and the code UI alone, and the SIM     *)
(* manager's view unless the main loop runs.                               *)
LEMMA ElsewhereIInv ==
  ASSUME IInv, Types', Bounds', view = None <=> view' = None,
         sim'.secret = sim.secret, idle' \subseteq idle \/ view' # None,
         UNCHANGED <<cbs, show, ui, frames>>,
         InMainLoop \/ UNCHANGED view
  PROVE  IInv'
<1>0. Stack(frames)
  BY IInvUi
<1>1. Lifetimes'
  BY DEF IInv, Lifetimes
<1>2. Roles' /\ DialogBelongsToQuery' /\ KeptCodeIsThePin' /\ Told'
  BY DEF IInv, Roles, DialogBelongsToQuery, KeptCodeIsThePin, Told, In, Top, Settled
<1>3. Sure'
  <2>1. CASE UNCHANGED view
    BY <2>1 DEF IInv, Sure, ChangeWaits, ChangeUpdates, In, Top, Certain, SaysOK, Failed
  <2>2. CASE InMainLoop
    <3>1. ChangeWaits => ui.status # "OK"
      BY <2>2 DEF ChangeWaits, InMainLoop, MustReturn
    <3>2. ChangeUpdates => ui.state # "OK"
      BY <2>2 DEF ChangeUpdates, InMainLoop, MustReturn, Settled
    <3>3. frames # << >> => ~ChangeCalls(Top)
      BY <2>2 DEF ChangeCalls, InMainLoop, MustReturn, In
    <3>. QED BY <3>1, <3>2, <3>3 DEF Sure, ChangeWaits, ChangeUpdates, In, Top
  <2>. QED BY <2>1, <2>2
<1>. QED BY <1>0, <1>1, <1>2, <1>3 DEF IInv

LEMMA SimChangesIInv ==
  ASSUME IInv, SimChanges
  PROVE  IInv'
<1>0. PICK present \in BOOLEAN, pin \in Pin :
        sim' = [sim EXCEPT !.present = present, !.pin = pin, !.left = MaxTries]
  BY DEF SimChanges
<1>1. sim \in Sim
  BY DEF IInv, Types
<1>2. sim' \in Sim /\ sim'.secret = sim.secret
  <2>1. MaxTries \in 0..MaxTries
    BY CodeUiAssumption
  <2>2. sim' = [[[sim EXCEPT !.present = present] EXCEPT !.pin = pin] EXCEPT !.left = MaxTries]
    BY <1>0, <1>1 DEF Sim
  <2>. QED BY <1>1, <2>1, <2>2 DEF Sim
<1>3. signals' \in Seq(Signal)
  BY <1>2, AnnouncedSeq DEF SimChanges, IInv, Types
<1>4. Types'
  BY <1>2, <1>3 DEF SimChanges, IInv, Types
<1>5. Bounds'
  <2>1. changes' \in 0..MaxChanges
    BY CodeUiAssumption DEF SimChanges, IInv, Bounds
  <2>. QED BY <2>1 DEF SimChanges, IInv, Bounds
<1>. QED BY <1>2, <1>4, <1>5, ElsewhereIInv DEF SimChanges

LEMMA SignalDispatchedIInv ==
  ASSUME IInv, SignalDispatched
  PROVE  IInv'
<1>1. /\ signals \in Seq(Signal) /\ signals # << >> /\ view \in SimData
      /\ signals' = Tail(signals)
  BY DEF SignalDispatched, IInv, Types
<1>2. Head(signals) \in Signal
  BY <1>1
<1>3. signals' \in Seq(Signal) /\ Len(signals') = Len(signals) - 1 /\ Len(signals) \in Nat
  BY <1>1
<1>4. view' \in SimData
  <2> DEFINE s == Head(signals)
  <2>1. view' = IF s.name = "Present" THEN [view EXCEPT !.present = s.present]
                ELSE [view EXCEPT !.pin = s.pin]
    BY DEF SignalDispatched
  <2> HIDE DEF s
  <2>2. s.name = "Present" => s.present \in BOOLEAN
    BY <1>2 DEF s, Signal
  <2>3. s.name # "Present" => s.pin \in Pin
    BY <1>2 DEF s, Signal
  <2>4. CASE s.name = "Present"
    BY <1>1, <2>1, <2>2, <2>4 DEF SimData
  <2>5. CASE s.name # "Present"
    BY <1>1, <2>1, <2>3, <2>5 DEF SimData
  <2>. QED BY <2>4, <2>5
<1>5. view # None /\ view' # None
  BY <1>1, <1>4, NoneAssumption
<1>6. Types'
  BY <1>3, <1>4 DEF SignalDispatched, IInv, Types
<1>7. Bounds'
  <2>1. Len(signals') <= MaxSignals
    BY <1>3, CodeUiAssumption DEF IInv, Bounds
  <2>. QED BY <2>1 DEF SignalDispatched, IInv, Bounds
<1>. QED BY <1>5, <1>6, <1>7, ElsewhereIInv DEF SignalDispatched

LEMMA SimManagerComesIInv ==
  ASSUME IInv, SimManagerComes
  PROVE  IInv'
<1>1. view = None /\ InMainLoop
  BY DEF SimManagerComes
<1>2. view' \in SimData
  <2>1. [present |-> FALSE, pin |-> "unknown"] \in SimData
    BY DEF SimData
  <2>. QED BY <2>1, FreshView DEF SimManagerComes, IInv, Types
<1>3. view' # None
  BY <1>2, NoneAssumption
<1>4. Types'
  BY <1>2 DEF SimManagerComes, IInv, Types
<1>5. Bounds'
  BY DEF SimManagerComes, IInv, Bounds
<1>6. UNCHANGED <<sim, signals, cbs, show, ui, dangling, frames, changes>>
  BY DEF SimManagerComes
<1>7. Lifetimes'
  BY <1>3, <1>6 DEF IInv, Lifetimes
<1>8. Roles' /\ DialogBelongsToQuery' /\ KeptCodeIsThePin' /\ Told' /\ Stack(frames')
  BY <1>6 DEF IInv, Roles, DialogBelongsToQuery, KeptCodeIsThePin, Told, In, Top, Settled
<1>9. Sure'
  <2>1. ChangeWaits => ui.status # "OK"
    BY <1>1 DEF ChangeWaits, InMainLoop, MustReturn
  <2>2. ChangeUpdates => ui.state # "OK"
    BY <1>1 DEF ChangeUpdates, InMainLoop, MustReturn, Settled
  <2>3. frames # << >> => ~ChangeCalls(Top)
    BY <1>1 DEF ChangeCalls, InMainLoop, MustReturn, In
  <2>. QED BY <1>6, <2>1, <2>2, <2>3 DEF Sure, ChangeWaits, ChangeUpdates, In, Top
<1>. QED BY <1>4, <1>5, <1>7, <1>8, <1>9 DEF IInv

LEMMA SimManagerGoesIInv ==
  ASSUME IInv, SimManagerGoes
  PROVE  IInv'
<1> DEFINE stack == DataLost(frames)
<1>1. /\ InMainLoop /\ view' = None /\ signals' = << >>
      /\ StatusTold("UNKNOWN", {}, stack)
      /\ UNCHANGED <<sim, show, dangling>>
  BY DEF SimManagerGoes
<1>2. changes' \in 0..MaxChanges
  BY CodeUiAssumption DEF SimManagerGoes, IInv, Bounds
<1>3. frames \in Seq(Frame) /\ Stack(stack)
  BY StackDataLost, IInvUi
<1>4. /\ Len(stack) = Len(frames)
      /\ \A i \in 1..Len(frames) :
           /\ SameFrame(stack[i], frames[i])
           /\ IsQuery(frames[i]) => /\ stack[i].alive = frames[i].alive
                                    /\ ~stack[i].home
  BY <1>3, DataLostFacts
<1> HIDE DEF stack
<1>5. Within(stack, frames)
  BY <1>4 DEF Within, SameFrame, IsQuery
<1>6. \A i \in 1..Len(stack) : IsQuery(stack[i]) => ~stack[i].home
  BY <1>4 DEF SameFrame, IsQuery
<1>7. signals' \in Seq(Signal) /\ Len(signals') <= MaxSignals
  BY <1>1, CodeUiAssumption
<1> DEFINE s == "UNKNOWN"
<1>8. s \in SimStatus /\ s # "OK" /\ StatusTold(s, {}, stack)
  BY <1>1 DEF SimStatus
<1> HIDE DEF s
<1>9. {} \subseteq {"status", "code"}
  OBVIOUS
<1> DEFINE none == {}
<1>10. none \subseteq {"status", "code"} /\ none = {} /\ StatusTold(s, none, stack)
  BY <1>8
<1> HIDE DEF none
<1>. QED BY <1>1, <1>2, <1>3, <1>4, <1>5, <1>6, <1>7, <1>8, <1>10, StatusToldIInv

LEMMA IdleStatusIInv ==
  ASSUME IInv, IdleStatus
  PROVE  IInv'
<1> DEFINE s == Status(view)
           sources == idle \ {"status"}
<1>1. /\ InMainLoop /\ view' = view /\ StatusTold(s, sources, frames)
      /\ UNCHANGED <<sim, signals, show, dangling, changes>>
      /\ "status" \in idle
  BY DEF IdleStatus
<1>2. view \in SimData /\ view # None /\ Stack(frames)
  BY <1>1, IInvUi
<1>3. s \in SimStatus /\ (s = "OK" => Status(view') = "OK")
  BY <1>1, <1>2, StatusFacts
<1>4. sources \subseteq {"status", "code"}
  BY DEF IInv, Types
<1> HIDE DEF s, sources
<1>5. /\ signals' \in Seq(Signal) /\ Len(signals') <= MaxSignals /\ changes' \in 0..MaxChanges
      /\ view' \in SimData \cup {None}
  BY <1>1 DEF IInv, Types, Bounds
<1>6. \A i \in 1..Len(frames) : SameFrame(frames[i], frames[i])
  BY DEF SameFrame
<1> DEFINE stack == frames
<1>7. /\ Stack(stack) /\ Len(stack) = Len(frames) /\ Within(stack, frames)
      /\ StatusTold(s, sources, stack)
      /\ \A i \in 1..Len(frames) :
           /\ SameFrame(stack[i], frames[i])
           /\ IsQuery(frames[i]) => stack[i].alive = frames[i].alive
  BY <1>1, <1>2, <1>6, WithinSelf
<1> HIDE DEF stack
<1>. QED BY <1>1, <1>2, <1>3, <1>4, <1>5, <1>7, StatusToldIInv

(* Dialogs are neither opened nor closed by a function that goes on.       *)
SomeAlive(s) == \E i \in 1..Len(s) : Alive(s[i])

LEMMA DialogIff ==
  ASSUME ui # None
  PROVE  DialogBelongsToQuery <=> ui.dialog = SomeAlive(frames)
BY DEF DialogBelongsToQuery, SomeAlive, Alive

LEMMA DialogKept ==
  ASSUME DialogBelongsToQuery, ui # None, ui'.dialog = ui.dialog,
         SomeAlive(frames') <=> SomeAlive(frames)
  PROVE  DialogBelongsToQuery'
BY DEF DialogBelongsToQuery, SomeAlive, Alive

LEMMA AliveTail ==
  ASSUME NEW s \in Seq(Frame), s # << >>, ~Alive(s[1])
  PROVE  SomeAlive(Tail(s)) <=> SomeAlive(s)
<1>1. /\ Len(s) \in Nat \ {0}
      /\ Len(Tail(s)) = Len(s) - 1
      /\ \A i \in 1..(Len(s) - 1) : Tail(s)[i] = s[i + 1]
  BY TailFacts
<1> DEFINE t == Tail(s)
<1> HIDE DEF t
<1>2. \A i \in 1..Len(t) : i + 1 \in 1..Len(s) /\ t[i] = s[i + 1]
  BY <1>1 DEF t
<1>3. ASSUME NEW i \in 1..Len(s), Alive(s[i])
      PROVE  \E k \in 1..Len(t) : Alive(t[k])
  <2>1. i # 1
    BY <1>3
  <2>2. i - 1 \in 1..Len(t) /\ (i - 1) + 1 = i
    BY <1>1, <2>1 DEF t
  <2>. QED BY <1>2, <1>3, <2>2
<1>4. SomeAlive(t) <=> SomeAlive(s)
  BY <1>2, <1>3 DEF SomeAlive
<1>. QED BY <1>4 DEF t

LEMMA AliveTop ==
  ASSUME NEW s \in Seq(Frame), s # << >>, ~Alive(s[1]), NEW f \in Frame, ~Alive(f)
  PROVE  SomeAlive([s EXCEPT ![1] = f]) <=> SomeAlive(s)
<1> DEFINE t == [s EXCEPT ![1] = f]
<1>1. Len(t) = Len(s) /\ 1 \in 1..Len(s)
  OBVIOUS
<1>2. t[1] = f /\ \A i \in 1..Len(s) : i # 1 => t[i] = s[i]
  OBVIOUS
<1> HIDE DEF t
<1>3. SomeAlive(t) <=> SomeAlive(s)
  BY <1>1, <1>2 DEF SomeAlive
<1>. QED BY <1>3 DEF t

LEMMA RepeatTop ==
  ASSUME NEW s \in Seq(Frame), s # << >>, s[1].of = "repeat"
  PROVE  /\ s[1] \in RepeatFrame /\ ~Alive(s[1])
         /\ \A x \in RepeatFrame : x \in Frame /\ ~Alive(x) /\ x.of = "repeat"
<1>1. s[1] \in Frame
  OBVIOUS
<1>. QED BY <1>1, FrameTypes DEF Alive, RepeatFrame, Frame, Wait

LEMMA ResumedAlive ==
  ASSUME NEW s \in Seq(Frame), NEW by \in Asker, NEW rv \in BOOLEAN, NEW u,
         by.for # "required" => s # << >> /\ s[1].of = "repeat"
  PROVE  SomeAlive(Resumed(by, s, rv, u)) <=> SomeAlive(s)
<1> DEFINE t == Resumed(by, s, rv, u)
<1>1. CASE by.for = "required"
  BY <1>1 DEF Resumed
<1>2. CASE by.for \in {"change", "active"}
  <2>1. s # << >> /\ s[1] \in RepeatFrame /\ ~Alive(s[1])
    BY <1>2, RepeatTop
  <2> DEFINE g == [s[1] EXCEPT !.rv = rv]
             f == [g EXCEPT !.at = "wait"]
             h == [s[1] EXCEPT !.at = "wait"]
  <2>2. f \in RepeatFrame /\ h \in RepeatFrame
    BY <2>1 DEF RepeatFrame
  <2>3. [s EXCEPT ![1].rv = rv, ![1].at = "wait"] = [s EXCEPT ![1] = f]
    BY <2>1
  <2>4. [s EXCEPT ![1].at = "wait"] = [s EXCEPT ![1] = h]
    OBVIOUS
  <2>5. t \in {[s EXCEPT ![1] = f], [s EXCEPT ![1] = h], Tail(s)}
    BY <1>2, <2>3, <2>4 DEF Resumed
  <2> HIDE DEF f, g, h, t
  <2>6. f \in Frame /\ ~Alive(f) /\ h \in Frame /\ ~Alive(h)
    BY <1>2, <2>2, RepeatTop
  <2>7. SomeAlive(Tail(s)) <=> SomeAlive(s)
    BY <2>1, AliveTail
  <2>8. \A x \in {f, h} : SomeAlive([s EXCEPT ![1] = x]) <=> SomeAlive(s)
    BY <2>1, <2>6, AliveTop
  <2>9. SomeAlive(t) <=> SomeAlive(s)
    BY <2>5, <2>7, <2>8
  <2>. QED BY <2>9 DEF t
<1>. QED BY <1>1, <1>2, AskerCases

(* A function goes on or returns. *)
LEMMA ReturnsIInv ==
  ASSUME IInv, ui # None, ui' \in CodeUi, ui'.code = ui.code,
         UNCHANGED <<sim, signals, view, idle, cbs, show, dangling, changes>>,
         Stack(frames'), Len(frames') <= Len(frames),
         \A i \in 1..Len(frames') : IsQuery(frames'[i]) =>
           \E j \in 1..Len(frames) : IsQuery(frames[j]) /\ (frames'[i].home => frames[j].home),
         Roles', DialogBelongsToQuery', Told', Sure'
  PROVE  IInv'
<1>1. Types'
  BY DEF IInv, Types
<1>2. Bounds'
  <2>1. Len(frames') \in Nat /\ Len(frames) \in Nat
    BY DEF IInv, Stack
  <2>2. Len(frames') <= MaxDepth
    BY <2>1, CodeUiAssumption DEF IInv, Bounds
  <2>. QED BY <2>2 DEF IInv, Bounds
<1>3. Lifetimes'
  <2>1. ui' # None
    BY NoneAssumption
  <2>2. ASSUME view' = None
        PROVE  idle' = {} /\ \A i \in 1..Len(frames') : IsQuery(frames'[i]) => ~frames'[i].home
    BY <2>2 DEF IInv, Lifetimes
  <2>. QED BY <2>1, <2>2 DEF Lifetimes
<1>4. KeptCodeIsThePin'
  BY DEF IInv, KeptCodeIsThePin
<1>. QED BY <1>1, <1>2, <1>3, <1>4 DEF IInv

LEMMA WithinQueries ==
  ASSUME NEW t, NEW s, Within(t, s)
  PROVE  \A i \in 1..Len(t) : IsQuery(t[i]) =>
           \E j \in 1..Len(s) : IsQuery(s[j]) /\ (t[i].home => s[j].home)
BY DEF Within, IsQuery

LEMMA ToldUnchanged ==
  ASSUME Told, ~In("query"), UNCHANGED <<ui, cbs>>
  PROVE  Told'
BY DEF Told, Settled

LEMMA CodeWantedIInv ==
  ASSUME IInv, ui # None, view # None,
         NEW by \in Asker, NEW type \in {"pin", "puk"}, NEW renew \in BOOLEAN,
         by.for = "active" => ~renew, by.for = "change" => renew,
         by.for = "required" => frames = << >> \/ ~ChangeCalls(frames[1]),
         by.for # "required" => frames # << >> /\ frames[1].of = "repeat" /\ frames[1].goal = by
                                /\ frames[1].at = "call",
         NEW sources, sources \subseteq idle,
         CodeWanted(by, type, renew, frames, sources)
  PROVE  IInv'
<1> DEFINE u == [ui EXCEPT !.state = IF @ = "STARTUP" THEN @ ELSE "PIN_ENABLE"]
           n == [u EXCEPT !.state = "NEW_PIN"]
           known == type = "pin" /\ ui.code # None
<1>0. ui \in CodeUi /\ Stack(frames) /\ Within(frames, frames)
  BY IInvUi, WithinSelf
<1>1. Kin(u, ui) /\ u.state # "NONE" /\ Kin(n, ui) /\ n.state # "NONE"
  <2>1. {"STARTUP", "PIN_ENABLE", "NEW_PIN"} \subseteq State
    BY DEF State
  <2>2. Kin(u, ui) /\ u.state # "NONE"
    BY <1>0, <2>1 DEF Kin, CodeUi
  <2> HIDE DEF u
  <2>3. u \in CodeUi
    BY <2>2 DEF Kin
  <2>4. Kin(n, u) /\ n.state # "NONE"
    BY <2>1, <2>3, WithState
  <2>. QED BY <2>2, <2>4 DEF Kin
<1>2. \/ ~known /\ Ask(NewQuery(by, type, renew, "old", None), u, frames, sources)
      \/ known /\ renew /\ Ask(NewQuery(by, type, renew, "new", ui.code), n, frames, sources)
      \/ known /\ ~renew /\ Use(by, type, ui.code, None, u, frames, sources)
  BY DEF CodeWanted
<1>3. ui.code \in Code \cup {None} /\ None \in Code \cup {None}
  BY <1>0 DEF CodeUi
<1> HIDE DEF u, n, known
<1>4. ASSUME NEW step \in {"old", "new"}, step = "new" => renew, NEW old \in Code \cup {None},
             NEW v, Kin(v, ui), v.state # "NONE",
             Ask(NewQuery(by, type, renew, step, old), v, frames, sources)
      PROVE  IInv'
  <2> DEFINE q == NewQuery(by, type, renew, step, old)
  <2>1. /\ q \in Query /\ q.alive /\ q.home /\ q.by = by /\ q.renew = renew /\ q.step = step
        /\ q.of = "query"
    BY <1>3 DEF NewQuery, Query, Asker
  <2> HIDE DEF q
  <2>2. QueryOK(q)
    BY <1>4, <2>1 DEF QueryOK
  <2>3. q.by.for # "required" => frames # << >> /\ Called(frames[1], q)
    BY <2>1 DEF Called
  <2>4. frames # << >> /\ ChangeCalls(frames[1]) => ChangeAsked(q)
    BY <2>1, AskerCases DEF ChangeCalls, ChangeAsked
  <2>5. Ask(q, v, frames, sources)
    BY <1>4 DEF q
  <2> DEFINE stack == frames
  <2>6. /\ Stack(stack) /\ Within(stack, frames)
        /\ q.by.for # "required" => stack # << >> /\ Called(stack[1], q)
        /\ stack # << >> /\ ChangeCalls(stack[1]) => ChangeAsked(q)
        /\ Ask(q, v, stack, sources)
    BY <1>0, <2>3, <2>4, <2>5
  <2> HIDE DEF stack
  <2>. QED BY <1>4, <2>1, <2>2, <2>6, AskIInv
<1>5. CASE known /\ ~renew /\ Use(by, type, ui.code, None, u, frames, sources)
  <2> DEFINE stack == frames
             old == ui.code
             new == None
  <2>1. /\ Stack(stack) /\ Within(stack, frames) /\ Len(stack) <= Len(frames)
        /\ by.for = "required" => stack = << >> \/ ~ChangeCalls(stack[1])
        /\ by.for # "required" => stack # << >> /\ stack[1].of = "repeat" /\ stack[1].goal = by
        /\ old \in Code \cup {None} /\ new \in Code \cup {None} /\ (by.for = "active" => new = None)
        /\ Use(by, type, old, new, u, stack, sources)
    <3>1. Len(frames) \in Nat
      BY <1>0 DEF Stack
    <3>. QED BY <1>0, <1>3, <1>5, <3>1
  <2> HIDE DEF stack, old, new
  <2>. QED BY <1>1, <2>1, UseIInv
<1>6. CASE ~known /\ Ask(NewQuery(by, type, renew, "old", None), u, frames, sources)
  <2> DEFINE step == "old"
             old == None
  <2>1. step \in {"old", "new"} /\ step # "new" /\ old \in Code \cup {None}
        /\ Ask(NewQuery(by, type, renew, step, old), u, frames, sources)
    BY <1>6
  <2> HIDE DEF step, old
  <2>. QED BY <1>1, <1>4, <2>1
<1>7. CASE known /\ renew /\ Ask(NewQuery(by, type, renew, "new", ui.code), n, frames, sources)
  <2> DEFINE step == "new"
             old == ui.code
  <2>1. step \in {"old", "new"} /\ old \in Code \cup {None}
        /\ Ask(NewQuery(by, type, renew, step, old), n, frames, sources)
    BY <1>3, <1>7
  <2> HIDE DEF step, old
  <2>. QED BY <1>1, <1>4, <1>7, <2>1
<1>. QED BY <1>2, <1>5, <1>6, <1>7

LEMMA RequiredAsker ==
  /\ Required \in Asker /\ Required.for = "required"
  /\ \A goal \in Purpose : goal \in Asker /\ goal.for # "required"
BY DEF Required, Asker, Purpose

LEMMA IdleCodeIInv ==
  ASSUME IInv, IdleCode
  PROVE  IInv'
<1>1. CASE Status(view) \in CodeRequired /\ "code" \in cbs /\ ui.state # "NONE"
  <2>1. ui # None /\ view # None /\ view \in SimData
    BY <1>1, IInvUi DEF IdleCode
  <2>2. Status(view) # "OK" /\ view.pin \in {"pin", "puk"}
    BY <1>1, <2>1 DEF Status, CodeRequired, SimData, Pin
  <2>3. frames = << >> \/ ~ChangeCalls(frames[1])
    <3>1. frames # << >> /\ ChangeCalls(Top) => Certain
      BY DEF IInv, Sure
    <3>2. ~Certain
      BY <1>1, <2>2 DEF Certain, SaysOK
    <3>. QED BY <3>1, <3>2, TopFacts
  <2> DEFINE by == Required
             type == view.pin
             renew == view.pin = "puk"
             sources == idle \ {"code"}
  <2>4. CodeWanted(by, type, renew, frames, sources)
    BY <1>1 DEF IdleCode
  <2>5. by \in Asker /\ by.for = "required" /\ renew \in BOOLEAN /\ sources \subseteq idle
    BY RequiredAsker
  <2>6. type \in {"pin", "puk"}
    BY <2>2
  <2> HIDE DEF by, type, renew, sources
  <2>. QED BY <2>1, <2>3, <2>4, <2>5, <2>6, CodeWantedIInv
<1>2. CASE ~(Status(view) \in CodeRequired /\ "code" \in cbs /\ ui.state # "NONE")
  <2>1. idle' = idle \ {"code"}
        /\ UNCHANGED <<sim, signals, view, cbs, show, ui, dangling, frames, changes>>
    BY <1>2 DEF IdleCode
  <2>2. Types' /\ Bounds'
    BY <2>1 DEF IInv, Types, Bounds
  <2>. QED BY <2>1, <2>2, ElsewhereIInv
<1>. QED BY <1>1, <1>2

LEMMA RepeatAsksIInv ==
  ASSUME IInv, RepeatAsks
  PROVE  IInv'
<1>1. /\ frames # << >> /\ Top.of = "repeat" /\ Top.at = "call" /\ CanAsk
      /\ CodeWanted(Top.goal, "pin", Top.goal.for = "change", frames, idle)
  BY DEF RepeatAsks, In
<1>2. Top = frames[1] /\ Top \in Frame
  BY <1>1, TopFacts
<1>3. Top \in RepeatFrame
  BY <1>1, <1>2, FrameTypes
<1>4. ui # None /\ view # None
  BY <1>1, IInvUi DEF CanAsk
<1> DEFINE by == Top.goal
           type == "pin"
           renew == Top.goal.for = "change"
<1>5. /\ by \in Asker /\ by.for # "required" /\ renew \in BOOLEAN
      /\ by.for = "active" => ~renew
      /\ by.for = "change" => renew
      /\ type \in {"pin", "puk"}
      /\ frames[1].of = "repeat" /\ frames[1].goal = by /\ frames[1].at = "call"
      /\ CodeWanted(by, type, renew, frames, idle)
  BY <1>1, <1>2, <1>3, RequiredAsker DEF RepeatFrame
<1> DEFINE sources == idle
<1>6. sources \subseteq idle /\ CodeWanted(by, type, renew, frames, sources)
  BY <1>5
<1> HIDE DEF by, type, renew, sources
<1>. QED BY <1>1, <1>4, <1>5, <1>6, CodeWantedIInv

LEMMA TimerFiresIInv ==
  ASSUME IInv, TimerFires
  PROVE  IInv'
<1>1. /\ InMainLoop /\ ui # None
      /\ ui' = [ui EXCEPT !.timer = FALSE, !.state = "SIM_ERROR"]
      /\ cbs' = cbs \ {"status"}
      /\ UNCHANGED <<sim, signals, view, idle, show, dangling, frames, changes>>
  BY DEF TimerFires
<1>2. ui \in CodeUi /\ Stack(frames) /\ frames \in Seq(Frame)
  BY <1>1, IInvUi
<1>3. /\ ui' \in CodeUi /\ ui'.state = "SIM_ERROR" /\ ui'.dialog = ui.dialog
      /\ ui'.code = ui.code /\ ui'.note = ui.note
  BY <1>1, <1>2 DEF CodeUi, State, Errors
<1>4. ui' # None
  BY <1>3, NoneAssumption
<1>5. Types' /\ Bounds'
  BY <1>1, <1>3 DEF IInv, Types, Bounds
<1>6. Lifetimes'
  BY <1>1, <1>4 DEF IInv, Lifetimes
<1>7. Roles'
  BY <1>1, <1>3 DEF IInv, Roles
<1>8. DialogBelongsToQuery' /\ KeptCodeIsThePin'
  BY <1>1, <1>3 DEF IInv, DialogBelongsToQuery, KeptCodeIsThePin
<1>9. Failed(ui)' /\ Told'
  BY <1>3 DEF Told, Settled, Failed, Errors
<1>10. Sure'
  <2>1. frames # << >> => ~ChangeCalls(frames[1])
    BY <1>1, TopFacts DEF InMainLoop, MustReturn, In, ChangeCalls
  <2>. QED BY <1>1, <1>2, <1>9, <2>1, SureQuiet
<1>. QED BY <1>1, <1>2, <1>5, <1>6, <1>7, <1>8, <1>9, <1>10 DEF IInv

LEMMA NoteClosedIInv ==
  ASSUME IInv, NoteClosed
  PROVE  IInv'
<1> DEFINE u == [ui EXCEPT !.note = FALSE]
<1>1. /\ frames # << >> /\ Top.of = "note" /\ view' = view
      /\ StatusSeen(u, idle)
      /\ frames' = Tail(frames)
      /\ UNCHANGED <<sim, signals, show, dangling, changes>>
  BY DEF NoteClosed, In
<1>2. ui # None /\ ui \in CodeUi /\ frames \in Seq(Frame) /\ Stack(frames)
  BY <1>1, IInvUi
<1>3. /\ u \in CodeUi /\ u.state = ui.state /\ u.dialog = ui.dialog /\ u.code = ui.code
      /\ ~u.note
  BY <1>2 DEF CodeUi
<1> HIDE DEF u
<1>4. /\ ui' = u
      /\ cbs' = (cbs \ {"status"}) \cup (IF Failed(u) THEN {} ELSE {"code"})
      /\ idle' = idle \cup (IF Failed(u) THEN {} ELSE Source("code"))
  BY <1>1 DEF StatusSeen
<1>5. /\ Top = frames[1] /\ 1 \in 1..Len(frames)
      /\ Stack(Tail(frames)) /\ Within(Tail(frames), frames)
      /\ Len(Tail(frames)) <= Len(frames)
  BY <1>1, TopFacts
<1>6. show
  BY <1>1, <1>2, <1>5 DEF IInv, Roles
<1>7. ui' # None
  BY <1>3, <1>4, NoneAssumption
<1>8. Types'
  BY <1>1, <1>3, <1>4 DEF IInv, Types, Source
<1>9. Bounds'
  <2>1. Len(frames) \in Nat /\ Len(Tail(frames)) \in Nat
    BY <1>5 DEF IInv, Stack
  <2>2. Len(frames') <= MaxDepth
    BY <1>1, <1>5, <2>1, CodeUiAssumption DEF IInv, Bounds
  <2>. QED BY <1>1, <2>2 DEF IInv, Bounds
<1>10. Lifetimes'
  <2>1. ASSUME view' = None
        PROVE  idle' = {} /\ \A i \in 1..Len(frames') : IsQuery(frames'[i]) => ~frames'[i].home
    <3>1. idle = {} /\ view = None
      BY <1>1, <2>1 DEF IInv, Lifetimes
    <3>2. Source("code") = {}
      BY <2>1 DEF Source
    <3>3. \A i \in 1..Len(frames') : IsQuery(frames'[i]) =>
            \E j \in 1..Len(frames) : IsQuery(frames[j]) /\ (frames'[i].home => frames[j].home)
      BY <1>1, <1>5, WithinQueries
    <3>4. \A j \in 1..Len(frames) : IsQuery(frames[j]) => ~frames[j].home
      BY <3>1 DEF IInv, Lifetimes
    <3>. QED BY <1>4, <3>1, <3>2, <3>3, <3>4
  <2>. QED BY <1>7, <2>1 DEF Lifetimes
<1>11. Roles'
  BY <1>1, <1>2, <1>3, <1>4, <1>5, <1>6, RolesKept DEF IInv
<1>12. DialogBelongsToQuery'
  <2>1. ~Alive(frames[1])
    BY <1>1, <1>5 DEF Alive
  <2>. QED BY <1>1, <1>2, <1>3, <1>4, <2>1, DialogTail DEF IInv
<1>13. KeptCodeIsThePin'
  BY <1>1, <1>2, <1>3, <1>4 DEF IInv, KeptCodeIsThePin
<1>14. Told'
  BY <1>4 DEF Told, Settled, Failed
<1>15. \A i \in 1..Len(frames') : frames'[i].of \notin {"update", "repeat"}
  BY <1>1, <1>6, <1>7, <1>11 DEF Roles
<1>16. Sure'
  <2>1. Stack(frames')
    BY <1>1, <1>5
  <2>2. frames' # << >> => 1 \in 1..Len(frames')
    BY <2>1 DEF Stack
  <2>3. frames' # << >> => ~ChangeCalls(frames'[1])
    BY <1>15, <2>2 DEF ChangeCalls
  <2>. QED BY <1>15, <2>1, <2>3, SureQuiet
<1>. QED BY <1>1, <1>5, <1>8, <1>9, <1>10, <1>11, <1>12, <1>13, <1>14, <1>16 DEF IInv

(* No function waits after the step. *)
LEMMA NoFunctionIInv ==
  ASSUME IInv, frames' = << >>, ui' \in CodeUi \cup {None}, cbs' \subseteq {"status", "code"},
         ui' = None => cbs' = {}, idle' \subseteq {"status", "code"}, view' = None => idle' = {},
         ui' # None => /\ ui'.note => show'
                       /\ ~ui'.dialog
                       /\ ui'.code \in {None, sim.secret}
                       /\ Settled(ui') \/ cbs' # {},
         show' \in BOOLEAN, dangling' \in BOOLEAN, UNCHANGED <<sim, signals, view, changes>>
  PROVE  IInv'
<1>1. Types'
  BY DEF IInv, Types
<1>2. Bounds'
  <2>1. Len(frames') = 0 /\ 0 <= MaxDepth
    BY CodeUiAssumption
  <2>. QED BY <2>1 DEF IInv, Bounds
<1>3. Lifetimes' /\ Roles' /\ KeptCodeIsThePin' /\ Told'
  BY EmptyStack DEF Lifetimes, Roles, KeptCodeIsThePin, Told, Settled
<1>4. DialogBelongsToQuery'
  <2>1. ui' # None => ui'.dialog = FALSE
    BY DEF CodeUi
  <2>. QED BY <2>1, EmptyStack DEF DialogBelongsToQuery
<1>5. Sure' /\ Stack(frames')
  BY EmptyStack DEF Sure, ChangeWaits, ChangeUpdates, In
<1>. QED BY <1>1, <1>2, <1>3, <1>4, <1>5 DEF IInv

LEMMA NoDialogOfNone ==
  ASSUME IInv, ui # None, frames = << >> \/ ~SomeAlive(frames)
  PROVE  ~ui.dialog
BY EmptyStack, DialogIff DEF IInv, SomeAlive

LEMMA CloseIInv ==
  ASSUME IInv, Close
  PROVE  IInv'
<1>1. /\ frames = << >> /\ ui # None /\ cbs' = {} /\ dangling' = (dangling \/ ui.timer) /\ ui' = None
      /\ UNCHANGED <<sim, signals, view, idle, show, frames, changes>>
  BY DEF Close, Destroy
<1>2. dangling' \in BOOLEAN
  BY <1>1, IInvUi DEF CodeUi, IInv, Types
<1>. QED BY <1>1, <1>2, NoFunctionIInv DEF IInv, Types, Lifetimes

LEMMA InitReturnsIInv ==
  ASSUME IInv, InitReturns
  PROVE  IInv'
<1>1. CASE show
  BY <1>1, ProcessEndsIInv DEF InitReturns
<1>2. CASE ~show
  <2>1. /\ frames # << >> /\ Top.of = "init" /\ Settled(ui)
        /\ frames' = Tail(frames)
        /\ IF ui.state = "OK" THEN UNCHANGED <<cbs, ui, dangling>> ELSE Destroy
        /\ UNCHANGED <<sim, signals, view, idle, show, changes>>
    BY <1>2 DEF InitReturns, In
  <2>2. frames' = << >> /\ Top = frames[1]
    BY <2>1, TopFacts
  <2>3. ui # None /\ ui \in CodeUi /\ frames \in Seq(Frame)
    BY <2>1, IInvUi
  <2>4. CASE ui.state = "OK"
    <3>1. ~SomeAlive(frames)
      <4>1. SomeAlive(frames) <=> SomeAlive(Tail(frames))
        BY <2>1, <2>2, <2>3, AliveTail DEF Alive
      <4>2. ~SomeAlive(Tail(frames))
        BY <2>1, <2>2, EmptyStack DEF SomeAlive
      <4>. QED BY <4>1, <4>2
    <3>2. ~ui.dialog
      BY <2>3, <3>1, NoDialogOfNone
    <3>3. UNCHANGED <<cbs, ui, dangling, sim, signals, view, idle, show, changes>>
      BY <2>1, <2>4
    <3>4. ui.note => show
      BY <2>3 DEF IInv, Roles
    <3>5. ui.code \in {None, sim.secret}
      BY <2>3 DEF IInv, KeptCodeIsThePin
    <3>. QED BY <2>1, <2>2, <2>3, <3>2, <3>3, <3>4, <3>5, NoFunctionIInv
         DEF IInv, Types, Lifetimes, Settled
  <2>5. CASE ui.state # "OK"
    <3>1. cbs' = {} /\ dangling' = (dangling \/ ui.timer) /\ ui' = None
      BY <2>1, <2>5 DEF Destroy
    <3>2. dangling' \in BOOLEAN
      BY <2>3, <3>1 DEF CodeUi, IInv, Types
    <3>. QED BY <2>1, <2>2, <3>1, <3>2, NoFunctionIInv DEF IInv, Types, Lifetimes
  <2>. QED BY <2>4, <2>5
<1>. QED BY <1>1, <1>2

LEMMA LaunchIInv ==
  ASSUME IInv, NEW startup \in BOOLEAN, Launch(startup)
  PROVE  IInv'
<1> DEFINE st == IF startup THEN "STARTUP" ELSE "NONE"
           f == [of |-> "init"]
<1>1. /\ frames = << >> /\ ui = None /\ show' = startup
      /\ ui' = Allocated(st)
      /\ view' = view
      /\ cbs' = {"status"}
      /\ idle' = idle \cup Source("status")
      /\ frames' = <<f>>
      /\ UNCHANGED <<sim, signals, dangling, changes>>
  BY DEF Launch
<1>2. st \in State
  BY DEF State
<1> HIDE DEF st
<1>3. /\ ui' \in CodeUi /\ ui'.state = st /\ ui'.dialog = FALSE
      /\ ui'.code = None /\ ~ui'.note
  BY <1>1, <1>2 DEF Allocated, CodeUi, SimStatus
<1>4. ui' # None
  BY <1>3, NoneAssumption
<1>5. f \in Frame /\ f.of = "init"
  BY DEF Frame, Wait
<1> HIDE DEF f
<1>6. /\ frames' \in Seq(Frame) /\ Len(frames') = 1 /\ frames'[1] = f /\ Head(frames') = f
      /\ \A i \in 1..Len(frames') : i = 1 /\ frames'[i] = f
      /\ frames' # << >>
  BY <1>1, <1>5
<1>7. Types'
  BY <1>1, <1>3 DEF IInv, Types, Source
<1>8. Bounds'
  <2>1. 1 <= MaxDepth
    BY CodeUiAssumption
  <2>. QED BY <1>1, <1>6, <2>1 DEF IInv, Bounds
<1>9. Lifetimes'
  BY <1>1, <1>4, <1>5, <1>6 DEF IInv, Lifetimes, Source, IsQuery
<1>10. Roles'
  BY <1>3, <1>5, <1>6 DEF Roles
<1>11. DialogBelongsToQuery'
  BY <1>3, <1>5, <1>6 DEF DialogBelongsToQuery
<1>12. KeptCodeIsThePin' /\ Told'
  BY <1>1, <1>3 DEF KeptCodeIsThePin, Told
<1>13. Sure'
  BY <1>5, <1>6, SureQuery DEF Top
<1>14. Stack(frames')
  BY <1>5, <1>6 DEF Stack, QueryOK, IsQuery, Alive
<1>. QED BY <1>7, <1>8, <1>9, <1>10, <1>11, <1>12, <1>13, <1>14 DEF IInv

LEMMA SettingsIInv ==
  ASSUME IInv, NEW goal \in Purpose, Settings(goal)
  PROVE  IInv'
<1> DEFINE f == [of |-> "update", goal |-> goal]
<1>1. /\ InMainLoop /\ ui # None /\ ~show /\ Len(frames) < MaxDepth
      /\ view' = view
      /\ ui' = [ui EXCEPT !.state = "STARTUP", !.ok = IF goal.for = "change" THEN FALSE ELSE @]
      /\ cbs' = cbs \cup {"status"}
      /\ idle' = idle \cup Source("status")
      /\ frames' = <<f>> \o frames
      /\ UNCHANGED <<sim, signals, show, dangling, changes>>
  BY DEF Settings
<1>2. ui \in CodeUi /\ frames \in Seq(Frame) /\ Stack(frames)
  BY <1>1, IInvUi
<1>3. /\ ui' \in CodeUi /\ ui'.state = "STARTUP" /\ ui'.dialog = ui.dialog
      /\ ui'.code = ui.code /\ ui'.note = ui.note
  BY <1>1, <1>2 DEF CodeUi, State
<1>4. ui' # None
  BY <1>3, NoneAssumption
<1>5. f \in Frame /\ f.of = "update"
  BY DEF Frame, Wait
<1> HIDE DEF f
<1>6. /\ frames' \in Seq(Frame)
      /\ Len(frames) \in Nat
      /\ Len(frames') = Len(frames) + 1
      /\ frames'[1] = f
      /\ \A i \in 1..Len(frames) : frames'[i + 1] = frames[i]
      /\ Head(frames') = f
      /\ frames' # << >>
  BY <1>1, <1>2, <1>5, PushFacts
<1>7. \A i \in 1..Len(frames') : i # 1 => i - 1 \in 1..Len(frames) /\ frames'[i] = frames[i - 1]
  <2> SUFFICES ASSUME NEW i \in 1..Len(frames'), i # 1
               PROVE  i - 1 \in 1..Len(frames) /\ frames'[i] = frames[i - 1]
    OBVIOUS
  <2>1. i - 1 \in 1..Len(frames) /\ (i - 1) + 1 = i
    BY <1>6
  <2>2. frames'[(i - 1) + 1] = frames[i - 1]
    BY <1>6, <2>1
  <2>. QED BY <2>1, <2>2
<1>8. Types'
  BY <1>1, <1>3 DEF IInv, Types, Source
<1>9. Bounds'
  <2>1. Len(frames') <= MaxDepth
    BY <1>1, <1>6, CodeUiAssumption
  <2>. QED BY <1>1, <2>1 DEF IInv, Bounds
<1>10. Lifetimes'
  <2>1. ASSUME view' = None, NEW i \in 1..Len(frames'), IsQuery(frames'[i])
        PROVE  ~frames'[i].home
    <3>1. i # 1
      BY <1>5, <1>6, <2>1 DEF IsQuery
    <3>. QED BY <1>1, <1>7, <2>1, <3>1 DEF IInv, Lifetimes
  <2>2. view' = None => idle' = {}
    BY <1>1 DEF IInv, Lifetimes, Source
  <2>. QED BY <1>4, <2>1, <2>2 DEF Lifetimes
<1>11. Roles'
  <2>1. ASSUME NEW i \in 1..Len(frames')
        PROVE  /\ frames'[i].of \in {"update", "repeat"} => ~show' /\ ui'.state # "NONE"
               /\ frames'[i].of = "note" => show'
    <3>1. CASE i = 1
      BY <1>1, <1>3, <1>5, <1>6, <3>1
    <3>2. CASE i # 1
      <4>1. i - 1 \in 1..Len(frames) /\ frames'[i] = frames[i - 1]
        BY <1>7, <3>2
      <4>2. frames[i - 1].of = "note" => show
        BY <1>1, <4>1 DEF IInv, Roles
      <4>. QED BY <1>1, <1>3, <4>1, <4>2
    <3>. QED BY <3>1, <3>2
  <2>. QED BY <1>1, <1>3, <2>1 DEF IInv, Roles
<1>12. DialogBelongsToQuery'
  <2>1. ~Alive(f)
    BY <1>5 DEF Alive
  <2> DEFINE s == frames
  <2>2. /\ s \in Seq(Frame) /\ Len(s) = Len(frames) /\ frames' = <<f>> \o s
        /\ \A i \in 1..Len(s) : Alive(s[i]) <=> Alive(frames[i])
    BY <1>1, <1>2
  <2> HIDE DEF s
  <2>. QED BY <1>1, <1>3, <1>5, <2>1, <2>2, DialogPush DEF IInv
<1>13. KeptCodeIsThePin' /\ Told'
  BY <1>1, <1>3 DEF IInv, KeptCodeIsThePin, Told
<1>14. Sure'
  <2>1. Top' = f
    BY <1>6 DEF Top
  <2>. QED BY <1>3, <1>5, <2>1 DEF Sure, ChangeWaits, In, ChangeCalls
<1>15. Stack(frames')
  <2>1. QueryOK(f) /\ ~IsQuery(f) /\ ~Alive(f) /\ f.of # "init"
    BY <1>5 DEF QueryOK, IsQuery, Alive
  <2>2. frames # << >> => ~ChangeCalls(frames[1])
    BY <1>1, TopFacts DEF InMainLoop, MustReturn, In, ChangeCalls
  <2> DEFINE s == frames
  <2>3. Stack(s) /\ (s # << >> => ~ChangeCalls(s[1])) /\ frames' = <<f>> \o s
    BY <1>1, <1>2, <2>2
  <2> HIDE DEF s
  <2>. QED BY <1>5, <2>1, <2>3, StackPush
<1>. QED BY <1>8, <1>9, <1>10, <1>11, <1>12, <1>13, <1>14, <1>15 DEF IInv

LEMMA UpdateReturnsIInv ==
  ASSUME IInv, UpdateReturns
  PROVE  IInv'
<1> DEFINE done == Failed(ui) \/ (Top.goal.for = "change" /\ ui.ok)
           f == [of |-> "repeat", goal |-> Top.goal, at |-> "call", rv |-> FALSE]
           t == Tail(frames)
<1>1. /\ frames # << >> /\ Top.of = "update" /\ In("update") /\ Settled(ui)
      /\ frames' = IF done THEN t ELSE <<f>> \o t
      /\ UNCHANGED <<sim, signals, view, idle, cbs, show, ui, dangling, changes>>
  BY DEF UpdateReturns, In
<1>2. ui # None /\ ui \in CodeUi /\ frames \in Seq(Frame) /\ Stack(frames)
  BY <1>1, IInvUi
<1>3. /\ Top = frames[1] /\ 1 \in 1..Len(frames) /\ Top \in Frame
      /\ Stack(t) /\ Within(t, frames)
      /\ Len(t) <= Len(frames)
      /\ t # << >> => ~ChangeCalls(t[1])
  BY <1>1, TopFacts DEF ChangeAsked
<1>4. t \in Seq(Frame) /\ Len(frames) \in Nat \ {0} /\ Len(t) = Len(frames) - 1
  BY <1>1, <1>2, TailFacts
<1>5. ~Alive(Top) /\ Top \in UpdateFrame
  BY <1>1, <1>3, FrameTypes DEF Alive
<1>6. SomeAlive(t) <=> SomeAlive(frames)
  BY <1>1, <1>2, <1>3, <1>5, AliveTail
<1>7. /\ ~show /\ ui.state # "NONE"
  BY <1>1, <1>2, <1>3 DEF IInv, Roles
<1>8. Told'
  BY <1>1, ToldUnchanged DEF IInv, In
<1>10. CASE done
  <2>1. frames' = t
    BY <1>1, <1>10
  <2>2. DialogBelongsToQuery'
    BY <1>1, <1>2, <1>6, <2>1, DialogKept DEF IInv
  <2>3. Failed(ui)' \/ ui'.ok
    BY <1>1, <1>10 DEF Failed
  <2>4. Sure'
    BY <1>3, <2>1, <2>3, SureQuiet
  <2>5. Roles'
    BY <1>1, <1>2, <1>3, <2>1, RolesKept DEF IInv, Roles
  <2>6. \A i \in 1..Len(frames') : IsQuery(frames'[i]) =>
          \E j \in 1..Len(frames) : IsQuery(frames[j]) /\ (frames'[i].home => frames[j].home)
    BY <1>3, <2>1, WithinQueries
  <2>. QED BY <1>1, <1>2, <1>3, <1>8, <2>1, <2>2, <2>4, <2>5, <2>6, ReturnsIInv
<1>11. CASE ~done
  <2>1. f \in Frame /\ f.of = "repeat" /\ f.goal = Top.goal /\ f.at = "call"
    BY <1>5 DEF UpdateFrame, Frame, Wait
  <2> HIDE DEF f, t
  <2>2. frames' = <<f>> \o t
    BY <1>1, <1>11
  <2>3. /\ frames' \in Seq(Frame)
        /\ Len(frames') = Len(t) + 1
        /\ frames'[1] = f
        /\ \A i \in 1..Len(t) : frames'[i + 1] = t[i]
        /\ Head(frames') = f
        /\ frames' # << >>
    BY <1>4, <2>1, <2>2, PushFacts
  <2>4. \A i \in 1..Len(frames') : i # 1 => i - 1 \in 1..Len(t) /\ frames'[i] = t[i - 1]
    <3> SUFFICES ASSUME NEW i \in 1..Len(frames'), i # 1
                 PROVE  i - 1 \in 1..Len(t) /\ frames'[i] = t[i - 1]
      OBVIOUS
    <3>1. i - 1 \in 1..Len(t) /\ (i - 1) + 1 = i
      BY <1>4, <2>3
    <3>2. frames'[(i - 1) + 1] = t[i - 1]
      BY <2>3, <3>1
    <3>. QED BY <3>1, <3>2
  <2>5. QueryOK(f) /\ ~IsQuery(f) /\ ~Alive(f)
    BY <2>1 DEF QueryOK, IsQuery, Alive
  <2>6. Stack(frames')
    BY <1>3, <2>1, <2>2, <2>5, StackPush
  <2>7. Len(frames') <= Len(frames)
    BY <1>4, <2>3
  <2>8. \A i \in 1..Len(frames') : IsQuery(frames'[i]) =>
          \E j \in 1..Len(frames) : IsQuery(frames[j]) /\ (frames'[i].home => frames[j].home)
    <3>1. \A i \in 1..Len(t) : IsQuery(t[i]) =>
            \E j \in 1..Len(frames) : IsQuery(frames[j]) /\ (t[i].home => frames[j].home)
      BY <1>3, WithinQueries
    <3> SUFFICES ASSUME NEW i \in 1..Len(frames'), IsQuery(frames'[i])
                 PROVE  \E j \in 1..Len(frames) :
                          IsQuery(frames[j]) /\ (frames'[i].home => frames[j].home)
      OBVIOUS
    <3>2. i # 1
      BY <2>3, <2>5
    <3>. QED BY <2>4, <3>1, <3>2
  <2>9. Roles'
    <3>1. ASSUME NEW i \in 1..Len(frames')
          PROVE  /\ frames'[i].of \in {"update", "repeat"} => ~show /\ ui.state # "NONE"
                 /\ frames'[i].of = "note" => show
      <4>1. CASE i = 1
        BY <1>7, <2>1, <2>3, <4>1
      <4>2. CASE i # 1
        <5>1. i - 1 \in 1..Len(t) /\ frames'[i] = t[i - 1]
          BY <2>4, <4>2
        <5>2. PICK j \in 1..Len(frames) : t[i - 1].of = frames[j].of
          BY <1>3, <5>1 DEF Within
        <5>3. frames[j].of = "note" => show
          BY <1>2 DEF IInv, Roles
        <5>. QED BY <1>7, <5>1, <5>2, <5>3
      <4>. QED BY <4>1, <4>2
    <3>. QED BY <1>1, <1>2, <3>1 DEF IInv, Roles
  <2>10. DialogBelongsToQuery'
    <3>1. SomeAlive(frames') <=> SomeAlive(t)
      <4>1. ASSUME NEW i \in 1..Len(frames'), Alive(frames'[i])
            PROVE  \E k \in 1..Len(t) : Alive(t[k])
        <5>1. i # 1
          BY <2>3, <2>5, <4>1
        <5>. QED BY <2>4, <4>1, <5>1
      <4>2. \A k \in 1..Len(t) : k + 1 \in 1..Len(frames') /\ frames'[k + 1] = t[k]
        BY <1>4, <2>3
      <4>. QED BY <4>1, <4>2 DEF SomeAlive
    <3>2. SomeAlive(frames') <=> SomeAlive(frames)
      BY <1>6, <3>1 DEF t
    <3>. QED BY <1>1, <1>2, <3>2, DialogKept DEF IInv
  <2>11. Sure'
    <3>1. Top' = f
      BY <2>3 DEF Top
    <3>2. Top.goal.for = "change" => Certain
      <4>1. ~Failed(ui) /\ ui.state = "OK"
        BY <1>1, <1>11 DEF Settled, Failed
      <4>. QED BY <1>1, <1>11, <4>1 DEF IInv, Sure, ChangeUpdates
    <3>3. ChangeCalls(f) => Certain
      BY <2>1, <3>2 DEF ChangeCalls
    <3>. QED BY <1>1, <2>1, <3>1, <3>3
         DEF Sure, ChangeWaits, ChangeUpdates, In, Certain, SaysOK, ChangeCalls
  <2>. QED BY <1>1, <1>2, <1>8, <2>6, <2>7, <2>8, <2>9, <2>10, <2>11, ReturnsIInv
<1>. QED BY <1>10, <1>11

(* The innermost function is called again or waits again. *)
LEMMA TopGoesOn ==
  ASSUME IInv, frames # << >>, Top.of = "repeat", NEW x \in RepeatFrame,
         frames' = [frames EXCEPT ![1] = x],
         UNCHANGED <<sim, signals, view, idle, cbs, show, ui, dangling, changes>>,
         Sure'
  PROVE  IInv'
<1>1. ui # None /\ ui \in CodeUi /\ frames \in Seq(Frame) /\ Stack(frames)
  BY IInvUi
<1>2. Top = frames[1] /\ 1 \in 1..Len(frames)
  BY TopFacts
<1>3. ~Alive(frames[1]) /\ x \in Frame /\ ~Alive(x) /\ x.of = "repeat"
  BY <1>1, <1>2, RepeatTop
<1>4. Stack(frames')
  BY <1>1, <1>2, StackTop
<1>5. /\ Len(frames') = Len(frames) /\ frames'[1] = x
      /\ \A i \in 1..Len(frames) : i # 1 => frames'[i] = frames[i]
  BY <1>1
<1>6. Within(frames', frames)
  BY <1>2, <1>3, <1>5 DEF Within, IsQuery
<1>7. Roles'
  BY <1>1, <1>6, RolesKept DEF IInv, Roles
<1>8. DialogBelongsToQuery'
  <2>1. SomeAlive(frames') <=> SomeAlive(frames)
    BY <1>1, <1>3, AliveTop
  <2>. QED BY <1>1, <2>1, DialogKept DEF IInv
<1>9. Told'
  BY ToldUnchanged DEF IInv, In
<1>10. Len(frames') <= Len(frames)
  BY <1>1, <1>5
<1>11. \A i \in 1..Len(frames') : IsQuery(frames'[i]) =>
         \E j \in 1..Len(frames) : IsQuery(frames[j]) /\ (frames'[i].home => frames[j].home)
  BY <1>6, WithinQueries
<1>. QED BY <1>1, <1>4, <1>7, <1>8, <1>9, <1>10, <1>11, ReturnsIInv

(* It returns. *)
LEMMA TopReturns ==
  ASSUME IInv, frames # << >>, Top.of = "repeat", frames' = Tail(frames),
         UNCHANGED <<sim, signals, view, idle, cbs, show, ui, dangling, changes>>,
         Sure'
  PROVE  IInv'
<1>1. ui # None /\ ui \in CodeUi /\ frames \in Seq(Frame) /\ Stack(frames)
  BY IInvUi
<1>2. /\ Top = frames[1] /\ Stack(Tail(frames)) /\ Within(Tail(frames), frames)
      /\ Len(Tail(frames)) <= Len(frames)
  BY TopFacts
<1>3. ~Alive(frames[1])
  BY <1>2 DEF Alive
<1>4. Roles'
  BY <1>1, <1>2, RolesKept DEF IInv, Roles
<1>5. DialogBelongsToQuery'
  BY <1>1, <1>3, DialogTail DEF IInv
<1>6. Told'
  BY ToldUnchanged DEF IInv, In
<1>7. \A i \in 1..Len(frames') : IsQuery(frames'[i]) =>
        \E j \in 1..Len(frames) : IsQuery(frames[j]) /\ (frames'[i].home => frames[j].home)
  BY <1>2, WithinQueries
<1>. QED BY <1>1, <1>2, <1>4, <1>5, <1>6, <1>7, ReturnsIInv

LEMMA RepeatFacts ==
  ASSUME IInv, frames # << >>, Top.of = "repeat"
  PROVE  /\ Top = frames[1] /\ Top \in RepeatFrame /\ frames \in Seq(Frame)
         /\ Top.goal \in Purpose /\ Top.goal.for \in {"change", "active"}
         /\ Tail(frames) # << >> => ~ChangeCalls(Tail(frames)[1])
         /\ Stack(Tail(frames))
<1>1. /\ Top = frames[1] /\ Top \in Frame /\ frames \in Seq(Frame) /\ Stack(Tail(frames))
      /\ Tail(frames) # << >> => ~ChangeCalls(Tail(frames)[1])
  BY TopFacts, IInvUi DEF ChangeAsked
<1>2. Top \in RepeatFrame
  BY <1>1, FrameTypes
<1>. QED BY <1>1, <1>2 DEF RepeatFrame, Purpose

LEMMA RepeatCannotAskIInv ==
  ASSUME IInv, RepeatCannotAsk
  PROVE  IInv'
<1>1. /\ frames # << >> /\ Top.of = "repeat" /\ Top.at = "call"
      /\ Skips \/ ~CanAsk
      /\ frames' = Resumed(Top.goal, frames, FALSE, ui)
      /\ UNCHANGED <<sim, signals, view, idle, cbs, show, ui, dangling, changes>>
  BY DEF RepeatCannotAsk, In
<1>2. /\ Top = frames[1] /\ Top \in RepeatFrame /\ frames \in Seq(Frame)
      /\ Top.goal \in Purpose /\ Top.goal.for \in {"change", "active"}
      /\ Tail(frames) # << >> => ~ChangeCalls(Tail(frames)[1])
      /\ Stack(Tail(frames))
  BY <1>1, RepeatFacts
<1> DEFINE g == [frames[1] EXCEPT !.rv = FALSE]
           f == [g EXCEPT !.at = "wait"]
           h == [frames[1] EXCEPT !.at = "wait"]
<1>3. /\ f \in RepeatFrame /\ f.at = "wait" /\ f.goal = Top.goal /\ f.of = "repeat"
      /\ h \in RepeatFrame /\ h.at = "wait" /\ h.goal = Top.goal /\ h.of = "repeat"
  BY <1>2 DEF RepeatFrame
<1>4. [frames EXCEPT ![1].rv = FALSE, ![1].at = "wait"] = [frames EXCEPT ![1] = f]
  BY <1>2
<1>5. [frames EXCEPT ![1].at = "wait"] = [frames EXCEPT ![1] = h]
  OBVIOUS
<1> HIDE DEF f, g, h
<1>9. \A x \in RepeatFrame : Head([frames EXCEPT ![1] = x]) = x
  BY <1>1, <1>2
<1>6. CASE Top.goal.for = "change"
  <2>1. frames' = [frames EXCEPT ![1] = f]
    BY <1>1, <1>4, <1>6 DEF Resumed
  <2>2. Top' = f
    BY <1>3, <1>9, <2>1 DEF Top
  <2>3. Certain
    BY <1>1, <1>6 DEF IInv, Sure, ChangeCalls
  <2>4. Sure'
    BY <1>1, <1>3, <2>2, <2>3 DEF Sure, ChangeWaits, ChangeUpdates, ChangeCalls, In, Certain, SaysOK
  <2>. QED BY <1>1, <1>3, <2>1, <2>4, TopGoesOn
<1>7. CASE Top.goal.for = "active" /\ Failed(ui)
  <2>1. frames' = Tail(frames)
    BY <1>1, <1>7 DEF Resumed
  <2>2. Failed(ui)'
    BY <1>1, <1>7 DEF Failed
  <2>3. Sure'
    BY <1>2, <2>1, <2>2, SureQuiet
  <2>. QED BY <1>1, <2>1, <2>3, TopReturns
<1>8. CASE Top.goal.for = "active" /\ ~Failed(ui)
  <2>1. frames' = [frames EXCEPT ![1] = h]
    BY <1>1, <1>5, <1>8 DEF Resumed
  <2>2. Top' = h
    BY <1>3, <1>9, <2>1 DEF Top
  <2>3. Sure'
    BY <1>3, <1>8, <2>2 DEF Sure, ChangeWaits, ChangeUpdates, ChangeCalls, In
  <2>. QED BY <1>1, <1>3, <2>1, <2>3, TopGoesOn
<1>. QED BY <1>2, <1>6, <1>7, <1>8

LEMMA CalledAgain ==
  ASSUME NEW s \in Seq(Frame), s # << >>, s[1] \in RepeatFrame
  PROVE  \E x \in RepeatFrame :
           /\ [s EXCEPT ![1].at = "call"] = [s EXCEPT ![1] = x]
           /\ x.of = "repeat" /\ x.at = "call" /\ x.goal = s[1].goal
           /\ Head([s EXCEPT ![1] = x]) = x
<1> DEFINE x == [s[1] EXCEPT !.at = "call"]
<1>1. x \in RepeatFrame /\ x.of = "repeat" /\ x.at = "call" /\ x.goal = s[1].goal
  BY DEF RepeatFrame
<1>2. [s EXCEPT ![1].at = "call"] = [s EXCEPT ![1] = x]
  OBVIOUS
<1> HIDE DEF x
<1>3. Head([s EXCEPT ![1] = x]) = x
  OBVIOUS
<1>. QED BY <1>1, <1>2, <1>3

LEMMA ActiveAgainIInv ==
  ASSUME IInv, ActiveAgain
  PROVE  IInv'
<1>1. /\ frames # << >> /\ Top.of = "repeat" /\ Top.goal.for = "active"
      /\ frames' = [frames EXCEPT ![1].at = "call"]
      /\ UNCHANGED <<sim, signals, view, idle, cbs, show, ui, dangling, changes>>
  BY DEF ActiveAgain, In
<1>2. Top = frames[1] /\ Top \in RepeatFrame /\ frames \in Seq(Frame)
  BY <1>1, RepeatFacts
<1>3. PICK x \in RepeatFrame :
        /\ frames' = [frames EXCEPT ![1] = x]
        /\ x.of = "repeat" /\ x.goal = Top.goal
        /\ Head(frames') = x
  BY <1>1, <1>2, CalledAgain
<1>4. Sure'
  BY <1>1, <1>3 DEF Sure, ChangeWaits, ChangeUpdates, ChangeCalls, In, Top
<1>. QED BY <1>1, <1>3, <1>4, TopGoesOn

LEMMA ChangeAgainIInv ==
  ASSUME IInv, ChangeAgain
  PROVE  IInv'
<1>1. /\ frames # << >> /\ Top.of = "repeat" /\ Top.goal.for = "change" /\ Top.at = "wait"
      /\ ui.status = "OK" \/ Failed(ui)
      /\ frames' = IF Top.rv \/ Failed(ui) \/ ui.ok THEN Tail(frames)
                   ELSE [frames EXCEPT ![1].at = "call"]
      /\ UNCHANGED <<sim, signals, view, idle, cbs, show, ui, dangling, changes>>
  BY DEF ChangeAgain, In
<1>2. /\ Top = frames[1] /\ Top \in RepeatFrame /\ frames \in Seq(Frame)
      /\ Tail(frames) # << >> => ~ChangeCalls(Tail(frames)[1])
      /\ Stack(Tail(frames))
  BY <1>1, RepeatFacts
<1>3. ~Failed(ui) /\ ~ui.ok => ui.status = "OK" /\ SaysOK
  BY <1>1 DEF IInv, Sure, ChangeWaits, In
<1>4. CASE Top.rv \/ Failed(ui) \/ ui.ok
  <2>1. frames' = Tail(frames)
    BY <1>1, <1>4
  <2>2. CASE Failed(ui) \/ ui.ok
    <3>1. Failed(ui)' \/ ui'.ok
      BY <1>1, <2>2 DEF Failed
    <3>2. Sure'
      BY <1>2, <2>1, <3>1, SureQuiet
    <3>. QED BY <1>1, <2>1, <3>2, TopReturns
  <2>3. CASE ~Failed(ui) /\ ~ui.ok
    <3>1. SaysOK' /\ Certain'
      BY <1>1, <1>3, <2>3 DEF SaysOK, Certain
    <3>2. Sure'
      BY <3>1 DEF Sure
    <3>. QED BY <1>1, <2>1, <3>2, TopReturns
  <2>. QED BY <2>2, <2>3
<1>5. CASE ~(Top.rv \/ Failed(ui) \/ ui.ok)
  <2>1. frames' = [frames EXCEPT ![1].at = "call"]
    BY <1>1, <1>5
  <2>2. PICK x \in RepeatFrame : frames' = [frames EXCEPT ![1] = x]
    BY <1>1, <1>2, <2>1, CalledAgain
  <2>3. SaysOK' /\ Certain'
    BY <1>1, <1>3, <1>5 DEF SaysOK, Certain
  <2>4. Sure'
    BY <2>3 DEF Sure
  <2>. QED BY <1>1, <2>2, <2>4, TopGoesOn
<1>. QED BY <1>4, <1>5

(* A query that is asked once more, for the next of its codes.             *)
AskedNext(q, step, old, new) == [q EXCEPT !.step = step, !.old = old, !.new = new]

LEMMA QueryTop ==
  ASSUME IInv, In("query")
  PROVE  /\ frames # << >> /\ Top = frames[1] /\ Top \in Query /\ Top.of = "query" /\ QueryOK(Top)
         /\ Top.by \in Asker /\ Top.type \in {"pin", "puk"} /\ Top.renew \in BOOLEAN
         /\ Top.old \in Code \cup {None} /\ Top.new \in Code \cup {None}
         /\ Top.home => view # None
         /\ ui # None /\ ui \in CodeUi
         /\ Stack(Tail(frames)) /\ Within(Tail(frames), frames) /\ Len(Tail(frames)) <= Len(frames)
         /\ Top.by.for # "required" =>
              /\ Tail(frames) # << >>
              /\ Tail(frames)[1].of = "repeat" /\ Tail(frames)[1].goal = Top.by
              /\ Tail(frames)[1].at = "call"
         /\ Tail(frames) # << >> /\ ChangeCalls(Tail(frames)[1]) => Top.by.for = "change"
<1>1. frames # << >> /\ Top.of = "query"
  BY DEF In
<1>2. /\ Top = frames[1] /\ 1 \in 1..Len(frames) /\ Top \in Frame /\ QueryOK(Top)
      /\ Stack(Tail(frames)) /\ Within(Tail(frames), frames) /\ Len(Tail(frames)) <= Len(frames)
      /\ IsQuery(Top) /\ Top.by.for # "required" =>
           Tail(frames) # << >> /\ Called(Tail(frames)[1], Top)
      /\ Tail(frames) # << >> /\ ChangeCalls(Tail(frames)[1]) => ChangeAsked(Top)
  BY <1>1, TopFacts
<1>3. Top \in Query
  BY <1>1, <1>2, FrameTypes
<1>4. Top.home => view # None
  BY <1>1, <1>2 DEF IInv, Lifetimes, IsQuery
<1>5. ui # None /\ ui \in CodeUi
  BY <1>1, IInvUi
<1>6. /\ Top.by \in Asker /\ Top.type \in {"pin", "puk"} /\ Top.renew \in BOOLEAN
      /\ Top.old \in Code \cup {None} /\ Top.new \in Code \cup {None}
  BY <1>3 DEF Query, Asker
<1>. QED BY <1>1, <1>2, <1>3, <1>4, <1>5, <1>6 DEF Called, ChangeAsked, IsQuery

LEMMA EnteredIInv ==
  ASSUME IInv, NEW c \in Code, Entered(c)
  PROVE  IInv'
<1>1. In("query") /\ Top.alive
  BY DEF Entered
<1> DEFINE below == Tail(frames)
<1>2. /\ frames # << >> /\ Top = frames[1] /\ Top \in Query /\ Top.of = "query" /\ QueryOK(Top)
      /\ Top.by \in Asker /\ Top.type \in {"pin", "puk"} /\ Top.renew \in BOOLEAN
      /\ Top.old \in Code \cup {None} /\ Top.new \in Code \cup {None}
      /\ Top.home => view # None
      /\ ui # None /\ ui \in CodeUi
      /\ Stack(below) /\ Within(below, frames) /\ Len(below) <= Len(frames)
      /\ Top.by.for # "required" =>
           below # << >> /\ below[1].of = "repeat" /\ below[1].goal = Top.by /\ below[1].at = "call"
      /\ below # << >> /\ ChangeCalls(below[1]) => Top.by.for = "change"
  BY <1>1, QueryTop
<1>3. Top.step # "old" => Top.renew /\ Top.by.for # "active"
  BY <1>2 DEF QueryOK
<1>4. \/ /\ Top.step = "old" /\ Top.renew
         /\ Ask(AskedNext(Top, "new", c, None), [ui EXCEPT !.state = "NEW_PIN"], below, idle)
      \/ /\ Top.step = "new"
         /\ Ask(AskedNext(Top, "confirm", Top.old, c), [ui EXCEPT !.state = "CONFIRM_PIN"], below, idle)
      \/ /\ Top.step = "confirm" /\ c # Top.new
         /\ Ask(AskedNext(Top, "new", Top.old, None), [ui EXCEPT !.state = "NEW_PIN"], below, idle)
      \/ /\ Top.step = "confirm" /\ c = Top.new
         /\ Top.home
         /\ Use(Top.by, Top.type, Top.old, c, ui, below, idle)
      \/ /\ Top.step = "old" /\ ~Top.renew
         /\ Top.home
         /\ Use(Top.by, Top.type, c, None, ui, below, idle)
  BY DEF Entered, AskedNext
<1> HIDE DEF below
<1>5. ASSUME NEW step \in {"new", "confirm"}, NEW st \in {"NEW_PIN", "CONFIRM_PIN"},
             NEW old \in Code \cup {None}, NEW new \in Code \cup {None}, Top.renew,
             Ask(AskedNext(Top, step, old, new), [ui EXCEPT !.state = st], below, idle)
      PROVE  IInv'
  <2> DEFINE q == AskedNext(Top, step, old, new)
             u == [ui EXCEPT !.state = st]
             sources == idle
  <2>1. /\ q \in Query /\ q.alive /\ q.home = Top.home /\ q.by = Top.by /\ q.renew = Top.renew
        /\ q.of = "query"
    BY <1>1, <1>2 DEF AskedNext, Query
  <2>2. Kin(u, ui) /\ u.state # "NONE"
    <3>1. st \in State /\ st # "NONE"
      BY DEF State
    <3>. QED BY <1>2, <3>1, WithState
  <2>3. Ask(q, u, below, sources) /\ sources \subseteq idle
    BY <1>5
  <2> HIDE DEF q, u, sources
  <2>4. QueryOK(q)
    BY <1>2, <1>5, <2>1 DEF QueryOK
  <2>5. q.by.for # "required" => below # << >> /\ Called(below[1], q)
    BY <1>2, <2>1 DEF Called
  <2>6. below # << >> /\ ChangeCalls(below[1]) => ChangeAsked(q)
    BY <1>2, <2>1 DEF ChangeAsked
  <2>. QED BY <1>2, <2>1, <2>2, <2>3, <2>4, <2>5, <2>6, AskIInv
<1>6. ASSUME NEW old \in Code \cup {None}, NEW new \in Code \cup {None},
             Top.by.for = "active" => new = None, Top.home,
             Use(Top.by, Top.type, old, new, ui, below, idle)
      PROVE  IInv'
  <2> DEFINE by == Top.by
             type == Top.type
             u == ui
             sources == idle
  <2>1. /\ by \in Asker /\ type \in {"pin", "puk"}
        /\ by.for = "active" => new = None
        /\ by.for = "required" => below = << >> \/ ~ChangeCalls(below[1])
        /\ by.for # "required" => below # << >> /\ below[1].of = "repeat" /\ below[1].goal = by
        /\ Kin(u, ui) /\ (u.state = "NONE" => ui.state = "NONE")
        /\ sources \subseteq idle
        /\ Use(by, type, old, new, u, below, sources)
    BY <1>2, <1>6 DEF Kin
  <2> HIDE DEF by, type, u, sources
  <2>. QED BY <1>2, <1>6, <2>1, UseIInv
<1>7. CASE Top.step = "old" /\ Top.renew
           /\ Ask(AskedNext(Top, "new", c, None), [ui EXCEPT !.state = "NEW_PIN"], below, idle)
  <2> DEFINE step == "new"
             st == "NEW_PIN"
             old == c
             new == None
  <2>1. /\ step \in {"new", "confirm"} /\ st \in {"NEW_PIN", "CONFIRM_PIN"}
        /\ old \in Code \cup {None} /\ new \in Code \cup {None} /\ Top.renew
        /\ Ask(AskedNext(Top, step, old, new), [ui EXCEPT !.state = st], below, idle)
    BY <1>7
  <2> HIDE DEF step, st, old, new
  <2>. QED BY <1>5, <2>1
<1>8. CASE Top.step = "new"
           /\ Ask(AskedNext(Top, "confirm", Top.old, c), [ui EXCEPT !.state = "CONFIRM_PIN"], below, idle)
  <2> DEFINE step == "confirm"
             st == "CONFIRM_PIN"
             old == Top.old
             new == c
  <2>1. /\ step \in {"new", "confirm"} /\ st \in {"NEW_PIN", "CONFIRM_PIN"}
        /\ old \in Code \cup {None} /\ new \in Code \cup {None} /\ Top.renew
        /\ Ask(AskedNext(Top, step, old, new), [ui EXCEPT !.state = st], below, idle)
    BY <1>2, <1>3, <1>8
  <2> HIDE DEF step, st, old, new
  <2>. QED BY <1>5, <2>1
<1>9. CASE Top.step = "confirm" /\ c # Top.new
           /\ Ask(AskedNext(Top, "new", Top.old, None), [ui EXCEPT !.state = "NEW_PIN"], below, idle)
  <2> DEFINE step == "new"
             st == "NEW_PIN"
             old == Top.old
             new == None
  <2>1. /\ step \in {"new", "confirm"} /\ st \in {"NEW_PIN", "CONFIRM_PIN"}
        /\ old \in Code \cup {None} /\ new \in Code \cup {None} /\ Top.renew
        /\ Ask(AskedNext(Top, step, old, new), [ui EXCEPT !.state = st], below, idle)
    BY <1>2, <1>3, <1>9
  <2> HIDE DEF step, st, old, new
  <2>. QED BY <1>5, <2>1
<1>10. CASE /\ Top.step = "confirm" /\ c = Top.new
            /\ Top.home
            /\ Use(Top.by, Top.type, Top.old, c, ui, below, idle)
  <2> DEFINE old == Top.old
             new == c
  <2>1. /\ old \in Code \cup {None} /\ new \in Code \cup {None} /\ Top.by.for # "active"
        /\ Use(Top.by, Top.type, old, new, ui, below, idle)
    BY <1>2, <1>3, <1>10
  <2> HIDE DEF old, new
  <2>. QED BY <1>6, <1>10, <2>1
<1>11. CASE /\ Top.step = "old" /\ ~Top.renew
            /\ Top.home
            /\ Use(Top.by, Top.type, c, None, ui, below, idle)
  <2> DEFINE old == c
             new == None
  <2>1. /\ old \in Code \cup {None} /\ new \in Code \cup {None} /\ new = None
        /\ Use(Top.by, Top.type, old, new, ui, below, idle)
    BY <1>11
  <2> HIDE DEF old, new
  <2>. QED BY <1>6, <1>11, <2>1
<1>. QED BY <1>4, <1>7, <1>8, <1>9, <1>10, <1>11

(* A query ends without a code; u is the code UI then, with a dialog only  *)
(* if that is the dialog of another query.                                 *)
LEMMA QueryEndsIInv ==
  ASSUME IInv, In("query"), NEW u, Kin(u, ui), u.state = "PIN_ERROR",
         IF Top.alive THEN ~u.dialog ELSE u.dialog = ui.dialog,
         QueryEnds(u)
  PROVE  IInv'
<1> DEFINE below == Tail(frames)
<1>1. /\ frames # << >> /\ Top = frames[1] /\ Top \in Query /\ Top.of = "query" /\ QueryOK(Top)
      /\ Top.by \in Asker /\ Top.type \in {"pin", "puk"} /\ Top.renew \in BOOLEAN
      /\ Top.home => view # None
      /\ ui # None /\ ui \in CodeUi
      /\ Stack(below) /\ Within(below, frames) /\ Len(below) <= Len(frames)
      /\ Top.by.for # "required" =>
           below # << >> /\ below[1].of = "repeat" /\ below[1].goal = Top.by /\ below[1].at = "call"
      /\ below # << >> /\ ChangeCalls(below[1]) => Top.by.for = "change"
  BY QueryTop
<1>2. frames \in Seq(Frame) /\ Stack(frames)
  BY IInvUi
<1>3. u \in CodeUi /\ u.code = ui.code /\ u.note = ui.note
  BY DEF Kin
<1>4. Top.alive => ~SomeAlive(below)
  <2>1. ASSUME Top.alive, NEW i \in 1..Len(below), Alive(below[i])
        PROVE  FALSE
    <3>1. /\ Len(frames) \in Nat \ {0}
          /\ Len(below) = Len(frames) - 1
          /\ below[i] = frames[i + 1]
      BY <1>1, <1>2, TailFacts
    <3>2. i + 1 \in 1..Len(frames) /\ 1 \in 1..Len(frames) /\ i + 1 # 1
      BY <3>1
    <3>3. Alive(frames[1]) /\ Alive(frames[i + 1])
      BY <1>1, <2>1, <3>1 DEF Alive
    <3>. QED BY <1>2, <3>2, <3>3 DEF Stack
  <2>. QED BY <2>1 DEF SomeAlive
<1>5. ~Top.alive => (SomeAlive(below) <=> SomeAlive(frames))
  BY <1>1, <1>2, AliveTail DEF Alive
<1> HIDE DEF below
<1>6. ASSUME NEW t, frames' = t, ui' = u, Stack(t), Len(t) <= Len(below), Within(t, below),
             t # << >> => ~ChangeCalls(t[1]), SomeAlive(t) <=> SomeAlive(below),
             UNCHANGED <<sim, signals, view, idle, cbs, show, dangling, changes>>
      PROVE  IInv'
  <2>1. Within(frames', frames)
    BY <1>1, <1>6, WithinTrans
  <2>2. Roles'
    BY <1>1, <1>3, <1>6, <2>1, RolesKept DEF IInv, Roles
  <2>3. DialogBelongsToQuery'
    <3>1. CASE Top.alive
      <4>1. ~SomeAlive(frames')
        BY <1>4, <1>6, <3>1
      <4>2. ui'.dialog = FALSE
        BY <1>3, <1>6, <3>1 DEF CodeUi
      <4>. QED BY <4>1, <4>2 DEF DialogBelongsToQuery, SomeAlive, Alive
    <3>2. CASE ~Top.alive
      <4>1. SomeAlive(frames') <=> SomeAlive(frames)
        BY <1>5, <1>6, <3>2
      <4>. QED BY <1>1, <1>6, <3>2, <4>1, DialogKept DEF IInv
    <3>. QED BY <3>1, <3>2
  <2>4. Failed(ui)' /\ Told'
    BY <1>6 DEF Told, Settled, Failed, Errors
  <2>5. Sure'
    BY <1>6, <2>4, SureQuiet
  <2>6. Len(frames') <= Len(frames)
    <3>1. Len(t) \in Nat /\ Len(below) \in Nat /\ Len(frames) \in Nat
      BY <1>1, <1>2, <1>6 DEF Stack
    <3>. QED BY <1>1, <1>6, <3>1
  <2>7. \A i \in 1..Len(frames') : IsQuery(frames'[i]) =>
          \E j \in 1..Len(frames) : IsQuery(frames[j]) /\ (frames'[i].home => frames[j].home)
    BY <2>1, WithinQueries
  <2>. QED BY <1>1, <1>3, <1>6, <2>2, <2>3, <2>4, <2>5, <2>6, <2>7, ReturnsIInv
<1>7. Len(below) <= Len(below) /\ Within(below, below)
  <2>1. Len(below) \in Nat
    BY <1>1 DEF Stack
  <2>. QED BY <2>1, WithinSelf
<1>8. CASE Top.by = Required /\ Top.renew /\ "code" \in cbs
  <2> DEFINE by == Required
             type == Top.type
             q == NewQuery(by, type, FALSE, "old", None)
             v == [u EXCEPT !.state = "PIN_ENABLE"]
             sources == idle
  <2>1. Top.home /\ Ask(q, v, below, sources)
    BY <1>8 DEF QueryEnds, below
  <2>2. by \in Asker /\ by.for = "required"
    BY RequiredAsker
  <2> HIDE DEF by
  <2>3. /\ q \in Query /\ q.alive /\ q.home /\ q.by = by /\ ~q.renew /\ q.step = "old"
        /\ q.of = "query"
    BY <1>1, <2>2 DEF NewQuery, Query, Asker
  <2>4. Kin(v, ui) /\ v.state # "NONE"
    <3>1. "PIN_ENABLE" \in State
      BY DEF State
    <3>2. Kin(v, u) /\ v.state = "PIN_ENABLE"
      BY <1>3, <3>1, WithState
    <3>. QED BY <3>2 DEF Kin
  <2>5. sources \subseteq idle
    OBVIOUS
  <2> HIDE DEF q, v, sources
  <2>6. QueryOK(q)
    BY <2>2, <2>3 DEF QueryOK
  <2>7. q.by.for = "required"
    BY <2>2, <2>3
  <2>8. ~(below # << >> /\ ChangeCalls(below[1]))
    BY <1>1, <1>8, RequiredAsker
  <2>. QED BY <1>1, <2>1, <2>3, <2>4, <2>5, <2>6, <2>7, <2>8, AskIInv
<1>9. CASE Top.by = Required /\ Top.renew /\ "code" \notin cbs
  <2>1. /\ ui' = u /\ frames' = below
        /\ UNCHANGED <<sim, signals, view, idle, cbs, show, dangling, changes>>
    BY <1>9 DEF QueryEnds, below
  <2>2. ~(below # << >> /\ ChangeCalls(below[1]))
    BY <1>1, <1>9, RequiredAsker
  <2>. QED BY <1>1, <1>6, <1>7, <2>1, <2>2
<1>10. CASE ~(Top.by = Required /\ Top.renew)
  <2> DEFINE by == Top.by
             rv == FALSE
             t == Resumed(by, below, rv, u)
  <2>1. /\ ui' = u /\ frames' = t
        /\ UNCHANGED <<sim, signals, view, idle, cbs, show, dangling, changes>>
    BY <1>10 DEF QueryEnds, below
  <2>2. /\ by \in Asker /\ rv \in BOOLEAN /\ below \in Seq(Frame)
        /\ by.for = "required" => below = << >> \/ ~ChangeCalls(below[1])
        /\ by.for # "required" => below # << >> /\ below[1].of = "repeat" /\ below[1].goal = by
    BY <1>1 DEF Stack
  <2> HIDE DEF by, rv
  <2>3. /\ Stack(t)
        /\ Len(t) <= Len(below)
        /\ Within(t, below)
        /\ t # << >> => ~ChangeCalls(t[1])
    BY <1>1, <2>2, ResumedFacts
  <2>4. SomeAlive(t) <=> SomeAlive(below)
    BY <2>2, ResumedAlive
  <2> HIDE DEF t
  <2>. QED BY <1>6, <2>1, <2>3, <2>4
<1>. QED BY <1>8, <1>9, <1>10

LEMMA CancelledIInv ==
  ASSUME IInv, Cancelled
  PROVE  IInv'
<1> DEFINE u == [ui EXCEPT !.state = "PIN_ERROR", !.dialog = FALSE]
<1>1. In("query") /\ Top.alive /\ QueryEnds(u)
  BY DEF Cancelled
<1>2. ui \in CodeUi
  BY <1>1, QueryTop
<1>3. Kin(u, ui) /\ u.state = "PIN_ERROR" /\ ~u.dialog
  BY <1>2 DEF CodeUi, Kin, State, Errors
<1> HIDE DEF u
<1>. QED BY <1>1, <1>3, QueryEndsIInv

LEMMA DialogGoneIInv ==
  ASSUME IInv, DialogGone
  PROVE  IInv'
<1> DEFINE u == [ui EXCEPT !.state = "PIN_ERROR"]
<1>1. In("query") /\ ~Top.alive /\ QueryEnds(u)
  BY DEF DialogGone
<1>2. ui \in CodeUi
  BY <1>1, QueryTop
<1>3. Kin(u, ui) /\ u.state = "PIN_ERROR" /\ u.dialog = ui.dialog
  BY <1>2 DEF CodeUi, Kin, State, Errors
<1> HIDE DEF u
<1>. QED BY <1>1, <1>3, QueryEndsIInv

LEMMA NextIInv ==
  ASSUME IInv, [Next]_vars
  PROVE  IInv'
<1>1. CASE SimChanges
  BY <1>1, SimChangesIInv
<1>2. CASE SimManagerGoes
  BY <1>2, SimManagerGoesIInv
<1>3. CASE SimManagerComes
  BY <1>3, SimManagerComesIInv
<1>4. CASE SignalDispatched
  BY <1>4, SignalDispatchedIInv
<1>5. CASE IdleStatus
  BY <1>5, IdleStatusIInv
<1>6. CASE IdleCode
  BY <1>6, IdleCodeIInv
<1>7. CASE TimerFires
  BY <1>7, TimerFiresIInv
<1>8. CASE DanglingTimerFires
  BY <1>8, ProcessEndsIInv DEF DanglingTimerFires
<1>9. CASE NoteClosed
  BY <1>9, NoteClosedIInv
<1>10. CASE \E startup \in BOOLEAN : Launch(startup)
  BY <1>10, LaunchIInv
<1>11. CASE Close
  BY <1>11, CloseIInv
<1>12. CASE ClosedInside
  BY <1>12, ProcessEndsIInv DEF ClosedInside
<1>13. CASE \E goal \in Purpose : Settings(goal)
  BY <1>13, SettingsIInv
<1>14. CASE \E c \in Code : Entered(c)
  BY <1>14, EnteredIInv
<1>15. CASE Cancelled
  BY <1>15, CancelledIInv
<1>16. CASE InitReturns
  BY <1>16, InitReturnsIInv
<1>17. CASE UpdateReturns
  BY <1>17, UpdateReturnsIInv
<1>18. CASE RepeatAsks
  BY <1>18, RepeatAsksIInv
<1>19. CASE RepeatCannotAsk
  BY <1>19, RepeatCannotAskIInv
<1>20. CASE ActiveAgain
  BY <1>20, ActiveAgainIInv
<1>21. CASE ChangeAgain
  BY <1>21, ChangeAgainIInv
<1>22. CASE DialogGone
  BY <1>22, DialogGoneIInv
<1>23. CASE DataGone
  BY <1>23, ProcessEndsIInv DEF DataGone
<1>24. CASE UNCHANGED vars
  <2>1. UNCHANGED <<sim, signals, view, idle, cbs, show, ui, dangling, frames, changes>>
    BY <1>24 DEF vars
  <2>2. Types' /\ Bounds' /\ Stack(frames)'
    BY <2>1 DEF IInv, Types, Bounds
  <2>3. Lifetimes' /\ Roles'
    BY <2>1 DEF IInv, Lifetimes, Roles, Settled
  <2>4. DialogBelongsToQuery' /\ KeptCodeIsThePin'
    BY <2>1 DEF IInv, DialogBelongsToQuery, KeptCodeIsThePin
  <2>5. Told'
    BY <2>1 DEF IInv, Told, ChangeWaits, ChangeUpdates, In, Top, Certain, SaysOK, Failed, Settled
  <2>6. Sure'
    BY <2>1 DEF IInv, Sure, ChangeWaits, ChangeUpdates, In, Top, Certain, SaysOK, Failed, Settled
  <2>. QED BY <2>2, <2>3, <2>4, <2>5, <2>6 DEF IInv
<1>. QED BY <1>1, <1>2, <1>3, <1>4, <1>5, <1>6, <1>7, <1>8, <1>9, <1>10, <1>11, <1>12, <1>13,
            <1>14, <1>15, <1>16, <1>17, <1>18, <1>19, <1>20, <1>21, <1>22, <1>23, <1>24
         DEF Next, StepOfFunction
-----------------------------------------------------------------------------
(* What is proved. *)

(* However the queries, notes and waiting functions are nested, and        *)
(* whatever the SIM and its manager do meanwhile, the stack of functions   *)
(* is one that the code can unwind.                                        *)
THEOREM Invariance == Spec => []IInv
<1>1. Init => IInv
  BY InitIInv
<1>2. IInv /\ [Next]_vars => IInv'
  BY NextIInv
<1>. QED BY <1>1, <1>2, PTL DEF Spec

(* Every variable has its type. *)
THEOREM TypeCorrect == Spec => []TypeOK
<1>1. IInv => TypeOK
  <2> SUFFICES ASSUME IInv
               PROVE  TypeOK
    OBVIOUS
  <2>1. \A i \in 1..Len(frames) : frames[i] \in Wait \cup Query
    BY DEF IInv, Stack, Frame
  <2>. QED BY <2>1 DEF IInv, Types, Bounds, TypeOK
<1>. QED BY <1>1, Invariance, PTL

(* The dialog on the screen is that of a query under way: none stays open. *)
THEOREM DialogCorrect == Spec => []DialogBelongsToQuery
<1>1. IInv => DialogBelongsToQuery
  BY DEF IInv
<1>. QED BY <1>1, Invariance, PTL

(* A code that the SIM refused is never tried again by itself.             *)
THEOREM KeptCodeCorrect == Spec => []KeptCodeIsThePin
<1>1. IInv => KeptCodeIsThePin
  BY DEF IInv
<1>. QED BY <1>1, Invariance, PTL

(* A loop that waits for a state has a callback that can end it.           *)
THEOREM WaitersCorrect == Spec => []WaitersAreTold
<1>1. IInv => WaitersAreTold
  <2> SUFFICES ASSUME IInv, In("init") \/ In("update"), ~Settled(ui)
               PROVE  cbs # {}
    BY DEF WaitersAreTold
  <2>1. frames # << >> /\ ~In("query")
    BY DEF In
  <2>. QED BY <2>1, IInvUi DEF IInv, Told
<1>. QED BY <1>1, Invariance, PTL

(* change_code calls again without running the main loop only when that    *)
(* call asks the user.                                                     *)
THEOREM NoSpin == Spec => []ChangeDoesNotSpin
<1>1. IInv => ChangeDoesNotSpin
  <2> SUFFICES ASSUME IInv, In("repeat"), Top.goal.for = "change", Top.at = "call",
                      ui.status = "OK"
               PROVE  CanAsk
    BY DEF ChangeDoesNotSpin
  <2>1. frames # << >> /\ ChangeCalls(Top)
    BY DEF In, ChangeCalls
  <2>2. SaysOK
    BY <2>1 DEF IInv, Sure, Certain
  <2>3. ui # None /\ Top = frames[1] /\ 1 \in 1..Len(frames)
    BY <2>1, IInvUi, TopFacts
  <2>4. ui.state # "NONE"
    BY <2>3 DEF IInv, Roles, In
  <2>. QED BY <2>2, <2>4 DEF CanAsk, SaysOK
<1>. QED BY <1>1, Invariance, PTL
-----------------------------------------------------------------------------
(* Attempts at the SIM.                                                    *)

(* The SIM t is s, and no attempt at it was used up.                       *)
Spared(s, t) == ~(t.left < s.left) /\ (t.pin = "puk" => s.pin = "puk")

LEMMA SparedSame ==
  ASSUME NEW s \in Sim, NEW t, t.left = s.left, t.pin = s.pin
  PROVE  Spared(s, t)
BY CodeUiAssumption DEF Sim, Spared

(* The right PIN, entered or used to switch the request.                   *)
LEMMA UnlockedSpares ==
  ASSUME NEW s \in Sim, NEW new, NEW r \in Unlocked(s, "pin", s.secret, new)
  PROVE  Spared(s, r.sim)
<1>0. s.left \in 0..MaxTries /\ MaxTries \in Nat
  BY CodeUiAssumption DEF Sim
<1>1. CASE s.pin # "pin"
  BY <1>0, <1>1 DEF Unlocked, Spared
<1>2. CASE s.pin = "pin"
  <2> DEFINE good == [Renewed(s, new) EXCEPT !.pin = "none", !.left = MaxTries]
  <2>1. r \in Outcomes(s, "pin", TRUE, good)
    BY <1>2 DEF Unlocked
  <2>2. good.left = MaxTries /\ good.pin = "none"
    BY DEF Renewed, Sim
  <2> HIDE DEF good
  <2>3. r.sim \in {s, good}
    BY <2>1 DEF Outcomes
  <2>. QED BY <1>0, <2>2, <2>3 DEF Spared
<1>. QED BY <1>1, <1>2

LEMMA SetQuerySpares ==
  ASSUME NEW s \in Sim, NEW want \in BOOLEAN, NEW r \in SetQuery(s, s.secret, want)
  PROVE  /\ r.sim \in Sim /\ r.sim.secret = s.secret
         /\ r.sim.left = s.left /\ r.sim.pin = s.pin
<1> DEFINE good == [s EXCEPT !.enabled = want]
<1>1. r \in Outcomes(s, "pin", TRUE, good)
  BY DEF SetQuery
<1>2. good \in Sim /\ good.secret = s.secret /\ good.left = s.left /\ good.pin = s.pin
  BY DEF Sim
<1> HIDE DEF good
<1>3. r.sim \in {s, good}
  BY <1>1 DEF Outcomes
<1>. QED BY <1>2, <1>3

(* ... or changed: it is the new one when that is reported, and may be     *)
(* when it is not.                                                         *)
LEMMA ChangePinSpares ==
  ASSUME NEW s \in Sim, NEW new \in Code, NEW r \in ChangePin(s, s.secret, new)
  PROVE  /\ r.sim \in Sim /\ r.sim.left = s.left /\ r.sim.pin = s.pin
         /\ r.sim.secret \in {s.secret, new} /\ (r.ok => r.sim.secret = new)
<1> DEFINE good == Renewed(s, new)
<1>1. r \in Outcomes(s, "pin", TRUE, good)
  BY DEF ChangePin
<1>2. good \in Sim /\ good.secret = new /\ good.left = s.left /\ good.pin = s.pin
  BY CodeUiAssumption DEF Sim, Renewed
<1> HIDE DEF good
<1>3. r.sim \in {s, good} /\ (r.ok => r.sim = good)
  BY <1>1 DEF Outcomes
<1>. QED BY <1>2, <1>3

(* Whatever the code, switching the request does not change it.            *)
LEMMA SetQueryKeepsSecret ==
  ASSUME NEW s \in Sim, NEW code, NEW want \in BOOLEAN, NEW r \in SetQuery(s, code, want)
  PROVE  r.sim.secret = s.secret
<1> DEFINE good == [s EXCEPT !.enabled = want]
<1>1. r.sim \in {s, good, Punished(s, "pin")}
  BY DEF SetQuery, Outcomes
<1>2. good.secret = s.secret /\ Punished(s, "pin").secret = s.secret
  BY DEF Sim, Punished
<1>. QED BY <1>1, <1>2

LEMMA ChangeSpares ==
  ASSUME sim \in Sim, NEW new \in Code, NEW e \in Change(sim.secret, new),
         e.sim.secret = sim.secret
  PROVE  Spared(sim, e.sim)
<1>1. CASE view.pin = "pin"
  <2>1. PICK r \in ChangePin(sim, sim.secret, new) : e = Effect(r.sim, <<r.ok, r.ok>>, r.sim.pin)
    BY <1>1 DEF Change
  <2>2. e.sim = r.sim
    BY <2>1 DEF Effect
  <2>. QED BY <2>2, ChangePinSpares, SparedSame
<1>2. CASE view.pin # "pin"
  <2> DEFINE third(r) == {Effect(u.sim, <<r.ok, u.ok>>, r.sim.pin) :
                            u \in SetQuery(r.sim, IF r.ok THEN new ELSE sim.secret, FALSE)}
             second(l) == UNION {third(r) : r \in ChangePin(l.sim, sim.secret, new)}
             first(l) == IF ~l.ok THEN {Effect(l.sim, <<FALSE>>, None)} ELSE second(l)
  <2>0. e \in UNION {first(l) : l \in SetQuery(sim, sim.secret, TRUE)}
    BY <1>2 DEF Change
  <2>1. PICK l \in SetQuery(sim, sim.secret, TRUE) : e \in first(l)
    <3> HIDE DEF first
    <3>. QED BY <2>0
  <2>2. /\ l.sim \in Sim /\ l.sim.secret = sim.secret
        /\ l.sim.left = sim.left /\ l.sim.pin = sim.pin
    BY SetQuerySpares
  <2>3. CASE e = Effect(l.sim, <<FALSE>>, None)
    BY <2>2, <2>3, SparedSame DEF Effect
  <2>4. ASSUME NEW r \in ChangePin(l.sim, sim.secret, new),
               NEW u \in SetQuery(r.sim, IF r.ok THEN new ELSE sim.secret, FALSE),
               e = Effect(u.sim, <<r.ok, u.ok>>, r.sim.pin)
        PROVE  Spared(sim, e.sim)
    <3>1. /\ r.sim \in Sim /\ r.sim.left = sim.left /\ r.sim.pin = sim.pin
          /\ r.sim.secret \in {sim.secret, new} /\ (r.ok => r.sim.secret = new)
      BY <2>2, ChangePinSpares
    <3>2. e.sim = u.sim
      BY <2>4 DEF Effect
    <3>3. u.sim.secret = r.sim.secret
      BY <3>1, SetQueryKeepsSecret
    <3>4. (IF r.ok THEN new ELSE sim.secret) = r.sim.secret
      BY <3>1, <3>2, <3>3
    <3>5. u.sim.left = r.sim.left /\ u.sim.pin = r.sim.pin
      BY <3>1, <3>4, SetQuerySpares
    <3>. QED BY <3>1, <3>2, <3>5, SparedSame
  <2>5. CASE e \in second(l)
    <3>1. PICK r \in ChangePin(l.sim, sim.secret, new) : e \in third(r)
      <4> HIDE DEF third
      <4>. QED BY <2>5
    <3>. QED BY <2>4, <3>1
  <2>. QED BY <2>1, <2>3, <2>5
<1>. QED BY <1>1, <1>2

(* The right PIN used for whatever asked for it.                           *)
LEMMA UseSpares ==
  ASSUME sim \in Sim, NEW by \in Asker, NEW new, by.for = "change" => new \in Code,
         NEW u, NEW stack, NEW sources, Use(by, "pin", sim.secret, new, u, stack, sources),
         by.for = "change" => sim'.secret = sim.secret
  PROVE  ~Refused
<1>1. PICK e \in EffectsOf(by, "pin", sim.secret, new) : sim' = e.sim
  BY DEF Use
<1>2. Spared(sim, e.sim)
  <2>1. CASE by.for = "required"
    <3>1. PICK r \in Unlocked(sim, "pin", sim.secret, new) : e = Effect(r.sim, <<r.ok>>, r.sim.pin)
      BY <2>1 DEF EffectsOf, VerifyRequired
    <3>. QED BY <3>1, UnlockedSpares DEF Effect
  <2>2. CASE by.for = "active"
    <3>1. by.want \in BOOLEAN
      BY <2>2 DEF Asker, Purpose, Required
    <3>2. PICK r \in SetQuery(sim, sim.secret, by.want) : e = Effect(r.sim, <<r.ok>>, None)
      BY <2>2 DEF EffectsOf, SetEnabled
    <3>. QED BY <3>1, <3>2, SetQuerySpares, SparedSame DEF Effect
  <2>3. CASE by.for = "change"
    BY <1>1, <2>3, ChangeSpares DEF EffectsOf
  <2>. QED BY <2>1, <2>2, <2>3, AskerCases
<1>. QED BY <1>1, <1>2 DEF Spared, Refused

(* Without asking, only the code that is kept is used: the right one.      *)
LEMMA KeptCodeSpares ==
  ASSUME IInv, ui # None, NEW by \in Asker, NEW type, NEW renew,
         by.for = "change" => renew,
         NEW sources, CodeWanted(by, type, renew, frames, sources)
  PROVE  ~Refused
<1>1. sim \in Sim /\ ui.code \in {None, sim.secret}
  BY DEF IInv, Types, KeptCodeIsThePin
<1>2. CASE UNCHANGED sim
  BY <1>1, <1>2, CodeUiAssumption DEF Refused, Sim
<1>3. ASSUME NEW u, type = "pin", ui.code # None, ~renew,
             Use(by, type, ui.code, None, u, frames, sources)
      PROVE  ~Refused
  BY <1>1, <1>3, UseSpares
<1>. QED BY <1>2, <1>3 DEF CodeWanted, Ask

LEMMA EnteredSpares ==
  ASSUME IInv, NEW c \in Code, Entered(c), ~Mistaken(c)
  PROVE  ~Refused
<1>1. In("query")
  BY DEF Entered
<1>2. sim \in Sim /\ c # None
  BY CodeUiAssumption DEF IInv, Types
<1>3. /\ Top.by \in Asker /\ Top.type \in {"pin", "puk"} /\ QueryOK(Top) /\ Top.of = "query"
  BY <1>1, QueryTop
<1>4. /\ Top.type = "pin" /\ sim'.secret = sim.secret
      /\ Top.step = "old" => c = sim.secret
      /\ Top.step # "old" => Top.old = sim.secret
  BY <1>3 DEF Mistaken
<1>5. CASE UNCHANGED sim
  BY <1>2, <1>5, CodeUiAssumption DEF Refused, Sim
<1>6. CASE Top.step = "confirm" /\ Use(Top.by, Top.type, Top.old, c, ui, Tail(frames), idle)
  BY <1>2, <1>3, <1>4, <1>6, UseSpares
<1>7. CASE Top.step = "old" /\ ~Top.renew /\ Use(Top.by, Top.type, c, None, ui, Tail(frames), idle)
  <2>1. Top.by.for # "change"
    BY <1>3, <1>7 DEF QueryOK
  <2>. QED BY <1>2, <1>3, <1>4, <1>7, <2>1, UseSpares
<1>. QED BY <1>5, <1>6, <1>7 DEF Entered, Ask

LEMMA NextSpares ==
  ASSUME IInv, Next, changes' = changes, Refused
  PROVE  \E c \in Code : Entered(c) /\ Mistaken(c)
<1>1. sim \in Sim /\ changes \in Nat
  BY CodeUiAssumption DEF IInv, Types, Bounds
<1>2. sim' # sim
  BY <1>1, CodeUiAssumption DEF Refused, Sim
<1>3. CASE IdleCode
  <2>1. "code" \in cbs /\ CodeWanted(Required, view.pin, view.pin = "puk", frames, idle \ {"code"})
    BY <1>2, <1>3 DEF IdleCode
  <2>2. ui # None /\ Required \in Asker /\ Required.for = "required"
    BY <2>1, IInvUi, RequiredAsker
  <2> DEFINE by == Required
             type == view.pin
             renew == view.pin = "puk"
             sources == idle \ {"code"}
  <2>3. by \in Asker /\ by.for = "required" /\ CodeWanted(by, type, renew, frames, sources)
    BY <2>1, <2>2
  <2> HIDE DEF by, type, renew, sources
  <2>. QED BY <2>2, <2>3, KeptCodeSpares
<1>4. CASE RepeatAsks
  <2>1. /\ In("repeat") /\ CanAsk
        /\ CodeWanted(Top.goal, "pin", Top.goal.for = "change", frames, idle)
    BY <1>4 DEF RepeatAsks
  <2>2. frames # << >> /\ Top = frames[1] /\ Top \in Frame /\ Top.of = "repeat"
    BY <2>1, TopFacts DEF In
  <2>3. Top.goal \in Asker /\ ui # None
    BY <2>2, FrameTypes, IInvUi DEF RepeatFrame, Asker
  <2> DEFINE by == Top.goal
             type == "pin"
             renew == Top.goal.for = "change"
             sources == idle
  <2>4. /\ by \in Asker /\ (by.for = "change" => renew)
        /\ CodeWanted(by, type, renew, frames, sources)
    BY <2>1, <2>3
  <2> HIDE DEF by, type, renew, sources
  <2>. QED BY <2>3, <2>4, KeptCodeSpares
<1>5. ASSUME NEW c \in Code, Entered(c)
      PROVE  \E d \in Code : Entered(d) /\ Mistaken(d)
  BY <1>5, EnteredSpares
<1>6. CASE SimChanges
  BY <1>1, <1>6 DEF SimChanges
<1>7. CASE SimManagerGoes \/ SimManagerComes \/ SignalDispatched \/ IdleStatus
  BY <1>2, <1>7 DEF SimManagerGoes, SimManagerComes, SignalDispatched, IdleStatus
<1>8. CASE TimerFires \/ NoteClosed \/ Close
  BY <1>2, <1>8 DEF TimerFires, NoteClosed, Close
<1>9. CASE DanglingTimerFires \/ ClosedInside \/ DataGone
  BY <1>2, <1>9 DEF DanglingTimerFires, ClosedInside, DataGone, ProcessEnds
<1>10. CASE \E startup \in BOOLEAN : Launch(startup)
  BY <1>2, <1>10 DEF Launch
<1>11. CASE \E goal \in Purpose : Settings(goal)
  BY <1>2, <1>11 DEF Settings
<1>12. CASE Cancelled \/ DialogGone
  BY <1>2, <1>12 DEF Cancelled, DialogGone, QueryEnds, Ask
<1>13. CASE InitReturns
  BY <1>2, <1>13 DEF InitReturns, ProcessEnds
<1>14. CASE UpdateReturns \/ RepeatCannotAsk \/ ActiveAgain \/ ChangeAgain
  BY <1>2, <1>14 DEF UpdateReturns, RepeatCannotAsk, ActiveAgain, ChangeAgain
<1>. QED BY <1>3, <1>4, <1>5, <1>6, <1>7, <1>8, <1>9, <1>10, <1>11, <1>12, <1>13, <1>14
         DEF Next, StepOfFunction

(* Whatever is retried, repeated or answered without asking, an attempt of *)
(* the SIM is used up only by a wrong code that has just been typed, or    *)
(* after the answer to a change of the PIN was lost.                       *)
THEOREM AttemptsCorrect == Spec => AttemptsAreTheUsers
<1>1. IInv /\ [Next]_vars =>
        [Refused /\ changes' = changes => \E c \in Code : Entered(c) /\ Mistaken(c)]_vars
  BY NextSpares
<1>. QED BY <1>1, Invariance, PTL DEF Spec, AttemptsAreTheUsers
=============================================================================
