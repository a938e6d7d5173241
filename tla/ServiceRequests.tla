-------------------------- MODULE ServiceRequests --------------------------
(***************************************************************************)
(* What the service calls of the library promise to their clients, without *)
(* modems, queues, proxies and tables: a request has a number of its own   *)
(* as long as it is outstanding, it is called back once, and cancelling by *)
(* a number that a client keeps reaches that client's request and no       *)
(* other.  ServiceCalls implements it.                                     *)
(***************************************************************************)
EXTENDS Naturals

CONSTANTS Call, \* the requests that can be made at the same time
          MaxId \* bound on the numbers

VARIABLES
  number,   \* [Call -> 0..MaxId], the number of an outstanding request, or 0
  kept,     \* [Call -> 0..MaxId], the number that the client keeps, or 0
  cancelled \* the requests that were cancelled and not called back yet

vars == <<number, kept, cancelled>>

Init ==
  /\ number = [c \in Call |-> 0]
  /\ kept = [c \in Call |-> 0]
  /\ cancelled = {}

Outstanding(c) == number[c] # 0

(* A number that no request has. *)
Fresh == {i \in 1..MaxId : \A c \in Call : number[c] # i}

Ask(c) ==
  /\ ~Outstanding(c)
  /\ \E i \in Fresh :
       /\ number' = [number EXCEPT ![c] = i]
       /\ kept' \in {[kept EXCEPT ![c] = 0], [kept EXCEPT ![c] = i]}
  /\ UNCHANGED cancelled

CallBack(c) ==
  /\ Outstanding(c)
  /\ number' = [number EXCEPT ![c] = 0]
  /\ kept' = [kept EXCEPT ![c] = 0]
  /\ cancelled' = cancelled \ {c}

(* The callback makes the next request, before its own is over. *)
CallBackAndAsk(c, d) ==
  /\ Outstanding(c)
  /\ ~Outstanding(d)
  /\ c \notin cancelled
  /\ \E i \in Fresh :
       /\ number' = [number EXCEPT ![c] = 0, ![d] = i]
       /\ kept' = [kept EXCEPT ![c] = 0, ![d] = i]
  /\ UNCHANGED cancelled

(* By its number, which still is that of the request. *)
Cancel(c) ==
  /\ Outstanding(c)
  /\ kept[c] = number[c]
  /\ cancelled' = cancelled \cup {c}
  /\ UNCHANGED <<number, kept>>

(* The process of the clients ends. *)
End ==
  /\ number' = [c \in Call |-> 0]
  /\ kept' = [c \in Call |-> 0]
  /\ cancelled' = {}

Next ==
  \/ \E c \in Call : Ask(c) \/ CallBack(c) \/ Cancel(c)
  \/ \E c, d \in Call : CallBackAndAsk(c, d)
  \/ End

Spec == Init /\ [][Next]_vars
=============================================================================
