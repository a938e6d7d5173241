----------------------------- MODULE SmallParts -----------------------------
(***************************************************************************)
(* Three parts of the package that share nothing, each in a process of its *)
(* own: the data counter of the settings, the operator names of the home   *)
(* screen and the assembly of cell broadcasts.  A behaviour is one of      *)
(* theirs; the other two do not begin.                                     *)
(***************************************************************************)
EXTENDS DataCounter, HomeItem, CellBroadcast

VARIABLE part \* the part that runs

vars == <<part, counterVars, homeVars, broadcastVars>>

Init ==
  /\ part \in {"data_counter", "home_item", "cell_broadcast"}
  /\ CounterInit
  /\ HomeInit
  /\ BroadcastInit

CounterRuns ==
  part = "data_counter" /\ CounterNext /\ UNCHANGED <<part, homeVars, broadcastVars>>

HomeRuns ==
  part = "home_item" /\ HomeNext /\ UNCHANGED <<part, counterVars, broadcastVars>>

BroadcastRuns ==
  part = "cell_broadcast" /\ BroadcastNext /\ UNCHANGED <<part, counterVars, homeVars>>

Next == CounterRuns \/ HomeRuns \/ BroadcastRuns

Spec == Init /\ [][Next]_vars
-----------------------------------------------------------------------------
PartsTypeOK == CounterTypeOK /\ HomeTypeOK /\ BroadcastTypeOK
=============================================================================
