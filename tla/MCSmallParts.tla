---------------------------- MODULE MCSmallParts ----------------------------
EXTENDS SmallParts

(* A registration that is unknown, or lost, and at home a name from the    *)
(* SIM, none but codes, or none yet.                                       *)
MCNetState ==
  {[reg |-> "unknown", name |-> NoState, network |-> "none"],
   [reg |-> "searching", name |-> NoState, network |-> "plain"],
   [reg |-> "home", name |-> "one", network |-> "plain"],
   [reg |-> "home", name |-> "", network |-> "coded"],
   [reg |-> "home", name |-> NoState, network |-> "coded"]}

MCMessage ==
  {[scope |-> "plmn", code |-> "a", pages |-> 2],
   [scope |-> "service_area", code |-> "a", pages |-> 3],
   [scope |-> "cell_immediate", code |-> "a", pages |-> 1],
   [scope |-> "cell_normal", code |-> "a", pages |-> 2]}
=============================================================================
