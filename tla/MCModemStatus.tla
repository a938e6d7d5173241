---------------------------- MODULE MCModemStatus ----------------------------
(* ModemStatus for TLC. *)
EXTENDS ModemStatus, FiniteSets

(* Bound: a modem has one interface at a time, and may trade it for another *)
(* one. Nothing the library keeps of an interface refers to another one.    *)
OneInterface == \A m \in Modem : Cardinality(ofono[m].ifaces) <= 1
=============================================================================
