--------------------------- MODULE MCCellSettings ---------------------------
(* Finite instances of CellSettings.  The records and the modems are       *)
(* interchangeable.                                                        *)
EXTENDS CellSettings, TLC

Symmetry == Permutations(Call) \cup Permutations(Modem)
=============================================================================
