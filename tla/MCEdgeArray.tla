----------------------------- MODULE MCEdgeArray -----------------------------
(***************************************************************************)
(* Values for the constants of EdgeArray: chars of both signs and of the   *)
(* limits, and depths at which the array grows by nine, three and one.     *)
(***************************************************************************)
EXTENDS EdgeArray

MCAlphabet == {-128, -2, 0, 97, 127}
==============================================================================
