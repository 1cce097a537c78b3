---------------------------- MODULE MCInstanceTx ----------------------------
(* Two branches; r1 and r3 both execute branch A (a double submit), r2        *)
(* executes B, and w withdraws the instance where it is among the requests.  *)
EXTENDS InstanceTx

MCTarget == [r \in Request |-> CASE r \in {"r1", "r3"} -> "A" [] r = "r2" -> "B" [] r = "w" -> "inst"]
=============================================================================
