----------------------------- MODULE MCMuxWriter -----------------------------
(* Instances of MuxWriter for TLC: blocks of two or three packets. *)
EXTENDS MuxWriter, TLC

NoUnits == [v \in Views |-> 0]
\* The base view's units are larger than the second view's
ThreeD == [v \in Views |-> IF v = "main" THEN 4 ELSE 3]
=============================================================================
