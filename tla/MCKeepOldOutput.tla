--------------------------- MODULE MCKeepOldOutput ---------------------------
(***************************************************************************)
(* KeepOldOutput on small instances.  Nothing tells two processes apart    *)
(* but the files they left.                                                *)
(***************************************************************************)
EXTENDS KeepOldOutput, TLC

CONSTANTS p1, p2  \* processes

Numbers == Permutations(Pids)
=============================================================================
