------------------------------ MODULE MC_Mutex ------------------------------
(* Model-checking instance of MutexSystem: fibers are model values. *)
EXTENDS MutexSystem, TLC

CONSTANTS f1, f2, f3

MCFibers == {f1, f2, f3}
=============================================================================
