----------------------------- MODULE MC_RWLock -----------------------------
(* Model-checking instance of RWLockSystem: readers and writers are model *)
(* values, interchangeable within their role.                             *)
EXTENDS RWLockSystem, TLC

CONSTANTS r1, r2, w1, w2

MCReaders == {r1, r2}
MCWriters == {w1, w2}
MCOneWriter == {w1}

RoleSymmetry == Permutations(MCReaders) \cup Permutations(MCWriters)
=============================================================================
