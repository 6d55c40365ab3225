----------------------------- MODULE MCUserLock -----------------------------
(* Model checking of UserLock: the constants are set in the cfg files.       *)
EXTENDS UserLock
=============================================================================
