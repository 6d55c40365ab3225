------------------------------- MODULE MCProc -------------------------------
(* Model checking of Proc: the constants are set in the cfg files.           *)
EXTENDS Proc
=============================================================================
