------------------------------- MODULE MCMfs -------------------------------
(* Model checking of Mfs: the constants are set in the cfg files.            *)
EXTENDS Mfs

\* The instances are such as the theorems are about.
ASSUME MCMfsAssumption == ~AnyUnlink => Modest
=============================================================================
