------------------------------- MODULE Mutex -------------------------------
(***************************************************************************)
(* What lock() and unlock() promise to a program: at most one thread is    *)
(* between the two.  It is the specification UserLock implements on one    *)
(* CPU.                                                                    *)
(***************************************************************************)
CONSTANT Thread
VARIABLE holders    \* the threads between lock() and unlock()

Init == holders = {}

Lock(t) == holders = {} /\ holders' = {t}

Unlock(t) == t \in holders /\ holders' = holders \ {t}

Next == \E t \in Thread : Lock(t) \/ Unlock(t)

Spec == Init /\ [][Next]_holders
=============================================================================
