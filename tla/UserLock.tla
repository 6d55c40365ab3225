------------------------------ MODULE UserLock ------------------------------
(***************************************************************************)
(* The lock(int *l) and unlock(int *l) system calls of                     *)
(* p4b/xv6_submitted_ver/kernel/proc.c, used by the workers of             *)
(* user/locks.c: every worker goes through                                 *)
(*     lock(&locks); tmp = global; global = tmp + 1; unlock(&locks);       *)
(* Loops times.                                                            *)
(*                                                                         *)
(* The spin lock both calls take is proc->guard, a field of the CALLING    *)
(* process: it excludes nobody else, and all it does is to keep interrupts *)
(* off on this CPU.  A thread therefore runs undisturbed by its own CPU    *)
(* from acquire to release, and not by the others.  ptable.lock makes one  *)
(* step of the end of sleep() and one of wakeup().                         *)
(***************************************************************************)
EXTENDS Integers, FiniteSets

CONSTANTS
    Thread,     \* the workers
    CPU,
    NoThread,   \* "no thread": an idle CPU
    Loops       \* bound: how often a worker goes round (1000 in locks.c)

ASSUME UserLockAssumption ==
    /\ NoThread \notin Thread
    /\ Loops \in Nat \ {0}

\* Interrupts are on, and the timer may take the CPU away.
Open == {"user", "woken", "read", "write", "unlock"}
\* proc->guard is held.
Guarded == {"test", "set", "nap", "clear", "wake"}
Pc == Open \cup Guarded \cup {"asleep", "done"}

VARIABLES
    word,       \* *l
    global,     \* user/locks.c
    tmp,        \* user/locks.c, one in each worker
    todo,       \* rounds a worker has left
    pc,         \* where a worker stands
    on          \* the thread a CPU runs

vars == <<word, global, tmp, todo, pc, on>>

TypeOK ==
    /\ word \in {0, 1}
    /\ global \in Nat
    /\ tmp \in [Thread -> Nat]
    /\ todo \in [Thread -> 0..Loops]
    /\ pc \in [Thread -> Pc]
    /\ on \in [CPU -> Thread \cup {NoThread}]

Init ==
    /\ word = 0
    /\ global = 0
    /\ tmp = [t \in Thread |-> 0]
    /\ todo = [t \in Thread |-> Loops]
    /\ pc = [t \in Thread |-> "user"]
    /\ on = [c \in CPU |-> NoThread]

-----------------------------------------------------------------------------
OnCpu(t) == \E c \in CPU : on[c] = t
Goto(t, l) == pc' = [pc EXCEPT ![t] = l]
At(c, t, l) == on[c] = t /\ pc[t] = l
Idle(c) == on' = [on EXCEPT ![c] = NoThread]

\* scheduler(): a RUNNABLE thread that no CPU runs.
Dispatch(c, t) ==
    /\ on[c] = NoThread /\ ~OnCpu(t) /\ pc[t] \notin {"asleep", "done"}
    /\ on' = [on EXCEPT ![c] = t]
    /\ UNCHANGED <<word, global, tmp, todo, pc>>

\* Mutant: a guard that does not keep the timer away.
PreemptAnywhere(c, t) ==
    /\ on[c] = t /\ pc[t] \in Open \cup Guarded
    /\ Idle(c)
    /\ UNCHANGED <<word, global, tmp, todo, pc>>

\* The timer interrupt and yield().
Preempt(c, t) ==
    /\ on[c] = t /\ pc[t] \in Open
    /\ Idle(c)
    /\ UNCHANGED <<word, global, tmp, todo, pc>>

\* acquire(&(proc->guard)) at the top of lock(), and when sleep() returns.
Guard(c, t) ==
    /\ on[c] = t /\ pc[t] \in {"user", "woken"}
    /\ Goto(t, "test")
    /\ UNCHANGED <<word, global, tmp, todo, on>>

\* Mutant: waits for the word without giving the CPU away.
TestSpin(c, t) ==
    /\ At(c, t, "test")
    /\ Goto(t, IF word = 1 THEN "test" ELSE "set")
    /\ UNCHANGED <<word, global, tmp, todo, on>>

\* while(*l == 1)
Test(c, t) ==
    /\ At(c, t, "test")
    /\ Goto(t, IF word = 1 THEN "nap" ELSE "set")
    /\ UNCHANGED <<word, global, tmp, todo, on>>

\* *l = 1, release the guard and return to the program.
Set(c, t) ==
    /\ At(c, t, "set")
    /\ word' = 1
    /\ Goto(t, "read")
    /\ UNCHANGED <<global, tmp, todo, on>>

\* sleep(l, &(proc->guard)): under ptable.lock the thread becomes SLEEPING and
\* the CPU goes back to the scheduler.
Nap(c, t) ==
    /\ At(c, t, "nap")
    /\ Goto(t, "asleep")
    /\ Idle(c)
    /\ UNCHANGED <<word, global, tmp, todo>>

\* tmp = global
Read(c, t) ==
    /\ At(c, t, "read")
    /\ tmp' = [tmp EXCEPT ![t] = global]
    /\ Goto(t, "write")
    /\ UNCHANGED <<word, global, todo, on>>

\* global = tmp + 1
Write(c, t) ==
    /\ At(c, t, "write")
    /\ global' = tmp[t] + 1
    /\ Goto(t, "unlock")
    /\ UNCHANGED <<word, tmp, todo, on>>

\* acquire(&(proc->guard)) of unlock().
Reguard(c, t) ==
    /\ At(c, t, "unlock")
    /\ Goto(t, "clear")
    /\ UNCHANGED <<word, global, tmp, todo, on>>

\* *l = 0
Clear(c, t) ==
    /\ At(c, t, "clear")
    /\ word' = 0
    /\ Goto(t, "wake")
    /\ UNCHANGED <<global, tmp, todo, on>>

\* What a round leaves: the next one, or the exit of the worker.
EndOfRound(c, t) ==
    /\ todo' = [todo EXCEPT ![t] = @ - 1]
    /\ IF todo[t] = 1 THEN Idle(c) ELSE UNCHANGED on
    /\ UNCHANGED <<word, global, tmp>>

\* Mutant: unlock() without wakeup.
WakeNobody(c, t) ==
    /\ At(c, t, "wake")
    /\ Goto(t, IF todo[t] = 1 THEN "done" ELSE "user")
    /\ EndOfRound(c, t)

\* wakeup(l) makes every thread asleep on l RUNNABLE; unlock() returns.
Wake(c, t) ==
    /\ At(c, t, "wake")
    /\ pc' = [u \in Thread |->
                IF u = t THEN (IF todo[t] = 1 THEN "done" ELSE "user")
                ELSE IF pc[u] = "asleep" THEN "woken" ELSE pc[u]]
    /\ EndOfRound(c, t)

Step(c, t) ==
    \/ Guard(c, t) \/ Test(c, t) \/ Set(c, t) \/ Nap(c, t)
    \/ Read(c, t) \/ Write(c, t)
    \/ Reguard(c, t) \/ Clear(c, t) \/ Wake(c, t)

Done == \A t \in Thread : pc[t] = "done"
Finished == Done /\ UNCHANGED vars

Next ==
    \/ \E c \in CPU, t \in Thread : Dispatch(c, t) \/ Preempt(c, t) \/ Step(c, t)
    \/ Finished

Spec == Init /\ [][Next]_vars

-----------------------------------------------------------------------------
\* The threads that have the lock: from *l = 1 to *l = 0.
Holders == {t \in Thread : pc[t] \in {"read", "write", "unlock", "clear"}}

\* The lock is a mutex: on one CPU every step of lock and unlock is a step of
\* the abstract one.
M == INSTANCE Mutex WITH holders <- Holders
ImplementsMutex == M!Spec

\* "we can be guaranteed that we won't miss any wakeup" (proc.c:504-509): a
\* thread sleeps on the lock only while the lock is taken or a wakeup for it
\* is still to come.
WakeupsKept ==
    (\E t \in Thread : pc[t] = "asleep") =>
        word = 1 \/ \E t \in Thread : pc[t] = "wake"

\* "assert(global == num_threads * loops)" (user/locks.c:43), which main()
\* evaluates when it has joined every worker: no increment is lost.
GlobalCounts == Done => global = Cardinality(Thread) * Loops
=============================================================================
