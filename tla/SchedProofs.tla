---------------------------- MODULE SchedProofs ----------------------------
(***************************************************************************)
(* The safety of the context switch for any number of CPUs and processes.  *)
(* IInv strengthens the invariants of Sched to an inductive one: it says   *)
(* which locks a CPU holds, and how its interrupts are masked, as a        *)
(* function of where the stack it executes on stands.                      *)
(***************************************************************************)
EXTENDS Sched, TLAPS

\* The label of the process CPU c executes on.
Here(c, L) == on[c] # NoProc /\ pc[on[c]] \in L

HoldsTable(c) == \/ on[c] = NoProc /\ scan[c] # 0
                 \/ Here(c, Resume \cup {"sleep2", "sleep3"})

HoldsTicks(c) == \/ irq[c] \in {"wakeup", "tickrel"}
                 \/ Here(c, {"test", "sleep1", "sleep2", "sleepend"})

LockInv ==
    \A c \in CPU : /\ (locked["ptable"] = c) <=> HoldsTable(c)
                   /\ (locked["tickslock"] = c) <=> HoldsTicks(c)
                   /\ ncli[c] = One(HoldsTable(c)) + One(HoldsTicks(c))

\* What an interrupt may interrupt, and who runs with interrupts on.
IntsInv ==
    \A c \in CPU :
        /\ ints[c] => irq[c] = "none"
        /\ ints[c] \/ irq[c] # "none" =>
              (on[c] = NoProc /\ scan[c] = 0) \/ Here(c, Open)
        /\ irq[c] = "none" =>
              /\ on[c] = NoProc /\ scan[c] = 0 => ints[c]
              /\ Here(c, Open \ {"exit"}) => ints[c]
        /\ irq[c] \in {"tick", "wakeup", "tickrel"} => c = BootCPU

\* intena is that of the stack that took the first lock.
IntenaInv ==
    \A c \in CPU :
        /\ irq[c] \in {"wakeup", "tickrel"} => ~intena[c]
        /\ Here(c, {"test", "sleep1", "sleep2", "sleep3", "sleepend"}) =>
              intena[c]
        /\ \A p \in Proc : on[c] = p /\ InSched(p) =>
              /\ pc[p] = "sleepret" => intena[c]
              /\ pc[p] = "yieldret" => ~intena[c]

\* The intena a suspended stack puts back when it resumes.
SavedInv ==
    \A p \in Proc :
        (\A c \in CPU : on[c] = p => state[p] = "RUNNING") =>
            /\ pc[p] = "sleepret" => saved[p]
            /\ pc[p] = "yieldret" => ~saved[p]

\* The state of a slot against the label of its stack.
StateInv ==
    \A p \in Proc :
        /\ state[p] = "SLEEPING" => pc[p] = "sleepret"
        /\ state[p] = "RUNNABLE" => pc[p] \in Resume \ {"zombie"}
        /\ state[p] \in {"UNUSED", "EMBRYO", "ZOMBIE"} => pc[p] = "zombie"
        /\ state[p] = "RUNNING" => pc[p] # "zombie"
        /\ \A c \in CPU : on[c] = p =>
              /\ state[p] \notin {"UNUSED", "EMBRYO"}
              /\ state[p] = "RUNNING" \/ pc[p] \in Resume
        /\ state[p] = "RUNNING" => \E c \in CPU : on[c] = p

ChildInv ==
    \A p \in Proc :
        /\ child[p] # NoProc => state[child[p]] = "EMBRYO"
        /\ \A q \in Proc : child[p] = child[q] /\ child[p] # NoProc => p = q

\* A sleeper whose ticks have passed.
WakeInv ==
    \A p \in Proc :
        /\ pc[p] \in {"sleep1", "sleep2"} => ~elapsed[p]
        /\ (pc[p] = "sleep3" \/ state[p] = "SLEEPING") /\ elapsed[p] =>
              irq[BootCPU] = "wakeup"

\* A process executes on a CPU only in the middle of that CPU's table scan.
ScanInv == \A c \in CPU : on[c] # NoProc => scan[c] # 0

IInv == /\ ScanInv /\ TypeOK /\ LockInv /\ IntsInv /\ IntenaInv /\ SavedInv
        /\ StateInv /\ ChildInv /\ WakeInv /\ StackExclusive

-----------------------------------------------------------------------------
USE SchedAssumption DEF Proc, NoProc, Lock, State, Resume, Open, Label, Sleeping

\* The boot state satisfies the inductive invariant.
LEMMA InitInv == Init => IInv
BY DEF Init, IInv, TypeOK, LockInv, IntsInv, IntenaInv, SavedInv, StateInv,
       ChildInv, WakeInv, StackExclusive, ScanInv, HoldsTable, HoldsTicks,
       Here, One, InSched

\* A process on a CPU is on no other one, and is RUNNING except inside sched().
LEMMA Alone ==
  ASSUME IInv, NEW c \in CPU, NEW p \in Proc, on[c] = p
  PROVE  /\ \A d \in CPU \ {c} : on[d] # p
         /\ state[p] \notin {"UNUSED", "EMBRYO"}
         /\ pc[p] \notin Resume => state[p] = "RUNNING"
BY DEF IInv, StackExclusive, StateInv

\* The locks and the interrupts of the CPU a process executes on.
LEMMA Locks ==
  ASSUME IInv, NEW c \in CPU, NEW p \in Proc, on[c] = p, irq[c] = "none"
  PROVE  /\ (locked["ptable"] = c) <=> pc[p] \in Resume \cup {"sleep2", "sleep3"}
         /\ (locked["tickslock"] = c) <=>
               pc[p] \in {"test", "sleep1", "sleep2", "sleepend"}
         /\ ncli[c] = One(locked["ptable"] = c) + One(locked["tickslock"] = c)
         /\ ints[c] => pc[p] \in Open
         /\ pc[p] \in Open \ {"exit"} => ints[c]
         /\ pc[p] \in {"test", "sleep1", "sleep2", "sleep3", "sleepend"} => intena[c]
<1>0. p # NoProc
  OBVIOUS
<1>1. (locked["ptable"] = c) <=> pc[p] \in Resume \cup {"sleep2", "sleep3"}
  BY <1>0 DEF IInv, LockInv, HoldsTable, Here
<1>2. (locked["tickslock"] = c) <=>
               pc[p] \in {"test", "sleep1", "sleep2", "sleepend"}
  BY <1>0 DEF IInv, LockInv, HoldsTicks, Here
<1>3. ncli[c] = One(locked["ptable"] = c) + One(locked["tickslock"] = c)
  BY DEF IInv, LockInv, One
<1>4. /\ ints[c] => pc[p] \in Open
      /\ pc[p] \in Open \ {"exit"} => ints[c]
  BY DEF IInv, IntsInv, Here
<1>5. pc[p] \in {"test", "sleep1", "sleep2", "sleep3", "sleepend"} => intena[c]
  BY DEF IInv, IntenaInv, Here
<1> QED BY <1>1, <1>2, <1>3, <1>4, <1>5

\* A CPU that takes or handles an interrupt holds at most tickslock.
LEMMA Quiet ==
  ASSUME IInv, NEW c \in CPU, irq[c] # "none" \/ ints[c]
  PROVE  /\ (on[c] = NoProc /\ scan[c] = 0) \/ Here(c, Open)
         /\ locked["ptable"] # c
         /\ (locked["tickslock"] = c) <=> irq[c] \in {"wakeup", "tickrel"}
         /\ ncli[c] = One(irq[c] \in {"wakeup", "tickrel"})
<1>1. (on[c] = NoProc /\ scan[c] = 0) \/ Here(c, Open)
  BY DEF IInv, IntsInv
<1>2. ~HoldsTable(c)
  BY <1>1 DEF HoldsTable, Here
<1>3. HoldsTicks(c) <=> irq[c] \in {"wakeup", "tickrel"}
  BY <1>1 DEF HoldsTicks, Here
<1> QED BY <1>1, <1>2, <1>3 DEF IInv, LockInv, One

\* A CPU on its scheduler stack.
LEMMA Scanning ==
  ASSUME IInv, NEW c \in CPU, on[c] = NoProc, scan[c] # 0
  PROVE  /\ irq[c] = "none" /\ ~ints[c] /\ ncli[c] = 1
         /\ locked["ptable"] = c /\ locked["tickslock"] # c
<1>1. irq[c] = "none" /\ ~ints[c]
  BY DEF IInv, TypeOK, IntsInv, Here
<1>2. HoldsTable(c) /\ ~HoldsTicks(c)
  BY <1>1 DEF HoldsTable, HoldsTicks, Here
<1> QED BY <1>1, <1>2 DEF IInv, LockInv, One

\* Unless its CPU holds ptable.lock, a process on a CPU is RUNNING.
LEMMA OnRunning ==
  ASSUME IInv, NEW d \in CPU, NEW q \in Proc, on[d] = q, locked["ptable"] # d
  PROVE  state[q] = "RUNNING"
<1>1. q # NoProc
  OBVIOUS
<1>2. pc[q] \notin Resume
  BY <1>1 DEF IInv, LockInv, HoldsTable, Here
<1> QED BY <1>2 DEF IInv, StateInv

\* Who is inside sleep() holds the lock that keeps the tick handler away.
LEMMA InSleep ==
  ASSUME IInv, NEW q \in Proc
  PROVE  /\ pc[q] \in {"sleep1", "sleep2"} => locked["tickslock"] \in CPU
         /\ pc[q] = "sleep3" => locked["ptable"] \in CPU
<1>0. q # NoProc
  OBVIOUS
<1>1. ASSUME pc[q] \in {"sleep1", "sleep2", "sleep3"} PROVE \E c \in CPU : on[c] = q
  <2>1. state[q] \in State
    BY DEF IInv, TypeOK
  <2>2. state[q] = "RUNNING"
    BY <1>1, <2>1 DEF IInv, StateInv
  <2> QED BY <2>2 DEF IInv, StateInv
<1>2. ASSUME NEW c \in CPU, on[c] = q, pc[q] \in {"sleep1", "sleep2"}
      PROVE locked["tickslock"] = c
  BY <1>0, <1>2 DEF IInv, LockInv, HoldsTicks, Here
<1>3. ASSUME NEW c \in CPU, on[c] = q, pc[q] = "sleep3"
      PROVE locked["ptable"] = c
  BY <1>0, <1>3 DEF IInv, LockInv, HoldsTable, Here
<1> QED BY <1>1, <1>2, <1>3

\* Every step of a CPU preserves the inductive invariant.
LEMMA StepInv == IInv /\ [Next]_vars => IInv'
<1> SUFFICES ASSUME IInv, [Next]_vars PROVE IInv'
  OBVIOUS
<1> USE DEF IInv
<1>1. ASSUME NEW c \in CPU, SchedulerAcquire(c) PROVE IInv'
  <2>a. /\ on[c] = NoProc /\ irq[c] = "none" /\ scan[c] = 0
        /\ ncli[c] = 0
        /\ ints[c]
        /\ locked["tickslock"] # c
    BY <1>1, SMTT(30) DEF SchedulerAcquire, Acquire, procVars, TypeOK, LockInv, IntsInv, HoldsTable, HoldsTicks, Here, One
  <2>1. TypeOK' /\ ChildInv' /\ ScanInv' /\ StackExclusive' /\ SavedInv' /\ StateInv' /\ WakeInv'
    BY <1>1, <2>a DEF SchedulerAcquire, Acquire, procVars, TypeOK, ChildInv,
       ScanInv, StackExclusive, SavedInv, StateInv, WakeInv
  <2>2. LockInv' /\ IntsInv' /\ IntenaInv'
    BY <1>1, <2>a DEF SchedulerAcquire, Acquire, procVars, TypeOK, LockInv,
       HoldsTable, HoldsTicks, Here, One, IntsInv, IntenaInv, InSched
  <2> QED BY <2>1, <2>2
<1>2. ASSUME NEW c \in CPU, SchedulerSwitch(c) PROVE IInv'
  <2>a. /\ on[c] = NoProc /\ irq[c] = "none" /\ scan[c] # 0
        /\ ncli[c] = 1
        /\ ~ints[c]
        /\ locked["ptable"] = c
        /\ locked["tickslock"] # c
        /\ \A q \in Proc : state[q] = "RUNNABLE" => \A e \in CPU : on[e] # q
    BY <1>2, Scanning, OnRunning DEF SchedulerSwitch
  <2>p. PICK q \in Proc :
          /\ state[q] = "RUNNABLE"
          /\ state' = [state EXCEPT ![q] = "RUNNING"]
          /\ on' = [on EXCEPT ![c] = q]
          /\ scan' = [scan EXCEPT ![c] = q + 1]
          /\ UNCHANGED <<killed, child, elapsed, pc, ret, saved, irq, lockVars>>
    BY <1>2 DEF SchedulerSwitch, Ahead
  <2>q. /\ q \in Nat /\ q # NoProc
        /\ pc[q] \in Resume \ {"zombie"} /\ \A e \in CPU : on[e] # q
    BY <2>a, <2>p DEF StateInv
  <2>1. TypeOK' /\ ScanInv' /\ StackExclusive'
    BY <1>2, <2>a, <2>p, <2>q DEF lockVars, TypeOK, ScanInv, StackExclusive
  <2>5. SavedInv' /\ StateInv'
    BY <1>2, <2>a, <2>p, <2>q DEF lockVars, TypeOK, SavedInv, StateInv,
       StackExclusive
  <2>6. ChildInv' /\ WakeInv'
    BY <1>2, <2>a, <2>p, <2>q DEF lockVars, TypeOK, ChildInv, StateInv,
       WakeInv
  <2>2. LockInv'
    BY <1>2, <2>a, <2>p, <2>q DEF lockVars, TypeOK, Here, LockInv,
       HoldsTable, HoldsTicks, One
  <2>3. IntsInv'
    BY <1>2, <2>a, <2>p, <2>q DEF lockVars, TypeOK, Here, IntsInv
  <2>4. IntenaInv'
    BY <1>2, <2>a, <2>p, <2>q DEF lockVars, TypeOK, Here, IntenaInv, InSched
  <2> QED BY <2>1, <2>2, <2>3, <2>4, <2>5, <2>6
<1>3. ASSUME NEW c \in CPU, SchedulerRelease(c) PROVE IInv'
  <2>a. /\ on[c] = NoProc /\ irq[c] = "none" /\ scan[c] # 0
        /\ ncli[c] = 1
        /\ ~ints[c]
        /\ locked["ptable"] = c
        /\ locked["tickslock"] # c
    BY <1>3, Scanning DEF SchedulerRelease
  <2>1. TypeOK' /\ ChildInv' /\ ScanInv' /\ StackExclusive' /\ SavedInv' /\ StateInv' /\ WakeInv'
    BY <1>3, <2>a DEF SchedulerRelease, procVars, TypeOK, ChildInv, ScanInv,
       StackExclusive, SavedInv, StateInv, WakeInv
  <2>2. LockInv'
    BY <1>3, <2>a DEF SchedulerRelease, procVars, TypeOK, Here, LockInv,
       HoldsTable, HoldsTicks, One
  <2>3. IntsInv'
    BY <1>3, <2>a DEF SchedulerRelease, procVars, TypeOK, Here, IntsInv
  <2>4. IntenaInv'
    BY <1>3, <2>a DEF SchedulerRelease, procVars, TypeOK, Here, IntenaInv,
       InSched
  <2> QED BY <2>1, <2>2, <2>3, <2>4
<1>4. ASSUME NEW c \in CPU, TimerInterrupt(c) PROVE IInv'
  <2>a. /\ irq[c] = "none"
        /\ ncli[c] = 0
        /\ (on[c] = NoProc /\ scan[c] = 0) \/ Here(c, Open)
    BY <1>4, Quiet DEF TimerInterrupt, Section, IntsInv, IntenaInv, One, Here
  <2>1. TypeOK' /\ ChildInv' /\ ScanInv' /\ StackExclusive' /\ SavedInv' /\ StateInv' /\ WakeInv'
    BY <1>4, <2>a DEF TimerInterrupt, procVars, TypeOK, ChildInv, ScanInv,
       StackExclusive, SavedInv, StateInv, WakeInv
  <2>2. LockInv'
    BY <1>4, <2>a DEF TimerInterrupt, procVars, TypeOK, Here, LockInv,
       HoldsTable, HoldsTicks, One
  <2>3. IntsInv'
    BY <1>4, <2>a DEF TimerInterrupt, procVars, TypeOK, Here, IntsInv
  <2>4. IntenaInv'
    BY <1>4, <2>a DEF TimerInterrupt, procVars, TypeOK, Here, IntenaInv,
       InSched
  <2> QED BY <2>1, <2>2, <2>3, <2>4
<1>5. ASSUME NEW c \in CPU, Tick(c) PROVE IInv'
  <2>a. /\ c = BootCPU
        /\ ncli[c] = 0
        /\ ~ints[c]
        /\ locked["ptable"] # c
        /\ (on[c] = NoProc /\ scan[c] = 0) \/ Here(c, Open)
    BY <1>5, Quiet DEF Tick, Section, IntsInv, IntenaInv, One, Here
  <2>1. TypeOK' /\ ChildInv' /\ ScanInv' /\ StackExclusive' /\ SavedInv' /\ StateInv' /\ WakeInv'
    BY <1>5, <2>a, InSleep DEF Tick, Acquire, TypeOK, ChildInv, ScanInv,
       StackExclusive, SavedInv, StateInv, WakeInv
  <2>2. LockInv'
    BY <1>5, <2>a DEF Tick, Acquire, TypeOK, Here, LockInv, HoldsTable,
       HoldsTicks, One
  <2>3. IntsInv'
    BY <1>5, <2>a DEF Tick, Acquire, TypeOK, Here, IntsInv
  <2>4. IntenaInv'
    BY <1>5, <2>a DEF Tick, Acquire, TypeOK, Here, IntenaInv, InSched
  <2> QED BY <2>1, <2>2, <2>3, <2>4
<1>6. ASSUME NEW c \in CPU, Wakeup(c) PROVE IInv'
  <2>a. /\ c = BootCPU
        /\ locked["tickslock"] = c
        /\ ~ints[c]
        /\ (on[c] = NoProc /\ scan[c] = 0) \/ Here(c, Open)
    BY <1>6, Quiet DEF Wakeup, Section, IntsInv, IntenaInv, One, Here
  <2>1. TypeOK' /\ ChildInv' /\ ScanInv' /\ StackExclusive' /\ SavedInv' /\ StateInv' /\ WakeInv'
    BY <1>6, <2>a, InSleep DEF Wakeup, Section, lockVars, TypeOK, ChildInv,
       ScanInv, StackExclusive, SavedInv, StateInv, WakeInv
  <2>2. LockInv' /\ IntsInv' /\ IntenaInv'
    BY <1>6, <2>a DEF Wakeup, Section, lockVars, TypeOK, LockInv, HoldsTable,
       HoldsTicks, Here, One, IntsInv, IntenaInv, InSched
  <2> QED BY <2>1, <2>2
<1>7. ASSUME NEW c \in CPU, TickRelease(c) PROVE IInv'
  <2>a. /\ c = BootCPU
        /\ locked["tickslock"] = c
        /\ ncli[c] = 1
        /\ ~ints[c]
        /\ ~intena[c]
        /\ locked["ptable"] # c
        /\ (on[c] = NoProc /\ scan[c] = 0) \/ Here(c, Open)
    BY <1>7, Quiet DEF TickRelease, Section, IntsInv, IntenaInv, One, Here
  <2>1. TypeOK' /\ ChildInv' /\ ScanInv' /\ StackExclusive' /\ SavedInv' /\ StateInv' /\ WakeInv'
    BY <1>7, <2>a DEF TickRelease, Release, procVars, TypeOK, ChildInv,
       ScanInv, StackExclusive, SavedInv, StateInv, WakeInv
  <2>2. LockInv' /\ IntsInv' /\ IntenaInv'
    BY <1>7, <2>a DEF TickRelease, Release, procVars, TypeOK, LockInv,
       HoldsTable, HoldsTicks, Here, One, IntsInv, IntenaInv, InSched
  <2> QED BY <2>1, <2>2
<1>8. ASSUME NEW c \in CPU, TrapIdle(c) PROVE IInv'
  <2>a. /\ scan[c] = 0
        /\ ~ints[c]
        /\ ncli[c] = 0
    BY <1>8, Quiet DEF TrapIdle, Section, IntsInv, IntenaInv, One, Here
  <2>1. TypeOK' /\ ChildInv' /\ ScanInv' /\ StackExclusive' /\ SavedInv' /\ StateInv' /\ WakeInv'
    BY <1>8, <2>a DEF TrapIdle, procVars, TypeOK, ChildInv, ScanInv,
       StackExclusive, SavedInv, StateInv, WakeInv
  <2>2. LockInv' /\ IntsInv' /\ IntenaInv'
    BY <1>8, <2>a DEF TrapIdle, procVars, TypeOK, LockInv, HoldsTable,
       HoldsTicks, Here, One, IntsInv, IntenaInv, InSched
  <2> QED BY <2>1, <2>2
<1>9. ASSUME NEW c \in CPU, NEW p \in Proc, Sched(c, p) PROVE IInv'
  <2>a. /\ on[c] = p /\ irq[c] = "none" /\ pc[p] \in Resume /\ state[p] # "RUNNING"
    BY <1>9 DEF Sched, Runs, InSched
  <2>b. locked["ptable"] = c /\ ncli[c] = 1 /\ ~ints[c] /\ locked["tickslock"] # c /\ scan[c] # 0
    BY <2>a, Locks, SMTT(30) DEF One, ScanInv
  <2>c. \A d \in CPU \ {c} : on[d] # p
    BY <2>a, Alone
  <2>1. TypeOK' /\ ChildInv' /\ ScanInv' /\ StackExclusive' /\ SavedInv' /\ StateInv' /\ WakeInv'
    BY <1>9, <2>a, <2>b, <2>c DEF Sched, lockVars, TypeOK, ChildInv, ScanInv,
       StackExclusive, SavedInv, IntenaInv, InSched, StateInv, WakeInv
  <2>2. LockInv' /\ IntsInv' /\ IntenaInv'
    BY <1>9, <2>a, <2>b, <2>c DEF Sched, lockVars, TypeOK, LockInv, HoldsTable,
       HoldsTicks, Here, One, IntsInv, IntenaInv, InSched
  <2> QED BY <2>1, <2>2
<1>10. ASSUME NEW c \in CPU, NEW p \in Proc, Syscall(c, p) PROVE IInv'
  <2>a. on[c] = p /\ irq[c] = "none" /\ pc[p] = "user" /\ state[p] = "RUNNING"
    BY <1>10, Alone DEF Syscall, At, Runs, InSched
  <2>b. /\ ints[c]
        /\ ncli[c] = 0
    BY <1>10, <2>a, Locks DEF One
  <2>c. \A d \in CPU \ {c} : on[d] # p
    BY <2>a, Alone
  <2>1. TypeOK' /\ ChildInv' /\ ScanInv' /\ StackExclusive' /\ SavedInv' /\ StateInv' /\ WakeInv'
    BY <1>10, <2>a, <2>b, <2>c DEF Syscall, Goto, Unmoved, lockVars, TypeOK,
       ChildInv, ScanInv, StackExclusive, SavedInv, StateInv, WakeInv
  <2>2. LockInv'
    BY <1>10, <2>a, <2>b, <2>c DEF Syscall, Goto, Unmoved, lockVars, TypeOK,
       Here, LockInv, HoldsTable, HoldsTicks, One
  <2>3. IntsInv'
    BY <1>10, <2>a, <2>b, <2>c DEF Syscall, Goto, Unmoved, lockVars, TypeOK,
       Here, IntsInv
  <2>4. IntenaInv'
    BY <1>10, <2>a, <2>b, <2>c DEF Syscall, Goto, Unmoved, lockVars, TypeOK,
       Here, IntenaInv, InSched
  <2> QED BY <2>1, <2>2, <2>3, <2>4
<1>11. ASSUME NEW c \in CPU, NEW p \in Proc, Forkret(c, p) PROVE IInv'
  <2>a. on[c] = p /\ irq[c] = "none" /\ pc[p] = "forkret" /\ state[p] = "RUNNING"
    BY <1>11, Alone DEF Forkret, At, Runs, InSched
  <2>b. /\ ~ints[c]
        /\ ncli[c] = 1
        /\ locked["ptable"] = c
        /\ locked["tickslock"] # c
    BY <1>11, <2>a, Locks DEF One
  <2>c. \A d \in CPU \ {c} : on[d] # p
    BY <2>a, Alone
  <2>1. TypeOK' /\ ChildInv' /\ ScanInv' /\ StackExclusive' /\ SavedInv' /\ StateInv' /\ WakeInv'
    BY <1>11, <2>a, <2>b, <2>c DEF Forkret, Goto, Unmoved, TypeOK, ChildInv,
       ScanInv, StackExclusive, SavedInv, StateInv, WakeInv
  <2>2. LockInv'
    BY <1>11, <2>a, <2>b, <2>c DEF Forkret, Goto, Unmoved, TypeOK, Here,
       LockInv, HoldsTable, HoldsTicks, One
  <2>3. IntsInv'
    BY <1>11, <2>a, <2>b, <2>c DEF Forkret, Goto, Unmoved, TypeOK, Here,
       IntsInv
  <2>4. IntenaInv'
    BY <1>11, <2>a, <2>b, <2>c DEF Forkret, Goto, Unmoved, TypeOK, Here,
       IntenaInv, InSched
  <2> QED BY <2>1, <2>2, <2>3, <2>4
<1>12. ASSUME NEW c \in CPU, NEW p \in Proc, SleepEnter(c, p) PROVE IInv'
  <2>a. on[c] = p /\ irq[c] = "none" /\ pc[p] = "sleep0" /\ state[p] = "RUNNING"
    BY <1>12, Alone DEF SleepEnter, At, Runs, InSched
  <2>b. /\ ints[c]
        /\ ncli[c] = 0
        /\ locked["ptable"] # c
    BY <1>12, <2>a, Locks DEF One
  <2>c. \A d \in CPU \ {c} : on[d] # p
    BY <2>a, Alone
  <2>1. TypeOK' /\ ChildInv' /\ ScanInv' /\ StackExclusive' /\ SavedInv' /\ StateInv' /\ WakeInv'
    BY <1>12, <2>a, <2>b, <2>c DEF SleepEnter, Acquire, Goto, Unmoved, TypeOK,
       ChildInv, ScanInv, StackExclusive, SavedInv, StateInv, WakeInv
  <2>2. LockInv' /\ IntsInv' /\ IntenaInv'
    BY <1>12, <2>a, <2>b, <2>c DEF SleepEnter, Acquire, Goto, Unmoved, TypeOK,
       LockInv, HoldsTable, HoldsTicks, Here, One, IntsInv, IntenaInv, InSched
  <2> QED BY <2>1, <2>2
<1>13. ASSUME NEW c \in CPU, NEW p \in Proc, SleepTest(c, p) PROVE IInv'
  <2>a. on[c] = p /\ irq[c] = "none" /\ pc[p] = "test" /\ state[p] = "RUNNING"
    BY <1>13, Alone DEF SleepTest, At, Runs, InSched
  <2>b. /\ ~ints[c]
        /\ ncli[c] = 1
        /\ intena[c]
        /\ locked["tickslock"] = c
    BY <1>13, <2>a, Locks DEF One
  <2>c. \A d \in CPU \ {c} : on[d] # p
    BY <2>a, Alone
  <2>1. TypeOK' /\ ChildInv' /\ ScanInv' /\ StackExclusive' /\ SavedInv' /\ StateInv' /\ WakeInv'
    BY <1>13, <2>a, <2>b, <2>c DEF SleepTest, Goto, Unmoved, lockVars, TypeOK,
       ChildInv, ScanInv, StackExclusive, SavedInv, StateInv, WakeInv
  <2>2. LockInv' /\ IntsInv' /\ IntenaInv'
    BY <1>13, <2>a, <2>b, <2>c DEF SleepTest, Goto, Unmoved, lockVars, TypeOK,
       LockInv, HoldsTable, HoldsTicks, Here, One, IntsInv, IntenaInv, InSched
  <2> QED BY <2>1, <2>2
<1>14. ASSUME NEW c \in CPU, NEW p \in Proc, SleepAcquire(c, p) PROVE IInv'
  <2>a. on[c] = p /\ irq[c] = "none" /\ pc[p] = "sleep1" /\ state[p] = "RUNNING"
    BY <1>14, Alone DEF SleepAcquire, At, Runs, InSched
  <2>b. /\ ~ints[c]
        /\ ncli[c] = 1
        /\ intena[c]
        /\ locked["tickslock"] = c
    BY <1>14, <2>a, Locks DEF One
  <2>c. \A d \in CPU \ {c} : on[d] # p
    BY <2>a, Alone
  <2>1. TypeOK' /\ ChildInv' /\ ScanInv' /\ StackExclusive' /\ SavedInv' /\ StateInv' /\ WakeInv'
    BY <1>14, <2>a, <2>b, <2>c DEF SleepAcquire, Acquire, Goto, Unmoved,
       TypeOK, ChildInv, ScanInv, StackExclusive, SavedInv, StateInv, WakeInv
  <2>2. LockInv' /\ IntsInv' /\ IntenaInv'
    BY <1>14, <2>a, <2>b, <2>c DEF SleepAcquire, Acquire, Goto, Unmoved,
       TypeOK, LockInv, HoldsTable, HoldsTicks, Here, One, IntsInv, IntenaInv,
       InSched
  <2> QED BY <2>1, <2>2
<1>15. ASSUME NEW c \in CPU, NEW p \in Proc, SleepRelease(c, p) PROVE IInv'
  <2>a. on[c] = p /\ irq[c] = "none" /\ pc[p] = "sleep2" /\ state[p] = "RUNNING"
    BY <1>15, Alone DEF SleepRelease, At, Runs, InSched
  <2>b. /\ ~ints[c]
        /\ ncli[c] = 2
        /\ intena[c]
        /\ locked["tickslock"] = c
        /\ locked["ptable"] = c
    BY <1>15, <2>a, Locks DEF One
  <2>c. \A d \in CPU \ {c} : on[d] # p
    BY <2>a, Alone
  <2>1. TypeOK' /\ ChildInv' /\ ScanInv' /\ StackExclusive' /\ SavedInv' /\ StateInv' /\ WakeInv'
    BY <1>15, <2>a, <2>b, <2>c DEF SleepRelease, Release, Goto, Unmoved,
       TypeOK, ChildInv, ScanInv, StackExclusive, SavedInv, StateInv, WakeInv
  <2>2. LockInv' /\ IntsInv' /\ IntenaInv'
    BY <1>15, <2>a, <2>b, <2>c DEF SleepRelease, Release, Goto, Unmoved,
       TypeOK, LockInv, HoldsTable, HoldsTicks, Here, One, IntsInv, IntenaInv,
       InSched
  <2> QED BY <2>1, <2>2
<1>16. ASSUME NEW c \in CPU, NEW p \in Proc, SleepSet(c, p) PROVE IInv'
  <2>a. on[c] = p /\ irq[c] = "none" /\ pc[p] = "sleep3" /\ state[p] = "RUNNING"
    BY <1>16, Alone DEF SleepSet, At, Runs, InSched
  <2>b. /\ ~ints[c]
        /\ ncli[c] = 1
        /\ intena[c]
        /\ locked["ptable"] = c
    BY <1>16, <2>a, Locks DEF One
  <2>c. \A d \in CPU \ {c} : on[d] # p
    BY <2>a, Alone
  <2>1. TypeOK' /\ ScanInv' /\ StackExclusive'
    BY <1>16, <2>a, <2>b, <2>c DEF SleepSet, Goto, Unmoved, lockVars,
       TypeOK, ScanInv, StackExclusive
  <2>5. SavedInv' /\ StateInv'
    BY <1>16, <2>a, <2>b, <2>c DEF SleepSet, Goto, Unmoved, lockVars,
       TypeOK, SavedInv, StateInv, StackExclusive
  <2>6. ChildInv' /\ WakeInv'
    BY <1>16, <2>a, <2>b, <2>c DEF SleepSet, Goto, Unmoved, lockVars,
       TypeOK, ChildInv, StateInv, WakeInv
  <2>2. LockInv'
    BY <1>16, <2>a, <2>b, <2>c DEF SleepSet, Goto, Unmoved, lockVars,
       TypeOK, Here, LockInv, HoldsTable, HoldsTicks, One
  <2>3. IntsInv'
    BY <1>16, <2>a, <2>b, <2>c DEF SleepSet, Goto, Unmoved, lockVars,
       TypeOK, Here, IntsInv
  <2>4. IntenaInv'
    BY <1>16, <2>a, <2>b, <2>c DEF SleepSet, Goto, Unmoved, lockVars,
       TypeOK, Here, IntenaInv, InSched
  <2> QED BY <2>1, <2>2, <2>3, <2>4, <2>5, <2>6
<1>17. ASSUME NEW c \in CPU, NEW p \in Proc, SleepResume(c, p) PROVE IInv'
  <2>a. on[c] = p /\ irq[c] = "none" /\ pc[p] = "sleepret" /\ state[p] = "RUNNING"
    BY <1>17, Alone DEF SleepResume, At, Runs, InSched
  <2>b. /\ ~ints[c]
        /\ ncli[c] = 1
        /\ saved[p]
        /\ locked["ptable"] = c
        /\ locked["tickslock"] # c
    BY <1>17, <2>a, Locks DEF One, SavedInv
  <2>c. \A d \in CPU \ {c} : on[d] # p
    BY <2>a, Alone
  <2>1. TypeOK' /\ ChildInv' /\ ScanInv' /\ StackExclusive' /\ SavedInv' /\ StateInv' /\ WakeInv'
    BY <1>17, <2>a, <2>b, <2>c DEF SleepResume, ResumeRelease, Goto, Unmoved,
       TypeOK, ChildInv, ScanInv, StackExclusive, SavedInv, StateInv, WakeInv
  <2>2. LockInv'
    BY <1>17, <2>a, <2>b, <2>c DEF SleepResume, ResumeRelease, Goto,
       Unmoved, TypeOK, Here, LockInv, HoldsTable, HoldsTicks, One
  <2>3. IntsInv'
    BY <1>17, <2>a, <2>b, <2>c DEF SleepResume, ResumeRelease, Goto,
       Unmoved, TypeOK, Here, IntsInv
  <2>4. IntenaInv'
    BY <1>17, <2>a, <2>b, <2>c DEF SleepResume, ResumeRelease, Goto,
       Unmoved, TypeOK, Here, IntenaInv, InSched
  <2> QED BY <2>1, <2>2, <2>3, <2>4
<1>18. ASSUME NEW c \in CPU, NEW p \in Proc, SleepAgain(c, p) PROVE IInv'
  <2>a. on[c] = p /\ irq[c] = "none" /\ pc[p] = "again" /\ state[p] = "RUNNING"
    BY <1>18, Alone DEF SleepAgain, At, Runs, InSched
  <2>b. /\ ints[c]
        /\ ncli[c] = 0
        /\ locked["ptable"] # c
    BY <1>18, <2>a, Locks DEF One
  <2>c. \A d \in CPU \ {c} : on[d] # p
    BY <2>a, Alone
  <2>1. TypeOK' /\ ChildInv' /\ ScanInv' /\ StackExclusive' /\ SavedInv' /\ StateInv' /\ WakeInv'
    BY <1>18, <2>a, <2>b, <2>c DEF SleepAgain, Acquire, Goto, Unmoved, TypeOK,
       ChildInv, ScanInv, StackExclusive, SavedInv, StateInv, WakeInv
  <2>2. LockInv'
    BY <1>18, <2>a, <2>b, <2>c DEF SleepAgain, Acquire, Goto, Unmoved,
       TypeOK, Here, LockInv, HoldsTable, HoldsTicks, One
  <2>3. IntsInv'
    BY <1>18, <2>a, <2>b, <2>c DEF SleepAgain, Acquire, Goto, Unmoved,
       TypeOK, Here, IntsInv
  <2>4. IntenaInv'
    BY <1>18, <2>a, <2>b, <2>c DEF SleepAgain, Acquire, Goto, Unmoved,
       TypeOK, Here, IntenaInv, InSched
  <2> QED BY <2>1, <2>2, <2>3, <2>4
<1>19. ASSUME NEW c \in CPU, NEW p \in Proc, SleepLeave(c, p) PROVE IInv'
  <2>a. on[c] = p /\ irq[c] = "none" /\ pc[p] = "sleepend" /\ state[p] = "RUNNING"
    BY <1>19, Alone DEF SleepLeave, At, Runs, InSched
  <2>b. /\ ~ints[c]
        /\ ncli[c] = 1
        /\ intena[c]
        /\ locked["tickslock"] = c
        /\ locked["ptable"] # c
    BY <1>19, <2>a, Locks DEF One
  <2>c. \A d \in CPU \ {c} : on[d] # p
    BY <2>a, Alone
  <2>1. TypeOK' /\ ChildInv' /\ ScanInv' /\ StackExclusive' /\ SavedInv' /\ StateInv' /\ WakeInv'
    BY <1>19, <2>a, <2>b, <2>c DEF SleepLeave, Release, Goto, Unmoved, TypeOK,
       ChildInv, ScanInv, StackExclusive, SavedInv, StateInv, WakeInv
  <2>2. LockInv' /\ IntsInv' /\ IntenaInv'
    BY <1>19, <2>a, <2>b, <2>c DEF SleepLeave, Release, Goto, Unmoved, TypeOK,
       LockInv, HoldsTable, HoldsTicks, Here, One, IntsInv, IntenaInv, InSched
  <2> QED BY <2>1, <2>2
<1>20. ASSUME NEW c \in CPU, NEW p \in Proc, Kill(c, p) PROVE IInv'
  <2>a. on[c] = p /\ irq[c] = "none" /\ pc[p] = "table" /\ state[p] = "RUNNING"
    BY <1>20, Alone DEF Kill, At, Runs, InSched
  <2>b. /\ ints[c]
        /\ ncli[c] = 0
    BY <1>20, <2>a, Locks DEF One
  <2>c. \A d \in CPU \ {c} : on[d] # p
    BY <2>a, Alone
  <2>1. TypeOK' /\ ChildInv' /\ ScanInv' /\ StackExclusive' /\ SavedInv' /\ StateInv' /\ WakeInv'
    BY <1>20, <2>a, <2>b, <2>c DEF Kill, Section, Goto, Unmoved, lockVars,
       TypeOK, ChildInv, ScanInv, StackExclusive, SavedInv, StateInv, WakeInv
  <2>2. LockInv'
    BY <1>20, <2>a, <2>b, <2>c DEF Kill, Section, Goto, Unmoved, lockVars,
       TypeOK, Here, LockInv, HoldsTable, HoldsTicks, One
  <2>3. IntsInv'
    BY <1>20, <2>a, <2>b, <2>c DEF Kill, Section, Goto, Unmoved, lockVars,
       TypeOK, Here, IntsInv
  <2>4. IntenaInv'
    BY <1>20, <2>a, <2>b, <2>c DEF Kill, Section, Goto, Unmoved, lockVars,
       TypeOK, Here, IntenaInv, InSched
  <2> QED BY <2>1, <2>2, <2>3, <2>4
<1>21. ASSUME NEW c \in CPU, NEW p \in Proc, Miss(c, p) PROVE IInv'
  <2>a. on[c] = p /\ irq[c] = "none" /\ pc[p] = "table" /\ state[p] = "RUNNING"
    BY <1>21, Alone DEF Miss, At, Runs, InSched
  <2>b. /\ ints[c]
        /\ ncli[c] = 0
    BY <1>21, <2>a, Locks DEF One
  <2>c. \A d \in CPU \ {c} : on[d] # p
    BY <2>a, Alone
  <2>1. TypeOK' /\ ChildInv' /\ ScanInv' /\ StackExclusive' /\ SavedInv' /\ StateInv' /\ WakeInv'
    BY <1>21, <2>a, <2>b, <2>c DEF Miss, Section, Goto, Unmoved, lockVars,
       TypeOK, ChildInv, ScanInv, StackExclusive, SavedInv, StateInv, WakeInv
  <2>2. LockInv'
    BY <1>21, <2>a, <2>b, <2>c DEF Miss, Section, Goto, Unmoved, lockVars,
       TypeOK, Here, LockInv, HoldsTable, HoldsTicks, One
  <2>3. IntsInv'
    BY <1>21, <2>a, <2>b, <2>c DEF Miss, Section, Goto, Unmoved, lockVars,
       TypeOK, Here, IntsInv
  <2>4. IntenaInv'
    BY <1>21, <2>a, <2>b, <2>c DEF Miss, Section, Goto, Unmoved, lockVars,
       TypeOK, Here, IntenaInv, InSched
  <2> QED BY <2>1, <2>2, <2>3, <2>4
<1>22. ASSUME NEW c \in CPU, NEW p \in Proc, Reap(c, p) PROVE IInv'
  <2>a. on[c] = p /\ irq[c] = "none" /\ pc[p] = "table" /\ state[p] = "RUNNING"
    BY <1>22, Alone DEF Reap, At, Runs, InSched
  <2>b. /\ ints[c]
        /\ ncli[c] = 0
    BY <1>22, <2>a, Locks DEF One
  <2>c. \A d \in CPU \ {c} : on[d] # p
    BY <2>a, Alone
  <2>p. PICK q \in Proc :
          /\ state[q] = "ZOMBIE" /\ \A d \in CPU : on[d] # q
          /\ state' = [state EXCEPT ![q] = "UNUSED"]
          /\ killed' = [killed EXCEPT ![q] = FALSE]
          /\ pc' = [pc EXCEPT ![p] = "user"]
          /\ UNCHANGED <<child, elapsed, ret, saved, on, scan, irq, lockVars>>
    <3>1. \A d \in CPU : locked["ptable"] # d
      BY <1>22 DEF Reap, Section
    <3>2. \A q \in Proc : state[q] = "ZOMBIE" => \A d \in CPU : on[d] # q
      BY <3>1, OnRunning
    <3> QED BY <1>22, <3>2 DEF Reap, Section, Goto, Unmoved
  <2>t. TypeOK'
    <3>1. /\ state' \in [Proc -> State]
          /\ killed' \in [Proc -> BOOLEAN]
          /\ pc' \in [Proc -> Label]
      BY <2>p DEF TypeOK
    <3> QED BY <2>p, <3>1 DEF lockVars, TypeOK
  <2>1. ScanInv' /\ StackExclusive'
    BY <1>22, <2>a, <2>c, <2>p DEF ScanInv, StackExclusive
  <2>5. SavedInv' /\ StateInv'
    BY <1>22, <2>a, <2>b, <2>c, <2>p DEF lockVars, TypeOK, SavedInv,
       StateInv, StackExclusive
  <2>6. ChildInv' /\ WakeInv'
    BY <1>22, <2>a, <2>b, <2>c, <2>p DEF lockVars, TypeOK, ChildInv,
       StateInv, WakeInv
  <2>2. LockInv'
    BY <1>22, <2>a, <2>b, <2>c, <2>p, SMTT(30) DEF lockVars, TypeOK, Here, LockInv,
       HoldsTable, HoldsTicks, One
  <2>3. IntsInv'
    BY <1>22, <2>a, <2>b, <2>c, <2>p DEF lockVars, TypeOK, Here, IntsInv
  <2>4. IntenaInv'
    BY <1>22, <2>a, <2>b, <2>c, <2>p DEF lockVars, TypeOK, Here, IntenaInv,
       InSched
  <2> QED BY <2>t, <2>1, <2>2, <2>3, <2>4, <2>5, <2>6
<1>23. ASSUME NEW c \in CPU, NEW p \in Proc, Allocproc(c, p) PROVE IInv'
  <2>a. on[c] = p /\ irq[c] = "none" /\ pc[p] = "table" /\ state[p] = "RUNNING"
    BY <1>23, Alone DEF Allocproc, At, Runs, InSched
  <2>b. /\ ints[c]
        /\ ncli[c] = 0
    BY <1>23, <2>a, Locks DEF One
  <2>c. \A d \in CPU \ {c} : on[d] # p
    BY <2>a, Alone
  <2>p. PICK q \in Proc :
          /\ state[q] = "UNUSED" /\ locked["ptable"] = NoCPU
          /\ state' = [state EXCEPT ![q] = "EMBRYO"]
          /\ child' = [child EXCEPT ![p] = q]
          /\ pc' = [pc EXCEPT ![p] = "born"]
          /\ UNCHANGED <<killed, elapsed, ret, saved, on, scan, irq, lockVars>>
    BY <1>23 DEF Allocproc, Section, Goto, Unmoved
  <2>q. /\ \A d \in CPU : on[d] # q
        /\ \A r \in Proc : child[r] # q
    BY <2>p, OnRunning DEF ChildInv
  <2>1. TypeOK' /\ ScanInv' /\ StackExclusive'
    BY <1>23, <2>a, <2>b, <2>c, <2>p, <2>q DEF lockVars, TypeOK, ScanInv,
       StackExclusive
  <2>5. SavedInv' /\ StateInv'
    BY <1>23, <2>a, <2>b, <2>c, <2>p, <2>q DEF lockVars, TypeOK, SavedInv,
       StateInv, StackExclusive
  <2>6. ChildInv' /\ WakeInv'
    BY <1>23, <2>a, <2>b, <2>c, <2>p, <2>q DEF lockVars, TypeOK, ChildInv,
       StateInv, WakeInv
  <2>2. LockInv'
    BY <1>23, <2>a, <2>b, <2>c, <2>p, <2>q DEF lockVars, TypeOK, Here,
       LockInv, HoldsTable, HoldsTicks, One
  <2>3. IntsInv'
    BY <1>23, <2>a, <2>b, <2>c, <2>p, <2>q DEF lockVars, TypeOK, Here,
       IntsInv
  <2>4. IntenaInv'
    BY <1>23, <2>a, <2>b, <2>c, <2>p, <2>q DEF lockVars, TypeOK, Here,
       IntenaInv, InSched
  <2> QED BY <2>1, <2>2, <2>3, <2>4, <2>5, <2>6
<1>24. ASSUME NEW c \in CPU, NEW p \in Proc, ForkFinish(c, p) PROVE IInv'
  <2>a. on[c] = p /\ irq[c] = "none" /\ pc[p] = "born" /\ state[p] = "RUNNING"
    BY <1>24, Alone DEF ForkFinish, At, Runs, InSched
  <2>b. /\ ints[c]
        /\ ncli[c] = 0
    BY <1>24, <2>a, Locks DEF One
  <2>c. \A d \in CPU \ {c} : on[d] # p
    BY <2>a, Alone
  <2>d. child[p] \in Proc /\ state[child[p]] = "EMBRYO"
    BY <1>24 DEF ForkFinish, TypeOK, ChildInv
  <2>e. pc[child[p]] = "zombie" /\ \A d \in CPU : on[d] # child[p]
    BY <2>d DEF StateInv
  <2>1. TypeOK'
    BY <1>24, <2>a, <2>b, <2>c, <2>d, <2>e DEF ForkFinish, Goto, Unmoved,
       lockVars, TypeOK
  <2>2. LockInv'
    BY <1>24, <2>a, <2>b, <2>c, <2>d, <2>e, SMTT(30) DEF ForkFinish, Goto, Unmoved,
       lockVars, TypeOK, LockInv, HoldsTable, HoldsTicks, Here, One
  <2>3. IntsInv'
    BY <1>24, <2>a, <2>b, <2>c, <2>d, <2>e DEF ForkFinish, Goto, Unmoved,
       lockVars, TypeOK, IntsInv, Here
  <2>4. IntenaInv'
    BY <1>24, <2>a, <2>b, <2>c, <2>d, <2>e DEF ForkFinish, Goto, Unmoved,
       lockVars, TypeOK, IntenaInv, Here, InSched
  <2>5. SavedInv'
    BY <1>24, <2>a, <2>b, <2>c, <2>d, <2>e DEF ForkFinish, Goto, Unmoved,
       lockVars, TypeOK, SavedInv
  <2>6. StateInv'
    BY <1>24, <2>a, <2>b, <2>c, <2>d, <2>e DEF ForkFinish, Goto, Unmoved,
       lockVars, TypeOK, StateInv
  <2>7. ChildInv'
    BY <1>24, <2>a, <2>b, <2>c, <2>d, <2>e DEF ForkFinish, Goto, Unmoved,
       lockVars, TypeOK, ChildInv
  <2>8. WakeInv'
    BY <1>24, <2>a, <2>b, <2>c, <2>d, <2>e DEF ForkFinish, Goto, Unmoved,
       lockVars, TypeOK, WakeInv
  <2>9. StackExclusive'
    BY <1>24, <2>a, <2>b, <2>c, <2>d, <2>e DEF ForkFinish, Goto, Unmoved,
       lockVars, TypeOK, StackExclusive
  <2>10. ScanInv'
    BY <1>24, <2>a, <2>b, <2>c, <2>d, <2>e DEF ForkFinish, Goto, Unmoved,
       lockVars, TypeOK, ScanInv
  <2> QED BY <2>1, <2>2, <2>3, <2>4, <2>5, <2>6, <2>7, <2>8, <2>9, <2>10
<1>25. ASSUME NEW c \in CPU, NEW p \in Proc, Exit(c, p) PROVE IInv'
  <2>a. on[c] = p /\ irq[c] = "none" /\ pc[p] = "exit" /\ state[p] = "RUNNING"
    BY <1>25, Alone DEF Exit, At, Runs, InSched
  <2>b. /\ ncli[c] = 0
        /\ locked["tickslock"] # c
    BY <1>25, <2>a, Locks DEF One
  <2>c. \A d \in CPU \ {c} : on[d] # p
    BY <2>a, Alone
  <2>1. TypeOK' /\ ChildInv' /\ ScanInv' /\ StackExclusive' /\ SavedInv' /\ StateInv' /\ WakeInv'
    BY <1>25, <2>a, <2>b, <2>c DEF Exit, Acquire, Goto, Unmoved, TypeOK,
       ChildInv, ScanInv, StackExclusive, SavedInv, StateInv, WakeInv
  <2>2. LockInv'
    BY <1>25, <2>a, <2>b, <2>c DEF Exit, Acquire, Goto, Unmoved, TypeOK,
       Here, LockInv, HoldsTable, HoldsTicks, One
  <2>3. IntsInv'
    BY <1>25, <2>a, <2>b, <2>c DEF Exit, Acquire, Goto, Unmoved, TypeOK,
       Here, IntsInv
  <2>4. IntenaInv'
    BY <1>25, <2>a, <2>b, <2>c DEF Exit, Acquire, Goto, Unmoved, TypeOK,
       Here, IntenaInv, InSched
  <2> QED BY <2>1, <2>2, <2>3, <2>4
<1>26. ASSUME NEW c \in CPU, NEW p \in Proc, TrapExit(c, p) PROVE IInv'
  <2>a. on[c] = p /\ irq[c] = "end"
    BY <1>26 DEF TrapExit
  <2>b. /\ ~ints[c]
        /\ pc[p] \in Open
        /\ ncli[c] = 0
        /\ state[p] = "RUNNING"
        /\ locked["ptable"] # c
        /\ locked["tickslock"] # c
    BY <2>a, Alone, Quiet DEF One, Here, IntsInv
  <2>c. \A d \in CPU \ {c} : on[d] # p
    BY <2>a, Alone
  <2>1. TypeOK' /\ ChildInv' /\ ScanInv' /\ StackExclusive' /\ SavedInv' /\ StateInv' /\ WakeInv'
    BY <1>26, <2>a, <2>b, <2>c DEF TrapExit, Goto, lockVars, TypeOK, ChildInv,
       ScanInv, StackExclusive, SavedInv, StateInv, WakeInv
  <2>2. LockInv' /\ IntsInv' /\ IntenaInv'
    BY <1>26, <2>a, <2>b, <2>c DEF TrapExit, Goto, lockVars, TypeOK, LockInv,
       HoldsTable, HoldsTicks, Here, One, IntsInv, IntenaInv, InSched
  <2> QED BY <2>1, <2>2
<1>27. ASSUME NEW c \in CPU, NEW p \in Proc, TrapYield(c, p) PROVE IInv'
  <2>a. on[c] = p /\ irq[c] = "end"
    BY <1>27 DEF TrapYield
  <2>b. /\ ~ints[c]
        /\ pc[p] \in Open
        /\ ncli[c] = 0
        /\ state[p] = "RUNNING"
        /\ locked["ptable"] # c
        /\ locked["tickslock"] # c
    BY <2>a, Alone, Quiet DEF One, Here, IntsInv
  <2>c. \A d \in CPU \ {c} : on[d] # p
    BY <2>a, Alone
  <2>1. TypeOK' /\ ChildInv' /\ ScanInv' /\ StackExclusive' /\ SavedInv' /\ StateInv' /\ WakeInv'
    BY <1>27, <2>a, <2>b, <2>c DEF TrapYield, Goto, lockVars, TypeOK, ChildInv,
       ScanInv, StackExclusive, SavedInv, StateInv, WakeInv
  <2>2. LockInv' /\ IntsInv' /\ IntenaInv'
    BY <1>27, <2>a, <2>b, <2>c DEF TrapYield, Goto, lockVars, TypeOK, LockInv,
       HoldsTable, HoldsTicks, Here, One, IntsInv, IntenaInv, InSched
  <2> QED BY <2>1, <2>2
<1>28. ASSUME NEW c \in CPU, NEW p \in Proc, Yield(c, p) PROVE IInv'
  <2>a. on[c] = p /\ irq[c] = "none" /\ pc[p] = "yield" /\ state[p] = "RUNNING"
    BY <1>28, Alone DEF Yield, At, Runs, InSched
  <2>b. /\ ~ints[c]
        /\ ncli[c] = 0
        /\ locked["tickslock"] # c
    BY <1>28, <2>a, Locks DEF One
  <2>c. \A d \in CPU \ {c} : on[d] # p
    BY <2>a, Alone
  <2>1. TypeOK' /\ ChildInv' /\ ScanInv' /\ StackExclusive' /\ SavedInv' /\ StateInv' /\ WakeInv'
    BY <1>28, <2>a, <2>b, <2>c DEF Yield, Acquire, Goto, Unmoved, TypeOK,
       ChildInv, ScanInv, StackExclusive, SavedInv, StateInv, WakeInv
  <2>2. LockInv'
    BY <1>28, <2>a, <2>b, <2>c DEF Yield, Acquire, Goto, Unmoved, TypeOK,
       Here, LockInv, HoldsTable, HoldsTicks, One
  <2>3. IntsInv'
    BY <1>28, <2>a, <2>b, <2>c DEF Yield, Acquire, Goto, Unmoved, TypeOK,
       Here, IntsInv
  <2>4. IntenaInv'
    BY <1>28, <2>a, <2>b, <2>c DEF Yield, Acquire, Goto, Unmoved, TypeOK,
       Here, IntenaInv, InSched
  <2> QED BY <2>1, <2>2, <2>3, <2>4
<1>29. ASSUME NEW c \in CPU, NEW p \in Proc, YieldResume(c, p) PROVE IInv'
  <2>a. on[c] = p /\ irq[c] = "none" /\ pc[p] = "yieldret" /\ state[p] = "RUNNING"
    BY <1>29, Alone DEF YieldResume, At, Runs, InSched
  <2>b. /\ ~ints[c]
        /\ ncli[c] = 1
        /\ ~saved[p]
        /\ locked["ptable"] = c
        /\ locked["tickslock"] # c
    BY <1>29, <2>a, Locks DEF One, SavedInv
  <2>c. \A d \in CPU \ {c} : on[d] # p
    BY <2>a, Alone
  <2>1. TypeOK' /\ ChildInv' /\ ScanInv' /\ StackExclusive' /\ SavedInv' /\ StateInv' /\ WakeInv'
    BY <1>29, <2>a, <2>b, <2>c DEF YieldResume, ResumeRelease, Goto, Unmoved,
       TypeOK, ChildInv, ScanInv, StackExclusive, SavedInv, StateInv, WakeInv
  <2>2. LockInv'
    BY <1>29, <2>a, <2>b, <2>c DEF YieldResume, ResumeRelease, Goto,
       Unmoved, TypeOK, Here, LockInv, HoldsTable, HoldsTicks, One
  <2>3. IntsInv'
    BY <1>29, <2>a, <2>b, <2>c DEF YieldResume, ResumeRelease, Goto,
       Unmoved, TypeOK, Here, IntsInv
  <2>4. IntenaInv'
    BY <1>29, <2>a, <2>b, <2>c DEF YieldResume, ResumeRelease, Goto,
       Unmoved, TypeOK, Here, IntenaInv, InSched
  <2> QED BY <2>1, <2>2, <2>3, <2>4
<1>30. ASSUME NEW c \in CPU, NEW p \in Proc, IretExit(c, p) PROVE IInv'
  <2>a. on[c] = p /\ irq[c] = "none" /\ pc[p] = "iret" /\ state[p] = "RUNNING"
    BY <1>30, Alone DEF IretExit, At, Runs, InSched
  <2>b. /\ ~ints[c]
        /\ ncli[c] = 0
    BY <1>30, <2>a, Locks DEF One
  <2>c. \A d \in CPU \ {c} : on[d] # p
    BY <2>a, Alone
  <2>1. TypeOK' /\ ChildInv' /\ ScanInv' /\ StackExclusive' /\ SavedInv' /\ StateInv' /\ WakeInv'
    BY <1>30, <2>a, <2>b, <2>c DEF IretExit, Goto, Unmoved, lockVars, TypeOK,
       ChildInv, ScanInv, StackExclusive, SavedInv, StateInv, WakeInv
  <2>2. LockInv'
    BY <1>30, <2>a, <2>b, <2>c, SMTT(30) DEF IretExit, Goto, Unmoved, lockVars,
       TypeOK, Here, LockInv, HoldsTable, HoldsTicks, One
  <2>3. IntsInv'
    BY <1>30, <2>a, <2>b, <2>c DEF IretExit, Goto, Unmoved, lockVars,
       TypeOK, Here, IntsInv
  <2>4. IntenaInv'
    BY <1>30, <2>a, <2>b, <2>c DEF IretExit, Goto, Unmoved, lockVars,
       TypeOK, Here, IntenaInv, InSched
  <2> QED BY <2>1, <2>2, <2>3, <2>4
<1>31. ASSUME NEW c \in CPU, NEW p \in Proc, Iret(c, p) PROVE IInv'
  <2>a. on[c] = p /\ irq[c] = "none" /\ pc[p] = "iret" /\ state[p] = "RUNNING"
    BY <1>31, Alone DEF Iret, At, Runs, InSched
  <2>b. /\ ~ints[c]
        /\ ncli[c] = 0
    BY <1>31, <2>a, Locks DEF One
  <2>c. \A d \in CPU \ {c} : on[d] # p
    BY <2>a, Alone
  <2>d. ret[p] \in Open
    BY DEF TypeOK
  <2>1. TypeOK' /\ ChildInv' /\ ScanInv' /\ StackExclusive' /\ SavedInv' /\ StateInv' /\ WakeInv'
    BY <1>31, <2>a, <2>b, <2>c, <2>d DEF Iret, Goto, Unmoved, TypeOK, ChildInv,
       ScanInv, StackExclusive, SavedInv, StateInv, WakeInv
  <2>2. LockInv'
    BY <1>31, <2>a, <2>b, <2>c, <2>d, SMTT(30) DEF Iret, Goto, Unmoved, TypeOK, Here,
       LockInv, HoldsTable, HoldsTicks, One
  <2>3. IntsInv'
    BY <1>31, <2>a, <2>b, <2>c, <2>d DEF Iret, Goto, Unmoved, TypeOK, Here,
       IntsInv
  <2>4. IntenaInv'
    BY <1>31, <2>a, <2>b, <2>c, <2>d DEF Iret, Goto, Unmoved, TypeOK, Here,
       IntenaInv, InSched
  <2> QED BY <2>1, <2>2, <2>3, <2>4
<1>32. ASSUME UNCHANGED vars PROVE IInv'
  <2>1. TypeOK'
    BY <1>32 DEF vars, TypeOK
  <2>2. LockInv'
    BY <1>32 DEF vars, TypeOK, LockInv, HoldsTable, HoldsTicks, Here, One
  <2>3. IntsInv'
    BY <1>32 DEF vars, TypeOK, IntsInv, Here
  <2>4. IntenaInv'
    BY <1>32 DEF vars, TypeOK, IntenaInv, Here, InSched
  <2>5. SavedInv'
    BY <1>32 DEF vars, TypeOK, SavedInv, InSched
  <2>6. StateInv'
    BY <1>32 DEF vars, TypeOK, StateInv
  <2>7. ChildInv'
    BY <1>32 DEF vars, TypeOK, ChildInv
  <2>8. WakeInv'
    BY <1>32 DEF vars, TypeOK, WakeInv
  <2>9. StackExclusive'
    BY <1>32 DEF vars, TypeOK, StackExclusive
  <2>10. ScanInv'
    BY <1>32 DEF vars, TypeOK, ScanInv
  <2> QED BY <2>1, <2>2, <2>3, <2>4, <2>5, <2>6, <2>7, <2>8, <2>9, <2>10
<1> QED
  BY <1>1, <1>2, <1>3, <1>4, <1>5, <1>6, <1>7, <1>8, <1>9, <1>10, <1>11, <1>12,
     <1>13, <1>14, <1>15, <1>16, <1>17, <1>18, <1>19, <1>20, <1>21, <1>22, <1>23, <1>24,
     <1>25, <1>26, <1>27, <1>28, <1>29, <1>30, <1>31, <1>32
  DEF Next, SchedulerStep, InterruptStep, ProcStep
-----------------------------------------------------------------------------
\* The inductive invariant holds in every reachable state.
THEOREM Invariance == Spec => []IInv
BY InitInv, StepInv, PTL DEF Spec

\* Type correctness: in particular the nesting of spin locks is at most two
\* deep, and an interrupt only ever interrupts code that holds none.
THEOREM TypeCorrect == Spec => []TypeOK
BY Invariance, PTL DEF IInv

\* No two CPUs ever execute on one kernel stack (proc.c sched, scheduler).
THEOREM StacksExclusive == Spec => []StackExclusive
BY Invariance, PTL DEF IInv

\* A slot is RUNNING exactly when a CPU executes on its stack, whenever nobody
\* holds ptable.lock (proc.c scheduler).
THEOREM RunningCorrect == Spec => []RunningMeansOnCPU
<1>1. IInv => RunningMeansOnCPU
  <2> SUFFICES ASSUME IInv, locked["ptable"] = NoCPU, NEW p \in Proc
               PROVE  (state[p] = "RUNNING") <=> (\E c \in CPU : on[c] = p)
    BY DEF RunningMeansOnCPU
  <2>1. ASSUME NEW c \in CPU, on[c] = p PROVE state[p] = "RUNNING"
    BY <2>1, OnRunning
  <2> QED BY <2>1 DEF IInv, StateInv
<1> QED BY <1>1, Invariance, PTL

\* No CPU executes on a stack that was freed or is not built yet (proc.c exit,
\* wait, fork).
THEOREM StacksLive == Spec => []NoFreedStack
<1>1. IInv => NoFreedStack
  BY DEF IInv, TypeOK, StateInv, NoFreedStack
<1> QED BY <1>1, Invariance, PTL

\* No wakeup of a sys_sleep is lost (proc.c sleep, wakeup).
THEOREM WakeupsKept == Spec => []NoLostWakeup
<1>1. IInv => NoLostWakeup
  BY DEF IInv, WakeInv, NoLostWakeup
<1> QED BY <1>1, Invariance, PTL

\* The panics of sched() are unreachable (proc.c sched).
THEOREM SchedNeverPanics == Spec => []SchedCalledRight
<1>1. IInv => SchedCalledRight
  BY Locks DEF One, SchedCalledRight, Runs, InSched
<1> QED BY <1>1, Invariance, PTL

\* The panic of acquire() is unreachable (spinlock.c acquire).
THEOREM AcquireNeverPanics == Spec => []NoSelfDeadlock
<1>1. ASSUME IInv, NEW c \in CPU
      PROVE /\ irq[c] = "tick" => locked["tickslock"] # c
            /\ irq[c] = "wakeup" => locked["ptable"] # c
  BY <1>1, Quiet
<1>2. ASSUME IInv, NEW c \in CPU, NEW p \in Proc, irq[c] = "none", on[c] = p
      PROVE /\ pc[p] \in {"sleep0", "again"} => locked["tickslock"] # c
            /\ pc[p] \in {"sleep1", "table", "exit", "yield"} => locked["ptable"] # c
  BY <1>2, Locks
<1>3. ASSUME IInv, NEW c \in CPU, on[c] = NoProc, irq[c] = "none", scan[c] = 0
      PROVE locked["ptable"] # c
  BY <1>3 DEF IInv, LockInv, HoldsTable, Here
<1>4. IInv => NoSelfDeadlock
  BY <1>1, <1>2, <1>3 DEF NoSelfDeadlock
<1> QED BY <1>4, Invariance, PTL

\* Interrupts are on and off where the kernel thread left them, on whatever
\* CPU it resumes (proc.c sched, spinlock.c popcli).
THEOREM MaskRestored == Spec => []InterruptsRestored
<1>1. IInv => InterruptsRestored
  BY Locks DEF InterruptsRestored, Runs
<1> QED BY <1>1, Invariance, PTL

\* A CPU that holds a spin lock has interrupts off, and ncli counts the locks
\* it holds (spinlock.c pushcli, popcli).
THEOREM MaskCounts == Spec => []LocksMaskInterrupts
<1>1. ASSUME IInv, NEW c \in CPU
      PROVE /\ ncli[c] = One(locked["ptable"] = c) + One(locked["tickslock"] = c)
            /\ ncli[c] > 0 => ~ints[c]
  <2>1. ncli[c] = One(locked["ptable"] = c) + One(locked["tickslock"] = c)
    BY <1>1 DEF IInv, LockInv, One
  <2>2. ASSUME ints[c] PROVE ncli[c] = 0
    BY <1>1, <2>2, Quiet DEF IInv, IntsInv, One
  <2> QED BY <2>1, <2>2
<1>2. IInv => LocksMaskInterrupts
  BY <1>1 DEF LocksMaskInterrupts
<1> QED BY <1>2, Invariance, PTL

\* The three pairs the model checker looks at: a CPU's stack is its own and is
\* there; no panic of the locking discipline; interrupts off exactly when needed.
THEOREM StacksAreSafe == Spec => []StacksSafe
BY StacksExclusive, StacksLive, PTL DEF StacksSafe

THEOREM PanicFree == Spec => []NeverPanics
BY SchedNeverPanics, AcquireNeverPanics, PTL DEF NeverPanics

THEOREM MaskIsRight == Spec => []MaskRight
BY MaskRestored, MaskCounts, PTL DEF MaskRight
=============================================================================
