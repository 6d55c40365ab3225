------------------------------- MODULE Sched -------------------------------
(***************************************************************************)
(* The context switch of the xv6 kernel of p4b/xv6_submitted_ver: which    *)
(* kernel stack every CPU executes on, the two spin locks the switch and   *)
(* sys_sleep use, interrupt masking (pushcli / popcli / intena) and the    *)
(* sleep / wakeup protocol.                                                *)
(*                                                                         *)
(* Sources: kernel/proc.c (scheduler, sched, yield, forkret, sleep,        *)
(* wakeup, kill, exit), kernel/spinlock.c, kernel/trap.c (timer) and       *)
(* sys_sleep of kernel/sysproc.c.                                          *)
(*                                                                         *)
(* A process is an index of ptable.proc.  pc[p] is where p's kernel stack  *)
(* stands: the label names the next thing that stack does.  A stack that   *)
(* is not on a CPU is inside swtch() and its label is where it resumes.    *)
(***************************************************************************)
EXTENDS Integers

CONSTANTS
    NPROC,      \* size of ptable.proc (param.h)
    CPU,        \* the CPUs
    BootCPU,    \* the CPU with cpu->id == 0, the only one that counts ticks
    NoCPU,      \* "no CPU": a spin lock that is free
    Killable    \* the processes kill() is ever aimed at (never init)

ASSUME SchedAssumption ==
    /\ NPROC \in Nat \ {0}
    /\ BootCPU \in CPU
    /\ NoCPU \notin CPU
    /\ Killable \subseteq 2..NPROC

Proc    == 1..NPROC
NoProc  == 0                    \* the CPU is on its scheduler stack
Lock    == {"ptable", "tickslock"}
State   == {"UNUSED", "EMBRYO", "SLEEPING", "RUNNABLE", "RUNNING", "ZOMBIE"}

\* Labels at which a stack resumes when the scheduler switches to it.
Resume  == {"forkret", "sleepret", "yieldret", "zombie"}
\* Labels of a process with interrupts on: user code, or a system call that
\* holds no spin lock.  An interrupt may arrive at any of them.
Open    == {"user", "sleep0", "again", "table", "born", "exit"}
Label   == Resume \cup Open \cup
           {"test", "sleep1", "sleep2", "sleep3", "sleepend", "yield", "iret"}

\* Inside the loop of sys_sleep.
Sleeping == {"test", "sleep1", "sleep2", "sleep3", "sleepret", "again"}

VARIABLES
    state,      \* ptable.proc[p].state
    killed,     \* ptable.proc[p].killed
    child,      \* the EMBRYO slot fork() is filling in, or NoProc
    elapsed,    \* in sys_sleep: ticks - ticks0 >= n
    pc,         \* where p's kernel stack stands
    ret,        \* where the trap frame of an interrupt of p returns to
    saved,      \* the local intena of sched() on p's stack
    on,         \* the stack a CPU executes on: a process or its scheduler
    scan,       \* scheduler(): next index of the table scan; 0: no scan
    irq,        \* where the CPU's timer interrupt handler stands
    locked,     \* the CPU holding each spin lock (lk->locked and lk->cpu)
    ncli, intena, ints      \* cpu->ncli, cpu->intena, FL_IF

procVars == <<state, killed, child, elapsed, pc, ret, saved>>
lockVars == <<locked, ncli, intena, ints>>
vars == <<state, killed, child, elapsed, pc, ret, saved, on, scan, irq,
          locked, ncli, intena, ints>>

TypeOK ==
    /\ state \in [Proc -> State]
    /\ killed \in [Proc -> BOOLEAN]
    /\ child \in [Proc -> Proc \cup {NoProc}]
    /\ elapsed \in [Proc -> BOOLEAN]
    /\ pc \in [Proc -> Label]
    /\ ret \in [Proc -> Open]
    /\ saved \in [Proc -> BOOLEAN]
    /\ on \in [CPU -> Proc \cup {NoProc}]
    /\ scan \in [CPU -> 0..NPROC+1]
    /\ irq \in [CPU -> {"none", "tick", "wakeup", "tickrel", "end"}]
    /\ locked \in [Lock -> CPU \cup {NoCPU}]
    /\ ncli \in [CPU -> 0..2]
    /\ intena \in [CPU -> BOOLEAN]
    /\ ints \in [CPU -> BOOLEAN]

\* userinit: process 1 is RUNNABLE; every CPU is about to enter scheduler().
Init ==
    /\ state = [p \in Proc |-> IF p = 1 THEN "RUNNABLE" ELSE "UNUSED"]
    /\ killed = [p \in Proc |-> FALSE]
    /\ child = [p \in Proc |-> NoProc]
    /\ elapsed = [p \in Proc |-> FALSE]
    /\ pc = [p \in Proc |-> IF p = 1 THEN "forkret" ELSE "zombie"]
    /\ ret = [p \in Proc |-> "user"]
    /\ saved = [p \in Proc |-> FALSE]
    /\ on = [c \in CPU |-> NoProc]
    /\ scan = [c \in CPU |-> 0]
    /\ irq = [c \in CPU |-> "none"]
    /\ locked = [l \in Lock |-> NoCPU]
    /\ ncli = [c \in CPU |-> 0]
    /\ intena = [c \in CPU |-> FALSE]
    /\ ints = [c \in CPU |-> TRUE]

-----------------------------------------------------------------------------
(* spinlock.c *)

\* acquire(): pushcli(), then the xchg that finds the lock free.  The spin is
\* the guard.
Acquire(c, l) ==
    /\ locked[l] = NoCPU
    /\ locked' = [locked EXCEPT ![l] = c]
    /\ intena' = [intena EXCEPT ![c] = IF ncli[c] = 0 THEN ints[c] ELSE @]
    /\ ncli' = [ncli EXCEPT ![c] = @ + 1]
    /\ ints' = [ints EXCEPT ![c] = FALSE]

\* release(): free the lock, then popcli(), which turns interrupts on again
\* only when this was the last lock and they were on at the first pushcli.
Release(c, l) ==
    /\ locked' = [locked EXCEPT ![l] = NoCPU]
    /\ ncli' = [ncli EXCEPT ![c] = @ - 1]
    /\ ints' = [ints EXCEPT ![c] = @ \/ (ncli[c] = 1 /\ intena[c])]
    /\ UNCHANGED intena

\* acquire() ... release() as one step, for a critical section that changes
\* nothing another CPU looks at without the lock.
Section(l) == locked[l] = NoCPU /\ UNCHANGED lockVars

\* Mutant: sched() without "cpu->intena = intena".
ResumeStale(c, p) ==
    /\ Release(c, "ptable")
    /\ saved' = [saved EXCEPT ![p] = FALSE]

\* The first thing a resumed stack does: sched() puts its own intena back
\* (forkret has none to put back), then the caller releases ptable.lock.
ResumeRelease(c, p) ==
    /\ locked' = [locked EXCEPT !["ptable"] = NoCPU]
    /\ intena' = [intena EXCEPT ![c] = saved[p]]
    /\ ncli' = [ncli EXCEPT ![c] = @ - 1]
    /\ ints' = [ints EXCEPT ![c] = @ \/ (ncli[c] = 1 /\ saved[p])]
    /\ saved' = [saved EXCEPT ![p] = FALSE]

-----------------------------------------------------------------------------
(* Every CPU executes one of: its interrupt handler, the stack of a process *)
(* or its scheduler stack.                                                  *)

Runs(c, p) == on[c] = p /\ irq[c] = "none"
\* p's stack is between the store to its state and the swtch of sched().
InSched(p) == pc[p] \in Resume /\ state[p] # "RUNNING"
At(c, p, l) == Runs(c, p) /\ pc[p] = l /\ ~InSched(p)
Goto(p, l) == pc' = [pc EXCEPT ![p] = l]

\* scheduler(): acquire ptable.lock at the top of the loop.
SchedulerAcquire(c) ==
    /\ on[c] = NoProc /\ irq[c] = "none" /\ scan[c] = 0
    /\ Acquire(c, "ptable")
    /\ scan' = [scan EXCEPT ![c] = 1]
    /\ UNCHANGED <<procVars, on, irq>>

\* Mutant: the scan starts over after every switch.
AheadRestart(c) == {p \in Proc : state[p] = "RUNNABLE"}

Ahead(c) == {p \in Proc : p >= scan[c] /\ state[p] = "RUNNABLE"}

\* scheduler(): the next RUNNABLE slot becomes RUNNING and gets the CPU,
\* with ptable.lock still held.
SchedulerSwitch(c) ==
    /\ on[c] = NoProc /\ scan[c] # 0
    /\ \E p \in Ahead(c) :
         /\ \A q \in Ahead(c) : p <= q
         /\ state' = [state EXCEPT ![p] = "RUNNING"]
         /\ on' = [on EXCEPT ![c] = p]
         /\ scan' = [scan EXCEPT ![c] = p + 1]
    /\ UNCHANGED <<killed, child, elapsed, pc, ret, saved, irq, lockVars>>

\* scheduler(): the scan is over: release the lock, then sti().
SchedulerRelease(c) ==
    /\ on[c] = NoProc /\ scan[c] # 0 /\ Ahead(c) = {}
    /\ locked' = [locked EXCEPT !["ptable"] = NoCPU]
    /\ ncli' = [ncli EXCEPT ![c] = @ - 1]
    /\ ints' = [ints EXCEPT ![c] = TRUE]
    /\ scan' = [scan EXCEPT ![c] = 0]
    /\ UNCHANGED <<procVars, on, irq, intena>>

\* sched(): save intena, swtch to this CPU's scheduler.
Sched(c, p) ==
    /\ Runs(c, p) /\ InSched(p)
    /\ saved' = [saved EXCEPT ![p] = intena[c]]
    /\ on' = [on EXCEPT ![c] = NoProc]
    /\ UNCHANGED <<state, killed, child, elapsed, pc, ret, scan, irq, lockVars>>

\* forkret(): release ptable.lock, whatever intena the CPU happens to have;
\* then trapret, whose iret turns interrupts on.
Forkret(c, p) ==
    /\ At(c, p, "forkret")
    /\ locked' = [locked EXCEPT !["ptable"] = NoCPU]
    /\ ncli' = [ncli EXCEPT ![c] = @ - 1]
    /\ ints' = [ints EXCEPT ![c] = TRUE]
    /\ pc' = [pc EXCEPT ![p] = "user"]
    /\ UNCHANGED <<state, killed, child, elapsed, ret, saved, on, scan, irq,
                   intena>>

-----------------------------------------------------------------------------
(* System calls *)

Unmoved == UNCHANGED <<on, scan, irq>>

\* A process enters a system call, or its last trap finds it killed.
Syscall(c, p) ==
    /\ At(c, p, "user")
    /\ \E l \in IF killed[p] THEN {"exit"} ELSE {"sleep0", "table", "exit"} :
          /\ (l = "exit" => p # 1)          \* "init exiting" is a panic
          /\ Goto(p, l)
    /\ UNCHANGED <<state, killed, child, elapsed, ret, saved, lockVars>>
    /\ Unmoved

\* sys_sleep: acquire(&tickslock); ticks0 = ticks.
SleepEnter(c, p) ==
    /\ At(c, p, "sleep0")
    /\ Acquire(c, "tickslock")
    /\ elapsed' = [elapsed EXCEPT ![p] = FALSE]
    /\ Goto(p, "test")
    /\ UNCHANGED <<state, killed, child, ret, saved>> /\ Unmoved

\* sys_sleep: the loop condition, under tickslock.
SleepTest(c, p) ==
    /\ At(c, p, "test")
    /\ Goto(p, IF elapsed[p] \/ killed[p] THEN "sleepend" ELSE "sleep1")
    /\ UNCHANGED <<state, killed, child, elapsed, ret, saved, lockVars>>
    /\ Unmoved

\* sleep(): acquire(&ptable.lock) ...
SleepAcquire(c, p) ==
    /\ At(c, p, "sleep1")
    /\ Acquire(c, "ptable")
    /\ Goto(p, "sleep2")
    /\ UNCHANGED <<state, killed, child, elapsed, ret, saved>> /\ Unmoved

\* ... and only then release(lk).
SleepRelease(c, p) ==
    /\ At(c, p, "sleep2")
    /\ Release(c, "tickslock")
    /\ Goto(p, "sleep3")
    /\ UNCHANGED <<state, killed, child, elapsed, ret, saved>> /\ Unmoved

\* sleep(): state = SLEEPING, on the only channel there is, &ticks.
SleepSet(c, p) ==
    /\ At(c, p, "sleep3")
    /\ state' = [state EXCEPT ![p] = "SLEEPING"]
    /\ Goto(p, "sleepret")
    /\ UNCHANGED <<killed, child, elapsed, ret, saved, lockVars>> /\ Unmoved

\* sleep() resumed: chan = 0, release(&ptable.lock), then acquire(lk).
SleepResume(c, p) ==
    /\ At(c, p, "sleepret")
    /\ ResumeRelease(c, p)
    /\ Goto(p, "again")
    /\ UNCHANGED <<state, killed, child, elapsed, ret>> /\ Unmoved

SleepAgain(c, p) ==
    /\ At(c, p, "again")
    /\ Acquire(c, "tickslock")
    /\ Goto(p, "test")
    /\ UNCHANGED <<state, killed, child, elapsed, ret, saved>> /\ Unmoved

SleepLeave(c, p) ==
    /\ At(c, p, "sleepend")
    /\ Release(c, "tickslock")
    /\ Goto(p, "user")
    /\ UNCHANGED <<state, killed, child, elapsed, ret, saved>> /\ Unmoved

(* kill(), the reaping loop of wait() and allocproc() each find their slot  *)
(* and change it in one critical section of ptable.lock.                    *)

\* Mutant: kill() makes its target RUNNABLE whatever it was doing.
KillWakesAll(c, p) ==
    /\ At(c, p, "table") /\ Section("ptable")
    /\ \E q \in Killable :
         /\ state[q] # "UNUSED"
         /\ killed' = [killed EXCEPT ![q] = TRUE]
         /\ state' = [state EXCEPT ![q] = "RUNNABLE"]
    /\ Goto(p, "user")
    /\ UNCHANGED <<child, elapsed, ret, saved>> /\ Unmoved

Kill(c, p) ==
    /\ At(c, p, "table") /\ Section("ptable")
    /\ \E q \in Killable :
         /\ state[q] # "UNUSED"
         /\ killed' = [killed EXCEPT ![q] = TRUE]
         /\ state' = [state EXCEPT ![q] = IF @ = "SLEEPING" THEN "RUNNABLE"
                                                            ELSE @]
    /\ Goto(p, "user")
    /\ UNCHANGED <<child, elapsed, ret, saved>> /\ Unmoved

\* kill(), wait() or fork() finds no slot to work on.
Miss(c, p) ==
    /\ At(c, p, "table") /\ Section("ptable")
    /\ Goto(p, "user")
    /\ UNCHANGED <<state, killed, child, elapsed, ret, saved>> /\ Unmoved

\* wait(): the zombie's kernel stack is freed, its slot is UNUSED.
Reap(c, p) ==
    /\ At(c, p, "table") /\ Section("ptable")
    /\ \E q \in Proc : /\ state[q] = "ZOMBIE"
                       /\ state' = [state EXCEPT ![q] = "UNUSED"]
                       /\ killed' = [killed EXCEPT ![q] = FALSE]
    /\ Goto(p, "user")
    /\ UNCHANGED <<child, elapsed, ret, saved>> /\ Unmoved

\* allocproc(): the first UNUSED slot becomes EMBRYO.
Allocproc(c, p) ==
    /\ At(c, p, "table") /\ Section("ptable")
    /\ \E q \in Proc :
         /\ state[q] = "UNUSED"
         /\ \A r \in Proc : r < q => state[r] # "UNUSED"
         /\ state' = [state EXCEPT ![q] = "EMBRYO"]
         /\ child' = [child EXCEPT ![p] = q]
    /\ Goto(p, "born")
    /\ UNCHANGED <<killed, elapsed, ret, saved>> /\ Unmoved

\* The rest of fork(), without ptable.lock: context->eip = forkret, and last
\* of all state = RUNNABLE.
ForkFinish(c, p) ==
    /\ At(c, p, "born") /\ child[p] # NoProc
    /\ pc' = [pc EXCEPT ![child[p]] = "forkret", ![p] = "user"]
    /\ saved' = [saved EXCEPT ![child[p]] = FALSE]
    /\ state' = [state EXCEPT ![child[p]] = "RUNNABLE"]
    /\ child' = [child EXCEPT ![p] = NoProc]
    /\ UNCHANGED <<killed, elapsed, ret, lockVars>> /\ Unmoved

\* exit(): acquire(&ptable.lock); state = ZOMBIE; sched() never returns.
Exit(c, p) ==
    /\ At(c, p, "exit")
    /\ Acquire(c, "ptable")
    /\ state' = [state EXCEPT ![p] = "ZOMBIE"]
    /\ Goto(p, "zombie")
    /\ UNCHANGED <<killed, child, elapsed, ret, saved>> /\ Unmoved

-----------------------------------------------------------------------------
(* trap(): the timer interrupt.  The interrupt gate clears FL_IF. *)

TimerInterrupt(c) ==
    /\ ints[c] /\ irq[c] = "none"
    /\ irq' = [irq EXCEPT ![c] = IF c = BootCPU THEN "tick" ELSE "end"]
    /\ ints' = [ints EXCEPT ![c] = FALSE]
    /\ UNCHANGED <<procVars, on, scan, locked, ncli, intena>>

\* acquire(&tickslock); ticks++.
Tick(c) ==
    /\ irq[c] = "tick"
    /\ Acquire(c, "tickslock")
    /\ elapsed' = [p \in Proc |-> pc[p] \in Sleeping]
    /\ irq' = [irq EXCEPT ![c] = "wakeup"]
    /\ UNCHANGED <<state, killed, child, pc, ret, saved, on, scan>>

\* Mutant: wakeup1() stops at the first sleeper.
WakeupFirst(c) ==
    /\ irq[c] = "wakeup" /\ Section("ptable")
    /\ state' = [p \in Proc |->
          IF state[p] = "SLEEPING" /\ \A q \in Proc : q < p => state[q] # "SLEEPING"
            THEN "RUNNABLE" ELSE state[p]]
    /\ irq' = [irq EXCEPT ![c] = "tickrel"]
    /\ UNCHANGED <<killed, child, elapsed, pc, ret, saved, on, scan>>

\* wakeup(&ticks): wakeup1 under ptable.lock.
Wakeup(c) ==
    /\ irq[c] = "wakeup" /\ Section("ptable")
    /\ state' = [p \in Proc |-> IF state[p] = "SLEEPING" THEN "RUNNABLE"
                                                         ELSE state[p]]
    /\ irq' = [irq EXCEPT ![c] = "tickrel"]
    /\ UNCHANGED <<killed, child, elapsed, pc, ret, saved, on, scan>>

TickRelease(c) ==
    /\ irq[c] = "tickrel"
    /\ Release(c, "tickslock")
    /\ irq' = [irq EXCEPT ![c] = "end"]
    /\ UNCHANGED <<procVars, on, scan>>

\* The end of trap() on the scheduler stack: iret.
TrapIdle(c) ==
    /\ irq[c] = "end" /\ on[c] = NoProc
    /\ irq' = [irq EXCEPT ![c] = "none"]
    /\ ints' = [ints EXCEPT ![c] = TRUE]
    /\ UNCHANGED <<procVars, on, scan, locked, ncli, intena>>

\* The end of trap() on a process's stack: a process killed in user space
\* exits ...
TrapExit(c, p) ==
    /\ irq[c] = "end" /\ on[c] = p
    /\ killed[p] /\ pc[p] = "user"
    /\ irq' = [irq EXCEPT ![c] = "none"]
    /\ Goto(p, "exit")
    /\ UNCHANGED <<state, killed, child, elapsed, ret, saved, on, scan, lockVars>>

\* ... any other one that is RUNNING yields.
TrapYield(c, p) ==
    /\ irq[c] = "end" /\ on[c] = p
    /\ ~(killed[p] /\ pc[p] = "user")
    /\ irq' = [irq EXCEPT ![c] = "none"]
    /\ ret' = [ret EXCEPT ![p] = pc[p]]
    /\ Goto(p, IF state[p] = "RUNNING" THEN "yield" ELSE "iret")
    /\ UNCHANGED <<state, killed, child, elapsed, saved, on, scan, lockVars>>

\* Mutant: yield() releases ptable.lock before it leaves its stack.
YieldUnlocked(c, p) ==
    /\ At(c, p, "yield")
    /\ Section("ptable")
    /\ state' = [state EXCEPT ![p] = "RUNNABLE"]
    /\ Goto(p, "yieldret")
    /\ UNCHANGED <<killed, child, elapsed, ret, saved>> /\ Unmoved

\* yield(): acquire(&ptable.lock); state = RUNNABLE; then sched().
Yield(c, p) ==
    /\ At(c, p, "yield")
    /\ Acquire(c, "ptable")
    /\ state' = [state EXCEPT ![p] = "RUNNABLE"]
    /\ Goto(p, "yieldret")
    /\ UNCHANGED <<killed, child, elapsed, ret, saved>> /\ Unmoved

YieldResume(c, p) ==
    /\ At(c, p, "yieldret")
    /\ ResumeRelease(c, p)
    /\ Goto(p, "iret")
    /\ UNCHANGED <<state, killed, child, elapsed, ret>> /\ Unmoved

\* Back from yield(): killed meanwhile ...
IretExit(c, p) ==
    /\ At(c, p, "iret")
    /\ killed[p] /\ ret[p] = "user"
    /\ Goto(p, "exit")
    /\ UNCHANGED <<state, killed, child, elapsed, ret, saved, lockVars>>
    /\ Unmoved

\* ... or iret to the interrupted code.
Iret(c, p) ==
    /\ At(c, p, "iret")
    /\ ~(killed[p] /\ ret[p] = "user")
    /\ Goto(p, ret[p])
    /\ ret' = [ret EXCEPT ![p] = "user"]
    /\ ints' = [ints EXCEPT ![c] = TRUE]
    /\ UNCHANGED <<state, killed, child, elapsed, saved, locked, ncli, intena>>
    /\ Unmoved

-----------------------------------------------------------------------------
SchedulerStep(c) ==
    SchedulerAcquire(c) \/ SchedulerSwitch(c) \/ SchedulerRelease(c)

InterruptStep(c) ==
    Tick(c) \/ Wakeup(c) \/ TickRelease(c) \/ TrapIdle(c)

\* The process's code; where it calls is its own choice.
ProcStep(c, p) ==
    \/ Sched(c, p) \/ Forkret(c, p)
    \/ SleepEnter(c, p) \/ SleepTest(c, p) \/ SleepAcquire(c, p)
    \/ SleepRelease(c, p) \/ SleepSet(c, p) \/ SleepResume(c, p)
    \/ SleepAgain(c, p) \/ SleepLeave(c, p)
    \/ Kill(c, p) \/ Miss(c, p) \/ Reap(c, p) \/ Allocproc(c, p)
    \/ ForkFinish(c, p) \/ Exit(c, p)
    \/ TrapExit(c, p) \/ TrapYield(c, p)
    \/ Yield(c, p) \/ YieldResume(c, p) \/ IretExit(c, p) \/ Iret(c, p)

Next == \E c \in CPU :
          \/ SchedulerStep(c) \/ InterruptStep(c) \/ TimerInterrupt(c)
          \/ \E p \in Proc : Syscall(c, p) \/ ProcStep(c, p)

Spec == Init /\ [][Next]_vars

-----------------------------------------------------------------------------
(* Safety *)

\* No two CPUs ever execute on one kernel stack: a process whose state was
\* set to RUNNABLE, SLEEPING or ZOMBIE keeps its stack until swtch is done,
\* because ptable.lock is handed to the scheduler (proc.c sched, scheduler).
StackExclusive ==
    \A c, d \in CPU : on[c] = on[d] /\ on[c] # NoProc => c = d

\* No CPU executes on a stack that wait() has freed or that fork() is still
\* building (exit sets ZOMBIE while it still runs on its stack).
NoFreedStack ==
    \A c \in CPU : on[c] # NoProc => state[on[c]] \notin {"UNUSED", "EMBRYO"}

\* A CPU's stack is its own and is there.
StacksSafe == StackExclusive /\ NoFreedStack

\* Outside the critical sections of ptable.lock a slot is RUNNING exactly
\* when a CPU executes on its stack.
RunningMeansOnCPU ==
    locked["ptable"] = NoCPU =>
        \A p \in Proc : (state[p] = "RUNNING") <=> (\E c \in CPU : on[c] = p)

\* No wakeup is lost: whoever sleeps in sys_sleep although its ticks have
\* passed is about to be woken by the tick handler that made them pass
\* (sleep() takes ptable.lock before it releases lk).
NoLostWakeup ==
    \A p \in Proc :
        state[p] = "SLEEPING" /\ elapsed[p] => irq[BootCPU] = "wakeup"

\* The panics of sched() ("sched ptable.lock", "sched locks", "sched
\* interruptible") never happen: whoever is about to swtch holds exactly
\* ptable.lock, with interrupts off.
SchedCalledRight ==
    \A c \in CPU : \A p \in Proc :
        Runs(c, p) /\ InSched(p) =>
            locked["ptable"] = c /\ ncli[c] = 1 /\ ~ints[c]

\* The panic of acquire() never happens, in particular not in an interrupt
\* handler: no CPU is about to take a spin lock it already holds.
NoSelfDeadlock ==
    \A c \in CPU :
        /\ irq[c] = "tick" => locked["tickslock"] # c
        /\ irq[c] = "wakeup" => locked["ptable"] # c
        /\ \A p \in Proc : irq[c] = "none" /\ on[c] = p /\ ~InSched(p) =>
             /\ pc[p] \in {"sleep0", "again"} => locked["tickslock"] # c
             /\ pc[p] \in {"sleep1", "table", "exit", "yield"} =>
                    locked["ptable"] # c
        /\ on[c] = NoProc /\ irq[c] = "none" /\ scan[c] = 0 =>
             locked["ptable"] # c

\* No panic of the locking discipline is reachable.
NeverPanics == SchedCalledRight /\ NoSelfDeadlock

\* Interrupt masking belongs to the kernel thread, not to the CPU: a process
\* that yielded inside trap() has interrupts off until its iret whatever CPU
\* it resumes on, and a system call gets them back after its last release
\* (the intena that sched() saves and restores).
InterruptsRestored ==
    \A c \in CPU : \A p \in Proc :
        Runs(c, p) /\ ~InSched(p) =>
            /\ pc[p] \in {"yield", "iret"} => ~ints[c]
            /\ pc[p] \in {"user", "sleep0", "again", "table", "born"} => ints[c]

One(b) == IF b THEN 1 ELSE 0

\* Interrupts stay off for as long as a CPU holds a spin lock, and a lock
\* count of zero means no lock is held (pushcli, popcli).
LocksMaskInterrupts ==
    \A c \in CPU :
        /\ ncli[c] = One(locked["ptable"] = c) + One(locked["tickslock"] = c)
        /\ ncli[c] > 0 => ~ints[c]

\* Interrupts are off exactly as long as the locks and the thread need it.
MaskRight == InterruptsRestored /\ LocksMaskInterrupts

=============================================================================
