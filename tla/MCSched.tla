------------------------------ MODULE MCSched ------------------------------
(* Three machines in one run: "smp" has both CPUs and two slots, "uni" only  *)
(* the boot CPU and three slots, and "p2b" is the scheduler of p2b.  machine *)
(* never changes; the variables of the other stay as they start.             *)
EXTENDS Sched

VARIABLES
    machine,
    \* Reserve
    pstate, sche_type, sche_para, total, loop, at, winner, counter, within, lost

lottery == <<pstate, sche_type, sche_para, total, loop, at, winner, counter, within, lost>>
mcVars == <<vars, machine, lottery>>

\* 100 and 200 percent become 2: of two shares one may be refused.
Lottery == INSTANCE Reserve WITH
    NPROC <- 2, Full <- 2, Limit <- 2, Percent <- {1, 2}, Bid <- {2}, Word <- 2, MaxTotal <- 3,
    state <- pstate, call <- within

\* A step of the machine: the other CPU, or the third slot, stays idle.
Fits == IF machine = "uni"
          THEN \A c \in CPU \ {BootCPU} : scan'[c] = 0 /\ irq'[c] = "none"
          ELSE state'[3] = "UNUSED"
Here(A) == machine # "p2b" /\ A /\ Fits /\ UNCHANGED <<machine, lottery>>
P2bStep(A) == machine = "p2b" /\ A /\ UNCHANGED <<vars, machine>>

MCInit == Init /\ Lottery!Init /\ machine \in {"smp", "uni", "p2b"}
MCNext == Here(Next) \/ P2bStep(Lottery!Next)

\* A tick stays pending until the CPU enables interrupts (strong fairness of
\* TimerInterrupt), an interrupt handler once begun goes on, and a CPU executes
\* code between two ticks (strong fairness: the next tick may come first again
\* and again, but not for ever).  Which system calls a program makes is left
\* open; one once begun goes on.  With more CPUs this would also say that the
\* xchg loop of acquire() is never starved, which no hardware promises.
\* The fairness of "p2b" is that of its Spec.
UniFair(c) ==
    /\ SF_mcVars(machine = "uni" /\ Here(TimerInterrupt(c)))
    /\ WF_mcVars(machine = "uni" /\ Here(InterruptStep(c)))
    /\ SF_mcVars(machine = "uni" /\ Here(SchedulerStep(c)))
    /\ SF_mcVars(machine = "uni" /\ Here(\E p \in Proc : ProcStep(c, p)))
MCSpec ==
    /\ MCInit /\ [][MCNext]_mcVars /\ UniFair(BootCPU)
    /\ WF_mcVars(P2bStep(Lottery!Scheduler)) /\ WF_mcVars(P2bStep(Lottery!Yield))

\* With one CPU, every RUNNABLE process is eventually run: the scan starts
\* over from the first slot only after it has passed the last one.
EventuallyRuns == \A p \in Proc :
    machine = "uni" /\ state[p] = "RUNNABLE" ~> state[p] = "RUNNING"

\* With one CPU, whoever sleeps in sys_sleep comes back.
SleeperReturns == \A p \in Proc :
    machine = "uni" /\ state[p] = "SLEEPING" ~> pc[p] # "sleepret"

\* p2b: without a lost update no more than 200 percent are given away, and nobody
\* starves.
SharesKept == Lottery!SharesKept
=============================================================================
