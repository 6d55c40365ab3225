------------------------------ MODULE Reserve ------------------------------
(***************************************************************************)
(* The scheduler of p2b/xv6 on one CPU: processes reserve a percentage of  *)
(* the time, or bid for it.  scheduler() goes over the table twice in each *)
(* round: a draw among those with a reservation, then everybody.  A slot   *)
(* keeps its reservation when its process is gone.  The two system calls   *)
(* take no lock, and the timer takes the CPU from a process inside them.   *)
(***************************************************************************)
EXTENDS Integers, FiniteSetsExt

CONSTANTS
    NPROC,
    Full,       \* what stands for 100 percent
    Limit,      \* and for 200, what may be given away
    Percent,    \* arguments of reserve()
    Bid,        \* arguments of spot()
    Word,       \* values of the int counter
    MaxTotal    \* bound: total stops here, short of the wrap of an unsigned int

VARIABLES
    state,      \* of each slot
    sche_type, sche_para,
    total,      \* what was asked for in all
    loop,       \* scheduler(): "reserve" or "any" is the loop it is in
    at,         \* the slot it looks at next, or runs
    winner, counter,
    call,       \* where each process is in reserve() or spot()
    lost        \* history: a store to total has undone another

vars == <<state, sche_type, sche_para, total, loop, at, winner, counter, call, lost>>
shares == <<sche_type, sche_para, total, call, lost>>
dispatch == <<loop, at, winner, counter>>

Proc == 1..NPROC
init == 1

Out == [pc |-> "out", arg |-> 0, read |-> 0]

\* The first process runs for the first time.
Init ==
    /\ state = [p \in Proc |-> IF p = init THEN "RUNNING" ELSE "UNUSED"]
    /\ sche_type = [p \in Proc |-> "SPOT"] /\ sche_para = [p \in Proc |-> 0]
    /\ total = 0
    /\ loop = "any" /\ at = init /\ winner = 0 /\ counter = 0
    /\ call = [p \in Proc |-> Out] /\ lost = FALSE

Idle == \A p \in Proc : state[p] # "RUNNING"

\* The process that runs has come to pc of its call.
Runs(pc) == ~Idle /\ call[at].pc = pc

-----------------------------------------------------------------------------
\* A round begins with random_num(), any number.
Draw ==
    /\ Idle /\ loop = "any" /\ at > NPROC
    /\ loop' = "reserve" /\ at' = 1
    /\ winner' \in 0..Full - 1
    /\ UNCHANGED <<state, shares, counter>>

\* counter += p->sche_para; it is never set back, and wraps.
Counted(p) == ((counter + sche_para[p] + Word \div 2) % Word) - Word \div 2

\* The draw among the reservations looks at one slot.
Look ==
    /\ Idle /\ loop = "reserve" /\ at <= NPROC
    /\ IF state[at] = "RUNNABLE" /\ sche_type[at] = "RESERVE"
         THEN /\ counter' = Counted(at)
              /\ IF counter' < winner
                   THEN state' = state /\ at' = at + 1
                   ELSE state' = [state EXCEPT ![at] = "RUNNING"] /\ at' = at
         ELSE at' = at + 1 /\ UNCHANGED <<state, counter>>
    /\ UNCHANGED <<shares, loop, winner>>

\* ptable.lock is released after each loop, and taken again; winner has served.
SecondLoop ==
    /\ Idle /\ loop = "reserve" /\ at > NPROC
    /\ loop' = "any" /\ at' = 1 /\ winner' = 0
    /\ UNCHANGED <<state, shares, counter>>

\* The second loop runs whoever can run.
LookAny ==
    /\ Idle /\ loop = "any" /\ at <= NPROC
    /\ IF state[at] = "RUNNABLE"
         THEN state' = [state EXCEPT ![at] = "RUNNING"] /\ at' = at
         ELSE at' = at + 1 /\ state' = state
    /\ UNCHANGED <<shares, loop, winner, counter>>

Scheduler == Draw \/ Look \/ SecondLoop \/ LookAny

-----------------------------------------------------------------------------
\* The process that runs gives the CPU up: by the timer, to sleep, or for good.
GiveUp(s) ==
    /\ state[at] = "RUNNING"
    /\ state' = [state EXCEPT ![at] = s]
    /\ at' = at + 1
    /\ UNCHANGED <<shares, loop, winner, counter>>

Yield == at \in Proc /\ GiveUp("RUNNABLE")
Sleep == Runs("out") /\ GiveUp("SLEEPING")
Exit  == Runs("out") /\ at # init /\ GiveUp("ZOMBIE")

\* A wakeup, by the process that runs or by an interrupt after a loop.
Wakeup(p) ==
    /\ state[p] = "SLEEPING"
    /\ ~Idle \/ at > NPROC
    /\ state' = [state EXCEPT ![p] = "RUNNABLE"]
    /\ UNCHANGED <<shares, dispatch>>

\* fork() by the process that runs: allocproc() leaves sche_type and sche_para.
Fork ==
    /\ Runs("out")
    /\ \E q \in Proc :
         /\ state[q] = "UNUSED" /\ \A r \in 1..q - 1 : state[r] # "UNUSED"
         /\ state' = [state EXCEPT ![q] = "RUNNABLE"]
    /\ UNCHANGED <<shares, dispatch>>

\* wait() of the parent of q.
Wait(q) ==
    /\ Runs("out") /\ state[q] = "ZOMBIE"
    /\ state' = [state EXCEPT ![q] = "UNUSED"]
    /\ UNCHANGED <<shares, dispatch>>

-----------------------------------------------------------------------------
At(pc) == call' = [call EXCEPT ![at].pc = pc]
Left == call' = [call EXCEPT ![at] = Out]

\* total += percent begins with reading it.
sys_reserve(percent) ==
    /\ Runs("out") /\ percent \in 0..Full
    /\ call' = [call EXCEPT ![at] = [pc |-> "add", arg |-> percent, read |-> total]]
    /\ UNCHANGED <<state, sche_type, sche_para, total, lost, dispatch>>

\* What is going to be refused is counted as well.
Add ==
    /\ Runs("add")
    /\ LET sum == call[at].read + call[at].arg
       IN  total' = IF sum < MaxTotal THEN sum ELSE MaxTotal
    /\ lost' = (lost \/ total # call[at].read)
    /\ call' = [call EXCEPT ![at].pc = "compare", ![at].read = 0]
    /\ UNCHANGED <<state, sche_type, sche_para, dispatch>>

\* Mutant: the limit is compared with what total was before.
CompareLate ==
    /\ Runs("compare")
    /\ IF total - call[at].arg > Limit
         THEN Left /\ sche_type' = sche_type
         ELSE At("share") /\ sche_type' = [sche_type EXCEPT ![at] = "RESERVE"]
    /\ UNCHANGED <<state, sche_para, total, lost, dispatch>>

\* if (total > 200), read once more, and the type when it is not.
Compare ==
    /\ Runs("compare")
    /\ IF total > Limit
         THEN Left /\ sche_type' = sche_type
         ELSE At("share") /\ sche_type' = [sche_type EXCEPT ![at] = "RESERVE"]
    /\ UNCHANGED <<state, sche_para, total, lost, dispatch>>

\* Until then the process counts with what it had before, a bid perhaps.
SetPara ==
    /\ Runs("share") /\ Left
    /\ sche_para' = [sche_para EXCEPT ![at] = call[at].arg]
    /\ UNCHANGED <<state, sche_type, total, lost, dispatch>>

\* (Nobody reads the bid of a process whose type is SPOT.)
sys_spot(bid) ==
    /\ Runs("out")
    /\ sche_type' = [sche_type EXCEPT ![at] = "SPOT"]
    /\ sche_para' = [sche_para EXCEPT ![at] = bid]
    /\ UNCHANGED <<state, total, call, lost, dispatch>>

Next ==
    \/ Scheduler \/ Yield \/ Sleep \/ Exit \/ Fork
    \/ Add \/ Compare \/ SetPara
    \/ \E p \in Proc : Wakeup(p) \/ Wait(p)
    \/ \E percent \in Percent : sys_reserve(percent)
    \/ \E bid \in Bid : sys_spot(bid)

\* The scheduler goes on, and the timer interrupts whoever runs.
Spec == Init /\ [][Next]_vars /\ WF_vars(Scheduler) /\ WF_vars(Yield)

-----------------------------------------------------------------------------
Reserved == {p \in Proc : sche_type[p] = "RESERVE"}
Given(P) == MapThenSumSet(LAMBDA p : sche_para[p], P)

\* "sum of reserve should not exceed 200" (defs.h:148), the left-over
\* reservations of dead processes included.  It is false: of two calls that read
\* the same total the second undoes what the first has added.
SumKept == Given(Reserved) <= Limit

\* Only by that: while no store has undone another no more than 200 percent are
\* given to those whose share is set, through calls that are preempted, refused,
\* repeated or follow each other in one slot.  And whoever can run does, with a
\* reservation or without, however the draws go, although the shares change under
\* way and counter grows until it wraps.
SharesKept ==
    /\ [][~lost' => Given({p \in Reserved : call[p].pc # "share"})' <= Limit]_vars
    /\ \A p \in Proc : (state[p] = "RUNNABLE") ~> (state[p] = "RUNNING")
=============================================================================
