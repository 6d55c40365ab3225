-------------------------------- MODULE Proc --------------------------------
(***************************************************************************)
(* The life of processes and threads in the kernel of                      *)
(* p4b/xv6_submitted_ver: the process table, fork, clone, exec, exit,      *)
(* wait, join, kill, and the way user/init.c collects what its children    *)
(* leave behind (wait, then orphanage).                                    *)
(*                                                                         *)
(* Every critical section of ptable.lock is one step; module Sched shows   *)
(* that the lock, sleep and the context switch deserve that.  RUNNABLE     *)
(* stands for RUNNABLE and RUNNING.  A page directory is a number; live    *)
(* is the set of those whose pages are allocated.                          *)
(***************************************************************************)
EXTENDS Integers, FiniteSets, FiniteSetsExt

CONSTANTS
    NPROC,      \* size of ptable.proc
    MaxPid,     \* bound: no process is created with a larger pid
    MayFail,    \* kalloc() may run out of pages
    Calls,      \* of "clone", "exec", "kill", "orphanage": those programs call
    Programs    \* what is assumed of programs: see the variable programs

ASSUME ProcAssumption ==
    /\ NPROC \in Nat /\ NPROC >= 2
    /\ MaxPid \in Nat /\ MaxPid >= 2
    /\ MayFail \in BOOLEAN
    /\ Programs \subseteq {"any", "tidy", "plain"}
    /\ Calls \subseteq {"clone", "exec", "kill", "orphanage"}

Proc   == 1..NPROC
NoProc == 0
init   == 1             \* initproc: slot 1, pid 1, runs user/init.c
State  == {"UNUSED", "EMBRYO", "RUNNABLE", "SLEEPING", "ZOMBIE"}
\* Where a process stands: user code, past the killed check of trap() on the
\* way in, between allocproc() and the end of fork or clone, in the loop of
\* wait or join; init before its orphanage(wpid).  "panic" and "undefined" of
\* init say that the kernel has stopped, or runs on memory that it has freed.
Pc     == {"user", "call", "fork", "clone", "wait", "join", "orphanage", "panic", "undefined"}
Dir    == 1..MaxPid + 1
NoDir  == 0

VARIABLES
    state, pid, parent, pgdir, killed,      \* struct proc
    pc, child,      \* where the process stands; the slot it is filling in
    nextpid,        \* proc.c
    live,           \* page directories that are allocated
    shpid, wpid,    \* the locals pid and wpid of user/init.c
    programs        \* never changes.  "tidy": programs collect every child
                    \* before they exit or exec, and leave kill and orphanage
                    \* to others; "plain": they never exec, kalloc() does not
                    \* run out, and orphanage() is only called for zombies

slot == <<state, pid, parent, pgdir, killed>>
vars == <<state, pid, parent, pgdir, killed, pc, child, nextpid, live,
          shpid, wpid, programs>>

TypeOK ==
    /\ state \in [Proc -> State]
    /\ pid \in [Proc -> 0..MaxPid]
    /\ parent \in [Proc -> Proc \cup {NoProc}]
    /\ pgdir \in [Proc -> Dir \cup {NoDir}]
    /\ killed \in [Proc -> BOOLEAN]
    /\ pc \in [Proc -> Pc]
    /\ child \in [Proc -> Proc \cup {NoProc}]
    /\ nextpid \in 2..MaxPid + 1
    /\ live \subseteq Dir
    /\ shpid \in 0..MaxPid
    /\ wpid \in 0..MaxPid
    /\ programs \in Programs

\* After userinit: init.c is about to fork its first shell.
Init ==
    /\ state = [p \in Proc |-> IF p = init THEN "RUNNABLE" ELSE "UNUSED"]
    /\ pid = [p \in Proc |-> IF p = init THEN 1 ELSE 0]
    /\ parent = [p \in Proc |-> NoProc]
    /\ pgdir = [p \in Proc |-> IF p = init THEN 1 ELSE NoDir]
    /\ killed = [p \in Proc |-> FALSE]
    /\ pc = [p \in Proc |-> "user"]
    /\ child = [p \in Proc |-> NoProc]
    /\ nextpid = 2
    /\ live = {1}
    /\ shpid = 0
    /\ wpid = 0
    /\ programs \in Programs

-----------------------------------------------------------------------------
Children(p) == {q \in Proc : parent[q] = p}
Thread(p, q) == pgdir[p] = pgdir[q]
Unused == {p \in Proc : state[p] = "UNUSED"}
Running(p) == state[p] = "RUNNABLE" /\ pc[init] \notin {"panic", "undefined"}
\* (Dir has one page directory for each process there can be: a bound.)
FreshDir == Min(Dir \ live)

\* A program that never leaves a child behind.  (Only the first shell may
\* exit under init: a later one is taken for a thread, see Wait.)
Collected(p) ==
    /\ Children(p) = {}
    /\ parent[p] = init => pid[p] = 2

\* trap(): a system call starts only after the killed check.
Enter(p) ==
    /\ p # init /\ Running(p) /\ pc[p] = "user" /\ ~killed[p]
    /\ pc' = [pc EXCEPT ![p] = "call"]
    /\ UNCHANGED <<slot, child, nextpid, live, shpid, wpid, programs>>

\* init.c makes its system calls in the order of its loop; any other program
\* calls what it likes.
Calling(p, call) ==
    /\ Running(p) /\ call \in Calls \cup {"fork"}
    /\ IF p = init THEN pc[p] = "user" /\ call = "fork" ELSE pc[p] = "call"

\* What follows a system call that returns: user code.
Return(p) == pc' = [pc EXCEPT ![p] = "user"]

\* A failed fork makes init.c call exit(), and exit() panics.
Failed(p) == pc' = [pc EXCEPT ![p] = IF p = init THEN "panic" ELSE "user"]

\* allocproc(): the first unused slot becomes an EMBRYO with the next pid.
\* Neither killed nor the old page directory is touched.
Allocproc(p, call) ==
    /\ Calling(p, call) /\ Unused # {} /\ nextpid <= MaxPid
    /\ LET np == Min(Unused) IN
       /\ state' = [state EXCEPT ![np] = "EMBRYO"]
       /\ pid' = [pid EXCEPT ![np] = nextpid]
       /\ child' = [child EXCEPT ![p] = np]
    /\ nextpid' = nextpid + 1
    /\ pc' = [pc EXCEPT ![p] = call]
    /\ UNCHANGED <<parent, pgdir, killed, live, shpid, wpid, programs>>

\* allocproc() finds no unused slot: fork and clone return -1.
TableFull(p, call) ==
    /\ Calling(p, call) /\ Unused = {}
    /\ Failed(p)
    /\ UNCHANGED <<slot, child, nextpid, live, shpid, wpid, programs>>

\* No page for the kernel stack, or (fork) for the copy of the address space:
\* the slot is given back with its pid still in it.
AllocFails(p) ==
    /\ MayFail /\ programs # "plain"
    /\ Running(p) /\ pc[p] \in {"fork", "clone"}
    /\ state' = [state EXCEPT ![child[p]] = "UNUSED"]
    /\ child' = [child EXCEPT ![p] = NoProc]
    /\ Failed(p)
    /\ UNCHANGED <<pid, parent, pgdir, killed, nextpid, live, shpid, wpid, programs>>

\* fork(): copyuvm() gives the child an address space of its own.
Fork(p) ==
    /\ Running(p) /\ pc[p] = "fork" /\ live # Dir
    /\ LET np == child[p] IN
       /\ pgdir' = [pgdir EXCEPT ![np] = FreshDir]
       /\ live' = live \cup {FreshDir}
       /\ parent' = [parent EXCEPT ![np] = p]
       /\ state' = [state EXCEPT ![np] = "RUNNABLE"]
       /\ pc' = [pc EXCEPT ![np] = "user",
                           ![p] = IF p = init THEN "wait" ELSE "user"]
       /\ shpid' = IF p = init THEN pid[np] ELSE shpid
    /\ child' = [child EXCEPT ![p] = NoProc]
    /\ UNCHANGED <<pid, killed, nextpid, wpid, programs>>

\* clone(): the thread shares the page directory of its creator.
Clone(p) ==
    /\ Running(p) /\ pc[p] = "clone"
    /\ LET np == child[p] IN
       /\ pgdir' = [pgdir EXCEPT ![np] = pgdir[p]]
       /\ parent' = [parent EXCEPT ![np] = p]
       /\ state' = [state EXCEPT ![np] = "RUNNABLE"]
       /\ pc' = [pc EXCEPT ![np] = "user", ![p] = "user"]
    /\ child' = [child EXCEPT ![p] = NoProc]
    /\ UNCHANGED <<pid, killed, nextpid, live, shpid, wpid, programs>>

\* exec(): a new address space, then the old one is freed, whoever else uses it.
Exec(p) ==
    /\ p # init /\ Calling(p, "exec") /\ programs # "plain" /\ live # Dir
    /\ programs = "tidy" => Children(p) = {} /\ ~ \E q \in Proc \ (Unused \cup {p}) : Thread(p, q)
    /\ pgdir' = [pgdir EXCEPT ![p] = FreshDir]
    /\ live' = (live \cup {FreshDir}) \ {pgdir[p]}
    /\ Return(p)
    /\ UNCHANGED <<state, pid, parent, killed, child, nextpid, shpid, wpid, programs>>

-----------------------------------------------------------------------------
(* exit, wait, join, orphanage, kill *)

\* Mutant: abandoned children are passed to init without waking init for those
\* that are already zombies.
ExitNoInitWake(p) ==
    LET woken == {parent[p]} IN
    state' = [q \in Proc |-> IF q = p THEN "ZOMBIE"
                ELSE IF q \in woken /\ state[q] = "SLEEPING" THEN "RUNNABLE"
                ELSE state[q]]

\* The wakeups of exit(): the parent, which may be in wait or join, and init
\* when it inherits a zombie.  wakeup1 only touches a sleeper.
ExitWakes(p) ==
    LET heirs == IF \E q \in Children(p) : state[q] = "ZOMBIE" THEN {init} ELSE {}
        woken == {parent[p]} \cup heirs IN
    state' = [q \in Proc |-> IF q = p THEN "ZOMBIE"
                ELSE IF q \in woken /\ state[q] = "SLEEPING" THEN "RUNNABLE"
                ELSE state[q]]

\* Mutant: the children keep the parent that is going away.
Abandon(p) == UNCHANGED parent

\* Pass abandoned children to init.
Reparent(p) ==
    parent' = [q \in Proc |-> IF parent[q] = p THEN init ELSE parent[q]]

\* exit(), called by the program or, once killed, by trap().
Exit(p) ==
    /\ p # init /\ Running(p)
    /\ \/ pc[p] = "call" /\ (programs = "tidy" => Collected(p))
       \/ pc[p] = "user" /\ killed[p]
    /\ ExitWakes(p)
    /\ Reparent(p)
    /\ UNCHANGED <<pid, pgdir, killed, pc, child, nextpid, live, shpid, wpid, programs>>

\* p is at the scan of wait or join: it enters the call, or sleep returned.
Scans(p, call) ==
    /\ Running(p)
    /\ pc[p] \in IF p = init THEN {call} ELSE {"call", call}

\* wait() looks at children with another page directory, join() at threads.
Kids(p, call) == {q \in Children(p) : Thread(p, q) <=> call = "join"}

Zombies(p, call) == {q \in Kids(p, call) : state[q] = "ZOMBIE"}

\* What wait, join and orphanage reset.  The page directory stays in the slot.
ReleaseSlot(q) ==
    /\ state' = [state EXCEPT ![q] = "UNUSED"]
    /\ pid' = [pid EXCEPT ![q] = 0]
    /\ parent' = [parent EXCEPT ![q] = NoProc]
    /\ killed' = [killed EXCEPT ![q] = FALSE]
    /\ UNCHANGED pgdir

\* wait() found the first zombie.  Everybody but init collects it; init does
\* so only for pids up to 2 and otherwise just learns the pid.
Wait(p) ==
    /\ Scans(p, "wait") /\ Zombies(p, "wait") # {}
    /\ LET z == Min(Zombies(p, "wait")) IN
       /\ IF p = init /\ pid[z] > 2
            THEN UNCHANGED <<slot, live>>
            ELSE ReleaseSlot(z) /\ live' = live \ {pgdir[z]}
       /\ wpid' = IF p = init THEN pid[z] ELSE wpid
       /\ pc' = [pc EXCEPT ![p] =
                    IF p = init /\ pid[z] # shpid THEN "orphanage" ELSE "user"]
    /\ UNCHANGED <<child, nextpid, shpid, programs>>

\* Mutant: join() that also frees the address space of the thread.
JoinFreeing(p) ==
    /\ p # init /\ Scans(p, "join") /\ Zombies(p, "join") # {}
    /\ LET z == Min(Zombies(p, "join")) IN
       /\ ReleaseSlot(z)
       /\ live' = live \ {pgdir[z]}
    /\ Return(p)
    /\ UNCHANGED <<child, nextpid, shpid, wpid, programs>>

\* join() collects the first zombie thread; its page directory lives on.
Join(p) ==
    /\ p # init /\ Scans(p, "join") /\ Zombies(p, "join") # {}
    /\ ReleaseSlot(Min(Zombies(p, "join")))
    /\ Return(p)
    /\ UNCHANGED <<live, child, nextpid, shpid, wpid, programs>>

\* wait() or join() without such children, or killed: -1.
NoKids(p, call) ==
    /\ Scans(p, call) /\ Zombies(p, call) = {}
    /\ Kids(p, call) = {} \/ killed[p]
    /\ Return(p)
    /\ UNCHANGED <<slot, child, nextpid, live, shpid, wpid, programs>>

\* wait() or join() sleeps on its own struct proc until a child exits.
Sleep(p, call) ==
    /\ Scans(p, call) /\ Zombies(p, call) = {} /\ Kids(p, call) # {} /\ ~killed[p]
    /\ state' = [state EXCEPT ![p] = "SLEEPING"]
    /\ pc' = [pc EXCEPT ![p] = call]
    /\ UNCHANGED <<pid, parent, pgdir, killed, child, nextpid, live, shpid, wpid, programs>>

\* Mutant: init.c throws the pid away and never calls orphanage.
OrphanageSkipped ==
    /\ Running(init) /\ pc[init] = "orphanage"
    /\ pc' = [pc EXCEPT ![init] = "wait"]
    /\ UNCHANGED <<slot, live, child, nextpid, shpid, wpid, programs>>

\* orphanage(wpid): the first slot with that pid is given back, whatever its
\* state; the page directory is not freed.  init.c waits again, also when the
\* slot is gone because another program called orphanage() for it.
Orphanage ==
    /\ Running(init) /\ pc[init] = "orphanage"
    /\ LET found == {r \in Proc : pid[r] = wpid} IN
       IF found = {} THEN UNCHANGED slot ELSE ReleaseSlot(Min(found))
    /\ pc' = [pc EXCEPT ![init] = "wait"]
    /\ UNCHANGED <<live, child, nextpid, shpid, wpid, programs>>

\* orphanage(pid[q]) by any other program, for any process, itself and init
\* included.  kfree() panics on the stack that a free slot does not have.  The
\* stack of a process that has not exited is overwritten and freed while it is
\* in use, or will be by fork: what follows is undefined.  (A pid nobody has
\* changes nothing: left out.)
OrphanageOf(p, q) ==
    /\ Calling(p, "orphanage") /\ p # init /\ programs # "tidy"
    /\ q = Min({r \in Proc : pid[r] = pid[q]})
    /\ programs = "plain" => state[q] = "ZOMBIE"
    /\ \/ state[q] = "UNUSED" /\ pc' = [pc EXCEPT ![init] = "panic"] /\ UNCHANGED slot
       \/ state[q] = "ZOMBIE" /\ Return(p) /\ ReleaseSlot(q)
       \/ /\ state[q] \notin {"UNUSED", "ZOMBIE"}
          /\ pc' = [pc EXCEPT ![init] = "undefined"]
          /\ ReleaseSlot(q)
    /\ UNCHANGED <<live, child, nextpid, shpid, wpid, programs>>

\* Mutant: kill() without waking the target up.
KillQuiet(p, q) ==
    /\ Calling(p, "kill") /\ p # init /\ q # init /\ programs # "tidy"
    /\ q = Min({r \in Proc : pid[r] = pid[q]})
    /\ killed' = [killed EXCEPT ![q] = TRUE]
    /\ Return(p)
    /\ UNCHANGED <<state, pid, parent, pgdir, child, nextpid, live, shpid, wpid, programs>>

\* kill(pid[q]): the first slot with that pid, whatever its state.  Killing
\* init panics by design and a pid nobody has changes nothing: left out.
Kill(p, q) ==
    /\ Calling(p, "kill") /\ p # init /\ q # init /\ programs # "tidy"
    /\ q = Min({r \in Proc : pid[r] = pid[q]})
    /\ killed' = [killed EXCEPT ![q] = TRUE]
    /\ state' = [state EXCEPT ![q] = IF @ = "SLEEPING" THEN "RUNNABLE" ELSE @]
    /\ Return(p)
    /\ UNCHANGED <<pid, parent, pgdir, child, nextpid, live, shpid, wpid, programs>>

-----------------------------------------------------------------------------
Step(p) ==
    \/ Enter(p) \/ Exec(p) \/ Exit(p)
    \/ \E call \in {"fork", "clone"} : Allocproc(p, call) \/ TableFull(p, call)
    \/ AllocFails(p) \/ Fork(p) \/ Clone(p)
    \/ Wait(p) \/ Join(p)
    \/ \E call \in {"wait", "join"} : NoKids(p, call) \/ Sleep(p, call)
    \/ \E q \in Proc : Kill(p, q) \/ OrphanageOf(p, q)

Next == Orphanage \/ \E p \in Proc : Step(p)

Spec == Init /\ [][Next]_vars

\* The scheduler runs every RUNNABLE process again (module Sched): a system
\* call that was begun goes on, a killed process leaves at its next trap, and
\* init.c goes round its loop.  Nothing makes another program call anything.
\* (Stated where liveness is checked: for "plain" programs.)
Plain == programs = "plain"
Fairness ==
    /\ WF_vars(Plain /\ Orphanage)
    /\ WF_vars(Plain /\ Step(init))
    /\ \A p \in Proc : WF_vars(Plain /\ pc[p] # "user" /\ Step(p))
    /\ \A p \in Proc : WF_vars(Plain /\ killed[p] /\ Exit(p))

FairSpec == Spec /\ Fairness

-----------------------------------------------------------------------------
Used == Proc \ Unused
\* No program has called orphanage() for a process that had not exited.
Defined == pc[init] # "undefined"

\* A process that has started has a parent that can still collect it, whoever
\* calls orphanage() for which zombies: exit() hands its children over in the
\* same critical section that makes it a zombie.
ParentAlive ==
    /\ TypeOK
    /\ Defined => \A p \in Proc \ {init} : state[p] \in {"RUNNABLE", "SLEEPING", "ZOMBIE"} =>
         /\ parent[p] # NoProc
         /\ state[parent[p]] \in {"RUNNABLE", "SLEEPING"}

\* A parent asleep in wait or join has nothing to collect and still has a child
\* whose exit will wake it: no wakeup of exit() is lost and none is missing,
\* and an orphanage() of somebody else's zombie makes nobody wait in vain.
NoMissedChild ==
    Defined => \A p \in Proc : state[p] = "SLEEPING" =>
        /\ Zombies(p, pc[p]) = {}
        /\ \E q \in Children(p) : state[q] \in {"RUNNABLE", "SLEEPING"}

\* wait(), join() and init.c give a process back only after its exit(), whatever
\* other programs give back between init's wait() and its orphanage(wpid).  Only
\* an orphanage() that a program calls for it takes a process that is alive.
OnlyZombiesReaped ==
    [][\A p \in Proc : state[p] \in {"RUNNABLE", "SLEEPING"} /\ state'[p] = "UNUSED" =>
            ~Defined' /\ \E q \in Proc \ {init} : OrphanageOf(q, p)]_vars

\* A process that has started has an address space that is still allocated:
\* no wait() or exec() has freed the pages it runs on.
AddressSpaceLive ==
    \A p \in Proc : state[p] \in {"RUNNABLE", "SLEEPING", "ZOMBIE"} =>
        pgdir[p] \in live

\* Every allocated address space belongs to a process that is in the table:
\* nothing is leaked.
AddressSpaceOwned == \A d \in live : \E p \in Used : pgdir[p] = d

\* Programs that collect their children before they exit or exec neither run on
\* freed pages nor leak an address space, whatever fork, clone, exec, wait and
\* join do in between and whichever slots they reuse.
AddressSpacesKept ==
    programs = "tidy" => AddressSpaceLive /\ AddressSpaceOwned

\* What is handed to init is collected, and nothing else is: every zombie child
\* of init is reaped in the end, unless init itself dies (or the model has no
\* pid left for its next shell), also when other programs call orphanage() for
\* zombies; and no live process is given back but by a program that names it.
OrphansReaped ==
    /\ OnlyZombiesReaped
    /\ \A p \in Proc \ {init} :
         (Plain /\ state[p] = "ZOMBIE" /\ parent[p] = init) ~>
         (\/ state[p] = "UNUSED" \/ pc[init] = "panic"
          \/ pc[init] = "user" /\ nextpid > MaxPid)

\* A killed process exits, wherever it was when kill() hit it.
KilledExits ==
    \A p \in Proc \ {init} :
        Plain /\ killed[p] /\ state[p] \in {"RUNNABLE", "SLEEPING"} ~>
        (state[p] \in {"ZOMBIE", "UNUSED"} \/ pc[init] = "panic")

=============================================================================
