------------------------------ MODULE MCParts ------------------------------
(* Model checking of the smaller parts, each by itself: the sleeping lock,   *)
(* the web server, two allocators, sbrk() and the console.  part never        *)
(* changes; the variables of the others stay as they start.                  *)
EXTENDS UserLock, WebServer, Sbrk, Console

VARIABLES
    part,
    \* NibbleHeap, Umalloc
    map, mem_available, blocks, denied,
    ptr, size, freep, brk, held, refused

nibble  == <<map, mem_available, blocks, denied>>
umalloc == <<ptr, size, freep, brk, held, refused>>
all     == <<part, vars, webvars, nibble, umalloc, sbrkvars, consolevars>>

\* What sbrk() is called with.
MCChange == {-3, -2, 0, 1, 3}
\* What the proofs suppose of the parameters.
ASSUME WebParameters == WebAssumption
ASSUME SbrkParameters == SbrkAssumption
ASSUME ConsoleParameters == ConsoleAssumption
\* 16, 80 and 256 bytes become 1, 2 and 4 segments of a small region.
Nibble == INSTANCE NibbleHeap WITH
    NSeg <- 11, NHeader <- 2, Size <- {1, 2, 4}, held <- blocks, refused <- denied
Malloc == INSTANCE Umalloc WITH Limit <- 12, Chunk <- 4, Length <- {1, 2, 5}

MCInit ==
    /\ part \in {"lock", "web", "mem2", "malloc", "sbrk", "console"}
    /\ Init /\ WebInit /\ Nibble!Init /\ Malloc!Init /\ SbrkInit /\ ConsoleInit

LockStep(A) == /\ part = "lock" /\ A
               /\ UNCHANGED <<part, webvars, nibble, umalloc, sbrkvars, consolevars>>
WebStep(A)  == /\ part = "web" /\ A
               /\ UNCHANGED <<part, vars, nibble, umalloc, sbrkvars, consolevars>>

\* Some parts may stop: every call is made, or every process is gone.
MCNext ==
    \/ LockStep(Next)
    \/ WebStep(WebNext)
    \/ /\ part = "mem2" /\ Nibble!Next
       /\ UNCHANGED <<part, vars, webvars, umalloc, sbrkvars, consolevars>>
    \/ /\ part = "malloc" /\ Malloc!Next
       /\ UNCHANGED <<part, vars, webvars, nibble, sbrkvars, consolevars>>
    \/ /\ part = "sbrk" /\ SbrkNext
       /\ UNCHANGED <<part, vars, webvars, nibble, umalloc, consolevars>>
    \/ /\ part = "console" /\ ConsoleNext
       /\ UNCHANGED <<part, vars, webvars, nibble, umalloc, sbrkvars>>

\* What keeps a part going.  UserLock: every RUNNABLE process runs again (module
\* Sched), and a time slice is long enough for a step.  WebServer: its Fairness.
MCSpec ==
    /\ MCInit /\ [][MCNext]_all
    /\ \A u \in Thread : SF_all(LockStep(\E c \in CPU : Dispatch(c, u)))
    /\ \A u \in Thread : SF_all(LockStep(\E c \in CPU : Step(c, u)))
    /\ WF_all(WebStep(Produce))
    /\ \A c \in Consumer : WF_all(WebStep(Consume(c)))

\* UserLock: main() of user/locks.c gets past its joins: every worker finishes
\* its rounds, none is left asleep.
AllJoin == <>(part # "lock" \/ Done)
\* NibbleHeap: blocks never overlap, nor is one refused that would fit.
ImplementsMemory == Nibble!ImplementsMemory
\* Umalloc: the same of malloc() and free(), and the free ones are merged.
ImplementsMalloc == Malloc!ImplementsMalloc
=============================================================================
