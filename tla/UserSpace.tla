----------------------------- MODULE UserSpace -----------------------------
(***************************************************************************)
(* User memory in p3b (xv6_submitted_ver_yudong): the program from the     *)
(* second page on, a page left free, the heap growing up from heap_bot to  *)
(* sz, and the stack growing down from USERTOP, a page at each page fault. *)
(* exec, new_exec, fork, sbrk, faults and the end of a process change the  *)
(* page directory and these bounds; copyuvm() and the checks of system     *)
(* call arguments believe in the bounds.                                   *)
(*                                                                         *)
(* A process runs each of them alone: page directories are not shared.     *)
(* Programs have one segment and give back no more than the heap; memory   *)
(* for page tables does not run out.                                       *)
(***************************************************************************)
EXTENDS Integers, FiniteSets

CONSTANTS
    MaxProc,    \* NPROC
    PGSIZE,
    USERTOP,
    UintRange,  \* 2^32: addresses are unsigned and wrap there
    Physical,   \* physical pages for users, at first free
    ProgramEnd, \* ph.va + ph.memsz of the programs, far below USERTOP
    Change,     \* sbrk(n) and sbrk(-n) for these n
    MaxStack    \* the limits that new_exec() is called with, 0 for none

VARIABLES
    live,       \* slots with a process
    sz, heap_bot, stack_low_bound, max_stack_page,
    pages,      \* pgdir: the pages that are mapped, by number
    kfreelist,  \* how many physical pages are free
    intact,     \* history: no exec() failed late in this process, see ExecFails
    panicked    \* the slot whose call stopped the kernel

spacevars == <<live, sz, heap_bot, stack_low_bound, max_stack_page, pages, kfreelist,
               intact, panicked>>
bounds == <<sz, heap_bot, stack_low_bound>>

Slot == 1..MaxProc
Page == 0..USERTOP \div PGSIZE
init == 1
PGROUNDUP(a) == (a + PGSIZE - 1) \div PGSIZE    \* as a page number

\* The pages from one address to another that allocuvm() and deallocuvm() visit.
Pages(from, to) == {i \in Page : PGROUNDUP(from) <= i /\ i * PGSIZE < to}

\* Three parts, as a process knows them.
Code(p)  == Pages(PGSIZE, heap_bot[p] - PGSIZE)
Heap(p)  == Pages(heap_bot[p], sz[p])
Stack(p) == Pages(stack_low_bound[p], USERTOP)

HeapBot(end) == PGROUNDUP(end) * PGSIZE + PGSIZE

ASSUME SpaceAssumption ==
    /\ MaxProc \in Nat \ {0} /\ PGSIZE \in Nat \ {0} /\ Physical \in Nat
    /\ USERTOP \in Nat /\ USERTOP % PGSIZE = 0
    /\ UintRange \in Nat /\ USERTOP < UintRange
    /\ ProgramEnd \subseteq Nat /\ Change \subseteq Nat /\ MaxStack \subseteq Nat
    /\ \A end \in ProgramEnd : HeapBot(end) < USERTOP - PGSIZE

\* /init has been loaded.
SpaceInit ==
    \E end \in ProgramEnd :
        /\ live = {init}
        /\ sz = [p \in Slot |-> HeapBot(end)] /\ heap_bot = sz
        /\ stack_low_bound = [p \in Slot |-> USERTOP - PGSIZE]
        /\ max_stack_page = [p \in Slot |-> 0]
        /\ pages = [p \in Slot |-> IF p = init
                      THEN Pages(PGSIZE, end) \cup Pages(USERTOP - PGSIZE, USERTOP) ELSE {}]
        /\ kfreelist = Physical - Cardinality(pages[init])
        /\ intact = [p \in Slot |-> TRUE]
        /\ panicked = {}

\* A process other than init: that one forks and waits.
MayRun(p) == p \in live \ {init} /\ panicked = {}

Panic(p) ==
    /\ panicked' = {p}
    /\ UNCHANGED <<live, bounds, max_stack_page, pages, kfreelist, intact>>

-----------------------------------------------------------------------------
\* fork(): copyuvm() goes through the three parts in turn.
Wanted(p) == Code(p) \cup Heap(p) \cup Stack(p)
Missing(p) == Wanted(p) \ pages[p]
Before(p) == {i \in Wanted(p) : \A j \in Missing(p) : i < j}

Fork(p, q) ==
    /\ p = init \/ MayRun(p)
    /\ panicked = {} /\ q \notin live
    /\ Missing(p) = {} /\ kfreelist >= Cardinality(Wanted(p))
    /\ live' = live \cup {q}
    /\ sz' = [sz EXCEPT ![q] = sz[p]]
    /\ heap_bot' = [heap_bot EXCEPT ![q] = heap_bot[p]]
    /\ stack_low_bound' = [stack_low_bound EXCEPT ![q] = stack_low_bound[p]]
    /\ max_stack_page' = [max_stack_page EXCEPT ![q] = max_stack_page[p]]
    /\ pages' = [pages EXCEPT ![q] = Wanted(p)]
    /\ kfreelist' = kfreelist - Cardinality(Wanted(p))
    /\ intact' = [intact EXCEPT ![q] = intact[p]]
    /\ UNCHANGED panicked

\* A page that should be there is not: panic, unless memory runs out first.
ForkPanics(p) ==
    /\ p = init \/ MayRun(p)
    /\ panicked = {} /\ live # Slot
    /\ Missing(p) # {} /\ kfreelist >= Cardinality(Before(p))
    /\ Panic(p)

-----------------------------------------------------------------------------
\* exec(), or new_exec() with a limit for the stack: the new image, and the old
\* one is freed.
Limit(p) == {max_stack_page[p]} \cup MaxStack

Exec(p) ==
    /\ MayRun(p)
    /\ \E end \in ProgramEnd :
         LET image == Pages(PGSIZE, end) \cup Pages(USERTOP - PGSIZE, USERTOP) IN
         /\ Cardinality(image) <= kfreelist
         /\ pages' = [pages EXCEPT ![p] = image]
         /\ kfreelist' = kfreelist - Cardinality(image) + Cardinality(pages[p])
         /\ sz' = [sz EXCEPT ![p] = HeapBot(end)]
         /\ heap_bot' = [heap_bot EXCEPT ![p] = HeapBot(end)]
    /\ stack_low_bound' = [stack_low_bound EXCEPT ![p] = USERTOP - PGSIZE]
    /\ \E m \in Limit(p) : max_stack_page' = [max_stack_page EXCEPT ![p] = m]
    /\ intact' = [intact EXCEPT ![p] = TRUE]
    /\ UNCHANGED <<live, panicked>>

\* exec() fails.  When it fails late, for want of a page for the stack or
\* because the arguments do not fit, heap_bot is that of the program that was
\* not started.  The limit for the stack has changed in any case.
ExecFails(p) ==
    /\ MayRun(p)
    /\ \E m \in Limit(p) : max_stack_page' = [max_stack_page EXCEPT ![p] = m]
    /\ \/ heap_bot' = heap_bot
       \/ \E end \in ProgramEnd :
            /\ Cardinality(Pages(PGSIZE, end)) <= kfreelist
            /\ heap_bot' = [heap_bot EXCEPT ![p] = HeapBot(end)]
    /\ intact' = [intact EXCEPT ![p] = @ /\ heap_bot' = heap_bot]
    /\ UNCHANGED <<live, sz, stack_low_bound, pages, kfreelist, panicked>>

-----------------------------------------------------------------------------
\* The check of sys_sbrk(), with its unsigned comparison: a page is to be left
\* below the stack.
BelowStack(p, n) ==
    /\ sz[p] + n + PGSIZE >= 0
    /\ sz[p] + n + PGSIZE <= stack_low_bound[p]

Grow(p) == \E n \in Change :
    LET new == Pages(sz[p], sz[p] + n) IN
    /\ MayRun(p) /\ BelowStack(p, n)
    /\ Cardinality(new) <= kfreelist
    /\ IF new \cap pages[p] # {} THEN Panic(p)      \* "remap"
       ELSE /\ pages' = [pages EXCEPT ![p] = @ \cup new]
            /\ kfreelist' = kfreelist - Cardinality(new)
            /\ sz' = [sz EXCEPT ![p] = @ + n]
            /\ UNCHANGED <<live, heap_bot, stack_low_bound, max_stack_page, intact, panicked>>

Shrink(p) == \E n \in Change :
    LET old == Pages(sz[p] - n, sz[p]) \cap pages[p] IN
    /\ MayRun(p) /\ BelowStack(p, -n)
    /\ sz[p] - n >= heap_bot[p]
    /\ pages' = [pages EXCEPT ![p] = @ \ old]
    /\ kfreelist' = kfreelist + Cardinality(old)
    /\ sz' = [sz EXCEPT ![p] = @ - n]
    /\ UNCHANGED <<live, heap_bot, stack_low_bound, max_stack_page, intact, panicked>>

-----------------------------------------------------------------------------
\* exit(), or a page fault elsewhere than below the stack or without room; then
\* wait() of the parent.
SpaceExit(p) ==
    /\ MayRun(p)
    /\ live' = live \ {p}
    /\ pages' = [pages EXCEPT ![p] = {}]
    /\ kfreelist' = kfreelist + Cardinality(pages[p])
    /\ UNCHANGED <<bounds, max_stack_page, intact, panicked>>

\* Mutant: the heap is not looked at.
StackRoomNoHeap(p) ==
    max_stack_page[p] = 0 \/ Cardinality(Stack(p)) + 1 <= max_stack_page[p]

\* trap() lets the stack have one more page.
StackRoom(p) ==
    /\ stack_low_bound[p] - PGSIZE > sz[p]
    /\ \/ max_stack_page[p] = 0
       \/ (USERTOP - stack_low_bound[p]) \div PGSIZE + 1 <= max_stack_page[p]

\* A page fault less than a page below the stack.
StackGrows(p) ==
    LET new == Pages(stack_low_bound[p] - PGSIZE, stack_low_bound[p]) IN
    /\ MayRun(p) /\ new \cap pages[p] = {}
    /\ StackRoom(p) /\ kfreelist > 0
    /\ pages' = [pages EXCEPT ![p] = @ \cup new]
    /\ kfreelist' = kfreelist - 1
    /\ stack_low_bound' = [stack_low_bound EXCEPT ![p] = @ - PGSIZE]
    /\ UNCHANGED <<live, sz, heap_bot, max_stack_page, intact, panicked>>

SpaceNext ==
    \E p \in Slot :
        \/ \E q \in Slot : Fork(p, q)
        \/ ForkPanics(p) \/ Exec(p) \/ ExecFails(p)
        \/ Grow(p) \/ Shrink(p) \/ StackGrows(p) \/ SpaceExit(p)

SpaceSpec == SpaceInit /\ [][SpaceNext]_spacevars

-----------------------------------------------------------------------------
\* argptr(): size bytes at a, both unsigned, are accepted as an argument of a
\* system call.  The end is a sum that wraps, and pid 1 is never refused.
argptr(p, a, size) ==
    LET end == (a + size) % UintRange IN
    \/ p = init
    \/ a >= PGSIZE /\ end <= heap_bot[p] - PGSIZE
    \/ a >= heap_bot[p] /\ end <= sz[p]
    \/ a >= stack_low_bound[p] /\ end <= USERTOP

\* Of the arguments whose end does not wrap: those accepted are mapped.
InSpace(p) == \A a, size \in 0..UintRange - 1 :
    a + size < UintRange /\ argptr(p, a, size) =>
        \A b \in a..a + size - 1 : b \div PGSIZE \in pages[p]

\* The physical pages that users have: who has one, and where.
Frames == {f \in Slot \X Page : f[2] \in pages[f[1]]}

\* The memory of a process is its program, heap and stack, page for page: the
\* stack does not grow into the heap (user/stack4.c) nor the heap into the stack
\* (user/heap2.c), fork() finds the pages it copies and never panics, and no
\* physical page is lost, over any sequence of calls in which no exec() fails
\* late.  What argptr() then accepts from a process lies in its memory, but for
\* pid 1, of which it accepts everything, and for an end that wraps.
SpaceLaidOut ==
    /\ kfreelist + Cardinality(Frames) = Physical
    /\ \A p \in live : intact[p] =>
        /\ pages[p] = Code(p) \cup Heap(p) \cup Stack(p)
        /\ sz[p] < stack_low_bound[p]
        /\ p # init => InSpace(p)
        /\ p \notin panicked

\* "Check that the pointer lies within the process address space" (the comment on
\* argptr(), syscall.c:58), which pid 1 is exempt from.
ArgsInSpace == \A p \in live \ {init} : InSpace(p)
=============================================================================
