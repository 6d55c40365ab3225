-------------------------------- MODULE Sbrk --------------------------------
(***************************************************************************)
(* sbrk() of the threads of one process, p4b/xv6_submitted_ver: the page   *)
(* directory they share, the size each has a copy of, and the mem_lock     *)
(* that keeps growproc() of one from running into that of another.         *)
(*                                                                         *)
(* A thread gets the mem_lock of whoever cloned it, and its copy of the    *)
(* size without a lock.  So the threads here are cloned by the first       *)
(* thread, and at a time when none of them is inside sbrk().               *)
(***************************************************************************)
EXTENDS Integers, FiniteSets

CONSTANTS
    Sharer, Leader,
    PGSIZE,
    USERTOP,    \* the address at which user memory ends
    Change,     \* the n that programs call sbrk() with
    FreePages   \* pages that kalloc() has when the process starts

\* What the results about sbrk() suppose.
SbrkAssumption ==
    /\ Leader \in Sharer /\ PGSIZE \in Nat \ {0} /\ USERTOP \in Int
    /\ Change \subseteq Int /\ FreePages \in Nat

VARIABLES
    sz,             \* proc->sz of each thread, 0 before it is cloned
    mem_lock_ptr,   \* whose mem_lock a thread takes
    locked,         \* the threads whose mem_lock is held
    mapped,         \* the pages in the page directory
    kfreelist,      \* free pages
    call,           \* where a thread is in sbrk(), and its locals
    emptied         \* history: a thread has asked to give back the whole size

sbrkvars == <<sz, mem_lock_ptr, locked, mapped, kfreelist, call, emptied>>

Out == [pc |-> "out", old |-> 0, new |-> 0, page |-> 0]
PGROUNDUP(a) == (a + PGSIZE - 1) \div PGSIZE    \* as a page number

SbrkInit ==
    /\ sz = [p \in Sharer |-> IF p = Leader THEN PGSIZE ELSE 0]
    /\ mem_lock_ptr = [p \in Sharer |-> p]
    /\ locked = {}
    /\ mapped = {0}
    /\ kfreelist = FreePages
    /\ call = [p \in Sharer |-> Out]
    /\ emptied = FALSE

Alive(p) == sz[p] > 0

-----------------------------------------------------------------------------
\* Mutant: a thread keeps the mem_lock of its own slot.
CloneOwnLock(p) ==
    /\ call[Leader].pc = "out" /\ ~Alive(p)
    /\ \A q \in Sharer : call[q].pc = "out"
    /\ sz' = [sz EXCEPT ![p] = sz[Leader]]
    /\ UNCHANGED <<mem_lock_ptr, locked, mapped, kfreelist, call, emptied>>

\* clone() by the first thread.
Clone(p) ==
    /\ ~Alive(p)
    /\ \A q \in Sharer : call[q].pc = "out"
    /\ sz' = [sz EXCEPT ![p] = sz[Leader]]
    /\ mem_lock_ptr' = [mem_lock_ptr EXCEPT ![p] = Leader]
    /\ UNCHANGED <<locked, mapped, kfreelist, call, emptied>>

\* acquire(proc->mem_lock_ptr); growproc() reads the size and adds n.  A sum
\* below 0 wraps: deallocuvm() is to go up, does nothing and returns the size.
Sbrk(p) ==
    /\ Alive(p) /\ call[p].pc = "out" /\ mem_lock_ptr[p] \notin locked
    /\ locked' = locked \cup {mem_lock_ptr[p]}
    /\ \E n \in Change :
         LET new == IF sz[p] + n < 0 THEN sz[p] ELSE sz[p] + n IN
         /\ call' = [call EXCEPT ![p] =
              [pc |-> IF new > sz[p] THEN "alloc" ELSE IF new < sz[p] THEN "dealloc" ELSE "store",
               old |-> sz[p], new |-> new,
               page |-> PGROUNDUP(IF new > sz[p] THEN sz[p] ELSE new)]]
         /\ emptied' = (emptied \/ new = 0)
    /\ UNCHANGED <<sz, mem_lock_ptr, mapped, kfreelist>>

\* allocuvm(), one page: kalloc() and mappages().
AllocPage(p) ==
    /\ call[p].pc = "alloc" /\ call[p].new <= USERTOP
    /\ call[p].page * PGSIZE < call[p].new /\ kfreelist > 0
    /\ mapped' = mapped \cup {call[p].page}
    /\ kfreelist' = kfreelist - 1
    /\ call' = [call EXCEPT ![p].page = @ + 1]
    /\ UNCHANGED <<sz, mem_lock_ptr, locked, emptied>>

Allocated(p) ==
    /\ call[p].pc = "alloc" /\ call[p].new <= USERTOP /\ call[p].page * PGSIZE >= call[p].new
    /\ call' = [call EXCEPT ![p].pc = "store"]
    /\ UNCHANGED <<sz, mem_lock_ptr, locked, mapped, kfreelist, emptied>>

\* Too high, or out of memory: what was allocated goes back; sbrk() fails.
AllocFails(p) ==
    /\ call[p].pc = "alloc"
    /\ \/ call[p].new > USERTOP /\ UNCHANGED <<mapped, kfreelist>>
       \/ /\ call[p].new <= USERTOP /\ call[p].page * PGSIZE < call[p].new /\ kfreelist = 0
          /\ LET back == {a \in mapped : a >= PGROUNDUP(call[p].old) /\ a * PGSIZE < call[p].new} IN
             /\ mapped' = mapped \ back
             /\ kfreelist' = Cardinality(back)
    /\ locked' = locked \ {mem_lock_ptr[p]}
    /\ call' = [call EXCEPT ![p] = Out]
    /\ UNCHANGED <<sz, mem_lock_ptr, emptied>>

\* deallocuvm(), one page that is there or not.
DeallocPage(p) ==
    /\ call[p].pc = "dealloc" /\ call[p].page * PGSIZE < call[p].old
    /\ mapped' = mapped \ {call[p].page}
    /\ kfreelist' = IF call[p].page \in mapped THEN kfreelist + 1 ELSE kfreelist
    /\ call' = [call EXCEPT ![p].page = @ + 1]
    /\ UNCHANGED <<sz, mem_lock_ptr, locked, emptied>>

Deallocated(p) ==
    /\ call[p].pc = "dealloc" /\ call[p].page * PGSIZE >= call[p].old /\ call[p].new # 0
    /\ call' = [call EXCEPT ![p].pc = "store"]
    /\ UNCHANGED <<sz, mem_lock_ptr, locked, mapped, kfreelist, emptied>>

\* The new size 0 is also what deallocuvm() returns, and growproc() takes it for
\* a failure: the pages are gone, the size stays (proc.c:114).
DeallocatedAll(p) ==
    /\ call[p].pc = "dealloc" /\ call[p].page * PGSIZE >= call[p].old /\ call[p].new = 0
    /\ locked' = locked \ {mem_lock_ptr[p]}
    /\ call' = [call EXCEPT ![p] = Out]
    /\ UNCHANGED <<sz, mem_lock_ptr, mapped, kfreelist, emptied>>

\* proc->sz = sz, before ptable.lock is taken.
Store(p) ==
    /\ call[p].pc = "store"
    /\ sz' = [sz EXCEPT ![p] = call[p].new]
    /\ call' = [call EXCEPT ![p].pc = "tell"]
    /\ UNCHANGED <<mem_lock_ptr, locked, mapped, kfreelist, emptied>>

\* The size goes to every slot with this page directory; the lock is released.
Tell(p) ==
    /\ call[p].pc = "tell"
    /\ sz' = [q \in Sharer |-> IF Alive(q) THEN sz[p] ELSE sz[q]]
    /\ locked' = locked \ {mem_lock_ptr[p]}
    /\ call' = [call EXCEPT ![p] = Out]
    /\ UNCHANGED <<mem_lock_ptr, mapped, kfreelist, emptied>>

SbrkNext == \E p \in Sharer :
    \/ Clone(p) \/ Sbrk(p) \/ AllocPage(p) \/ Allocated(p) \/ AllocFails(p)
    \/ DeallocPage(p) \/ Deallocated(p) \/ DeallocatedAll(p) \/ Store(p) \/ Tell(p)

SbrkSpec == SbrkInit /\ [][SbrkNext]_sbrkvars

-----------------------------------------------------------------------------
\* No page is mapped over another (the panic "remap"), no page is lost, and
\* when nobody is inside sbrk() all threads know the same size, above which no
\* page is mapped, and below which all are unless a thread has asked to give back
\* the whole size: that call fails, with the pages gone.
SpaceAgreed ==
    /\ \A p \in Sharer :
         call[p].pc = "alloc" /\ call[p].new <= USERTOP /\ call[p].page * PGSIZE < call[p].new
            => call[p].page \notin mapped
    /\ kfreelist + Cardinality(mapped) = FreePages + 1
    /\ (\A p \in Sharer : call[p].pc = "out") =>
         \A p \in Sharer : Alive(p) =>
            /\ sz[p] = sz[Leader]
            /\ mapped \subseteq 0..PGROUNDUP(sz[p]) - 1
            /\ ~emptied => mapped = 0..PGROUNDUP(sz[p]) - 1
=============================================================================
