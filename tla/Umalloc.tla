------------------------------ MODULE Umalloc ------------------------------
(***************************************************************************)
(* malloc() and free() of p4b user/umalloc.c for a program of one thread:  *)
(* a ring of free blocks in the order of their addresses, that starts at   *)
(* the static header base, and sbrk() for more.  A unit is a Header; a     *)
(* block at address a has its header there and is size[a] units long.      *)
(* base lies below the heap, at address 0.                                 *)
(***************************************************************************)
EXTENDS Integers, FiniteSets

CONSTANTS
    Limit,      \* units sbrk() can give in all
    Chunk,      \* the least that morecore() asks for: 4096
    Length      \* lengths that programs ask for, in units

VARIABLES
    ptr, size,  \* the headers in memory
    freep,      \* where the last search ended; Null before the first call
    brk,        \* the first unit that is not the program's
    held, refused

vars == <<ptr, size, freep, brk, held, refused>>

Null == -1
base == 0
Addr == 0..Limit

Init ==
    /\ ptr = [a \in Addr |-> Null] /\ size = [a \in Addr |-> 0]
    /\ freep = Null
    /\ brk = 1
    /\ held = {} /\ refused = 0

\* The heap as a record, for the functions that change it one after another.
Heap == [ptr |-> ptr, size |-> size, freep |-> freep, brk |-> brk]

\* p after k steps from freep along the ring.
ring(h) == LET r[k \in 0..Limit] == IF k = 0 THEN h.freep ELSE h.ptr[r[k - 1]] IN r
\* After how many steps, from or more, a search meets the first block in wanted.
First(h, from, wanted) ==
    CHOOSE k \in from..Limit : ring(h)[k] \in wanted /\ \A j \in from..k - 1 : ring(h)[j] \notin wanted

\* Mutant: the block is not joined with the one before it.
joinLowerNever(h, p, bp) == [h EXCEPT !.ptr[p] = bp, !.freep = p]

\* The second half of free(): join with the free block before, or link.
joinLower(h, p, bp) ==
    IF p + h.size[p] = bp
      THEN [h EXCEPT !.size[p] = @ + h.size[bp], !.ptr[p] = h.ptr[bp], !.freep = p]
      ELSE [h EXCEPT !.ptr[p] = bp, !.freep = p]

joinUpper(h, p, bp) ==
    IF bp + h.size[bp] = h.ptr[p]
      THEN [h EXCEPT !.size[bp] = @ + h.size[h.ptr[p]], !.ptr[bp] = h.ptr[h.ptr[p]]]
      ELSE [h EXCEPT !.ptr[bp] = h.ptr[p]]

\* free(): p is the block in the ring after which bp belongs.
free(h, bp) ==
    LET here == {a \in Addr : \/ bp > a /\ bp < h.ptr[a]
                              \/ a >= h.ptr[a] /\ (bp > a \/ bp < h.ptr[a])}
        p == ring(h)[First(h, 0, here)]
    IN joinLower(joinUpper(h, p, bp), p, bp)

\* What morecore() asks sbrk() for.
more(nu) == IF nu < Chunk THEN Chunk ELSE nu
morecore(h, nu) ==
    free([h EXCEPT !.size[h.brk] = more(nu), !.brk = @ + more(nu)], h.brk)

Enough(h, nu) == {k \in 1..Limit : h.size[ring(h)[k]] >= nu}
\* The block the search takes, and the heap without it: a larger one keeps its
\* lower part.
found(h, nu) == First(h, 1, {a \in Addr : h.size[a] >= nu})
block(h, nu) == LET p == ring(h)[found(h, nu)] IN p + h.size[p] - nu
unlinked(h, nu) ==
    LET prevp == ring(h)[found(h, nu) - 1]
        p     == ring(h)[found(h, nu)] IN
    IF h.size[p] = nu
      THEN [h EXCEPT !.ptr[prevp] = h.ptr[p], !.freep = prevp]
      ELSE [h EXCEPT !.size[p] = @ - nu, !.size[block(h, nu)] = nu, !.freep = prevp]

\* What is in no header is the callers' to write: read as Null here.
Becomes(h, blocks) ==
    LET inRing == {ring(h)[k] : k \in 0..Limit} IN
    /\ ptr' = [a \in Addr |-> IF a \in inRing THEN h.ptr[a] ELSE Null]
    /\ size' = [a \in Addr |-> IF a \in inRing \cup {b.at - 1 : b \in blocks}
                                 THEN h.size[a] ELSE 0]
    /\ freep' = h.freep /\ brk' = h.brk
    /\ held' = blocks

malloc(n) ==
    LET nu == n + 1
        h  == IF freep = Null
                THEN [Heap EXCEPT !.ptr[base] = base, !.size[base] = 0, !.freep = base]
                ELSE Heap
        g  == IF Enough(h, nu) # {} THEN h ELSE morecore(h, nu) IN
    IF Enough(h, nu) = {} /\ h.brk + more(nu) > Limit + 1
      THEN Becomes(h, held) /\ refused' = n
      ELSE /\ Becomes(unlinked(g, nu), held \cup {[at |-> block(g, nu) + 1, len |-> n]})
           /\ refused' = 0

Free(b) == Becomes(free(Heap, b.at - 1), held \ {b}) /\ refused' = 0

Next == (\E n \in Length : malloc(n)) \/ \E b \in held : Free(b)

Spec == Init /\ [][Next]_vars

-----------------------------------------------------------------------------
Ring == {ring(Heap)[k] : k \in 0..Limit}
Unit(a, len) == a..a + len - 1
\* The ring holds exactly what nobody holds, and no two free blocks that touch.
RingIsTheRest ==
    freep # Null =>
        /\ base \in Ring
        /\ \A a, b \in Ring \ {base} : a # b => a + size[a] < b \/ b + size[b] < a
        /\ UNION {Unit(a, size[a]) : a \in Ring \ {base}}
             = 1..brk - 1 \ UNION {Unit(b.at - 1, b.len + 1) : b \in held}

Memory == INSTANCE Allocator WITH Header <- 1, region <- 1..brk - 1

\* Blocks never overlap, a request is refused only when there is no room for it
\* in one piece, and what was freed is merged: it can be given out again.
ImplementsMalloc == Memory!Spec /\ [][RingIsTheRest']_vars
=============================================================================
