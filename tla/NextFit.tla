------------------------------ MODULE NextFit ------------------------------
(***************************************************************************)
(* The allocator p3a_contest/mem_contest_t.c: a doubly linked list of all  *)
(* blocks, the search for a free one starting at nxt, where the last one   *)
(* ended.  A unit is the size of a header; the block at address a has its  *)
(* header there and size units behind it.  A header that was merged away   *)
(* stays in memory as it was.                                              *)
(***************************************************************************)
EXTENDS Integers, FiniteSets

CONSTANTS
    Region,     \* units of the region
    Length      \* lengths that programs ask for

Null == -1
list_head == 0
Addr == 0..Region - 1

VARIABLES
    mem,        \* the headers: next, prev, size and the busy bit, or no header
    nxt,        \* where the next search starts
    held        \* the blocks callers hold: [at, len]

vars == <<mem, nxt, held>>

NoHeader == [next |-> Null, prev |-> Null, size |-> 0, busy |-> FALSE, magic |-> FALSE]

\* Mem_Init(): one free block.
Init ==
    /\ mem = [a \in Addr |-> IF a = list_head
                THEN [NoHeader EXCEPT !.size = Region - 1, !.magic = TRUE] ELSE NoHeader]
    /\ nxt = list_head
    /\ held = {}

\* The blocks the loop of Mem_Alloc() looks at, one after another.
Visited == LET v[k \in 0..2 * Region] ==
                 IF k = 0 THEN nxt
                 ELSE IF mem[v[k - 1]].next = Null THEN list_head
                 ELSE mem[v[k - 1]].next
           IN  v
Fits(a, n) == ~mem[a].busy /\ n <= mem[a].size

\* The first that fits, before the loop is back at nxt; a larger one is split.
\* (The prev of the block after it is left as it was.)
Mem_Alloc(n) ==
    \E k \in 0..2 * Region :
        LET a == Visited[k]
            b == a + 1 + n
        IN
        /\ Fits(a, n)
        /\ \A j \in 0..k - 1 : ~Fits(Visited[j], n) /\ (j > 0 => Visited[j] # nxt)
        /\ k > 0 => a # nxt
        /\ IF n + 1 < mem[a].size
             THEN /\ mem' = [mem EXCEPT
                        ![a] = [@ EXCEPT !.next = b, !.size = n, !.busy = TRUE],
                        ![b] = [next |-> mem[a].next, prev |-> a, busy |-> FALSE,
                                size |-> mem[a].size - n - 1, magic |-> TRUE]]
                  /\ nxt' = b
             ELSE /\ mem' = [mem EXCEPT ![a].busy = TRUE]
                  /\ nxt' = IF mem[a].next = Null THEN list_head ELSE mem[a].next
        /\ held' = held \cup {[at |-> a + 1, len |-> n]}

\* One block takes the next one in, and the one after that is told.
Merge(m, a) ==
    LET b == m[a].next
        c == [m EXCEPT ![a].size = @ + m[b].size + 1, ![a].next = m[b].next] IN
    IF c[a].next = Null THEN c ELSE [c EXCEPT ![c[a].next].prev = a]

FreeNext(m, a) == m[a].next # Null /\ ~m[m[a].next].busy
FreePrev(m, a) == m[a].prev # Null /\ ~m[m[a].prev].busy

\* The block before takes a in, as its prev says, whatever lies between.
MergePrev(m, a) ==
    LET p == m[a].prev
        c == [m EXCEPT ![p].size = @ + m[a].size + 1, ![p].next = m[a].next] IN
    IF m[a].next = Null THEN c ELSE [c EXCEPT ![m[a].next].prev = p]

Mem_Free(b) ==
    LET a == b.at - 1
        m == [mem EXCEPT ![a].busy = FALSE]
        n == IF FreeNext(m, a) THEN Merge(m, a) ELSE m IN
    /\ mem[a].magic
    /\ mem' = IF FreePrev(n, a) THEN MergePrev(n, a) ELSE n
    /\ held' = held \ {b}
    /\ UNCHANGED nxt

Next == \/ \E n \in Length : Mem_Alloc(n)
        \/ \E b \in held : Mem_Free(b)

Spec == Init /\ [][Next]_vars

-----------------------------------------------------------------------------
\* Blocks that callers hold do not overlap, neither their bytes nor a header.
HeldApart ==
    \A b, c \in held : b # c =>
        b.at - 1..b.at + b.len - 1 \cap c.at - 1..c.at + c.len - 1 = {}
=============================================================================
