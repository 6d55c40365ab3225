----------------------------- MODULE NibbleHeap -----------------------------
(***************************************************************************)
(* The allocator p3a/mem2.c: blocks of one of three sizes, and a map with  *)
(* four bits for each 16 bytes of the region, kept at its start.  Every    *)
(* call holds the mutex from its first look at the map to its last write.  *)
(***************************************************************************)
EXTENDS Integers, FiniteSets

CONSTANTS
    NSeg,       \* segments of 16 bytes in the region: seg_number
    NHeader,    \* those the map itself takes: num_block_for_header
    Size        \* lengths Mem_Alloc gives out, in segments: 1, 5, 16

VARIABLES
    map,            \* per segment: 0, the length of the block that starts
                    \* there (0110, 1010, 1110), or Inside (0010)
    mem_available,  \* free segments
    held,           \* the blocks callers hold
    refused         \* the length the last call refused

vars == <<map, mem_available, held, refused>>

Seg == 0..NSeg - 1
Inside == -1

\* Mem_Init()
Init ==
    /\ map = [i \in Seg |-> IF i < NHeader THEN 1 ELSE 0]
    /\ mem_available = NSeg - NHeader
    /\ held = {} /\ refused = 0

\* Mutant: the free segments before a block are not added to the address.
passShort(loop, m) ==
    IF m = 0 THEN [loop EXCEPT !.count = @ + 1]
    ELSE [count |-> 0, addr |-> loop.addr + IF m = Inside THEN 0 ELSE m]

\* One round of the loop of Mem_Alloc: how many free segments end here, and
\* the address to be returned.
pass(loop, m) ==
    IF m = 0 THEN [loop EXCEPT !.count = @ + 1]
    ELSE [count |-> 0,
          addr |-> loop.addr + loop.count + IF m = Inside THEN 0 ELSE m]

\* The loop, before segment i.
scan == LET s[i \in 0..NSeg] == IF i = 0 THEN [count |-> 0, addr |-> 0]
                                ELSE pass(s[i - 1], map[i - 1])
        IN  s

\* It stops at the first segment that makes size free ones in a row.
Stops(s, size) == {i \in Seg : s[i + 1].count = size}
Minimum(S) == CHOOSE i \in S : \A j \in S : i <= j

Mem_Alloc(size) ==
    LET s     == scan
        last  == Minimum(Stops(s, size))
        start == last - size + 1 IN
    IF Stops(s, size) = {}
      THEN /\ refused' = size
           /\ UNCHANGED <<map, mem_available, held>>
      ELSE /\ map' = [i \in Seg |-> IF i = start THEN size
                                    ELSE IF i \in start + 1..last THEN Inside
                                    ELSE map[i]]
           /\ mem_available' = mem_available - size
           /\ held' = held \cup {[at |-> s[last].addr, len |-> size]}
           /\ refused' = 0

\* Mem_Free() of a block, or of what is none: -1.
Mem_Free(seg) ==
    /\ refused' = 0
    /\ IF map[seg] \in {0, Inside}
         THEN UNCHANGED <<map, mem_available, held>>
         ELSE /\ map' = [i \in Seg |->
                    IF i \in seg..seg + map[seg] - 1 THEN 0 ELSE map[i]]
              /\ mem_available' = mem_available + map[seg]
              /\ held' = {b \in held : b.at # seg}

Next ==
    \/ \E size \in Size : Mem_Alloc(size)
    \/ \E b \in held : Mem_Free(b.at)
    \/ \E seg \in NHeader..NSeg - 1 : map[seg] \in {0, Inside} /\ Mem_Free(seg)

Spec == Init /\ [][Next]_vars

-----------------------------------------------------------------------------
\* Blocks never overlap, lie where Mem_Alloc() said, and are refused only when
\* there is no room for them in one piece: module Allocator.
Memory == INSTANCE Allocator WITH Header <- 0, region <- NHeader..NSeg - 1
ImplementsMemory == Memory!Spec
=============================================================================
