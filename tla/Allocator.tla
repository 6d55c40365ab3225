----------------------------- MODULE Allocator -----------------------------
(***************************************************************************)
(* What a memory allocator promises: blocks that are held never overlap, a *)
(* block is as long as was asked for, and a request is refused only when   *)
(* no gap in the region is long enough for it.                             *)
(***************************************************************************)
EXTENDS Integers, FiniteSets

CONSTANTS
    Header      \* units in front of every block that are not the caller's

VARIABLES
    region,     \* the units that may be given out; grows at its end
    held,       \* the blocks callers hold: [at, len]
    refused     \* the length that the last call refused, or 0

vars == <<region, held, refused>>

Units(at, len) == at - Header..at + len - 1
Taken == UNION {Units(b.at, b.len) : b \in held}
Fits(r, at, len) == Units(at, len) \subseteq r \ Taken

Init == held = {} /\ refused = 0

Alloc ==
    /\ region \subseteq region'
    /\ \E b \in held' \ held :
         /\ Fits(region', b.at, b.len)
         /\ held' = held \cup {b}
    /\ refused' = 0

Refuse ==
    /\ refused' > 0
    /\ \A at \in region : ~Fits(region, at, refused')
    /\ UNCHANGED <<region, held>>

Free ==
    /\ \E b \in held : held' = held \ {b}
    /\ refused' = 0
    /\ UNCHANGED region

\* What is no block that anybody holds cannot be freed.
FreeNothing == refused' = 0 /\ UNCHANGED <<region, held>>

Next == Alloc \/ Refuse \/ Free \/ FreeNothing

Spec == Init /\ [][Next]_vars
=============================================================================
