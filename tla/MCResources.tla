---------------------------- MODULE MCResources ----------------------------
(* Model checking of what processes hold: open files, a pipe, and the user   *)
(* memory of p3b, each by itself.  part never changes; the variables of the  *)
(* others stay as they start.                                                *)
EXTENDS FileTable, Pipe, UserSpace, TLC

VARIABLES part

all   == <<part, vars, pipevars, spacevars>>

\* What is written to the pipe.
MCStrings == {<<0>>, <<1, 0>>, <<0, 1, 1>>}
\* What the proofs about pipes suppose.
ASSUME PipeParameters == PipeAssumption

\* Writers are interchangeable.
Symmetric == Permutations(Writer)

FilesIdle == Init /\ programs = "turns"
PipeIdle  == PipeInit /\ data = [i \in 0..1 |-> 0]
SpaceIdle == SpaceInit /\ sz[1] = 6

MCInit ==
    \/ part = "files" /\ Init      /\ PipeIdle /\ SpaceIdle
    \/ part = "pipe"  /\ FilesIdle /\ PipeInit /\ SpaceIdle
    \/ part = "p3b"   /\ FilesIdle /\ PipeIdle /\ SpaceInit

MCNext ==
    \/ part = "files" /\ Next /\ UNCHANGED <<part, pipevars, spacevars>>
    \/ part = "pipe" /\ PipeNext /\ UNCHANGED <<part, vars, spacevars>>
    \/ part = "p3b" /\ SpaceNext /\ UNCHANGED <<part, vars, pipevars>>

MCSpec == MCInit /\ [][MCNext]_all
=============================================================================
