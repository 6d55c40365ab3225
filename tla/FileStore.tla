----------------------------- MODULE FileStore -----------------------------
(***************************************************************************)
(* What the p5a file server promises to the program behind the client      *)
(* library: one call at a time, the tree changes only as the call asks,    *)
(* and the answer it gets is true of the tree at that moment.              *)
(***************************************************************************)
EXTENDS Integers, FiniteSets

CONSTANTS Inum, Addr, Name, Value, NoInum, Hole, Free, Request, NoCall,
          Directory, RegularFile

VARIABLES
    tree,       \* what the inodes are: Free, a directory of names, or a file
    call,       \* the call the program is in
    answer      \* the call it made last and what that returned

IsDir(i)  == i \in Inum /\ tree[i] # Free /\ tree[i].type = Directory
IsFile(i) == i \in Inum /\ tree[i] # Free /\ tree[i].type = RegularFile

\* How many blocks a file has.
Length(i) == Cardinality({k \in Addr : tree[i].has[k] # Hole})

EmptyDir  == [type |-> Directory, has |-> [n \in Name |-> NoInum]]
EmptyFile == [type |-> RegularFile, has |-> [k \in Addr |-> Hole]]

Init ==
    /\ tree = [i \in Inum |-> IF i = 0 THEN EmptyDir ELSE Free]
    /\ call = NoCall
    /\ answer.call = NoCall

Begin ==
    /\ call = NoCall
    /\ call' \in Request
    /\ answer'.call = NoCall
    /\ UNCHANGED tree

-----------------------------------------------------------------------------
(* What a call may do to the tree *)

Create ==
    /\ call # NoCall /\ call.cmd = "CREAT"
    /\ IsDir(call.inum) /\ tree[call.inum].has[call.name] = NoInum
    /\ \E i \in Inum : tree[i] = Free /\
         tree' = [tree EXCEPT ![call.inum].has[call.name] = i,
                              ![i] = IF call.type = Directory THEN EmptyDir ELSE EmptyFile]

\* A write makes the file reach to its block.  What it finds in the blocks it
\* passes over is left open: the server does not clear them.
Grow ==
    /\ call # NoCall /\ call.cmd = "WRITE" /\ IsFile(call.inum)
    /\ \E k \in Addr :
         /\ k <= call.blk /\ tree[call.inum].has[k] = Hole
         /\ \A m \in Addr : m < k => tree[call.inum].has[m] # Hole
         /\ tree'[call.inum].has[k] # Hole
         /\ tree' = [tree EXCEPT ![call.inum].has[k] = tree'[call.inum].has[k]]

Store ==
    /\ call # NoCall /\ call.cmd = "WRITE" /\ IsFile(call.inum)
    /\ tree[call.inum].has[call.blk] # Hole
    /\ tree' = [tree EXCEPT ![call.inum].has[call.blk] = call.val]

Remove ==
    /\ call # NoCall /\ call.cmd = "UNLINK" /\ IsDir(call.inum)
    /\ LET i == tree[call.inum].has[call.name] IN
       /\ i # NoInum
       /\ IsDir(i) => \A n \in Name : tree[i].has[n] = NoInum
       /\ tree' = [tree EXCEPT ![call.inum].has[call.name] = NoInum, ![i] = Free]

-----------------------------------------------------------------------------
(* What an answer has to say *)

TrueAnswer(rc, size, val) ==
    CASE call.cmd = "LOOKUP" ->
            rc = IF IsDir(call.inum) THEN tree[call.inum].has[call.name] ELSE NoInum
      [] call.cmd = "CREAT" ->
            IF IsDir(call.inum) THEN rc = 0 /\ tree[call.inum].has[call.name] # NoInum
            ELSE rc = -1
      [] call.cmd = "WRITE" ->
            IF IsFile(call.inum) THEN rc = 0 /\ tree[call.inum].has[call.blk] = call.val
            ELSE rc = -1
      [] call.cmd = "READ" ->
            IF IsFile(call.inum)
              THEN LET b == tree[call.inum].has[call.blk] IN
                   IF b = Hole THEN rc = -1 ELSE rc = 0 /\ val = b
            ELSE IF IsDir(call.inum)
              THEN call.blk = 0 => rc = 0 /\ val = tree[call.inum].has
            ELSE rc = -1
      [] call.cmd = "STAT" ->
            IF IsFile(call.inum)
              THEN rc = 0 /\ size = Length(call.inum)
            ELSE IF IsDir(call.inum) THEN rc = 0 /\ size = 1
            ELSE rc = -1
      [] call.cmd = "UNLINK" ->
            \/ rc = 0 /\ IsDir(call.inum) /\ tree[call.inum].has[call.name] = NoInum
            \/ rc = -1 /\ ~IsDir(call.inum)
            \/ /\ rc = -1 /\ IsDir(call.inum)
               /\ LET i == tree[call.inum].has[call.name] IN
                  IsDir(i) /\ \E n \in Name : tree[i].has[n] # NoInum
      [] call.cmd = "SHUTDOWN" -> rc = 0

Return ==
    /\ call # NoCall
    /\ call' = NoCall
    /\ answer'.call = call
    /\ TrueAnswer(answer'.res.rc, answer'.res.size, answer'.res.val)
    /\ UNCHANGED tree

Next ==
    \/ Begin \/ Return
    \/ (Create \/ Grow \/ Store \/ Remove) /\ UNCHANGED <<call, answer>>

Spec == Init /\ [][Next]_<<tree, call, answer>>
=============================================================================
