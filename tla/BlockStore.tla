----------------------------- MODULE BlockStore -----------------------------
(***************************************************************************)
(* What the buffer cache promises to the file system (bio.c:4-15): the     *)
(* blocks of the disk, each used by one process at a time, and a process   *)
(* that has a block sees what was last written to it.                      *)
(***************************************************************************)
CONSTANTS Proc, Sector, Value, Blank, NoProc

VARIABLES
    block,      \* what a sector holds
    user,       \* the process that has it
    view        \* what a process sees of the block it has, or Blank

Init ==
    /\ block = [s \in Sector |-> Blank]
    /\ user = [s \in Sector |-> NoProc]
    /\ view = [p \in Proc |-> Blank]

\* A process gets a block to itself.
Claim(p, s) ==
    /\ user[s] = NoProc
    /\ user' = [user EXCEPT ![s] = p]
    /\ UNCHANGED <<block, view>>

\* It sees the contents.
Fetch(p, s) ==
    /\ user[s] = p
    /\ view' = [view EXCEPT ![p] = block[s]]
    /\ UNCHANGED <<block, user>>

\* It changes them.
Change(p, s, v) ==
    /\ user[s] = p
    /\ block' = [block EXCEPT ![s] = v]
    /\ view' = [view EXCEPT ![p] = v]
    /\ UNCHANGED user

Release(p, s) ==
    /\ user[s] = p
    /\ user' = [user EXCEPT ![s] = NoProc]
    /\ view' = [view EXCEPT ![p] = Blank]
    /\ UNCHANGED block

Next == \E p \in Proc, s \in Sector :
    \/ Claim(p, s) \/ Fetch(p, s) \/ Release(p, s)
    \/ \E v \in Value : Change(p, s, v)

Spec == Init /\ [][Next]_<<block, user, view>>
=============================================================================
