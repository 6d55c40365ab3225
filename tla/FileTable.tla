----------------------------- MODULE FileTable -----------------------------
(***************************************************************************)
(* Open files of p4b/xv6_submitted_ver: the system-wide table with its     *)
(* reference counts (kernel/file.c), the descriptors of each process and   *)
(* fdalloc() (kernel/sysfile.c), which gives a file opened by a thread to  *)
(* every process table slot with the same page directory.                  *)
(*                                                                         *)
(* ftable.lock makes one step of filealloc, filedup and fileclose.         *)
(* fdalloc holds no lock: it reads a descriptor table, then writes it, and *)
(* its f->ref++ is a load and a store.                                     *)
(***************************************************************************)
EXTENDS Integers, FiniteSets, FiniteSetsExt

CONSTANTS
    NPROC,          \* size of ptable.proc
    NOFILE,         \* descriptors of a process
    NFILE,          \* size of ftable.file
    Programs,       \* what is assumed of programs: see the variable programs
    MaxRef          \* bound: no dup of a file with that many references

ASSUME FileTableAssumption ==
    /\ NPROC \in Nat \ {0} /\ NOFILE \in Nat \ {0} /\ NFILE \in Nat \ {0}
    /\ Programs \subseteq {"inherit", "turns", "any"}
    /\ MaxRef \in Nat

Proc   == 1..NPROC
Fd     == 0..NOFILE - 1
File   == 1..NFILE
NoFile == 0
NoFd   == -1
State  == {"UNUSED", "EMBRYO", "RUNNABLE", "ZOMBIE"}
\* "fdalloc": about to look for a free descriptor; "store": it has found one;
\* "load", "inc": the two halves of f->ref++; "filedup": the end of dup;
\* "ret": the call is about to return rc; "fileclose": a reference to give up;
\* "copy": in the loop of fork and clone; "exit": in the loop of exit.
Pc == {"user", "fdalloc", "store", "load", "inc", "filedup", "ret",
       "fileclose", "copy", "exit", "panic"}

VARIABLES
    ref,        \* ftable.file[f].ref
    state, pgdir, thread,   \* struct proc; thread: mem_lock_ptr # &mem_lock
    ofile,      \* struct proc: what its descriptors stand for
    pc,         \* where a process stands
    call,       \* the system call it is in
    file,       \* the file the call is about
    slot, fd,   \* fdalloc: the slot it looks at, the descriptor it found
    rc,         \* what fdalloc will return
    load,       \* the value f->ref++ has read
    child,      \* the slot fork or clone fills in
    programs    \* never changes.  "inherit": threads open and dup no files;
                \* "turns": one system call at a time is made; "any": neither

locals == <<call, file, slot, fd, rc, load, child, programs>>
vars == <<ref, state, pgdir, thread, ofile, pc, call, file, slot, fd, rc, load, child,
          programs>>

TypeOK ==
    /\ ref \in [File -> Nat]
    /\ state \in [Proc -> State] /\ pgdir \in [Proc -> 0..NPROC]
    /\ thread \in [Proc -> BOOLEAN]
    /\ ofile \in [Proc -> [Fd -> File \cup {NoFile}]]
    /\ pc \in [Proc -> Pc] /\ call \in [Proc -> {"none", "open", "dup"}]
    /\ file \in [Proc -> File \cup {NoFile}]
    /\ slot \in [Proc -> 0..NPROC + 1] /\ fd \in [Proc -> Fd \cup {NoFd, NOFILE}]
    /\ rc \in [Proc -> Fd \cup {NoFd}] /\ load \in [Proc -> Nat]
    /\ child \in [Proc -> 0..NPROC]
    /\ programs \in Programs

\* One process, with no file open.
Init ==
    /\ ref = [f \in File |-> 0]
    /\ state = [p \in Proc |-> IF p = 1 THEN "RUNNABLE" ELSE "UNUSED"]
    /\ pgdir = [p \in Proc |-> IF p = 1 THEN 1 ELSE 0]
    /\ thread = [p \in Proc |-> FALSE]
    /\ ofile = [p \in Proc |-> [d \in Fd |-> NoFile]]
    /\ pc = [p \in Proc |-> "user"]
    /\ call = [p \in Proc |-> "none"]
    /\ file = [p \in Proc |-> NoFile]
    /\ slot = [p \in Proc |-> 0]
    /\ fd = [p \in Proc |-> NoFd]
    /\ rc = [p \in Proc |-> NoFd]
    /\ load = [p \in Proc |-> 0]
    /\ child = [p \in Proc |-> 0]
    /\ programs \in Programs

-----------------------------------------------------------------------------
Goto(p, l) == pc' = [pc EXCEPT ![p] = l]
Empty(q) == {d \in Fd : ofile[q][d] = NoFile}
Runs(p, l) == state[p] = "RUNNABLE" /\ pc[p] = l /\ \A q \in Proc : pc[q] # "panic"
Begins(p) == Runs(p, "user") /\ (programs = "turns" => \A q \in Proc : pc[q] = "user")
Opens(p) == Begins(p) /\ ~(programs = "inherit" /\ thread[p])

\* The fields a call starts with.
Enter(p, c, f) ==
    /\ call' = [call EXCEPT ![p] = c]
    /\ file' = [file EXCEPT ![p] = f]
    /\ slot' = [slot EXCEPT ![p] = IF thread[p] THEN 1 ELSE p]
    /\ rc' = [rc EXCEPT ![p] = NoFd]
    /\ fd' = [fd EXCEPT ![p] = NoFd]
    /\ UNCHANGED <<load, child, programs>>

\* Back to the program.
Leave(p) ==
    /\ Goto(p, "user")
    /\ call' = [call EXCEPT ![p] = "none"]
    /\ file' = [file EXCEPT ![p] = NoFile]
    /\ slot' = [slot EXCEPT ![p] = 0]
    /\ rc' = [rc EXCEPT ![p] = NoFd]
    /\ fd' = [fd EXCEPT ![p] = NoFd]
    /\ load' = [load EXCEPT ![p] = 0]
    /\ UNCHANGED <<child, programs>>

\* sys_open: filealloc() takes the first file without references.
Open(p) ==
    /\ Opens(p)
    /\ \E f \in File : ref[f] = 0
    /\ LET f == Min({g \in File : ref[g] = 0}) IN
       /\ ref' = [ref EXCEPT ![f] = 1]
       /\ Enter(p, "open", f)
    /\ Goto(p, "fdalloc")
    /\ UNCHANGED <<state, pgdir, thread, ofile>>

\* sys_dup of an open descriptor.
Dup(p, d) ==
    /\ Opens(p) /\ ofile[p][d] # NoFile /\ ref[ofile[p][d]] < MaxRef
    /\ Enter(p, "dup", ofile[p][d])
    /\ Goto(p, "fdalloc")
    /\ UNCHANGED <<ref, state, pgdir, thread, ofile>>

\* A slot fdalloc fills: its own, or for a thread every slot with the same
\* page directory, whatever its state.
Matches(p, q) == IF thread[p] THEN pgdir[q] = pgdir[p] ELSE q = p

\* fdalloc(): the first free descriptor of the slot it looks at.
FdFind(p) ==
    /\ Runs(p, "fdalloc") /\ slot[p] \in Proc
    /\ Matches(p, slot[p]) /\ Empty(slot[p]) # {}
    /\ fd' = [fd EXCEPT ![p] = Min(Empty(slot[p]))]
    /\ Goto(p, "store")
    /\ UNCHANGED <<ref, state, pgdir, thread, ofile, call, file, slot, rc, load, child, programs>>

\* A slot that does not match, or has no free descriptor: the next slot for a
\* thread, the end for a process.
FdSkip(p) ==
    /\ Runs(p, "fdalloc") /\ slot[p] \in Proc
    /\ ~Matches(p, slot[p]) \/ Empty(slot[p]) = {}
    /\ slot' = [slot EXCEPT ![p] = IF thread[p] THEN @ + 1 ELSE NPROC + 1]
    /\ UNCHANGED <<ref, state, pgdir, thread, ofile, pc, call, file, fd, rc, load, child, programs>>

\* Mutant: rc is taken after the fd++ of the loop.
FdStoreLate(p) ==
    /\ Runs(p, "store")
    /\ ofile' = [ofile EXCEPT ![slot[p]][fd[p]] = file[p]]
    /\ rc' = [rc EXCEPT ![p] = fd[p] + 1]
    /\ IF slot[p] # p
         THEN Goto(p, "load") /\ UNCHANGED slot
         ELSE /\ Goto(p, "fdalloc")
              /\ slot' = [slot EXCEPT ![p] = IF thread[p] THEN @ + 1 ELSE NPROC + 1]
    /\ UNCHANGED <<ref, state, pgdir, thread, call, file, fd, load, child, programs>>

\* It writes the descriptor, and counts a reference for another process.
FdStore(p) ==
    /\ Runs(p, "store")
    /\ ofile' = [ofile EXCEPT ![slot[p]][fd[p]] = file[p]]
    /\ rc' = [rc EXCEPT ![p] = fd[p]]
    /\ IF slot[p] # p
         THEN Goto(p, "load") /\ UNCHANGED slot
         ELSE /\ Goto(p, "fdalloc")
              /\ slot' = [slot EXCEPT ![p] = IF thread[p] THEN @ + 1 ELSE NPROC + 1]
    /\ UNCHANGED <<ref, state, pgdir, thread, call, file, fd, load, child, programs>>

RefLoad(p) ==
    /\ Runs(p, "load")
    /\ load' = [load EXCEPT ![p] = ref[file[p]]]
    /\ Goto(p, "inc")
    /\ UNCHANGED <<ref, state, pgdir, thread, ofile, call, file, slot, fd, rc, child, programs>>

RefInc(p) ==
    /\ Runs(p, "inc")
    /\ ref' = [ref EXCEPT ![file[p]] = load[p] + 1]
    /\ slot' = [slot EXCEPT ![p] = @ + 1]
    /\ Goto(p, "fdalloc")
    /\ UNCHANGED <<state, pgdir, thread, ofile, call, file, fd, rc, load, child, programs>>

\* Mutant: a failed fdalloc of open does not give the file back.
FdEndLeak(p) ==
    /\ Runs(p, "fdalloc") /\ slot[p] = NPROC + 1
    /\ \/ rc[p] = NoFd /\ Leave(p)
       \/ rc[p] # NoFd /\ call[p] = "open" /\ Goto(p, "ret") /\ UNCHANGED locals
       \/ rc[p] # NoFd /\ call[p] = "dup" /\ Goto(p, "filedup") /\ UNCHANGED locals
    /\ UNCHANGED <<ref, state, pgdir, thread, ofile>>

\* The end of fdalloc.  Without a descriptor open gives the file back and dup
\* returns; a thread returns rc uninitialized, which may pass for a descriptor.
FdEnd(p) ==
    /\ Runs(p, "fdalloc") /\ slot[p] = NPROC + 1
    /\ \/ rc[p] = NoFd /\ call[p] = "open" /\ Goto(p, "fileclose") /\ UNCHANGED locals
       \/ rc[p] = NoFd /\ call[p] = "dup" /\ Leave(p)
       \/ /\ rc[p] = NoFd /\ thread[p]
          /\ rc' = [rc EXCEPT ![p] = 0]
          /\ Goto(p, IF call[p] = "dup" THEN "filedup" ELSE "ret")
          /\ UNCHANGED <<call, file, slot, fd, load, child, programs>>
       \/ rc[p] # NoFd /\ call[p] = "open" /\ Goto(p, "ret") /\ UNCHANGED locals
       \/ rc[p] # NoFd /\ call[p] = "dup" /\ Goto(p, "filedup") /\ UNCHANGED locals
    /\ UNCHANGED <<ref, state, pgdir, thread, ofile>>

\* filedup(): panics on a file nobody has.
Filedup(p) ==
    /\ Runs(p, "filedup")
    /\ IF ref[file[p]] < 1 THEN Goto(p, "panic") /\ UNCHANGED ref
       ELSE Goto(p, "ret") /\ ref' = [ref EXCEPT ![file[p]] = @ + 1]
    /\ UNCHANGED <<state, pgdir, thread, ofile, locals>>

Ret(p) ==
    /\ Runs(p, "ret")
    /\ Leave(p)
    /\ UNCHANGED <<ref, state, pgdir, thread, ofile>>

\* sys_close: first the descriptor, then the reference.
Close(p, d) ==
    /\ Begins(p) /\ ofile[p][d] # NoFile
    /\ ofile' = [ofile EXCEPT ![p][d] = NoFile]
    /\ file' = [file EXCEPT ![p] = ofile[p][d]]
    /\ Goto(p, "fileclose")
    /\ UNCHANGED <<ref, state, pgdir, thread, call, slot, fd, rc, load, child, programs>>

\* fileclose(): panics on a file nobody has.
Fileclose(p) ==
    /\ Runs(p, "fileclose")
    /\ IF ref[file[p]] < 1 THEN Goto(p, "panic") /\ UNCHANGED <<ref, locals>>
       ELSE Leave(p) /\ ref' = [ref EXCEPT ![file[p]] = @ - 1]
    /\ UNCHANGED <<state, pgdir, thread, ofile>>

-----------------------------------------------------------------------------
\* fork() and clone(): a slot of the table, then a loop over the descriptors.
\* Only clone() sets mem_lock_ptr to another process's.
Create(p, isThread) ==
    /\ Begins(p)
    /\ \E q \in Proc : state[q] = "UNUSED"
    /\ LET q == Min({r \in Proc : state[r] = "UNUSED"}) IN
       /\ state' = [state EXCEPT ![q] = "EMBRYO"]
       /\ pgdir' = [pgdir EXCEPT ![q] = IF isThread THEN pgdir[p] ELSE q]
       /\ thread' = [thread EXCEPT ![q] = isThread]
       /\ child' = [child EXCEPT ![p] = q]
    /\ fd' = [fd EXCEPT ![p] = 0]
    /\ Goto(p, "copy")
    /\ UNCHANGED <<ref, ofile, call, file, slot, rc, load, programs>>

\* np->ofile[i] = filedup(proc->ofile[i]) for the ones that are open.
Copy(p) ==
    /\ Runs(p, "copy") /\ fd[p] < NOFILE
    /\ LET f == ofile[p][fd[p]] IN
       /\ ref' = IF f = NoFile THEN ref ELSE [ref EXCEPT ![f] = @ + 1]
       /\ ofile' = IF f = NoFile THEN ofile ELSE [ofile EXCEPT ![child[p]][fd[p]] = f]
    /\ fd' = [fd EXCEPT ![p] = @ + 1]
    /\ UNCHANGED <<state, pgdir, thread, pc, call, file, slot, rc, load, child, programs>>

Created(p) ==
    /\ Runs(p, "copy") /\ fd[p] = NOFILE
    /\ state' = [state EXCEPT ![child[p]] = "RUNNABLE"]
    /\ pc' = [pc EXCEPT ![p] = "user", ![child[p]] = "user"]
    /\ child' = [child EXCEPT ![p] = 0]
    /\ fd' = [fd EXCEPT ![p] = NoFd]
    /\ UNCHANGED <<ref, pgdir, thread, ofile, call, file, slot, rc, load, programs>>

\* exit() closes the descriptors one by one; nobody but process 1 stays.
Exit(p) ==
    /\ p # 1 /\ Begins(p)
    /\ Goto(p, "exit")
    /\ fd' = [fd EXCEPT ![p] = 0]
    /\ UNCHANGED <<ref, state, pgdir, thread, ofile, call, file, slot, rc, load, child, programs>>

ExitClose(p) ==
    /\ Runs(p, "exit") /\ fd[p] < NOFILE
    /\ LET f == ofile[p][fd[p]] IN
       IF f = NoFile THEN UNCHANGED <<ref, ofile, pc>>
       ELSE IF ref[f] < 1 THEN Goto(p, "panic") /\ UNCHANGED <<ref, ofile>>
       ELSE /\ ref' = [ref EXCEPT ![f] = @ - 1]
            /\ ofile' = [ofile EXCEPT ![p][fd[p]] = NoFile]
            /\ UNCHANGED pc
    /\ fd' = [fd EXCEPT ![p] = @ + 1]
    /\ UNCHANGED <<state, pgdir, thread, call, file, slot, rc, load, child, programs>>

Exited(p) ==
    /\ Runs(p, "exit") /\ fd[p] = NOFILE
    /\ state' = [state EXCEPT ![p] = "ZOMBIE"]
    /\ Goto(p, "user")
    /\ fd' = [fd EXCEPT ![p] = NoFd]
    /\ UNCHANGED <<ref, pgdir, thread, ofile, call, file, slot, rc, load, child, programs>>

\* wait() or join() of some parent (module Proc): neither touches ofile or
\* pgdir.
Reap(p) ==
    /\ state[p] = "ZOMBIE"
    /\ state' = [state EXCEPT ![p] = "UNUSED"]
    /\ UNCHANGED <<ref, pgdir, thread, ofile, pc, locals>>

Next == \E p \in Proc :
    \/ Open(p) \/ FdFind(p) \/ FdSkip(p) \/ FdStore(p) \/ RefLoad(p) \/ RefInc(p)
    \/ FdEnd(p) \/ Filedup(p) \/ Ret(p) \/ Fileclose(p)
    \/ \E d \in Fd : Dup(p, d) \/ Close(p, d)
    \/ \E isThread \in BOOLEAN : Create(p, isThread)
    \/ Copy(p) \/ Created(p) \/ Exit(p) \/ ExitClose(p) \/ Exited(p) \/ Reap(p)

Spec == Init /\ [][Next]_vars

-----------------------------------------------------------------------------
\* References a call holds that no descriptor stands for: a file to be closed,
\* an open before fdalloc has reached the caller's own slot ...
Held(p) ==
    \/ pc[p] = "fileclose"
    \/ /\ call[p] = "open" /\ pc[p] \in {"fdalloc", "store", "load", "inc"}
       /\ slot[p] <= p \/ rc[p] = NoFd
\* ... and descriptors it has stored that are not counted yet: another
\* process's before f->ref++, and the one of dup before its filedup.
Early(p) == pc[p] \in {"load", "inc"}
Owed(p) == call[p] = "dup" /\ pc[p] # "ret" /\ slot[p] > p /\ rc[p] # NoFd

InFlight(f) ==
    LET Of(q) == file[q] = f IN
    Cardinality({p \in Proc : Of(p) /\ Held(p)})
    - Cardinality({p \in Proc : Of(p) /\ Early(p)})
    - Cardinality({p \in Proc : Of(p) /\ Owed(p)})

\* "int ref; // reference count" (file.h:5): the count of a file is the number
\* of descriptors, of all processes, that stand for it.
Standing(f) == Cardinality({x \in Proc \X Fd : ofile[x[1]][x[2]] = f}) + InFlight(f)

\* Threads that open files in turn leak references at worst: fdalloc() counts
\* one for the slot of every dead process it fills, and none too few.  Neither
\* panic("filedup") nor panic("fileclose") is reached.
RefsCounted ==
    /\ \A f \in File : IF programs = "turns" THEN ref[f] >= Standing(f)
                                             ELSE ref[f] = Standing(f)
    /\ \A p \in Proc : pc[p] # "panic"

\* "Allocate a file descriptor for the given file" (sysfile.c:31): the number
\* open or dup returns stands for that file in the process that called it.  Of
\* programs whose threads open files this is said of the processes that are no
\* threads: a thread gets the number found in the last slot that fdalloc() filled.
FdNamesFile ==
    \A p \in Proc : pc[p] = "ret" /\ (programs = "turns" => ~thread[p]) =>
        ofile[p][rc[p]] = file[p]

\* A slot without a process, or with one that has exited, holds no file open,
\* unless threads open files: fdalloc() fills the slots of the dead as well.
DeadHoldNothing ==
    programs # "turns" =>
        \A p \in Proc : state[p] \in {"UNUSED", "ZOMBIE"} => Empty(p) = Fd

\* The descriptor a call returned stands for its file, and while threads only
\* inherit their files no dead process holds one open.
DescriptorsRight == TypeOK /\ FdNamesFile /\ DeadHoldNothing
=============================================================================
