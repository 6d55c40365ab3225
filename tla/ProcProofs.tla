----------------------------- MODULE ProcProofs -----------------------------
(***************************************************************************)
(* The family of processes, for a process table of any size.  IInv says    *)
(* who is whose child, where a process may stand in each state of its      *)
(* slot, and what user/init.c knows when it calls orphanage().             *)
(***************************************************************************)
EXTENDS Proc, WellFoundedInduction, TLAPS

Alive   == {"RUNNABLE", "SLEEPING"}
Started == Alive \cup {"ZOMBIE"}

\* A pid names one slot, in use or not; init has pid 1.
PidInv ==
    /\ pid[init] = 1
    /\ \A p \in Proc :
        /\ pid[p] < nextpid
        /\ state[p] # "UNUSED" => pid[p] # 0
        /\ \A q \in Proc : pid[p] = pid[q] /\ pid[p] # 0 => p = q

\* Whoever has started, and only it, has a parent, which is older and has not
\* exited; nobody else ever has the address space of init.
FamilyInv ==
    /\ state[init] \in Alive /\ parent[init] = NoProc /\ ~killed[init]
    /\ pgdir[init] \in live
    /\ \A p \in Proc \ {init} :
        /\ pgdir[p] # pgdir[init]
        /\ parent[p] # NoProc <=> state[p] \in Started
        /\ parent[p] # NoProc =>
            state[parent[p]] \in Alive /\ pid[parent[p]] < pid[p]

\* Where a process stands; one in fork or clone has an EMBRYO to itself.
PlaceInv ==
    /\ pc[init] \in {"user", "fork", "wait", "orphanage", "panic"}
    /\ \A p \in Proc :
        /\ state[p] = "SLEEPING" => pc[p] \in {"wait", "join"}
        /\ child[p] # NoProc <=> pc[p] \in {"fork", "clone"}
        /\ child[p] # NoProc =>
            /\ state[p] = "RUNNABLE" /\ state[child[p]] = "EMBRYO"
            /\ pid[p] < pid[child[p]]
        /\ \A q \in Proc : child[p] # NoProc /\ child[p] = child[q] => p = q

\* The first process init forks is its first shell, pid 2, and init waits for
\* it; the pid init gives to orphanage() is that of a zombie child it left, or,
\* when another program has given that one back, of nobody.
InitInv ==
    /\ nextpid = 2 => \A p \in Proc \ {init} : state[p] = "UNUSED"
    /\ \A p \in Proc : pid[p] = 2 =>
        /\ state[p] = "EMBRYO" => child[init] = p
        /\ state[p] \in Started =>
            parent[p] = init /\ shpid = 2 /\ pc[init] \in {"wait", "orphanage"}
    /\ pc[init] = "orphanage" =>
        /\ wpid > 2 /\ wpid < nextpid
        /\ \A z \in Proc : pid[z] = wpid => state[z] = "ZOMBIE" /\ parent[z] = init

\* The threads of an address space form one family under the one process that
\* has its parent outside.
Eldest(p) == p = init \/ ~Thread(parent[p], p)
TidyInv ==
    programs = "tidy" =>
        /\ \A p \in Proc :
            /\ ~killed[p]
            /\ state[p] = "ZOMBIE" /\ parent[p] = init => pid[p] = 2
            /\ state[p] \in Started => pgdir[p] \in live
            /\ \A q \in Proc :
                /\ state[p] \in Started /\ state[q] \in Started /\ Thread(p, q)
                /\ Eldest(p) /\ Eldest(q)
                => p = q
        /\ \A d \in live : \E p \in Proc : state[p] \in Started /\ pgdir[p] = d

\* Who sleeps has nothing to collect, and a child that will wake it.
MissInv ==
    \A p \in Proc : state[p] = "SLEEPING" =>
        /\ Zombies(p, pc[p]) = {}
        /\ \E q \in Children(p) : state[q] \in {"RUNNABLE", "SLEEPING"}

IInv ==
    /\ TypeOK /\ PidInv /\ FamilyInv /\ PlaceInv /\ InitInv
    /\ MissInv /\ TidyInv

\* orphanage() may stop the kernel wherever init stands, or take the slot of a
\* process that has not exited: then nothing moves any more.
Stopped == pc[init] \in {"panic", "undefined"}
Inv ==
    /\ TypeOK
    /\ ~Stopped => IInv
    /\ programs = "tidy" => Defined
    /\ Defined => FamilyInv /\ MissInv /\ TidyInv

-----------------------------------------------------------------------------
\* The smallest of some natural numbers is one of them.
LEMMA MinIsIn ==
    ASSUME NEW T, T \subseteq Nat, T # {}
    PROVE  Min(T) \in T
<1>1. PICK x \in T : \A y \in T : ~(<<y, x>> \in OpToRel(<, Nat))
  BY WFMin, NatLessThanWellFounded
<1>2. \A y \in T : x <= y
  <2> TAKE y \in T
  <2>1. x \in Nat /\ y \in Nat /\ <<y, x>> \in Nat \X Nat /\ <<y, x>>[1] = y /\ <<y, x>>[2] = x
    OBVIOUS
  <2>2. ~(y < x)
    BY <1>1, <2>1 DEF OpToRel
  <2> QED
    BY <2>1, <2>2
<1> QED
  BY <1>2 DEF Min

\* The slots and page directories that are looked for are there.
LEMMA Found ==
    /\ init \in Proc /\ NoProc \notin Proc /\ NoDir \notin Dir
    /\ \A S \in SUBSET Proc : S # {} => Min(S) \in S
    /\ live \subseteq Dir /\ live # Dir => FreshDir \in Dir \ live
<1>1. Proc \subseteq Nat /\ Dir \subseteq Nat
  BY ProcAssumption DEF Proc, Dir
<1>2. \A S \in SUBSET Proc : S # {} => Min(S) \in S
  BY <1>1, MinIsIn
<1>3. live \subseteq Dir /\ live # Dir => FreshDir \in Dir \ live
  BY <1>1, MinIsIn DEF FreshDir
<1> QED
  BY <1>2, <1>3, ProcAssumption DEF init, NoProc, Proc, NoDir, Dir

LEMMA InitIInv == Init => IInv
<1> SUFFICES ASSUME Init PROVE IInv
  OBVIOUS
<1> USE ProcAssumption, Found
<1>1. TypeOK
  BY DEF Init, TypeOK, State, Pc, Dir
<1>2. PidInv /\ FamilyInv
  BY DEF Init, PidInv, FamilyInv, Alive, Started, Proc, init, NoProc, NoDir
<1>3. PlaceInv /\ InitInv /\ MissInv
  BY DEF Init, PlaceInv, InitInv, MissInv, Started, Alive
<1>4. TidyInv
  BY DEF Init, TidyInv, Started, Alive
<1> QED
  BY <1>1, <1>2, <1>3, <1>4 DEF IInv

\* A process without children whose parent has another address space has no
\* threads: the oldest of them would be eldest too.
LEMMA EldestAlone ==
    ASSUME IInv, programs = "tidy", NEW z \in Proc, state[z] \in Started, Eldest(z),
           \A q \in Proc : parent[q] # z
    PROVE  \A q \in Proc \ {z} : state[q] \in Started => ~Thread(z, q)
<1> USE Found DEF IInv
<1> DEFINE Threads == {q \in Proc \ {z} : state[q] \in Started /\ Thread(z, q)}
           Pids == {pid[q] : q \in Threads}
<1> SUFFICES ASSUME Threads # {} PROVE FALSE
  OBVIOUS
<1>1. Pids \subseteq Nat /\ Pids # {}
  <2>1. \A q \in Proc : pid[q] \in Nat
    BY ProcAssumption DEF TypeOK
  <2>2. \A q \in Threads : q \in Proc
    OBVIOUS
  <2> HIDE DEF Threads
  <2> QED
    BY <2>1, <2>2
<1>2. PICK n \in Pids : \A m \in Pids : n <= m
  <2>1. PICK n \in Pids : \A m \in Pids : ~(<<m, n>> \in OpToRel(<, Nat))
    BY <1>1, WFMin, NatLessThanWellFounded
  <2>2. ASSUME NEW m \in Pids PROVE n <= m
    <3>1. n \in Nat /\ m \in Nat /\ <<m, n>> \in Nat \X Nat /\ <<m, n>>[1] = m /\ <<m, n>>[2] = n
      BY <1>1
    <3> HIDE DEF Pids
    <3>2. ~(m < n)
      BY <2>1, <3>1 DEF OpToRel
    <3> QED
      BY <3>1, <3>2
  <2> QED
    BY <2>2
<1>3. PICK q \in Threads : pid[q] = n
  OBVIOUS
<1>4. ~Eldest(q)
  BY <1>3 DEF TidyInv
<1>5. /\ q # init /\ Thread(parent[q], q) /\ parent[q] \in Proc /\ parent[q] # z
      /\ state[parent[q]] \in Started /\ pid[parent[q]] < pid[q]
  BY <1>3, <1>4 DEF Eldest, FamilyInv, Started, TypeOK
<1>6. parent[q] \in Threads
  BY <1>3, <1>5 DEF Thread
<1>7. pid[parent[q]] \in Nat /\ pid[q] \in Nat
  BY <1>3, <1>5 DEF TypeOK
<1> QED
  BY <1>2, <1>3, <1>5, <1>6, <1>7

\* Every step keeps it, unless another program than init calls orphanage() for
\* a process that is no zombie.
LEMMA NextIInv ==
    ASSUME IInv, [Next]_vars, \A p, q \in Proc : OrphanageOf(p, q) => state[q] = "ZOMBIE"
    PROVE  IInv'
<1> USE ProcAssumption, Found DEF IInv
<1>1. ASSUME NEW p \in Proc, Enter(p) PROVE IInv'
  <2>a. /\ p # init /\ pc[p] = "user" /\ pc' = [pc EXCEPT ![p] = "call"]
        /\ state[p] = "RUNNABLE"
        /\ UNCHANGED <<state, pid, parent, pgdir, killed, child, nextpid, live, shpid, wpid, programs>>
    BY <1>1 DEF Enter, Running, slot
  <2>1. TypeOK'
    BY <2>a DEF TypeOK, State, Pc
  <2>2. PidInv'
    BY <2>a DEF TypeOK, PidInv
  <2>3. FamilyInv'
    BY <2>a DEF TypeOK, PidInv, FamilyInv, PlaceInv, Alive, Started
  <2>4. PlaceInv'
    BY <2>a DEF TypeOK, PidInv, PlaceInv
  <2>5. InitInv'
    BY <2>a DEF TypeOK, PidInv, FamilyInv, PlaceInv, InitInv, Alive, Started
  <2>6. MissInv'
    BY <2>a DEF TypeOK, FamilyInv, PlaceInv, MissInv, Zombies, Kids, Children, Thread
  <2>7. TidyInv'
    BY <2>a DEF TypeOK, FamilyInv, TidyInv, Eldest, Thread, Alive, Started
  <2> QED
    BY <2>1, <2>2, <2>3, <2>4, <2>5, <2>6, <2>7 DEF IInv
<1>2. ASSUME NEW p \in Proc, NEW call \in {"fork", "clone"}, Allocproc(p, call) PROVE IInv'
  <2>a. \E np \in Proc :
        /\ state[np] = "UNUSED" /\ nextpid <= MaxPid
        /\ state[p] = "RUNNABLE" /\ pc[p] \in {"user", "call"}
        /\ p = init => pc[p] = "user" /\ call = "fork"
        /\ state' = [state EXCEPT ![np] = "EMBRYO"]
        /\ pid' = [pid EXCEPT ![np] = nextpid]
        /\ child' = [child EXCEPT ![p] = np]
        /\ nextpid' = nextpid + 1
        /\ pc' = [pc EXCEPT ![p] = call]
        /\ UNCHANGED <<parent, pgdir, killed, live, shpid, wpid, programs>>
    <3>1. Unused # {} /\ Unused \subseteq Proc
      BY <1>2 DEF Allocproc, Unused
    <3>2. Min(Unused) \in Unused
      BY <3>1
    <3> QED
      BY <1>2, <3>2 DEF Allocproc, Calling, Running, Unused
  <2>1. TypeOK'
    BY <2>a DEF TypeOK, State, Pc
  <2>2. PidInv'
    <3>1. PICK np \in Proc :
             /\ state[np] = "UNUSED" /\ state' = [state EXCEPT ![np] = "EMBRYO"]
             /\ pid' = [pid EXCEPT ![np] = nextpid] /\ nextpid' = nextpid + 1
      BY <2>a
    <3>2. pid \in [Proc -> Nat] /\ nextpid \in Nat /\ nextpid >= 2 /\ state \in [Proc -> State]
      BY DEF TypeOK
    <3>3. np # init
      BY <3>1 DEF FamilyInv, Alive
    <3>4. pid'[np] = nextpid /\ \A q \in Proc \ {np} : pid'[q] = pid[q] /\ state'[q] = state[q]
      BY <3>1, <3>2
    <3> QED
      BY <3>1, <3>2, <3>3, <3>4 DEF PidInv
  <2>3. FamilyInv'
    BY <2>a DEF TypeOK, PidInv, FamilyInv, PlaceInv, Alive, Started
  <2>4. PlaceInv'
    BY <2>a DEF TypeOK, PidInv, PlaceInv
  <2>5. InitInv'
    BY <2>a DEF TypeOK, PidInv, FamilyInv, PlaceInv, InitInv, Alive, Started
  <2>6. MissInv'
    BY <2>a DEF TypeOK, FamilyInv, PlaceInv, MissInv, Zombies, Kids, Children, Thread
  <2>7. TidyInv'
    BY <2>a DEF TypeOK, FamilyInv, TidyInv, Eldest, Thread, Alive, Started
  <2> QED
    BY <2>1, <2>2, <2>3, <2>4, <2>5, <2>6, <2>7 DEF IInv
<1>3. ASSUME NEW p \in Proc, NEW call \in {"fork", "clone"}, TableFull(p, call) PROVE IInv'
  <2>a. /\ state[p] = "RUNNABLE" /\ pc[p] \in {"user", "call"}
        /\ p = init => nextpid # 2 /\ pc[init] = "user"
        /\ pc' = [pc EXCEPT ![p] = IF p = init THEN "panic" ELSE "user"]
        /\ UNCHANGED <<state, pid, parent, pgdir, killed, child, nextpid, live, shpid, wpid, programs>>
    <3>1. 2 \in Proc /\ 2 # init /\ state[2] # "UNUSED"
      BY <1>3 DEF TableFull, Unused, Proc, init
    <3> QED
      BY <1>3, <3>1 DEF TableFull, Calling, Running, Failed, slot, InitInv
  <2>1. TypeOK'
    BY <2>a DEF TypeOK, State, Pc
  <2>2. PidInv'
    BY <2>a DEF TypeOK, PidInv
  <2>3. FamilyInv'
    BY <2>a DEF TypeOK, PidInv, FamilyInv, PlaceInv, Alive, Started
  <2>4. PlaceInv'
    BY <2>a DEF TypeOK, PidInv, PlaceInv
  <2>5. InitInv'
    BY <2>a DEF TypeOK, PidInv, FamilyInv, PlaceInv, InitInv, Alive, Started
  <2>6. MissInv'
    BY <2>a DEF TypeOK, FamilyInv, PlaceInv, MissInv, Zombies, Kids, Children, Thread
  <2>7. TidyInv'
    BY <2>a DEF TypeOK, FamilyInv, TidyInv, Eldest, Thread, Alive, Started
  <2> QED
    BY <2>1, <2>2, <2>3, <2>4, <2>5, <2>6, <2>7 DEF IInv
<1>4. ASSUME NEW p \in Proc, AllocFails(p) PROVE IInv'
  <2>a. /\ child[p] \in Proc \ {init} /\ pc[p] \in {"fork", "clone"} /\ state[p] = "RUNNABLE"
        /\ state[child[p]] = "EMBRYO"
        /\ state' = [state EXCEPT ![child[p]] = "UNUSED"]
        /\ child' = [child EXCEPT ![p] = NoProc]
        /\ pc' = [pc EXCEPT ![p] = IF p = init THEN "panic" ELSE "user"]
        /\ UNCHANGED <<pid, parent, pgdir, killed, nextpid, live, shpid, wpid, programs>>
    BY <1>4 DEF AllocFails, Running, Failed, TypeOK, PlaceInv, FamilyInv, Alive
  <2>1. TypeOK'
    BY <2>a DEF TypeOK, State, Pc
  <2>2. PidInv'
    BY <2>a DEF TypeOK, PidInv
  <2>3. FamilyInv'
    BY <2>a DEF TypeOK, PidInv, FamilyInv, PlaceInv, Alive, Started
  <2>4. PlaceInv'
    BY <2>a DEF TypeOK, PidInv, PlaceInv
  <2>5. InitInv'
    BY <2>a DEF TypeOK, PidInv, FamilyInv, PlaceInv, InitInv, Alive, Started
  <2>6. MissInv'
    BY <2>a DEF TypeOK, FamilyInv, PlaceInv, MissInv, Zombies, Kids, Children, Thread
  <2>7. TidyInv'
    BY <2>a DEF TypeOK, FamilyInv, TidyInv, Eldest, Thread, Alive, Started
  <2> QED
    BY <2>1, <2>2, <2>3, <2>4, <2>5, <2>6, <2>7 DEF IInv
<1>5. ASSUME NEW p \in Proc, Fork(p) PROVE IInv'
  <2> DEFINE np == child[p]
             d == FreshDir
  <2>a. /\ np = child[p] /\ np \in Proc \ {init} /\ pc[p] = "fork" /\ state[p] = "RUNNABLE" /\ np # p
        /\ state[np] = "EMBRYO" /\ d \in Dir \ live
        /\ pgdir' = [pgdir EXCEPT ![np] = d] /\ live' = live \cup {d}
        /\ parent' = [parent EXCEPT ![np] = p]
        /\ state' = [state EXCEPT ![np] = "RUNNABLE"]
        /\ pc' = [pc EXCEPT ![np] = "user", ![p] = IF p = init THEN "wait" ELSE "user"]
        /\ shpid' = IF p = init THEN pid[np] ELSE shpid
        /\ child' = [child EXCEPT ![p] = NoProc]
        /\ UNCHANGED <<pid, killed, nextpid, wpid, programs>>
    BY <1>5 DEF Fork, Running, TypeOK, PlaceInv, FamilyInv, Alive
  <2> HIDE DEF np, d
  <2>1. TypeOK'
    BY <2>a DEF TypeOK, State, Pc
  <2>2. PidInv'
    BY <2>a DEF TypeOK, PidInv
  <2>3. FamilyInv'
    BY <2>a DEF TypeOK, PidInv, FamilyInv, PlaceInv, Alive, Started
  <2>4. PlaceInv'
    BY <2>a DEF TypeOK, PidInv, PlaceInv
  <2>5. InitInv'
    BY <2>a DEF TypeOK, PidInv, FamilyInv, PlaceInv, InitInv, Alive, Started
  <2>6. MissInv'
    BY <2>a DEF TypeOK, FamilyInv, PlaceInv, MissInv, Zombies, Kids, Children, Thread
  <2>7. TidyInv'
    BY <2>a DEF TypeOK, FamilyInv, TidyInv, Eldest, Thread, Alive, Started
  <2> QED
    BY <2>1, <2>2, <2>3, <2>4, <2>5, <2>6, <2>7 DEF IInv
<1>6. ASSUME NEW p \in Proc, Clone(p) PROVE IInv'
  <2> DEFINE np == child[p]
  <2>a. /\ p # init /\ np = child[p] /\ np \in Proc \ {init} /\ pc[p] = "clone" /\ state[p] = "RUNNABLE" /\ np # p
        /\ state[np] = "EMBRYO"
        /\ pgdir' = [pgdir EXCEPT ![np] = pgdir[p]]
        /\ parent' = [parent EXCEPT ![np] = p]
        /\ state' = [state EXCEPT ![np] = "RUNNABLE"]
        /\ pc' = [pc EXCEPT ![np] = "user", ![p] = "user"]
        /\ child' = [child EXCEPT ![p] = NoProc]
        /\ UNCHANGED <<pid, killed, nextpid, live, shpid, wpid, programs>>
    BY <1>6 DEF Clone, Running, TypeOK, PlaceInv, FamilyInv, Alive
  <2> HIDE DEF np
  <2>1. TypeOK'
    BY <2>a DEF TypeOK, State, Pc
  <2>2. PidInv'
    BY <2>a DEF TypeOK, PidInv
  <2>3. FamilyInv'
    BY <2>a DEF TypeOK, PidInv, FamilyInv, PlaceInv, Alive, Started
  <2>4. PlaceInv'
    BY <2>a DEF TypeOK, PidInv, PlaceInv
  <2>5. InitInv'
    BY <2>a DEF TypeOK, PidInv, FamilyInv, PlaceInv, InitInv, Alive, Started
  <2>6. MissInv'
    BY <2>a DEF TypeOK, FamilyInv, PlaceInv, MissInv, Zombies, Kids, Children, Thread
  <2>7. TidyInv'
    BY <2>a DEF TypeOK, FamilyInv, TidyInv, Eldest, Thread, Alive, Started
  <2> QED
    BY <2>1, <2>2, <2>3, <2>4, <2>5, <2>6, <2>7 DEF IInv
<1>7. ASSUME NEW p \in Proc, Exec(p) PROVE IInv'
  <2> DEFINE d == FreshDir
  <2>a. /\ p # init /\ pc[p] = "call" /\ state[p] = "RUNNABLE" /\ d \in Dir \ live
        /\ programs = "tidy" =>
             /\ \A q \in Proc : parent[q] # p
             /\ \A q \in Proc \ {p} : state[q] \in Started => pgdir[q] # pgdir[p]
        /\ pgdir' = [pgdir EXCEPT ![p] = d]
        /\ live' = (live \cup {d}) \ {pgdir[p]}
        /\ pc' = [pc EXCEPT ![p] = "user"]
        /\ UNCHANGED <<state, pid, parent, killed, child, nextpid, shpid, wpid, programs>>
    BY <1>7 DEF Exec, Calling, Running, Return, Children, Unused, Thread, TypeOK, Started, Alive
  <2> HIDE DEF d
  <2>1. TypeOK'
    BY <2>a DEF TypeOK, State, Pc
  <2>2. PidInv'
    BY <2>a DEF TypeOK, PidInv
  <2>3. FamilyInv'
    BY <2>a DEF TypeOK, PidInv, FamilyInv, PlaceInv, Alive, Started
  <2>4. PlaceInv'
    BY <2>a DEF TypeOK, PidInv, PlaceInv
  <2>5. InitInv'
    BY <2>a DEF TypeOK, PidInv, FamilyInv, PlaceInv, InitInv, Alive, Started
  <2>6. MissInv'
    BY <2>a DEF TypeOK, FamilyInv, PlaceInv, MissInv, Zombies, Kids, Children, Thread
  <2>7. TidyInv'
    BY <2>a DEF TypeOK, FamilyInv, TidyInv, Eldest, Thread, Alive, Started
  <2> QED
    BY <2>1, <2>2, <2>3, <2>4, <2>5, <2>6, <2>7 DEF IInv
<1>8. ASSUME NEW p \in Proc, Exit(p) PROVE IInv'
  <2>a. /\ p # init /\ pc[p] \in {"user", "call"} /\ state[p] = "RUNNABLE"
        /\ programs = "tidy" =>
             /\ \A q \in Proc : parent[q] # p
             /\ parent[p] = init => pid[p] = 2
        /\ \A q \in Proc : state'[q] =
              IF q = p THEN "ZOMBIE"
              ELSE IF /\ state[q] = "SLEEPING"
                      /\ \/ q = parent[p]
                         \/ q = init /\ \E r \in Proc : parent[r] = p /\ state[r] = "ZOMBIE"
                THEN "RUNNABLE" ELSE state[q]
        /\ state' \in [Proc -> State]
        /\ parent' = [q \in Proc |-> IF parent[q] = p THEN init ELSE parent[q]]
        /\ UNCHANGED <<pid, pgdir, killed, pc, child, nextpid, live, shpid, wpid, programs>>
    <3>1. programs = "tidy" => ~killed[p]
      BY DEF TidyInv
    <3> QED
      BY <1>8, <3>1 DEF Exit, ExitWakes, Reparent, Running, Collected, Children, TypeOK, State
  <2>1. TypeOK'
    BY <2>a DEF TypeOK, State, Pc
  <2>2. PidInv'
    BY <2>a DEF TypeOK, PidInv
  <2>3. FamilyInv'
    BY <2>a DEF TypeOK, PidInv, FamilyInv, PlaceInv, Alive, Started
  <2>4. PlaceInv'
    BY <2>a DEF TypeOK, PidInv, PlaceInv
  <2>5. InitInv'
    BY <2>a DEF TypeOK, PidInv, FamilyInv, PlaceInv, InitInv, Alive, Started
  <2>6. MissInv'
    BY <2>a DEF TypeOK, FamilyInv, PlaceInv, MissInv, Zombies, Kids, Children, Thread
  <2>7. TidyInv'
    BY <2>a DEF TypeOK, FamilyInv, TidyInv, Eldest, Thread, Alive, Started
  <2> QED
    BY <2>1, <2>2, <2>3, <2>4, <2>5, <2>6, <2>7 DEF IInv
<1>9. ASSUME NEW p \in Proc, Wait(p) PROVE IInv'
  <2>z. PICK z \in Proc :
        /\ z # init /\ z # p /\ parent[z] = p /\ pgdir[z] # pgdir[p] /\ state[z] = "ZOMBIE"
        /\ state[p] = "RUNNABLE" /\ pc[p] \in {"call", "wait"} /\ (p = init => pc[p] = "wait")
        /\ wpid' = IF p = init THEN pid[z] ELSE wpid
        /\ pc' = [pc EXCEPT ![p] = IF p = init /\ pid[z] # shpid THEN "orphanage" ELSE "user"]
        /\ UNCHANGED <<pgdir, child, nextpid, shpid, programs>>
        /\ \/ p = init /\ pid[z] > 2 /\ UNCHANGED <<state, pid, parent, killed, live>>
           \/ /\ p = init => pid[z] = 2
              /\ state' = [state EXCEPT ![z] = "UNUSED"] /\ pid' = [pid EXCEPT ![z] = 0]
              /\ parent' = [parent EXCEPT ![z] = NoProc]
              /\ killed' = [killed EXCEPT ![z] = FALSE]
              /\ live' = live \ {pgdir[z]}
    <3>1. PICK z \in Zombies(p, "wait") : z = Min(Zombies(p, "wait"))
      <4>1. Zombies(p, "wait") # {} /\ Zombies(p, "wait") \subseteq Proc
        BY <1>9 DEF Wait, Zombies, Kids, Children
      <4> QED
        BY <4>1
    <3>3. z \in Proc /\ parent[z] = p /\ pgdir[z] # pgdir[p] /\ state[z] = "ZOMBIE"
      BY <3>1 DEF Zombies, Kids, Children, Thread
    <3>4. /\ IF p = init /\ pid[z] > 2
               THEN UNCHANGED <<slot, live>>
               ELSE ReleaseSlot(z) /\ live' = live \ {pgdir[z]}
          /\ wpid' = IF p = init THEN pid[z] ELSE wpid
          /\ pc' = [pc EXCEPT ![p] = IF p = init /\ pid[z] # shpid THEN "orphanage" ELSE "user"]
          /\ UNCHANGED <<child, nextpid, shpid, programs>>
          /\ state[p] = "RUNNABLE" /\ pc[p] \in {"call", "wait"} /\ (p = init => pc[p] = "wait")
      BY <1>9, <3>1 DEF Wait, Scans, Running
    <3>5. z # init /\ z # p
      BY <3>3, <3>4 DEF FamilyInv, Alive
    \* No other slot has pid 0 or 1: the zombie has pid 2 or more.
    <3>6. pid[z] \in Nat /\ pid[z] # 0 /\ pid[z] # 1
      BY <3>3, <3>5 DEF PidInv, TypeOK
    <3>7. pid[z] > 2 \/ pid[z] = 2
      BY <3>6
    <3> QED
      BY <3>3, <3>4, <3>5, <3>7 DEF ReleaseSlot, slot
  <2>y. wpid' \in 0..MaxPid /\ pc' \in [Proc -> Pc]
    BY <2>z DEF TypeOK, Pc
  \* init leaves a zombie to orphanage().
  <2>c. CASE p = init /\ pid[z] > 2 /\ UNCHANGED <<state, pid, parent, killed, live>>
    <3>1. TypeOK'
      BY <2>z, <2>c, <2>y DEF TypeOK
    <3>2. PidInv' /\ FamilyInv' /\ PlaceInv'
      BY <2>z, <2>c DEF TypeOK, PidInv, FamilyInv, PlaceInv
    <3>3. InitInv'
      <4>1. pc'[init] \in {"user", "orphanage"} /\ wpid' = pid[z]
        BY <2>z, <2>c DEF TypeOK
      <4>2. (\E x \in Proc : pid[x] = 2 /\ state[x] \in Started) => pc'[init] = "orphanage"
        BY <2>z, <2>c DEF TypeOK, InitInv
      <4>3. pid[z] < nextpid /\ pid[z] > 2 /\ \A x \in Proc : pid[x] = pid[z] => x = z
        BY <2>z, <2>c DEF PidInv, TypeOK
      <4> QED
        BY <2>z, <2>c, <4>1, <4>2, <4>3 DEF InitInv
    <3>4. MissInv'
      BY <2>z, <2>c DEF TypeOK, MissInv, Zombies, Kids, Children, Thread
    <3>5. TidyInv'
      BY <2>z, <2>c DEF TidyInv, Eldest, Thread
    <3> QED
      BY <3>1, <3>2, <3>3, <3>4, <3>5
  \* The slot is released and the address space freed.
  <2>d. CASE /\ p = init => pid[z] = 2
             /\ state' = [state EXCEPT ![z] = "UNUSED"] /\ pid' = [pid EXCEPT ![z] = 0]
             /\ parent' = [parent EXCEPT ![z] = NoProc]
             /\ killed' = [killed EXCEPT ![z] = FALSE]
             /\ live' = live \ {pgdir[z]}
    <3>0. /\ state'[z] = "UNUSED" /\ pid'[z] = 0 /\ parent'[z] = NoProc /\ killed'[z] = FALSE
          /\ \A q \in Proc \ {z} : /\ state'[q] = state[q] /\ pid'[q] = pid[q]
                                   /\ parent'[q] = parent[q] /\ killed'[q] = killed[q]
          \* It has no children: a zombie is nobody's parent.
          /\ \A q \in Proc : parent[q] # z
      BY <2>z, <2>d DEF TypeOK, FamilyInv, Alive
    <3>1. TypeOK'
      <4>1. state' \in [Proc -> State] /\ pid' \in [Proc -> 0..MaxPid]
        BY <2>d, ProcAssumption DEF TypeOK, State
      <4>2. parent' \in [Proc -> Proc \cup {NoProc}] /\ killed' \in [Proc -> BOOLEAN]
        BY <2>d DEF TypeOK
      <4>3. live' \subseteq Dir
        BY <2>d DEF TypeOK
      <4> QED
        BY <2>z, <2>y, <4>1, <4>2, <4>3 DEF TypeOK
    <3>2. PidInv'
      BY <2>z, <3>0 DEF TypeOK, PidInv
    <3>3. FamilyInv'
      BY <2>z, <2>d, <3>0 DEF TypeOK, FamilyInv, Alive, Started
    <3>4. PlaceInv'
      <4>1. /\ pc'[p] \in {"user", "orphanage"} /\ (pc'[p] = "orphanage" => p = init)
            /\ \A q \in Proc \ {p} : pc'[q] = pc[q]
        BY <2>z DEF TypeOK
      <4>2. child[p] = NoProc
        BY <2>z DEF PlaceInv
      <4>3. \A q \in Proc : child[q] # NoProc => child[q] \in Proc /\ child[q] # z /\ q # z
        BY <2>z DEF TypeOK, PlaceInv
      <4> QED
        BY <2>z, <3>0, <4>1, <4>2, <4>3 DEF PlaceInv
    <3>5. InitInv'
      <4>1. p = init => shpid = 2 /\ pc'[init] = "user"
        BY <2>z, <2>d DEF TypeOK, InitInv, Started
      <4>2. p # init => pc'[init] = pc[init] /\ wpid' = wpid
        BY <2>z DEF TypeOK
      <4>3. p = init => \A q \in Proc : pid[q] = 2 => q = z
        BY <2>d DEF PidInv
      <4> QED
        BY <2>z, <3>0, <4>1, <4>2, <4>3 DEF InitInv, Started
    <3>6. MissInv'
      <4> SUFFICES ASSUME NEW q \in Proc, state'[q] = "SLEEPING"
                   PROVE  /\ Zombies(q, pc[q])' = {}
                          /\ \E r \in Children(q)' : state'[r] \in {"RUNNABLE", "SLEEPING"}
        BY DEF MissInv
      <4>1. q # z /\ q # p /\ state[q] = "SLEEPING" /\ pc'[q] = pc[q]
        BY <2>z, <3>0 DEF TypeOK
      <4>2. \A r \in Proc : parent'[r] = q <=> parent[r] = q
        BY <2>z, <3>0, <4>1
      <4>3. Zombies(q, pc[q]) = {} /\ \E r \in Children(q) : state[r] \in {"RUNNABLE", "SLEEPING"}
        BY <4>1 DEF MissInv
      <4> QED
        BY <2>z, <3>0, <4>1, <4>2, <4>3 DEF Zombies, Kids, Children, Thread
    <3>7. TidyInv'
      <4> SUFFICES ASSUME programs = "tidy" PROVE TidyInv'
        BY <2>z DEF TidyInv
      <4>1. \A q \in Proc \ {z} : state[q] \in Started => pgdir[q] # pgdir[z]
        <5>1. state[z] \in Started /\ Eldest(z) /\ \A q \in Proc : parent[q] # z
          BY <2>z, <3>0 DEF Eldest, Thread, Started
        <5>2. \A q \in Proc \ {z} : state[q] \in Started => ~Thread(z, q)
          BY <5>1, EldestAlone
        <5> QED
          BY <5>2 DEF Thread
      <4>2. \A q \in Proc \ {z} : Eldest(q)' <=> Eldest(q)
        BY <2>z, <3>0 DEF Eldest, Thread
      <4>3. \A q \in Proc : state'[q] \in Started <=> q # z /\ state[q] \in Started
        BY <3>0 DEF Started, Alive
      <4>4. \A q \in Proc : ~killed'[q] /\
               (state'[q] = "ZOMBIE" /\ parent'[q] = init => pid'[q] = 2)
        BY <3>0 DEF TidyInv
      <4>5. \A q \in Proc : state'[q] \in Started => pgdir'[q] \in live'
        BY <2>z, <2>d, <4>1, <4>3 DEF TidyInv
      <4>6. \A q, r \in Proc :
               /\ state'[q] \in Started /\ state'[r] \in Started /\ Thread(q, r)'
               /\ Eldest(q)' /\ Eldest(r)'
               => q = r
        BY <2>z, <4>2, <4>3 DEF TidyInv, Thread
      <4>7. \A d \in live' : \E q \in Proc : state'[q] \in Started /\ pgdir'[q] = d
        BY <2>z, <2>d, <4>3 DEF TidyInv
      <4> QED
        BY <4>4, <4>5, <4>6, <4>7 DEF TidyInv
    <3> QED
      BY <3>1, <3>2, <3>3, <3>4, <3>5, <3>6, <3>7
  <2> QED
    BY <2>z, <2>c, <2>d
<1>10. ASSUME NEW p \in Proc, Join(p) PROVE IInv'
  <2>a. \E z \in Proc :
        /\ z # init /\ z # p /\ parent[z] = p /\ p # init /\ state[z] = "ZOMBIE"
        /\ pgdir[z] = pgdir[p]
        /\ state[p] = "RUNNABLE" /\ pc[p] \in {"call", "join"}
        /\ state' = [state EXCEPT ![z] = "UNUSED"] /\ pid' = [pid EXCEPT ![z] = 0]
        /\ parent' = [parent EXCEPT ![z] = NoProc]
        /\ killed' = [killed EXCEPT ![z] = FALSE]
        /\ pc' = [pc EXCEPT ![p] = "user"]
        /\ UNCHANGED <<pgdir, live, child, nextpid, shpid, wpid, programs>>
    <3> DEFINE z == Min(Zombies(p, "join"))
    <3>1. Zombies(p, "join") # {} /\ Zombies(p, "join") \subseteq Proc
      BY <1>10 DEF Join, Zombies, Kids, Children
    <3>2. z \in Zombies(p, "join")
      BY <3>1
    <3>3. z \in Proc /\ parent[z] = p /\ pgdir[z] = pgdir[p] /\ state[z] = "ZOMBIE"
      BY <3>2 DEF Zombies, Kids, Children, Thread
    <3>4. /\ ReleaseSlot(z) /\ p # init /\ pc' = [pc EXCEPT ![p] = "user"]
          /\ UNCHANGED <<live, child, nextpid, shpid, wpid, programs>>
          /\ state[p] = "RUNNABLE" /\ pc[p] \in {"call", "join"}
      BY <1>10 DEF Join, Scans, Running, Return
    <3> HIDE DEF z
    <3>5. z # init /\ z # p
      BY <3>3, <3>4 DEF FamilyInv, Alive
    <3> QED
      BY <3>3, <3>4, <3>5 DEF ReleaseSlot
  <2>1. TypeOK'
    BY <2>a DEF TypeOK, State, Pc
  <2>2. PidInv'
    BY <2>a DEF TypeOK, PidInv
  <2>3. FamilyInv'
    BY <2>a DEF TypeOK, PidInv, FamilyInv, PlaceInv, Alive, Started
  <2>4. PlaceInv'
    BY <2>a DEF TypeOK, PidInv, PlaceInv
  <2>5. InitInv'
    BY <2>a DEF TypeOK, PidInv, FamilyInv, PlaceInv, InitInv, Alive, Started
  <2>6. MissInv'
    BY <2>a DEF TypeOK, FamilyInv, PlaceInv, MissInv, Zombies, Kids, Children, Thread
  <2>7. TidyInv'
    BY <2>a DEF TypeOK, FamilyInv, TidyInv, Eldest, Thread, Alive, Started
  <2> QED
    BY <2>1, <2>2, <2>3, <2>4, <2>5, <2>6, <2>7 DEF IInv
<1>11. ASSUME NEW p \in Proc, NEW call \in {"wait", "join"}, NoKids(p, call) PROVE IInv'
  <2>a. /\ state[p] = "RUNNABLE" /\ pc[p] \in {"call", "wait", "join"}
        /\ p = init => \A q \in Proc : parent[q] = init => pgdir[q] = pgdir[init]
        /\ pc' = [pc EXCEPT ![p] = "user"]
        /\ UNCHANGED <<state, pid, parent, pgdir, killed, child, nextpid, live, shpid, wpid, programs>>
    <3>1. p = init => call = "wait"
      BY <1>11 DEF NoKids, Scans, PlaceInv
    <3>2. p = init => Kids(p, "wait") = {}
      BY <1>11, <3>1 DEF NoKids, FamilyInv
    <3> QED
      BY <1>11, <3>2 DEF NoKids, Scans, Running, Return, slot, Kids, Children, Thread
  <2>1. TypeOK'
    BY <2>a DEF TypeOK, State, Pc
  <2>2. PidInv'
    BY <2>a DEF TypeOK, PidInv
  <2>3. FamilyInv'
    BY <2>a DEF TypeOK, PidInv, FamilyInv, PlaceInv, Alive, Started
  <2>4. PlaceInv'
    BY <2>a DEF TypeOK, PidInv, PlaceInv
  <2>5. InitInv'
    BY <2>a DEF TypeOK, PidInv, FamilyInv, PlaceInv, InitInv, Alive, Started
  <2>6. MissInv'
    BY <2>a DEF TypeOK, FamilyInv, PlaceInv, MissInv, Zombies, Kids, Children, Thread
  <2>7. TidyInv'
    BY <2>a DEF TypeOK, FamilyInv, TidyInv, Eldest, Thread, Alive, Started
  <2> QED
    BY <2>1, <2>2, <2>3, <2>4, <2>5, <2>6, <2>7 DEF IInv
<1>12. ASSUME NEW p \in Proc, NEW call \in {"wait", "join"}, Sleep(p, call) PROVE IInv'
  <2>a. /\ state[p] = "RUNNABLE" /\ pc[p] \in {"call", "wait", "join"}
        /\ p = init => call = "wait" /\ pc[p] = "wait"
        /\ \A q \in Proc : parent[q] = p /\ (pgdir[p] = pgdir[q] <=> call = "join") => state[q] # "ZOMBIE"
        /\ \E q \in Proc : parent[q] = p /\ state[q] # "ZOMBIE"
        /\ state' = [state EXCEPT ![p] = "SLEEPING"]
        /\ pc' = [pc EXCEPT ![p] = call]
        /\ UNCHANGED <<pid, parent, pgdir, killed, child, nextpid, live, shpid, wpid, programs>>
    BY <1>12 DEF Sleep, Scans, Running, Zombies, Kids, Children, Thread, PlaceInv
  <2>1. TypeOK'
    BY <2>a DEF TypeOK, State, Pc
  <2>2. PidInv'
    BY <2>a DEF TypeOK, PidInv
  <2>3. FamilyInv'
    BY <2>a DEF TypeOK, PidInv, FamilyInv, PlaceInv, Alive, Started
  <2>4. PlaceInv'
    BY <2>a DEF TypeOK, PidInv, PlaceInv
  <2>5. InitInv'
    BY <2>a DEF TypeOK, PidInv, FamilyInv, PlaceInv, InitInv, Alive, Started
  <2>6. MissInv'
    <3> SUFFICES ASSUME NEW q \in Proc, state'[q] = "SLEEPING"
                 PROVE  /\ Zombies(q, pc[q])' = {}
                        /\ \E r \in Children(q)' : state'[r] \in {"RUNNABLE", "SLEEPING"}
      BY DEF MissInv
    <3>1. /\ \A r \in Proc : state'[r] = IF r = p THEN "SLEEPING" ELSE state[r]
          /\ \A r \in Proc : pc'[r] = IF r = p THEN call ELSE pc[r]
          /\ UNCHANGED <<parent, pgdir>>
      BY <2>a DEF TypeOK
    <3>2. CASE q = p
      <4>1. PICK r \in Proc : parent[r] = p /\ state[r] # "ZOMBIE"
        BY <2>a
      <4>2. state[r] \in Alive
        BY <4>1 DEF FamilyInv, Started
      <4> QED
        BY <2>a, <3>1, <3>2, <4>1, <4>2 DEF Zombies, Kids, Children, Thread, Alive
    <3>3. CASE q # p
      <4>1. Zombies(q, pc[q]) = {} /\ \E r \in Children(q) : state[r] \in {"RUNNABLE", "SLEEPING"}
        BY <3>1, <3>3 DEF MissInv
      <4> QED
        BY <3>1, <3>3, <4>1 DEF Zombies, Kids, Children, Thread
    <3> QED
      BY <3>2, <3>3
  <2>7. TidyInv'
    BY <2>a DEF TypeOK, FamilyInv, TidyInv, Eldest, Thread, Alive, Started
  <2> QED
    BY <2>1, <2>2, <2>3, <2>4, <2>5, <2>6, <2>7 DEF IInv
<1>13. ASSUME Orphanage PROVE IInv'
  <2>0. /\ state[init] = "RUNNABLE" /\ pc[init] = "orphanage"
        /\ pc' = [pc EXCEPT ![init] = "wait"]
        /\ UNCHANGED <<live, child, nextpid, shpid, wpid, programs>>
    BY <1>13 DEF Orphanage, Running
  <2>g. CASE {r \in Proc : pid[r] = wpid} = {}
    <3>a. UNCHANGED <<state, pid, parent, pgdir, killed>>
      BY <1>13, <2>g DEF Orphanage, slot
    <3>1. TypeOK' /\ PidInv'
      BY <2>0, <3>a DEF TypeOK, State, Pc, PidInv
    <3>2. FamilyInv' /\ PlaceInv'
      BY <2>0, <3>a DEF TypeOK, FamilyInv, PlaceInv, Alive, Started
    <3>3. InitInv'
      BY <2>0, <3>a DEF TypeOK, InitInv, Started, Alive
    <3>4. MissInv'
      BY <2>0, <3>a DEF TypeOK, MissInv, Zombies, Kids, Children, Thread
    <3>5. TidyInv'
      BY <2>0, <3>a DEF TypeOK, TidyInv, Eldest, Thread
    <3> QED
      BY <3>1, <3>2, <3>3, <3>4, <3>5
  <2>h. CASE {r \in Proc : pid[r] = wpid} # {}
   <3>a. /\ programs # "tidy"
        /\ \E z \in Proc :
             /\ z # init /\ state[z] = "ZOMBIE" /\ parent[z] = init /\ pid[z] > 2
             /\ state' = [state EXCEPT ![z] = "UNUSED"] /\ pid' = [pid EXCEPT ![z] = 0]
             /\ parent' = [parent EXCEPT ![z] = NoProc]
             /\ killed' = [killed EXCEPT ![z] = FALSE]
        /\ UNCHANGED pgdir
    <4> DEFINE z == Min({r \in Proc : pid[r] = wpid})
    <4>1. z \in {r \in Proc : pid[r] = wpid}
      BY <2>h
    <4>2. ReleaseSlot(z)
      BY <1>13, <2>h DEF Orphanage
    <4> HIDE DEF z
    <4>3. z \in Proc /\ pid[z] = wpid /\ state[z] = "ZOMBIE" /\ parent[z] = init /\ wpid > 2
      BY <2>0, <4>1 DEF InitInv
    <4>4. z # init
      BY <4>3 DEF FamilyInv, Alive
    <4>5. wpid \in Nat /\ wpid # 2
      BY <4>3 DEF TypeOK
    <4>6. programs # "tidy"
      BY <4>3, <4>5 DEF TidyInv
    <4> QED
      BY <4>2, <4>3, <4>4, <4>6 DEF ReleaseSlot
   <3>1. TypeOK'
    BY <2>0, <3>a DEF TypeOK, State, Pc
   <3>2. PidInv'
    BY <2>0, <3>a DEF TypeOK, PidInv
   <3>3. FamilyInv'
    BY <2>0, <3>a DEF TypeOK, PidInv, FamilyInv, PlaceInv, Alive, Started
   <3>4. PlaceInv'
    BY <2>0, <3>a DEF TypeOK, PidInv, PlaceInv
   <3>5. InitInv'
    BY <2>0, <3>a DEF TypeOK, PidInv, FamilyInv, PlaceInv, InitInv, Alive, Started
   <3>6. MissInv'
    BY <2>0, <3>a DEF TypeOK, FamilyInv, PlaceInv, MissInv, Zombies, Kids, Children, Thread
   <3>7. TidyInv'
    BY <2>0, <3>a DEF TypeOK, FamilyInv, TidyInv, Eldest, Thread, Alive, Started
   <3> QED
    BY <3>1, <3>2, <3>3, <3>4, <3>5, <3>6, <3>7 DEF IInv
  <2> QED
    BY <2>g, <2>h
<1>14. ASSUME NEW p \in Proc, NEW q \in Proc, Kill(p, q) PROVE IInv'
  <2>a. /\ p # init /\ q # init /\ programs # "tidy"
        /\ pc[p] = "call" /\ state[p] = "RUNNABLE"
        /\ killed' = [killed EXCEPT ![q] = TRUE]
        /\ state' = [state EXCEPT ![q] = IF state[q] = "SLEEPING" THEN "RUNNABLE" ELSE state[q]]
        /\ pc' = [pc EXCEPT ![p] = "user"]
        /\ UNCHANGED <<pid, parent, pgdir, child, nextpid, live, shpid, wpid, programs>>
    BY <1>14, Zenon DEF Kill, Calling, Running, Return
  <2>1. TypeOK'
    BY <2>a DEF TypeOK, State, Pc
  <2>2. PidInv'
    BY <2>a DEF TypeOK, PidInv
  <2>3. FamilyInv'
    BY <2>a DEF TypeOK, PidInv, FamilyInv, PlaceInv, Alive, Started
  <2>4. PlaceInv'
    BY <2>a DEF TypeOK, PidInv, PlaceInv
  <2>5. InitInv'
    BY <2>a DEF TypeOK, PidInv, FamilyInv, PlaceInv, InitInv, Alive, Started
  <2>6. MissInv'
    BY <2>a DEF TypeOK, FamilyInv, PlaceInv, MissInv, Zombies, Kids, Children, Thread
  <2>7. TidyInv'
    BY <2>a DEF TypeOK, FamilyInv, TidyInv, Eldest, Thread, Alive, Started
  <2> QED
    BY <2>1, <2>2, <2>3, <2>4, <2>5, <2>6, <2>7 DEF IInv
<1>15. CASE UNCHANGED vars
  <2>1. TypeOK' /\ PidInv' /\ FamilyInv' /\ PlaceInv' /\ InitInv'
    BY <1>15 DEF vars, TypeOK, PidInv, FamilyInv, PlaceInv, InitInv
  <2>2. MissInv' /\ TidyInv'
    BY <1>15 DEF vars, MissInv, Zombies, Kids, Children, Thread, TidyInv, Eldest
  <2> QED
    BY <2>1, <2>2
<1>17. ASSUME NEW p \in Proc, NEW q \in Proc, OrphanageOf(p, q) PROVE IInv'
  <2>a. /\ p # init /\ q # init /\ programs # "tidy"
        /\ pc[p] = "call" /\ state[p] = "RUNNABLE" /\ state[q] = "ZOMBIE"
        /\ state' = [state EXCEPT ![q] = "UNUSED"] /\ pid' = [pid EXCEPT ![q] = 0]
        /\ parent' = [parent EXCEPT ![q] = NoProc]
        /\ killed' = [killed EXCEPT ![q] = FALSE]
        /\ pc' = [pc EXCEPT ![p] = "user"]
        /\ UNCHANGED <<pgdir, live, child, nextpid, shpid, wpid, programs>>
    <3>1. state[q] = "ZOMBIE"
      BY <1>17
    <3>2. q # init
      BY <3>1 DEF FamilyInv, Alive
    <3>3. /\ p # init /\ programs # "tidy" /\ pc[p] = "call" /\ state[p] = "RUNNABLE"
          /\ UNCHANGED <<live, child, nextpid, shpid, wpid, programs>>
      BY <1>17 DEF OrphanageOf, Calling, Running
    <3>4. Return(p) /\ ReleaseSlot(q)
      BY <1>17, <3>1 DEF OrphanageOf
    <3> QED
      BY <3>1, <3>2, <3>3, <3>4 DEF ReleaseSlot, Return
  <2>1. TypeOK'
    BY <2>a DEF TypeOK, State, Pc
  <2>2. PidInv'
    BY <2>a DEF TypeOK, PidInv
  <2>3. FamilyInv'
    BY <2>a DEF TypeOK, PidInv, FamilyInv, PlaceInv, Alive, Started
  <2>4. PlaceInv'
    BY <2>a DEF TypeOK, PidInv, PlaceInv
  <2>5. InitInv'
    BY <2>a DEF TypeOK, PidInv, FamilyInv, PlaceInv, InitInv, Alive, Started
  <2>6. MissInv'
    BY <2>a DEF TypeOK, FamilyInv, PlaceInv, MissInv, Zombies, Kids, Children, Thread
  <2>7. TidyInv'
    BY <2>a DEF TidyInv
  <2> QED
    BY <2>1, <2>2, <2>3, <2>4, <2>5, <2>6, <2>7 DEF IInv
<1>16. ASSUME NEW p \in Proc, Step(p) PROVE IInv'
  BY <1>1, <1>2, <1>3, <1>4, <1>5, <1>6, <1>7, <1>8, <1>9, <1>10, <1>11, <1>12, <1>14,
     <1>16, <1>17 DEF Step
<1> QED
  BY <1>13, <1>15, <1>16 DEF Next

\* The other calls of orphanage() stop the model.
LEMMA OrphanageStops ==
    ASSUME IInv, NEW p \in Proc, NEW q \in Proc, OrphanageOf(p, q), state[q] # "ZOMBIE"
    PROVE  /\ TypeOK' /\ Stopped'
           /\ Defined' => UNCHANGED <<state, pid, parent, pgdir, killed, live, programs>>
           /\ programs # "tidy" /\ programs' = programs
           /\ Defined' => pc' = [pc EXCEPT ![init] = "panic"]
           /\ ~Defined' => state' = [state EXCEPT ![q] = "UNUSED"]
<1> USE ProcAssumption, Found
<1>0. TypeOK /\ pc \in [Proc -> Pc]
  BY DEF IInv, TypeOK
<1>1. /\ programs # "tidy" /\ p # init
      /\ UNCHANGED <<live, child, nextpid, shpid, wpid, programs>>
  BY DEF OrphanageOf
<1>2. CASE state[q] = "UNUSED"
  <2>1. pc' = [pc EXCEPT ![init] = "panic"] /\ UNCHANGED slot
    BY <1>2 DEF OrphanageOf
  <2> QED
    BY <1>0, <1>1, <2>1 DEF slot, TypeOK, Pc, State, Stopped, Defined
<1>3. CASE state[q] # "UNUSED"
  <2>1. pc' = [pc EXCEPT ![init] = "undefined"] /\ ReleaseSlot(q)
    BY <1>3 DEF OrphanageOf
  <2> QED
    BY <1>0, <1>1, <2>1 DEF ReleaseSlot, TypeOK, Pc, State, Stopped, Defined
<1> QED
  BY <1>2, <1>3

\* Nothing moves when the kernel has stopped.
LEMMA StoppedStays == ASSUME Stopped, [Next]_vars PROVE UNCHANGED vars
<1> SUFFICES ASSUME Next PROVE FALSE
  OBVIOUS
<1>1. ASSUME NEW p, NEW call PROVE ~Running(p) /\ ~Calling(p, call) /\ ~Scans(p, call)
  BY DEF Running, Stopped, Calling, Scans
<1>2. ~Orphanage
  BY <1>1 DEF Orphanage
<1>3. ASSUME NEW p \in Proc PROVE ~Step(p)
  <2>1. ~Enter(p) /\ ~Exec(p) /\ ~Exit(p) /\ ~AllocFails(p) /\ ~Fork(p) /\ ~Clone(p)
    BY <1>1 DEF Enter, Exec, Exit, AllocFails, Fork, Clone
  <2>2. ~Wait(p) /\ ~Join(p)
    BY <1>1 DEF Wait, Join
  <2>3. ASSUME NEW call PROVE ~Allocproc(p, call) /\ ~TableFull(p, call)
    BY <1>1 DEF Allocproc, TableFull
  <2>4. ASSUME NEW call PROVE ~NoKids(p, call) /\ ~Sleep(p, call)
    BY <1>1 DEF NoKids, Sleep
  <2>5. ASSUME NEW q PROVE ~Kill(p, q) /\ ~OrphanageOf(p, q)
    BY <1>1 DEF Kill, OrphanageOf
  <2> QED
    BY <2>1, <2>2, <2>3, <2>4, <2>5, Zenon DEF Step
<1> QED
  BY <1>2, <1>3, Zenon DEF Next

LEMMA IInvIsInv == IInv => Inv
BY DEF IInv, Inv, PlaceInv, Defined

LEMMA NextInv == Inv /\ [Next]_vars => Inv'
<1> SUFFICES ASSUME Inv, [Next]_vars PROVE Inv'
  OBVIOUS
<1>1. CASE Stopped
  <2>1. UNCHANGED vars
    BY <1>1, StoppedStays
  <2>2. TypeOK' /\ Stopped' /\ (programs = "tidy" => Defined)'
    BY <1>1, <2>1 DEF Inv, vars, TypeOK, Stopped, Defined
  <2>3. Defined' => FamilyInv' /\ MissInv' /\ TidyInv'
    BY <2>1 DEF Inv, vars, Defined, FamilyInv, MissInv, Zombies, Kids, Children, Thread,
       TidyInv, Eldest
  <2> QED
    BY <2>2, <2>3 DEF Inv
<1>2. CASE ~Stopped /\ \A p, q \in Proc : OrphanageOf(p, q) => state[q] = "ZOMBIE"
  <2>1. IInv'
    BY <1>2, NextIInv DEF Inv
  <2> QED
    BY <2>1 DEF IInv, Inv, PlaceInv, Defined
<1>3. ASSUME ~Stopped, NEW p \in Proc, NEW q \in Proc, OrphanageOf(p, q), state[q] # "ZOMBIE"
      PROVE  Inv'
  <2>0. IInv
    BY <1>3 DEF Inv
  <2>1. /\ TypeOK' /\ Stopped'
        /\ Defined' => UNCHANGED <<state, pid, parent, pgdir, killed, live, programs>>
        /\ programs # "tidy" /\ programs' = programs
        /\ Defined' => pc' = [pc EXCEPT ![init] = "panic"]
    BY <1>3, <2>0, OrphanageStops
  <2>2. Defined' => FamilyInv'
    BY <2>0, <2>1 DEF IInv, FamilyInv
  <2>3. Defined' => TidyInv'
    BY <2>1 DEF TidyInv
  <2>4. Defined' => MissInv'
    <3> SUFFICES ASSUME Defined', NEW r \in Proc, state'[r] = "SLEEPING"
                 PROVE  /\ Zombies(r, pc[r])' = {}
                        /\ \E s \in Children(r)' : state'[s] \in {"RUNNABLE", "SLEEPING"}
      BY DEF MissInv
    <3>1. Zombies(r, pc[r]) = {} /\ \E s \in Children(r) : state[s] \in {"RUNNABLE", "SLEEPING"}
      BY <2>0, <2>1 DEF IInv, MissInv
    <3>2. UNCHANGED <<state, parent, pgdir>> /\ pc' = [pc EXCEPT ![init] = "panic"]
      BY <2>1
    <3>3. pc'[r] = "join" <=> pc[r] = "join"
      BY <2>0, <3>2, Found DEF IInv, TypeOK, PlaceInv
    <3> QED
      BY <3>1, <3>2, <3>3 DEF Zombies, Kids, Children, Thread
  <2> QED
    BY <2>1, <2>2, <2>3, <2>4 DEF Inv
<1> QED
  BY <1>1, <1>2, <1>3

-----------------------------------------------------------------------------
THEOREM Invariant == Spec => []Inv
<1>1. Init => Inv
  BY InitIInv, IInvIsInv
<1> QED
  BY <1>1, NextInv, PTL DEF Spec

\* A process that has started always has a parent that has not exited: exit()
\* hands the children over to init in the critical section that makes it a
\* zombie (proc.c:246-256), init itself is never given back, and orphanage() of a
\* zombie leaves nobody without a parent, whoever calls it.
THEOREM ParentsLive == Spec => []ParentAlive
<1>1. Inv => ParentAlive
  BY DEF Inv, FamilyInv, ParentAlive, Started, Alive
<1> QED
  BY <1>1, Invariant, PTL

\* Whoever sleeps in wait() or join() has nothing to collect and has a child
\* that will wake it: no wakeup of exit() is lost, whoever exits in which
\* order, whoever inherits the zombies, and whoever gives them back.
THEOREM ChildrenNotMissed == Spec => []NoMissedChild
<1>1. Inv => NoMissedChild
  BY DEF Inv, MissInv, NoMissedChild
<1> QED
  BY <1>1, Invariant, PTL

\* Programs that collect their children before they exit or exec never run on
\* freed pages and leak no address space, whatever the number of slots, pids
\* and threads.
THEOREM AddressSpacesAreKept == Spec => []AddressSpacesKept
<1>1. Inv => AddressSpacesKept
  <2> SUFFICES ASSUME Inv, Defined, programs = "tidy"
               PROVE  AddressSpaceLive /\ AddressSpaceOwned
    BY DEF Inv, AddressSpacesKept
  <2>1. AddressSpaceLive
    BY DEF Inv, TidyInv, AddressSpaceLive, Started, Alive
  <2>2. AddressSpaceOwned
    <3> SUFFICES ASSUME NEW d \in live PROVE \E p \in Used : pgdir[p] = d
      BY DEF AddressSpaceOwned
    <3>1. PICK p \in Proc : state[p] \in Started /\ pgdir[p] = d
      BY DEF Inv, TidyInv
    <3> QED
      BY <3>1 DEF Used, Unused, Started, Alive
  <2> QED
    BY <2>1, <2>2
<1> QED
  BY <1>1, Invariant, PTL

\* A process that has not exited is given back by one step only: the call
\* orphanage(pid) that another program makes with its pid (proc.c:358-385 looks
\* neither at the state nor at the caller).  wait(), join() and init.c take
\* zombies, and the orphanage(wpid) of init.c meets the zombie whose pid wait()
\* returned or nobody, also when other programs have given zombies back between.
THEOREM OnlyZombiesAreReaped == Spec => OnlyZombiesReaped
<1>1. Inv /\ [Next]_vars =>
        [\A p \in Proc : state[p] \in {"RUNNABLE", "SLEEPING"} /\ state'[p] = "UNUSED" =>
            ~Defined' /\ \E q \in Proc \ {init} : OrphanageOf(q, p)]_vars
  <2> SUFFICES ASSUME Inv, [Next]_vars, NEW p \in Proc, state[p] \in Alive
               PROVE  \/ state'[p] # "UNUSED"
                      \/ ~Defined' /\ \E q \in Proc \ {init} : OrphanageOf(q, p)
    BY DEF Alive
  <2>a. CASE Stopped
    <3>1. state' = state
      BY <2>a, StoppedStays DEF vars
    <3> QED
      BY <3>1 DEF Alive
  <2>b. SUFFICES ASSUME ~Stopped
                PROVE  \/ state'[p] # "UNUSED"
                       \/ ~Defined' /\ \E q \in Proc \ {init} : OrphanageOf(q, p)
    BY <2>a
  <2>c. IInv
    BY <2>b DEF Inv
  <2> USE ProcAssumption, Found, <2>c DEF IInv
  <2>0. p \in Proc /\ state \in [Proc -> State] /\ state[p] \notin {"UNUSED", "EMBRYO", "ZOMBIE"}
    BY DEF TypeOK, Alive
  <2>1. ASSUME NEW q \in Proc, NEW r \in Proc, NEW call \in {"fork", "clone"},
               NEW wait \in {"wait", "join"},
               \/ Enter(q) \/ Exec(q) \/ TableFull(q, call) \/ NoKids(q, wait) \/ Fork(q)
               \/ Clone(q) \/ Exit(q) \/ Sleep(q, wait) \/ Kill(q, r) \/ Allocproc(q, call)
        PROVE  state'[p] # "UNUSED"
    <3>1. CASE Enter(q) \/ Exec(q) \/ TableFull(q, call) \/ NoKids(q, wait)
      BY <2>0, <3>1 DEF Enter, Exec, TableFull, NoKids, slot
    <3>2. CASE Fork(q) \/ Clone(q) \/ Sleep(q, wait)
      BY <2>0, <3>2 DEF Fork, Clone, Sleep
    <3>3. CASE Exit(q)
      BY <2>0, <3>3 DEF Exit, ExitWakes
    <3>4. CASE Kill(q, r)
      BY <2>0, <3>4, Zenon DEF Kill
    <3>5. CASE Allocproc(q, call)
      BY <2>0, <3>5 DEF Allocproc
    <3> QED
      BY <2>1, <3>1, <3>2, <3>3, <3>4, <3>5
  <2>2. ASSUME NEW q \in Proc, AllocFails(q) PROVE state'[p] # "UNUSED"
    <3>1. state[child[q]] = "EMBRYO" /\ state' = [state EXCEPT ![child[q]] = "UNUSED"]
      BY <2>2 DEF AllocFails, PlaceInv
    <3> QED
      BY <2>0, <3>1
  <2>3. ASSUME NEW z, state[z] = "ZOMBIE", ReleaseSlot(z) PROVE state'[p] # "UNUSED"
    BY <2>0, <2>3 DEF ReleaseSlot
  <2>4. ASSUME NEW q \in Proc, Wait(q) \/ Join(q) PROVE state'[p] # "UNUSED"
    <3>1. PICK call \in {"wait", "join"} :
             /\ Zombies(q, call) # {} /\ Zombies(q, call) \subseteq Proc
             /\ ReleaseSlot(Min(Zombies(q, call))) \/ UNCHANGED state
      BY <2>4 DEF Wait, Join, Zombies, Kids, Children, slot
    <3>2. state[Min(Zombies(q, call))] = "ZOMBIE"
      BY <3>1 DEF Zombies
    <3> QED
      BY <2>0, <2>3, <3>1, <3>2
  <2>5. CASE Orphanage
    <3>1. CASE {r \in Proc : pid[r] = wpid} = {}
      BY <2>0, <2>5, <3>1 DEF Orphanage, slot
    <3>2. CASE {r \in Proc : pid[r] = wpid} # {}
      <4> DEFINE z == Min({r \in Proc : pid[r] = wpid})
      <4>1. z \in {r \in Proc : pid[r] = wpid}
        BY <3>2
      <4>2. ReleaseSlot(z)
        BY <2>5, <3>2 DEF Orphanage
      <4> HIDE DEF z
      <4>3. state[z] = "ZOMBIE"
        BY <2>5, <4>1 DEF Orphanage, InitInv
      <4> QED
        BY <2>3, <4>2, <4>3
    <3> QED
      BY <3>1, <3>2
  <2>6. CASE UNCHANGED vars
    BY <2>0, <2>6 DEF vars
  <2>7. ASSUME NEW q \in Proc, NEW r \in Proc, OrphanageOf(q, r), state'[p] = "UNUSED"
        PROVE  ~Defined' /\ OrphanageOf(q, p) /\ q # init
    <3>1. r = p
      BY <2>0, <2>7 DEF OrphanageOf, ReleaseSlot, slot
    <3>2. pc' = [pc EXCEPT ![init] = "undefined"] /\ q # init
      BY <2>0, <2>7, <3>1 DEF OrphanageOf
    <3> QED
      BY <2>7, <3>1, <3>2 DEF TypeOK, Defined
  <2> QED
    BY <2>1, <2>2, <2>4, <2>5, <2>6, <2>7 DEF Next, Step
<1> QED
  BY <1>1, Invariant, PTL DEF Spec, OnlyZombiesReaped
=============================================================================
