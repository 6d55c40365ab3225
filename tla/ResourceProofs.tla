--------------------------- MODULE ResourceProofs ---------------------------
(***************************************************************************)
(* What processes hold.  Open files: the reference counts, for any size of *)
(* the process table, of the descriptor tables and of the file table, when *)
(* threads open no files ("inherit") or one system call is made at a time  *)
(* ("turns").  Pipes: readers and writers are awake when they should be,   *)
(* and a pipe is a bounded byte stream, whatever the sizes of its ring and *)
(* of its counters, as long as the ring divides the range of the counters. *)
(* Memory: that of a process of p3b is its program, its heap and its       *)
(* stack, page for page, for every size of pages, programs and memory.     *)
(***************************************************************************)
EXTENDS FileTable, Pipe, UserSpace, FiniteSetTheorems, SequenceTheorems, WellFoundedInduction,
        TLAPS

-----------------------------------------------------------------------------
(* Open files *)

Calling == {"fdalloc", "store", "load", "inc", "filedup", "ret"}

\* What the fields of a process are good for at each label.
PcInv == \A p \in Proc :
    /\ state[p] # "RUNNABLE" => pc[p] = "user"
    /\ pc[p] # "panic"
    /\ pc[p] \in {"user", "copy", "exit"} => call[p] = "none"
    /\ pc[p] \in Calling => call[p] # "none"
    /\ pc[p] \in Calling \cup {"fileclose"} => file[p] \in File
    /\ pc[p] = "fileclose" => call[p] # "dup"
    /\ pc[p] = "filedup" => call[p] = "dup"
    /\ pc[p] \in {"store", "load", "inc"} => slot[p] \in Proc
    /\ pc[p] = "store" => fd[p] \in Fd
    /\ pc[p] \in {"load", "inc"} => slot[p] # p /\ rc[p] # NoFd
    /\ pc[p] \in {"filedup", "ret"} => rc[p] # NoFd /\ slot[p] = NPROC + 1
    /\ pc[p] \in {"copy", "exit"} => fd[p] \in 0..NOFILE

\* Whoever copies its descriptors has a slot of its own to copy them to.
CopyInv ==
    /\ \A p \in Proc : pc[p] = "copy" => child[p] \in Proc /\ state[child[p]] = "EMBRYO"
    /\ \A p, q \in Proc : pc[p] = "copy" /\ pc[q] = "copy" /\ child[p] = child[q] => p = q

\* fdalloc() writes where it found nothing.
StoreInv == \A p \in Proc : pc[p] = "store" => ofile[slot[p]][fd[p]] = NoFile

\* A process that is no thread looks at its own descriptors only; dup() keeps
\* the one it was called with.
OwnInv == \A p \in Proc : pc[p] \in Calling /\ ~thread[p] =>
    /\ pc[p] \notin {"load", "inc"}
    /\ \/ slot[p] = p /\ rc[p] = NoFd
       \/ slot[p] = NPROC + 1 /\ pc[p] # "store"
    /\ rc[p] # NoFd => ofile[p][rc[p]] = file[p]
    /\ call[p] = "dup" => \E d \in Fd : d # rc[p] /\ ofile[p][d] = file[p]

\* Threads that only inherit their files make no call about them, ...
InheritInv == programs = "inherit" =>
    \A p \in Proc :
        /\ thread[p] => call[p] = "none"
        /\ state[p] \in {"UNUSED", "ZOMBIE"} => Empty(p) = Fd
        /\ pc[p] = "copy" => \A d \in Fd : d >= fd[p] => ofile[child[p]][d] = NoFile
        /\ pc[p] = "exit" => \A d \in Fd : d < fd[p] => ofile[p][d] = NoFile

\* ... and who takes turns is alone, so that f->ref++ counts right.
TurnsInv == programs = "turns" =>
    /\ \A p, q \in Proc : pc[p] # "user" /\ pc[q] # "user" => p = q
    /\ \A p \in Proc : pc[p] = "inc" => load[p] = ref[file[p]]
    /\ \A p \in Proc : pc[p] \in Calling /\ call[p] = "dup" => ref[file[p]] >= 1

\* The books.
CountInv == \A f \in File : IF programs = "turns" THEN ref[f] >= Standing(f)
                                                  ELSE ref[f] = Standing(f)

FileInv == /\ TypeOK /\ PcInv /\ CopyInv /\ StoreInv /\ OwnInv /\ InheritInv /\ TurnsInv
        /\ CountInv

-----------------------------------------------------------------------------
(* Numbers and sets *)

LEMMA Ranges ==
    /\ NPROC \in Nat /\ NOFILE \in Nat /\ 0 \in Fd /\ NOFILE \notin Fd
    /\ Proc \subseteq Nat /\ Fd \subseteq Nat /\ File \subseteq Nat
    /\ \A p \in Proc : 1 <= p /\ p < NPROC + 1
    /\ \A n \in Nat : n \in Proc <=> 1 <= n /\ n < NPROC + 1
    /\ \A n \in Nat : n \in Fd <=> n < NOFILE
    /\ NPROC + 1 \notin Proc /\ NPROC + 1 \in Nat /\ 0 \notin Proc
    /\ NoFd \notin Fd /\ NoFd \in Int /\ NoFile \notin File
BY FileTableAssumption DEF Proc, Fd, File, NoFd, NoFile

LEMMA MinIsIn ==
    ASSUME NEW T, T \subseteq Nat, T # {}
    PROVE  Min(T) \in T
<1>1. PICK x \in T : \A y \in T : ~(<<y, x>> \in OpToRel(<, Nat))
  BY WFMin, NatLessThanWellFounded
<1>2. ASSUME NEW y \in T PROVE x <= y
  <2>1. x \in Nat /\ y \in Nat /\ <<y, x>> \in Nat \X Nat /\ <<y, x>>[1] = y /\ <<y, x>>[2] = x
    OBVIOUS
  <2>2. ~(y < x)
    BY <1>1, <2>1 DEF OpToRel
  <2> QED
    BY <2>1, <2>2
<1> QED
  BY <1>2 DEF Min

Bit(b) == IF b THEN 1 ELSE 0

\* Two sets that differ in one element at most.
LEMMA OneElement ==
    ASSUME NEW S, IsFiniteSet(S), NEW T, NEW x, T \ {x} = S \ {x}
    PROVE  /\ IsFiniteSet(T) /\ Cardinality(S) \in Nat /\ Cardinality(T) \in Nat
           /\ Cardinality(T) = Cardinality(S) + Bit(x \in T) - Bit(x \in S)
<1> DEFINE R == S \ {x}
<1>1. /\ IsFiniteSet(R) /\ Cardinality(S) \in Nat
      /\ Cardinality(R) = IF x \in S THEN Cardinality(S) - 1 ELSE Cardinality(S)
  BY FS_RemoveElement, FS_CardinalityType
<1>2. x \notin R /\ (x \in T => T = R \cup {x}) /\ (x \notin T => T = R)
  OBVIOUS
<1> HIDE DEF R
<1>3. /\ IsFiniteSet(R \cup {x}) /\ Cardinality(R) \in Nat
      /\ Cardinality(R \cup {x}) = Cardinality(R) + 1
  BY <1>1, <1>2, FS_AddElement, FS_CardinalityType
<1>4. Cardinality(S) = Cardinality(R) + Bit(x \in S)
  <2>1. CASE x \in S
    BY <1>1 DEF Bit
  <2>2. CASE x \notin S
    BY <1>1 DEF Bit
  <2> QED
    BY <2>1, <2>2
<1>5. Cardinality(T) = Cardinality(R) + Bit(x \in T) /\ IsFiniteSet(T)
  <2>1. CASE x \in T
    <3>1. T = R \cup {x} /\ Bit(x \in T) = 1
      BY <1>2, <2>1 DEF Bit
    <3> QED
      BY <1>3, <3>1
  <2>2. CASE x \notin T
    <3>1. T = R /\ Bit(x \in T) = 0
      BY <1>2, <2>2 DEF Bit
    <3> QED
      BY <1>1, <1>3, <3>1
  <2> QED
    BY <2>1, <2>2
<1>6. Bit(x \in T) \in 0..1 /\ Bit(x \in S) \in 0..1
  BY DEF Bit
<1> HIDE DEF Bit
<1> QED
  BY <1>1, <1>4, <1>5, <1>6, FS_CardinalityType

-----------------------------------------------------------------------------
(* The books *)

\* The descriptors and the calls that Standing counts.
Named(f)  == {x \in Proc \X Fd : ofile[x[1]][x[2]] = f}
Giving(f) == {p \in Proc : file[p] = f /\ Held(p)}
Ahead(f)  == {p \in Proc : file[p] = f /\ Early(p)}
Owing(f)  == {p \in Proc : file[p] = f /\ Owed(p)}

\* What the call of p adds to the standing of f.
Share(p, f) == Bit(file[p] = f /\ Held(p)) - Bit(file[p] = f /\ Early(p))
               - Bit(file[p] = f /\ Owed(p))

LEMMA ProcFinite == IsFiniteSet(Proc) /\ IsFiniteSet(Fd)
BY FileTableAssumption, FS_Interval DEF Proc, Fd

LEMMA Books ==
    ASSUME NEW f
    PROVE  /\ IsFiniteSet(Named(f)) /\ IsFiniteSet(Giving(f))
           /\ IsFiniteSet(Ahead(f)) /\ IsFiniteSet(Owing(f))
           /\ Cardinality(Named(f)) \in Nat /\ Cardinality(Giving(f)) \in Nat
           /\ Cardinality(Ahead(f)) \in Nat /\ Cardinality(Owing(f)) \in Nat
           /\ Standing(f) = Cardinality(Named(f)) + (Cardinality(Giving(f))
                               - Cardinality(Ahead(f)) - Cardinality(Owing(f)))
<1>1. IsFiniteSet(Proc \X Fd)
  BY ProcFinite, FS_Product
<1>2. Named(f) \in SUBSET (Proc \X Fd) /\ Giving(f) \in SUBSET Proc
      /\ Ahead(f) \in SUBSET Proc /\ Owing(f) \in SUBSET Proc
  BY DEF Named, Giving, Ahead, Owing
<1>3. /\ IsFiniteSet(Named(f)) /\ IsFiniteSet(Giving(f))
      /\ IsFiniteSet(Ahead(f)) /\ IsFiniteSet(Owing(f))
  BY <1>1, <1>2, ProcFinite, FS_Subset
<1>4. Standing(f) = Cardinality(Named(f)) + (Cardinality(Giving(f))
                      - Cardinality(Ahead(f)) - Cardinality(Owing(f)))
  BY DEF Standing, InFlight, Named, Giving, Ahead, Owing
<1> QED
  BY <1>3, <1>4, FS_CardinalityType

\* A step that changes the call of no other process.
Others(p) == \A q \in Proc \ {p} :
    /\ file'[q] = file[q] /\ pc'[q] = pc[q] /\ call'[q] = call[q]
    /\ slot'[q] = slot[q] /\ rc'[q] = rc[q]

\* A step of p that changes one descriptor at most.
LEMMA Ledger ==
    ASSUME NEW p \in Proc, NEW s \in Proc, NEW d \in Fd, NEW f,
           Others(p),
           \A r \in Proc, e \in Fd : r # s \/ e # d => ofile'[r][e] = ofile[r][e]
    PROVE  /\ Standing(f) \in Int /\ Standing(f)' \in Int
           /\ Standing(f)' = Standing(f) + Bit(ofile'[s][d] = f) - Bit(ofile[s][d] = f)
                              + (Share(p, f)' - Share(p, f))
<1>1. Cardinality(Named(f)') = Cardinality(Named(f)) + Bit(ofile'[s][d] = f) - Bit(ofile[s][d] = f)
  <2>1. Named(f)' \ {<<s, d>>} = Named(f) \ {<<s, d>>}
    BY DEF Named
  <2>2. (<<s, d>> \in Named(f)' <=> ofile'[s][d] = f) /\ (<<s, d>> \in Named(f) <=> ofile[s][d] = f)
    BY DEF Named
  <2>3. Cardinality(Named(f)') = Cardinality(Named(f)) + Bit(<<s, d>> \in Named(f)')
                                   - Bit(<<s, d>> \in Named(f))
    BY <2>1, Books, OneElement
  <2> QED
    BY <2>2, <2>3 DEF Bit
<1>2. Cardinality(Giving(f)') = Cardinality(Giving(f)) + Bit((file[p] = f /\ Held(p))')
                                  - Bit(file[p] = f /\ Held(p))
  <2>1. Giving(f)' \ {p} = Giving(f) \ {p}
    BY DEF Giving, Held, Others
  <2>2. Cardinality(Giving(f)') = Cardinality(Giving(f)) + Bit(p \in Giving(f)') - Bit(p \in Giving(f))
    BY <2>1, Books, OneElement
  <2> QED
    BY <2>2 DEF Bit, Giving
<1>3. Cardinality(Ahead(f)') = Cardinality(Ahead(f)) + Bit((file[p] = f /\ Early(p))')
                                 - Bit(file[p] = f /\ Early(p))
  <2>1. Ahead(f)' \ {p} = Ahead(f) \ {p}
    BY DEF Ahead, Early, Others
  <2>2. Cardinality(Ahead(f)') = Cardinality(Ahead(f)) + Bit(p \in Ahead(f)') - Bit(p \in Ahead(f))
    BY <2>1, Books, OneElement
  <2> QED
    BY <2>2 DEF Bit, Ahead
<1>4. Cardinality(Owing(f)') = Cardinality(Owing(f)) + Bit((file[p] = f /\ Owed(p))')
                                 - Bit(file[p] = f /\ Owed(p))
  <2>1. Owing(f)' \ {p} = Owing(f) \ {p}
    BY DEF Owing, Owed, Others
  <2>2. Cardinality(Owing(f)') = Cardinality(Owing(f)) + Bit(p \in Owing(f)') - Bit(p \in Owing(f))
    BY <2>1, Books, OneElement
  <2> QED
    BY <2>2 DEF Bit, Owing
<1>5. Standing(f) = Cardinality(Named(f)) + (Cardinality(Giving(f))
                      - Cardinality(Ahead(f)) - Cardinality(Owing(f)))
  BY Books
<1>6. Standing(f)' = Cardinality(Named(f)') + (Cardinality(Giving(f)')
                      - Cardinality(Ahead(f)') - Cardinality(Owing(f)'))
  BY DEF Standing, InFlight, Named, Giving, Ahead, Owing
<1>7. /\ Cardinality(Named(f)) \in Nat /\ Cardinality(Giving(f)) \in Nat
      /\ Cardinality(Ahead(f)) \in Nat /\ Cardinality(Owing(f)) \in Nat
  BY Books
<1>8. \A b \in BOOLEAN : Bit(b) \in 0..1
  BY DEF Bit
<1> QED
  BY <1>1, <1>2, <1>3, <1>4, <1>5, <1>6, <1>7 DEF Share, Bit

LEMMA ShareIsInt == \A p, f : Share(p, f) \in Int /\ Share(p, f)' \in Int
BY DEF Share, Bit

LEMMA NoCall ==
    ASSUME NEW p, call[p] = "none", pc[p] \in {"user", "copy", "exit"}, NEW f
    PROVE  Share(p, f) = 0
BY DEF Share, Bit, Held, Early, Owed

\* A step that moves no descriptor and no count.
LEMMA Quiet ==
    ASSUME NEW p \in Proc, Others(p), ref' = ref, ofile' = ofile, programs' = programs,
           \A f \in File : \/ Share(p, f)' = Share(p, f)
                           \/ programs = "turns" /\ Share(p, f)' <= Share(p, f),
           TypeOK, CountInv
    PROVE  CountInv'
<1> SUFFICES ASSUME NEW f \in File
             PROVE  IF programs = "turns" THEN ref[f] >= Standing(f)' ELSE ref[f] = Standing(f)'
  BY DEF CountInv
<1>1. /\ Standing(f) \in Int /\ Standing(f)' \in Int
      /\ Standing(f)' = Standing(f) + Bit(ofile'[p][0] = f) - Bit(ofile[p][0] = f)
                          + (Share(p, f)' - Share(p, f))
  BY Ledger, Ranges
<1>2. Bit(ofile'[p][0] = f) = Bit(ofile[p][0] = f) /\ Bit(ofile[p][0] = f) \in Int
  BY DEF Bit
<1>3. Share(p, f) \in Int /\ Share(p, f)' \in Int /\ ref[f] \in Int
  BY ShareIsInt DEF TypeOK
<1>4. Standing(f)' = Standing(f) + (Share(p, f)' - Share(p, f))
  BY <1>1, <1>2, <1>3
<1> QED
  BY <1>1, <1>3, <1>4 DEF CountInv

\* A descriptor that stands for f is counted, unless it is the one of a dup
\* that has not reached its filedup.
LEMMA Backed ==
    ASSUME TypeOK, PcInv, OwnInv, InheritInv, CountInv, programs = "inherit", NEW f \in File
    PROVE  /\ ref[f] >= Cardinality(Giving(f))
           /\ \A p \in Proc, d \in Fd :
                ofile[p][d] = f /\ (p \in Owing(f) => d # rc[p]) => ref[f] >= 1
<1>1. \A q \in Owing(f) : <<q, rc[q]>> \in Named(f)
  BY DEF Owing, Owed, TypeOK, PcInv, OwnInv, InheritInv, Named, Pc, Calling
<1>2. Ahead(f) = {}
  BY DEF Ahead, Early, PcInv, OwnInv, InheritInv, Calling
<1>3. ref[f] = Cardinality(Named(f)) + (Cardinality(Giving(f)) - Cardinality(Owing(f)))
  BY <1>2, Books, FS_EmptySet DEF CountInv
<1>4. ASSUME NEW X \in SUBSET Named(f), \A q \in Owing(f) : <<q, rc[q]>> \in X
      PROVE  Cardinality(Owing(f)) <= Cardinality(X) /\ IsFiniteSet(X)
  <2>1. IsFiniteSet(X)
    BY Books, FS_Subset
  <2> DEFINE g == [q \in Owing(f) |-> <<q, rc[q]>>]
  <2>2. g \in [Owing(f) -> X]
    BY <1>4
  <2>3. \A a, b \in Owing(f) : g[a] = g[b] => a = b
    OBVIOUS
  <2> HIDE DEF g
  <2>4. g \in Injection(Owing(f), X)
    BY <2>2, <2>3 DEF Injection, IsInjective
  <2> QED
    BY <2>1, <2>4, FS_Injection
<1>5. Cardinality(Owing(f)) <= Cardinality(Named(f))
  BY <1>1, <1>4
<1>6. ASSUME NEW p \in Proc, NEW d \in Fd, ofile[p][d] = f, p \in Owing(f) => d # rc[p]
      PROVE  ref[f] >= 1
  <2>1. <<p, d>> \in Named(f)
    BY <1>6 DEF Named
  <2>2. \A q \in Owing(f) : <<q, rc[q]>> \in Named(f) \ {<<p, d>>}
    BY <1>1, <1>6
  <2>3. Cardinality(Owing(f)) <= Cardinality(Named(f) \ {<<p, d>>})
    BY <1>4, <2>2
  <2>4. Cardinality(Named(f) \ {<<p, d>>}) = Cardinality(Named(f)) - 1
    BY <2>1, Books, FS_RemoveElement
  <2> QED
    BY <1>3, <2>3, <2>4, Books
<1> QED
  BY <1>3, <1>5, <1>6, Books

\* With one process in a call at most, its share is all there is.
LEMMA Alone ==
    ASSUME TypeOK, PcInv, NEW p \in Proc, \A q \in Proc \ {p} : pc[q] = "user", NEW f \in File
    PROVE  Standing(f) = Cardinality(Named(f)) + Share(p, f)
<1>1. \A q \in Proc \ {p} : ~Held(q) /\ ~Early(q) /\ ~Owed(q)
  BY DEF PcInv, Held, Early, Owed
<1>2. ASSUME NEW T \in SUBSET Proc, T \ {p} = {}
      PROVE  Cardinality(T) = Bit(p \in T)
  <2>1. T \ {p} = {} \ {p} /\ Bit(p \in {}) = 0 /\ Bit(p \in T) \in Int
    BY <1>2 DEF Bit
  <2>2. Cardinality(T) = Cardinality({}) + Bit(p \in T) - Bit(p \in {})
    BY <2>1, OneElement, FS_EmptySet
  <2> QED
    BY <2>1, <2>2, FS_EmptySet
<1>3. Cardinality(Giving(f)) = Bit(file[p] = f /\ Held(p))
  <2>1. Giving(f) \in SUBSET Proc /\ Giving(f) \ {p} = {}
    BY <1>1 DEF Giving
  <2> QED
    BY <1>2, <2>1 DEF Giving
<1>4. Cardinality(Ahead(f)) = Bit(file[p] = f /\ Early(p))
  <2>1. Ahead(f) \in SUBSET Proc /\ Ahead(f) \ {p} = {}
    BY <1>1 DEF Ahead
  <2> QED
    BY <1>2, <2>1 DEF Ahead
<1>5. Cardinality(Owing(f)) = Bit(file[p] = f /\ Owed(p))
  <2>1. Owing(f) \in SUBSET Proc /\ Owing(f) \ {p} = {}
    BY <1>1 DEF Owing
  <2> QED
    BY <1>2, <2>1 DEF Owing
<1> QED
  BY <1>3, <1>4, <1>5, Books DEF Share

LEMMA SomeName ==
    ASSUME NEW p \in Proc, NEW d \in Fd, NEW f, ofile[p][d] = f
    PROVE  Cardinality(Named(f)) >= 1
<1>1. <<p, d>> \in Named(f)
  BY DEF Named
<1> QED
  BY <1>1, Books, FS_EmptySet

\* Neither panic of file.c, nor the end of a file that is in use.
LEMMA Counted ==
    ASSUME FileInv, programs \in {"inherit", "turns"}, NEW p \in Proc
    PROVE  /\ pc[p] \in {"fileclose", "filedup"} => ref[file[p]] >= 1
           /\ pc[p] = "exit" => \A d \in Fd : ofile[p][d] # NoFile => ref[ofile[p][d]] >= 1
           /\ programs = "turns" /\ (\A q \in Proc : pc[q] = "user") =>
                \A d \in Fd : ofile[p][d] # NoFile => ref[ofile[p][d]] >= 1
<1> USE DEF FileInv
<1>1. CASE programs = "inherit"
  <2>1. ASSUME pc[p] = "fileclose"
        PROVE  ref[file[p]] >= 1
    <3>1. file[p] \in File /\ p \in Giving(file[p])
      BY <2>1 DEF PcInv, Giving, Held
    <3>2. Cardinality(Giving(file[p])) # 0 /\ Cardinality(Giving(file[p])) \in Nat
      BY <3>1, Books, FS_EmptySet
    <3> QED
      BY <1>1, <3>1, <3>2, Backed DEF TypeOK
  <2>2. ASSUME pc[p] = "filedup"
        PROVE  ref[file[p]] >= 1
    <3>1. file[p] \in File /\ \E d \in Fd : d # rc[p] /\ ofile[p][d] = file[p]
      BY <1>1, <2>2 DEF PcInv, OwnInv, InheritInv, Calling
    <3> QED
      BY <1>1, <3>1, Backed
  <2>3. ASSUME pc[p] = "exit", NEW d \in Fd, ofile[p][d] # NoFile
        PROVE  ref[ofile[p][d]] >= 1
    <3>1. ofile[p][d] \in File /\ p \notin Owing(ofile[p][d])
      BY <2>3 DEF TypeOK, PcInv, Owing, Owed
    <3> QED
      BY <1>1, <3>1, Backed
  <2> QED
    BY <1>1, <2>1, <2>2, <2>3
<1>2. CASE programs = "turns"
  <2>1. ASSUME pc[p] # "user", NEW f \in File
        PROVE  ref[f] >= Cardinality(Named(f)) + Share(p, f)
    <3>1. \A q \in Proc \ {p} : pc[q] = "user"
      BY <1>2, <2>1 DEF TurnsInv
    <3>2. Standing(f) = Cardinality(Named(f)) + Share(p, f)
      BY <3>1, Alone
    <3> QED
      BY <1>2, <3>2 DEF CountInv
  <2>2. ASSUME pc[p] = "fileclose"
        PROVE  ref[file[p]] >= 1
    <3>1. file[p] \in File /\ Share(p, file[p]) = 1
      BY <2>2 DEF PcInv, Share, Bit, Held, Early, Owed
    <3> QED
      BY <2>1, <2>2, <3>1, Books DEF TypeOK
  <2>3. ASSUME pc[p] = "filedup"
        PROVE  ref[file[p]] >= 1
    BY <1>2, <2>3 DEF TurnsInv, PcInv, Calling
  <2>4. ASSUME pc[p] = "exit", NEW d \in Fd, ofile[p][d] # NoFile
        PROVE  ref[ofile[p][d]] >= 1
    <3>1. ofile[p][d] \in File /\ Share(p, ofile[p][d]) = 0
      BY <2>4, NoCall DEF TypeOK, PcInv
    <3> QED
      BY <2>1, <2>4, <3>1, SomeName, Books DEF TypeOK
  <2>5. ASSUME \A q \in Proc : pc[q] = "user", NEW d \in Fd, ofile[p][d] # NoFile
        PROVE  ref[ofile[p][d]] >= 1
    <3>1. ofile[p][d] \in File /\ Share(p, ofile[p][d]) = 0
      BY <2>5, NoCall DEF TypeOK, PcInv
    <3>2. Standing(ofile[p][d]) = Cardinality(Named(ofile[p][d])) + Share(p, ofile[p][d])
      BY <2>5, <3>1, Alone
    <3> QED
      BY <3>1, <3>2, SomeName, Books DEF TypeOK, CountInv
  <2> QED
    BY <2>2, <2>3, <2>4, <2>5
<1> QED
  BY <1>1, <1>2

-----------------------------------------------------------------------------
(* The steps *)

\* What the writes to the two tables do.
LEMMA SetDescriptor ==
    ASSUME TypeOK, NEW s \in Proc, NEW d \in Fd, NEW v \in File \cup {NoFile},
           ofile' = [ofile EXCEPT ![s][d] = v]
    PROVE  /\ ofile' \in [Proc -> [Fd -> File \cup {NoFile}]] /\ ofile'[s][d] = v
           /\ \A r \in Proc \ {s} : ofile'[r] = ofile[r]
           /\ \A e \in Fd \ {d} : ofile'[s][e] = ofile[s][e]
BY DEF TypeOK

LEMMA SetRef ==
    ASSUME TypeOK, NEW f \in File, NEW n \in Nat, ref' = [ref EXCEPT ![f] = n]
    PROVE  /\ ref' \in [File -> Nat] /\ ref'[f] = n
           /\ \A g \in File \ {f} : ref'[g] = ref[g]
BY DEF TypeOK

LEMMA InitFileInv == ASSUME "any" \notin Programs, Init PROVE FileInv
<1>1. TypeOK
  BY Ranges DEF Init, TypeOK, State, Pc
<1>2. PcInv /\ CopyInv /\ StoreInv /\ OwnInv /\ InheritInv /\ TurnsInv
  BY DEF Init, PcInv, CopyInv, StoreInv, OwnInv, InheritInv, TurnsInv, Calling, Empty
<1>3. CountInv
  <2> SUFFICES ASSUME NEW f \in File PROVE ref[f] = Standing(f)
    BY DEF CountInv, TypeOK, Init
  <2>1. Named(f) = {} /\ Giving(f) = {} /\ Ahead(f) = {} /\ Owing(f) = {}
    BY Ranges DEF Init, Named, Giving, Ahead, Owing
  <2> QED
    BY <2>1, Books, FS_EmptySet DEF Init
<1> QED
  BY <1>1, <1>2, <1>3 DEF FileInv

LEMMA NextFileInv == ASSUME "any" \notin Programs, FileInv, [Next]_vars PROVE FileInv'
<1> SUFFICES ASSUME TypeOK, PcInv, CopyInv, StoreInv, OwnInv, InheritInv, TurnsInv, CountInv
             PROVE  FileInv'
  BY DEF FileInv
<1>a. programs \in {"inherit", "turns"}
  BY FileTableAssumption DEF TypeOK
<1>b. FileInv
  BY DEF FileInv
<1>1. ASSUME NEW p \in Proc, Open(p)
      PROVE  FileInv'
  <2>m. Min({g \in File : ref[g] = 0}) \in {g \in File : ref[g] = 0}
    BY <1>1, MinIsIn, Ranges DEF Open
  <2>a. /\ state[p] = "RUNNABLE" /\ pc[p] = "user"
        /\ programs = "turns" => \A q \in Proc : pc[q] = "user"
        /\ programs = "inherit" => ~thread[p]
        /\ \E f \in File : ref[f] = 0 /\ ref' = [ref EXCEPT ![f] = 1] /\ file' = [file EXCEPT ![p] = f]
        /\ call' = [call EXCEPT ![p] = "open"]
        /\ slot' = [slot EXCEPT ![p] = IF thread[p] THEN 1 ELSE p]
        /\ rc' = [rc EXCEPT ![p] = NoFd] /\ fd' = [fd EXCEPT ![p] = NoFd]
        /\ pc' = [pc EXCEPT ![p] = "fdalloc"]
        /\ UNCHANGED <<state, pgdir, thread, ofile, load, child, programs>>
    BY <1>1, <2>m DEF Open, Opens, Begins, Runs, Enter, Goto
  <2>1. TypeOK'
    BY <2>a, Ranges DEF TypeOK, Pc
  <2>2. PcInv'
    BY <2>a DEF TypeOK, PcInv
  <2>3. CopyInv'
    BY <2>a DEF CopyInv
  <2>4. StoreInv'
    BY <2>a DEF StoreInv
  <2>5. OwnInv'
    BY <2>a DEF TypeOK, OwnInv
  <2>6. InheritInv'
    BY <2>a DEF InheritInv, Empty
  <2>7. TurnsInv'
    BY <2>a DEF TypeOK, TurnsInv
  <2>8. CountInv'
    <3> SUFFICES ASSUME NEW f \in File
                 PROVE  IF programs = "turns" THEN ref'[f] >= Standing(f)' ELSE ref'[f] = Standing(f)'
      BY <2>a DEF CountInv
    <3>a. /\ Others(p) /\ p \in Proc /\ 0 \in Fd
          /\ \A r \in Proc, e \in Fd : r # p \/ e # 0 => ofile'[r][e] = ofile[r][e]
      BY <2>a, Ranges DEF Others
    <3>1. /\ Standing(f) \in Int /\ Standing(f)' \in Int
          /\ Standing(f)' = Standing(f) + Bit(ofile'[p][0] = f) - Bit(ofile[p][0] = f)
                              + (Share(p, f)' - Share(p, f))
      BY <3>a, Ledger
    <3>2. ref[f] \in Nat /\ IF programs = "turns" THEN ref[f] >= Standing(f) ELSE ref[f] = Standing(f)
      BY DEF CountInv, TypeOK
    <3> QED
      BY <2>a, <3>1, <3>2 DEF Share, Bit, Held, Early, Owed, TypeOK, PcInv
  <2> QED
    BY <2>1, <2>2, <2>3, <2>4, <2>5, <2>6, <2>7, <2>8 DEF FileInv
<1>2. ASSUME NEW p \in Proc, NEW d \in Fd, Dup(p, d)
      PROVE  FileInv'
  <2>a. /\ state[p] = "RUNNABLE" /\ pc[p] = "user"
        /\ programs = "turns" => \A q \in Proc : pc[q] = "user"
        /\ programs = "inherit" => ~thread[p]
        /\ ofile[p][d] # NoFile /\ ofile[p][d] \in File
        /\ programs = "turns" => ref[ofile[p][d]] >= 1
        /\ call' = [call EXCEPT ![p] = "dup"] /\ file' = [file EXCEPT ![p] = ofile[p][d]]
        /\ slot' = [slot EXCEPT ![p] = IF thread[p] THEN 1 ELSE p]
        /\ rc' = [rc EXCEPT ![p] = NoFd] /\ fd' = [fd EXCEPT ![p] = NoFd]
        /\ pc' = [pc EXCEPT ![p] = "fdalloc"]
        /\ UNCHANGED <<ref, state, pgdir, thread, ofile, load, child, programs>>
    BY SMTT(30), <1>2, <1>a, <1>b, Counted DEF Dup, Opens, Begins, Runs, Enter, Goto, TypeOK
  <2>1. TypeOK'
    BY <2>a, Ranges DEF TypeOK, Pc
  <2>2. PcInv'
    BY <2>a DEF TypeOK, PcInv
  <2>3. CopyInv'
    BY <2>a DEF CopyInv
  <2>4. StoreInv'
    BY <2>a DEF StoreInv
  <2>5. OwnInv'
    BY <2>a, Ranges DEF TypeOK, OwnInv
  <2>6. InheritInv'
    BY <2>a DEF InheritInv, Empty
  <2>7. TurnsInv'
    BY <2>a DEF TypeOK, TurnsInv
  <2>8. CountInv'
    <3>1. ASSUME NEW f \in File
          PROVE  \/ Share(p, f)' = Share(p, f)
                 \/ programs = "turns" /\ Share(p, f)' <= Share(p, f)
      BY <2>a DEF Share, Held, Early, Owed, TypeOK, PcInv
    <3> QED
      BY <2>a, <3>1, Quiet DEF Others
  <2> QED
    BY <2>1, <2>2, <2>3, <2>4, <2>5, <2>6, <2>7, <2>8 DEF FileInv
<1>3. ASSUME NEW p \in Proc, FdFind(p)
      PROVE  FileInv'
  <2>m. Min(Empty(slot[p])) \in Empty(slot[p])
    BY <1>3, MinIsIn, Ranges DEF FdFind, Empty
  <2>a. /\ state[p] = "RUNNABLE" /\ pc[p] = "fdalloc"
        /\ thread[p] => programs = "turns"
        /\ slot[p] \in Proc /\ Matches(p, slot[p])
        /\ \E e \in Fd : ofile[slot[p]][e] = NoFile /\ fd' = [fd EXCEPT ![p] = e]
        /\ pc' = [pc EXCEPT ![p] = "store"]
        /\ UNCHANGED <<ref, state, pgdir, thread, ofile, call, file, slot, rc, load, child, programs>>
    BY <1>3, <2>m, <1>a DEF FdFind, Runs, Goto, Empty, InheritInv, PcInv, Calling
  <2>1. TypeOK'
    BY <2>a DEF TypeOK, Pc
  <2>2. PcInv'
    BY <2>a DEF TypeOK, PcInv, Calling
  <2>3. CopyInv'
    BY <2>a DEF CopyInv
  <2>4. StoreInv'
    BY <2>a DEF TypeOK, StoreInv
  <2>5. OwnInv'
    BY <2>a, Ranges DEF OwnInv, Calling
  <2>6. InheritInv'
    BY <2>a DEF InheritInv, Empty
  <2>7. TurnsInv'
    BY <2>a DEF TurnsInv, Calling
  <2>8. CountInv'
    <3>1. ASSUME NEW f \in File
          PROVE  \/ Share(p, f)' = Share(p, f)
                 \/ programs = "turns" /\ Share(p, f)' <= Share(p, f)
      BY <2>a DEF Share, Held, Early, Owed
    <3> QED
      BY <2>a, <3>1, Quiet DEF Others
  <2> QED
    BY <2>1, <2>2, <2>3, <2>4, <2>5, <2>6, <2>7, <2>8 DEF FileInv
<1>4. ASSUME NEW p \in Proc, FdSkip(p)
      PROVE  FileInv'
  <2>a. /\ state[p] = "RUNNABLE" /\ pc[p] = "fdalloc"
        /\ thread[p] => programs = "turns"
        /\ slot[p] \in Proc
        /\ slot' = [slot EXCEPT ![p] = IF thread[p] THEN @ + 1 ELSE NPROC + 1]
        /\ UNCHANGED <<ref, state, pgdir, thread, ofile, pc, call, file, fd, rc, load, child, programs>>
    BY <1>4, <1>a DEF FdSkip, Runs, InheritInv, PcInv, Calling
  <2>1. TypeOK'
    BY <2>a, Ranges DEF TypeOK
  <2>2. PcInv'
    BY <2>a DEF PcInv
  <2>3. CopyInv'
    BY <2>a DEF CopyInv
  <2>4. StoreInv'
    BY <2>a DEF StoreInv
  <2>5. OwnInv'
    BY <2>a DEF OwnInv
  <2>6. InheritInv'
    BY <2>a DEF InheritInv, Empty
  <2>7. TurnsInv'
    BY <2>a DEF TurnsInv
  <2>8. CountInv'
    <3>1. ASSUME NEW f \in File
          PROVE  \/ Share(p, f)' = Share(p, f)
                 \/ programs = "turns" /\ Share(p, f)' <= Share(p, f)
      BY <2>a, Ranges DEF Share, Bit, Held, Early, Owed, TypeOK, OwnInv, Calling
    <3> QED
      BY <2>a, <3>1, Quiet DEF Others
  <2> QED
    BY <2>1, <2>2, <2>3, <2>4, <2>5, <2>6, <2>7, <2>8 DEF FileInv
<1>5. ASSUME NEW p \in Proc, FdStore(p)
      PROVE  FileInv'
  <2>a. /\ state[p] = "RUNNABLE" /\ pc[p] = "store"
        /\ thread[p] => programs = "turns"
        /\ slot[p] \in Proc /\ fd[p] \in Fd /\ ofile[slot[p]][fd[p]] = NoFile
        /\ file[p] \in File /\ file[p] # NoFile
        /\ ofile' \in [Proc -> [Fd -> File \cup {NoFile}]] /\ ofile'[slot[p]][fd[p]] = file[p]
        /\ \A r \in Proc \ {slot[p]} : ofile'[r] = ofile[r]
        /\ \A e \in Fd \ {fd[p]} : ofile'[slot[p]][e] = ofile[slot[p]][e]
        /\ rc' = [rc EXCEPT ![p] = fd[p]]
        /\ \/ slot[p] # p /\ pc' = [pc EXCEPT ![p] = "load"] /\ slot' = slot
           \/ /\ slot[p] = p /\ pc' = [pc EXCEPT ![p] = "fdalloc"]
              /\ slot' = [slot EXCEPT ![p] = IF thread[p] THEN @ + 1 ELSE NPROC + 1]
        /\ UNCHANGED <<ref, state, pgdir, thread, call, file, fd, load, child, programs>>
    <3>1. /\ state[p] = "RUNNABLE" /\ pc[p] = "store" /\ slot[p] \in Proc /\ fd[p] \in Fd
          /\ file[p] \in File /\ ofile[slot[p]][fd[p]] = NoFile
          /\ thread[p] => programs = "turns"
      BY <1>5, <1>a DEF FdStore, Runs, StoreInv, PcInv, InheritInv, Calling
    <3>2. ofile' = [ofile EXCEPT ![slot[p]][fd[p]] = file[p]]
      BY <1>5 DEF FdStore
    <3>3. /\ ofile' \in [Proc -> [Fd -> File \cup {NoFile}]] /\ ofile'[slot[p]][fd[p]] = file[p]
          /\ \A r \in Proc \ {slot[p]} : ofile'[r] = ofile[r]
          /\ \A e \in Fd \ {fd[p]} : ofile'[slot[p]][e] = ofile[slot[p]][e]
      BY <3>1, <3>2, SetDescriptor
    <3> QED
      BY <1>5, <3>1, <3>3, Ranges DEF FdStore, Goto
  <2>1. TypeOK'
    BY <2>a, Ranges DEF TypeOK, State, Pc
  <2>2. PcInv'
    BY <2>a, Ranges DEF TypeOK, PcInv, Calling
  <2>3. CopyInv'
    BY <2>a, Ranges DEF TypeOK, CopyInv
  <2>4. StoreInv'
    BY <2>a, <1>a DEF TypeOK, PcInv, StoreInv, OwnInv, InheritInv, TurnsInv, Calling
  <2>5. OwnInv'
    BY <2>a, Ranges DEF TypeOK, OwnInv, TurnsInv, Calling, Empty
  <2>6. InheritInv'
    BY <2>a, Ranges DEF TypeOK, CopyInv, OwnInv, InheritInv, Calling, Empty
  <2>7. TurnsInv'
    BY <2>a, Ranges DEF TypeOK, TurnsInv, Calling
  <2>8. CountInv'
    <3> SUFFICES ASSUME NEW f \in File
                 PROVE  IF programs = "turns" THEN ref'[f] >= Standing(f)' ELSE ref'[f] = Standing(f)'
      BY <2>a DEF CountInv
    <3>a. /\ Others(p) /\ slot[p] \in Proc /\ fd[p] \in Fd
          /\ \A r \in Proc, e \in Fd : r # slot[p] \/ e # fd[p] => ofile'[r][e] = ofile[r][e]
      BY <2>a DEF Others, TypeOK
    <3>1. /\ Standing(f) \in Int /\ Standing(f)' \in Int
          /\ Standing(f)' = Standing(f) + Bit(ofile'[slot[p]][fd[p]] = f) - Bit(ofile[slot[p]][fd[p]] = f)
                              + (Share(p, f)' - Share(p, f))
      BY <3>a, Ledger
    <3>2. ref[f] \in Nat /\ IF programs = "turns" THEN ref[f] >= Standing(f) ELSE ref[f] = Standing(f)
      BY DEF CountInv, TypeOK
    <3> QED
      BY <2>a, <3>1, <3>2, Ranges DEF Share, Bit, Held, Early, Owed, TypeOK, PcInv, OwnInv,
         Calling
  <2> QED
    BY <2>1, <2>2, <2>3, <2>4, <2>5, <2>6, <2>7, <2>8 DEF FileInv
<1>6. ASSUME NEW p \in Proc, RefLoad(p)
      PROVE  FileInv'
  <2>a. /\ state[p] = "RUNNABLE" /\ pc[p] = "load"
        /\ file[p] \in File
        /\ load' = [load EXCEPT ![p] = ref[file[p]]]
        /\ pc' = [pc EXCEPT ![p] = "inc"]
        /\ UNCHANGED <<ref, state, pgdir, thread, ofile, call, file, slot, fd, rc, child, programs>>
    BY <1>6 DEF RefLoad, Runs, Goto, PcInv, Calling
  <2>1. TypeOK'
    <3>1. ref[file[p]] \in Nat
      BY <2>a DEF TypeOK
    <3>2. load' \in [Proc -> Nat]
      BY <2>a, <3>1 DEF TypeOK
    <3> QED
      BY <2>a DEF TypeOK, Pc
  <2>2. PcInv'
    BY <2>a DEF PcInv, Calling
  <2>3. CopyInv'
    BY <2>a DEF CopyInv
  <2>4. StoreInv'
    BY <2>a DEF StoreInv
  <2>5. OwnInv'
    BY <2>a DEF OwnInv, Calling
  <2>6. InheritInv'
    BY <2>a DEF PcInv, OwnInv, InheritInv, Calling
  <2>7. TurnsInv'
    BY <2>a DEF TypeOK, TurnsInv, Calling
  <2>8. CountInv'
    <3>1. ASSUME NEW f \in File
          PROVE  \/ Share(p, f)' = Share(p, f)
                 \/ programs = "turns" /\ Share(p, f)' <= Share(p, f)
      BY <2>a DEF Share, Held, Early, Owed
    <3> QED
      BY <2>a, <3>1, Quiet DEF Others
  <2> QED
    BY <2>1, <2>2, <2>3, <2>4, <2>5, <2>6, <2>7, <2>8 DEF FileInv
<1>7. ASSUME NEW p \in Proc, RefInc(p)
      PROVE  FileInv'
  <2>a. /\ state[p] = "RUNNABLE" /\ pc[p] = "inc"
        /\ programs = "turns"
        /\ file[p] \in File /\ load[p] = ref[file[p]]
        /\ ref' \in [File -> Nat] /\ ref'[file[p]] = ref[file[p]] + 1
        /\ \A g \in File \ {file[p]} : ref'[g] = ref[g]
        /\ slot' = [slot EXCEPT ![p] = @ + 1]
        /\ pc' = [pc EXCEPT ![p] = "fdalloc"]
        /\ UNCHANGED <<state, pgdir, thread, ofile, call, file, fd, rc, load, child, programs>>
    BY <1>7, <1>a DEF TypeOK, RefInc, Runs, Goto, PcInv, OwnInv, InheritInv, TurnsInv,
       Calling
  <2>1. TypeOK'
    BY <2>a, Ranges DEF TypeOK, PcInv, Pc
  <2>2. PcInv'
    BY <2>a DEF TypeOK, PcInv, Calling
  <2>3. CopyInv'
    BY <2>a DEF CopyInv
  <2>4. StoreInv'
    BY <2>a DEF StoreInv
  <2>5. OwnInv'
    BY <2>a DEF OwnInv, Calling
  <2>6. InheritInv'
    BY <2>a DEF InheritInv
  <2>7. TurnsInv'
    BY <2>a DEF TypeOK, PcInv, TurnsInv
  <2>8. CountInv'
    <3> SUFFICES ASSUME NEW f \in File
                 PROVE  IF programs = "turns" THEN ref'[f] >= Standing(f)' ELSE ref'[f] = Standing(f)'
      BY <2>a DEF CountInv
    <3>a. /\ Others(p) /\ p \in Proc /\ 0 \in Fd
          /\ \A r \in Proc, e \in Fd : r # p \/ e # 0 => ofile'[r][e] = ofile[r][e]
      BY <2>a, Ranges DEF Others
    <3>1. /\ Standing(f) \in Int /\ Standing(f)' \in Int
          /\ Standing(f)' = Standing(f) + Bit(ofile'[p][0] = f) - Bit(ofile[p][0] = f)
                              + (Share(p, f)' - Share(p, f))
      BY <3>a, Ledger
    <3>2. ref[f] \in Nat /\ IF programs = "turns" THEN ref[f] >= Standing(f) ELSE ref[f] = Standing(f)
      BY DEF CountInv, TypeOK
    <3> QED
      BY <2>a, <3>1, <3>2, Ranges DEF Share, Bit, Held, Owed, TypeOK
  <2> QED
    BY <2>1, <2>2, <2>3, <2>4, <2>5, <2>6, <2>7, <2>8 DEF FileInv
<1>8. ASSUME NEW p \in Proc, FdEnd(p)
      PROVE  FileInv'
  <2>a. /\ state[p] = "RUNNABLE" /\ pc[p] = "fdalloc" /\ slot[p] = NPROC + 1
        /\ thread[p] => programs = "turns"
        /\ UNCHANGED <<ref, state, pgdir, thread, ofile>>
    BY <1>8, <1>a DEF FdEnd, Runs, InheritInv, PcInv, Calling
  <2>1. ASSUME rc[p] = NoFd, call[p] = "dup", Leave(p)
        PROVE  FileInv'
    <3>a. /\ rc[p] = NoFd /\ call[p] = "dup"
          /\ pc' = [pc EXCEPT ![p] = "user"] /\ call' = [call EXCEPT ![p] = "none"]
          /\ file' = [file EXCEPT ![p] = NoFile] /\ slot' = [slot EXCEPT ![p] = 0]
          /\ rc' = [rc EXCEPT ![p] = NoFd] /\ fd' = [fd EXCEPT ![p] = NoFd]
          /\ load' = [load EXCEPT ![p] = 0] /\ UNCHANGED <<child, programs>>
      BY <2>1 DEF Leave, Goto
    <3>1. TypeOK'
      BY <2>a, <3>a DEF TypeOK, Pc
    <3>2. PcInv'
      BY <2>a, <3>a DEF TypeOK, PcInv, Calling
    <3>3. CopyInv'
      BY <2>a, <3>a DEF CopyInv
    <3>4. StoreInv'
      BY <2>a, <3>a DEF StoreInv
    <3>5. OwnInv'
      BY <2>a, <3>a DEF TypeOK, OwnInv, Calling
    <3>6. InheritInv'
      BY <2>a, <3>a DEF InheritInv, Empty
    <3>7. TurnsInv'
      BY <2>a, <3>a DEF TypeOK, TurnsInv
    <3>8. CountInv'
      <4>1. ASSUME NEW f \in File
            PROVE  \/ Share(p, f)' = Share(p, f)
                   \/ programs = "turns" /\ Share(p, f)' <= Share(p, f)
        BY <2>a, <3>a DEF Share, Held, Early, Owed
      <4> QED
        BY <2>a, <3>a, <4>1, Quiet DEF Others
    <3> QED
      BY <3>1, <3>2, <3>3, <3>4, <3>5, <3>6, <3>7, <3>8 DEF FileInv
  <2>2. ASSUME NEW n \in Fd \cup {NoFd}, NEW l,
               rc' = [rc EXCEPT ![p] = n], pc' = [pc EXCEPT ![p] = l],
               n = rc[p] \/ (rc[p] = NoFd /\ thread[p]),
               \/ l = "fileclose" /\ n = NoFd /\ call[p] = "open"
               \/ l = "ret" /\ n # NoFd /\ call[p] = "open"
               \/ l = "filedup" /\ n # NoFd /\ call[p] = "dup",
               UNCHANGED <<call, file, slot, fd, load, child, programs>>
        PROVE  FileInv'
    <3>1. TypeOK'
      BY <2>a, <2>2 DEF TypeOK, Pc
    <3>2. PcInv'
      BY <2>a, <2>2 DEF TypeOK, PcInv, Calling
    <3>3. CopyInv'
      BY <2>a, <2>2 DEF CopyInv
    <3>4. StoreInv'
      BY <2>a, <2>2 DEF StoreInv
    <3>5. OwnInv'
      BY <2>a, <2>2 DEF OwnInv, Calling
    <3>6. InheritInv'
      BY <2>a, <2>2 DEF InheritInv, Empty
    <3>7. TurnsInv'
      BY <2>a, <2>2 DEF TurnsInv, Calling
    <3>8. CountInv'
      <4>1. ASSUME NEW f \in File
            PROVE  \/ Share(p, f)' = Share(p, f)
                   \/ programs = "turns" /\ Share(p, f)' <= Share(p, f)
        BY <2>a, <2>2, Ranges DEF Share, Bit, Held, Early, Owed
      <4> QED
        BY <2>a, <2>2, <4>1, Quiet DEF Others
    <3> QED
      BY <3>1, <3>2, <3>3, <3>4, <3>5, <3>6, <3>7, <3>8 DEF FileInv
  <2>3. call[p] \in {"open", "dup"} /\ rc = [rc EXCEPT ![p] = rc[p]]
        /\ rc[p] \in Fd \cup {NoFd} /\ 0 \in Fd /\ 0 # NoFd
    BY <2>a, Ranges DEF TypeOK, PcInv, Calling
  <2>4. CASE rc[p] # NoFd
    BY <1>8, <2>2, <2>3, <2>4 DEF FdEnd, Goto, locals
  <2>5. CASE rc[p] = NoFd
    BY <1>8, <2>1, <2>2, <2>3 DEF FdEnd, Goto, locals
  <2> QED
    BY <2>4, <2>5
<1>9. ASSUME NEW p \in Proc, Filedup(p)
      PROVE  FileInv'
  <2>a. /\ state[p] = "RUNNABLE" /\ pc[p] = "filedup"
        /\ file[p] \in File
        /\ ref' \in [File -> Nat] /\ ref'[file[p]] = ref[file[p]] + 1
        /\ \A g \in File \ {file[p]} : ref'[g] = ref[g]
        /\ pc' = [pc EXCEPT ![p] = "ret"]
        /\ UNCHANGED <<state, pgdir, thread, ofile, call, file, slot, fd, rc, load, child, programs>>
    <3>1. state[p] = "RUNNABLE" /\ pc[p] = "filedup" /\ file[p] \in File /\ ref[file[p]] \in Nat
      BY <1>9 DEF Filedup, Runs, PcInv, TypeOK, Calling
    <3>2. ref[file[p]] >= 1
      BY <1>a, <3>1, Counted
    <3>3. /\ ref' = [ref EXCEPT ![file[p]] = ref[file[p]] + 1]
          /\ pc' = [pc EXCEPT ![p] = "ret"]
          /\ UNCHANGED <<state, pgdir, thread, ofile, call, file, slot, fd, rc, load, child, programs>>
      BY <1>9, <3>1, <3>2 DEF Filedup, Goto, locals
    <3>4. ref[file[p]] + 1 \in Nat
      BY <3>1
    <3>5. /\ ref' \in [File -> Nat] /\ ref'[file[p]] = ref[file[p]] + 1
          /\ \A g \in File \ {file[p]} : ref'[g] = ref[g]
      BY <3>1, <3>3, <3>4, SetRef
    <3> QED
      BY <3>1, <3>3, <3>5
  <2>1. TypeOK'
    BY <2>a DEF TypeOK, Pc
  <2>2. PcInv'
    BY <2>a DEF PcInv
  <2>3. CopyInv'
    BY <2>a DEF CopyInv
  <2>4. StoreInv'
    BY <2>a DEF StoreInv
  <2>5. OwnInv'
    BY <2>a DEF OwnInv, Calling
  <2>6. InheritInv'
    BY <2>a DEF InheritInv, Empty
  <2>7. TurnsInv'
    <3>1. ref[file[p]] \in Nat /\ ref'[file[p]] >= 1
      BY <2>a DEF TypeOK
    <3> QED
      BY <2>a, <3>1 DEF TurnsInv, Calling
  <2>8. CountInv'
    <3> SUFFICES ASSUME NEW f \in File
                 PROVE  IF programs = "turns" THEN ref'[f] >= Standing(f)' ELSE ref'[f] = Standing(f)'
      BY <2>a DEF CountInv
    <3>a. /\ Others(p) /\ p \in Proc /\ 0 \in Fd
          /\ \A r \in Proc, e \in Fd : r # p \/ e # 0 => ofile'[r][e] = ofile[r][e]
      BY <2>a, Ranges DEF Others
    <3>1. /\ Standing(f) \in Int /\ Standing(f)' \in Int
          /\ Standing(f)' = Standing(f) + Bit(ofile'[p][0] = f) - Bit(ofile[p][0] = f)
                              + (Share(p, f)' - Share(p, f))
      BY <3>a, Ledger
    <3>2. ref[f] \in Nat /\ IF programs = "turns" THEN ref[f] >= Standing(f) ELSE ref[f] = Standing(f)
      BY DEF CountInv, TypeOK
    <3> QED
      BY <2>a, <3>1, <3>2, Ranges DEF Share, Bit, Held, Early, Owed, TypeOK, PcInv
  <2> QED
    BY <2>1, <2>2, <2>3, <2>4, <2>5, <2>6, <2>7, <2>8 DEF FileInv
<1>10. ASSUME NEW p \in Proc, Ret(p)
      PROVE  FileInv'
  <2>a. /\ state[p] = "RUNNABLE" /\ pc[p] = "ret"
        /\ pc' = [pc EXCEPT ![p] = "user"] /\ call' = [call EXCEPT ![p] = "none"]
        /\ file' = [file EXCEPT ![p] = NoFile] /\ slot' = [slot EXCEPT ![p] = 0]
        /\ rc' = [rc EXCEPT ![p] = NoFd] /\ fd' = [fd EXCEPT ![p] = NoFd]
        /\ load' = [load EXCEPT ![p] = 0]
        /\ UNCHANGED <<ref, state, pgdir, thread, ofile, child, programs>>
    BY <1>10 DEF Ret, Runs, Leave, Goto
  <2>1. TypeOK'
    BY <2>a, Ranges DEF TypeOK, Pc
  <2>2. PcInv'
    BY <2>a DEF TypeOK, PcInv, Calling
  <2>3. CopyInv'
    BY <2>a DEF CopyInv
  <2>4. StoreInv'
    BY <2>a DEF StoreInv
  <2>5. OwnInv'
    BY <2>a DEF TypeOK, OwnInv, Calling
  <2>6. InheritInv'
    BY <2>a DEF InheritInv, Empty
  <2>7. TurnsInv'
    BY <2>a DEF TypeOK, TurnsInv
  <2>8. CountInv'
    <3>1. ASSUME NEW f \in File
          PROVE  \/ Share(p, f)' = Share(p, f)
                 \/ programs = "turns" /\ Share(p, f)' <= Share(p, f)
      BY <2>a DEF Share, Held, Early, Owed, TypeOK
    <3> QED
      BY <2>a, <3>1, Quiet DEF Others
  <2> QED
    BY <2>1, <2>2, <2>3, <2>4, <2>5, <2>6, <2>7, <2>8 DEF FileInv
<1>11. ASSUME NEW p \in Proc, NEW d \in Fd, Close(p, d)
      PROVE  FileInv'
  <2>a. /\ state[p] = "RUNNABLE" /\ pc[p] = "user"
        /\ programs = "turns" => \A q \in Proc : pc[q] = "user"
        /\ ofile[p][d] \in File
        /\ ofile' \in [Proc -> [Fd -> File \cup {NoFile}]] /\ ofile'[p][d] = NoFile
        /\ \A r \in Proc \ {p} : ofile'[r] = ofile[r]
        /\ \A e \in Fd \ {d} : ofile'[p][e] = ofile[p][e]
        /\ file' = [file EXCEPT ![p] = ofile[p][d]]
        /\ pc' = [pc EXCEPT ![p] = "fileclose"]
        /\ UNCHANGED <<ref, state, pgdir, thread, call, slot, fd, rc, load, child, programs>>
    BY <1>11 DEF Close, Begins, Runs, Goto, TypeOK
  <2>1. TypeOK'
    BY <2>a DEF TypeOK, Pc
  <2>2. PcInv'
    BY <2>a DEF TypeOK, PcInv, Calling
  <2>3. CopyInv'
    BY <2>a DEF CopyInv
  <2>4. StoreInv'
    BY <2>a DEF PcInv, StoreInv, OwnInv, InheritInv, Calling
  <2>5. OwnInv'
    BY <2>a DEF OwnInv, Calling
  <2>6. InheritInv'
    BY <2>a, Ranges DEF TypeOK, CopyInv, InheritInv, Empty
  <2>7. TurnsInv'
    BY <2>a DEF PcInv, TurnsInv
  <2>8. CountInv'
    <3> SUFFICES ASSUME NEW f \in File
                 PROVE  IF programs = "turns" THEN ref'[f] >= Standing(f)' ELSE ref'[f] = Standing(f)'
      BY <2>a DEF CountInv
    <3>a. /\ Others(p) /\ p \in Proc /\ d \in Fd
          /\ \A r \in Proc, e \in Fd : r # p \/ e # d => ofile'[r][e] = ofile[r][e]
      BY <2>a DEF Others
    <3>1. /\ Standing(f) \in Int /\ Standing(f)' \in Int
          /\ Standing(f)' = Standing(f) + Bit(ofile'[p][d] = f) - Bit(ofile[p][d] = f)
                              + (Share(p, f)' - Share(p, f))
      BY <3>a, Ledger
    <3>2. ref[f] \in Nat /\ IF programs = "turns" THEN ref[f] >= Standing(f) ELSE ref[f] = Standing(f)
      BY DEF CountInv, TypeOK
    <3> QED
      BY <2>a, <3>1, <3>2, Ranges DEF Share, Bit, Held, Early, Owed, TypeOK, PcInv
  <2> QED
    BY <2>1, <2>2, <2>3, <2>4, <2>5, <2>6, <2>7, <2>8 DEF FileInv
<1>12. ASSUME NEW p \in Proc, Fileclose(p)
      PROVE  FileInv'
  <2>a. /\ state[p] = "RUNNABLE" /\ pc[p] = "fileclose"
        /\ file[p] \in File /\ ref[file[p]] >= 1
        /\ ref' \in [File -> Nat] /\ ref'[file[p]] = ref[file[p]] - 1
        /\ \A g \in File \ {file[p]} : ref'[g] = ref[g]
        /\ pc' = [pc EXCEPT ![p] = "user"] /\ call' = [call EXCEPT ![p] = "none"]
        /\ file' = [file EXCEPT ![p] = NoFile] /\ slot' = [slot EXCEPT ![p] = 0]
        /\ rc' = [rc EXCEPT ![p] = NoFd] /\ fd' = [fd EXCEPT ![p] = NoFd]
        /\ load' = [load EXCEPT ![p] = 0]
        /\ UNCHANGED <<state, pgdir, thread, ofile, child, programs>>
    <3>1. state[p] = "RUNNABLE" /\ pc[p] = "fileclose" /\ file[p] \in File /\ ref[file[p]] \in Nat
      BY <1>12 DEF Fileclose, Runs, PcInv, TypeOK
    <3>2. ref[file[p]] >= 1 /\ ref[file[p]] - 1 \in Nat
      BY <1>a, <3>1, Counted
    <3> QED
      BY <1>12, <3>1, <3>2, SetRef DEF Fileclose, Leave, Goto
  <2>1. TypeOK'
    BY <2>a, Ranges DEF TypeOK, Pc
  <2>2. PcInv'
    BY <2>a DEF TypeOK, PcInv, Calling
  <2>3. CopyInv'
    BY <2>a DEF CopyInv
  <2>4. StoreInv'
    BY <2>a DEF StoreInv
  <2>5. OwnInv'
    BY <2>a DEF OwnInv, Calling
  <2>6. InheritInv'
    BY <2>a DEF InheritInv, Empty
  <2>7. TurnsInv'
    BY <2>a DEF PcInv, TurnsInv
  <2>8. CountInv'
    <3> SUFFICES ASSUME NEW f \in File
                 PROVE  IF programs = "turns" THEN ref'[f] >= Standing(f)' ELSE ref'[f] = Standing(f)'
      BY <2>a DEF CountInv
    <3>a. /\ Others(p) /\ p \in Proc /\ 0 \in Fd
          /\ \A r \in Proc, e \in Fd : r # p \/ e # 0 => ofile'[r][e] = ofile[r][e]
      BY <2>a, Ranges DEF Others
    <3>1. /\ Standing(f) \in Int /\ Standing(f)' \in Int
          /\ Standing(f)' = Standing(f) + Bit(ofile'[p][0] = f) - Bit(ofile[p][0] = f)
                              + (Share(p, f)' - Share(p, f))
      BY <3>a, Ledger
    <3>2. ref[f] \in Nat /\ IF programs = "turns" THEN ref[f] >= Standing(f) ELSE ref[f] = Standing(f)
      BY DEF CountInv, TypeOK
    <3> QED
      BY <2>a, <3>1, <3>2 DEF Share, Bit, Held, Early, Owed, TypeOK, PcInv
  <2> QED
    BY <2>1, <2>2, <2>3, <2>4, <2>5, <2>6, <2>7, <2>8 DEF FileInv
<1>13. ASSUME NEW p \in Proc, NEW isThread \in BOOLEAN, Create(p, isThread)
      PROVE  FileInv'
  <2>m. Min({r \in Proc : state[r] = "UNUSED"}) \in {r \in Proc : state[r] = "UNUSED"}
    BY <1>13, MinIsIn, Ranges DEF Create
  <2>a. /\ state[p] = "RUNNABLE" /\ pc[p] = "user"
        /\ programs = "turns" => \A q \in Proc : pc[q] = "user"
        /\ \E q \in Proc : /\ state[q] = "UNUSED"
              /\ state' = [state EXCEPT ![q] = "EMBRYO"]
              /\ pgdir' = [pgdir EXCEPT ![q] = IF isThread THEN pgdir[p] ELSE q]
              /\ thread' = [thread EXCEPT ![q] = isThread]
              /\ child' = [child EXCEPT ![p] = q]
        /\ fd' = [fd EXCEPT ![p] = 0]
        /\ pc' = [pc EXCEPT ![p] = "copy"]
        /\ UNCHANGED <<ref, ofile, call, file, slot, rc, load, programs>>
    BY <1>13, <2>m DEF Create, Begins, Runs, Goto
  <2>1. TypeOK'
    BY <2>a, Ranges DEF TypeOK, State, Pc
  <2>2. PcInv'
    BY <2>a, Ranges DEF TypeOK, PcInv, Calling
  <2>3. CopyInv'
    BY <2>a DEF TypeOK, CopyInv
  <2>4. StoreInv'
    BY <2>a DEF StoreInv
  <2>5. OwnInv'
    BY <2>a DEF PcInv, OwnInv, Calling
  <2>6. InheritInv'
    BY <2>a DEF TypeOK, PcInv, InheritInv, Empty
  <2>7. TurnsInv'
    BY <2>a DEF PcInv, TurnsInv
  <2>8. CountInv'
    <3>1. ASSUME NEW f \in File
          PROVE  \/ Share(p, f)' = Share(p, f)
                 \/ programs = "turns" /\ Share(p, f)' <= Share(p, f)
      BY <2>a DEF Share, Held, Early, Owed
    <3> QED
      BY <2>a, <3>1, Quiet DEF Others
  <2> QED
    BY <2>1, <2>2, <2>3, <2>4, <2>5, <2>6, <2>7, <2>8 DEF FileInv
<1>14. ASSUME NEW p \in Proc, Copy(p)
      PROVE  FileInv'
  <2>a. /\ state[p] = "RUNNABLE" /\ pc[p] = "copy"
        /\ fd[p] \in Fd /\ child[p] \in Proc
        /\ state[child[p]] = "EMBRYO" /\ ofile[p][fd[p]] \in File \cup {NoFile}
        /\ ref' \in [File -> Nat] /\ ofile' \in [Proc -> [Fd -> File \cup {NoFile}]]
        /\ \A r \in Proc \ {child[p]} : ofile'[r] = ofile[r]
        /\ \A e \in Fd \ {fd[p]} : ofile'[child[p]][e] = ofile[child[p]][e]
        /\ \/ ofile[p][fd[p]] = NoFile /\ ref' = ref /\ ofile' = ofile
           \/ /\ ofile[p][fd[p]] \in File /\ ref'[ofile[p][fd[p]]] = ref[ofile[p][fd[p]]] + 1
              /\ \A g \in File \ {ofile[p][fd[p]]} : ref'[g] = ref[g]
              /\ ofile'[child[p]][fd[p]] = ofile[p][fd[p]]
        /\ fd' = [fd EXCEPT ![p] = @ + 1]
        /\ UNCHANGED <<state, pgdir, thread, pc, call, file, slot, rc, load, child, programs>>
    <3>1. /\ state[p] = "RUNNABLE" /\ pc[p] = "copy" /\ fd[p] \in Fd /\ child[p] \in Proc
          /\ state[child[p]] = "EMBRYO" /\ ofile[p][fd[p]] \in File \cup {NoFile}
      BY <1>14, Ranges DEF Copy, Runs, CopyInv, PcInv, TypeOK
    <3>2. CASE ofile[p][fd[p]] = NoFile
      BY SMTT(30), <1>14, <3>1 DEF Copy, TypeOK
    <3>3. CASE ofile[p][fd[p]] # NoFile
      <4>1. ofile[p][fd[p]] \in File /\ ref[ofile[p][fd[p]]] + 1 \in Nat
        BY <3>1, <3>3 DEF TypeOK
      <4>2. /\ ref' = [ref EXCEPT ![ofile[p][fd[p]]] = ref[ofile[p][fd[p]]] + 1]
            /\ ofile' = [ofile EXCEPT ![child[p]][fd[p]] = ofile[p][fd[p]]]
        BY <1>14, <3>3 DEF Copy
      <4>3. /\ ofile' \in [Proc -> [Fd -> File \cup {NoFile}]]
            /\ ofile'[child[p]][fd[p]] = ofile[p][fd[p]]
            /\ \A r \in Proc \ {child[p]} : ofile'[r] = ofile[r]
            /\ \A e \in Fd \ {fd[p]} : ofile'[child[p]][e] = ofile[child[p]][e]
        <5> DEFINE v == ofile[p][fd[p]]
        <5> DEFINE s == child[p]
        <5> DEFINE d == fd[p]
        <5>1. s \in Proc /\ d \in Fd /\ v \in File \cup {NoFile} /\ ofile' = [ofile EXCEPT ![s][d] = v]
          BY <3>1, <4>2
        <5> HIDE DEF s, d, v
        <5>2. /\ ofile' \in [Proc -> [Fd -> File \cup {NoFile}]] /\ ofile'[s][d] = v
              /\ \A r \in Proc \ {s} : ofile'[r] = ofile[r]
              /\ \A e \in Fd \ {d} : ofile'[s][e] = ofile[s][e]
          BY <5>1, SetDescriptor
        <5> QED
          BY <5>2 DEF s, d, v
      <4>4. /\ ref' \in [File -> Nat] /\ ref'[ofile[p][fd[p]]] = ref[ofile[p][fd[p]]] + 1
            /\ \A g \in File \ {ofile[p][fd[p]]} : ref'[g] = ref[g]
        BY <4>1, <4>2, SetRef
      <4> QED
        BY <1>14, <3>1, <4>3, <4>4 DEF Copy
    <3> QED
      BY <3>2, <3>3
  <2>1. TypeOK'
    <3>1. ASSUME NEW d \in Fd PROVE d + 1 \in Fd \cup {NOFILE}
      BY FileTableAssumption DEF Fd
    <3>2. fd[p] \in Fd
      BY <2>a
    <3>3. fd[p] + 1 \in Fd \cup {NOFILE}
      BY <3>1, <3>2
    <3> QED
      BY <2>a, <3>3 DEF TypeOK
  <2>2. PcInv'
    BY <2>a, Ranges DEF PcInv
  <2>3. CopyInv'
    BY <2>a DEF CopyInv
  <2>4. StoreInv'
    BY <2>a, <1>a DEF TypeOK, PcInv, StoreInv, OwnInv, InheritInv, TurnsInv, Calling
  <2>5. OwnInv'
    BY <2>a, <1>a, Ranges DEF PcInv, CopyInv, OwnInv
  <2>6. InheritInv'
    BY SMTT(30), <2>a, Ranges DEF TypeOK, PcInv, CopyInv, StoreInv, OwnInv, InheritInv, TurnsInv,
       Calling, Empty
  <2>7. TurnsInv'
    BY <2>a DEF TypeOK, PcInv, OwnInv, TurnsInv
  <2>8. CountInv'
    <3> SUFFICES ASSUME NEW f \in File
                 PROVE  IF programs = "turns" THEN ref'[f] >= Standing(f)' ELSE ref'[f] = Standing(f)'
      BY <2>a DEF CountInv
    <3>a. /\ Others(p) /\ child[p] \in Proc /\ fd[p] \in Fd
          /\ \A r \in Proc, e \in Fd : r # child[p] \/ e # fd[p] => ofile'[r][e] = ofile[r][e]
      BY <2>a DEF Others
    <3>1. /\ Standing(f) \in Int /\ Standing(f)' \in Int
          /\ Standing(f)' = Standing(f) + Bit(ofile'[child[p]][fd[p]] = f) - Bit(ofile[child[p]][fd[p]] = f)
                              + (Share(p, f)' - Share(p, f))
      BY <3>a, Ledger
    <3>2. ref[f] \in Nat /\ IF programs = "turns" THEN ref[f] >= Standing(f) ELSE ref[f] = Standing(f)
      BY DEF CountInv, TypeOK
    <3>3. Share(p, f) = 0 /\ Share(p, f)' = 0
      BY <2>a DEF PcInv, Share, Bit, Held, Early, Owed
    <3>4. Standing(f)' = Standing(f) + Bit(ofile'[child[p]][fd[p]] = f)
                           - Bit(ofile[child[p]][fd[p]] = f)
      BY <3>1, <3>3 DEF Bit
    <3>5. programs = "inherit" => ofile[child[p]][fd[p]] = NoFile
      <4>1. fd[p] \in Fd /\ fd[p] >= fd[p]
        <5>1. fd[p] \in Fd
          BY <2>a
        <5> QED
          BY <5>1 DEF Fd
      <4> QED
        BY <2>a, <4>1 DEF InheritInv
    <3>6. CASE ofile[p][fd[p]] = NoFile
      <4>1. ofile' = ofile /\ ref' = ref
        BY <2>a, <3>6, Ranges
      <4>2. Bit(ofile[child[p]][fd[p]] = f) \in Int
        BY DEF Bit
      <4> QED
        BY <2>a, <3>1, <3>2, <3>4, <4>1, <4>2
    <3>7. CASE ofile[p][fd[p]] \in File
      <4>1. /\ Bit(ofile'[child[p]][fd[p]] = f) = Bit(ofile[p][fd[p]] = f)
            /\ ref'[f] = ref[f] + Bit(ofile[p][fd[p]] = f)
        BY <2>a, <3>7, Ranges DEF Bit
      <4>2. Bit(ofile[p][fd[p]] = f) \in Int /\ Bit(ofile[child[p]][fd[p]] = f) \in 0..1
        BY DEF Bit
      <4>3. programs = "inherit" => Bit(ofile[child[p]][fd[p]] = f) = 0
        BY <3>5, Ranges DEF Bit
      <4> QED
        BY <1>a, <3>1, <3>2, <3>4, <4>1, <4>2, <4>3
    <3> QED
      BY <2>a, <3>6, <3>7
  <2> QED
    BY <2>1, <2>2, <2>3, <2>4, <2>5, <2>6, <2>7, <2>8 DEF FileInv
<1>15. ASSUME NEW p \in Proc, Created(p)
      PROVE  FileInv'
  <2>a. /\ state[p] = "RUNNABLE" /\ pc[p] = "copy"
        /\ child[p] \in Proc /\ state[child[p]] = "EMBRYO" /\ fd[p] = NOFILE
        /\ state' = [state EXCEPT ![child[p]] = "RUNNABLE"]
        /\ pc' = [pc EXCEPT ![p] = "user"]
        /\ child' = [child EXCEPT ![p] = 0] /\ fd' = [fd EXCEPT ![p] = NoFd]
        /\ UNCHANGED <<ref, pgdir, thread, ofile, call, file, slot, rc, load, programs>>
    <3>1. /\ state[p] = "RUNNABLE" /\ pc[p] = "copy" /\ child[p] \in Proc
          /\ state[child[p]] = "EMBRYO" /\ pc[child[p]] = "user" /\ p # child[p]
      BY <1>15 DEF Created, Runs, CopyInv, PcInv
    <3>2. [pc EXCEPT ![p] = "user", ![child[p]] = "user"] = [pc EXCEPT ![p] = "user"]
      BY <3>1 DEF TypeOK
    <3> QED
      BY <1>15, <3>1 DEF Created
  <2>1. TypeOK'
    BY <2>a, Ranges DEF TypeOK, PcInv
  <2>2. PcInv'
    BY SMTT(30), <2>a, <1>a DEF TypeOK, PcInv
  <2>3. CopyInv'
    BY <2>a DEF TypeOK, CopyInv
  <2>4. StoreInv'
    BY <2>a DEF StoreInv
  <2>5. OwnInv'
    BY <2>a, Ranges DEF TypeOK, PcInv, OwnInv
  <2>6. InheritInv'
    BY <2>a DEF TypeOK, InheritInv, Empty
  <2>7. TurnsInv'
    BY <2>a DEF PcInv, TurnsInv
  <2>8. CountInv'
    <3>1. ASSUME NEW f \in File
          PROVE  \/ Share(p, f)' = Share(p, f)
                 \/ programs = "turns" /\ Share(p, f)' <= Share(p, f)
      BY <2>a DEF Share, Held, Early, Owed
    <3> QED
      BY <2>a, <3>1, Quiet DEF Others
  <2> QED
    BY <2>1, <2>2, <2>3, <2>4, <2>5, <2>6, <2>7, <2>8 DEF FileInv
<1>16. ASSUME NEW p \in Proc, Exit(p)
      PROVE  FileInv'
  <2>a. /\ state[p] = "RUNNABLE" /\ pc[p] = "user"
        /\ programs = "turns" => \A q \in Proc : pc[q] = "user"
        /\ pc' = [pc EXCEPT ![p] = "exit"] /\ fd' = [fd EXCEPT ![p] = 0]
        /\ UNCHANGED <<ref, state, pgdir, thread, ofile, call, file, slot, rc, load, child, programs>>
    BY <1>16 DEF Exit, Begins, Runs, Goto
  <2>1. TypeOK'
    BY <2>a, Ranges DEF TypeOK, Pc
  <2>2. PcInv'
    BY <2>a, Ranges DEF TypeOK, PcInv, Calling
  <2>3. CopyInv'
    BY <2>a DEF CopyInv
  <2>4. StoreInv'
    BY <2>a DEF StoreInv
  <2>5. OwnInv'
    BY <2>a DEF OwnInv, Calling
  <2>6. InheritInv'
    BY <2>a, Ranges DEF TypeOK, InheritInv, Empty
  <2>7. TurnsInv'
    BY <2>a DEF PcInv, TurnsInv
  <2>8. CountInv'
    <3>1. ASSUME NEW f \in File
          PROVE  \/ Share(p, f)' = Share(p, f)
                 \/ programs = "turns" /\ Share(p, f)' <= Share(p, f)
      BY <2>a DEF Share, Held, Early, Owed
    <3> QED
      BY <2>a, <3>1, Quiet DEF Others
  <2> QED
    BY <2>1, <2>2, <2>3, <2>4, <2>5, <2>6, <2>7, <2>8 DEF FileInv
<1>17. ASSUME NEW p \in Proc, ExitClose(p)
      PROVE  FileInv'
  <2>a. /\ state[p] = "RUNNABLE" /\ pc[p] = "exit"
        /\ fd[p] \in Fd
        /\ ref' \in [File -> Nat] /\ ofile' \in [Proc -> [Fd -> File \cup {NoFile}]]
        /\ \A r \in Proc \ {p} : ofile'[r] = ofile[r]
        /\ \A e \in Fd \ {fd[p]} : ofile'[p][e] = ofile[p][e]
        /\ \/ ofile[p][fd[p]] = NoFile /\ ref' = ref /\ ofile' = ofile
           \/ /\ ofile[p][fd[p]] \in File /\ ref'[ofile[p][fd[p]]] = ref[ofile[p][fd[p]]] - 1
              /\ \A g \in File \ {ofile[p][fd[p]]} : ref'[g] = ref[g]
              /\ ofile'[p][fd[p]] = NoFile
        /\ fd' = [fd EXCEPT ![p] = @ + 1]
        /\ UNCHANGED <<state, pgdir, thread, pc, call, file, slot, rc, load, child, programs>>
    <3>1. /\ state[p] = "RUNNABLE" /\ pc[p] = "exit" /\ fd[p] \in Fd
          /\ ofile[p][fd[p]] \in File \cup {NoFile}
      BY <1>17, Ranges DEF ExitClose, Runs, PcInv, TypeOK
    <3>2. CASE ofile[p][fd[p]] = NoFile
      BY <1>17, <3>1, <3>2 DEF ExitClose, TypeOK
    <3>3. CASE ofile[p][fd[p]] # NoFile
      <4>1. ofile[p][fd[p]] \in File /\ ref[ofile[p][fd[p]]] \in Nat
        BY <3>1, <3>3 DEF TypeOK
      <4>2. ref[ofile[p][fd[p]]] >= 1 /\ ref[ofile[p][fd[p]]] - 1 \in Nat
        BY <1>a, <3>1, <3>3, <4>1, Counted
      <4> QED
        BY <1>17, <3>1, <3>3, <4>1, <4>2, SetRef, SetDescriptor DEF ExitClose
    <3> QED
      BY <3>2, <3>3
  <2>1. TypeOK'
    BY <2>a, Ranges DEF TypeOK, PcInv
  <2>2. PcInv'
    BY <2>a, Ranges DEF PcInv
  <2>3. CopyInv'
    BY <2>a DEF CopyInv
  <2>4. StoreInv'
    BY <2>a DEF PcInv, StoreInv, OwnInv, InheritInv, TurnsInv, Calling
  <2>5. OwnInv'
    BY <2>a, <1>a, Ranges DEF TypeOK, PcInv, CopyInv, StoreInv, OwnInv, InheritInv, TurnsInv, Calling, Empty
  <2>6. InheritInv'
    BY <2>a, <1>a, Ranges DEF TypeOK, PcInv, CopyInv, StoreInv, OwnInv, InheritInv, TurnsInv, Calling, Empty
  <2>7. TurnsInv'
    BY <2>a DEF PcInv, TurnsInv
  <2>8. CountInv'
    <3> SUFFICES ASSUME NEW f \in File
                 PROVE  IF programs = "turns" THEN ref'[f] >= Standing(f)' ELSE ref'[f] = Standing(f)'
      BY <2>a DEF CountInv
    <3>a. /\ Others(p) /\ p \in Proc /\ fd[p] \in Fd
          /\ \A r \in Proc, e \in Fd : r # p \/ e # fd[p] => ofile'[r][e] = ofile[r][e]
      BY <2>a DEF Others
    <3>1. /\ Standing(f) \in Int /\ Standing(f)' \in Int
          /\ Standing(f)' = Standing(f) + Bit(ofile'[p][fd[p]] = f) - Bit(ofile[p][fd[p]] = f)
                              + (Share(p, f)' - Share(p, f))
      BY <3>a, Ledger
    <3>2. ref[f] \in Nat /\ IF programs = "turns" THEN ref[f] >= Standing(f) ELSE ref[f] = Standing(f)
      BY DEF CountInv, TypeOK
    <3> QED
      BY <2>a, <3>1, <3>2, Ranges DEF Share, Bit, Held, Early, Owed, NoFile
  <2> QED
    BY <2>1, <2>2, <2>3, <2>4, <2>5, <2>6, <2>7, <2>8 DEF FileInv
<1>18. ASSUME NEW p \in Proc, Exited(p)
      PROVE  FileInv'
  <2>a. /\ state[p] = "RUNNABLE" /\ pc[p] = "exit"
        /\ fd[p] = NOFILE
        /\ state' = [state EXCEPT ![p] = "ZOMBIE"]
        /\ pc' = [pc EXCEPT ![p] = "user"] /\ fd' = [fd EXCEPT ![p] = NoFd]
        /\ UNCHANGED <<ref, pgdir, thread, ofile, call, file, slot, rc, load, child, programs>>
    BY <1>18 DEF Exited, Runs, Goto
  <2>1. TypeOK'
    BY <2>a DEF TypeOK, State, Pc
  <2>2. PcInv'
    BY <2>a DEF TypeOK, PcInv, Calling
  <2>3. CopyInv'
    BY <2>a DEF CopyInv
  <2>4. StoreInv'
    BY <2>a DEF StoreInv
  <2>5. OwnInv'
    BY <2>a DEF OwnInv, Calling
  <2>6. InheritInv'
    <3>1. programs = "inherit" => \A d \in Fd : ofile[p][d] = NoFile
      BY <2>a, Ranges DEF InheritInv
    <3> QED
      BY <2>a, <3>1 DEF InheritInv, Empty
  <2>7. TurnsInv'
    BY <2>a DEF PcInv, TurnsInv
  <2>8. CountInv'
    <3>1. ASSUME NEW f \in File
          PROVE  \/ Share(p, f)' = Share(p, f)
                 \/ programs = "turns" /\ Share(p, f)' <= Share(p, f)
      BY <2>a DEF Share, Held, Early, Owed
    <3> QED
      BY <2>a, <3>1, Quiet DEF Others
  <2> QED
    BY <2>1, <2>2, <2>3, <2>4, <2>5, <2>6, <2>7, <2>8 DEF FileInv
<1>19. ASSUME NEW p \in Proc, Reap(p)
      PROVE  FileInv'
  <2>a. /\ state[p] = "ZOMBIE" /\ pc[p] = "user"
        /\ state' = [state EXCEPT ![p] = "UNUSED"]
        /\ UNCHANGED <<ref, pgdir, thread, ofile, pc, call, file, slot, fd, rc, load, child, programs>>
    BY <1>19 DEF Reap, locals, PcInv
  <2>1. TypeOK'
    BY <2>a DEF TypeOK, State
  <2>2. PcInv'
    BY <2>a DEF PcInv
  <2>3. CopyInv'
    BY <2>a DEF CopyInv
  <2>4. StoreInv'
    BY <2>a DEF StoreInv
  <2>5. OwnInv'
    BY <2>a DEF OwnInv
  <2>6. InheritInv'
    BY <2>a DEF InheritInv, Empty
  <2>7. TurnsInv'
    BY <2>a DEF TurnsInv
  <2>8. CountInv'
    <3>1. ASSUME NEW f \in File
          PROVE  \/ Share(p, f)' = Share(p, f)
                 \/ programs = "turns" /\ Share(p, f)' <= Share(p, f)
      BY <2>a DEF Share, Held, Early, Owed
    <3> QED
      BY <2>a, <3>1, Quiet DEF Others
  <2> QED
    BY <2>1, <2>2, <2>3, <2>4, <2>5, <2>6, <2>7, <2>8 DEF FileInv
<1>20. CASE UNCHANGED vars
  <2>1. TypeOK' /\ PcInv' /\ CopyInv' /\ StoreInv' /\ OwnInv' /\ InheritInv' /\ TurnsInv'
    BY <1>20 DEF vars, TypeOK, PcInv, CopyInv, StoreInv, OwnInv, InheritInv, TurnsInv, Empty
  <2>2. CountInv'
    BY <1>20 DEF vars, CountInv, Standing, InFlight, Held, Early, Owed
  <2> QED
    BY <2>1, <2>2 DEF FileInv
<1> QED
  BY <1>1, <1>2, <1>3, <1>4, <1>5, <1>6, <1>7, <1>8, <1>9, <1>10, <1>11, <1>12, <1>13, <1>14,
     <1>15, <1>16, <1>17, <1>18, <1>19, <1>20 DEF Next

-----------------------------------------------------------------------------
(* The theorems *)

\* The inductive invariant of the descriptors and the file table.
THEOREM FileInvariant == ASSUME "any" \notin Programs PROVE Spec => []FileInv
<1>1. Init => FileInv
  BY InitFileInv
<1>2. FileInv /\ [Next]_vars => FileInv'
  BY NextFileInv
<1> QED
  BY <1>1, <1>2, PTL DEF Spec

\* The count of a file is the number of descriptors that stand for it when
\* threads only inherit their files, no less when system calls take turns, and
\* filedup() and fileclose() never panic (file.c, fdalloc of sysfile.c).
THEOREM CountsAreKept == ASSUME "any" \notin Programs PROVE Spec => []RefsCounted
<1>1. FileInv => RefsCounted
  BY DEF FileInv, CountInv, PcInv, RefsCounted
<1> QED
  BY <1>1, FileInvariant, PTL

\* open() and dup() return a descriptor of the file they were about, in programs
\* whose threads inherit their files and open none, and of programs that make one
\* system call at a time in every process that is no thread; and of the first
\* kind no dead process holds a file open (fdalloc of sysfile.c, exit of proc.c).
THEOREM DescriptorsAreKept == ASSUME "any" \notin Programs PROVE Spec => []DescriptorsRight
<1>1. FileInv => DescriptorsRight
  <2> SUFFICES ASSUME FileInv PROVE DescriptorsRight
    OBVIOUS
  <2>1. programs # "turns" => programs = "inherit"
    BY FileTableAssumption DEF FileInv, TypeOK
  <2>2. FdNamesFile
    <3> SUFFICES ASSUME NEW p \in Proc, pc[p] = "ret", programs = "turns" => ~thread[p]
                 PROVE  ofile[p][rc[p]] = file[p]
      BY DEF FdNamesFile
    <3>1. pc[p] \in Calling
      BY DEF Calling
    <3>2. ~thread[p]
      BY <2>1, <3>1 DEF FileInv, PcInv, InheritInv, Calling
    <3> QED
      BY <3>1, <3>2 DEF FileInv, PcInv, OwnInv
  <2>3. DeadHoldNothing
    BY <2>1 DEF FileInv, InheritInv, DeadHoldNothing
  <2> QED
    BY <2>2, <2>3 DEF FileInv, DescriptorsRight
<1> QED
  BY <1>1, FileInvariant, PTL

-----------------------------------------------------------------------------
(* Pipes *)

\* Who is inside the pipe has its end open.
HoldsInv ==
    /\ readopen = (holds \cap Reader # {})
    /\ writeopen = (holds \cap Writer # {})
    /\ \A p \in User : at[p] # "idle" => p \in holds

Sleeps(p) == at[p] \in {"nap", "asleep"}

\* A writer goes to sleep on a full pipe, a reader on an empty one, and never
\* both: nobody changes the pipe before the sleeper has let go of p->lock, and
\* who changes it afterwards wakes the sleeper.
SleepInv ==
    /\ Used <= PIPESIZE
    /\ \A w \in Writer : Sleeps(w) => Used = PIPESIZE /\ readopen
    /\ \A r \in Reader : Sleeps(r) => writeopen /\ (Used = 0 \/ gaveup)
    /\ \A r \in Reader, w \in Writer : ~(Sleeps(r) /\ Sleeps(w))

PipeInv == PipeTypeOK /\ HoldsInv /\ SleepInv

-----------------------------------------------------------------------------
(* Remainders.  The provers know little of %: it is used by these lemmas only. *)

Mod(a, n) == a % n


\* The remainder and the quotient of a division by n.
LEMMA ModRange ==
  ASSUME NEW a \in Int, NEW n \in Nat \ {0}
  PROVE Mod(a, n) \in 0..n-1
BY DEF Mod

LEMMA DivMod ==
  ASSUME NEW a \in Int, NEW n \in Nat \ {0}
  PROVE \E q \in Int : a = q * n + Mod(a, n)
<1>1. a = (a \div n) * n + Mod(a, n) /\ a \div n \in Int
  BY DEF Mod
<1> QED
  BY <1>1
\* A multiple of n that is not 0 is n at least, or -n at most.
LEMMA Multiple ==
  ASSUME NEW n \in Nat \ {0}, NEW d \in Int, d # 0
  PROVE d * n >= n \/ d * n <= -n
<1>1. CASE d >= 1
  <2>1. (d - 1) * n >= 0
    BY <1>1
  <2> QED
    BY <2>1
<1>2. CASE d <= -1
  <2>1. (-1 - d) * n >= 0
    BY <1>2
  <2> QED
    BY <2>1
<1> QED
  BY <1>1, <1>2
\* The remainder is the only number below n that differs by a multiple of n.
LEMMA ModIs ==
  ASSUME NEW a \in Int, NEW n \in Nat \ {0}, NEW q \in Int, NEW r \in 0..n-1, a = q * n + r
  PROVE Mod(a, n) = r
<1>1. PICK p \in Int : a = p * n + Mod(a, n)
  BY DivMod
<1>2. Mod(a, n) \in 0..n-1
  BY ModRange
<1> DEFINE s == Mod(a, n)
<1> HIDE DEF s
<1>3. (p - q) * n = p * n - q * n
  OBVIOUS
<1>4. p - q # 0 => (p - q) * n >= n \/ (p - q) * n <= -n
  BY Multiple
<1>5. s \in 0..n-1 /\ a = p * n + s
  BY <1>1, <1>2 DEF s
<1>6. p * n - q * n = r - s
  BY <1>5
<1>7. p - q = 0
  <2>1. s \in Int /\ r - s < n /\ r - s > -n /\ (p - q) * n = r - s
    BY <1>3, <1>5, <1>6
  <2> QED
    BY <1>4, <2>1
<1>8. r = s
  <2>1. p = q
    BY <1>7
  <2>2. p * n = q * n /\ p * n \in Int
    BY <2>1
  <2> QED
    BY <1>5, <1>6, <2>2
<1> QED
  BY <1>8 DEF s

\* Adding a multiple changes nothing.
LEMMA ModShift ==
  ASSUME NEW a \in Int, NEW n \in Nat \ {0}, NEW m \in Int, Mod(m, n) = 0
  PROVE Mod(a + m, n) = Mod(a, n) /\ Mod(a - m, n) = Mod(a, n)
<1>1. PICK p \in Int : a = p * n + Mod(a, n)
  BY DivMod
<1>2. PICK q \in Int : m = q * n + Mod(m, n)
  BY DivMod
<1>3. Mod(a, n) \in 0..n-1
  BY ModRange
<1> DEFINE r == Mod(a, n)
<1>4. r \in 0..n-1 /\ a = p * n + r /\ m = q * n
  BY <1>1, <1>2, <1>3
<1> HIDE DEF r
<1>5. a + m = (p + q) * n + r /\ a - m = (p - q) * n + r
  BY <1>4
<1> DEFINE s == p + q
            t == p - q
<1>6. s \in Int /\ t \in Int /\ a + m = s * n + r /\ a - m = t * n + r
  BY <1>5
<1> HIDE DEF s, t
<1>7. Mod(a + m, n) = r
  BY <1>4, <1>6, ModIs
<1>8. Mod(a - m, n) = r
  BY <1>4, <1>6, ModIs
<1> QED
  BY <1>7, <1>8 DEF r

\* Reducing first changes nothing.
LEMMA ModOfSum ==
  ASSUME NEW a \in Int, NEW b \in Int, NEW n \in Nat \ {0}
  PROVE Mod(Mod(a, n) + b, n) = Mod(a + b, n)
<1>1. PICK p \in Int : a = p * n + Mod(a, n)
  BY DivMod
<1> DEFINE r == Mod(a, n)
<1>2. r \in Int /\ a = p * n + r
  BY <1>1, ModRange
<1> HIDE DEF r
<1>3. Mod(p * n, n) = 0
  <2>1. p * n \in Int /\ p * n = p * n + 0 /\ 0 \in 0..n-1
    OBVIOUS
  <2> QED
    BY <2>1, ModIs
<1> DEFINE m == p * n
<1>4. m \in Int /\ Mod(m, n) = 0 /\ a = m + r
  BY <1>2, <1>3
<1> HIDE DEF m
<1>5. (r + b) + m = a + b /\ r + b \in Int
  BY <1>2, <1>4
<1>6. Mod((r + b) + m, n) = Mod(r + b, n)
  BY <1>4, <1>5, ModShift
<1> QED
  BY <1>5, <1>6 DEF r

\* Within one turn of the ring.
LEMMA ModNear ==
  ASSUME NEW n \in Nat \ {0}, NEW a \in Int
  PROVE /\ a \in 0..n-1 => Mod(a, n) = a
        /\ a \in n..2*n-1 => Mod(a, n) = a - n
        /\ a \in -n..-1 => Mod(a, n) = a + n
<1>1. ASSUME a \in 0..n-1 PROVE Mod(a, n) = a
  <2>1. a = 0 * n + a /\ 0 \in Int
    BY <1>1
  <2> QED
    BY <1>1, <2>1, ModIs
<1>2. ASSUME a \in n..2*n-1 PROVE Mod(a, n) = a - n
  <2>1. a - n \in 0..n-1 /\ a = 1 * n + (a - n) /\ 1 \in Int
    BY <1>2
  <2> QED
    BY <2>1, ModIs
<1>3. ASSUME a \in -n..-1 PROVE Mod(a, n) = a + n
  <2>1. a + n \in 0..n-1 /\ a = (-1) * n + (a + n) /\ -1 \in Int
    BY <1>3
  <2> QED
    BY <2>1, ModIs
<1> QED
  BY <1>1, <1>2, <1>3

LEMMA ModOfDifference ==
  ASSUME NEW a \in Int, NEW b \in Int, NEW n \in Nat \ {0}
  PROVE Mod(a - Mod(b, n), n) = Mod(a - b, n)
<1>1. PICK p \in Int : b = p * n + Mod(b, n)
  BY DivMod
<1> DEFINE r == Mod(b, n)
            m == p * n
<1>2. r \in Int /\ b = m + r /\ m \in Int
  BY <1>1, ModRange
<1>3. Mod(m, n) = 0
  <2>1. m = p * n + 0 /\ 0 \in 0..n-1
    OBVIOUS
  <2> QED
    BY <1>2, <2>1, ModIs
<1> HIDE DEF r, m
<1>4. (a - b) + m = a - r /\ a - b \in Int
  BY <1>2
<1>5. Mod((a - b) + m, n) = Mod(a - b, n)
  BY <1>2, <1>3, <1>4, ModShift
<1> QED
  BY <1>4, <1>5 DEF r

-----------------------------------------------------------------------------
(* The counters *)

\* What is between two counters, one at most a turn behind the other.
LEMMA Between ==
  ASSUME PipeAssumption, NEW a \in 0..Word-1, NEW b \in 0..Word-1
  PROVE /\ Mod(a - b, Word) \in 0..Word-1
        /\ Mod(a - b, Word) = IF a >= b THEN a - b ELSE a - b + Word
<1>1. Word \in Nat \ {0} /\ a - b \in Int
  BY DEF PipeAssumption
<1>2. Mod(a - b, Word) \in 0..Word-1
  BY <1>1, ModRange
<1>3. a >= b => a - b \in 0..Word-1
  BY <1>1
<1>4. a < b => a - b \in -Word..-1
  BY <1>1
<1>5. (a >= b => Mod(a - b, Word) = a - b) /\ (a < b => Mod(a - b, Word) = a - b + Word)
  BY <1>1, <1>3, <1>4, ModNear
<1> QED
  BY <1>1, <1>2, <1>5

\* Advancing the write counter adds to what is between, advancing the read
\* counter takes from it.
LEMMA Advance ==
  ASSUME PipeAssumption, NEW a \in 0..Word-1, NEW b \in 0..Word-1, NEW k \in Nat
  PROVE /\ Mod(a - b, Word) + k < Word
             => Mod(Mod(a + k, Word) - b, Word) = Mod(a - b, Word) + k
        /\ k <= Mod(a - b, Word)
             => Mod(a - Mod(b + k, Word), Word) = Mod(a - b, Word) - k
        /\ Mod(a + k, Word) \in 0..Word-1
<1> DEFINE u == Mod(a - b, Word)
<1>a. Word \in Nat \ {0}
  BY DEF PipeAssumption
<1>b. u \in 0..Word-1
  BY Between
<1>c. Mod(a + k, Word) \in 0..Word-1
  BY <1>a, ModRange
<1>1. Word \in Nat \ {0} /\ u \in 0..Word-1 /\ Mod(a + k, Word) \in 0..Word-1
  BY <1>a, <1>b, <1>c
<1>2. Mod(Mod(a + k, Word) - b, Word) = Mod(u + k, Word)
  <2>1. Mod(Mod(a + k, Word) + (-b), Word) = Mod((a + k) + (-b), Word)
    BY <1>1, ModOfSum
  <2>2. Mod(Mod(a - b, Word) + k, Word) = Mod((a - b) + k, Word)
    BY <1>1, ModOfSum
  <2>3. (a + k) + (-b) = (a - b) + k /\ Mod(a + k, Word) + (-b) = Mod(a + k, Word) - b
    BY <1>1
  <2> QED
    BY <2>1, <2>2, <2>3
<1>3. Mod(a - Mod(b + k, Word), Word) = Mod(u - k, Word)
  <2>1. Mod(a - Mod(b + k, Word), Word) = Mod(a - (b + k), Word)
    BY <1>1, ModOfDifference
  <2>2. Mod(Mod(a - b, Word) + (-k), Word) = Mod((a - b) + (-k), Word)
    BY <1>1, ModOfSum
  <2>3. a - (b + k) = (a - b) + (-k) /\ Mod(a - b, Word) + (-k) = u - k
    BY <1>1
  <2> QED
    BY <2>1, <2>2, <2>3
<1> HIDE DEF u
<1>4. u + k < Word => Mod(u + k, Word) = u + k
  <2>1. u + k < Word => u + k \in 0..Word-1
    BY <1>1
  <2> QED
    BY <1>1, <2>1, ModNear
<1>5. k <= u => Mod(u - k, Word) = u - k
  <2>1. k <= u => u - k \in 0..Word-1
    BY <1>1
  <2> QED
    BY <1>1, <2>1, ModNear
<1> QED
  BY <1>1, <1>2, <1>3, <1>4, <1>5 DEF u

\* Where the ring has the byte i of the stream, counted from the write
\* counter: the bytes in the pipe come last in the turn, the room first.
LEMMA Place ==
  ASSUME PipeAssumption, PipeTypeOK, Used <= PIPESIZE, NEW i \in 1..PIPESIZE
  PROVE /\ Mod(nread + i - 1, PIPESIZE) \in 0..PIPESIZE - 1
        /\ Mod(Mod(nread + i - 1, PIPESIZE) - nwrite, PIPESIZE) =
               IF i <= Used THEN i - 1 - Used + PIPESIZE ELSE i - 1 - Used
<1> DEFINE n == PIPESIZE
            u == Used
<1>1. n \in Nat \ {0} /\ Word \in Nat /\ Mod(Word, n) = 0
  BY DEF PipeAssumption, Mod
<1>2. nread \in 0..Word-1 /\ nwrite \in 0..Word-1
  BY DEF PipeTypeOK
<1>3. u \in 0..Word-1 /\ (u = nwrite - nread \/ u = nwrite - nread + Word)
  BY <1>2, Between DEF Used, Mod
<1>4. u \in 0..n
  BY <1>1, <1>3
<1>i. i \in Int /\ i \in 1..n
  BY <1>1
<1> HIDE DEF n, u
<1> DEFINE x == nread + i - 1
            y == -nwrite
<1>x. x \in Int /\ y \in Int
  BY <1>2, <1>i
<1>5. Mod(Mod(nread + i - 1, n) - nwrite, n) = Mod(nread + i - 1 - nwrite, n)
  <2> HIDE DEF x, y
  <2>1. Mod(Mod(x, n) + y, n) = Mod(x + y, n)
    BY <1>1, <1>x, ModOfSum
  <2>2. Mod(x, n) \in Int
    BY <1>1, <1>x, ModRange
  <2>3. x + y = nread + i - 1 - nwrite
    BY <1>2, <1>i DEF x, y
  <2>4. Mod(x, n) + y = Mod(x, n) - nwrite
    BY <1>2, <2>2 DEF y
  <2> QED
    BY <2>1, <2>3, <2>4 DEF x
<1>6. Mod(nread + i - 1 - nwrite, n) = Mod(i - 1 - u, n)
  <2> DEFINE z == i - 1 - u
  <2>1. z \in Int
    BY <1>3, <1>i
  <2>2. nread + i - 1 - nwrite = z \/ nread + i - 1 - nwrite = z + Word
    BY <1>1, <1>2, <1>3, <1>i
  <2> HIDE DEF z
  <2>3. Mod(z + Word, n) = Mod(z, n)
    BY <1>1, <2>1, ModShift
  <2> QED
    BY <2>2, <2>3 DEF z
<1>7. Mod(i - 1 - u, n) = IF i <= u THEN i - 1 - u + n ELSE i - 1 - u
  <2>1. i - 1 - u \in Int /\ (i <= u => i - 1 - u \in -n..-1) /\ (i > u => i - 1 - u \in 0..n-1)
    BY <1>1, <1>4, <1>i
  <2>2. /\ i <= u => Mod(i - 1 - u, n) = i - 1 - u + n
        /\ i > u => Mod(i - 1 - u, n) = i - 1 - u
    BY <1>1, <2>1, ModNear
  <2> QED
    BY <1>4, <1>i, <2>2
<1>8. Mod(nread + i - 1, n) \in 0..n-1
  <2> HIDE DEF x
  <2>1. Mod(x, n) \in 0..n-1
    BY <1>1, <1>x, ModRange
  <2> QED
    BY <2>1 DEF x
<1> QED
  BY <1>5, <1>6, <1>7, <1>8 DEF n, u

-----------------------------------------------------------------------------
(* The two moves of the counters *)

\* The type invariant of what a pipe is made of.
LEMMA UsedBounds ==
  ASSUME PipeAssumption, PipeTypeOK
  PROVE Used \in 0..Word-1
<1>1. nread \in 0..Word-1 /\ nwrite \in 0..Word-1
  BY DEF PipeTypeOK
<1> QED
  BY <1>1, Between DEF Used, Mod

\* What Store does to the counters: k more bytes.
LEMMA StoreCounts ==
  ASSUME PipeAssumption, PipeTypeOK, NEW w \in Writer, NEW k \in Nat, k <= Room, Used <= PIPESIZE,
         Store(w, k)
  PROVE Used' = Used + k /\ nread' = nread /\ nwrite' \in 0..Word-1
<1>1. nread \in 0..Word-1 /\ nwrite \in 0..Word-1
  BY DEF PipeTypeOK
<1>2. nwrite' = Mod(nwrite + k, Word) /\ nread' = nread
  BY DEF Store, Mod
<1>3. Used = Mod(nwrite - nread, Word) /\ Used' = Mod(nwrite' - nread', Word)
  BY DEF Used, Mod
<1>4. Used + k < Word
  <2>1. Word \in Nat /\ PIPESIZE \in Nat /\ Word > PIPESIZE
    BY DEF PipeAssumption
  <2>2. Used \in 0..Word-1
    BY UsedBounds
  <2> QED
    BY <2>1, <2>2 DEF Room
<1> QED
  BY <1>1, <1>2, <1>3, <1>4, Advance

\* What a read of k bytes does to them.
LEMMA ReadCounts ==
  ASSUME PipeAssumption, PipeTypeOK, NEW k \in Nat, k <= Used,
         nread' = Mod(nread + k, Word), nwrite' = nwrite
  PROVE Used' = Used - k /\ nread' \in 0..Word-1
<1>1. nread \in 0..Word-1 /\ nwrite \in 0..Word-1
  BY DEF PipeTypeOK
<1>2. nread' = Mod(nread + k, Word) /\ nwrite' = nwrite
  OBVIOUS
<1>3. Used = Mod(nwrite - nread, Word) /\ Used' = Mod(nwrite' - nread', Word)
  BY DEF Used, Mod
<1> QED
  BY <1>1, <1>2, <1>3, Advance

\* The first k bytes of the ring are a sequence.
LEMMA FrontIs ==
  ASSUME PipeAssumption, PipeTypeOK, NEW k \in 0..PIPESIZE
  PROVE /\ Front(k) \in Seq(Byte) /\ Len(Front(k)) = k
        /\ \A i \in 1..k : Front(k)[i] = data[Mod(nread + i - 1, PIPESIZE)]
<1>1. PIPESIZE \in Nat \ {0} /\ Word \in Nat
  BY DEF PipeAssumption
<1>2. nread \in 0..Word-1 /\ data \in [0..PIPESIZE-1 -> Byte]
  BY DEF PipeTypeOK
<1>3. \A i \in 1..k : data[Mod(nread + i - 1, PIPESIZE)] \in Byte
  <2> SUFFICES ASSUME NEW i \in 1..k
               PROVE data[Mod(nread + i - 1, PIPESIZE)] \in Byte
    OBVIOUS
  <2> DEFINE x == nread + i - 1
  <2>1. x \in Int
    BY <1>1, <1>2
  <2> HIDE DEF x
  <2>2. Mod(x, PIPESIZE) \in 0..PIPESIZE-1
    BY <1>1, <2>1, ModRange
  <2> QED
    BY <1>2, <2>2 DEF x
<1>4. Front(k) = [i \in 1..k |-> data[Mod(nread + i - 1, PIPESIZE)]]
  BY DEF Front, Mod
<1>5. Front(k) \in [1..k -> Byte] /\ k \in Nat
  BY <1>1, <1>3, <1>4
<1>6. \A i \in 1..k : Front(k)[i] = data[Mod(nread + i - 1, PIPESIZE)]
  BY <1>4
<1>7. Front(k) \in Seq(Byte) /\ Len(Front(k)) = k
  <2> HIDE DEF Mod
  <2> DEFINE f == Front(k)
  <2>1. f \in [1..k -> Byte]
    BY <1>5
  <2> HIDE DEF f
  <2>2. f \in Seq(Byte) /\ Len(f) = k
    BY <1>5, <2>1
  <2> QED
    BY <2>2 DEF f
<1> QED
  BY <1>6, <1>7

\* The ring stays a ring of bytes.
LEMMA StoreType ==
  ASSUME PipeAssumption, PipeTypeOK, NEW w \in Writer, NEW k \in 0..Len(rest[w]), Store(w, k)
  PROVE data' \in [0..PIPESIZE-1 -> Byte]
<1>1. PIPESIZE \in Nat \ {0} /\ Word \in Nat
  BY DEF PipeAssumption
<1>2. nwrite \in 0..Word-1 /\ data \in [0..PIPESIZE-1 -> Byte] /\ rest[w] \in Seq(Byte)
  BY DEF PipeTypeOK
<1>3. data' = [j \in 0..PIPESIZE-1 |->
                IF Mod(j - nwrite, PIPESIZE) + 1 <= k
                THEN rest[w][Mod(j - nwrite, PIPESIZE) + 1] ELSE data[j]]
  BY DEF Store, Mod
<1>4. \A j \in 0..PIPESIZE-1 : Mod(j - nwrite, PIPESIZE) \in 0..PIPESIZE-1
  <2> SUFFICES ASSUME NEW j \in 0..PIPESIZE-1
               PROVE Mod(j - nwrite, PIPESIZE) \in 0..PIPESIZE-1
    OBVIOUS
  <2>1. j - nwrite \in Int
    BY <1>1, <1>2
  <2> QED
    BY <1>1, <2>1, ModRange
<1> QED
  <2> SUFFICES ASSUME NEW j \in 0..PIPESIZE-1
               PROVE (IF Mod(j - nwrite, PIPESIZE) + 1 <= k
                      THEN rest[w][Mod(j - nwrite, PIPESIZE) + 1] ELSE data[j]) \in Byte
    BY <1>3
  <2> DEFINE x == Mod(j - nwrite, PIPESIZE)
  <2>1. x \in Nat
    BY <1>1, <1>4
  <2> HIDE DEF x
  <2>2. x + 1 <= k => rest[w][x + 1] \in Byte
    BY <1>2, <2>1
  <2>3. data[j] \in Byte
    BY <1>2
  <2> QED
    BY <2>2, <2>3 DEF x

-----------------------------------------------------------------------------
(* The inductive invariant *)

LEMMA InitPipeInv ==
  ASSUME PipeAssumption, PipeInit
  PROVE PipeInv
<1> USE DEF PipeInit
<1>1. PIPESIZE \in Nat \ {0} /\ Word \in Nat /\ Word > PIPESIZE /\ MaxRead \in Nat
  BY DEF PipeAssumption
<1>2. Used = 0
  <2>1. 0 \in 0..Word-1
    BY <1>1
  <2> QED
    BY <2>1, Between DEF Used, Mod
<1>3. PipeTypeOK
  BY <1>1 DEF PipeTypeOK
<1>4. HoldsInv
  BY DEF PipeAssumption, HoldsInv, User
<1> QED
  BY <1>1, <1>2, <1>3, <1>4 DEF PipeInv, SleepInv, Sleeps, User

\* A write of k of its bytes that wakes the readers and leaves w at l.
LEMMA WriteStep ==
  ASSUME PipeAssumption, PipeInv, NEW w \in Writer, NEW k \in 0..Len(rest[w]), k <= Room,
         Locks(w), at[w] = "run", Store(w, k), rest' \in [Writer -> Seq(Byte)],
         gaveup' \in BOOLEAN
  PROVE /\ Used' = Used + k
        /\ at' \in [User -> {"idle", "run", "nap", "asleep"}] => PipeTypeOK'
<1>1. PipeTypeOK /\ Used <= PIPESIZE
  BY DEF PipeInv, SleepInv
<1>2. rest[w] \in Seq(Byte) /\ k \in Nat
  BY <1>1 DEF PipeTypeOK
<1>3. Used' = Used + k /\ nread' = nread /\ nwrite' \in 0..Word-1
  BY <1>1, <1>2, StoreCounts
<1>4. data' \in [0..PIPESIZE-1 -> Byte]
  BY <1>1, StoreType
<1>5. UNCHANGED <<nread, readopen, writeopen, holds, want, killed, got>>
  BY DEF Store
<1> QED
  BY <1>1, <1>3, <1>4, <1>5 DEF PipeTypeOK

LEMMA NextPipeInv ==
  ASSUME PipeAssumption, PipeInv, [PipeNext]_pipevars
  PROVE PipeInv'
<1> USE DEF PipeInv
<1>1. /\ PIPESIZE \in Nat \ {0} /\ Word \in Nat /\ MaxRead \in Nat
      /\ Reader \cap Writer = {} /\ User = Reader \cup Writer
      /\ Strings \subseteq Seq(Byte)
  BY DEF PipeAssumption, User
<1>2. Used \in 0..PIPESIZE
  BY UsedBounds, <1>1 DEF SleepInv
<1>3. ASSUME NEW w \in Writer, NEW s \in Strings, BeginWrite(w, s)
      PROVE PipeInv'
  <2>1. PipeTypeOK'
    BY <1>1, <1>3 DEF BeginWrite, PipeGoto, PipeTypeOK
  <2>2. HoldsInv'
    BY <1>1, <1>3 DEF BeginWrite, PipeGoto, PipeTypeOK, HoldsInv
  <2>3. Used' = Used
    BY <1>3 DEF BeginWrite, Used
  <2>4. SleepInv'
    BY <1>1, <1>2, <1>3, <2>3 DEF BeginWrite, PipeGoto, PipeTypeOK, SleepInv, Sleeps
  <2> QED
    BY <2>1, <2>2, <2>4
<1>4. ASSUME NEW r \in Reader, NEW n \in 1..MaxRead, BeginRead(r, n)
      PROVE PipeInv'
  <2>1. PipeTypeOK'
    BY <1>1, <1>4 DEF BeginRead, PipeGoto, PipeTypeOK
  <2>2. HoldsInv'
    BY <1>1, <1>4 DEF BeginRead, PipeGoto, PipeTypeOK, HoldsInv
  <2>3. Used' = Used
    BY <1>4 DEF BeginRead, Used
  <2>4. SleepInv'
    BY <1>1, <1>2, <1>4, <2>3 DEF BeginRead, PipeGoto, PipeTypeOK, SleepInv, Sleeps
  <2> QED
    BY <2>1, <2>2, <2>4
<1>5. ASSUME NEW w \in Writer, WriteAll(w)
      PROVE PipeInv'
  <2> DEFINE k == Len(rest[w])
  <2>1. rest[w] \in Seq(Byte) /\ k \in Nat /\ k \in 0..Len(rest[w]) /\ k <= Room
    BY <1>5 DEF PipeTypeOK, WriteAll
  <2>2. /\ Locks(w) /\ at[w] = "run" /\ Store(w, k)
        /\ rest' \in [Writer -> Seq(Byte)] /\ gaveup' = gaveup
        /\ WakeAnd(Reader, w, "idle")
        /\ UNCHANGED <<readopen, writeopen, holds>>
    BY <1>5 DEF PipeTypeOK, WriteAll, Store
  <2>3. at' \in [User -> {"idle", "run", "nap", "asleep"}]
    BY <2>2 DEF PipeTypeOK, WakeAnd
  <2> HIDE DEF k
  <2>4. PipeTypeOK' /\ Used' = Used + k
    BY <2>1, <2>2, <2>3, WriteStep DEF PipeTypeOK
  <2>5. HoldsInv'
    BY <1>1, <2>2 DEF PipeTypeOK, HoldsInv, WakeAnd
  <2>6. SleepInv'
    BY <1>1, <1>2, <2>1, <2>2, <2>4 DEF PipeTypeOK, SleepInv, Sleeps, WakeAnd, Locks, Room
  <2> QED
    BY <2>4, <2>5, <2>6
<1>6. ASSUME NEW w \in Writer, WriteSleep(w)
      PROVE PipeInv'
  <2> DEFINE k == Room
  <2>1. rest[w] \in Seq(Byte) /\ k \in 0..Len(rest[w]) /\ k <= Room /\ Used + k = PIPESIZE
    BY <1>1, <1>2, <1>6 DEF PipeTypeOK, WriteSleep, Room
  <2>2. /\ Locks(w) /\ at[w] = "run" /\ Store(w, k) /\ readopen
        /\ gaveup' = gaveup
        /\ WakeAnd(Reader, w, "nap")
        /\ UNCHANGED <<readopen, writeopen, holds>>
    BY <1>6 DEF PipeTypeOK, WriteSleep, Store
  <2>r. rest' \in [Writer -> Seq(Byte)]
    <3> DEFINE t == SubSeq(rest[w], Room + 1, Len(rest[w]))
    <3>1. t \in Seq(Byte)
      BY <1>1, <1>2, <2>1 DEF Room
    <3>2. rest' = [rest EXCEPT ![w] = t]
      BY <1>6 DEF WriteSleep
    <3> HIDE DEF t
    <3> QED
      BY <3>1, <3>2 DEF PipeTypeOK
  <2>3. at' \in [User -> {"idle", "run", "nap", "asleep"}]
    BY <2>2 DEF PipeTypeOK, WakeAnd
  <2> HIDE DEF k
  <2>4. PipeTypeOK' /\ Used' = PIPESIZE
    BY <2>1, <2>2, <2>r, <2>3, WriteStep DEF PipeTypeOK
  <2>5. HoldsInv'
    BY <1>1, <2>2 DEF PipeTypeOK, HoldsInv, WakeAnd
  <2>6. SleepInv'
    BY <1>1, <1>2, <2>1, <2>2, <2>4, SMTT(30) DEF PipeTypeOK, SleepInv, Sleeps, WakeAnd, Locks
  <2> QED
    BY <2>4, <2>5, <2>6
<1>7. ASSUME NEW w \in Writer, WriteFails(w)
      PROVE PipeInv'
  <2> DEFINE k == Room
  <2>1. rest[w] \in Seq(Byte) /\ k \in 0..Len(rest[w]) /\ k <= Room /\ Used + k = PIPESIZE
    BY <1>1, <1>2, <1>7 DEF PipeTypeOK, WriteFails, Room
  <2>2. /\ Locks(w) /\ at[w] = "run" /\ Store(w, k)
        /\ gaveup' = (gaveup \/ readopen) /\ gaveup' \in BOOLEAN
        /\ rest' \in [Writer -> Seq(Byte)]
        /\ PipeGoto(w, "idle")
        /\ UNCHANGED <<readopen, writeopen, holds>>
    BY <1>7 DEF PipeTypeOK, WriteFails, Store
  <2>3. at' \in [User -> {"idle", "run", "nap", "asleep"}]
    BY <2>2 DEF PipeTypeOK, PipeGoto
  <2> HIDE DEF k
  <2>4. PipeTypeOK' /\ Used' = PIPESIZE
    BY <2>1, <2>2, <2>3, WriteStep DEF PipeTypeOK
  <2>5. HoldsInv'
    BY <1>1, <2>2 DEF PipeTypeOK, HoldsInv, PipeGoto
  <2>6. SleepInv'
    <3>1. /\ at' = [at EXCEPT ![w] = "idle"]
          /\ \A q \in User : Sleeps(q)' => Sleeps(q)
      BY <1>1, <2>2 DEF PipeTypeOK, PipeGoto, Sleeps
    <3>2. \A q \in Writer : Sleeps(q)' => readopen'
      BY <1>1, <2>2, <3>1 DEF SleepInv
    <3>3. ASSUME NEW r \in Reader, Sleeps(r)' PROVE writeopen' /\ gaveup'
      <4>1. Sleeps(r) /\ at[r] # "idle"
        BY <1>1, <3>1, <3>3 DEF Sleeps
      <4>2. r \in holds /\ readopen
        BY <1>1, <4>1 DEF HoldsInv
      <4> QED
        BY <2>2, <4>1, <4>2 DEF SleepInv
    <3>4. Used' = PIPESIZE /\ Used' <= PIPESIZE
      BY <1>1, <2>4
    <3> QED
      BY <1>1, <3>1, <3>2, <3>3, <3>4 DEF SleepInv
  <2> QED
    BY <2>4, <2>5, <2>6
<1>8. ASSUME NEW r \in Reader, Read(r)
      PROVE PipeInv'
  <2> DEFINE k == IF want[r] <= Used THEN want[r] ELSE Used
  <2>1. k \in Nat /\ k <= Used /\ k \in 0..PIPESIZE
    BY <1>1, <1>2 DEF PipeTypeOK
  <2>2. /\ Locks(r) /\ at[r] = "run" /\ got' = Front(k)
        /\ nread' = Mod(nread + k, Word)
        /\ WakeAnd(Writer, r, "idle")
        /\ UNCHANGED <<data, nwrite, readopen, writeopen, holds, rest, want, killed, gaveup>>
    BY <1>8 DEF Read, Mod
  <2> HIDE DEF k
  <2>3. Used' = Used - k /\ nread' \in 0..Word-1
    BY <2>1, <2>2, ReadCounts
  <2>4. at' \in [User -> {"idle", "run", "nap", "asleep"}]
    BY <2>2 DEF PipeTypeOK, WakeAnd
  <2>5. got' \in Seq(Byte) /\ Len(got') <= PIPESIZE
    <3>1. Front(k) \in Seq(Byte) /\ Len(Front(k)) = k
      BY <2>1, FrontIs
    <3> QED
      BY <1>1, <2>1, <2>2, <3>1
  <2>6. PipeTypeOK'
    BY <2>2, <2>3, <2>4, <2>5 DEF PipeTypeOK
  <2>7. HoldsInv'
    BY <1>1, <2>2 DEF PipeTypeOK, HoldsInv, WakeAnd
  <2>8. SleepInv'
    BY <1>1, <1>2, <2>1, <2>2, <2>3 DEF PipeTypeOK, SleepInv, Sleeps, WakeAnd, Locks
  <2> QED
    BY <2>6, <2>7, <2>8
<1>9. ASSUME NEW r \in Reader, ReadSleep(r)
      PROVE PipeInv'
  <2>1. PipeTypeOK'
    BY <1>1, <1>9 DEF ReadSleep, PipeGoto, PipeTypeOK
  <2>2. HoldsInv'
    BY <1>1, <1>9 DEF ReadSleep, PipeGoto, PipeTypeOK, HoldsInv
  <2>3. Used' = Used
    BY <1>9 DEF ReadSleep, Used
  <2>4. SleepInv'
    BY <1>1, <1>2, <1>9, <2>3 DEF ReadSleep, PipeGoto, PipeTypeOK, SleepInv, Sleeps
  <2> QED
    BY <2>1, <2>2, <2>4
<1>10. ASSUME NEW p \in User, Doze(p)
      PROVE PipeInv'
  <2>1. PipeTypeOK'
    BY <1>1, <1>10 DEF Doze, PipeGoto, PipeTypeOK
  <2>2. HoldsInv'
    BY <1>1, <1>10 DEF Doze, PipeGoto, PipeTypeOK, HoldsInv
  <2>3. Used' = Used
    BY <1>10 DEF Doze, Used
  <2>4. SleepInv'
    BY <1>1, <1>2, <1>10, <2>3 DEF Doze, PipeGoto, PipeTypeOK, SleepInv, Sleeps
  <2> QED
    BY <2>1, <2>2, <2>4
<1>11. ASSUME NEW p \in User, PipeClose(p)
      PROVE PipeInv'
  <2>1. PipeTypeOK'
    BY <1>1, <1>11 DEF PipeClose, WakeAnd, PipeTypeOK
  <2>2. HoldsInv'
    BY <1>1, <1>11 DEF PipeClose, WakeAnd, PipeTypeOK, HoldsInv
  <2>3. Used' = Used
    BY <1>11 DEF PipeClose, Used
  <2>4. SleepInv'
    BY <1>1, <1>2, <1>11, <2>3 DEF PipeClose, WakeAnd, Locks, PipeTypeOK, HoldsInv, SleepInv, Sleeps
  <2> QED
    BY <2>1, <2>2, <2>4
<1>12. ASSUME NEW p \in User, Kill(p)
      PROVE PipeInv'
  <2>1. PipeTypeOK'
    BY <1>1, <1>12 DEF Kill, PipeTypeOK
  <2>2. HoldsInv'
    BY <1>1, <1>12 DEF Kill, PipeTypeOK, HoldsInv
  <2>3. Used' = Used
    BY <1>12 DEF Kill, Used
  <2>4. SleepInv'
    BY <1>1, <1>2, <1>12, <2>3 DEF Kill, PipeTypeOK, SleepInv, Sleeps
  <2> QED
    BY <2>1, <2>2, <2>4
<1>13. CASE UNCHANGED pipevars
  BY <1>13 DEF pipevars, PipeTypeOK, HoldsInv, SleepInv, Sleeps, Used
<1> QED
  BY <1>3, <1>4, <1>5, <1>6, <1>7, <1>8, <1>9, <1>10, <1>11, <1>12, <1>13 DEF PipeNext

\* The counters and who sleeps agree, at every moment of every pipe.
THEOREM PipeInvariant == ASSUME PipeAssumption PROVE PipeSpec => []PipeInv
<1>1. PipeInit => PipeInv
  BY InitPipeInv
<1>2. PipeInv /\ [PipeNext]_pipevars => PipeInv'
  BY NextPipeInv
<1> QED
  BY <1>1, <1>2, PTL DEF PipeSpec

\* No wakeup of the pipe is missed: a writer sleeps only on a full pipe with a
\* reader, a reader only on an empty one with a writer (but for the -1 of a
\* killed writer), and they never wait for each other (pipewrite, piperead,
\* pipeclose of pipe.c).
THEOREM NobodyIsMissed == ASSUME PipeAssumption PROVE PipeSpec => []NobodyMissed
<1>1. PipeInv => NobodyMissed
  BY DEF PipeAssumption, PipeInv, SleepInv, Sleeps, NobodyMissed, WriterNotMissed, ReaderNotMissed,
     NoStandoff
<1> QED
  BY <1>1, PipeInvariant, PTL

-----------------------------------------------------------------------------
(* The pipe is a bounded byte stream *)

\* The stream of a pipe, byte by byte.
StreamRight ==
    /\ Stream \in Seq(Byte) /\ Len(Stream) = Used /\ Used \in 0..PIPESIZE
    /\ \A i \in 1..Used : Stream[i] = data[Mod(nread + i - 1, PIPESIZE)]

LEMMA StreamIs ==
  ASSUME PipeAssumption, PipeInv
  PROVE StreamRight
<1>1. Used \in 0..PIPESIZE
  <2>1. Used \in 0..Word-1 /\ Word \in Nat /\ PIPESIZE \in Nat
    BY UsedBounds DEF PipeInv, PipeAssumption
  <2> QED
    BY <2>1 DEF PipeInv, SleepInv
<1> QED
  BY <1>1, FrontIs DEF Stream, PipeInv, StreamRight

\* A write of k bytes puts those bytes at the end of the stream, wherever the
\* ring and the counters wrap.
LEMMA StorePuts ==
  ASSUME PipeAssumption, PipeInv, StreamRight, StreamRight',
         NEW w \in Writer, NEW k \in 0..Len(rest[w]), k <= Room, Store(w, k)
  PROVE Stream' = Stream \o SubSeq(rest[w], 1, k)
<1>1. /\ PIPESIZE \in Nat \ {0} /\ Word \in Nat /\ rest[w] \in Seq(Byte)
      /\ nread \in 0..Word-1 /\ nwrite \in 0..Word-1 /\ k \in Nat
  BY DEF PipeAssumption, PipeInv, PipeTypeOK
<1>2. Used' = Used + k /\ nread' = nread
  BY <1>1, StoreCounts DEF PipeInv, SleepInv
<1>3. /\ Stream \in Seq(Byte) /\ Len(Stream) = Used /\ Used \in 0..PIPESIZE
      /\ \A i \in 1..Used : Stream[i] = data[Mod(nread + i - 1, PIPESIZE)]
  BY DEF StreamRight
<1>4. /\ Stream' \in Seq(Byte) /\ Len(Stream') = Used' /\ Used' \in 0..PIPESIZE
      /\ \A i \in 1..Used' : Stream'[i] = data'[Mod(nread' + i - 1, PIPESIZE)]
  BY DEF StreamRight
<1> DEFINE s == SubSeq(rest[w], 1, k)
<1>5. s \in Seq(Byte) /\ Len(s) = k /\ \A t \in 1..k : s[t] = rest[w][t]
  BY <1>1
<1> HIDE DEF s
<1>6. /\ Stream \o s \in Seq(Byte) /\ Len(Stream \o s) = Used + k
      /\ \A i \in 1..Used + k :
            (Stream \o s)[i] = IF i <= Used THEN Stream[i] ELSE s[i - Used]
  <2>1. /\ Stream \o s \in Seq(Byte) /\ Len(Stream \o s) = Len(Stream) + Len(s)
        /\ \A i \in 1..Len(Stream) + Len(s) :
             (Stream \o s)[i] = IF i <= Len(Stream) THEN Stream[i] ELSE s[i - Len(Stream)]
    <3>1. Stream \in Seq(Byte) /\ s \in Seq(Byte)
      BY <1>3, <1>5
    <3> QED
      BY <3>1, ConcatProperties
  <2>2. Len(Stream) = Used /\ Len(s) = k
    BY <1>3, <1>5
  <2> QED
    BY <2>1, <2>2
<1>n. Used \in 0..PIPESIZE /\ k \in Nat /\ PIPESIZE \in Nat
  BY <1>1, <1>3
<1>7. ASSUME NEW i \in 1..Used + k
      PROVE Stream'[i] = (Stream \o s)[i]
  <2> DEFINE j == Mod(nread + i - 1, PIPESIZE)
             x == Mod(j - nwrite, PIPESIZE)
  <2>1. i \in 1..PIPESIZE /\ k <= PIPESIZE - Used
    BY <1>1, <1>2, <1>3, <1>4 DEF Room
  <2>2. /\ j \in 0..PIPESIZE-1
        /\ x = IF i <= Used THEN i - 1 - Used + PIPESIZE ELSE i - 1 - Used
    BY <2>1, Place DEF PipeInv, SleepInv
  <2>3. \A y \in 0..PIPESIZE-1 :
          data'[y] = IF Mod(y - nwrite, PIPESIZE) + 1 <= k
                     THEN rest[w][Mod(y - nwrite, PIPESIZE) + 1] ELSE data[y]
    BY DEF Store, Mod
  <2>4. data'[j] = IF x + 1 <= k THEN rest[w][x + 1] ELSE data[j]
    BY <2>2, <2>3
  <2>5. Stream'[i] = data'[j]
    BY <1>2, <1>4
  <2>6. i <= Used => Stream[i] = data[j]
    BY <1>3, <2>1
  <2> HIDE DEF j, x
  <2>7. CASE i <= Used
    <3>1. ~(x + 1 <= k)
      BY <1>n, <2>1, <2>2, <2>7
    <3> QED
      BY <1>6, <1>n, <2>4, <2>5, <2>6, <2>7, <3>1
  <2>8. CASE i > Used
    <3>1. x + 1 = i - Used /\ i - Used \in 1..k
      BY <1>n, <2>1, <2>2, <2>8
    <3>2. (Stream \o s)[i] = s[i - Used]
      BY <1>6, <1>n, <2>8
    <3>3. s[i - Used] = rest[w][x + 1]
      BY <1>5, <3>1
    <3>4. x + 1 <= k
      BY <1>1, <3>1
    <3> QED
      BY <2>4, <2>5, <3>2, <3>3, <3>4
  <2>9. i <= Used \/ i > Used
    BY <1>n, <2>1
  <2> QED
    BY <2>7, <2>8, <2>9
<1> QED
  BY <1>2, <1>4, <1>6, <1>7, SeqEqual DEF s

\* A read of k bytes takes them off the front.
LEMMA ReadTakes ==
  ASSUME PipeAssumption, PipeInv, StreamRight, StreamRight', NEW k \in 0..Used,
         nread' = Mod(nread + k, Word), UNCHANGED <<data, nwrite>>
  PROVE Front(k) = SubSeq(Stream, 1, k) /\ Stream' = SubSeq(Stream, k + 1, Used)
<1>1. /\ PIPESIZE \in Nat \ {0} /\ Word \in Nat /\ Mod(Word, PIPESIZE) = 0
      /\ nread \in 0..Word-1 /\ nwrite \in 0..Word-1
  BY DEF PipeAssumption, PipeInv, PipeTypeOK, Mod
<1>3. /\ Stream \in Seq(Byte) /\ Len(Stream) = Used /\ Used \in 0..PIPESIZE
      /\ \A i \in 1..Used : Stream[i] = data[Mod(nread + i - 1, PIPESIZE)]
  BY DEF StreamRight
<1>4. /\ Stream' \in Seq(Byte) /\ Len(Stream') = Used' /\ Used' \in 0..PIPESIZE
      /\ \A i \in 1..Used' : Stream'[i] = data'[Mod(nread' + i - 1, PIPESIZE)]
  BY DEF StreamRight
<1>5. k \in Nat /\ k \in 0..PIPESIZE /\ k <= Used
  BY <1>1, <1>3
<1>2. Used' = Used - k
  BY <1>5, ReadCounts DEF PipeInv
<1>6. /\ Front(k) \in Seq(Byte) /\ Len(Front(k)) = k
      /\ \A i \in 1..k : Front(k)[i] = data[Mod(nread + i - 1, PIPESIZE)]
  BY <1>5, FrontIs DEF PipeInv
<1> DEFINE f == SubSeq(Stream, 1, k)
            g == SubSeq(Stream, k + 1, Used)
<1>7. f \in Seq(Byte) /\ Len(f) = k /\ \A i \in 1..k : f[i] = Stream[i]
  BY <1>3, <1>5
<1>8. g \in Seq(Byte) /\ Len(g) = Used - k /\ \A i \in 1..Used - k : g[i] = Stream[k + i]
  BY <1>3, <1>5
<1> HIDE DEF f, g
<1>9. Front(k) = f
  <2>1. ASSUME NEW i \in 1..k PROVE Front(k)[i] = f[i]
    <3>1. i \in 1..Used
      BY <1>1, <1>3, <1>5
    <3>2. Front(k)[i] = data[Mod(nread + i - 1, PIPESIZE)] /\ f[i] = Stream[i]
      BY <1>6, <1>7
    <3> QED
      BY <1>3, <3>1, <3>2
  <2> QED
    BY <1>6, <1>7, <2>1, SeqEqual
<1>10. Stream' = g
  <2>1. ASSUME NEW i \in 1..Used - k PROVE Stream'[i] = g[i]
    <3> DEFINE z == nread + k + i - 1
    <3>1. z \in Int /\ i \in Int /\ k + i \in 1..Used
      BY <1>1, <1>3, <1>5
    <3>2. nread' = nread + k \/ nread' = (nread + k) - Word
      <4>1. nread' = Mod(nread + k, Word)
        OBVIOUS
      <4>2. nread + k \in 0..Word-1 \/ nread + k \in Word..2*Word-1
        BY <1>1, <1>5 DEF PipeAssumption
      <4>3. Word \in Nat \ {0} /\ nread + k \in Int
        BY <1>1, <1>5
      <4>4. /\ nread + k \in 0..Word-1 => Mod(nread + k, Word) = nread + k
            /\ nread + k \in Word..2*Word-1 => Mod(nread + k, Word) = (nread + k) - Word
        <5> DEFINE y == nread + k
        <5>1. y \in Int
          BY <4>3
        <5> HIDE DEF y
        <5>2. /\ y \in 0..Word-1 => Mod(y, Word) = y
              /\ y \in Word..2*Word-1 => Mod(y, Word) = y - Word
          BY <4>3, <5>1, ModNear
        <5> QED
          BY <1>1, <1>5, <5>2 DEF y
      <4> QED
        BY <4>1, <4>2, <4>4
    <3>3. nread' + i - 1 = z \/ nread' + i - 1 = z - Word
      <4>1. CASE nread' = nread + k
        BY <1>1, <1>5, <3>1, <4>1
      <4>2. CASE nread' = (nread + k) - Word
        BY <1>1, <1>5, <3>1, <4>2
      <4> QED
        BY <3>2, <4>1, <4>2
    <3>4. nread + (k + i) - 1 = z
      BY <1>1, <1>5, <3>1
    <3> HIDE DEF z
    <3>5. Mod(z - Word, PIPESIZE) = Mod(z, PIPESIZE)
      BY <1>1, <3>1, ModShift
    <3>6. Stream'[i] = data[Mod(nread' + i - 1, PIPESIZE)]
      BY <1>2, <1>4
    <3>7. Mod(nread' + i - 1, PIPESIZE) = Mod(z, PIPESIZE)
      BY <3>3, <3>5
    <3>8. g[i] = Stream[k + i]
      BY <1>8
    <3>9. Stream[k + i] = data[Mod(nread + (k + i) - 1, PIPESIZE)]
      BY <1>3, <3>1
    <3> QED
      BY <3>4, <3>6, <3>7, <3>8, <3>9
  <2> QED
    BY <1>2, <1>4, <1>8, <2>1, SeqEqual
<1> QED
  BY <1>9, <1>10 DEF f, g

\* A pipe is a byte stream of PIPESIZE bytes at most, in order, nothing lost,
\* invented or delivered twice: every step of a call on it is one of the
\* stream's, or changes nothing there.
THEOREM PipeImplementsFifo == ASSUME PipeAssumption PROVE PipeSpec => ImplementsFifo
<1>1. PipeInit => F!Init
  <2> SUFFICES ASSUME PipeInit PROVE F!Init
    OBVIOUS
  <2>1. PIPESIZE \in Nat /\ Word \in Nat \ {0}
    BY DEF PipeAssumption
  <2>2. Used = 0
    <3>1. 0 \in 0..Word-1 /\ 0 - 0 = 0
      BY <2>1
    <3>2. Mod(0 - 0, Word) = 0
      BY <3>1, Between
    <3> QED
      BY <3>2 DEF PipeInit, Used, Mod
  <2>3. PipeInv
    BY InitPipeInv
  <2>4. Stream \in Seq(Byte) /\ Len(Stream) = 0
    BY <2>2, <2>3, StreamIs DEF StreamRight
  <2>5. Stream = <<>>
    BY <2>4
  <2> QED
    BY <2>5 DEF PipeInit, F!Init
<1>2. PipeInv => StreamRight
  BY StreamIs
<1>3. PipeInv /\ StreamRight /\ StreamRight' /\ [PipeNext]_pipevars => [F!Next]_<<Stream, got>>
  <2> SUFFICES ASSUME PipeInv, StreamRight, StreamRight', [PipeNext]_pipevars
               PROVE [F!Next]_<<Stream, got>>
    OBVIOUS
  <2>1. /\ Stream \in Seq(Byte) /\ Len(Stream) = Used /\ Used \in 0..PIPESIZE
        /\ PIPESIZE \in Nat \ {0} /\ rest \in [Writer -> Seq(Byte)]
    BY DEF StreamRight, PipeAssumption, PipeInv, PipeTypeOK
  <2>2. ASSUME NEW w \in Writer, NEW k \in 0..Len(rest[w]), k <= Room, Store(w, k)
        PROVE [F!Next]_<<Stream, got>>
    <3> DEFINE s == SubSeq(rest[w], 1, k)
    <3>1. Stream' = Stream \o s /\ got' = got
      BY <2>2, StorePuts DEF Store
    <3>2. rest[w] \in Seq(Byte) /\ k \in Nat
      BY <2>1
    <3>3. s \in [1..k -> Byte] /\ s \in Seq(Byte) /\ Len(s) = k
      <4>1. s \in Seq(Byte) /\ Len(s) = k
        BY <3>2
      <4> HIDE DEF s
      <4> QED
        BY <4>1
    <3> HIDE DEF s
    <3>4. CASE k = 0
      <4>1. s = <<>>
        BY <3>3, <3>4
      <4>2. Stream \o s = Stream
        BY <2>1, <4>1
      <4> QED
        BY <3>1, <4>2
    <3>5. CASE k # 0
      <4>1. k \in 1..PIPESIZE - Len(Stream)
        BY <2>1, <2>2, <3>2, <3>5 DEF Room
      <4>2. s \in UNION {[1..n -> Byte] : n \in 1..PIPESIZE - Len(Stream)}
        BY <3>3, <4>1
      <4> QED
        BY <3>1, <4>2 DEF F!Next, F!Put
    <3> QED
      BY <3>4, <3>5
  <2>3. ASSUME UNCHANGED <<data, nread, nwrite, got>>
        PROVE [F!Next]_<<Stream, got>>
    BY <2>3 DEF Stream, Front, Used
  <2>4. ASSUME NEW w \in Writer, WriteAll(w)
        PROVE [F!Next]_<<Stream, got>>
    <3> DEFINE k == Len(rest[w])
    <3>1. k \in 0..Len(rest[w]) /\ k <= Room /\ Store(w, k)
      BY <2>1, <2>4 DEF WriteAll
    <3> HIDE DEF k
    <3> QED
      BY <2>2, <3>1
  <2>5. ASSUME NEW w \in Writer, WriteSleep(w) \/ WriteFails(w)
        PROVE [F!Next]_<<Stream, got>>
    <3> DEFINE k == Room
    <3>1. k \in 0..Len(rest[w]) /\ k <= Room /\ Store(w, k)
      BY <2>1, <2>5 DEF WriteSleep, WriteFails, Room
    <3> HIDE DEF k
    <3> QED
      BY <2>2, <3>1
  <2>6. ASSUME NEW r \in Reader, Read(r)
        PROVE [F!Next]_<<Stream, got>>
    <3> DEFINE k == IF want[r] <= Used THEN want[r] ELSE Used
    <3>1. k \in 0..Used
      BY <2>1 DEF PipeAssumption, PipeInv, PipeTypeOK
    <3>2. got' = Front(k) /\ nread' = Mod(nread + k, Word) /\ UNCHANGED <<data, nwrite>>
      BY <2>6 DEF Read, Mod
    <3> HIDE DEF k
    <3>3. Front(k) = SubSeq(Stream, 1, k) /\ Stream' = SubSeq(Stream, k + 1, Used)
      BY <3>1, <3>2, ReadTakes
    <3> QED
      BY <2>1, <3>1, <3>2, <3>3 DEF F!Next, F!Take
  <2>7. ASSUME NEW w \in Writer, NEW s \in Strings, BeginWrite(w, s)
        PROVE [F!Next]_<<Stream, got>>
    BY <2>3, <2>7 DEF BeginWrite
  <2>8. ASSUME NEW r \in Reader, NEW n \in 1..MaxRead, BeginRead(r, n)
        PROVE [F!Next]_<<Stream, got>>
    BY <2>3, <2>8 DEF BeginRead
  <2>9. ASSUME NEW r \in Reader, ReadSleep(r)
        PROVE [F!Next]_<<Stream, got>>
    BY <2>3, <2>9 DEF ReadSleep
  <2>10. ASSUME NEW p \in User, Doze(p) \/ PipeClose(p) \/ Kill(p)
         PROVE [F!Next]_<<Stream, got>>
    BY <2>3, <2>10 DEF Doze, PipeClose, Kill
  <2>11. CASE UNCHANGED pipevars
    BY <2>3, <2>11 DEF pipevars
  <2> QED
    BY <2>4, <2>5, <2>6, <2>7, <2>8, <2>9, <2>10, <2>11 DEF PipeNext
<1> QED
  BY <1>1, <1>2, <1>3, PipeInvariant, PTL DEF PipeSpec, ImplementsFifo, F!Spec

-----------------------------------------------------------------------------
(* The memory of p3b: the two checks that keep a page between heap and stack,
   of sbrk() and of the page fault, keep the parts apart; nothing that is mapped
   is then mapped again, and fork() and argptr() may believe in the bounds. *)

\* Pages are counted, so this is the number of those below address a.
Up(a) == PGROUNDUP(a)
Span(i, j) == {k \in Page : i <= k /\ k < j}
Aligned(a) == a = Up(a) * PGSIZE

\* The types of the variables; what a page directory holds are pages of users.
SpaceTypeOK ==
    /\ live \subseteq Slot /\ init \in live /\ panicked \subseteq Slot
    /\ sz \in [Slot -> Nat] /\ heap_bot \in [Slot -> Nat] /\ stack_low_bound \in [Slot -> Nat]
    /\ pages \in [Slot -> SUBSET Page] /\ kfreelist \in Int
    /\ intact \in [Slot -> BOOLEAN]

\* Heap and stack begin with a page, the heap after the two pages that no
\* program has, the stack below the top of the address space.
AlignInv ==
    \A p \in Slot : /\ Aligned(heap_bot[p]) /\ PGSIZE <= heap_bot[p]
                    /\ Aligned(stack_low_bound[p]) /\ stack_low_bound[p] <= USERTOP

\* A slot without a process has no page.
FreeInv == \A p \in Slot \ live : pages[p] = {}

\* The three parts do not overlap, and nothing else is mapped.
LayoutInv ==
    \A p \in live : intact[p] => /\ pages[p] = Wanted(p)
                                 /\ heap_bot[p] <= sz[p] /\ sz[p] < stack_low_bound[p]
                                 /\ p \notin panicked

\* No page is lost, none is counted twice.
FramesInv == kfreelist + Cardinality(Frames) = Physical

\* The inductive invariant of user memory.
SpaceInv == SpaceTypeOK /\ AlignInv /\ FreeInv /\ LayoutInv /\ FramesInv

\* Page k lies below address a when it begins below it.
LEMMA Below ==
  ASSUME NEW a \in Nat
  PROVE  /\ Up(a) \in Nat
         /\ a > 0 => Up(a) > 0
         /\ \A k \in Int : k * PGSIZE < a <=> k < Up(a)
<1> DEFINE b == a + PGSIZE - 1
           d == b \div PGSIZE
           r == b % PGSIZE
<1>1. PGSIZE \in Nat \ {0}
  BY SpaceAssumption
<1>2. b \in Nat /\ b = a + PGSIZE - 1
  BY <1>1
<1> HIDE DEF b
<1>3. d \in Int /\ r \in 0..PGSIZE-1 /\ b = d * PGSIZE + r
  BY <1>1, <1>2
<1>4. Up(a) = d
  BY DEF Up, PGROUNDUP, b
<1> HIDE DEF d, r
<1>5. ASSUME NEW k \in Int PROVE k * PGSIZE < a <=> k < d
  <2>1. CASE k < d
    <3>1. (d - 1 - k) * PGSIZE >= 0
      BY <1>1, <1>3, <2>1
    <3>2. (d - 1 - k) * PGSIZE = d * PGSIZE - PGSIZE - k * PGSIZE
      BY <1>1, <1>3
    <3> QED
      BY <1>1, <1>2, <1>3, <2>1, <3>1, <3>2
  <2>2. CASE k >= d
    <3>1. (k - d) * PGSIZE >= 0
      BY <1>1, <1>3, <2>2
    <3>2. (k - d) * PGSIZE = k * PGSIZE - d * PGSIZE
      BY <1>1, <1>3
    <3> QED
      BY <1>1, <1>2, <1>3, <2>2, <3>1, <3>2
  <2> QED
    BY <1>3, <2>1, <2>2
<1>6. d >= 0 /\ (a > 0 => d > 0)
  <2>1. (-1) * PGSIZE < a /\ (a > 0 => 0 * PGSIZE < a)
    BY <1>1
  <2> QED
    BY <1>3, <1>5, <2>1
<1> QED
  BY <1>3, <1>4, <1>5, <1>6

\* A larger address has no fewer pages below it.
LEMMA UpGrows ==
  ASSUME NEW a \in Nat, NEW b \in Nat, a <= b PROVE Up(a) <= Up(b)
<1>1. Up(a) \in Nat /\ Up(b) \in Nat
  BY Below
<1> DEFINE k == Up(b)
<1>2. k \in Int
  BY <1>1
<1> HIDE DEF k
<1>3. (k * PGSIZE < a <=> k < Up(a)) /\ (k * PGSIZE < b <=> k < Up(b)) /\ k * PGSIZE \in Int
  BY <1>2, Below, SpaceAssumption
<1> QED
  BY <1>1, <1>3 DEF k

\* The pages between two addresses are those below the one and not below the
\* other.
LEMMA PagesAre ==
  ASSUME NEW a \in Nat, NEW b \in Nat
  PROVE  /\ Page \subseteq Nat
         /\ Pages(a, b) = Span(Up(a), Up(b))
<1>1. USERTOP \div PGSIZE \in Int
  BY SpaceAssumption
<1>2. Page \subseteq Nat
  BY <1>1 DEF Page
<1>3. \A i \in Page : i * PGSIZE < b <=> i < Up(b)
  BY <1>2, Below
<1> QED
  BY <1>2, <1>3 DEF Pages, Up, Span

\* Runs of pages, one after the other and apart.
LEMMA Spans ==
  ASSUME NEW i \in Int, NEW j \in Int, NEW k \in Int, NEW l \in Int, i <= j
  PROVE  /\ Span(i, i) = {}
         /\ j <= k => Span(i, k) = Span(i, j) \cup Span(j, k)
         /\ Span(k, i) \cap Span(j, l) = {} /\ Span(j, l) \cap Span(k, i) = {}
<1>1. \A x \in Page : x \in Int
  BY 0 \in Nat, PagesAre
<1>2. \A x \in Page : ~ (i <= x /\ x < i)
  BY <1>1
<1>3. j <= k => \A x \in Page : i <= x /\ x < k <=> (i <= x /\ x < j) \/ (j <= x /\ x < k)
  BY <1>1
<1>4. \A x \in Page : ~ (k <= x /\ x < i /\ j <= x /\ x < l)
  BY <1>1
<1>5. \A x, y, z : z \in Span(x, y) <=> z \in Page /\ x <= z /\ z < y
  BY DEF Span
<1> QED
  BY <1>2, <1>3, <1>4, <1>5

\* The last fact by itself.
LEMMA Apart ==
  ASSUME NEW i \in Nat, NEW j \in Nat, NEW k \in Nat, NEW l \in Nat, j <= k
  PROVE  Span(i, j) \cap Span(k, l) = {}
BY Spans

\* One page more or less.
LEMMA UpStep ==
  ASSUME NEW a \in Nat
  PROVE  /\ Up(a + PGSIZE) = Up(a) + 1
         /\ Aligned(a) => Aligned(a + PGSIZE)
         /\ PGSIZE <= a => Up(a - PGSIZE) = Up(a) - 1
         /\ PGSIZE <= a /\ Aligned(a) => Aligned(a - PGSIZE)
<1>1. PGSIZE \in Nat \ {0}
  BY SpaceAssumption
<1>2. ASSUME NEW c \in Nat PROVE Up(c + PGSIZE) = Up(c) + 1
  <2>1. Up(c) \in Nat /\ Up(c + PGSIZE) \in Nat /\ c + PGSIZE \in Nat
    BY <1>1, Below
  <2>2. PICK u \in Nat : u = Up(c)
    BY <2>1
  <2>3. PICK v \in Nat : v = Up(c + PGSIZE)
    BY <2>1
  <2>4. \A k \in Int : k * PGSIZE < c <=> k < u
    BY <2>2, Below
  <2>5. \A k \in Int : k * PGSIZE < c + PGSIZE <=> k < v
    BY <2>1, <2>3, Below
  <2>6. (v - 1) * PGSIZE = v * PGSIZE - PGSIZE /\ (u + 1) * PGSIZE = u * PGSIZE + PGSIZE
    BY <1>1
  <2>7. v - 1 \in Int /\ u + 1 \in Int /\ v * PGSIZE \in Int /\ u * PGSIZE \in Int
    BY <1>1
  <2>8. ~ v * PGSIZE < c + PGSIZE /\ ~ u * PGSIZE < c
    BY <2>4, <2>5
  <2>9. ~ (v - 1) * PGSIZE < c /\ ~ (u + 1) * PGSIZE < c + PGSIZE
    BY <1>1, <2>6, <2>7, <2>8
  <2>10. ~ v - 1 < u /\ ~ u + 1 < v
    BY <2>4, <2>5, <2>7, <2>9
  <2> QED
    BY <2>2, <2>3, <2>10
<1>3. PGSIZE <= a => a - PGSIZE \in Nat /\ (a - PGSIZE) + PGSIZE = a
  BY <1>1
<1>4. PGSIZE <= a => Up(a - PGSIZE) = Up(a) - 1
  <2>1. PGSIZE <= a => Up(a) = Up(a - PGSIZE) + 1 /\ Up(a - PGSIZE) \in Nat
    BY <1>2, <1>3, Below
  <2> QED
    BY <2>1
<1>5. Up(a) \in Nat
  BY Below
<1>6. /\ (Up(a) + 1) * PGSIZE = Up(a) * PGSIZE + PGSIZE
      /\ (Up(a) - 1) * PGSIZE = Up(a) * PGSIZE - PGSIZE
  BY <1>1, <1>5
<1>7. Up(a) * PGSIZE \in Int
  BY <1>1, <1>5
<1> QED
  BY <1>1, <1>2, <1>4, <1>6, <1>7 DEF Aligned

\* k pages lie below the end of the k-th.
LEMMA MultipleOf ==
  ASSUME NEW k \in Nat, k * PGSIZE \in Nat PROVE Up(k * PGSIZE) = k
<1>1. PGSIZE \in Nat \ {0}
  BY SpaceAssumption
<1>2. PICK u \in Nat : u = Up(k * PGSIZE)
  BY Below
<1>3. \A i \in Int : i * PGSIZE < k * PGSIZE <=> i < u
  BY <1>2, Below
<1>4. ~ k * PGSIZE < k * PGSIZE
  BY <1>1
<1>5. (k - 1) * PGSIZE = k * PGSIZE - PGSIZE
  BY <1>1
<1>6. ~ k < u /\ k - 1 < u
  BY <1>1, <1>3, <1>4, <1>5
<1> QED
  BY <1>2, <1>6

\* The bounds a program starts with.
LEMMA Start ==
  ASSUME NEW end \in ProgramEnd
  PROVE  /\ HeapBot(end) \in Nat /\ Aligned(HeapBot(end)) /\ PGSIZE <= HeapBot(end)
         /\ Up(HeapBot(end)) = Up(end) + 1
         /\ USERTOP - PGSIZE \in Nat /\ Aligned(USERTOP - PGSIZE)
         /\ HeapBot(end) < USERTOP - PGSIZE
<1>1. PGSIZE \in Nat \ {0} /\ USERTOP \in Nat /\ end \in Nat
      /\ HeapBot(end) < USERTOP - PGSIZE
  BY SpaceAssumption
<1>2. PICK u \in Nat : u = Up(end)
  BY <1>1, Below
<1>3. u * PGSIZE \in Nat /\ HeapBot(end) = u * PGSIZE + PGSIZE
  BY <1>1, <1>2 DEF HeapBot, Up
<1>4. Up(u * PGSIZE) = u
  BY <1>1, <1>3, MultipleOf
<1>5. Aligned(HeapBot(end)) /\ Up(HeapBot(end)) = u + 1
  BY <1>3, <1>4, UpStep DEF Aligned
<1>6. Aligned(USERTOP)
  <2>1. PICK k \in Nat : USERTOP = k * PGSIZE
    <3> DEFINE k == USERTOP \div PGSIZE
    <3>1. k \in Nat /\ USERTOP = k * PGSIZE
      BY <1>1, SpaceAssumption
    <3> QED
      BY <3>1
  <2>2. Up(k * PGSIZE) = k
    BY <1>1, <2>1, MultipleOf
  <2> QED
    BY <2>1, <2>2 DEF Aligned
<1> QED
  BY <1>1, <1>2, <1>3, <1>5, <1>6, UpStep

\* The image of a program is its code and a page of stack, and the heap is empty.
LEMMA Image ==
  ASSUME NEW end \in ProgramEnd
  PROVE  Pages(PGSIZE, HeapBot(end) - PGSIZE) \cup Pages(HeapBot(end), HeapBot(end))
           = Pages(PGSIZE, end)
<1>1. PGSIZE \in Nat /\ end \in Nat /\ USERTOP \in Nat /\ HeapBot(end) \in Nat
      /\ USERTOP - PGSIZE \in Nat /\ PGSIZE <= HeapBot(end) /\ HeapBot(end) - PGSIZE \in Nat
  BY SpaceAssumption, Start
<1>2. Up(HeapBot(end) - PGSIZE) = Up(end)
  <2>1. Up(HeapBot(end)) = Up(end) + 1 /\ Up(end) \in Nat
    BY <1>1, Start, Below
  <2>2. Up(HeapBot(end) - PGSIZE) = Up(HeapBot(end)) - 1
    BY <1>1, UpStep
  <2> QED
    BY <2>1, <2>2
<1>3. Pages(PGSIZE, HeapBot(end) - PGSIZE) = Pages(PGSIZE, end)
  <2>1. Pages(PGSIZE, HeapBot(end) - PGSIZE)
          = Span(Up(PGSIZE), Up(HeapBot(end) - PGSIZE))
    BY <1>1, PagesAre
  <2>2. Pages(PGSIZE, end) = Span(Up(PGSIZE), Up(end))
    BY <1>1, PagesAre
  <2> QED
    BY <1>2, <2>1, <2>2
<1>4. Pages(HeapBot(end), HeapBot(end)) = {}
  BY <1>1, PagesAre, Below, Spans
<1> QED
  BY <1>3, <1>4

\* A page directory is a finite set.
LEMMA FiniteDir == IsFiniteSet(Page) /\ \A T \in SUBSET Page : IsFiniteSet(T)
<1>1. USERTOP \div PGSIZE \in Int
  BY SpaceAssumption
<1>2. IsFiniteSet(Page)
  BY <1>1, FS_Interval DEF Page
<1> QED
  BY <1>2, FS_Subset

\* What a change of one page directory does to the number of frames.
LEMMA PagesCounted ==
  ASSUME SpaceTypeOK, NEW p \in Slot, NEW new \in SUBSET Page, pages' = [pages EXCEPT ![p] = new]
  PROVE  /\ Cardinality(Frames) \in Nat
         /\ Cardinality(Frames)' = Cardinality(Frames) - Cardinality(pages[p]) + Cardinality(new)
<1> DEFINE Part(T) == {p} \X T
           Rest == Frames \ Part(pages[p])
<1>1. IsFiniteSet(Slot) /\ IsFiniteSet(Page)
  BY FS_Interval, FiniteDir, SpaceAssumption DEF Slot
<1>2. IsFiniteSet(Slot \X Page)
  BY <1>1, FS_Product
<1>3. ASSUME NEW T \in SUBSET Page
      PROVE  IsFiniteSet(Part(T)) /\ Cardinality(Part(T)) = Cardinality(T)
  <2>1. IsFiniteSet({p}) /\ Cardinality({p}) = 1
    BY FS_Singleton
  <2>2. IsFiniteSet(T)
    BY FiniteDir
  <2>3. IsFiniteSet(Part(T)) /\ Cardinality(Part(T)) = Cardinality({p}) * Cardinality(T)
    BY <2>1, <2>2, FS_Product
  <2> QED
    BY <2>1, <2>2, <2>3, FS_CardinalityType
<1>4. pages[p] \in SUBSET Page /\ Part(pages[p]) \subseteq Frames
      /\ Frames \subseteq Slot \X Page /\ Rest \subseteq Slot \X Page
  BY DEF SpaceTypeOK, Frames
<1>5. IsFiniteSet(Frames) /\ IsFiniteSet(Rest)
  BY <1>2, <1>4, FS_Subset
<1>6. Frames' = Rest \cup Part(new) /\ Rest \cap Part(new) = {}
  <2>1. pages'[p] = new /\ \A q \in Slot : q # p => pages'[q] = pages[q]
    BY DEF SpaceTypeOK
  <2>2. ASSUME NEW q \in Slot, NEW i \in Page
        PROVE  /\ <<q, i>> \in Frames' <=> i \in pages'[q]
               /\ <<q, i>> \in Frames <=> i \in pages[q]
               /\ \A T \in SUBSET Page : <<q, i>> \in Part(T) <=> q = p /\ i \in T
    BY DEF Frames
  <2>3. Frames' \subseteq Slot \X Page /\ Part(new) \subseteq Slot \X Page
    BY DEF Frames
  <2>4. ASSUME NEW q \in Slot, NEW i \in Page
        PROVE /\ <<q, i>> \in Frames' <=> <<q, i>> \in Rest \cup Part(new)
              /\ <<q, i>> \notin Rest \cap Part(new)
    BY <1>4, <2>1, <2>2
  <2> HIDE DEF Rest, Part
  <2> QED
    BY <1>4, <2>3, <2>4
<1>7. Frames = Rest \cup Part(pages[p]) /\ Rest \cap Part(pages[p]) = {}
  BY <1>4
<1> HIDE DEF Rest, Part
<1>8. ASSUME NEW T \in SUBSET Page, Rest \cap Part(T) = {}
      PROVE  Cardinality(Rest \cup Part(T)) = Cardinality(Rest) + Cardinality(T)
  <2>1. /\ Cardinality(Rest \cup Part(T))
             = Cardinality(Rest) + Cardinality(Part(T)) - Cardinality(Rest \cap Part(T))
        /\ Cardinality(Rest \cap Part(T)) = 0
    BY <1>3, <1>5, <1>8, FS_Union, FS_EmptySet
  <2>2. Cardinality(Rest) \in Nat /\ Cardinality(Part(T)) \in Nat
    BY <1>3, <1>5, FS_CardinalityType
  <2> QED
    BY <1>3, <2>1, <2>2
<1>9. Cardinality(Frames) = Cardinality(Rest) + Cardinality(pages[p])
  BY <1>4, <1>7, <1>8
<1>10. Cardinality(Frames)' = Cardinality(Rest) + Cardinality(new)
  BY <1>6, <1>8
<1>11. Cardinality(Rest) \in Nat /\ Cardinality(pages[p]) \in Nat /\ Cardinality(new) \in Nat
       /\ Cardinality(Frames) \in Nat
  BY <1>4, <1>5, FiniteDir, FS_CardinalityType
<1> QED
  BY <1>9, <1>10, <1>11

\* A change that the list of free pages pays for.
LEMMA Accounts ==
  ASSUME SpaceTypeOK, FramesInv, NEW p \in Slot, NEW new \in SUBSET Page,
         pages' = [pages EXCEPT ![p] = new],
         kfreelist' = kfreelist + Cardinality(pages[p]) - Cardinality(new)
  PROVE  FramesInv' /\ kfreelist' \in Int
<1>1. Cardinality(pages[p]) \in Nat /\ Cardinality(new) \in Nat
  BY FiniteDir, FS_CardinalityType DEF SpaceTypeOK
<1>2. /\ Cardinality(Frames) \in Nat
      /\ Cardinality(Frames)' = Cardinality(Frames) - Cardinality(pages[p]) + Cardinality(new)
  BY PagesCounted
<1> QED
  BY <1>1, <1>2 DEF FramesInv, SpaceTypeOK

\* The pages of two parts of memory are counted apart.
LEMMA Disjoint ==
  ASSUME NEW S \in SUBSET Page, NEW T \in SUBSET Page, T \cap S = {}
  PROVE  /\ Cardinality(S \cup T) = Cardinality(S) + Cardinality(T)
         /\ Cardinality(S) \in Nat /\ Cardinality(T) \in Nat
<1>1. IsFiniteSet(S) /\ IsFiniteSet(T) /\ S \cap T = {} /\ Cardinality(S \cap T) = 0
  BY FiniteDir, FS_EmptySet
<1>2. Cardinality(S \cup T) = Cardinality(S) + Cardinality(T) - Cardinality(S \cap T)
  BY <1>1, FS_Union
<1> QED
  BY <1>1, <1>2, FS_CardinalityType

\* The process p, when it runs, is the only one whose memory changes.
LEMMA OtherSpaces ==
  ASSUME SpaceInv, NEW p \in live, live' = live, panicked' = panicked,
         \A q \in Slot : q # p => /\ pages'[q] = pages[q] /\ sz'[q] = sz[q]
                                  /\ heap_bot'[q] = heap_bot[q] /\ intact'[q] = intact[q]
                                  /\ stack_low_bound'[q] = stack_low_bound[q],
         intact'[p] => /\ pages'[p] = Wanted(p)'
                       /\ heap_bot'[p] <= sz'[p] /\ sz'[p] < stack_low_bound'[p]
                       /\ p \notin panicked
  PROVE  LayoutInv' /\ FreeInv'
<1>1. ASSUME NEW q \in Slot, q # p PROVE Wanted(q)' = Wanted(q)
  BY <1>1 DEF Wanted, Code, Heap, Stack
<1>2. live \subseteq Slot
  BY DEF SpaceInv, SpaceTypeOK
<1>3. FreeInv'
  BY <1>2 DEF SpaceInv, FreeInv
<1>4. ASSUME NEW q \in live, intact'[q], q # p
      PROVE  /\ pages'[q] = Wanted(q)' /\ heap_bot'[q] <= sz'[q] /\ sz'[q] < stack_low_bound'[q]
             /\ q \notin panicked'
  <2>1. q \in Slot /\ Wanted(q)' = Wanted(q) /\ intact[q]
    BY <1>1, <1>2, <1>4
  <2>2. /\ pages[q] = Wanted(q) /\ heap_bot[q] <= sz[q] /\ sz[q] < stack_low_bound[q]
        /\ q \notin panicked
    BY <2>1 DEF SpaceInv, LayoutInv
  <2> QED
    BY <1>4, <2>1, <2>2
<1> QED
  BY <1>3, <1>4 DEF LayoutInv

\* The invariant holds when /init has been loaded.
LEMMA SpaceInitInv == SpaceInit => SpaceInv
<1> SUFFICES ASSUME SpaceInit PROVE SpaceInv
  OBVIOUS
<1>1. PICK end \in ProgramEnd :
        /\ sz = [p \in Slot |-> HeapBot(end)] /\ heap_bot = sz
        /\ pages = [p \in Slot |-> IF p = init
                     THEN Pages(PGSIZE, end) \cup Pages(USERTOP - PGSIZE, USERTOP) ELSE {}]
  BY DEF SpaceInit
<1>2. /\ live = {init} /\ panicked = {} /\ intact = [p \in Slot |-> TRUE]
      /\ stack_low_bound = [p \in Slot |-> USERTOP - PGSIZE]
      /\ kfreelist = Physical - Cardinality(pages[init])
  BY DEF SpaceInit
<1>3. init \in Slot
  BY SpaceAssumption DEF init, Slot
<1>4. \A a, b : Pages(a, b) \in SUBSET Page
  BY DEF Pages
<1>5. pages \in [Slot -> SUBSET Page] /\ Cardinality(pages[init]) \in Nat
  <2>1. pages \in [Slot -> SUBSET Page]
    BY <1>1, <1>4
  <2>2. IsFiniteSet(pages[init])
    BY <1>3, <2>1, FiniteDir
  <2> QED
    BY <2>1, <2>2, FS_CardinalityType
<1>6. SpaceTypeOK
  BY <1>1, <1>2, <1>3, <1>5, Start, SpaceAssumption DEF SpaceTypeOK
<1>7. AlignInv
  BY <1>1, <1>2, Start, SpaceAssumption DEF AlignInv
<1>8. FreeInv
  BY <1>1, <1>2 DEF FreeInv
<1>9. LayoutInv
  <2>1. Wanted(init) = Pages(PGSIZE, end) \cup Pages(USERTOP - PGSIZE, USERTOP)
    BY <1>1, <1>2, <1>3, Image DEF Wanted, Code, Heap, Stack
  <2> QED
    BY <1>1, <1>2, <1>3, <2>1, Start DEF LayoutInv
<1>10. FramesInv
  <2> DEFINE Part == {init} \X pages[init]
  <2>1. Frames = Part
    <3>1. Frames \subseteq Slot \X Page /\ Part \subseteq Slot \X Page
      BY <1>3, <1>5 DEF Frames
    <3>2. \A q \in Slot, i \in Page : <<q, i>> \in Frames <=> <<q, i>> \in Part
      BY <1>1, <1>3, <1>5 DEF Frames
    <3> HIDE DEF Part
    <3> QED
      BY <3>1, <3>2
  <2>2. IsFiniteSet({init}) /\ Cardinality({init}) = 1 /\ IsFiniteSet(pages[init])
    BY <1>3, <1>5, FS_Singleton, FiniteDir
  <2>3. Cardinality(Part) = Cardinality({init}) * Cardinality(pages[init])
    BY <2>2, FS_Product
  <2> QED
    BY <1>2, <1>5, <2>1, <2>2, <2>3, SpaceAssumption DEF FramesInv
<1> QED
  BY <1>6, <1>7, <1>8, <1>9, <1>10 DEF SpaceInv

\* fork() copies all the pages there are, into a slot that has none.
LEMMA ForkInv ==
  ASSUME SpaceInv, NEW p \in Slot, NEW q \in Slot, Fork(p, q) PROVE SpaceInv'
<1>1. /\ q \notin live /\ Missing(p) = {} /\ live' = live \cup {q} /\ UNCHANGED panicked
      /\ sz' = [sz EXCEPT ![q] = sz[p]] /\ heap_bot' = [heap_bot EXCEPT ![q] = heap_bot[p]]
      /\ stack_low_bound' = [stack_low_bound EXCEPT ![q] = stack_low_bound[p]]
      /\ pages' = [pages EXCEPT ![q] = Wanted(p)] /\ intact' = [intact EXCEPT ![q] = intact[p]]
      /\ kfreelist' = kfreelist - Cardinality(Wanted(p)) /\ panicked = {}
  BY DEF Fork
<1>2. Wanted(p) \in SUBSET Page
  BY DEF Wanted, Code, Heap, Stack, Pages
<1>3. pages[q] = {} /\ Cardinality(pages[q]) = 0
  BY <1>1, FS_EmptySet DEF SpaceInv, FreeInv
<1>4. FramesInv' /\ kfreelist' \in Int
  <2>1. Cardinality(Wanted(p)) \in Nat
    BY <1>2, FiniteDir, FS_CardinalityType
  <2>2. kfreelist' = kfreelist + Cardinality(pages[q]) - Cardinality(Wanted(p))
    BY <1>1, <1>3, <2>1 DEF SpaceInv, SpaceTypeOK
  <2> QED
    BY <1>1, <1>2, <2>2, Accounts DEF SpaceInv
<1>5. SpaceTypeOK'
  BY <1>1, <1>2, <1>4 DEF SpaceInv, SpaceTypeOK
<1>6. AlignInv'
  BY <1>1 DEF SpaceInv, SpaceTypeOK, AlignInv, Aligned, Up, PGROUNDUP
<1>7. FreeInv'
  BY <1>1 DEF SpaceInv, SpaceTypeOK, FreeInv
<1>8. LayoutInv'
  <2>1. p \in live
    BY DEF Fork, MayRun, SpaceInv, SpaceTypeOK
  <2>2. ASSUME NEW r \in live, r # q PROVE r \in Slot /\ Wanted(r)' = Wanted(r)
    BY <1>1, <2>2 DEF Wanted, Code, Heap, Stack, SpaceInv, SpaceTypeOK
  <2>3. Wanted(q)' = Wanted(p)
    BY <1>1 DEF Wanted, Code, Heap, Stack, SpaceInv, SpaceTypeOK
  <2>4. ASSUME NEW r \in live', intact'[r]
        PROVE  /\ pages'[r] = Wanted(r)' /\ heap_bot'[r] <= sz'[r] /\ sz'[r] < stack_low_bound'[r]
               /\ r \notin panicked'
    <3>1. CASE r = q
      <4>1. intact[p]
        BY <1>1, <2>4, <3>1 DEF SpaceInv, SpaceTypeOK
      <4> QED
        BY <1>1, <2>1, <2>3, <3>1, <4>1 DEF SpaceInv, SpaceTypeOK, LayoutInv
    <3>2. CASE r # q
      <4>1. r \in live /\ intact[r]
        BY <1>1, <2>2, <2>4, <3>2 DEF SpaceInv, SpaceTypeOK
      <4> QED
        BY <1>1, <2>2, <3>2, <4>1 DEF SpaceInv, SpaceTypeOK, LayoutInv
    <3> QED
      BY <3>1, <3>2
  <2> QED
    BY <2>4 DEF LayoutInv
<1> QED
  BY <1>4, <1>5, <1>6, <1>7, <1>8 DEF SpaceInv

\* Where a page is missing, exec() had failed.
LEMMA PanicInv ==
  ASSUME SpaceInv, NEW p \in Slot, p \in live => ~intact[p], Panic(p) PROVE SpaceInv'
<1> USE DEF SpaceInv, Panic, bounds
<1>1. SpaceTypeOK' /\ AlignInv' /\ FreeInv' /\ FramesInv'
  BY DEF SpaceTypeOK, AlignInv, Aligned, Up, PGROUNDUP, FreeInv, FramesInv, Frames
<1>2. LayoutInv'
  BY DEF LayoutInv, Wanted, Code, Heap, Stack
<1> QED
  BY <1>1, <1>2

\* fork() finds a page missing.
LEMMA ForkPanicsInv == ASSUME SpaceInv, NEW p \in Slot, ForkPanics(p) PROVE SpaceInv'
<1>1. p \in live => ~intact[p]
  BY DEF SpaceInv, LayoutInv, ForkPanics, Missing
<1> QED
  BY <1>1, PanicInv DEF ForkPanics

\* exec() replaces one program by another.
LEMMA ExecInv == ASSUME SpaceInv, NEW p \in Slot, Exec(p) PROVE SpaceInv'
<1>1. PICK end \in ProgramEnd :
        LET image == Pages(PGSIZE, end) \cup Pages(USERTOP - PGSIZE, USERTOP) IN
        /\ pages' = [pages EXCEPT ![p] = image]
        /\ kfreelist' = kfreelist - Cardinality(image) + Cardinality(pages[p])
        /\ sz' = [sz EXCEPT ![p] = HeapBot(end)]
        /\ heap_bot' = [heap_bot EXCEPT ![p] = HeapBot(end)]
  BY DEF Exec
<1> DEFINE image == Pages(PGSIZE, end) \cup Pages(USERTOP - PGSIZE, USERTOP)
<1>2. /\ pages' = [pages EXCEPT ![p] = image]
      /\ kfreelist' = kfreelist - Cardinality(image) + Cardinality(pages[p])
      /\ sz' = [sz EXCEPT ![p] = HeapBot(end)]
      /\ heap_bot' = [heap_bot EXCEPT ![p] = HeapBot(end)]
  BY <1>1
<1>3. image \in SUBSET Page
  BY DEF Pages
<1> HIDE DEF image
<1>4. /\ stack_low_bound' = [stack_low_bound EXCEPT ![p] = USERTOP - PGSIZE]
      /\ intact' = [intact EXCEPT ![p] = TRUE] /\ UNCHANGED <<live, panicked>>
      /\ p \in live /\ panicked = {}
  BY DEF Exec, MayRun
<1>5. FramesInv' /\ kfreelist' \in Int
  <2>1. Cardinality(image) \in Nat /\ Cardinality(pages[p]) \in Nat
    BY <1>3, FiniteDir, FS_CardinalityType DEF SpaceInv, SpaceTypeOK
  <2>2. kfreelist' = kfreelist + Cardinality(pages[p]) - Cardinality(image)
    BY <1>2, <2>1 DEF SpaceInv, SpaceTypeOK
  <2> QED
    BY <1>2, <1>3, <2>2, Accounts DEF SpaceInv
<1>6. SpaceTypeOK'
  BY <1>2, <1>3, <1>4, <1>5, Start DEF SpaceInv, SpaceTypeOK
<1>7. AlignInv'
  <2>1. /\ heap_bot'[p] = HeapBot(end) /\ stack_low_bound'[p] = USERTOP - PGSIZE
        /\ \A q \in Slot : q # p => /\ heap_bot'[q] = heap_bot[q]
                                    /\ stack_low_bound'[q] = stack_low_bound[q]
    BY <1>2, <1>4 DEF SpaceInv, SpaceTypeOK
  <2>2. \A a : Aligned(a)' = Aligned(a)
    BY DEF Aligned, Up, PGROUNDUP
  <2>3. USERTOP - PGSIZE <= USERTOP
    BY SpaceAssumption
  <2> QED
    BY <2>1, <2>2, <2>3, Start DEF SpaceInv, AlignInv
<1>8. LayoutInv' /\ FreeInv'
  <2>1. /\ sz'[p] = HeapBot(end) /\ heap_bot'[p] = HeapBot(end)
        /\ stack_low_bound'[p] = USERTOP - PGSIZE /\ pages'[p] = image
    BY <1>2, <1>4 DEF SpaceInv, SpaceTypeOK
  <2>2. Wanted(p)' = image
    <3>1. Wanted(p)' = Pages(PGSIZE, HeapBot(end) - PGSIZE) \cup Pages(HeapBot(end), HeapBot(end))
                        \cup Pages(USERTOP - PGSIZE, USERTOP)
      BY <2>1 DEF Wanted, Code, Heap, Stack
    <3> QED
      BY <3>1, Image DEF image
  <2>3. pages'[p] = Wanted(p)' /\ heap_bot'[p] <= sz'[p] /\ sz'[p] < stack_low_bound'[p]
    BY <2>1, <2>2, Start
  <2> QED
    BY <1>2, <1>4, <2>3, OtherSpaces DEF SpaceInv, SpaceTypeOK
<1> QED
  BY <1>5, <1>6, <1>7, <1>8 DEF SpaceInv

\* When exec() fails nothing else is wrong than heap_bot.
LEMMA ExecFailsInv == ASSUME SpaceInv, NEW p \in Slot, ExecFails(p) PROVE SpaceInv'
<1>1. /\ UNCHANGED <<live, sz, stack_low_bound, pages, kfreelist, panicked>>
      /\ p \in live /\ panicked = {}
      /\ intact' = [intact EXCEPT ![p] = @ /\ heap_bot' = heap_bot]
  BY DEF ExecFails, MayRun
<1>2. \/ heap_bot' = heap_bot
      \/ \E end \in ProgramEnd : heap_bot' = [heap_bot EXCEPT ![p] = HeapBot(end)]
  BY DEF ExecFails
<1>3. SpaceTypeOK'
  BY <1>1, <1>2, Start DEF SpaceInv, SpaceTypeOK
<1>4. AlignInv'
  <2>1. \A a : Aligned(a)' = Aligned(a)
    BY DEF Aligned, Up, PGROUNDUP
  <2> QED
    BY <1>1, <1>2, <2>1, Start DEF SpaceInv, SpaceTypeOK, AlignInv
<1>5. FramesInv'
  BY <1>1 DEF SpaceInv, FramesInv, Frames
<1>6. LayoutInv' /\ FreeInv'
  <2>1. ASSUME NEW q \in Slot, q # p PROVE heap_bot'[q] = heap_bot[q] /\ intact'[q] = intact[q]
    BY <1>1, <1>2, <2>1 DEF SpaceInv, SpaceTypeOK
  <2>2. ASSUME intact'[p]
        PROVE /\ pages'[p] = Wanted(p)' /\ heap_bot'[p] <= sz'[p] /\ sz'[p] < stack_low_bound'[p]
    <3>1. intact[p] /\ heap_bot' = heap_bot
      BY <1>1, <2>2 DEF SpaceInv, SpaceTypeOK
    <3>2. Wanted(p)' = Wanted(p)
      BY <1>1, <3>1 DEF Wanted, Code, Heap, Stack
    <3> QED
      BY <1>1, <3>1, <3>2 DEF SpaceInv, LayoutInv
  <2> QED
    BY <1>1, <2>1, <2>2, OtherSpaces
<1> QED
  BY <1>3, <1>4, <1>5, <1>6 DEF SpaceInv

\* A process changes its size, and its pages are what LayoutInv says.
LEMMA ResizeInv ==
  ASSUME SpaceInv, NEW p \in live, NEW new \in SUBSET Page, NEW size \in Nat,
         NEW low \in Nat, Aligned(low), low <= USERTOP,
         UNCHANGED <<live, heap_bot, intact, panicked>>,
         pages' = [pages EXCEPT ![p] = new], sz' = [sz EXCEPT ![p] = size],
         stack_low_bound' = [stack_low_bound EXCEPT ![p] = low],
         kfreelist' = kfreelist + Cardinality(pages[p]) - Cardinality(new),
         intact[p] => /\ heap_bot[p] <= size /\ size < low
                      /\ new = Code(p) \cup Pages(heap_bot[p], size) \cup Pages(low, USERTOP)
  PROVE  SpaceInv'
<1>1. p \in Slot
  BY DEF SpaceInv, SpaceTypeOK
<1>2. FramesInv' /\ kfreelist' \in Int
  BY <1>1, Accounts DEF SpaceInv
<1>3. SpaceTypeOK'
  BY <1>1, <1>2 DEF SpaceInv, SpaceTypeOK
<1>4. AlignInv'
  BY <1>1 DEF SpaceInv, SpaceTypeOK, AlignInv, Aligned, Up, PGROUNDUP
<1>5. LayoutInv' /\ FreeInv'
  <2>1. pages'[p] = new /\ sz'[p] = size /\ stack_low_bound'[p] = low
    BY <1>1 DEF SpaceInv, SpaceTypeOK
  <2>2. Wanted(p)' = Code(p) \cup Pages(heap_bot[p], size) \cup Pages(low, USERTOP)
    BY <2>1 DEF Wanted, Code, Heap, Stack
  <2>3. intact[p] => p \notin panicked
    BY DEF SpaceInv, LayoutInv
  <2> QED
    BY <1>1, <2>1, <2>2, <2>3, OtherSpaces DEF SpaceInv, SpaceTypeOK
<1> QED
  BY <1>2, <1>3, <1>4, <1>5 DEF SpaceInv

\* Nothing else of p lies between the end of its heap and its stack.
LEMMA Bounds ==
  ASSUME SpaceInv, NEW p \in live
  PROVE  /\ p \in Slot /\ sz[p] \in Nat /\ heap_bot[p] \in Nat /\ stack_low_bound[p] \in Nat
         /\ heap_bot[p] - PGSIZE \in Nat /\ PGSIZE \in Nat \ {0} /\ USERTOP \in Nat
         /\ Aligned(heap_bot[p]) /\ Aligned(stack_low_bound[p]) /\ stack_low_bound[p] <= USERTOP
         /\ Code(p) = Span(1, Up(heap_bot[p]) - 1)
         /\ Stack(p) = Span(Up(stack_low_bound[p]), Up(USERTOP))
         /\ intact[p] => /\ heap_bot[p] <= sz[p] /\ sz[p] < stack_low_bound[p]
                         /\ pages[p] = Code(p) \cup Heap(p) \cup Stack(p)
<1>1. /\ p \in Slot /\ sz[p] \in Nat /\ heap_bot[p] \in Nat /\ stack_low_bound[p] \in Nat
      /\ PGSIZE \in Nat \ {0} /\ USERTOP \in Nat
  BY SpaceAssumption DEF SpaceInv, SpaceTypeOK
<1>2. /\ Aligned(heap_bot[p]) /\ Aligned(stack_low_bound[p]) /\ stack_low_bound[p] <= USERTOP
      /\ heap_bot[p] - PGSIZE \in Nat
  BY <1>1 DEF SpaceInv, AlignInv
<1>3. Up(PGSIZE) = 1
  <2>1. 1 * PGSIZE = PGSIZE /\ Up(1 * PGSIZE) = 1
    BY <1>1, MultipleOf
  <2> QED
    BY <2>1
<1>4. Up(heap_bot[p] - PGSIZE) = Up(heap_bot[p]) - 1
  BY <1>1, <1>2, UpStep
<1>5. Code(p) = Span(1, Up(heap_bot[p]) - 1)
  BY <1>1, <1>2, <1>3, <1>4, PagesAre DEF Code
<1>6. Stack(p) = Span(Up(stack_low_bound[p]), Up(USERTOP))
  BY <1>1, PagesAre DEF Stack
<1>7. intact[p] => /\ heap_bot[p] <= sz[p] /\ sz[p] < stack_low_bound[p]
                  /\ pages[p] = Code(p) \cup Heap(p) \cup Stack(p)
  BY DEF SpaceInv, LayoutInv, Wanted
<1> QED
  BY <1>1, <1>2, <1>5, <1>6, <1>7

\* sbrk() with a positive argument: a page is left, so nothing is mapped twice.
LEMMA GrowInv == ASSUME SpaceInv, NEW p \in Slot, Grow(p) PROVE SpaceInv'
<1>1. PICK n \in Change :
        LET new == Pages(sz[p], sz[p] + n) IN
        /\ MayRun(p) /\ BelowStack(p, n)
        /\ IF new \cap pages[p] # {} THEN Panic(p)
           ELSE /\ pages' = [pages EXCEPT ![p] = @ \cup new]
                /\ kfreelist' = kfreelist - Cardinality(new)
                /\ sz' = [sz EXCEPT ![p] = @ + n]
                /\ UNCHANGED <<live, heap_bot, stack_low_bound, max_stack_page, intact, panicked>>
  BY DEF Grow
<1> DEFINE new == Pages(sz[p], sz[p] + n)
<1>2. /\ p \in live /\ BelowStack(p, n) /\ n \in Nat /\ new \in SUBSET Page
  BY <1>1, SpaceAssumption DEF MayRun, Pages
<1>3. new \cap pages[p] # {} => Panic(p)
  BY <1>1
<1>4. new \cap pages[p] = {} =>
        /\ pages' = [pages EXCEPT ![p] = @ \cup new]
        /\ kfreelist' = kfreelist - Cardinality(new)
        /\ sz' = [sz EXCEPT ![p] = @ + n]
        /\ UNCHANGED <<live, heap_bot, stack_low_bound, intact, panicked>>
  BY <1>1
<1> DEFINE size == sz[p] + n
<1>5. size \in Nat /\ size + PGSIZE <= stack_low_bound[p]
  BY <1>2, Bounds DEF BelowStack
<1>6. new = Span(Up(sz[p]), Up(size))
  BY <1>2, <1>5, Bounds, PagesAre
<1> HIDE DEF new, size
<1>7. Page \subseteq Nat /\ Up(sz[p]) \in Nat /\ Up(size) \in Nat /\ Up(heap_bot[p]) \in Nat
      /\ Up(stack_low_bound[p]) \in Nat /\ Up(USERTOP) \in Nat
  BY <1>2, <1>5, Bounds, PagesAre, Below
<1>8. Up(sz[p]) <= Up(size) /\ Up(size) <= Up(stack_low_bound[p])
  BY <1>2, <1>5, Bounds, UpGrows DEF size
<1>9. ASSUME intact[p]
      PROVE  /\ new \cap pages[p] = {}
             /\ heap_bot[p] <= size /\ size < stack_low_bound[p]
             /\ pages[p] \cup new = Code(p) \cup Pages(heap_bot[p], size) \cup Stack(p)
  <2>1. Up(heap_bot[p]) <= Up(sz[p])
    BY <1>2, <1>9, Bounds, UpGrows
  <2>2. Heap(p) = Span(Up(heap_bot[p]), Up(sz[p]))
    BY <1>2, Bounds, PagesAre DEF Heap
  <2>3. Pages(heap_bot[p], size) = Span(Up(heap_bot[p]), Up(size))
    BY <1>2, <1>5, Bounds, PagesAre
  <2>4. Pages(heap_bot[p], size) = Heap(p) \cup new
    BY <1>6, <1>7, <1>8, <2>1, <2>2, <2>3, Spans
  <2>5. /\ pages[p] = Code(p) \cup Heap(p) \cup Stack(p)
        /\ Code(p) = Span(1, Up(heap_bot[p]) - 1)
        /\ Stack(p) = Span(Up(stack_low_bound[p]), Up(USERTOP))
    BY <1>2, <1>9, Bounds
  <2>6. new \cap Code(p) = {} /\ new \cap Heap(p) = {} /\ new \cap Stack(p) = {}
    <3>1. new \cap Heap(p) = {} /\ new \cap Stack(p) = {}
      <4>1. Span(Up(sz[p]), Up(size)) \cap Span(Up(heap_bot[p]), Up(sz[p])) = {}
        BY <1>7, Spans
      <4>2. Span(Up(sz[p]), Up(size)) \cap Span(Up(stack_low_bound[p]), Up(USERTOP)) = {}
        BY <1>7, <1>8, Apart
      <4> QED
        BY <1>6, <2>2, <2>5, <4>1, <4>2
    <3>2. Up(heap_bot[p]) - 1 \in Int /\ Up(heap_bot[p]) - 1 <= Up(sz[p])
      BY <1>7, <2>1
    <3>3. new \cap Code(p) = {}
      BY <1>6, <1>7, <2>5, <3>2, Spans
    <3> QED
      BY <3>1, <3>3
  <2>7. heap_bot[p] <= size /\ size < stack_low_bound[p]
    BY <1>2, <1>5, <1>9, Bounds DEF size
  <2> QED
    BY <2>4, <2>5, <2>6, <2>7
<1>10. CASE new \cap pages[p] # {}
  BY <1>3, <1>9, <1>10, PanicInv
<1>11. CASE new \cap pages[p] = {}
  <2>1. /\ pages[p] \in SUBSET Page
        /\ stack_low_bound' = [stack_low_bound EXCEPT ![p] = stack_low_bound[p]]
        /\ pages' = [pages EXCEPT ![p] = pages[p] \cup new] /\ sz' = [sz EXCEPT ![p] = size]
    BY <1>4, <1>11 DEF SpaceInv, SpaceTypeOK, size
  <2>2. Cardinality(pages[p] \cup new) = Cardinality(pages[p]) + Cardinality(new)
        /\ Cardinality(new) \in Nat /\ Cardinality(pages[p]) \in Nat
    BY <1>2, <1>11, <2>1, Disjoint
  <2>3. kfreelist' = kfreelist + Cardinality(pages[p]) - Cardinality(pages[p] \cup new)
    BY <1>4, <1>11, <2>2 DEF SpaceInv, SpaceTypeOK
  <2>4. pages[p] \cup new \in SUBSET Page
    BY <1>2, <2>1
  <2>5. intact[p] => /\ heap_bot[p] <= size /\ size < stack_low_bound[p]
          /\ pages[p] \cup new
               = Code(p) \cup Pages(heap_bot[p], size) \cup Pages(stack_low_bound[p], USERTOP)
    BY <1>9 DEF Stack
  <2> QED
    BY <1>2, <1>4, <1>5, <1>11, <2>1, <2>3, <2>4, <2>5, Bounds, ResizeInv
<1> QED
  BY <1>10, <1>11

\* sbrk() with a negative argument, down to heap_bot at most.
LEMMA ShrinkInv == ASSUME SpaceInv, NEW p \in Slot, Shrink(p) PROVE SpaceInv'
<1>1. PICK n \in Change :
        LET old == Pages(sz[p] - n, sz[p]) \cap pages[p] IN
        /\ MayRun(p) /\ sz[p] - n >= heap_bot[p] /\ BelowStack(p, -n)
        /\ pages' = [pages EXCEPT ![p] = @ \ old]
        /\ kfreelist' = kfreelist + Cardinality(old)
        /\ sz' = [sz EXCEPT ![p] = @ - n]
        /\ UNCHANGED <<live, heap_bot, stack_low_bound, max_stack_page, intact, panicked>>
  BY DEF Shrink
<1> DEFINE size == sz[p] - n
           between == Pages(size, sz[p])
           old == between \cap pages[p]
<1>2. /\ p \in live /\ n \in Nat /\ size >= heap_bot[p]
      /\ pages' = [pages EXCEPT ![p] = pages[p] \ old]
      /\ kfreelist' = kfreelist + Cardinality(old) /\ sz' = [sz EXCEPT ![p] = size]
      /\ UNCHANGED <<live, heap_bot, intact, panicked, stack_low_bound>>
  BY <1>1, SpaceAssumption DEF MayRun
<1>3. size \in Nat /\ size <= sz[p]
  BY <1>2, Bounds
<1>4. between = Span(Up(size), Up(sz[p]))
  BY <1>2, <1>3, Bounds, PagesAre
<1> HIDE DEF size, between
<1>5. /\ Up(sz[p]) \in Nat /\ Up(size) \in Nat /\ Up(heap_bot[p]) \in Nat
      /\ Up(stack_low_bound[p]) \in Nat /\ Up(USERTOP) \in Nat
  BY <1>2, <1>3, Bounds, Below
<1>6. Up(size) <= Up(sz[p]) /\ Up(heap_bot[p]) <= Up(size)
  BY <1>2, <1>3, Bounds, UpGrows
<1>7. ASSUME intact[p]
      PROVE  /\ heap_bot[p] <= size /\ size < stack_low_bound[p]
             /\ pages[p] \ old = Code(p) \cup Pages(heap_bot[p], size) \cup Stack(p)
  <2>1. Up(sz[p]) <= Up(stack_low_bound[p])
    BY <1>2, <1>7, Bounds, UpGrows
  <2>2. /\ pages[p] = Code(p) \cup Heap(p) \cup Stack(p)
        /\ Code(p) = Span(1, Up(heap_bot[p]) - 1)
        /\ Stack(p) = Span(Up(stack_low_bound[p]), Up(USERTOP))
    BY <1>2, <1>7, Bounds
  <2>3. Heap(p) = Span(Up(heap_bot[p]), Up(sz[p]))
    BY <1>2, Bounds, PagesAre DEF Heap
  <2>4. Pages(heap_bot[p], size) = Span(Up(heap_bot[p]), Up(size))
    BY <1>2, <1>3, Bounds, PagesAre
  <2>5. Heap(p) = Pages(heap_bot[p], size) \cup between
    BY <1>4, <1>5, <1>6, <2>3, <2>4, Spans
  <2>6. between \cap Pages(heap_bot[p], size) = {} /\ between \cap Stack(p) = {}
    <3>1. Span(Up(size), Up(sz[p])) \cap Span(Up(heap_bot[p]), Up(size)) = {}
      <4> DEFINE k == Up(heap_bot[p]) i == Up(size) l == Up(sz[p])
      <4>1. k \in Int /\ i \in Int /\ l \in Int /\ i <= i
        BY <1>5
      <4> HIDE DEF k, i, l
      <4>2. Span(i, l) \cap Span(k, i) = {}
        BY <4>1, Spans
      <4> QED
        BY <4>2 DEF k, i, l
    <3>2. Span(Up(size), Up(sz[p])) \cap Span(Up(stack_low_bound[p]), Up(USERTOP)) = {}
      BY <1>5, <2>1, Spans
    <3> QED
      BY <1>4, <2>2, <2>4, <3>1, <3>2
  <2>7. Up(heap_bot[p]) - 1 \in Int /\ Up(heap_bot[p]) - 1 <= Up(size)
    BY <1>5, <1>6
  <2>8. between \cap Code(p) = {}
    BY <1>4, <1>5, <2>2, <2>7, Spans
  <2>9. heap_bot[p] <= size /\ size < stack_low_bound[p]
    BY <1>2, <1>3, <1>7, Bounds
  <2> QED
    BY <2>2, <2>5, <2>6, <2>8, <2>9
<1>8. /\ pages[p] \in SUBSET Page /\ pages[p] \ old \in SUBSET Page /\ old \in SUBSET Page
      /\ (pages[p] \ old) \cup old = pages[p] /\ old \cap (pages[p] \ old) = {}
      /\ stack_low_bound' = [stack_low_bound EXCEPT ![p] = stack_low_bound[p]]
  BY <1>2 DEF SpaceInv, SpaceTypeOK
<1> HIDE DEF old
<1>9. kfreelist' = kfreelist + Cardinality(pages[p]) - Cardinality(pages[p] \ old)
  <2>1. /\ Cardinality(pages[p]) = Cardinality(pages[p] \ old) + Cardinality(old)
        /\ Cardinality(pages[p] \ old) \in Nat /\ Cardinality(old) \in Nat
    BY <1>8, Disjoint
  <2> QED
    BY <1>2, <2>1 DEF SpaceInv, SpaceTypeOK
<1>10. intact[p] => /\ heap_bot[p] <= size /\ size < stack_low_bound[p]
         /\ pages[p] \ old
              = Code(p) \cup Pages(heap_bot[p], size) \cup Pages(stack_low_bound[p], USERTOP)
  BY <1>7 DEF Stack
<1> QED
  BY <1>2, <1>3, <1>8, <1>9, <1>10, Bounds, ResizeInv

\* A page fault lets the stack grow: by a page that ends above the heap.
LEMMA StackGrowsInv == ASSUME SpaceInv, NEW p \in Slot, StackGrows(p) PROVE SpaceInv'
<1> DEFINE low == stack_low_bound[p] - PGSIZE
           new == Pages(low, stack_low_bound[p])
<1>1. /\ p \in live /\ new \cap pages[p] = {} /\ low > sz[p]
      /\ pages' = [pages EXCEPT ![p] = pages[p] \cup new] /\ kfreelist' = kfreelist - 1
      /\ stack_low_bound' = [stack_low_bound EXCEPT ![p] = low]
      /\ UNCHANGED <<live, sz, heap_bot, intact, panicked>>
  BY DEF StackGrows, MayRun, StackRoom
<1>2. low \in Nat /\ PGSIZE <= stack_low_bound[p] /\ low <= USERTOP
  BY <1>1, Bounds
<1>3. Up(low) = Up(stack_low_bound[p]) - 1 /\ Aligned(low)
  BY <1>1, <1>2, Bounds, UpStep
<1>4. new = Span(Up(low), Up(stack_low_bound[p]))
  BY <1>1, <1>2, Bounds, PagesAre
<1>5. /\ Up(sz[p]) \in Nat /\ Up(low) \in Nat /\ Up(stack_low_bound[p]) \in Nat
      /\ Up(USERTOP) \in Nat
  BY <1>1, <1>2, Bounds, Below
<1>6. Up(stack_low_bound[p]) <= Up(USERTOP)
  BY <1>1, Bounds, UpGrows
<1> HIDE DEF low, new
<1>7. new = {Up(low)} /\ new \in SUBSET Page
  <2>1. Up(low) \in Page
    <3>1. PICK k \in Nat : USERTOP = k * PGSIZE /\ k = USERTOP \div PGSIZE
      <4> DEFINE k == USERTOP \div PGSIZE
      <4>1. k \in Nat /\ USERTOP = k * PGSIZE
        BY SpaceAssumption
      <4> QED
        BY <4>1
    <3>2. Up(USERTOP) = k
      BY <3>1, SpaceAssumption, MultipleOf
    <3> QED
      BY <1>3, <1>5, <1>6, <3>1, <3>2 DEF Page
  <2>2. \A x \in Page : x \in Int
    BY 0 \in Nat, PagesAre
  <2> QED
    BY <1>3, <1>4, <1>5, <2>1, <2>2 DEF Span
<1>8. kfreelist' = kfreelist + Cardinality(pages[p]) - Cardinality(pages[p] \cup new)
  <2>1. pages[p] \in SUBSET Page
    BY DEF SpaceInv, SpaceTypeOK
  <2>2. /\ Cardinality(pages[p] \cup new) = Cardinality(pages[p]) + Cardinality(new)
        /\ Cardinality(new) = 1 /\ Cardinality(pages[p]) \in Nat
    BY <1>1, <1>7, <2>1, Disjoint, FS_Singleton
  <2> QED
    BY <1>1, <2>2 DEF SpaceInv, SpaceTypeOK
<1>9. intact[p] => /\ heap_bot[p] <= sz[p] /\ sz[p] < low
        /\ pages[p] \cup new = Code(p) \cup Pages(heap_bot[p], sz[p]) \cup Pages(low, USERTOP)
  <2>1. Pages(low, USERTOP) = Span(Up(low), Up(USERTOP))
    BY <1>1, <1>2, Bounds, PagesAre
  <2>2. Stack(p) = Span(Up(stack_low_bound[p]), Up(USERTOP))
    BY <1>1, Bounds
  <2>3. Pages(low, USERTOP) = new \cup Stack(p)
    BY <1>3, <1>4, <1>5, <1>6, <2>1, <2>2, Spans
  <2>4. intact[p] => heap_bot[p] <= sz[p] /\ sz[p] < low
                     /\ pages[p] = Code(p) \cup Heap(p) \cup Stack(p)
    BY <1>1, <1>2, Bounds
  <2> QED
    BY <2>3, <2>4 DEF Heap
<1>10. /\ pages[p] \cup new \in SUBSET Page /\ sz' = [sz EXCEPT ![p] = sz[p]]
       /\ sz[p] \in Nat
  BY <1>1, <1>7 DEF SpaceInv, SpaceTypeOK
<1> QED
  BY <1>1, <1>2, <1>3, <1>8, <1>9, <1>10, ResizeInv

\* The end of a process gives all its pages back.
LEMMA SpaceExitInv == ASSUME SpaceInv, NEW p \in Slot, SpaceExit(p) PROVE SpaceInv'
<1>1. /\ p \in live \ {init} /\ live' = live \ {p} /\ pages' = [pages EXCEPT ![p] = {}]
      /\ kfreelist' = kfreelist + Cardinality(pages[p])
      /\ UNCHANGED <<sz, heap_bot, stack_low_bound, intact, panicked>>
  BY DEF SpaceExit, MayRun, bounds
<1>2. FramesInv' /\ kfreelist' \in Int
  <2>1. Cardinality({}) = 0 /\ {} \in SUBSET Page /\ Cardinality(pages[p]) \in Nat
    BY FS_EmptySet, FiniteDir, FS_CardinalityType DEF SpaceInv, SpaceTypeOK
  <2>2. kfreelist' = kfreelist + Cardinality(pages[p]) - Cardinality({})
    BY <1>1, <2>1 DEF SpaceInv, SpaceTypeOK
  <2> QED
    BY <1>1, <2>1, <2>2, Accounts DEF SpaceInv
<1>3. SpaceTypeOK' /\ FreeInv'
  BY <1>1, <1>2 DEF SpaceInv, SpaceTypeOK, FreeInv
<1>4. AlignInv'
  BY <1>1 DEF SpaceInv, AlignInv, Aligned, Up, PGROUNDUP
<1>5. LayoutInv'
  <2>1. ASSUME NEW q \in live' PROVE q \in live /\ pages'[q] = pages[q] /\ Wanted(q)' = Wanted(q)
    BY <1>1 DEF SpaceInv, SpaceTypeOK, Wanted, Code, Heap, Stack
  <2> QED
    BY <1>1, <2>1 DEF SpaceInv, LayoutInv
<1> QED
  BY <1>2, <1>3, <1>4, <1>5 DEF SpaceInv

\* Every step keeps the invariant.
LEMMA SpaceNextInv == ASSUME SpaceInv, [SpaceNext]_spacevars PROVE SpaceInv'
<1>1. CASE UNCHANGED spacevars
  BY <1>1 DEF spacevars, SpaceInv, SpaceTypeOK, AlignInv, Aligned, Up, PGROUNDUP, FreeInv,
     LayoutInv, FramesInv, Frames, Wanted, Code, Heap, Stack
<1>2. CASE SpaceNext
  BY <1>2, ForkInv, ForkPanicsInv, ExecInv, ExecFailsInv, GrowInv, ShrinkInv, StackGrowsInv,
     SpaceExitInv DEF SpaceNext
<1> QED
  BY <1>1, <1>2

\* What argptr() accepts of a process other than pid 1 lies in a part, unless its
\* end wraps, and a part is mapped page for page.
LEMMA ArgumentsInside ==
  ASSUME SpaceInv, NEW p \in live, intact[p], p # init PROVE InSpace(p)
<1> SUFFICES ASSUME NEW a \in 0..UintRange - 1, NEW size \in 0..UintRange - 1,
                    a + size < UintRange, argptr(p, a, size),
                    NEW b \in a..a + size - 1
             PROVE  b \div PGSIZE \in pages[p]
  BY DEF InSpace
<1>0. (a + size) % UintRange = a + size
  <2>1. UintRange \in Nat /\ UintRange # 0 /\ a + size \in 0..UintRange - 1 /\ a + size \in Int
    BY SpaceAssumption
  <2>2. a + size = 0 * UintRange + (a + size) /\ 0 \in Int
    BY <2>1
  <2>3. Mod(a + size, UintRange) = a + size
    BY <2>1, <2>2, ModIs
  <2> QED
    BY <2>3 DEF Mod
<1>1. /\ PGSIZE \in Nat \ {0} /\ USERTOP \in Nat /\ sz[p] \in Nat /\ heap_bot[p] \in Nat
      /\ heap_bot[p] - PGSIZE \in Nat /\ stack_low_bound[p] \in Nat
      /\ heap_bot[p] <= sz[p] /\ sz[p] < stack_low_bound[p] /\ stack_low_bound[p] <= USERTOP
      /\ pages[p] = Code(p) \cup Heap(p) \cup Stack(p)
  BY Bounds
<1>2. b \in Nat /\ a <= b /\ b < a + size /\ a \in Nat /\ size \in Nat
  BY SpaceAssumption
<1> DEFINE k == b \div PGSIZE
<1>3. k \in Nat /\ k * PGSIZE <= b /\ b < (k + 1) * PGSIZE
  BY <1>1, <1>2
<1>4. k * PGSIZE \in Nat /\ (k + 1) * PGSIZE \in Nat
  BY <1>1, <1>3
<1> HIDE DEF k
<1>5. ASSUME NEW from \in Nat, NEW to \in Nat, Aligned(from), from <= b, b < to, to <= USERTOP
      PROVE  k \in Pages(from, to)
  <2>1. Up(from) \in Nat /\ from = Up(from) * PGSIZE
    BY <1>5, Below DEF Aligned
  <2>2. Up(from) <= k
    <3>1. Up(from) * PGSIZE < (k + 1) * PGSIZE
      BY <1>2, <1>3, <1>4, <1>5, <2>1
    <3>2. Up((k + 1) * PGSIZE) = k + 1
      BY <1>3, <1>4, MultipleOf
    <3>3. Up(from) < k + 1
      BY <1>4, <2>1, <3>1, <3>2, Below
    <3> QED
      BY <1>3, <2>1, <3>3
  <2>3. k * PGSIZE < to
    BY <1>2, <1>3, <1>4, <1>5
  <2>4. k \in Page
    <3>1. PICK u \in Nat : USERTOP = u * PGSIZE /\ u = USERTOP \div PGSIZE
      <4> DEFINE u == USERTOP \div PGSIZE
      <4>1. u \in Nat /\ USERTOP = u * PGSIZE
        BY SpaceAssumption
      <4> QED
        BY <4>1
    <3>2. Up(USERTOP) = u
      BY <1>1, <3>1, MultipleOf
    <3>3. k * PGSIZE < USERTOP
      BY <1>1, <1>4, <1>5, <2>3
    <3>4. \A i \in Int : i * PGSIZE < USERTOP <=> i < Up(USERTOP)
      BY <1>1, Below
    <3>5. k < u
      BY <1>3, <3>2, <3>3, <3>4
    <3> QED
      BY <1>3, <3>1, <3>5 DEF Page
  <2> QED
    BY <2>2, <2>3, <2>4 DEF Pages, Up
<1>6. CASE a >= PGSIZE /\ a + size <= heap_bot[p] - PGSIZE
  <2>1. Aligned(PGSIZE)
    <3>1. 1 * PGSIZE = PGSIZE /\ Up(1 * PGSIZE) = 1
      BY <1>1, MultipleOf
    <3> QED
      BY <3>1 DEF Aligned
  <2>2. k \in Pages(PGSIZE, heap_bot[p] - PGSIZE)
    BY <1>1, <1>2, <1>5, <1>6, <2>1
  <2> QED
    BY <1>1, <2>2 DEF Code, k
<1>7. CASE a >= heap_bot[p] /\ a + size <= sz[p]
  <2>1. k \in Pages(heap_bot[p], sz[p])
    BY <1>1, <1>2, <1>5, <1>7, Bounds
  <2> QED
    BY <1>1, <2>1 DEF Heap, k
<1>8. CASE a >= stack_low_bound[p] /\ a + size <= USERTOP
  <2>1. k \in Pages(stack_low_bound[p], USERTOP)
    BY <1>1, <1>2, <1>5, <1>8, Bounds
  <2> QED
    BY <1>1, <2>1 DEF Stack, k
<1> QED
  BY <1>0, <1>6, <1>7, <1>8 DEF argptr

\* The memory of a process is its program, heap and stack, page for page, over
\* any sequence of fork(), exec(), sbrk() and page faults of any number of
\* processes in which no exec() fails late, and the arguments that argptr()
\* accepts lie in it: those of processes other than pid 1 whose end does not wrap.
THEOREM SpaceIsLaidOut == SpaceSpec => []SpaceLaidOut
<1>1. SpaceInit => SpaceInv
  BY SpaceInitInv
<1>2. SpaceInv /\ [SpaceNext]_spacevars => SpaceInv'
  BY SpaceNextInv
<1>3. SpaceInv => SpaceLaidOut
  BY ArgumentsInside DEF SpaceInv, FramesInv, LayoutInv, Wanted, SpaceLaidOut
<1> QED
  BY <1>1, <1>2, <1>3, PTL DEF SpaceSpec
=============================================================================
