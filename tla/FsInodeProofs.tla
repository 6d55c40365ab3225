--------------------------- MODULE FsInodeProofs ---------------------------
(***************************************************************************)
(* The reference counts of the inode cache, for any number of processes    *)
(* and of inodes and for all trees and calls.  The rest are lemmas for     *)
(* FsDiskProofs: what the second invariant of FsDisk says of a call, and   *)
(* what each step of FsInode does to that.                                 *)
(***************************************************************************)
EXTENDS FsDisk, FiniteSetTheorems, WellFoundedInduction, TLAPS

-----------------------------------------------------------------------------
(* Counting *)

Pairs(S, f) == {x \in S \X (1..7) : x[2] <= f[x[1]]}

\* A process accounts for as many pairs of Holders as it has pointers, and the
\* others for the same as before.
LEMMA Shares ==
  ASSUME NEW S, IsFiniteSet(S), NEW p \in S, NEW f, NEW g,
         \A q \in S : f[q] \in 0..7 /\ g[q] \in 0..7,
         \A q \in S \ {p} : g[q] = f[q]
  PROVE  Cardinality(Pairs(S, g)) = Cardinality(Pairs(S, f)) + g[p] - f[p]
<1> DEFINE Rest == {x \in (S \ {p}) \X (1..7) : x[2] <= f[x[1]]}
           Of(n) == {p} \X (1..n)
<1>1. IsFiniteSet(Rest)
  <2>1. IsFiniteSet(S \ {p})
    BY FS_RemoveElement
  <2>0. 1 \in Int /\ 7 \in Int
    OBVIOUS
  <2>3. IsFiniteSet(1..7)
    BY ONLY <2>0, FS_Interval
  <2>2. IsFiniteSet((S \ {p}) \X (1..7))
    BY <2>1, <2>3, FS_Product
  <2> QED
    BY <2>2, FS_Subset
<1>2. ASSUME NEW n \in 0..7
      PROVE  /\ Cardinality(Rest \cup Of(n)) = Cardinality(Rest) + n
  <2>1. IsFiniteSet({p}) /\ Cardinality({p}) = 1
    BY FS_Singleton
  <2>7. n \in Int /\ 1 \in Int /\ (1 > n => n = 0)
    OBVIOUS
  <2>2. IsFiniteSet(1..n) /\ Cardinality(1..n) = n
    BY <2>7, FS_Interval
  <2>8. Cardinality({p}) * Cardinality(1..n) = n
    BY <2>1, <2>2
  <2>3. IsFiniteSet(Of(n)) /\ Cardinality(Of(n)) = n
    BY <2>1, <2>2, <2>8, FS_Product
  <2>4. Rest \cap Of(n) = {}
    OBVIOUS
  <2>5. Cardinality(Rest) \in Nat
    BY <1>1, FS_CardinalityType
  <2> HIDE DEF Rest, Of
  <2>6. Cardinality(Rest \cup Of(n)) = Cardinality(Rest) + n - Cardinality({})
    BY <1>1, <2>3, <2>4, FS_Union
  <2> QED
    BY <2>5, <2>6, FS_EmptySet
<1>3. Pairs(S, f) = Rest \cup Of(f[p])
  BY DEF Pairs
<1>4. Pairs(S, g) = Rest \cup Of(g[p])
  BY DEF Pairs
<1>5. Cardinality(Rest) \in Nat
  BY <1>1, FS_CardinalityType
<1> HIDE DEF Rest, Of
<1>6. /\ Cardinality(Rest \cup Of(f[p])) = Cardinality(Rest) + f[p]
      /\ Cardinality(Rest \cup Of(g[p])) = Cardinality(Rest) + g[p]
  BY <1>2
<1> QED
  <2>1. f[p] \in Int /\ g[p] \in Int
    OBVIOUS
  <2>2. /\ Cardinality(Pairs(S, f)) = Cardinality(Rest) + f[p]
        /\ Cardinality(Pairs(S, g)) = Cardinality(Rest) + g[p]
    BY <1>3, <1>4, <1>6
  <2> QED
    BY <1>5, <2>1, <2>2

\* What the others have and hold, a step of p leaves alone.
Others(p) == \A q \in Process \ {p} :
    t'[q] = t[q] /\ cwd'[q] = cwd[q] /\ file'[q] = file[q]

\* The pointers of a process that has c, f and r.
Owns(c, f, r, i) ==
    One(c = i) + One(f = i) + One(r.at = i) + One(r.dp = i) + One(r.ip = i /\ r.pc # "iget")
    + One(First(r) = i) + One(Second(r) = i)

LEMMA PointersAre ==
  ASSUME NEW p, NEW i \in Inum
  PROVE  /\ Pointers(p, i) = Owns(cwd[p], file[p], t[p], i)
         /\ Pointers(p, i)' = Owns(cwd'[p], file'[p], t'[p], i)
BY DEF Pointers, Owns, First, Second, One, Inum, None

LEMMA OwesNone ==
  ASSUME NEW r, r.puts = <<>>
  PROVE  First(r) = None /\ Second(r) = None
BY DEF First, Second

\* What is on the disk and what processes have, the cache and the calls apart.
StoreTyped ==
    /\ dinode \in [Inum -> [type : Type, nlink : Int, addr : Block \cup {None}]]
    /\ bitmap \subseteq Block /\ dirent \in [Block -> [Entry -> Inum \cup {None}]]
    /\ cwd \in [Process -> Inum] /\ file \in [Process -> Inum \cup {None}]
    /\ calls \in 0..MaxCalls

\* A step of p that changes the counts as it changes its own pointers keeps the
\* books; of the rest of the invariant only its own part is to be shown.
LEMMA Ledger ==
  ASSUME IInv, NEW p \in Process, Others(p), StoreTyped', CacheTyped(icache'),
         programs' = programs, t' = [q \in Process |-> t'[q]], Sound(t'[p], file'[p]),
         \A i \in Inum : icache'[i].ref = icache[i].ref + Owns(cwd'[p], file'[p], t'[p], i)
                                            - Owns(cwd[p], file[p], t[p], i)
  PROVE  IInv'
<1>1. ASSUME NEW q \in Process PROVE Sound(t'[q], file'[q])
  BY DEF IInv, Others
<1>2. ASSUME NEW i \in Inum PROVE icache'[i].ref = Cardinality(Holders(i))'
  <2> DEFINE f == [q \in Process |-> Pointers(q, i)]
             g == [q \in Process |-> Pointers(q, i)']
  <2>1. \A q \in Process : f[q] \in 0..7 /\ g[q] \in 0..7
    BY DEF Pointers, One
  <2>2. \A q \in Process \ {p} : g[q] = f[q]
    BY DEF Others, Pointers
  <2>3. Holders(i) = Pairs(Process, f) /\ Holders(i)' = Pairs(Process, g)
    BY DEF Holders, Pairs
  <2>4. f[p] = Pointers(p, i) /\ g[p] = Pointers(p, i)'
    OBVIOUS
  <2> HIDE DEF f, g
  <2>5. Cardinality(Pairs(Process, g)) = Cardinality(Pairs(Process, f)) + g[p] - f[p]
    BY <2>1, <2>2, Shares, FsAssumption
  <2>6. icache'[i].ref = icache[i].ref + g[p] - f[p]
    BY <2>4, PointersAre
  <2> QED
    BY <2>6, <2>3, <2>4, <2>5 DEF IInv, RefsCounted
<1>3. ASSUME NEW i \in Inum PROVE Cardinality(Holders(i))' \in Nat
  <2>1. IsFiniteSet(Process \X (1..7))
    <3>1. 1 \in Int /\ 7 \in Int
      OBVIOUS
    <3>2. IsFiniteSet(1..7)
      BY ONLY <3>1, FS_Interval
    <3> QED
      BY <3>2, FsAssumption, FS_Product
  <2>2. Holders(i)' \in SUBSET (Process \X (1..7))
    BY DEF Holders
  <2> QED
    BY <2>1, <2>2, FS_Subset, FS_CardinalityType
<1>4. TypeOK'
  BY <1>2, <1>3 DEF TypeOK, StoreTyped, CacheTyped, SlotTyped
<1> QED
  BY <1>1, <1>2, <1>4 DEF IInv, RefsCounted, Sound, CallTyped

\* What a step that touches none of it keeps.
LEMMA Unmoved ==
  ASSUME IInv, UNCHANGED <<dinode, bitmap, dirent, icache, cwd, file, t, calls, programs>>
  PROVE  IInv'
<1>1. TypeOK' /\ CacheTyped(icache)' /\ programs' \in DOMAIN Jobs
      /\ t' = [p \in Process |-> t'[p]]
  BY DEF IInv, TypeOK, CacheTyped
<1>2. ASSUME NEW p \in Process PROVE Sound(t'[p], file'[p])
  BY DEF IInv, Sound, CallTyped
<1>3. ASSUME NEW i \in Inum PROVE Holders(i)' = Holders(i)
  BY DEF Holders, Pointers
<1> QED
  BY <1>1, <1>2, <1>3 DEF IInv, RefsCounted, CacheTyped, Sound, CallTyped

-----------------------------------------------------------------------------
(* The helpers of the actions *)

\* What a process is at the start of a step.
LEMMA Now ==
  ASSUME IInv, NEW p \in Process
  PROVE  /\ TypeOK /\ CacheTyped(icache) /\ Sound(t[p], file[p])
         /\ programs \in DOMAIN Jobs
         /\ \A i \in Inum : icache[i].ref >= 0 /\ icache[i].ref \in Int
BY DEF IInv, TypeOK

\* How a process goes on: as in d ...
LEMMA Goes ==
  ASSUME IInv, NEW p \in Process, t[p].pc \notin PutPc, NEW d, Set(p, d),
         "pc" \in DOMAIN d, d.pc \notin PutPc, "puts" \notin DOMAIN d
  PROVE  /\ t' = [q \in Process |-> t'[q]] /\ \A q \in Process \ {p} : t'[q] = t[q]
         /\ t'[p].pc = d.pc /\ Label(t'[p]) = d.pc /\ Label(t[p]) = t[p].pc
         /\ t'[p].at = IF "at" \in DOMAIN d THEN d.at ELSE t[p].at
         /\ t'[p].dp = IF "dp" \in DOMAIN d THEN d.dp ELSE t[p].dp
         /\ t'[p].ip = IF "ip" \in DOMAIN d THEN d.ip ELSE t[p].ip
         /\ t'[p].job = IF "job" \in DOMAIN d THEN d.job ELSE t[p].job
         /\ t'[p].path = IF "path" \in DOMAIN d THEN d.path ELSE t[p].path
         /\ First(t[p]) = None /\ Second(t[p]) = None
         /\ First(t'[p]) = None /\ Second(t'[p]) = None
         /\ /\ d.pc \in Pc /\ (t[p].pc # "idle" \/ "job" \in DOMAIN d)
            /\ "path" \in DOMAIN d => d.path \in Seq(Entry)
            /\ "job" \in DOMAIN d => d.job \in Jobs[programs]
            => CallTyped(t'[p])
<1>1. /\ t = [q \in Process |-> t[q]] /\ t[p] = [f \in Fields |-> t[p][f]]
      /\ t[p].puts = <<>> /\ t[p].puts \in Seq(Inum)
  BY DEF IInv, Sound, CallTyped
<1>2. /\ t' = [q \in Process |-> t'[q]] /\ \A q \in Process \ {p} : t'[q] = t[q]
      /\ t'[p] = [f \in Fields |-> IF f \in DOMAIN d THEN d[f] ELSE t[p][f]]
  BY <1>1 DEF Set, With
<1>3. /\ t'[p] = [f \in Fields |-> t'[p][f]] /\ t'[p].puts = <<>> /\ t'[p].pc = d.pc
  BY <1>1, <1>2 DEF Fields
<1>4. First(t[p]) = None /\ Second(t[p]) = None /\ First(t'[p]) = None /\ Second(t'[p]) = None
  BY <1>1, <1>3, OwesNone
<1>5. ASSUME d.pc \in Pc, t[p].pc # "idle" \/ "job" \in DOMAIN d,
             "path" \in DOMAIN d => d.path \in Seq(Entry),
             "job" \in DOMAIN d => d.job \in Jobs[programs]
      PROVE  CallTyped(t'[p])
  <2>1. /\ t[p].pc # "idle" => t[p].job \in Jobs[programs]
        /\ t[p].path \in Seq(Entry)
    BY DEF IInv, Sound, CallTyped
  <2>2. t'[p].path \in Seq(Entry) /\ t'[p].job \in Jobs[programs]
    BY <1>2, <1>5, <2>1 DEF Fields
  <2> QED
    BY <1>1, <1>3, <1>5, <2>2 DEF CallTyped
<1> QED
  BY <1>2, <1>3, <1>4, <1>5 DEF Fields, Label

\* ... or, once the references in s are put, at l.
LEMMA Gives ==
  ASSUME IInv, NEW p \in Process, t[p].pc \notin PutPc, NEW s, NEW l, NEW d,
         Puts(p, s, l, d), l \in ThenPc, s \in Seq(Inum), Len(s) \in {1, 2}
  PROVE  /\ t' = [q \in Process |-> t'[q]] /\ \A q \in Process \ {p} : t'[q] = t[q]
         /\ t'[p].pc = "iput" /\ Label(t'[p]) = l /\ Label(t[p]) = t[p].pc
         /\ t'[p].at = IF "at" \in DOMAIN d THEN d.at ELSE t[p].at
         /\ t'[p].dp = IF "dp" \in DOMAIN d THEN d.dp ELSE t[p].dp
         /\ t'[p].ip = IF "ip" \in DOMAIN d THEN d.ip ELSE t[p].ip
         /\ t'[p].job = IF "job" \in DOMAIN d THEN d.job ELSE t[p].job
         /\ t'[p].path = IF "path" \in DOMAIN d THEN d.path ELSE t[p].path
         /\ First(t[p]) = None /\ Second(t[p]) = None
         /\ First(t'[p]) = s[1] /\ Second(t'[p]) = IF Len(s) = 2 THEN s[2] ELSE None
         /\ /\ t[p].pc # "idle" \/ "job" \in DOMAIN d
            /\ "path" \in DOMAIN d => d.path \in Seq(Entry)
            /\ "job" \in DOMAIN d => d.job \in Jobs[programs]
            => CallTyped(t'[p])
<1>1. /\ t = [q \in Process |-> t[q]] /\ t[p] = [f \in Fields |-> t[p][f]] /\ t[p].puts = <<>>
  BY DEF IInv, Sound, CallTyped
<1>2. /\ t' = [q \in Process |-> t'[q]] /\ \A q \in Process \ {p} : t'[q] = t[q]
      /\ t'[p] = [f \in Fields |->
               IF f = "pc" THEN "iput" ELSE IF f = "puts" THEN s ELSE IF f = "then" THEN l
               ELSE IF f \in DOMAIN d THEN d[f] ELSE t[p][f]]
  <2> DEFINE w == With(t[p], d)
             u == With(w, [pc |-> "iput", puts |-> s, then |-> l])
  <2>1. w = [f \in Fields |-> IF f \in DOMAIN d THEN d[f] ELSE t[p][f]]
    BY <1>1 DEF With
  <2>2. t' = [t EXCEPT ![p] = u]
    BY DEF Puts
  <2> HIDE DEF w
  <2>3. u = [f \in Fields |->
               IF f = "pc" THEN "iput" ELSE IF f = "puts" THEN s ELSE IF f = "then" THEN l
               ELSE w[f]]
    BY <2>1 DEF With, Fields
  <2> HIDE DEF u
  <2> QED
    BY <1>1, <2>1, <2>2, <2>3
<1>3. /\ t'[p] = [f \in Fields |-> t'[p][f]] /\ t'[p].puts = s /\ t'[p].pc = "iput"
      /\ t'[p].then = l
  BY <1>2 DEF Fields
<1>4. /\ First(t[p]) = None /\ Second(t[p]) = None
      /\ First(t'[p]) = s[1] /\ Second(t'[p]) = IF Len(s) = 2 THEN s[2] ELSE None
  BY <1>1, <1>3, OwesNone DEF First, Second
<1>5. ASSUME t[p].pc # "idle" \/ "job" \in DOMAIN d,
             "path" \in DOMAIN d => d.path \in Seq(Entry),
             "job" \in DOMAIN d => d.job \in Jobs[programs]
      PROVE  CallTyped(t'[p])
  <2>1. /\ t[p].pc # "idle" => t[p].job \in Jobs[programs]
        /\ t[p].path \in Seq(Entry)
    BY DEF IInv, Sound, CallTyped
  <2>2. t'[p].path \in Seq(Entry) /\ t'[p].job \in Jobs[programs]
    BY <1>2, <1>5, <2>1 DEF Fields
  <2> QED
    BY <1>1, <1>3, <1>5, <2>2 DEF CallTyped, Pc, PutPc, ThenPc
<1> QED
  BY <1>2, <1>3, <1>4, <1>5 DEF Fields, Label, PutPc

LEMMA GivesOne ==
  ASSUME IInv, NEW p \in Process, t[p].pc \notin PutPc, NEW i \in Inum, NEW l, NEW d,
         Puts(p, <<i>>, l, d), l \in ThenPc
  PROVE  /\ t' = [q \in Process |-> t'[q]] /\ \A q \in Process \ {p} : t'[q] = t[q]
         /\ t'[p].pc = "iput" /\ Label(t'[p]) = l /\ Label(t[p]) = t[p].pc
         /\ t'[p].at = IF "at" \in DOMAIN d THEN d.at ELSE t[p].at
         /\ t'[p].dp = IF "dp" \in DOMAIN d THEN d.dp ELSE t[p].dp
         /\ t'[p].ip = IF "ip" \in DOMAIN d THEN d.ip ELSE t[p].ip
         /\ t'[p].job = IF "job" \in DOMAIN d THEN d.job ELSE t[p].job
         /\ t'[p].path = IF "path" \in DOMAIN d THEN d.path ELSE t[p].path
         /\ First(t[p]) = None /\ Second(t[p]) = None
         /\ First(t'[p]) = i /\ Second(t'[p]) = None
         /\ /\ t[p].pc # "idle" \/ "job" \in DOMAIN d
            /\ "path" \in DOMAIN d => d.path \in Seq(Entry)
            /\ "job" \in DOMAIN d => d.job \in Jobs[programs]
            => CallTyped(t'[p])
<1> DEFINE s == <<i>>
<1>1. s \in Seq(Inum) /\ Len(s) = 1 /\ s[1] = i
  OBVIOUS
<1> HIDE DEF s
<1>2. Puts(p, s, l, d)
  BY DEF s
<1> QED
  BY <1>1, <1>2, Gives

LEMMA GivesTwo ==
  ASSUME IInv, NEW p \in Process, t[p].pc \notin PutPc, NEW i \in Inum, NEW j \in Inum,
     NEW l, NEW d,
         Puts(p, <<i, j>>, l, d), l \in ThenPc
  PROVE  /\ t' = [q \in Process |-> t'[q]] /\ \A q \in Process \ {p} : t'[q] = t[q]
         /\ t'[p].pc = "iput" /\ Label(t'[p]) = l /\ Label(t[p]) = t[p].pc
         /\ t'[p].at = IF "at" \in DOMAIN d THEN d.at ELSE t[p].at
         /\ t'[p].dp = IF "dp" \in DOMAIN d THEN d.dp ELSE t[p].dp
         /\ t'[p].ip = IF "ip" \in DOMAIN d THEN d.ip ELSE t[p].ip
         /\ t'[p].job = IF "job" \in DOMAIN d THEN d.job ELSE t[p].job
         /\ t'[p].path = IF "path" \in DOMAIN d THEN d.path ELSE t[p].path
         /\ First(t[p]) = None /\ Second(t[p]) = None
         /\ First(t'[p]) = i /\ Second(t'[p]) = j
         /\ /\ t[p].pc # "idle" \/ "job" \in DOMAIN d
            /\ "path" \in DOMAIN d => d.path \in Seq(Entry)
            /\ "job" \in DOMAIN d => d.job \in Jobs[programs]
            => CallTyped(t'[p])
<1> DEFINE s == <<i, j>>
<1>1. s \in Seq(Inum) /\ Len(s) = 2 /\ s[1] = i /\ s[2] = j
  OBVIOUS
<1> HIDE DEF s
<1>2. Puts(p, s, l, d)
  BY DEF s
<1> QED
  BY <1>1, <1>2, Gives

\* One slot of a cache is filled anew.
LEMMA CacheSlot ==
  ASSUME NEW c, CacheTyped(c), NEW i \in Inum, NEW r, SlotTyped(r)
  PROVE  /\ CacheTyped([c EXCEPT ![i] = r])
         /\ \A j \in Inum : [c EXCEPT ![i] = r][j].ref = IF i = j THEN r.ref ELSE c[j].ref
BY DEF CacheTyped

\* Reading an inode in changes no count; iget() and idup() add one.
LEMMA CacheRead ==
  ASSUME TypeOK, NEW c, CacheTyped(c), NEW i \in Inum
  PROVE  CacheTyped(Read(c, i)) /\ \A j \in Inum : Read(c, i)[j].ref = c[j].ref
<1> DEFINE r == [ref |-> c[i].ref, busy |-> c[i].busy, valid |-> TRUE,
                 type |-> dinode[i].type, nlink |-> dinode[i].nlink, addr |-> dinode[i].addr]
<1>1. SlotTyped(r) /\ r.ref = c[i].ref
  BY DEF TypeOK, CacheTyped, SlotTyped, SlotFields
<1>2. Read(c, i) = IF c[i].valid THEN c ELSE [c EXCEPT ![i] = r]
  BY DEF Read
<1> HIDE DEF r
<1> QED
  BY <1>1, <1>2, CacheSlot

LEMMA CacheGet ==
  ASSUME NEW c, CacheTyped(c), NEW i \in Inum, c[i].ref >= 0
  PROVE  CacheTyped(iget(c, i)) /\ \A j \in Inum : iget(c, i)[j].ref = c[j].ref + One(i = j)
<1> DEFINE r == [c[i] EXCEPT !.ref = @ + 1]
           n == [c[i] EXCEPT !.ref = 1, !.valid = FALSE]
<1>1. iget(c, i) = IF c[i].ref > 0 THEN [c EXCEPT ![i] = r] ELSE [c EXCEPT ![i] = n]
  BY DEF iget
<1>2. SlotTyped(r) /\ r.ref = c[i].ref + 1
  BY DEF CacheTyped, SlotTyped, SlotFields
<1>3. SlotTyped(n) /\ n.ref = 1
  <2>1. SlotTyped(c[i])
    BY DEF CacheTyped
  <2>2. n = [f \in SlotFields |->
               IF f = "ref" THEN 1 ELSE IF f = "valid" THEN FALSE ELSE c[i][f]]
    BY <2>1 DEF SlotTyped, SlotFields
  <2> HIDE DEF n
  <2> QED
    BY <2>1, <2>2 DEF SlotTyped, SlotFields
<1> HIDE DEF r, n
<1>4. /\ CacheTyped([c EXCEPT ![i] = r])
      /\ \A j \in Inum : [c EXCEPT ![i] = r][j].ref = IF i = j THEN r.ref ELSE c[j].ref
  BY <1>2, CacheSlot
<1>5. /\ CacheTyped([c EXCEPT ![i] = n])
      /\ \A j \in Inum : [c EXCEPT ![i] = n][j].ref = IF i = j THEN n.ref ELSE c[j].ref
  BY <1>3, CacheSlot
<1>6. \A j \in Inum : c[j].ref \in Int
  BY DEF CacheTyped, SlotTyped
<1>7. CASE c[i].ref > 0
  BY <1>1, <1>2, <1>4, <1>6, <1>7 DEF One
<1>8. CASE c[i].ref = 0
  BY <1>1, <1>3, <1>5, <1>6, <1>8 DEF One
<1> QED
  BY <1>6, <1>7, <1>8

LEMMA CacheDup ==
  ASSUME NEW c, CacheTyped(c), NEW i \in Inum
  PROVE  CacheTyped(idup(c, i)) /\ \A j \in Inum : idup(c, i)[j].ref = c[j].ref + One(i = j)
<1> DEFINE r == [c[i] EXCEPT !.ref = @ + 1]
<1>1. SlotTyped(r) /\ r.ref = c[i].ref + 1
  BY DEF CacheTyped, SlotTyped, SlotFields
<1>2. idup(c, i) = [c EXCEPT ![i] = r]
  BY DEF idup
<1> HIDE DEF r
<1>3. \A j \in Inum : c[j].ref \in Int
  BY DEF CacheTyped, SlotTyped
<1>4. /\ CacheTyped([c EXCEPT ![i] = r])
      /\ \A j \in Inum : [c EXCEPT ![i] = r][j].ref = IF i = j THEN r.ref ELSE c[j].ref
  BY <1>1, CacheSlot
<1> QED
  BY <1>1, <1>2, <1>3, <1>4 DEF One

LEMMA CacheStarted ==
  ASSUME TypeOK, NEW c, CacheTyped(c), \A i \in Inum : c[i].ref >= 0,
         NEW p \in Process, NEW job
  PROVE  /\ Start(p, job) \in Inum /\ CacheTyped(started(c, p, job))
         /\ \A j \in Inum : started(c, p, job)[j].ref = c[j].ref + One(Start(p, job) = j)
<1>1. Root \in Inum /\ cwd[p] \in Inum
  BY FsAssumption DEF TypeOK, Root, Inum
<1>2. CASE job.from = "root"
  <2>1. Start(p, job) = Root /\ started(c, p, job) = iget(c, Root)
    BY <1>2 DEF Start, started
  <2> QED
    BY <1>1, <2>1, CacheGet
<1>3. CASE job.from # "root"
  <2>1. Start(p, job) = cwd[p] /\ started(c, p, job) = idup(c, cwd[p])
    BY <1>3 DEF Start, started
  <2> QED
    BY SMTT(30), <1>1, <2>1, CacheDup
<1> QED
  BY <1>2, <1>3

\* ilock() and iunlock() change none either.
LEMMA CacheLock ==
  ASSUME TypeOK, NEW c, CacheTyped(c), NEW i \in Inum, NEW p \in Process
  PROVE  /\ CacheTyped(ilock(c, i, p)) /\ \A j \in Inum : ilock(c, i, p)[j].ref = c[j].ref
         /\ CacheTyped(iunlock(c, i)) /\ \A j \in Inum : iunlock(c, i)[j].ref = c[j].ref
<1> DEFINE b == Read(c, i)
           r == [b[i] EXCEPT !.busy = p]
           u == [c[i] EXCEPT !.busy = NoProcess]
<1>1. CacheTyped(b) /\ \A j \in Inum : b[j].ref = c[j].ref
  BY CacheRead
<1>2. ilock(c, i, p) = [b EXCEPT ![i] = r]
  BY DEF ilock
<1>3. iunlock(c, i) = [c EXCEPT ![i] = u]
  BY DEF iunlock
<1> HIDE DEF b
<1>4. SlotTyped(r) /\ r.ref = b[i].ref
  BY <1>1 DEF CacheTyped, SlotTyped, SlotFields
<1>5. SlotTyped(u) /\ u.ref = c[i].ref
  BY DEF CacheTyped, SlotTyped, SlotFields
<1> HIDE DEF r, u
<1>6. /\ CacheTyped([b EXCEPT ![i] = r])
      /\ \A j \in Inum : [b EXCEPT ![i] = r][j].ref = IF i = j THEN r.ref ELSE b[j].ref
  BY <1>1, <1>4, CacheSlot
<1>7. /\ CacheTyped([c EXCEPT ![i] = u])
      /\ \A j \in Inum : [c EXCEPT ![i] = u][j].ref = IF i = j THEN u.ref ELSE c[j].ref
  BY <1>5, CacheSlot
<1> QED
  BY <1>1, <1>2, <1>3, <1>4, <1>5, <1>6, <1>7

\* What is found on the disk and in the cache is an inode.
LEMMA Found ==
  ASSUME TypeOK, CacheTyped(icache), NEW i \in Inum
  PROVE  /\ Locked(i).type \in Type /\ Locked(i).addr \in Block \cup {None}
         /\ Locked(i).nlink \in Int
         /\ \A n \in Entry : lookup(i, n) \in Inum \cup {None}
<1> DEFINE r == Read(icache, i)
<1>1. CacheTyped(r)
  BY CacheRead
<1> HIDE DEF r
<1>2. r[i].type \in Type /\ r[i].addr \in Block \cup {None} /\ r[i].nlink \in Int
  BY <1>1 DEF CacheTyped, SlotTyped
<1>3. \A b \in Block, n \in Entry : dirent[b][n] \in Inum \cup {None}
  BY DEF TypeOK
<1> QED
  BY <1>2, <1>3 DEF lookup, Locked, r

\* The inodes and blocks that are found free.
LEMMA MinIsIn == ASSUME NEW S, S \subseteq Nat, S # {} PROVE Min(S) \in S
<1>1. PICK x \in S : \A y \in S : ~(<<y, x>> \in OpToRel(<, Nat))
  BY WFMin, NatLessThanWellFounded
<1>2. ASSUME NEW y \in S PROVE x <= y
  <2>1. x \in Nat /\ y \in Nat /\ <<y, x>> \in Nat \X Nat /\ <<y, x>>[1] = y
          /\ <<y, x>>[2] = x
    OBVIOUS
  <2>2. ~(y < x)
    BY <1>1, <2>1 DEF OpToRel
  <2> QED
    BY <2>1, <2>2
<1> QED
  BY <1>2 DEF Min

LEMMA FreeFound ==
  ASSUME TypeOK
  PROVE  /\ FreeInums # {} => Min(FreeInums) \in Inum
         /\ Block \ bitmap # {} => Min(Block \ bitmap) \in Block
<1>1. FreeInums \subseteq Inum /\ Inum \subseteq Nat /\ Block \ bitmap \subseteq Nat
  BY FsAssumption DEF FreeInums, Inum, Block
<1> QED
  BY <1>1, MinIsIn

\* An entry of a directory is written.
LEMMA EntryTyped ==
  ASSUME TypeOK, NEW a, NEW n, NEW v \in Inum \cup {None}
  PROVE  [dirent EXCEPT ![a][n] = v] \in [Block -> [Entry -> Inum \cup {None}]]
<1>1. CASE a \in Block
  <2>1. dirent[a] \in [Entry -> Inum \cup {None}]
    BY <1>1 DEF TypeOK
  <2>2. [dirent[a] EXCEPT ![n] = v] \in [Entry -> Inum \cup {None}]
    BY <2>1
  <2> QED
    BY <2>2 DEF TypeOK
<1>2. CASE a \notin Block
  <2>1. [dirent EXCEPT ![a][n] = v] = dirent
    BY <1>2 DEF TypeOK
  <2> QED
    BY <2>1 DEF TypeOK
<1> QED
  BY <1>1, <1>2

\* iupdate() writes an inode that is typed.
LEMMA DiskTyped ==
  ASSUME TypeOK, NEW i \in Inum, NEW r,
         r.type \in Type, r.nlink \in Int, r.addr \in Block \cup {None}, iupdate(i, r)
  PROVE  dinode' \in [Inum -> [type : Type, nlink : Int, addr : Block \cup {None}]]
BY DEF TypeOK, iupdate

LEMMA CacheBusy ==
  ASSUME NEW c, CacheTyped(c), NEW i \in Inum, NEW b \in Process \cup {NoProcess}
  PROVE  /\ CacheTyped([c EXCEPT ![i].busy = b])
         /\ \A j \in Inum : [c EXCEPT ![i].busy = b][j].ref = c[j].ref
<1> DEFINE r == [c[i] EXCEPT !.busy = b]
<1>1. SlotTyped(r) /\ r.ref = c[i].ref
  BY DEF CacheTyped, SlotTyped, SlotFields, Type
<1>4. [c EXCEPT ![i].busy = b] = [c EXCEPT ![i] = r]
  OBVIOUS
<1> HIDE DEF r
<1>2. /\ CacheTyped([c EXCEPT ![i] = r])
      /\ \A j \in Inum : [c EXCEPT ![i] = r][j].ref = IF i = j THEN r.ref ELSE c[j].ref
  BY <1>1, CacheSlot
<1>3. \A j \in Inum : c[j].ref \in Int
  BY DEF CacheTyped, SlotTyped
<1> DEFINE d == [c EXCEPT ![i].busy = b]
<1>5. d = [c EXCEPT ![i] = r]
  BY <1>4
<1> HIDE DEF d
<1>6. CacheTyped(d) /\ \A j \in Inum : d[j].ref = c[j].ref
  BY <1>1, <1>2, <1>3, <1>5 DEF One
<1> QED
  BY <1>6 DEF d

LEMMA CacheNlink ==
  ASSUME NEW c, CacheTyped(c), NEW i \in Inum, NEW n \in Int
  PROVE  /\ CacheTyped([c EXCEPT ![i].nlink = n])
         /\ \A j \in Inum : [c EXCEPT ![i].nlink = n][j].ref = c[j].ref
<1> DEFINE r == [c[i] EXCEPT !.nlink = n]
<1>1. SlotTyped(r) /\ r.ref = c[i].ref
  BY DEF CacheTyped, SlotTyped, SlotFields, Type
<1>4. [c EXCEPT ![i].nlink = n] = [c EXCEPT ![i] = r]
  OBVIOUS
<1> HIDE DEF r
<1>2. /\ CacheTyped([c EXCEPT ![i] = r])
      /\ \A j \in Inum : [c EXCEPT ![i] = r][j].ref = IF i = j THEN r.ref ELSE c[j].ref
  BY <1>1, CacheSlot
<1>3. \A j \in Inum : c[j].ref \in Int
  BY DEF CacheTyped, SlotTyped
<1> DEFINE d == [c EXCEPT ![i].nlink = n]
<1>5. d = [c EXCEPT ![i] = r]
  BY <1>4
<1> HIDE DEF d
<1>6. CacheTyped(d) /\ \A j \in Inum : d[j].ref = c[j].ref
  BY <1>1, <1>2, <1>3, <1>5 DEF One
<1> QED
  BY <1>6 DEF d

LEMMA CacheAddr ==
  ASSUME NEW c, CacheTyped(c), NEW i \in Inum, NEW a \in Block \cup {None}
  PROVE  /\ CacheTyped([c EXCEPT ![i].addr = a])
         /\ \A j \in Inum : [c EXCEPT ![i].addr = a][j].ref = c[j].ref
<1> DEFINE r == [c[i] EXCEPT !.addr = a]
<1>1. SlotTyped(r) /\ r.ref = c[i].ref
  BY DEF CacheTyped, SlotTyped, SlotFields, Type
<1>4. [c EXCEPT ![i].addr = a] = [c EXCEPT ![i] = r]
  OBVIOUS
<1> HIDE DEF r
<1>2. /\ CacheTyped([c EXCEPT ![i] = r])
      /\ \A j \in Inum : [c EXCEPT ![i] = r][j].ref = IF i = j THEN r.ref ELSE c[j].ref
  BY <1>1, CacheSlot
<1>3. \A j \in Inum : c[j].ref \in Int
  BY DEF CacheTyped, SlotTyped
<1> DEFINE d == [c EXCEPT ![i].addr = a]
<1>5. d = [c EXCEPT ![i] = r]
  BY <1>4
<1> HIDE DEF d
<1>6. CacheTyped(d) /\ \A j \in Inum : d[j].ref = c[j].ref
  BY <1>1, <1>2, <1>3, <1>5 DEF One
<1> QED
  BY <1>6 DEF d

LEMMA CacheFree ==
  ASSUME NEW c, CacheTyped(c), NEW i \in Inum
  PROVE  /\ CacheTyped([c EXCEPT ![i].type = "free"])
         /\ \A j \in Inum : [c EXCEPT ![i].type = "free"][j].ref = c[j].ref
<1> DEFINE r == [c[i] EXCEPT !.type = "free"]
<1>1. SlotTyped(r) /\ r.ref = c[i].ref
  BY DEF CacheTyped, SlotTyped, SlotFields, Type
<1>4. [c EXCEPT ![i].type = "free"] = [c EXCEPT ![i] = r]
  OBVIOUS
<1> HIDE DEF r
<1>2. /\ CacheTyped([c EXCEPT ![i] = r])
      /\ \A j \in Inum : [c EXCEPT ![i] = r][j].ref = IF i = j THEN r.ref ELSE c[j].ref
  BY <1>1, CacheSlot
<1>3. \A j \in Inum : c[j].ref \in Int
  BY DEF CacheTyped, SlotTyped
<1> DEFINE d == [c EXCEPT ![i].type = "free"]
<1>5. d = [c EXCEPT ![i] = r]
  BY <1>4
<1> HIDE DEF d
<1>6. CacheTyped(d) /\ \A j \in Inum : d[j].ref = c[j].ref
  BY <1>1, <1>2, <1>3, <1>5 DEF One
<1> QED
  BY <1>6 DEF d

\* iput() takes one away.
LEMMA CachePut ==
  ASSUME NEW c, CacheTyped(c), NEW i \in Inum
  PROVE  /\ CacheTyped([c EXCEPT ![i].ref = @ - 1])
         /\ \A j \in Inum : [c EXCEPT ![i].ref = @ - 1][j].ref = c[j].ref - One(i = j)
<1> DEFINE r == [c[i] EXCEPT !.ref = @ - 1]
<1>1. SlotTyped(r) /\ r.ref = c[i].ref - 1
  BY DEF CacheTyped, SlotTyped, SlotFields, Type
<1>4. [c EXCEPT ![i].ref = @ - 1] = [c EXCEPT ![i] = r]
  OBVIOUS
<1> HIDE DEF r
<1>2. /\ CacheTyped([c EXCEPT ![i] = r])
      /\ \A j \in Inum : [c EXCEPT ![i] = r][j].ref = IF i = j THEN r.ref ELSE c[j].ref
  BY <1>1, CacheSlot
<1>3. \A j \in Inum : c[j].ref \in Int
  BY DEF CacheTyped, SlotTyped
<1> DEFINE d == [c EXCEPT ![i].ref = @ - 1]
<1>5. d = [c EXCEPT ![i] = r]
  BY <1>4
<1> HIDE DEF d
<1>6. CacheTyped(d) /\ \A j \in Inum : d[j].ref = c[j].ref - One(i = j)
  BY <1>1, <1>2, <1>3, <1>5 DEF One
<1> QED
  BY <1>6 DEF d

LEMMA CacheInvalid ==
  ASSUME NEW c, CacheTyped(c), NEW i \in Inum
  PROVE  /\ CacheTyped([c EXCEPT ![i].valid = FALSE])
         /\ \A j \in Inum : [c EXCEPT ![i].valid = FALSE][j].ref = c[j].ref
<1> DEFINE r == [c[i] EXCEPT !.valid = FALSE]
<1>1. SlotTyped(r) /\ r.ref = c[i].ref
  <2>1. SlotTyped(c[i])
    BY DEF CacheTyped
  <2> QED
    BY <2>1 DEF SlotTyped, SlotFields
<1>4. [c EXCEPT ![i].valid = FALSE] = [c EXCEPT ![i] = r]
  OBVIOUS
<1> HIDE DEF r
<1>2. /\ CacheTyped([c EXCEPT ![i] = r])
      /\ \A j \in Inum : [c EXCEPT ![i] = r][j].ref = IF i = j THEN r.ref ELSE c[j].ref
  BY <1>1, CacheSlot
<1>3. \A j \in Inum : c[j].ref \in Int
  BY DEF CacheTyped, SlotTyped
<1> DEFINE d == [c EXCEPT ![i].valid = FALSE]
<1>5. d = [c EXCEPT ![i] = r]
  BY <1>4
<1> HIDE DEF d
<1>6. CacheTyped(d) /\ \A j \in Inum : d[j].ref = c[j].ref
  BY <1>1, <1>2, <1>3, <1>5 DEF One
<1> QED
  BY <1>6 DEF d

\* A step within an iput, and the end of one.
LEMMA Putting ==
  ASSUME IInv, NEW p \in Process, t[p].pc \in PutPc, NEW x \in PutPc, Set(p, [pc |-> x])
  PROVE  /\ t' = [q \in Process |-> t'[q]] /\ \A q \in Process \ {p} : t'[q] = t[q]
         /\ t'[p].pc = x /\ Label(t'[p]) = Label(t[p])
         /\ t'[p].at = t[p].at /\ t'[p].dp = t[p].dp /\ t'[p].ip = t[p].ip
         /\ t'[p].job = t[p].job /\ t'[p].path = t[p].path
         /\ First(t'[p]) = First(t[p]) /\ Second(t'[p]) = Second(t[p])
         /\ Put(p) \in Inum /\ CallTyped(t'[p])
<1>1. /\ t = [q \in Process |-> t[q]] /\ CallTyped(t[p])
  BY DEF IInv, Sound
<1>2. /\ t' = [q \in Process |-> t'[q]] /\ \A q \in Process \ {p} : t'[q] = t[q]
      /\ t'[p] = [f \in Fields |-> IF f = "pc" THEN x ELSE t[p][f]]
  <2>1. t[p] = [f \in Fields |-> t[p][f]]
    BY <1>1 DEF CallTyped
  <2> QED
    BY <1>1, <2>1 DEF Set, With
<1>3. /\ t'[p] = [f \in Fields |-> t'[p][f]] /\ t'[p].pc = x
      /\ t'[p].at = t[p].at /\ t'[p].dp = t[p].dp /\ t'[p].ip = t[p].ip
      /\ t'[p].job = t[p].job /\ t'[p].path = t[p].path
      /\ t'[p].puts = t[p].puts /\ t'[p].then = t[p].then
  BY <1>2 DEF Fields
<1>4. CallTyped(t'[p])
  BY <1>1, <1>3 DEF CallTyped, Pc, PutPc
<1>5. Put(p) \in Inum
  BY <1>1 DEF CallTyped, Put
<1> QED
  BY <1>2, <1>3, <1>4, <1>5 DEF Label, First, Second

LEMMA PutDone ==
  ASSUME IInv, NEW p \in Process, t[p].pc \in {"iput", "iputend"}, Set(p, Next1(p))
  PROVE  /\ t' = [q \in Process |-> t'[q]] /\ \A q \in Process \ {p} : t'[q] = t[q]
         /\ t'[p].pc \in ThenPc \cup {"iput"} /\ Label(t'[p]) = Label(t[p])
         /\ t'[p].at = t[p].at /\ t'[p].dp = t[p].dp /\ t'[p].ip = t[p].ip
         /\ t'[p].job = t[p].job /\ t'[p].path = t[p].path
         /\ First(t[p]) = Put(p) /\ First(t'[p]) = Second(t[p]) /\ Second(t'[p]) = None
         /\ Put(p) \in Inum /\ CallTyped(t'[p])
<1>1. /\ t = [q \in Process |-> t[q]] /\ CallTyped(t[p])
  BY DEF IInv, Sound
<1>2. /\ t' = [q \in Process |-> t'[q]] /\ \A q \in Process \ {p} : t'[q] = t[q]
      /\ t'[p] = With(t[p], Next1(p))
  BY <1>1 DEF Set
<1>3. /\ t[p].puts \in Seq(Inum) /\ Len(t[p].puts) \in {1, 2} /\ t[p].then \in ThenPc
      /\ t[p] = [f \in Fields |-> t[p][f]]
  BY <1>1 DEF CallTyped, PutPc
<1>4. Put(p) \in Inum /\ First(t[p]) = Put(p)
  BY <1>3 DEF First, Put
<1>5. CASE Len(t[p].puts) = 1
  <2>1. With(t[p], Next1(p)) = [f \in Fields |->
            IF f = "pc" THEN t[p].then ELSE IF f = "puts" THEN <<>> ELSE t[p][f]]
    BY <1>3, <1>5 DEF With, Next1
  <2>2. /\ t'[p] = [f \in Fields |-> t'[p][f]] /\ t'[p].pc = t[p].then
        /\ t'[p].at = t[p].at /\ t'[p].dp = t[p].dp /\ t'[p].ip = t[p].ip
        /\ t'[p].job = t[p].job /\ t'[p].path = t[p].path /\ t'[p].puts = <<>>
    BY <1>2, <2>1 DEF Fields
  <2>3. CallTyped(t'[p])
    <3>1. t[p].then \in Pc \ PutPc /\ t[p].pc # "idle"
      BY <1>3 DEF Pc, PutPc, ThenPc, AtPc, IpPc
    <3>2. <<>> \in Seq(Inum)
      OBVIOUS
    <3> QED
      BY <1>1, <2>2, <3>1, <3>2 DEF CallTyped
  <2>4. First(t'[p]) = None /\ Second(t'[p]) = None /\ Second(t[p]) = None
    BY <1>5, <2>2, OwesNone DEF Second
  <2>5. Label(t'[p]) = Label(t[p])
    BY <1>3, <2>2 DEF Label, PutPc, ThenPc
  <2> QED
    BY <1>2, <1>3, <1>4, <2>2, <2>3, <2>4, <2>5
<1>6. CASE Len(t[p].puts) = 2
  <2> DEFINE rest == Tail(t[p].puts)
  <2>0. rest \in Seq(Inum) /\ Len(rest) = 1 /\ rest[1] = t[p].puts[2]
    BY <1>3, <1>6
  <2>6. Next1(p) = [pc |-> "iput", puts |-> rest]
    BY <1>6 DEF Next1
  <2> HIDE DEF rest
  <2>1. With(t[p], Next1(p)) = [f \in Fields |->
            IF f = "pc" THEN "iput" ELSE IF f = "puts" THEN rest ELSE t[p][f]]
    BY <1>3, <2>6 DEF With, Fields
  <2>2. /\ t'[p] = [f \in Fields |-> t'[p][f]] /\ t'[p].pc = "iput" /\ t'[p].then = t[p].then
        /\ t'[p].at = t[p].at /\ t'[p].dp = t[p].dp /\ t'[p].ip = t[p].ip
        /\ t'[p].job = t[p].job /\ t'[p].path = t[p].path /\ t'[p].puts = rest
    BY <1>2, <2>1 DEF Fields
  <2>3. CallTyped(t'[p])
    BY <1>1, <1>3, <2>0, <2>2 DEF CallTyped, Pc, PutPc
  <2>4. First(t'[p]) = Second(t[p]) /\ Second(t'[p]) = None
    <3>1. First(t'[p]) = rest[1] /\ Second(t'[p]) = None
      BY <2>0, <2>2 DEF First, Second
    <3>2. Second(t[p]) = t[p].puts[2]
      BY <1>6 DEF Second
    <3> QED
      BY <2>0, <3>1, <3>2
  <2>5. Label(t'[p]) = Label(t[p])
    BY <2>2 DEF Label, PutPc
  <2> QED
    BY <1>2, <1>3, <1>4, <2>2, <2>3, <2>4, <2>5
<1> QED
  BY <1>3, <1>5, <1>6
-----------------------------------------------------------------------------
(* The steps: what each does to the pointers of its process (2>4), that they fit
   where the call then is (2>5), and that the counts change by as much (2>3, 2>7). *)

LEMMA StepIInv == ASSUME IInv, NEW p \in Process, Step(p) PROVE IInv'
<1> DEFINE r == t[p]
           s == t'[p]
<1>a. /\ TypeOK /\ CacheTyped(icache) /\ Sound(r, file[p]) /\ programs \in DOMAIN Jobs
      /\ \A i \in Inum : icache[i].ref >= 0 /\ icache[i].ref \in Int
  BY Now
<1>b. /\ cwd[p] \in Inum /\ file[p] \in Inum \cup {None} /\ r.path \in Seq(Entry)
      /\ r.pc # "idle" => r.job \in Jobs[programs]
      /\ r.pc \notin PutPc =>
           /\ r.puts = <<>>
           /\ IF r.pc \in AtPc THEN r.at \in Inum ELSE r.at = None
           /\ IF r.pc \in DpPc THEN r.dp \in Inum ELSE r.dp = None
           /\ IF r.pc \in IpPc THEN r.ip \in Inum
              ELSE r.ip = None \/ (r.pc = "walk" /\ r.ip \in Inum)
           /\ r.pc = "walk" /\ r.ip # None => r.job.op = "link"
           /\ r.pc \in {"open", "link"} => r.job.op = r.pc
           /\ r.pc \in {"create", "unlink"} => r.path # <<>>
           /\ r.pc \in FilePc => file[p] # None
           /\ r.pc \notin {"idle", "ret"} /\ r.job.op \in {"open", "create"} => file[p] = None
  BY <1>a DEF TypeOK, Sound, CallTyped, PointersSet, CallFits, Label
\* A call puts the inode it is at and has failed.
<1>1. ASSUME NEW l \in {"ret", "bad"}, r.pc \in AtPc, l = "bad" <=> r.ip # None,
             icache' \in {icache, Read(icache, r.at)}, Puts(p, <<r.at>>, l, [at |-> None]),
             UNCHANGED <<dinode, bitmap, dirent, cwd, file, calls, programs>>
      PROVE  IInv'
  <2>2. /\ r.at \in Inum /\ r.pc \notin PutPc \cup {"idle", "iget"}
        /\ r.dp = None /\ r.ip \in Inum \cup {None}
    BY <1>b, <1>1 DEF PutPc, AtPc, DpPc, IpPc, FilePc
  <2>3. CacheTyped(icache') /\ \A j \in Inum : icache'[j].ref = icache[j].ref
    BY <1>a, <1>1, <2>2, CacheRead
  <2>4. /\ t' = [q \in Process |-> t'[q]] /\ \A q \in Process \ {p} : t'[q] = t[q]
        /\ s.pc = "iput" /\ Label(s) = l /\ CallTyped(s)
        /\ First(r) = None /\ Second(r) = None /\ Label(r) = r.pc
        /\ First(s) = r.at /\ Second(s) = None
        /\ s.at = None
        /\ s.dp = r.dp /\ s.ip = r.ip /\ s.job = r.job
    BY <1>1, <2>2, GivesOne DEF ThenPc
  <2>5. PointersSet(s) /\ CallFits(s, file'[p])
    BY <1>a, <1>1, <2>2, <2>4 DEF Sound, PointersSet, CallFits, PutPc, AtPc, DpPc, IpPc,
       FilePc
  <2>6. StoreTyped' /\ Others(p)
    BY <1>a, <1>1, <2>2, <2>4 DEF TypeOK, StoreTyped, Others
  <2>7. \A j \in Inum : icache'[j].ref = icache[j].ref + Owns(cwd'[p], file'[p], s, j)
                                                     - Owns(cwd[p], file[p], r, j)
    BY <1>a, <1>1, <2>2, <2>3, <2>4 DEF Owns, One, Inum, None
  <2> QED
    BY <1>a, <1>1, <2>3, <2>4, <2>5, <2>6, <2>7, Ledger DEF Sound
<1>2. CASE Walk(p)
  <2> DEFINE next == lookup(r.at, Head(r.path))
             rest == Tail(r.path)
             d == [at |-> next, path |-> rest]
  <2>1. /\ r.pc = "walk" /\ r.path # <<>> /\ next # None
        /\ icache' = iget(Read(icache, r.at), next) /\ Puts(p, <<r.at>>, "walk", d)
        /\ UNCHANGED <<dinode, bitmap, dirent, cwd, file, calls, programs>>
    BY <1>2 DEF Walk, disk, Still, At
  <2>2. r.at \in Inum /\ next \in Inum /\ rest \in Seq(Entry)
    <3>1. r.at \in Inum /\ Head(r.path) \in Entry /\ rest \in Seq(Entry)
      BY <1>b, <2>1 DEF PutPc, AtPc, DpPc, IpPc, FilePc
    <3> QED
      BY <1>a, <2>1, <3>1, Found
  <2> HIDE DEF next, rest
  <2>3. CacheTyped(icache') /\ \A j \in Inum : icache'[j].ref = icache[j].ref + One(next = j)
    <3>1. CacheTyped(Read(icache, r.at))
            /\ \A j \in Inum : Read(icache, r.at)[j].ref = icache[j].ref
      BY <1>a, <2>2, CacheRead
    <3> QED
      BY <1>a, <2>1, <2>2, <3>1, CacheGet
  <2>4. /\ t' = [q \in Process |-> t'[q]] /\ \A q \in Process \ {p} : t'[q] = t[q]
        /\ s.pc = "iput" /\ Label(s) = "walk" /\ CallTyped(s)
        /\ First(r) = None /\ Second(r) = None /\ Label(r) = r.pc
        /\ First(s) = r.at /\ Second(s) = None
        /\ s.at = next /\ s.path = rest
        /\ s.dp = r.dp /\ s.ip = r.ip /\ s.job = r.job
    BY <2>1, <2>2, GivesOne DEF PutPc, ThenPc
  <2>5. PointersSet(s) /\ CallFits(s, file'[p])
    BY <1>a, <2>1, <2>2, <2>4 DEF Sound, PointersSet, CallFits, PutPc, AtPc, DpPc, IpPc,
       FilePc
  <2>6. StoreTyped' /\ Others(p)
    BY <1>a, <2>1, <2>2, <2>4 DEF TypeOK, StoreTyped, Others
  <2>7. \A j \in Inum : icache'[j].ref = icache[j].ref + Owns(cwd'[p], file'[p], s, j)
                                                     - Owns(cwd[p], file[p], r, j)
    BY <1>a, <2>1, <2>2, <2>3, <2>4 DEF Owns, One, Inum, None
  <2> QED
    BY <1>a, <2>1, <2>3, <2>4, <2>5, <2>6, <2>7, Ledger DEF Sound
<1>3. CASE WalkFails(p)
  BY <1>b, <1>3, <1>1 DEF WalkFails, At, Failed, disk, Still, PutPc, AtPc, DpPc, IpPc,
     FilePc
<1>4. CASE WalkParent(p)
  <2>1. /\ r.pc = "walk" /\ Parent(p) /\ Len(r.path) = 1
        /\ icache' = Read(icache, r.at) /\ Set(p, [pc |-> Stage(p)])
        /\ UNCHANGED <<dinode, bitmap, dirent, cwd, file, calls, programs>>
    BY <1>4 DEF WalkParent, disk, Still, At
  <2>2. /\ r.at \in Inum /\ r.dp = None /\ r.path # <<>>
        /\ Stage(p) \in {"create", "unlink", "enter"} /\ (Stage(p) = "enter" <=> r.ip # None)
        /\ r.ip \in Inum \cup {None}
    <3>1. r.ip # None => r.job.op = "link"
      BY <1>b, <2>1 DEF PutPc
    <3>2. r.at \in Inum /\ r.dp = None /\ r.ip \in Inum \cup {None}
      BY <1>b, <2>1 DEF PutPc, AtPc, DpPc, IpPc, FilePc
    <3>3. r.path # <<>>
      <4>1. Len(<<>>) # 1
        OBVIOUS
      <4>2. Len(r.path) = 1
        BY <2>1
      <4> QED
        BY ONLY <4>1, <4>2
    <3> QED
      BY <2>1, <3>1, <3>2, <3>3 DEF Parent, Stage
  <2>3. CacheTyped(icache') /\ \A j \in Inum : icache'[j].ref = icache[j].ref
    BY <1>a, <2>1, <2>2, CacheRead
  <2>4. /\ t' = [q \in Process |-> t'[q]] /\ \A q \in Process \ {p} : t'[q] = t[q]
        /\ s.pc = Stage(p) /\ Label(s) = Stage(p) /\ CallTyped(s)
        /\ First(r) = None /\ Second(r) = None /\ Label(r) = r.pc
        /\ First(s) = None /\ Second(s) = None
        /\ s.at = r.at /\ s.dp = r.dp /\ s.ip = r.ip /\ s.job = r.job /\ s.path = r.path
    BY <2>1, <2>2, Goes DEF PutPc, Pc, AtPc
  <2>5. PointersSet(s) /\ CallFits(s, file'[p])
    BY <1>a, <2>1, <2>2, <2>4 DEF Sound, PointersSet, CallFits, PutPc, AtPc, DpPc, IpPc,
       FilePc
  <2>6. StoreTyped' /\ Others(p)
    BY <1>a, <2>1, <2>2, <2>4 DEF TypeOK, StoreTyped, Others
  <2>7. \A j \in Inum : icache'[j].ref = icache[j].ref + Owns(cwd'[p], file'[p], s, j)
                                                     - Owns(cwd[p], file[p], r, j)
    BY <1>a, <2>1, <2>2, <2>3, <2>4 DEF Owns, One, Inum, None
  <2> QED
    BY <1>a, <2>1, <2>3, <2>4, <2>5, <2>6, <2>7, Ledger DEF Sound
<1>5. CASE WalkEnds(p)
  <2>1. /\ r.pc = "walk" /\ icache' = icache
        /\ UNCHANGED <<dinode, bitmap, dirent, cwd, file, calls, programs>>
        /\ IF Parent(p) THEN Puts(p, <<r.at>>, Failed(p), [at |-> None])
                        ELSE Set(p, [pc |-> Stage(p)])
    BY <1>5 DEF WalkEnds, disk, Still
  <2>2. r.ip # None => r.job.op = "link"
    BY <1>b, <2>1 DEF PutPc
  <2>3. CASE Parent(p)
    <3>1. Failed(p) \in {"ret", "bad"} /\ (Failed(p) = "bad" <=> r.ip # None) /\ r.pc \in AtPc
      BY <2>1, <2>2 DEF Failed, AtPc
    <3> QED
      BY <1>1, <2>1, <2>3, <3>1
  <2>4. CASE ~Parent(p)
    <3>1. /\ r.at \in Inum /\ r.dp = None /\ r.ip = None
          /\ Stage(p) \in {"open", "chdir", "link"} /\ r.job.op = Stage(p)
      <4>1. r.job.op \in {"open", "create", "mkdir", "unlink", "link", "chdir"}
        BY <1>a, <2>1, FsAssumption DEF Sound, CallTyped, CallFits, Label, PutPc
      <4>2. r.at \in Inum /\ r.dp = None
        BY <1>b, <2>1 DEF PutPc, AtPc, DpPc
      <4> QED
        BY <2>2, <2>4, <4>1, <4>2 DEF Parent, Stage
    <3>2. /\ t' = [q \in Process |-> t'[q]] /\ \A q \in Process \ {p} : t'[q] = t[q]
          /\ s.pc = Stage(p) /\ Label(s) = Stage(p) /\ CallTyped(s)
          /\ First(r) = None /\ Second(r) = None /\ Label(r) = r.pc
          /\ First(s) = None /\ Second(s) = None
          /\ s.at = r.at /\ s.dp = r.dp /\ s.ip = r.ip /\ s.job = r.job /\ s.path = r.path
      BY <2>1, <2>4, <3>1, Goes DEF PutPc, Pc, AtPc
    <3>3. PointersSet(s) /\ CallFits(s, file'[p])
      BY <1>a, <2>1, <3>1, <3>2 DEF Sound, PointersSet, CallFits, PutPc, AtPc, DpPc, IpPc,
         FilePc
    <3>4. StoreTyped' /\ Others(p)
      BY <1>a, <2>1, <3>2 DEF TypeOK, StoreTyped, Others
    <3>5. \A j \in Inum : icache'[j].ref = icache[j].ref + Owns(cwd'[p], file'[p], s, j)
                                                       - Owns(cwd[p], file[p], r, j)
      BY <1>a, <2>1, <3>1, <3>2 DEF Owns, One, Inum, None
    <3> QED
      BY <1>a, <2>1, <3>2, <3>3, <3>4, <3>5, Ledger DEF Sound
  <2> QED
    BY <2>3, <2>4
\* open keeps the reference to the inode it is at.
<1>6. ASSUME r.pc \in {"open", "exists"}, r.job.op \in {"open", "create"},
             icache' = Read(icache, r.at), file' = [file EXCEPT ![p] = r.at],
             NEW b, Set(p, [at |-> None, pc |-> "ret", ok |-> b]),
             UNCHANGED <<dinode, bitmap, dirent, cwd, calls, programs>>
      PROVE  IInv'
  <2>2. r.at \in Inum /\ file'[p] = r.at /\ file[p] = None /\ r.dp = None /\ r.ip = None
    BY <1>b, <1>6, <1>a DEF PutPc, AtPc, DpPc, IpPc, FilePc, TypeOK
  <2>3. CacheTyped(icache') /\ \A j \in Inum : icache'[j].ref = icache[j].ref
    BY <1>a, <1>6, <2>2, CacheRead
  <2>4. /\ t' = [q \in Process |-> t'[q]] /\ \A q \in Process \ {p} : t'[q] = t[q]
        /\ s.pc = "ret" /\ Label(s) = "ret" /\ CallTyped(s)
        /\ First(r) = None /\ Second(r) = None /\ Label(r) = r.pc
        /\ First(s) = None /\ Second(s) = None
        /\ s.at = None
        /\ s.dp = r.dp /\ s.ip = r.ip /\ s.job = r.job
    BY <1>6, <2>2, Goes DEF PutPc, Pc
  <2>5. PointersSet(s) /\ CallFits(s, file'[p])
    BY <1>a, <1>6, <2>2, <2>4 DEF Sound, PointersSet, CallFits, PutPc, AtPc, DpPc, IpPc,
       FilePc
  <2>6. StoreTyped' /\ Others(p)
    BY <1>a, <1>6, <2>2, <2>4 DEF TypeOK, StoreTyped, Others
  <2>7. \A j \in Inum : icache'[j].ref = icache[j].ref + Owns(cwd'[p], file'[p], s, j)
                                                     - Owns(cwd[p], file[p], r, j)
    BY <1>a, <1>6, <2>2, <2>3, <2>4 DEF Owns, One, Inum, None
  <2> QED
    BY <1>a, <1>6, <2>3, <2>4, <2>5, <2>6, <2>7, Ledger DEF Sound
<1>7. CASE Open(p)
  BY <1>b, <1>7, <1>6 DEF Open, At, disk, Still, PutPc, AtPc, DpPc, IpPc, FilePc
<1>8. CASE OpenFails(p)
  BY <1>b, <1>8, <1>1 DEF OpenFails, At, disk, Still, PutPc, AtPc, DpPc, IpPc, FilePc
<1>9. CASE Chdir(p)
  <2>1. r.pc = "chdir" /\ icache' = Read(icache, r.at) /\ r.pc \in AtPc /\ r.ip = None
    BY <1>b, <1>9 DEF Chdir, At, PutPc, AtPc, DpPc, IpPc, FilePc
  <2>2. UNCHANGED <<dinode, bitmap, dirent, file, calls, programs>>
    BY <1>9 DEF Chdir, disk, Still
  <2>3. CASE Locked(r.at).type = "dir"
    <3>1. /\ Puts(p, <<cwd[p]>>, "ret", [at |-> None, ok |-> TRUE])
          /\ cwd' = [cwd EXCEPT ![p] = r.at]
      BY <1>9, <2>3 DEF Chdir
    <3>2. r.at \in Inum /\ cwd[p] \in Inum /\ cwd'[p] = r.at /\ r.dp = None
      BY <1>a, <1>b, <2>1, <3>1 DEF PutPc, AtPc, DpPc, IpPc, FilePc, TypeOK
    <3>3. CacheTyped(icache') /\ \A j \in Inum : icache'[j].ref = icache[j].ref
      BY <1>a, <2>1, <3>2, CacheRead
    <3>4. /\ t' = [q \in Process |-> t'[q]] /\ \A q \in Process \ {p} : t'[q] = t[q]
          /\ s.pc = "iput" /\ Label(s) = "ret" /\ CallTyped(s)
          /\ First(r) = None /\ Second(r) = None /\ Label(r) = r.pc
          /\ First(s) = cwd[p] /\ Second(s) = None
          /\ s.at = None
          /\ s.dp = r.dp /\ s.ip = r.ip /\ s.job = r.job
      BY <2>1, <3>1, <3>2, GivesOne DEF PutPc, ThenPc, AtPc
    <3>5. PointersSet(s) /\ CallFits(s, file'[p])
      BY <1>a, <2>1, <2>2, <3>2, <3>4 DEF Sound, PointersSet, CallFits, PutPc, AtPc, DpPc,
         IpPc, FilePc
    <3>6. StoreTyped' /\ Others(p)
      BY <1>a, <2>1, <2>2, <3>1, <3>2, <3>4 DEF TypeOK, StoreTyped, Others
    <3>7. \A j \in Inum : icache'[j].ref = icache[j].ref + Owns(cwd'[p], file'[p], s, j)
                                                       - Owns(cwd[p], file[p], r, j)
      BY <1>a, <2>1, <2>2, <3>2, <3>3, <3>4 DEF Owns, One, Inum, None
    <3> QED
      BY <1>a, <2>2, <3>3, <3>4, <3>5, <3>6, <3>7, Ledger DEF Sound
  <2>4. CASE Locked(r.at).type # "dir"
    BY <1>1, <1>9, <2>1, <2>2, <2>4 DEF Chdir
  <2> QED
    BY <2>3, <2>4
<1>10. CASE CreateFound(p)
  <2> DEFINE f == lookup(Dir(p), Elem(p))
             d == [at |-> f, done |-> r.job.op = "create"]
  <2>1. /\ r.pc = "create" /\ f # None
        /\ icache' = iget(Read(icache, r.at), f) /\ Puts(p, <<r.at>>, "exists", d)
        /\ UNCHANGED <<dinode, bitmap, dirent, cwd, file, calls, programs>>
    BY <1>10 DEF CreateFound, disk, Still, At, Dir, Elem
  <2>2. r.at \in Inum /\ f \in Inum /\ r.dp = None /\ r.ip = None
    <3>0. r.at \in Inum /\ r.dp = None /\ r.ip = None /\ r.path \in Seq(Entry)
            /\ r.path # <<>>
      BY <1>b, <2>1 DEF PutPc, AtPc, DpPc, IpPc, FilePc
    <3>1. r.path[1] \in Entry
      BY <3>0
    <3> QED
      BY <1>a, <2>1, <3>0, <3>1, Found DEF Dir, Elem
  <2> HIDE DEF f
  <2>3. CacheTyped(icache') /\ \A j \in Inum : icache'[j].ref = icache[j].ref + One(f = j)
    <3>1. CacheTyped(Read(icache, r.at))
            /\ \A j \in Inum : Read(icache, r.at)[j].ref = icache[j].ref
      BY <1>a, <2>2, CacheRead
    <3> QED
      BY <1>a, <2>1, <2>2, <3>1, CacheGet
  <2>4. /\ t' = [q \in Process |-> t'[q]] /\ \A q \in Process \ {p} : t'[q] = t[q]
        /\ s.pc = "iput" /\ Label(s) = "exists" /\ CallTyped(s)
        /\ First(r) = None /\ Second(r) = None /\ Label(r) = r.pc
        /\ First(s) = r.at /\ Second(s) = None
        /\ s.at = f
        /\ s.dp = r.dp /\ s.ip = r.ip /\ s.job = r.job /\ s.path = r.path
    BY <2>1, <2>2, GivesOne DEF PutPc, ThenPc
  <2>5. PointersSet(s) /\ CallFits(s, file'[p])
    BY <1>a, <2>1, <2>2, <2>4 DEF Sound, PointersSet, CallFits, PutPc, AtPc, DpPc, IpPc,
       FilePc
  <2>6. StoreTyped' /\ Others(p)
    BY <1>a, <2>1, <2>2, <2>4 DEF TypeOK, StoreTyped, Others
  <2>7. \A j \in Inum : icache'[j].ref = icache[j].ref + Owns(cwd'[p], file'[p], s, j)
                                                     - Owns(cwd[p], file[p], r, j)
    BY <1>a, <2>1, <2>2, <2>3, <2>4 DEF Owns, One, Inum, None
  <2> QED
    BY <1>a, <2>1, <2>3, <2>4, <2>5, <2>6, <2>7, Ledger DEF Sound
<1>11. CASE Exists(p)
  <2>1. /\ r.pc = "exists" /\ r.pc \in AtPc /\ icache' = Read(icache, r.at) /\ r.ip = None
        /\ UNCHANGED <<dinode, bitmap, dirent, cwd, calls, programs>>
    BY <1>b, <1>11 DEF Exists, At, disk, Still, PutPc, AtPc, DpPc, IpPc, FilePc
  <2>2. CASE Puts(p, <<r.at>>, "ret", [at |-> None]) /\ UNCHANGED file
    BY <1>1, <2>1, <2>2
  <2>3. CASE /\ r.job.op = "create" /\ file' = [file EXCEPT ![p] = r.at]
             /\ Set(p, [at |-> None, pc |-> "ret", ok |-> TRUE])
    BY <1>6, <2>1, <2>3
  <2> QED
    BY <1>11, <2>2, <2>3 DEF Exists
<1>12. CASE CreateNew(p)
  <2> DEFINE d == [at |-> None, dp |-> r.at, pc |-> "ialloc"]
  <2>1. /\ r.pc = "create"
        /\ icache' = ilock(icache, r.at, p) /\ Set(p, d)
        /\ UNCHANGED <<dinode, bitmap, dirent, cwd, file, calls, programs>>
    BY <1>12 DEF CreateNew, disk, Still, At, Dir
  <2>2. r.at \in Inum /\ r.dp = None /\ r.ip = None /\ file'[p] = file[p]
    BY <1>b, <2>1 DEF PutPc, AtPc, DpPc, IpPc, FilePc
  <2>3. CacheTyped(icache') /\ \A j \in Inum : icache'[j].ref = icache[j].ref
    BY <1>a, <2>1, <2>2, CacheLock
  <2>4. /\ t' = [q \in Process |-> t'[q]] /\ \A q \in Process \ {p} : t'[q] = t[q]
        /\ s.pc = "ialloc" /\ Label(s) = "ialloc" /\ CallTyped(s)
        /\ First(r) = None /\ Second(r) = None /\ Label(r) = r.pc
        /\ First(s) = None /\ Second(s) = None
        /\ s.at = None /\ s.dp = r.at
        /\ s.ip = r.ip /\ s.job = r.job /\ s.path = r.path
    BY <2>1, <2>2, Goes DEF PutPc, Pc, DpPc
  <2>5. PointersSet(s) /\ CallFits(s, file'[p])
    BY <1>a, <2>1, <2>2, <2>4 DEF Sound, PointersSet, CallFits, PutPc, AtPc, DpPc, IpPc,
       FilePc
  <2>6. StoreTyped' /\ Others(p)
    BY <1>a, <2>1, <2>2, <2>4 DEF TypeOK, StoreTyped, Others
  <2>7. \A j \in Inum : icache'[j].ref = icache[j].ref + Owns(cwd'[p], file'[p], s, j)
                                                     - Owns(cwd[p], file[p], r, j)
    BY <1>a, <2>1, <2>2, <2>3, <2>4 DEF Owns, One, Inum, None
  <2> QED
    BY <1>a, <2>1, <2>3, <2>4, <2>5, <2>6, <2>7, Ledger DEF Sound
<1>13. CASE Ialloc(p)
  <2> DEFINE i == Min(FreeInums)
  <2>1. /\ r.pc = "ialloc" /\ Set(p, [ip |-> i, pc |-> "iget"]) /\ UNCHANGED icache
        /\ FreeInums # {}
        /\ dinode' = [dinode EXCEPT ![i] =
              [type |-> IF r.job.op = "mkdir" THEN "dir" ELSE "file", nlink |-> 0,
                 addr |-> None]]
        /\ UNCHANGED <<bitmap, dirent, cwd, file, calls, programs>>
    BY <1>13 DEF Ialloc, disk, Still, At
  <2>2. r.at = None /\ r.dp \in Inum /\ r.ip = None /\ i \in Inum
    <3>1. i \in Inum
      BY <1>a, <2>1, FreeFound
    <3> QED
      BY <1>b, <2>1, <3>1 DEF PutPc, AtPc, DpPc, IpPc, FilePc
  <2> HIDE DEF i
  <2>3. CacheTyped(icache') /\ \A j \in Inum : icache'[j].ref = icache[j].ref
    BY <1>a, <2>1, <2>2
  <2>4. /\ t' = [q \in Process |-> t'[q]] /\ \A q \in Process \ {p} : t'[q] = t[q]
        /\ s.pc = "iget" /\ Label(s) = "iget" /\ CallTyped(s)
        /\ First(r) = None /\ Second(r) = None /\ Label(r) = r.pc
        /\ First(s) = None /\ Second(s) = None
        /\ s.ip = i
        /\ s.at = r.at /\ s.dp = r.dp /\ s.job = r.job /\ s.path = r.path
    BY <2>1, <2>2, Goes DEF PutPc, Pc, DpPc
  <2>5. PointersSet(s) /\ CallFits(s, file'[p])
    BY <1>a, <2>1, <2>2, <2>4 DEF Sound, PointersSet, CallFits, PutPc, AtPc, DpPc, IpPc,
       FilePc
  <2>6. StoreTyped' /\ Others(p)
    BY <1>a, <2>1, <2>2, <2>4 DEF TypeOK, StoreTyped, Others, Type
  <2>7. \A j \in Inum : icache'[j].ref = icache[j].ref + Owns(cwd'[p], file'[p], s, j)
                                                     - Owns(cwd[p], file[p], r, j)
    BY <1>a, <2>1, <2>2, <2>3, <2>4 DEF Owns, One, Inum, None
  <2> QED
    BY <1>a, <2>1, <2>3, <2>4, <2>5, <2>6, <2>7, Ledger DEF Sound
<1>14. CASE IallocGet(p)
  <2>1. /\ r.pc = "iget" /\ icache' = iget(icache, r.ip) /\ Set(p, [pc |-> "fresh"])
        /\ UNCHANGED <<dinode, bitmap, dirent, cwd, file, calls, programs>>
    BY <1>14 DEF IallocGet, disk, Still, At
  <2>2. r.at = None /\ r.dp \in Inum /\ r.ip \in Inum
    BY <1>b, <2>1 DEF PutPc, AtPc, DpPc, IpPc, FilePc
  <2>3. CacheTyped(icache') /\ \A j \in Inum : icache'[j].ref = icache[j].ref + One(r.ip = j)
    BY <1>a, <2>1, <2>2, CacheGet
  <2>4. /\ t' = [q \in Process |-> t'[q]] /\ \A q \in Process \ {p} : t'[q] = t[q]
        /\ s.pc = "fresh" /\ Label(s) = "fresh" /\ CallTyped(s)
        /\ First(r) = None /\ Second(r) = None /\ Label(r) = r.pc
        /\ First(s) = None /\ Second(s) = None
        /\ s.at = r.at /\ s.dp = r.dp /\ s.ip = r.ip /\ s.job = r.job /\ s.path = r.path
    BY <2>1, <2>2, Goes DEF PutPc, Pc, DpPc
  <2>5. PointersSet(s) /\ CallFits(s, file'[p])
    BY <1>a, <2>1, <2>2, <2>4 DEF Sound, PointersSet, CallFits, PutPc, AtPc, DpPc, IpPc,
       FilePc
  <2>6. StoreTyped' /\ Others(p)
    BY <1>a, <2>1, <2>2, <2>4 DEF TypeOK, StoreTyped, Others
  <2>7. \A j \in Inum : icache'[j].ref = icache[j].ref + Owns(cwd'[p], file'[p], s, j)
                                                     - Owns(cwd[p], file[p], r, j)
    BY <1>a, <2>1, <2>2, <2>3, <2>4 DEF Owns, One, Inum, None
  <2> QED
    BY <1>a, <2>1, <2>3, <2>4, <2>5, <2>6, <2>7, Ledger DEF Sound
<1>15. CASE Fresh(p)
  <2> DEFINE c == ilock(icache, r.ip, p)
             l == IF r.job.op = "mkdir" THEN "uplink" ELSE "name"
  <2>1. /\ r.pc = "fresh" /\ iupdate(r.ip, icache'[r.ip])
        /\ icache' = [c EXCEPT ![r.ip].nlink = 1]
        /\ Set(p, [pc |-> l])
        /\ UNCHANGED <<bitmap, dirent, cwd, file, calls, programs>>
    BY <1>15 DEF Fresh, disk, Still, At
  <2>2. r.at = None /\ r.dp \in Inum /\ r.ip \in Inum /\ l \in {"uplink", "name"}
    BY <1>b, <2>1 DEF PutPc, AtPc, DpPc, IpPc, FilePc
  <2> HIDE DEF c, l
  <2>3. CacheTyped(icache') /\ \A j \in Inum : icache'[j].ref = icache[j].ref
    <3>1. CacheTyped(c) /\ \A j \in Inum : c[j].ref = icache[j].ref
      BY <1>a, <2>2, CacheLock DEF c
    <3>2. /\ CacheTyped([c EXCEPT ![r.ip].nlink = 1])
          /\ \A j \in Inum : [c EXCEPT ![r.ip].nlink = 1][j].ref = c[j].ref
      BY <2>2, <3>1, CacheNlink
    <3> QED
      BY <2>1, <3>1, <3>2
  <2>4. /\ t' = [q \in Process |-> t'[q]] /\ \A q \in Process \ {p} : t'[q] = t[q]
        /\ s.pc = l /\ Label(s) = l /\ CallTyped(s)
        /\ First(r) = None /\ Second(r) = None /\ Label(r) = r.pc
        /\ First(s) = None /\ Second(s) = None
        /\ s.at = r.at /\ s.dp = r.dp /\ s.ip = r.ip /\ s.job = r.job /\ s.path = r.path
    BY <2>1, <2>2, Goes DEF PutPc, Pc, DpPc
  <2>5. PointersSet(s) /\ CallFits(s, file'[p])
    BY <1>a, <2>1, <2>2, <2>4 DEF Sound, PointersSet, CallFits, PutPc, AtPc, DpPc, IpPc,
       FilePc
  <2>6. StoreTyped' /\ Others(p)
    <3>1. dinode' \in [Inum -> [type : Type, nlink : Int, addr : Block \cup {None}]]
      <4>1. SlotTyped(icache'[r.ip])
        BY <1>a, <2>2, <2>3 DEF CacheTyped
      <4>2. iupdate(r.ip, icache'[r.ip])
        BY <2>1
      <4> QED
        BY <1>a, <2>2, <4>1, <4>2, DiskTyped DEF SlotTyped
    <3> QED
      BY <1>a, <2>1, <2>2, <2>4, <3>1 DEF TypeOK, StoreTyped, Others
  <2>7. \A j \in Inum : icache'[j].ref = icache[j].ref + Owns(cwd'[p], file'[p], s, j)
                                                     - Owns(cwd[p], file[p], r, j)
    <3>1. cwd' = cwd /\ file' = file /\ r.pc # "iget"
      BY <2>1
    <3> QED
      BY <1>a, <2>2, <2>3, <2>4, <3>1 DEF Owns, One, Inum, None
  <2> QED
    BY <1>a, <2>1, <2>3, <2>4, <2>5, <2>6, <2>7, Ledger DEF Sound
<1>16. CASE Uplink(p)
  <2>1. /\ r.pc = "uplink" /\ iupdate(r.dp, icache'[r.dp])
        /\ icache' = [icache EXCEPT ![r.dp].nlink = @ + 1]
        /\ Set(p, [pc |-> "balloc"])
        /\ UNCHANGED <<bitmap, dirent, cwd, file, calls, programs>>
    BY <1>16 DEF Uplink, disk, Still, At
  <2>2. r.at = None /\ r.dp \in Inum /\ r.ip \in Inum
    BY <1>b, <2>1 DEF PutPc, AtPc, DpPc, IpPc, FilePc
  <2>3. CacheTyped(icache') /\ \A j \in Inum : icache'[j].ref = icache[j].ref
    <3> DEFINE n == icache[r.dp].nlink + 1
               e == [icache EXCEPT ![r.dp].nlink = n]
    <3>1. CacheTyped(icache)
      BY <1>a
    <3>2. n \in Int
      BY <2>2, <3>1 DEF CacheTyped, SlotTyped
    <3>3. icache' = e
      BY <2>1
    <3> HIDE DEF n
    <3>4. CacheTyped(e) /\ \A j \in Inum : e[j].ref = icache[j].ref
      BY <2>2, <3>1, <3>2, CacheNlink
    <3> QED
      BY <3>1, <3>3, <3>4
  <2>4. /\ t' = [q \in Process |-> t'[q]] /\ \A q \in Process \ {p} : t'[q] = t[q]
        /\ s.pc = "balloc" /\ Label(s) = "balloc" /\ CallTyped(s)
        /\ First(r) = None /\ Second(r) = None /\ Label(r) = r.pc
        /\ First(s) = None /\ Second(s) = None
        /\ s.at = r.at /\ s.dp = r.dp /\ s.ip = r.ip /\ s.job = r.job /\ s.path = r.path
    BY <2>1, <2>2, Goes DEF PutPc, Pc, DpPc
  <2>5. PointersSet(s) /\ CallFits(s, file'[p])
    BY <1>a, <2>1, <2>2, <2>4 DEF Sound, PointersSet, CallFits, PutPc, AtPc, DpPc, IpPc,
       FilePc
  <2>6. StoreTyped' /\ Others(p)
    <3>1. dinode' \in [Inum -> [type : Type, nlink : Int, addr : Block \cup {None}]]
      <4>1. SlotTyped(icache'[r.dp])
        BY <1>a, <2>2, <2>3 DEF CacheTyped
      <4>2. iupdate(r.dp, icache'[r.dp])
        BY <2>1
      <4> QED
        BY <1>a, <2>2, <4>1, <4>2, DiskTyped DEF SlotTyped
    <3> QED
      BY <1>a, <2>1, <2>2, <2>4, <3>1 DEF TypeOK, StoreTyped, Others
  <2>7. \A j \in Inum : icache'[j].ref = icache[j].ref + Owns(cwd'[p], file'[p], s, j)
                                                     - Owns(cwd[p], file[p], r, j)
    <3>1. cwd' = cwd /\ file' = file /\ r.pc # "iget"
      BY <2>1
    <3> QED
      BY <1>a, <2>2, <2>3, <2>4, <3>1 DEF Owns, One, Inum, None
  <2> QED
    BY <1>a, <2>1, <2>3, <2>4, <2>5, <2>6, <2>7, Ledger DEF Sound
<1>17. CASE DotsBlock(p)
  <2> DEFINE b == Min(Block \ bitmap)
  <2>1. /\ r.pc = "balloc" /\ Block \ bitmap # {}
        /\ bitmap' = bitmap \cup {b} /\ icache' = [icache EXCEPT ![r.ip].addr = b]
        /\ Set(p, [pc |-> "dots"])
        /\ UNCHANGED <<dinode, dirent, cwd, file, calls, programs>>
    BY <1>17 DEF DotsBlock, disk, Still, At, Balloc
  <2>2. r.at = None /\ r.dp \in Inum /\ r.ip \in Inum /\ b \in Block
    <3>1. b \in Block
      BY <1>a, <2>1, FreeFound
    <3> QED
      BY <1>b, <2>1, <3>1 DEF PutPc, AtPc, DpPc, IpPc, FilePc
  <2> HIDE DEF b
  <2>3. CacheTyped(icache') /\ \A j \in Inum : icache'[j].ref = icache[j].ref
    <3>1. /\ CacheTyped([icache EXCEPT ![r.ip].addr = b])
          /\ \A j \in Inum : [icache EXCEPT ![r.ip].addr = b][j].ref = icache[j].ref
      BY <1>a, <2>2, CacheAddr
    <3> QED
      BY <2>1, <2>2, <3>1
  <2>4. /\ t' = [q \in Process |-> t'[q]] /\ \A q \in Process \ {p} : t'[q] = t[q]
        /\ s.pc = "dots" /\ Label(s) = "dots" /\ CallTyped(s)
        /\ First(r) = None /\ Second(r) = None /\ Label(r) = r.pc
        /\ First(s) = None /\ Second(s) = None
        /\ s.at = r.at /\ s.dp = r.dp /\ s.ip = r.ip /\ s.job = r.job /\ s.path = r.path
    BY <2>1, <2>2, Goes DEF PutPc, Pc, DpPc
  <2>5. PointersSet(s) /\ CallFits(s, file'[p])
    BY <1>a, <2>1, <2>2, <2>4 DEF Sound, PointersSet, CallFits, PutPc, AtPc, DpPc, IpPc,
       FilePc
  <2>6. StoreTyped' /\ Others(p)
    BY <1>a, <2>1, <2>2, <2>4 DEF TypeOK, StoreTyped, Others
  <2>7. \A j \in Inum : icache'[j].ref = icache[j].ref + Owns(cwd'[p], file'[p], s, j)
                                                     - Owns(cwd[p], file[p], r, j)
    BY <1>a, <2>1, <2>2, <2>3, <2>4 DEF Owns, One, Inum, None
  <2> QED
    BY <1>a, <2>1, <2>3, <2>4, <2>5, <2>6, <2>7, Ledger DEF Sound
<1>18. CASE Dots(p)
  <2>1. /\ r.pc = "dots" /\ iupdate(r.ip, icache[r.ip]) /\ UNCHANGED icache
        /\ dirent' = [dirent EXCEPT ![icache[r.ip].addr][".."] = r.dp]
        /\ Set(p, [pc |-> "name"])
        /\ UNCHANGED <<bitmap, cwd, file, calls, programs>>
    BY <1>18 DEF Dots, disk, Still, At
  <2>2. r.at = None /\ r.dp \in Inum /\ r.ip \in Inum
    BY <1>b, <2>1 DEF PutPc, AtPc, DpPc, IpPc, FilePc
  <2>3. CacheTyped(icache') /\ \A j \in Inum : icache'[j].ref = icache[j].ref
    BY <1>a, <2>1, <2>2
  <2>4. /\ t' = [q \in Process |-> t'[q]] /\ \A q \in Process \ {p} : t'[q] = t[q]
        /\ s.pc = "name" /\ Label(s) = "name" /\ CallTyped(s)
        /\ First(r) = None /\ Second(r) = None /\ Label(r) = r.pc
        /\ First(s) = None /\ Second(s) = None
        /\ s.at = r.at /\ s.dp = r.dp /\ s.ip = r.ip /\ s.job = r.job /\ s.path = r.path
    BY <2>1, <2>2, Goes DEF PutPc, Pc, DpPc
  <2>5. PointersSet(s) /\ CallFits(s, file'[p])
    BY <1>a, <2>1, <2>2, <2>4 DEF Sound, PointersSet, CallFits, PutPc, AtPc, DpPc, IpPc,
       FilePc
  <2>6. StoreTyped' /\ Others(p)
    <3>1. dinode' \in [Inum -> [type : Type, nlink : Int, addr : Block \cup {None}]]
      <4>1. SlotTyped(icache[r.ip])
        BY <1>a, <2>2, <2>3 DEF CacheTyped
      <4>2. iupdate(r.ip, icache[r.ip])
        BY <2>1
      <4> QED
        BY <1>a, <2>2, <4>1, <4>2, DiskTyped DEF SlotTyped
    <3> QED
      BY <1>a, <2>1, <2>2, <2>4, <3>1, EntryTyped DEF TypeOK, StoreTyped, Others
  <2>7. \A j \in Inum : icache'[j].ref = icache[j].ref + Owns(cwd'[p], file'[p], s, j)
                                                     - Owns(cwd[p], file[p], r, j)
    <3>1. cwd' = cwd /\ file' = file /\ r.pc # "iget"
      BY <2>1
    <3> QED
      BY <1>a, <2>2, <2>3, <2>4, <3>1 DEF Owns, One, Inum, None
  <2> QED
    BY <1>a, <2>1, <2>3, <2>4, <2>5, <2>6, <2>7, Ledger DEF Sound
<1>19. CASE CreateName(p)
  <2> DEFINE d == [dp |-> None, done |-> TRUE]
  <2>1. /\ r.pc = "name" /\ icache' = iunlock(icache, r.dp)
        /\ dirent' = [dirent EXCEPT ![icache[r.dp].addr][Elem(p)] = r.ip]
        /\ Puts(p, <<r.dp>>, "created", d)
        /\ UNCHANGED <<dinode, bitmap, cwd, file, calls, programs>>
    BY <1>19 DEF CreateName, disk, Still, At
  <2>2. r.at = None /\ r.dp \in Inum /\ r.ip \in Inum
    BY <1>b, <2>1 DEF PutPc, AtPc, DpPc, IpPc, FilePc
  <2>3. CacheTyped(icache') /\ \A j \in Inum : icache'[j].ref = icache[j].ref
    BY <1>a, <2>1, <2>2, CacheLock
  <2>4. /\ t' = [q \in Process |-> t'[q]] /\ \A q \in Process \ {p} : t'[q] = t[q]
        /\ s.pc = "iput" /\ Label(s) = "created" /\ CallTyped(s)
        /\ First(r) = None /\ Second(r) = None /\ Label(r) = r.pc
        /\ First(s) = r.dp /\ Second(s) = None
        /\ s.dp = None
        /\ s.at = r.at /\ s.ip = r.ip /\ s.job = r.job /\ s.path = r.path
    BY <2>1, <2>2, GivesOne DEF PutPc, ThenPc
  <2>5. PointersSet(s) /\ CallFits(s, file'[p])
    BY <1>a, <2>1, <2>2, <2>4 DEF Sound, PointersSet, CallFits, PutPc, AtPc, DpPc, IpPc,
       FilePc
  <2>6. StoreTyped' /\ Others(p)
    BY <1>a, <2>1, <2>2, <2>4, EntryTyped DEF TypeOK, StoreTyped, Others
  <2>7. \A j \in Inum : icache'[j].ref = icache[j].ref + Owns(cwd'[p], file'[p], s, j)
                                                     - Owns(cwd[p], file[p], r, j)
    BY <1>a, <2>1, <2>2, <2>3, <2>4 DEF Owns, One, Inum, None
  <2> QED
    BY <1>a, <2>1, <2>3, <2>4, <2>5, <2>6, <2>7, Ledger DEF Sound
<1>20. CASE Created(p)
  <2>1. /\ r.pc = "created" /\ icache' = iunlock(icache, r.ip)
        /\ UNCHANGED <<dinode, bitmap, dirent, cwd, calls, programs>>
    BY <1>20 DEF Created, disk, Still
  <2>2. r.at = None /\ r.dp = None /\ r.ip \in Inum /\ (r.job.op = "create" => file[p] = None)
    BY <1>b, <2>1 DEF PutPc, AtPc, DpPc, IpPc, FilePc
  <2>3. CacheTyped(icache') /\ \A j \in Inum : icache'[j].ref = icache[j].ref
    BY <1>a, <2>1, <2>2, CacheLock
  <2>4. ASSUME NEW b, Puts(p, <<r.ip>>, "ret", [ip |-> None, ok |-> b]), UNCHANGED file
        PROVE  IInv'
    <3>1. /\ t' = [q \in Process |-> t'[q]] /\ \A q \in Process \ {p} : t'[q] = t[q]
          /\ s.pc = "iput" /\ Label(s) = "ret" /\ CallTyped(s)
          /\ First(r) = None /\ Second(r) = None /\ Label(r) = r.pc
          /\ First(s) = r.ip /\ Second(s) = None
          /\ s.ip = None
          /\ s.at = r.at /\ s.dp = r.dp /\ s.job = r.job /\ s.path = r.path
      BY <2>1, <2>2, <2>3, <2>4, GivesOne DEF PutPc, ThenPc
    <3>2. PointersSet(s) /\ CallFits(s, file'[p])
      BY <1>a, <2>1, <2>2, <2>3, <2>4, <3>1 DEF Sound, PointersSet, CallFits, PutPc, AtPc,
         DpPc, IpPc, FilePc
    <3>3. StoreTyped' /\ Others(p)
      BY <1>a, <2>1, <2>2, <2>3, <2>4, <3>1 DEF TypeOK, StoreTyped, Others
    <3>4. \A j \in Inum : icache'[j].ref = icache[j].ref + Owns(cwd'[p], file'[p], s, j)
                                                       - Owns(cwd[p], file[p], r, j)
      BY <1>a, <2>1, <2>2, <2>3, <2>4, <3>1 DEF Owns, One, Inum, None, TypeOK
    <3> QED
      BY <1>a, <2>1, <2>2, <2>3, <2>4, <3>1, <3>2, <3>3, <3>4, Ledger DEF Sound
  <2>5. ASSUME r.job.op = "create", file' = [file EXCEPT ![p] = r.ip],
               Set(p, [ip |-> None, pc |-> "ret", ok |-> TRUE])
        PROVE  IInv'
    <3>1. /\ t' = [q \in Process |-> t'[q]] /\ \A q \in Process \ {p} : t'[q] = t[q]
          /\ s.pc = "ret" /\ Label(s) = "ret" /\ CallTyped(s)
          /\ First(r) = None /\ Second(r) = None /\ Label(r) = r.pc
          /\ First(s) = None /\ Second(s) = None
          /\ s.ip = None
          /\ s.at = r.at /\ s.dp = r.dp /\ s.job = r.job /\ s.path = r.path
      BY <2>1, <2>2, <2>3, <2>5, Goes DEF PutPc, Pc
    <3>2. PointersSet(s) /\ CallFits(s, file'[p])
      BY <1>a, <2>1, <2>2, <2>3, <2>5, <3>1 DEF Sound, PointersSet, CallFits, PutPc, AtPc,
         DpPc, IpPc, FilePc
    <3>3. StoreTyped' /\ Others(p)
      BY <1>a, <2>1, <2>2, <2>3, <2>5, <3>1 DEF TypeOK, StoreTyped, Others
    <3>4. \A j \in Inum : icache'[j].ref = icache[j].ref + Owns(cwd'[p], file'[p], s, j)
                                                       - Owns(cwd[p], file[p], r, j)
      BY <1>a, <2>1, <2>2, <2>3, <2>5, <3>1 DEF Owns, One, Inum, None, TypeOK
    <3> QED
      BY <1>a, <2>1, <2>2, <2>3, <2>5, <3>1, <3>2, <3>3, <3>4, Ledger DEF Sound
  <2> QED
    BY <1>20, <2>4, <2>5 DEF Created
<1>21. CASE UnlinkMiss(p)
  BY <1>b, <1>21, <1>1 DEF UnlinkMiss, Dir, At, disk, Still, PutPc, AtPc, DpPc, IpPc, FilePc
<1>22. CASE Unlink(p)
  <2> DEFINE f == lookup(Dir(p), Elem(p))
             c == ilock(icache, r.at, p)
             d == [at |-> None, dp |-> r.at, ip |-> f, pc |-> "victim"]
  <2>1. /\ r.pc = "unlink" /\ f # None
        /\ icache' = iget(c, f) /\ Set(p, d)
        /\ UNCHANGED <<dinode, bitmap, dirent, cwd, file, calls, programs>>
    BY <1>22 DEF Unlink, disk, Still, At, Dir, Elem
  <2>2. r.at \in Inum /\ f \in Inum /\ r.dp = None /\ r.ip = None
    <3>0. r.at \in Inum /\ r.dp = None /\ r.ip = None /\ r.path \in Seq(Entry)
            /\ r.path # <<>>
      BY <1>b, <2>1 DEF PutPc, AtPc, DpPc, IpPc, FilePc
    <3>1. r.path[1] \in Entry
      BY <3>0
    <3> QED
      BY <1>a, <2>1, <3>0, <3>1, Found DEF Dir, Elem
  <2> HIDE DEF f, c
  <2>3. CacheTyped(icache') /\ \A j \in Inum : icache'[j].ref = icache[j].ref + One(f = j)
    <3>1. CacheTyped(c) /\ \A j \in Inum : c[j].ref = icache[j].ref
      BY <1>a, <2>2, CacheLock DEF c
    <3> QED
      BY <1>a, <2>1, <2>2, <3>1, CacheGet
  <2>4. /\ t' = [q \in Process |-> t'[q]] /\ \A q \in Process \ {p} : t'[q] = t[q]
        /\ s.pc = "victim" /\ Label(s) = "victim" /\ CallTyped(s)
        /\ First(r) = None /\ Second(r) = None /\ Label(r) = r.pc
        /\ First(s) = None /\ Second(s) = None
        /\ s.at = None /\ s.dp = r.at /\ s.ip = f
        /\ s.job = r.job /\ s.path = r.path
    BY <2>1, <2>2, Goes DEF PutPc, Pc, DpPc
  <2>5. PointersSet(s) /\ CallFits(s, file'[p])
    BY <1>a, <2>1, <2>2, <2>4 DEF Sound, PointersSet, CallFits, PutPc, AtPc, DpPc, IpPc,
       FilePc
  <2>6. StoreTyped' /\ Others(p)
    BY <1>a, <2>1, <2>2, <2>4 DEF TypeOK, StoreTyped, Others
  <2>7. \A j \in Inum : icache'[j].ref = icache[j].ref + Owns(cwd'[p], file'[p], s, j)
                                                     - Owns(cwd[p], file[p], r, j)
    BY <1>a, <2>1, <2>2, <2>3, <2>4 DEF Owns, One, Inum, None
  <2> QED
    BY <1>a, <2>1, <2>3, <2>4, <2>5, <2>6, <2>7, Ledger DEF Sound
<1>23. CASE UnlinkFull(p)
  <2> DEFINE c == Read(icache, r.ip)
             d == [ip |-> None, dp |-> None]
  <2>1. /\ r.pc = "victim" /\ icache' = iunlock(c, r.dp)
        /\ Puts(p, <<r.ip, r.dp>>, "ret", d)
        /\ UNCHANGED <<dinode, bitmap, dirent, cwd, file, calls, programs>>
    BY <1>23 DEF UnlinkFull, disk, Still, At
  <2>2. r.at = None /\ r.dp \in Inum /\ r.ip \in Inum
    BY <1>b, <2>1 DEF PutPc, AtPc, DpPc, IpPc, FilePc
  <2> HIDE DEF c
  <2>3. CacheTyped(icache') /\ \A j \in Inum : icache'[j].ref = icache[j].ref
    <3>1. CacheTyped(c) /\ \A j \in Inum : c[j].ref = icache[j].ref
      BY <1>a, <2>2, CacheRead DEF c
    <3>2. CacheTyped(iunlock(c, r.dp)) /\ \A j \in Inum : iunlock(c, r.dp)[j].ref = c[j].ref
      BY <1>a, <2>2, <3>1, CacheLock
    <3> QED
      BY <2>1, <3>1, <3>2
  <2>4. /\ t' = [q \in Process |-> t'[q]] /\ \A q \in Process \ {p} : t'[q] = t[q]
        /\ s.pc = "iput" /\ Label(s) = "ret" /\ CallTyped(s)
        /\ First(r) = None /\ Second(r) = None /\ Label(r) = r.pc
        /\ First(s) = r.ip /\ Second(s) = r.dp
        /\ s.ip = None /\ s.dp = None
        /\ s.at = r.at /\ s.job = r.job /\ s.path = r.path
    BY <2>1, <2>2, GivesTwo DEF PutPc, ThenPc
  <2>5. PointersSet(s) /\ CallFits(s, file'[p])
    BY <1>a, <2>1, <2>2, <2>4 DEF Sound, PointersSet, CallFits, PutPc, AtPc, DpPc, IpPc,
       FilePc
  <2>6. StoreTyped' /\ Others(p)
    BY <1>a, <2>1, <2>2, <2>4 DEF TypeOK, StoreTyped, Others
  <2>7. \A j \in Inum : icache'[j].ref = icache[j].ref + Owns(cwd'[p], file'[p], s, j)
                                                     - Owns(cwd[p], file[p], r, j)
    BY <1>a, <2>1, <2>2, <2>3, <2>4 DEF Owns, One, Inum, None
  <2> QED
    BY <1>a, <2>1, <2>3, <2>4, <2>5, <2>6, <2>7, Ledger DEF Sound
<1>24. CASE UnlinkEntry(p)
  <2> DEFINE c == ilock(icache, r.ip, p)
  <2>1. /\ r.pc = "victim" /\ dirent' = [dirent EXCEPT ![icache[r.dp].addr][Elem(p)] = None]
        /\ UNCHANGED <<dinode, bitmap, cwd, file, calls, programs>>
    BY <1>24 DEF UnlinkEntry, disk, Still, At
  <2>2. r.at = None /\ r.dp \in Inum /\ r.ip \in Inum
    BY <1>b, <2>1 DEF PutPc, AtPc, DpPc, IpPc, FilePc
  <2>3. CacheTyped(c) /\ \A j \in Inum : c[j].ref = icache[j].ref
    BY <1>a, <2>2, CacheLock
  <2>4. CASE icache' = c /\ Set(p, [done |-> TRUE, pc |-> "downlink"])
    <3>0. CacheTyped(icache') /\ \A j \in Inum : icache'[j].ref = icache[j].ref
      BY <2>3, <2>4
    <3>1. /\ t' = [q \in Process |-> t'[q]] /\ \A q \in Process \ {p} : t'[q] = t[q]
          /\ s.pc = "downlink" /\ Label(s) = "downlink" /\ CallTyped(s)
          /\ First(r) = None /\ Second(r) = None /\ Label(r) = r.pc
          /\ First(s) = None /\ Second(s) = None
          /\ s.at = r.at /\ s.dp = r.dp /\ s.ip = r.ip /\ s.job = r.job /\ s.path = r.path
      BY <2>1, <2>2, <2>4, Goes DEF PutPc, Pc, DpPc
    <3>2. PointersSet(s) /\ CallFits(s, file'[p])
      BY <1>a, <2>1, <2>2, <2>4, <3>1 DEF Sound, PointersSet, CallFits, PutPc, AtPc, DpPc,
         IpPc, FilePc
    <3>3. StoreTyped' /\ Others(p)
      BY <1>a, <2>1, <2>2, <2>4, <3>1, EntryTyped DEF TypeOK, StoreTyped, Others
    <3>4. \A j \in Inum : icache'[j].ref = icache[j].ref + Owns(cwd'[p], file'[p], s, j)
                                                       - Owns(cwd[p], file[p], r, j)
      BY <1>a, <2>1, <2>2, <2>4, <3>0, <3>1 DEF Owns, One, Inum, None
    <3> QED
      BY <1>a, <2>1, <2>2, <2>4, <3>0, <3>1, <3>2, <3>3, <3>4, Ledger DEF Sound
  <2>5. CASE icache' = iunlock(c, r.dp)
          /\ Puts(p, <<r.dp>>, "unlinked", [done |-> TRUE, dp |-> None])
    <3> HIDE DEF c
    <3>0. CacheTyped(icache') /\ \A j \in Inum : icache'[j].ref = icache[j].ref
      <4>1. CacheTyped(iunlock(c, r.dp)) /\ \A j \in Inum : iunlock(c, r.dp)[j].ref = c[j].ref
        BY <1>a, <2>2, <2>3, CacheLock
      <4> QED
        BY <2>3, <2>5, <4>1
    <3>1. /\ t' = [q \in Process |-> t'[q]] /\ \A q \in Process \ {p} : t'[q] = t[q]
          /\ s.pc = "iput" /\ Label(s) = "unlinked" /\ CallTyped(s)
          /\ First(r) = None /\ Second(r) = None /\ Label(r) = r.pc
          /\ First(s) = r.dp /\ Second(s) = None
          /\ s.dp = None
          /\ s.at = r.at /\ s.ip = r.ip /\ s.job = r.job /\ s.path = r.path
      BY <2>1, <2>2, <2>5, GivesOne DEF PutPc, ThenPc
    <3>2. PointersSet(s) /\ CallFits(s, file'[p])
      BY <1>a, <2>1, <2>2, <2>5, <3>1 DEF Sound, PointersSet, CallFits, PutPc, AtPc, DpPc,
         IpPc, FilePc
    <3>3. StoreTyped' /\ Others(p)
      BY <1>a, <2>1, <2>2, <2>5, <3>1, EntryTyped DEF TypeOK, StoreTyped, Others
    <3>4. \A j \in Inum : icache'[j].ref = icache[j].ref + Owns(cwd'[p], file'[p], s, j)
                                                       - Owns(cwd[p], file[p], r, j)
      BY <1>a, <2>1, <2>2, <2>5, <3>0, <3>1 DEF Owns, One, Inum, None
    <3> QED
      BY <1>a, <2>1, <2>2, <2>5, <3>0, <3>1, <3>2, <3>3, <3>4, Ledger DEF Sound
  <2> QED
    BY <1>24, <2>4, <2>5 DEF UnlinkEntry
<1>25. CASE Downlink(p)
  <2>1. /\ r.pc = "downlink" /\ iupdate(r.dp, icache'[r.dp])
        /\ icache' = [icache EXCEPT ![r.dp].nlink = @ - 1, ![r.dp].busy = NoProcess]
        /\ Puts(p, <<r.dp>>, "unlinked", [dp |-> None])
        /\ UNCHANGED <<bitmap, dirent, cwd, file, calls, programs>>
    BY <1>25 DEF Downlink, disk, Still, At
  <2>2. r.at = None /\ r.dp \in Inum /\ r.ip \in Inum
    BY <1>b, <2>1 DEF PutPc, AtPc, DpPc, IpPc, FilePc
  <2>3. CacheTyped(icache') /\ \A j \in Inum : icache'[j].ref = icache[j].ref
    <3> DEFINE n == icache[r.dp].nlink - 1
               e == [icache EXCEPT ![r.dp].nlink = n]
    <3>1. CacheTyped(icache)
      BY <1>a
    <3>2. n \in Int
      BY <2>2, <3>1 DEF CacheTyped, SlotTyped
    <3>3. icache' = [e EXCEPT ![r.dp].busy = NoProcess]
      BY <2>1
    <3> HIDE DEF n
    <3>4. CacheTyped(e) /\ \A j \in Inum : e[j].ref = icache[j].ref
      BY <2>2, <3>1, <3>2, CacheNlink
    <3> HIDE DEF e
    <3>5. /\ CacheTyped([e EXCEPT ![r.dp].busy = NoProcess])
          /\ \A j \in Inum : [e EXCEPT ![r.dp].busy = NoProcess][j].ref = e[j].ref
      BY <2>2, <3>4, CacheBusy
    <3> QED
      BY <3>1, <3>3, <3>4, <3>5
  <2>4. /\ t' = [q \in Process |-> t'[q]] /\ \A q \in Process \ {p} : t'[q] = t[q]
        /\ s.pc = "iput" /\ Label(s) = "unlinked" /\ CallTyped(s)
        /\ First(r) = None /\ Second(r) = None /\ Label(r) = r.pc
        /\ First(s) = r.dp /\ Second(s) = None
        /\ s.dp = None
        /\ s.at = r.at /\ s.ip = r.ip /\ s.job = r.job /\ s.path = r.path
    BY <2>1, <2>2, GivesOne DEF PutPc, ThenPc
  <2>5. PointersSet(s) /\ CallFits(s, file'[p])
    BY <1>a, <2>1, <2>2, <2>4 DEF Sound, PointersSet, CallFits, PutPc, AtPc, DpPc, IpPc,
       FilePc
  <2>6. StoreTyped' /\ Others(p)
    <3>1. dinode' \in [Inum -> [type : Type, nlink : Int, addr : Block \cup {None}]]
      <4>1. SlotTyped(icache'[r.dp])
        BY <1>a, <2>2, <2>3 DEF CacheTyped
      <4>2. iupdate(r.dp, icache'[r.dp])
        BY <2>1
      <4> QED
        BY <1>a, <2>2, <4>1, <4>2, DiskTyped DEF SlotTyped
    <3> QED
      BY <1>a, <2>1, <2>2, <2>4, <3>1 DEF TypeOK, StoreTyped, Others
  <2>7. \A j \in Inum : icache'[j].ref = icache[j].ref + Owns(cwd'[p], file'[p], s, j)
                                                     - Owns(cwd[p], file[p], r, j)
    <3>1. cwd' = cwd /\ file' = file /\ r.pc # "iget"
      BY <2>1
    <3> QED
      BY <1>a, <2>2, <2>3, <2>4, <3>1 DEF Owns, One, Inum, None
  <2> QED
    BY <1>a, <2>1, <2>3, <2>4, <2>5, <2>6, <2>7, Ledger DEF Sound
<1>26. CASE Unlinked(p)
  <2>1. /\ r.pc = "unlinked" /\ iupdate(r.ip, icache'[r.ip])
        /\ icache' = [icache EXCEPT ![r.ip].nlink = @ - 1, ![r.ip].busy = NoProcess]
        /\ Puts(p, <<r.ip>>, "ret", [ip |-> None, ok |-> TRUE])
        /\ UNCHANGED <<bitmap, dirent, cwd, file, calls, programs>>
    BY <1>26 DEF Unlinked, disk, Still, At
  <2>2. r.at = None /\ r.dp = None /\ r.ip \in Inum
    BY <1>b, <2>1 DEF PutPc, AtPc, DpPc, IpPc, FilePc
  <2>3. CacheTyped(icache') /\ \A j \in Inum : icache'[j].ref = icache[j].ref
    <3> DEFINE n == icache[r.ip].nlink - 1
               e == [icache EXCEPT ![r.ip].nlink = n]
    <3>1. CacheTyped(icache)
      BY <1>a
    <3>2. n \in Int
      BY <2>2, <3>1 DEF CacheTyped, SlotTyped
    <3>3. icache' = [e EXCEPT ![r.ip].busy = NoProcess]
      BY <2>1
    <3> HIDE DEF n
    <3>4. CacheTyped(e) /\ \A j \in Inum : e[j].ref = icache[j].ref
      BY <2>2, <3>1, <3>2, CacheNlink
    <3> HIDE DEF e
    <3>5. /\ CacheTyped([e EXCEPT ![r.ip].busy = NoProcess])
          /\ \A j \in Inum : [e EXCEPT ![r.ip].busy = NoProcess][j].ref = e[j].ref
      BY <2>2, <3>4, CacheBusy
    <3> QED
      BY <3>1, <3>3, <3>4, <3>5
  <2>4. /\ t' = [q \in Process |-> t'[q]] /\ \A q \in Process \ {p} : t'[q] = t[q]
        /\ s.pc = "iput" /\ Label(s) = "ret" /\ CallTyped(s)
        /\ First(r) = None /\ Second(r) = None /\ Label(r) = r.pc
        /\ First(s) = r.ip /\ Second(s) = None
        /\ s.ip = None
        /\ s.at = r.at /\ s.dp = r.dp /\ s.job = r.job /\ s.path = r.path
    BY <2>1, <2>2, GivesOne DEF PutPc, ThenPc
  <2>5. PointersSet(s) /\ CallFits(s, file'[p])
    BY <1>a, <2>1, <2>2, <2>4 DEF Sound, PointersSet, CallFits, PutPc, AtPc, DpPc, IpPc,
       FilePc
  <2>6. StoreTyped' /\ Others(p)
    <3>1. dinode' \in [Inum -> [type : Type, nlink : Int, addr : Block \cup {None}]]
      <4>1. SlotTyped(icache'[r.ip])
        BY <1>a, <2>2, <2>3 DEF CacheTyped
      <4>2. iupdate(r.ip, icache'[r.ip])
        BY <2>1
      <4> QED
        BY <1>a, <2>2, <4>1, <4>2, DiskTyped DEF SlotTyped
    <3> QED
      BY <1>a, <2>1, <2>2, <2>4, <3>1 DEF TypeOK, StoreTyped, Others
  <2>7. \A j \in Inum : icache'[j].ref = icache[j].ref + Owns(cwd'[p], file'[p], s, j)
                                                     - Owns(cwd[p], file[p], r, j)
    <3>1. cwd' = cwd /\ file' = file /\ r.pc # "iget"
      BY <2>1
    <3> QED
      BY <1>a, <2>2, <2>3, <2>4, <3>1 DEF Owns, One, Inum, None
  <2> QED
    BY <1>a, <2>1, <2>3, <2>4, <2>5, <2>6, <2>7, Ledger DEF Sound
<1>27. CASE LinkDir(p)
  BY <1>b, <1>27, <1>1 DEF LinkDir, At, disk, Still, PutPc, AtPc, DpPc, IpPc, FilePc
<1>28. CASE Link(p)
  <2> DEFINE u == Read(icache, r.at)
             c == [u EXCEPT ![r.at].nlink = @ + 1]
             d == [ip |-> r.at, at |-> Start(p, r.job), path |-> r.job.new, pc |-> "walk"]
  <2>1. /\ r.pc = "link" /\ iupdate(r.at, c[r.at])
        /\ icache' = started(c, p, r.job)
        /\ Set(p, d)
        /\ UNCHANGED <<bitmap, dirent, cwd, file, calls, programs>>
    BY <1>28 DEF Link, disk, Still, At
  <2>2. /\ r.at \in Inum /\ r.dp = None /\ r.ip = None /\ r.job.op = "link"
        /\ CacheTyped(c) /\ \A j \in Inum : c[j].ref = icache[j].ref
        /\ Start(p, r.job) \in Inum /\ r.job.new \in Seq(Entry)
    <3>1. r.at \in Inum /\ r.dp = None /\ r.ip = None /\ r.job.op = "link"
            /\ r.job \in Jobs[programs]
      BY <1>b, <2>1 DEF PutPc, AtPc, DpPc, IpPc, FilePc
    <3>2. CacheTyped(u) /\ (\A j \in Inum : u[j].ref = icache[j].ref)
      BY <1>a, <3>1, CacheRead
    <3> HIDE DEF u
    <3>3. u[r.at].nlink + 1 \in Int
      BY <3>1, <3>2 DEF CacheTyped, SlotTyped
    <3>4. CacheTyped(c) /\ \A j \in Inum : c[j].ref = icache[j].ref
      BY <3>1, <3>2, <3>3, CacheNlink
    <3>5. r.job.new \in Seq(Entry)
      BY <1>a, <3>1, FsAssumption
    <3>6. Start(p, r.job) \in Inum
      BY FsAssumption, <1>a DEF Start, TypeOK, Root, Inum
    <3> QED
      BY <3>1, <3>4, <3>5, <3>6
  <2> HIDE DEF c
  <2>3. CacheTyped(icache')
          /\ \A j \in Inum : icache'[j].ref = icache[j].ref + One(Start(p, r.job) = j)
    BY <1>a, <2>1, <2>2, CacheStarted
  <2>4. /\ t' = [q \in Process |-> t'[q]] /\ \A q \in Process \ {p} : t'[q] = t[q]
        /\ s.pc = "walk" /\ Label(s) = "walk" /\ CallTyped(s)
        /\ First(r) = None /\ Second(r) = None /\ Label(r) = r.pc
        /\ First(s) = None /\ Second(s) = None
        /\ s.ip = r.at /\ s.at = Start(p, r.job) /\ s.path = r.job.new
        /\ s.dp = r.dp /\ s.job = r.job
    BY <2>1, <2>2, Goes DEF PutPc, Pc, AtPc
  <2>5. PointersSet(s) /\ CallFits(s, file'[p])
    BY <1>a, <2>1, <2>2, <2>4 DEF Sound, PointersSet, CallFits, PutPc, AtPc, DpPc, IpPc,
       FilePc
  <2>6. StoreTyped' /\ Others(p)
    <3>1. dinode' \in [Inum -> [type : Type, nlink : Int, addr : Block \cup {None}]]
      BY <1>a, <2>1, <2>2, DiskTyped DEF CacheTyped, SlotTyped
    <3> QED
      BY <1>a, <2>1, <2>2, <2>4, <3>1 DEF TypeOK, StoreTyped, Others
  <2>7. \A j \in Inum : icache'[j].ref = icache[j].ref + Owns(cwd'[p], file'[p], s, j)
                                                     - Owns(cwd[p], file[p], r, j)
    BY <1>a, <2>1, <2>2, <2>3, <2>4 DEF Owns, One, Inum, None
  <2> QED
    BY <1>a, <2>1, <2>3, <2>4, <2>5, <2>6, <2>7, Ledger DEF Sound
<1>29. CASE LinkTaken(p)
  <2>1. /\ r.pc = "enter" /\ icache' = Read(icache, r.at)
        /\ Puts(p, <<r.at>>, "bad", [at |-> None])
        /\ UNCHANGED <<dinode, bitmap, dirent, cwd, file, calls, programs>>
    BY <1>29 DEF LinkTaken, Dir, At, disk, Still
  <2>2. r.pc \in AtPc /\ r.ip \in Inum
    BY <1>b, <2>1 DEF PutPc, AtPc, DpPc, IpPc, FilePc
  <2>3. r.ip # None
    BY <2>2, FsAssumption DEF Inum, None
  <2> QED
    BY <1>1, <2>1, <2>2, <2>3
<1>30. CASE LinkName(p)
  <2> DEFINE a == Locked(Dir(p)).addr
             d == [at |-> None, ip |-> None, done |-> TRUE, ok |-> TRUE]
  <2>1. /\ r.pc = "enter" /\ icache' = Read(icache, r.at)
        /\ dirent' = [dirent EXCEPT ![a][Elem(p)] = r.ip]
        /\ Puts(p, <<r.at, r.ip>>, "ret", d)
        /\ UNCHANGED <<dinode, bitmap, cwd, file, calls, programs>>
    BY <1>30 DEF LinkName, disk, Still, At, Dir
  <2>2. r.at \in Inum /\ r.dp = None /\ r.ip \in Inum
    BY <1>b, <2>1 DEF PutPc, AtPc, DpPc, IpPc, FilePc
  <2> HIDE DEF a
  <2>3. CacheTyped(icache') /\ \A j \in Inum : icache'[j].ref = icache[j].ref
    BY <1>a, <2>1, <2>2, CacheRead
  <2>4. /\ t' = [q \in Process |-> t'[q]] /\ \A q \in Process \ {p} : t'[q] = t[q]
        /\ s.pc = "iput" /\ Label(s) = "ret" /\ CallTyped(s)
        /\ First(r) = None /\ Second(r) = None /\ Label(r) = r.pc
        /\ First(s) = r.at /\ Second(s) = r.ip
        /\ s.at = None /\ s.ip = None
        /\ s.dp = r.dp /\ s.job = r.job /\ s.path = r.path
    BY <2>1, <2>2, GivesTwo DEF PutPc, ThenPc
  <2>5. PointersSet(s) /\ CallFits(s, file'[p])
    BY <1>a, <2>1, <2>2, <2>4 DEF Sound, PointersSet, CallFits, PutPc, AtPc, DpPc, IpPc,
       FilePc
  <2>6. StoreTyped' /\ Others(p)
    BY <1>a, <2>1, <2>2, <2>4, EntryTyped DEF TypeOK, StoreTyped, Others
  <2>7. \A j \in Inum : icache'[j].ref = icache[j].ref + Owns(cwd'[p], file'[p], s, j)
                                                     - Owns(cwd[p], file[p], r, j)
    BY <1>a, <2>1, <2>2, <2>3, <2>4 DEF Owns, One, Inum, None
  <2> QED
    BY <1>a, <2>1, <2>3, <2>4, <2>5, <2>6, <2>7, Ledger DEF Sound
<1>31. CASE LinkBad(p)
  <2> DEFINE c == Read(icache, r.ip)
  <2>1. /\ r.pc = "bad" /\ iupdate(r.ip, icache'[r.ip])
        /\ icache' = [c EXCEPT ![r.ip].nlink = @ - 1]
        /\ Puts(p, <<r.ip>>, "ret", [ip |-> None])
        /\ UNCHANGED <<bitmap, dirent, cwd, file, calls, programs>>
    BY <1>31 DEF LinkBad, disk, Still, At
  <2>2. r.at = None /\ r.dp = None /\ r.ip \in Inum
    BY <1>b, <2>1 DEF PutPc, AtPc, DpPc, IpPc, FilePc
  <2> HIDE DEF c
  <2>3. CacheTyped(icache') /\ \A j \in Inum : icache'[j].ref = icache[j].ref
    <3> DEFINE n == c[r.ip].nlink - 1
               e == [c EXCEPT ![r.ip].nlink = n]
    <3>1. CacheTyped(c) /\ \A j \in Inum : c[j].ref = icache[j].ref
      BY <1>a, <2>2, CacheRead DEF c
    <3>2. n \in Int
      BY <2>2, <3>1 DEF CacheTyped, SlotTyped
    <3>3. icache' = e
      BY <2>1
    <3> HIDE DEF n
    <3>4. CacheTyped(e) /\ \A j \in Inum : e[j].ref = c[j].ref
      BY <2>2, <3>1, <3>2, CacheNlink
    <3> QED
      BY <3>1, <3>3, <3>4
  <2>4. /\ t' = [q \in Process |-> t'[q]] /\ \A q \in Process \ {p} : t'[q] = t[q]
        /\ s.pc = "iput" /\ Label(s) = "ret" /\ CallTyped(s)
        /\ First(r) = None /\ Second(r) = None /\ Label(r) = r.pc
        /\ First(s) = r.ip /\ Second(s) = None
        /\ s.ip = None
        /\ s.at = r.at /\ s.dp = r.dp /\ s.job = r.job /\ s.path = r.path
    BY <2>1, <2>2, GivesOne DEF PutPc, ThenPc
  <2>5. PointersSet(s) /\ CallFits(s, file'[p])
    BY <1>a, <2>1, <2>2, <2>4 DEF Sound, PointersSet, CallFits, PutPc, AtPc, DpPc, IpPc,
       FilePc
  <2>6. StoreTyped' /\ Others(p)
    <3>1. dinode' \in [Inum -> [type : Type, nlink : Int, addr : Block \cup {None}]]
      <4>1. SlotTyped(icache'[r.ip])
        BY <1>a, <2>2, <2>3 DEF CacheTyped
      <4>2. iupdate(r.ip, icache'[r.ip])
        BY <2>1
      <4> QED
        BY <1>a, <2>2, <4>1, <4>2, DiskTyped DEF SlotTyped
    <3> QED
      BY <1>a, <2>1, <2>2, <2>4, <3>1 DEF TypeOK, StoreTyped, Others
  <2>7. \A j \in Inum : icache'[j].ref = icache[j].ref + Owns(cwd'[p], file'[p], s, j)
                                                     - Owns(cwd[p], file[p], r, j)
    <3>1. cwd' = cwd /\ file' = file /\ r.pc # "iget"
      BY <2>1
    <3> QED
      BY <1>a, <2>2, <2>3, <2>4, <3>1 DEF Owns, One, Inum, None
  <2> QED
    BY <1>a, <2>1, <2>3, <2>4, <2>5, <2>6, <2>7, Ledger DEF Sound
<1>32. CASE Write(p)
  <2> DEFINE b == Locked(file[p]).type = "file"
  <2>1. /\ r.pc = "write" /\ icache' = Read(icache, file[p])
        /\ Set(p, [pc |-> "ret", ok |-> b])
        /\ UNCHANGED <<dinode, bitmap, dirent, cwd, file, calls, programs>>
    BY <1>32 DEF Write, disk, Still, At
  <2>2. file[p] \in Inum /\ r.at = None /\ r.dp = None /\ r.ip = None
    BY <1>b, <2>1 DEF PutPc, AtPc, DpPc, IpPc, FilePc
  <2> HIDE DEF b
  <2>3. CacheTyped(icache') /\ \A j \in Inum : icache'[j].ref = icache[j].ref
    BY <1>a, <2>1, <2>2, CacheRead
  <2>4. /\ t' = [q \in Process |-> t'[q]] /\ \A q \in Process \ {p} : t'[q] = t[q]
        /\ s.pc = "ret" /\ Label(s) = "ret" /\ CallTyped(s)
        /\ First(r) = None /\ Second(r) = None /\ Label(r) = r.pc
        /\ First(s) = None /\ Second(s) = None
        /\ s.at = r.at /\ s.dp = r.dp /\ s.ip = r.ip /\ s.job = r.job /\ s.path = r.path
    BY <2>1, <2>2, Goes DEF PutPc, Pc
  <2>5. PointersSet(s) /\ CallFits(s, file'[p])
    BY <1>a, <2>1, <2>2, <2>4 DEF Sound, PointersSet, CallFits, PutPc, AtPc, DpPc, IpPc,
       FilePc
  <2>6. StoreTyped' /\ Others(p)
    BY <1>a, <2>1, <2>2, <2>4 DEF TypeOK, StoreTyped, Others
  <2>7. \A j \in Inum : icache'[j].ref = icache[j].ref + Owns(cwd'[p], file'[p], s, j)
                                                     - Owns(cwd[p], file[p], r, j)
    BY <1>a, <2>1, <2>2, <2>3, <2>4 DEF Owns, One, Inum, None
  <2> QED
    BY <1>a, <2>1, <2>3, <2>4, <2>5, <2>6, <2>7, Ledger DEF Sound
<1>33. CASE WriteBlock(p)
  <2> DEFINE b == Min(Block \ bitmap)
             c == ilock(icache, file[p], p)
  <2>1. /\ r.pc = "write" /\ Block \ bitmap # {}
        /\ bitmap' = bitmap \cup {b} /\ icache' = [c EXCEPT ![file[p]].addr = b]
        /\ Set(p, [pc |-> "grow"])
        /\ UNCHANGED <<dinode, dirent, cwd, file, calls, programs>>
    BY <1>33 DEF WriteBlock, disk, Still, At, Balloc
  <2>2. /\ file[p] \in Inum /\ r.at = None /\ r.dp = None /\ r.ip = None /\ b \in Block
        /\ CacheTyped(c) /\ \A j \in Inum : c[j].ref = icache[j].ref
    <3>1. b \in Block
      BY <1>a, <2>1, FreeFound
    <3>2. file[p] \in Inum /\ r.at = None /\ r.dp = None /\ r.ip = None
      BY <1>b, <2>1 DEF PutPc, AtPc, DpPc, IpPc, FilePc
    <3> QED
      BY <1>a, <3>1, <3>2, CacheLock
  <2> HIDE DEF b, c
  <2>3. CacheTyped(icache') /\ \A j \in Inum : icache'[j].ref = icache[j].ref
    <3>1. /\ CacheTyped([c EXCEPT ![file[p]].addr = b])
          /\ \A j \in Inum : [c EXCEPT ![file[p]].addr = b][j].ref = c[j].ref
      BY <1>a, <2>2, CacheAddr
    <3> QED
      BY <2>1, <2>2, <3>1
  <2>4. /\ t' = [q \in Process |-> t'[q]] /\ \A q \in Process \ {p} : t'[q] = t[q]
        /\ s.pc = "grow" /\ Label(s) = "grow" /\ CallTyped(s)
        /\ First(r) = None /\ Second(r) = None /\ Label(r) = r.pc
        /\ First(s) = None /\ Second(s) = None
        /\ s.at = r.at /\ s.dp = r.dp /\ s.ip = r.ip /\ s.job = r.job /\ s.path = r.path
    BY <2>1, <2>2, Goes DEF PutPc, Pc, FilePc
  <2>5. PointersSet(s) /\ CallFits(s, file'[p])
    BY <1>a, <2>1, <2>2, <2>4 DEF Sound, PointersSet, CallFits, PutPc, AtPc, DpPc, IpPc,
       FilePc
  <2>6. StoreTyped' /\ Others(p)
    BY <1>a, <2>1, <2>2, <2>4 DEF TypeOK, StoreTyped, Others
  <2>7. \A j \in Inum : icache'[j].ref = icache[j].ref + Owns(cwd'[p], file'[p], s, j)
                                                     - Owns(cwd[p], file[p], r, j)
    BY <1>a, <2>1, <2>2, <2>3, <2>4 DEF Owns, One, Inum, None
  <2> QED
    BY <1>a, <2>1, <2>3, <2>4, <2>5, <2>6, <2>7, Ledger DEF Sound
<1>34. CASE Grow(p)
  <2>1. /\ r.pc = "grow" /\ iupdate(file[p], icache[file[p]])
        /\ icache' = iunlock(icache, file[p])
        /\ Set(p, [pc |-> "ret", ok |-> TRUE])
        /\ UNCHANGED <<bitmap, dirent, cwd, file, calls, programs>>
    BY <1>34 DEF Grow, disk, Still, At
  <2>2. file[p] \in Inum /\ r.at = None /\ r.dp = None /\ r.ip = None
    BY <1>b, <2>1 DEF PutPc, AtPc, DpPc, IpPc, FilePc
  <2>3. CacheTyped(icache') /\ \A j \in Inum : icache'[j].ref = icache[j].ref
    BY <1>a, <2>1, <2>2, CacheLock
  <2>4. /\ t' = [q \in Process |-> t'[q]] /\ \A q \in Process \ {p} : t'[q] = t[q]
        /\ s.pc = "ret" /\ Label(s) = "ret" /\ CallTyped(s)
        /\ First(r) = None /\ Second(r) = None /\ Label(r) = r.pc
        /\ First(s) = None /\ Second(s) = None
        /\ s.at = r.at /\ s.dp = r.dp /\ s.ip = r.ip /\ s.job = r.job /\ s.path = r.path
    BY <2>1, <2>2, Goes DEF PutPc, Pc
  <2>5. PointersSet(s) /\ CallFits(s, file'[p])
    BY <1>a, <2>1, <2>2, <2>4 DEF Sound, PointersSet, CallFits, PutPc, AtPc, DpPc, IpPc,
       FilePc
  <2>6. StoreTyped' /\ Others(p)
    <3>1. dinode' \in [Inum -> [type : Type, nlink : Int, addr : Block \cup {None}]]
      <4>1. SlotTyped(icache[file[p]])
        BY <1>a, <2>2, <2>3 DEF CacheTyped
      <4>2. iupdate(file[p], icache[file[p]])
        BY <2>1
      <4> QED
        BY <1>a, <2>2, <4>1, <4>2, DiskTyped DEF SlotTyped
    <3> QED
      BY <1>a, <2>1, <2>2, <2>4, <3>1 DEF TypeOK, StoreTyped, Others
  <2>7. \A j \in Inum : icache'[j].ref = icache[j].ref + Owns(cwd'[p], file'[p], s, j)
                                                     - Owns(cwd[p], file[p], r, j)
    <3>1. cwd' = cwd /\ file' = file /\ r.pc # "iget"
      BY <2>1
    <3> QED
      BY <1>a, <2>2, <2>3, <2>4, <3>1 DEF Owns, One, Inum, None
  <2> QED
    BY <1>a, <2>1, <2>3, <2>4, <2>5, <2>6, <2>7, Ledger DEF Sound
\* An iput that ends.
<1>35. ASSUME r.pc \in {"iput", "iputend"}, Set(p, Next1(p)), CacheTyped(icache'),
            \A j \in Inum : icache'[j].ref = icache[j].ref - One(Put(p) = j),
            UNCHANGED <<dinode, bitmap, dirent, cwd, file, calls, programs>>
      PROVE  IInv'
  <2>1. /\ t' = [q \in Process |-> t'[q]] /\ \A q \in Process \ {p} : t'[q] = t[q]
        /\ s.pc \in ThenPc \cup {"iput"} /\ Label(s) = Label(r)
        /\ s.at = r.at /\ s.dp = r.dp /\ s.ip = r.ip /\ s.job = r.job /\ s.path = r.path
        /\ First(r) = Put(p) /\ First(s) = Second(r) /\ Second(s) = None
        /\ Put(p) \in Inum /\ CallTyped(s)
    BY <1>35, PutDone
  <2>5. PointersSet(s) /\ CallFits(s, file'[p])
    BY <1>a, <1>35, <2>1 DEF Sound, PointersSet, CallFits
  <2>6. StoreTyped' /\ Others(p)
    BY <1>a, <1>35, <2>1 DEF TypeOK, StoreTyped, Others
  <2>7. \A j \in Inum : icache'[j].ref = icache[j].ref + Owns(cwd'[p], file'[p], s, j)
                                                     - Owns(cwd[p], file[p], r, j)
    BY <1>a, <1>35, <2>1 DEF Owns, One, Inum, None, PutPc, ThenPc
  <2> QED
    BY <1>a, <1>35, <2>1, <2>5, <2>6, <2>7, Ledger DEF Sound
\* An iput that frees the inode, on its way.
<1>36. ASSUME r.pc \in PutPc, NEW x \in PutPc, Set(p, [pc |-> x]), CacheTyped(icache'),
            \A j \in Inum : icache'[j].ref = icache[j].ref, StoreTyped',
            cwd' = cwd, file' = file, programs' = programs
      PROVE  IInv'
  <2>1. /\ t' = [q \in Process |-> t'[q]] /\ \A q \in Process \ {p} : t'[q] = t[q]
        /\ s.pc \in PutPc /\ Label(s) = Label(r)
        /\ s.at = r.at /\ s.dp = r.dp /\ s.ip = r.ip /\ s.job = r.job /\ s.path = r.path
        /\ First(s) = First(r) /\ Second(s) = Second(r) /\ CallTyped(s)
    BY <1>36, Putting
  <2>5. PointersSet(s) /\ CallFits(s, file'[p])
    BY <1>a, <1>36, <2>1 DEF Sound, PointersSet, CallFits
  <2>6. StoreTyped' /\ Others(p)
    BY <1>a, <1>36, <2>1 DEF TypeOK, StoreTyped, Others
  <2>7. \A j \in Inum : icache'[j].ref = icache[j].ref + Owns(cwd'[p], file'[p], s, j)
                                                     - Owns(cwd[p], file[p], r, j)
    BY <1>a, <1>36, <2>1 DEF Owns, One, Inum, None, PutPc, ThenPc
  <2> QED
    BY <1>a, <1>36, <2>1, <2>5, <2>6, <2>7, Ledger DEF Sound
<1>37. CASE Iput(p)
  <2>1. /\ r.pc = "iput" /\ icache' = [icache EXCEPT ![Put(p)].ref = @ - 1]
        /\ Set(p, Next1(p))
        /\ UNCHANGED <<dinode, bitmap, dirent, cwd, file, calls, programs>>
    BY <1>37 DEF Iput, disk, Still
  <2>2. Put(p) \in Inum
    BY <1>a, <2>1 DEF Sound, CallTyped, PutPc, Put
  <2>3. /\ CacheTyped([icache EXCEPT ![Put(p)].ref = @ - 1])
        /\ \A j \in Inum : [icache EXCEPT ![Put(p)].ref = @ - 1][j].ref
                            = icache[j].ref - One(Put(p) = j)
    BY <1>a, <2>2, CachePut
  <2> QED
    BY <1>35, <2>1, <2>3
<1>38. CASE IputLast(p)
  <2>1. /\ r.pc = "iput" /\ icache' = [icache EXCEPT ![Put(p)].busy = p]
        /\ Set(p, [pc |-> "itrunc"])
        /\ UNCHANGED <<dinode, bitmap, dirent, cwd, file, calls, programs>>
    BY <1>38 DEF IputLast, disk, Still
  <2>2. Put(p) \in Inum
    BY <1>a, <2>1 DEF Sound, CallTyped, PutPc, Put
  <2>3. /\ CacheTyped([icache EXCEPT ![Put(p)].busy = p])
        /\ \A j \in Inum : [icache EXCEPT ![Put(p)].busy = p][j].ref = icache[j].ref
    BY <1>a, <2>2, CacheBusy
  <2>4. StoreTyped'
    BY <1>a, <2>1 DEF TypeOK, StoreTyped
  <2> QED
    BY <1>36, <2>1, <2>3, <2>4 DEF PutPc
<1>39. CASE Itrunc(p)
  <2>1. /\ r.pc = "itrunc" /\ icache' = [icache EXCEPT ![Put(p)].addr = None]
        /\ Set(p, [pc |-> "ifree"])
        /\ UNCHANGED <<dinode, cwd, file, calls, programs>>
        /\ bitmap' \subseteq bitmap
        /\ dirent' = dirent \/ \E a : dirent' = [dirent EXCEPT ![a] = NoEntries]
    BY <1>39 DEF Itrunc, disk, Still, bfree
  <2>2. Put(p) \in Inum
    BY <1>a, <2>1 DEF Sound, CallTyped, PutPc, Put
  <2>3. /\ CacheTyped([icache EXCEPT ![Put(p)].addr = None])
        /\ \A j \in Inum : [icache EXCEPT ![Put(p)].addr = None][j].ref = icache[j].ref
    BY <1>a, <2>2, CacheAddr
  <2>4. StoreTyped'
    <3>1. NoEntries \in [Entry -> Inum \cup {None}]
      BY DEF NoEntries
    <3>2. dirent' \in [Block -> [Entry -> Inum \cup {None}]]
      BY <1>a, <2>1, <3>1 DEF TypeOK
    <3> QED
      BY <1>a, <2>1, <3>2 DEF TypeOK, StoreTyped
  <2> QED
    BY <1>36, <2>1, <2>3, <2>4 DEF PutPc
<1>40. CASE Ifree(p)
  <2>1. /\ r.pc = "ifree" /\ icache' = [icache EXCEPT ![Put(p)].type = "free"]
        /\ iupdate(Put(p), icache'[Put(p)])
        /\ Set(p, [pc |-> "iputend"])
        /\ UNCHANGED <<bitmap, dirent, cwd, file, calls, programs>>
    BY <1>40 DEF Ifree, disk, Still
  <2>2. Put(p) \in Inum
    BY <1>a, <2>1 DEF Sound, CallTyped, PutPc, Put
  <2>3. /\ CacheTyped([icache EXCEPT ![Put(p)].type = "free"])
        /\ \A j \in Inum : [icache EXCEPT ![Put(p)].type = "free"][j].ref = icache[j].ref
    BY <1>a, <2>2, CacheFree
  <2>4. StoreTyped'
    <3>1. SlotTyped(icache'[Put(p)])
      BY <2>1, <2>2, <2>3 DEF CacheTyped
    <3>3. dinode' \in [Inum -> [type : Type, nlink : Int, addr : Block \cup {None}]]
      <4>1. iupdate(Put(p), icache'[Put(p)])
        BY <2>1
      <4> QED
        BY <1>a, <2>2, <3>1, <4>1, DiskTyped DEF SlotTyped
    <3> QED
      BY <1>a, <2>1, <3>3 DEF TypeOK, StoreTyped
  <2> QED
    BY <1>36, <2>1, <2>3, <2>4 DEF PutPc
<1>41. CASE IputEnd(p)
  <2> DEFINE i == Put(p)
             d == [icache EXCEPT ![i].ref = @ - 1]
             e == [d EXCEPT ![i].busy = NoProcess]
  <2>1. r.pc = "iputend" /\ Set(p, Next1(p))
          /\ UNCHANGED <<dinode, bitmap, dirent, cwd, file, calls, programs>>
    BY <1>41 DEF IputEnd, disk, Still
  <2>2. i \in Inum
    BY <1>a, <2>1 DEF Sound, CallTyped, PutPc, Put
  <2>3. icache' = [e EXCEPT ![i].valid = FALSE]
    BY <1>41 DEF IputEnd
  <2>4. CacheTyped(d) /\ \A j \in Inum : d[j].ref = icache[j].ref - One(i = j)
    BY <1>a, <2>2, CachePut
  <2> HIDE DEF d
  <2>5. CacheTyped(e) /\ \A j \in Inum : e[j].ref = d[j].ref
    BY <2>2, <2>4, CacheBusy
  <2> HIDE DEF e
  <2>6. /\ CacheTyped([e EXCEPT ![i].valid = FALSE])
        /\ \A j \in Inum : [e EXCEPT ![i].valid = FALSE][j].ref = e[j].ref
    BY <2>2, <2>5, CacheInvalid
  <2>7. CacheTyped(icache') /\ \A j \in Inum : icache'[j].ref = icache[j].ref - One(i = j)
    BY <2>3, <2>4, <2>5, <2>6
  <2> QED
    BY <1>35, <2>1, <2>7
<1>42. CASE Begin(p)
  <2>1. /\ r.pc = "idle" /\ calls < MaxCalls /\ calls' = calls + 1
        /\ UNCHANGED <<dinode, bitmap, dirent, cwd, programs>>
    BY <1>42 DEF Begin, disk
  <2>2. PICK job \in Jobs[programs] :
          /\ job.op \in {"open", "create"} => file[p] = None
          /\ job.op \in {"close", "write"} => file[p] # None
          /\ \/ /\ job.op = "close" /\ icache' = icache /\ file' = [file EXCEPT ![p] = None]
                /\ Puts(p, <<file[p]>>, "ret", [job |-> job, ok |-> TRUE])
             \/ /\ job.op = "write" /\ icache' = icache /\ file' = file
                /\ Set(p, [job |-> job, pc |-> "write"])
             \/ /\ job.op \notin {"close", "write"} /\ file' = file
                /\ icache' = started(icache, p, job)
                /\ Set(p, [job |-> job, path |-> job.path, at |-> Start(p, job),
                   pc |-> "walk"])
    BY <1>42 DEF Begin
  <2>3. r.at = None /\ r.dp = None /\ r.ip = None
    BY <1>b, <2>1 DEF PutPc, AtPc, DpPc, IpPc, FilePc
  <2>4. job.path \in Seq(Entry) /\ Start(p, job) \in Inum
    BY <1>a, FsAssumption DEF Start, TypeOK, Root, Inum
  <2>5. CASE /\ job.op = "close" /\ icache' = icache /\ file' = [file EXCEPT ![p] = None]
              /\ Puts(p, <<file[p]>>, "ret", [job |-> job, ok |-> TRUE])
    <3>5. file[p] \in Inum /\ file'[p] = None
      BY <1>a, <2>2, <2>5 DEF TypeOK
    <3>0. CacheTyped(icache') /\ \A j \in Inum : icache'[j].ref = icache[j].ref
      BY <1>a, <2>5
    <3>1. /\ t' = [q \in Process |-> t'[q]] /\ \A q \in Process \ {p} : t'[q] = t[q]
          /\ s.pc = "iput" /\ Label(s) = "ret" /\ CallTyped(s)
          /\ First(r) = None /\ Second(r) = None /\ Label(r) = r.pc
          /\ First(s) = file[p] /\ Second(s) = None
          /\ s.at = r.at /\ s.dp = r.dp /\ s.ip = r.ip
      BY <2>1, <2>3, <2>5, <3>5, GivesOne DEF PutPc, ThenPc
    <3>2. PointersSet(s) /\ CallFits(s, file'[p])
      BY <1>a, <2>1, <2>3, <2>5, <3>5, <3>1 DEF Sound, PointersSet, CallFits, PutPc, AtPc,
         DpPc, IpPc, FilePc
    <3>3. StoreTyped' /\ Others(p)
      BY <1>a, <2>1, <2>3, <2>5, <3>5, <3>1, FsAssumption DEF TypeOK, StoreTyped, Others
    <3>4. \A j \in Inum : icache'[j].ref = icache[j].ref + Owns(cwd'[p], file'[p], s, j)
                                                       - Owns(cwd[p], file[p], r, j)
      BY <1>a, <2>1, <2>3, <2>5, <3>5, <3>0, <3>1 DEF Owns, One, Inum, None
    <3> QED
      BY <1>a, <2>1, <2>3, <2>5, <3>5, <3>0, <3>1, <3>2, <3>3, <3>4, Ledger DEF Sound
  <2>6. CASE /\ job.op = "write" /\ icache' = icache /\ file' = file
              /\ Set(p, [job |-> job, pc |-> "write"])
    <3>0. CacheTyped(icache') /\ \A j \in Inum : icache'[j].ref = icache[j].ref
      BY <1>a, <2>6
    <3>1. /\ t' = [q \in Process |-> t'[q]] /\ \A q \in Process \ {p} : t'[q] = t[q]
          /\ s.pc = "write" /\ Label(s) = "write" /\ CallTyped(s)
          /\ First(r) = None /\ Second(r) = None /\ Label(r) = r.pc
          /\ First(s) = None /\ Second(s) = None
          /\ s.job = job
          /\ s.at = r.at /\ s.dp = r.dp /\ s.ip = r.ip
      BY <2>1, <2>2, <2>3, <2>6, Goes DEF PutPc, Pc, FilePc
    <3>2. PointersSet(s) /\ CallFits(s, file'[p])
      BY <1>a, <2>1, <2>2, <2>3, <2>6, <3>1 DEF Sound, PointersSet, CallFits, PutPc, AtPc,
         DpPc, IpPc, FilePc
    <3>3. StoreTyped' /\ Others(p)
      BY <1>a, <2>1, <2>2, <2>3, <2>6, <3>1, FsAssumption DEF TypeOK, StoreTyped, Others
    <3>4. \A j \in Inum : icache'[j].ref = icache[j].ref + Owns(cwd'[p], file'[p], s, j)
                                                       - Owns(cwd[p], file[p], r, j)
      BY <1>a, <2>1, <2>2, <2>3, <2>6, <3>0, <3>1 DEF Owns, One, Inum, None
    <3> QED
      BY <1>a, <2>1, <2>2, <2>3, <2>6, <3>0, <3>1, <3>2, <3>3, <3>4, Ledger DEF Sound
  <2>7. CASE /\ job.op \notin {"close", "write"} /\ file' = file
              /\ icache' = started(icache, p, job)
              /\ Set(p, [job |-> job, path |-> job.path, at |-> Start(p, job), pc |-> "walk"])
    <3>0. CacheTyped(icache')
            /\ \A j \in Inum : icache'[j].ref = icache[j].ref + One(Start(p, job) = j)
      BY <1>a, <2>7, CacheStarted
    <3>1. /\ t' = [q \in Process |-> t'[q]] /\ \A q \in Process \ {p} : t'[q] = t[q]
          /\ s.pc = "walk" /\ Label(s) = "walk" /\ CallTyped(s)
          /\ First(r) = None /\ Second(r) = None /\ Label(r) = r.pc
          /\ First(s) = None /\ Second(s) = None
          /\ s.job = job /\ s.at = Start(p, job)
          /\ s.dp = r.dp /\ s.ip = r.ip
      BY SMTT(30), <2>1, <2>2, <2>3, <2>4, <2>7, Goes DEF PutPc, Pc, AtPc
    <3>2. PointersSet(s) /\ CallFits(s, file'[p])
      BY <1>a, <2>1, <2>2, <2>3, <2>4, <2>7, <3>1 DEF Sound, PointersSet, CallFits, PutPc,
         AtPc, DpPc, IpPc, FilePc
    <3>3. StoreTyped' /\ Others(p)
      BY <1>a, <2>1, <2>2, <2>3, <2>4, <2>7, <3>1, FsAssumption DEF TypeOK, StoreTyped, Others
    <3>4. \A j \in Inum : icache'[j].ref = icache[j].ref + Owns(cwd'[p], file'[p], s, j)
                                                       - Owns(cwd[p], file[p], r, j)
      BY <1>a, <2>1, <2>2, <2>3, <2>4, <2>7, <3>0, <3>1 DEF Owns, One, Inum, None
    <3> QED
      BY <1>a, <2>1, <2>2, <2>3, <2>4, <2>7, <3>0, <3>1, <3>2, <3>3, <3>4, Ledger DEF Sound
  <2> QED
    BY <2>2, <2>5, <2>6, <2>7
<1>43. CASE Return(p)
  <2>1. r.pc = "ret" /\ t' = [t EXCEPT ![p] = Idle] /\ icache' = icache
          /\ UNCHANGED <<dinode, bitmap, dirent, cwd, file, calls, programs>>
    BY <1>43 DEF Return, disk, Still
  <2>2. r.at = None /\ r.dp = None /\ r.ip = None /\ r.puts = <<>>
    BY <1>b, <2>1 DEF PutPc, AtPc, DpPc, IpPc, FilePc
  <2>3. /\ t' = [q \in Process |-> t'[q]] /\ \A q \in Process \ {p} : t'[q] = t[q]
        /\ s = Idle
    BY <2>1 DEF IInv
  <2>4. /\ s.pc = "idle" /\ s.path = <<>> /\ s.puts = <<>> /\ s.at = None /\ s.dp = None
        /\ s.ip = None
        /\ s = [f \in Fields |-> s[f]] /\ Label(s) = "idle"
    BY <2>3 DEF Idle, Fields, Label, PutPc
  <2>8. CallTyped(s)
    <3>1. <<>> \in Seq(Entry) /\ <<>> \in Seq(Inum)
      OBVIOUS
    <3> QED
      BY <2>4, <3>1 DEF CallTyped, Pc, PutPc
  <2>9. First(r) = None /\ Second(r) = None /\ First(s) = None /\ Second(s) = None
    BY <2>2, <2>4, OwesNone
  <2>5. PointersSet(s) /\ CallFits(s, file'[p])
    BY <2>4 DEF Sound, PointersSet, CallFits, PutPc, AtPc, DpPc, IpPc, FilePc
  <2>6. StoreTyped' /\ Others(p)
    BY <1>a, <2>1, <2>3 DEF TypeOK, StoreTyped, Others
  <2>7. \A j \in Inum : icache'[j].ref = icache[j].ref + Owns(cwd'[p], file'[p], s, j)
                                                     - Owns(cwd[p], file[p], r, j)
    BY <1>a, <2>1, <2>2, <2>4, <2>9 DEF Owns, One, Inum, None
  <2> QED
    BY <1>a, <2>1, <2>3, <2>5, <2>6, <2>7, <2>8, Ledger DEF Sound
<1>44. CASE Exhausts(p)
  BY <1>44, Unmoved DEF Exhausts, disk
<1> QED
  BY <1>1, <1>2, <1>3, <1>4, <1>5, <1>6, <1>7, <1>8, <1>9, <1>10, <1>11, <1>12, <1>13,
     <1>14, <1>15, <1>16, <1>17, <1>18, <1>19, <1>20, <1>21, <1>22, <1>23, <1>24, <1>25,
        <1>26, <1>27, <1>28, <1>29, <1>30, <1>31, <1>32, <1>33, <1>34, <1>35, <1>36, <1>37,
           <1>38, <1>39, <1>40, <1>41, <1>42, <1>43, <1>44 DEF Step

LEMMA InitIInv == Init => IInv
<1> SUFFICES ASSUME Init PROVE IInv
  OBVIOUS
<1>1. PICK tree \in Trees[programs] :
        LET into(i)    == {l \in tree : l[3] = i}
            subdirs(i) == {l \in tree : l[1] = i /\ l[4] = "dir"}
            kind(i)    == IF i = Root THEN "dir"
                          ELSE IF into(i) = {} THEN "free"
                          ELSE (CHOOSE l \in into(i) : TRUE)[4]
            one(i)     == IF i = Root THEN 1 ELSE Cardinality(into(i))
        IN
        /\ dinode = [i \in Inum |->
               [type |-> kind(i), nlink |-> one(i) + Cardinality(subdirs(i)),
                addr |-> IF kind(i) = "dir" THEN i ELSE None]]
        /\ bitmap = {i \in Inum : kind(i) = "dir"}
        /\ dirent = [b \in Block |-> [n \in Entry |->
               IF b = Root /\ n = ".." THEN Root
               ELSE IF n = ".." /\ b \in Inum /\ kind(b) = "dir"
                 THEN (CHOOSE l \in into(b) : TRUE)[1]
               ELSE LET named == {l \in tree : l[1] = b /\ l[2] = n} IN
                    IF named = {} THEN None ELSE (CHOOSE l \in named : TRUE)[3]]]
  BY DEF Init
<1> DEFINE into(i) == {l \in tree : l[3] = i}
           subdirs(i) == {l \in tree : l[1] = i /\ l[4] = "dir"}
           named(b, n) == {l \in tree : l[1] = b /\ l[2] = n}
           into1(i) == CHOOSE l \in into(i) : TRUE
           named1(b, n) == CHOOSE l \in named(b, n) : TRUE
           kind(i) == IF i = Root THEN "dir"
                      ELSE IF into(i) = {} THEN "free" ELSE into1(i)[4]
           one(i) == IF i = Root THEN 1 ELSE Cardinality(into(i))
           from(b, n) == IF b = Root /\ n = ".." THEN Root
                         ELSE IF n = ".." /\ b \in Inum /\ kind(b) = "dir" THEN into1(b)[1]
                         ELSE IF named(b, n) = {} THEN None ELSE named1(b, n)[3]
<1>2. /\ dinode = [i \in Inum |->
               [type |-> kind(i), nlink |-> one(i) + Cardinality(subdirs(i)),
                addr |-> IF kind(i) = "dir" THEN i ELSE None]]
      /\ bitmap = {i \in Inum : kind(i) = "dir"}
      /\ dirent = [b \in Block |-> [n \in Entry |-> from(b, n)]]
  BY <1>1
<1>3. /\ IsFiniteSet(tree)
      /\ \A l \in tree : l[1] \in Inum /\ l[3] \in Inum /\ l[4] \in {"file", "dir"}
  <2>1. programs \in DOMAIN Jobs
    BY DEF Init
  <2> QED
    BY <2>1, FsAssumption
<1>4. Root \in Inum /\ Inum \subseteq Block
  BY FsAssumption DEF Root, Inum, Block
<1>5. ASSUME NEW i PROVE Cardinality(into(i)) \in Nat /\ Cardinality(subdirs(i)) \in Nat
  <2>1. into(i) \in SUBSET tree /\ subdirs(i) \in SUBSET tree
    OBVIOUS
  <2> HIDE DEF into, subdirs
  <2> QED
    BY <1>3, <2>1, FS_Subset, FS_CardinalityType
<1>6. /\ \A i : into(i) # {} => into1(i) \in into(i)
      /\ \A b, n : named(b, n) # {} => named1(b, n) \in named(b, n)
  OBVIOUS
<1>7. /\ \A i : into(i) # {} => into1(i)[1] \in Inum /\ into1(i)[4] \in {"file", "dir"}
      /\ \A b, n : named(b, n) # {} => named1(b, n)[3] \in Inum
  <2>1. \A i, l : l \in into(i) => l \in tree
    OBVIOUS
  <2>2. \A b, n, l : l \in named(b, n) => l \in tree
    OBVIOUS
  <2> HIDE DEF into, named, into1, named1
  <2> QED
    BY <1>3, <1>6, <2>1, <2>2
<1> HIDE DEF into, named, into1, named1, subdirs
<1>8. \A i \in Inum : kind(i) \in Type /\ one(i) + Cardinality(subdirs(i)) \in Int
  BY <1>5, <1>7 DEF Type
<1>9. \A b \in Block, n \in Entry : from(b, n) \in Inum \cup {None}
  <2>1. \A b : kind(b) = "dir" /\ b # Root => into(b) # {}
    OBVIOUS
  <2> QED
    BY <1>4, <1>7, <2>1
<1> HIDE DEF kind, one, from
<1>10. /\ dinode \in [Inum -> [type : Type, nlink : Int, addr : Block \cup {None}]]
       /\ bitmap \subseteq Block /\ dirent \in [Block -> [Entry -> Inum \cup {None}]]
  BY <1>2, <1>4, <1>8, <1>9
<1>11. Cardinality(Process) \in Nat
  BY FsAssumption, FS_CardinalityType
<1>12. /\ icache = [i \in Inum |->
             [ref |-> IF i = Root THEN Cardinality(Process) ELSE 0,
              busy |-> NoProcess, valid |-> FALSE,
              type |-> "free", nlink |-> 0, addr |-> None]]
       /\ cwd = [p \in Process |-> Root] /\ file = [p \in Process |-> None]
       /\ t = [p \in Process |-> Idle] /\ calls = 0 /\ programs \in DOMAIN Jobs
  BY DEF Init
<1>17. ASSUME NEW i \in Inum PROVE SlotTyped(icache[i]) /\ icache[i].ref \in Nat
  <2>1. PICK n \in Nat : icache[i] = [ref |-> n, busy |-> NoProcess, valid |-> FALSE,
                                     type |-> "free", nlink |-> 0, addr |-> None]
    BY <1>11, <1>12
  <2> QED
    BY <2>1 DEF SlotTyped, SlotFields, Type
<1>13. CacheTyped(icache)
  BY <1>12, <1>17 DEF CacheTyped
<1>14. TypeOK
  <2>1. cwd \in [Process -> Inum] /\ file \in [Process -> Inum \cup {None}]
    BY <1>4, <1>12
  <2>2. calls \in 0..MaxCalls
    BY <1>12, FsAssumption
  <2> QED
    BY <1>10, <1>17, <2>1, <2>2 DEF TypeOK, SlotTyped
<1>15. ASSUME NEW p \in Process PROVE Sound(t[p], file[p])
  <2>1. <<>> \in Seq(Entry) /\ <<>> \in Seq(Inum)
    OBVIOUS
  <2>2. /\ t[p].pc = "idle" /\ t[p].path = <<>> /\ t[p].puts = <<>>
        /\ t[p].at = None /\ t[p].dp = None /\ t[p].ip = None
        /\ t[p] = [f \in Fields |-> t[p][f]]
    BY <1>12 DEF Idle, Fields
  <2> QED
    BY <2>1, <2>2 DEF Sound, CallTyped, PointersSet, CallFits, Label,
                      Pc, PutPc, AtPc, DpPc, IpPc, FilePc
<1>16. ASSUME NEW i \in Inum PROVE icache[i].ref = Cardinality(Holders(i))
  <2>1. \A p \in Process : Pointers(p, i) = One(i = Root)
    <3>1. \A p \in Process : /\ t[p].at = None /\ t[p].dp = None /\ t[p].ip = None
                             /\ cwd[p] = Root /\ file[p] = None /\ Len(t[p].puts) = 0
      BY <1>12 DEF Idle
    <3> QED
      BY <3>1 DEF Pointers, One, None, Inum
  <2>2. CASE i = Root
    <3>1. Holders(i) = Process \X {1}
      BY <2>1, <2>2 DEF Holders, One
    <3>2. Cardinality({1}) = 1 /\ IsFiniteSet({1})
      BY FS_Singleton
    <3>3. Cardinality(Process \X {1}) = Cardinality(Process) * Cardinality({1})
      BY <3>2, FsAssumption, FS_Product
    <3> QED
      BY <1>11, <1>12, <2>2, <3>1, <3>2, <3>3
  <2>3. CASE i # Root
    <3>1. Holders(i) = {}
      BY <2>1, <2>3 DEF Holders, One
    <3> QED
      BY <1>12, <2>3, <3>1, FS_EmptySet
  <2> QED
    BY <2>2, <2>3
<1> QED
  BY <1>12, <1>13, <1>14, <1>15, <1>16 DEF IInv, RefsCounted

LEMMA NextIInv == IInv /\ [Next]_vars => IInv'
<1> SUFFICES ASSUME IInv, [Next]_vars PROVE IInv'
  OBVIOUS
<1>1. CASE \E p \in Process : Step(p)
  BY <1>1, StepIInv
<1>2. CASE UNCHANGED vars
  BY <1>2, Unmoved DEF vars, disk
<1> QED
  BY <1>1, <1>2 DEF Next

\* In every reachable state the counts of the cache are those of the pointers
\* in the kernel, and calls are where their pointers allow them to be.
THEOREM Invariant == Spec => []IInv
BY InitIInv, NextIInv, PTL DEF Spec

\* The references of iget(), idup(), iput() and namex() are counted exactly: an
\* inode's ref is the number of directories processes stand in, files they have
\* open, pointers their calls hold and iputs they owe, in every call and on
\* every error path of them.
THEOREM ReferencesAreCounted == Spec => []RefsCounted
<1>1. IInv => RefsCounted
  BY DEF IInv
<1> QED
  BY <1>1, Invariant, PTL

-----------------------------------------------------------------------------
\* What p owns of the references to i.
Share(p, i) == Owns(cwd[p], file[p], t[p], i)

\* One hold more or less in the share of a call.
LEMMA ShareIs ==
  ASSUME NEW c, NEW f, NEW r, NEW i
  PROVE  /\ Owns(c, f, r, i) \in 0..7
         /\ Owns(c, f, r, i) >= 1 <=> \/ c = i \/ f = i \/ r.at = i \/ r.dp = i
                                      \/ r.ip = i /\ r.pc # "iget"
                                      \/ First(r) = i \/ Second(r) = i
         /\ i # None /\ First(r) = i /\ Owns(c, f, r, i) = 1 => 
              c # i /\ f # i /\ r.at # i /\ r.dp # i /\ Second(r) # i
                 /\ (r.ip = i => r.pc = "iget")
BY DEF Owns, One

\* The count of an inode is at least what any two processes own of it, and
\* what is not p's is another's.
LEMMA Shared ==
  ASSUME IInv, NEW i \in Inum, NEW p \in Process
  PROVE  /\ icache[i].ref \in Nat /\ icache[i].ref >= Share(p, i)
         /\ \A q \in Process \ {p} : icache[i].ref >= Share(p, i) + Share(q, i)
         /\ icache[i].ref > Share(p, i) => \E q \in Process \ {p} : Share(q, i) >= 1
<1> DEFINE f == [q \in Process |-> Share(q, i)]
           g == [f EXCEPT ![p] = 0]
<1>1. \A q \in Process : Share(q, i) \in 0..7
  BY ShareIs DEF Share
<1>2. /\ \A q \in Process : f[q] = Share(q, i) /\ f[q] \in 0..7 /\ g[q] \in 0..7
      /\ g[p] = 0 /\ \A q \in Process \ {p} : g[q] = f[q]
  BY <1>1
<1>3. icache[i].ref = Cardinality(Pairs(Process, f)) /\ icache[i].ref \in Nat
  <2>1. Holders(i) = Pairs(Process, f)
    BY PointersAre DEF Holders, Pairs, Share
  <2> QED
    BY <2>1 DEF IInv, RefsCounted, TypeOK
<1>4. ASSUME NEW h, \A x \in Process : h[x] \in 0..7
      PROVE  IsFiniteSet(Pairs(Process, h)) /\ Cardinality(Pairs(Process, h)) \in Nat
  <2>1. IsFiniteSet(Process \X (1..7))
    <3>1. 1 \in Int /\ 7 \in Int
      OBVIOUS
    <3>2. IsFiniteSet(1..7)
      BY ONLY <3>1, FS_Interval
    <3> QED
      BY <3>2, FsAssumption, FS_Product
  <2>2. Pairs(Process, h) \in SUBSET (Process \X (1..7))
    BY DEF Pairs
  <2> QED
    BY <2>1, <2>2, FS_Subset, FS_CardinalityType
<1> HIDE DEF f, g
<1>5. Cardinality(Pairs(Process, f)) = Cardinality(Pairs(Process, g)) + f[p] - g[p]
  <2>1. \A q \in Process \ {p} : f[q] = g[q]
    BY <1>2
  <2> QED
    BY <1>2, <2>1, Shares, FsAssumption
<1>6. Cardinality(Pairs(Process, g)) \in Nat
  BY <1>2, <1>4
<1>7. icache[i].ref = Cardinality(Pairs(Process, g)) + Share(p, i)
  BY <1>1, <1>2, <1>3, <1>5, <1>6
<1>8. ASSUME NEW q \in Process \ {p}
      PROVE  Cardinality(Pairs(Process, g)) >= Share(q, i)
  <2> DEFINE h == [x \in Process |-> IF x = q THEN 0 ELSE g[x]]
  <2>1. /\ \A x \in Process : h[x] \in 0..7
        /\ h[q] = 0 /\ \A x \in Process \ {q} : g[x] = h[x]
    BY <1>2
  <2> HIDE DEF h
  <2>2. Cardinality(Pairs(Process, g)) = Cardinality(Pairs(Process, h)) + g[q] - h[q]
    BY <1>2, <2>1, Shares, FsAssumption
  <2>3. Cardinality(Pairs(Process, h)) \in Nat
    BY <2>1, <1>4
  <2> QED
    BY <1>1, <1>2, <2>1, <2>2, <2>3
<1>9. ASSUME icache[i].ref > Share(p, i)
      PROVE  \E q \in Process \ {p} : Share(q, i) >= 1
  <2>1. Cardinality(Pairs(Process, g)) # 0
    BY <1>1, <1>3, <1>6, <1>7, <1>9
  <2>2. PICK x : x \in Pairs(Process, g)
    BY <2>1, FS_EmptySet
  <2>3. x[1] \in Process /\ x[2] \in 1..7 /\ x[2] <= g[x[1]]
    BY <2>2 DEF Pairs
  <2>4. x[1] # p /\ g[x[1]] = Share(x[1], i)
    BY <1>2, <2>3
  <2> QED
    BY <1>1, <2>3, <2>4
<1> QED
  BY <1>1, <1>3, <1>6, <1>7, <1>8, <1>9

\* A pointer is a reference, but for that of ialloc() before its iget().
LEMMA InUse ==
  ASSUME IInv, NEW i \in Inum, NEW p \in Process
  PROVE  /\ Uses(cwd[p], file[p], t[p], i) /\ ~(t[p].pc = "iget" /\ t[p].ip = i) =>
              icache[i].ref > 0 /\ Share(p, i) >= 1
         /\ Keeps(file[p], t[p], i) => icache[i].ref > 0 /\ Share(p, i) >= 1
         /\ Share(p, i) >= 1 => Uses(cwd[p], file[p], t[p], i) \/ Freed(t[p], i)
         /\ First(t[p]) = i => icache[i].ref > 0 /\ Share(p, i) >= 1
<1>1. /\ icache[i].ref >= Share(p, i) /\ icache[i].ref \in Nat
      /\ Share(p, i) \in 0..7
  BY Shared, ShareIs DEF Share
<1>2. Share(p, i) >= 1 <=>
            \/ cwd[p] = i \/ file[p] = i \/ t[p].at = i \/ t[p].dp = i
            \/ t[p].ip = i /\ t[p].pc # "iget"
            \/ First(t[p]) = i \/ Second(t[p]) = i
  BY ShareIs DEF Share
<1>3. Uses(cwd[p], file[p], t[p], i) /\ ~(t[p].pc = "iget" /\ t[p].ip = i) => Share(p, i) >= 1
  BY <1>2 DEF Uses, Else
<1>4. Keeps(file[p], t[p], i) => Share(p, i) >= 1
  BY <1>2 DEF Keeps, OwnPc, EndPc, DpPc, Label, PutPc
<1>5. Share(p, i) >= 1 => Uses(cwd[p], file[p], t[p], i) \/ Freed(t[p], i)
  BY <1>2 DEF Uses, Else, Freed
<1> QED
  BY <1>1, <1>2, <1>3, <1>4, <1>5

-----------------------------------------------------------------------------
\* The copies of an inode, in memory or on the disk, that agree.
SameCopy(a, b) == a.type = b.type /\ a.nlink = b.nlink /\ a.addr = b.addr

\* One field of a slot is set.
SetBusy(c, i, v)  == [c EXCEPT ![i].busy = v]
SetAddr(c, i, v)  == [c EXCEPT ![i].addr = v]
SetNlink(c, i, v) == [c EXCEPT ![i].nlink = v]
SetRef(c, i, v)   == [c EXCEPT ![i].ref = v]
SetType(c, i, v)  == [c EXCEPT ![i].type = v]
SetValid(c, i, v) == [c EXCEPT ![i].valid = v]

\* An assignment to busy leaves the other fields as they are; so below for each field.
LEMMA BusyIs ==
  ASSUME NEW c, CacheTyped(c), NEW i \in Inum, NEW j \in Inum, NEW v
  PROVE  LET d == SetBusy(c, i, v) IN
         /\ SameCopy(d[j], c[j]) /\ d[j].ref = c[j].ref /\ d[j].valid = c[j].valid
         /\ d[j].busy = IF i = j THEN v ELSE c[j].busy
<1> DEFINE d == SetBusy(c, i, v)
           e == [c[i] EXCEPT !.busy = v]
<1>1. c = [x \in Inum |-> c[x]] /\ c[i] = [f \in SlotFields |-> c[i][f]]
  BY DEF CacheTyped, SlotTyped
<1>2. e = [f \in SlotFields |-> IF f = "busy" THEN v ELSE c[i][f]]
  BY <1>1 DEF SlotFields
<1>3. d = [c EXCEPT ![i] = e]
  BY DEF SetBusy
<1> HIDE DEF d, e
<1>4. d[j] = IF i = j THEN e ELSE c[j]
  BY <1>1, <1>3
<1> QED
  BY <1>2, <1>4 DEF SlotFields, SameCopy, d

\* ... to addr,
LEMMA AddrIs ==
  ASSUME NEW c, CacheTyped(c), NEW i \in Inum, NEW j \in Inum, NEW v
  PROVE  LET d == SetAddr(c, i, v) IN
         /\ d[j].type = c[j].type /\ d[j].nlink = c[j].nlink /\ d[j].ref = c[j].ref
         /\ d[j].valid = c[j].valid /\ d[j].busy = c[j].busy
         /\ d[j].addr = IF i = j THEN v ELSE c[j].addr
<1> DEFINE d == SetAddr(c, i, v)
           e == [c[i] EXCEPT !.addr = v]
<1>1. c = [x \in Inum |-> c[x]] /\ c[i] = [f \in SlotFields |-> c[i][f]]
  BY DEF CacheTyped, SlotTyped
<1>2. e = [f \in SlotFields |-> IF f = "addr" THEN v ELSE c[i][f]]
  BY <1>1 DEF SlotFields
<1>3. d = [c EXCEPT ![i] = e]
  BY DEF SetAddr
<1> HIDE DEF d, e
<1>4. d[j] = IF i = j THEN e ELSE c[j]
  BY <1>1, <1>3
<1> QED
  BY <1>2, <1>4 DEF SlotFields, SameCopy, d

\* ... to nlink,
LEMMA NlinkIs ==
  ASSUME NEW c, CacheTyped(c), NEW i \in Inum, NEW j \in Inum, NEW v
  PROVE  LET d == SetNlink(c, i, v) IN
         /\ d[j].type = c[j].type /\ d[j].addr = c[j].addr /\ d[j].ref = c[j].ref
         /\ d[j].valid = c[j].valid /\ d[j].busy = c[j].busy
         /\ d[j].nlink = IF i = j THEN v ELSE c[j].nlink
<1> DEFINE d == SetNlink(c, i, v)
           e == [c[i] EXCEPT !.nlink = v]
<1>1. c = [x \in Inum |-> c[x]] /\ c[i] = [f \in SlotFields |-> c[i][f]]
  BY DEF CacheTyped, SlotTyped
<1>2. e = [f \in SlotFields |-> IF f = "nlink" THEN v ELSE c[i][f]]
  BY <1>1 DEF SlotFields
<1>3. d = [c EXCEPT ![i] = e]
  BY DEF SetNlink
<1> HIDE DEF d, e
<1>4. d[j] = IF i = j THEN e ELSE c[j]
  BY <1>1, <1>3
<1> QED
  BY <1>2, <1>4 DEF SlotFields, SameCopy, d

\* ... to ref,
LEMMA RefIs ==
  ASSUME NEW c, CacheTyped(c), NEW i \in Inum, NEW j \in Inum, NEW v
  PROVE  LET d == SetRef(c, i, v) IN
         /\ SameCopy(d[j], c[j]) /\ d[j].valid = c[j].valid /\ d[j].busy = c[j].busy
         /\ d[j].ref = IF i = j THEN v ELSE c[j].ref
<1> DEFINE d == SetRef(c, i, v)
           e == [c[i] EXCEPT !.ref = v]
<1>1. c = [x \in Inum |-> c[x]] /\ c[i] = [f \in SlotFields |-> c[i][f]]
  BY DEF CacheTyped, SlotTyped
<1>2. e = [f \in SlotFields |-> IF f = "ref" THEN v ELSE c[i][f]]
  BY <1>1 DEF SlotFields
<1>3. d = [c EXCEPT ![i] = e]
  BY DEF SetRef
<1> HIDE DEF d, e
<1>4. d[j] = IF i = j THEN e ELSE c[j]
  BY <1>1, <1>3
<1> QED
  BY <1>2, <1>4 DEF SlotFields, SameCopy, d

\* ... to type,
LEMMA TypeIs ==
  ASSUME NEW c, CacheTyped(c), NEW i \in Inum, NEW j \in Inum, NEW v
  PROVE  LET d == SetType(c, i, v) IN
         /\ d[j].nlink = c[j].nlink /\ d[j].addr = c[j].addr /\ d[j].ref = c[j].ref
         /\ d[j].valid = c[j].valid /\ d[j].busy = c[j].busy
         /\ d[j].type = IF i = j THEN v ELSE c[j].type
<1> DEFINE d == SetType(c, i, v)
           e == [c[i] EXCEPT !.type = v]
<1>1. c = [x \in Inum |-> c[x]] /\ c[i] = [f \in SlotFields |-> c[i][f]]
  BY DEF CacheTyped, SlotTyped
<1>2. e = [f \in SlotFields |-> IF f = "type" THEN v ELSE c[i][f]]
  BY <1>1 DEF SlotFields
<1>3. d = [c EXCEPT ![i] = e]
  BY DEF SetType
<1> HIDE DEF d, e
<1>4. d[j] = IF i = j THEN e ELSE c[j]
  BY <1>1, <1>3
<1> QED
  BY <1>2, <1>4 DEF SlotFields, SameCopy, d

\* ... to valid.
LEMMA ValidIs ==
  ASSUME NEW c, CacheTyped(c), NEW i \in Inum, NEW j \in Inum, NEW v
  PROVE  LET d == SetValid(c, i, v) IN
         /\ SameCopy(d[j], c[j]) /\ d[j].ref = c[j].ref /\ d[j].busy = c[j].busy
         /\ d[j].valid = IF i = j THEN v ELSE c[j].valid
<1> DEFINE d == SetValid(c, i, v)
           e == [c[i] EXCEPT !.valid = v]
<1>1. c = [x \in Inum |-> c[x]] /\ c[i] = [f \in SlotFields |-> c[i][f]]
  BY DEF CacheTyped, SlotTyped
<1>2. e = [f \in SlotFields |-> IF f = "valid" THEN v ELSE c[i][f]]
  BY <1>1 DEF SlotFields
<1>3. d = [c EXCEPT ![i] = e]
  BY DEF SetValid
<1> HIDE DEF d, e
<1>4. d[j] = IF i = j THEN e ELSE c[j]
  BY <1>1, <1>3
<1> QED
  BY <1>2, <1>4 DEF SlotFields, SameCopy, d

\* ilock() reads an entry that is not valid.
LEMMA ReadIs ==
  ASSUME NEW c, CacheTyped(c), NEW i \in Inum, NEW j \in Inum
  PROVE  LET d == Read(c, i) IN
         /\ d[j].ref = c[j].ref /\ d[j].busy = c[j].busy
         /\ i = j => d[j].valid
         /\ c[j].valid => d[j].valid
         /\ i # j => d[j].valid = c[j].valid
         /\ c[j].valid \/ i # j => SameCopy(d[j], c[j])
         /\ i = j /\ ~c[j].valid => SameCopy(d[j], dinode[j])
BY DEF Read, SameCopy, CacheTyped, SlotTyped

\* iget() adds a reference, or takes an entry that nobody refers to.
LEMMA GetIs ==
  ASSUME NEW c, CacheTyped(c), NEW i \in Inum, NEW j \in Inum, c[i].ref >= 0
  PROVE  LET d == iget(c, i) IN
         /\ d[j].ref = c[j].ref + One(i = j) /\ d[j].busy = c[j].busy /\ SameCopy(d[j], c[j])
         /\ i # j \/ c[j].ref > 0 => d[j].valid = c[j].valid
         /\ i = j /\ ~(c[j].ref > 0) => ~d[j].valid
<1>1. c[i].ref \in Int /\ c[j].ref \in Int
  BY DEF CacheTyped, SlotTyped
<1> DEFINE no == FALSE
           k == SetRef(c, i, 1)
           w == SetValid(k, i, no)
           g == SetRef(c, i, c[i].ref + 1)
<1>2. CASE c[i].ref > 0
  <2>1. iget(c, i) = g
    BY <1>2 DEF iget, SetRef
  <2> QED
    BY <1>1, <1>2, <2>1, RefIs DEF One
<1>3. CASE ~(c[i].ref > 0)
  <2>1. iget(c, i) = w
    BY <1>3 DEF iget, SetRef, SetValid
  <2>2. CacheTyped(k)
    <3> DEFINE r == [c[i] EXCEPT !.ref = 1]
    <3>1. SlotTyped(c[i])
      BY DEF CacheTyped
    <3>2. r = [f \in SlotFields |-> IF f = "ref" THEN 1 ELSE c[i][f]]
      BY <3>1 DEF SlotTyped, SlotFields
    <3>3. SlotTyped(r)
      <4> HIDE DEF r
      <4> QED
        BY <3>1, <3>2 DEF SlotTyped, SlotFields
    <3>4. k = [c EXCEPT ![i] = r]
      BY DEF SetRef
    <3> HIDE DEF r, k
    <3> QED
      BY <3>3, <3>4, CacheSlot
  <2>3. /\ k[j].ref = IF i = j THEN 1 ELSE c[j].ref
        /\ k[j].busy = c[j].busy /\ SameCopy(k[j], c[j]) /\ k[j].valid = c[j].valid
    BY RefIs
  <2> HIDE DEF k, no
  <2>4. /\ w[j].ref = k[j].ref /\ w[j].busy = k[j].busy /\ SameCopy(w[j], k[j])
        /\ w[j].valid = IF i = j THEN no ELSE k[j].valid
    BY <2>2, ValidIs
  <2> HIDE DEF w
  <2>5. i # j => w[j].valid = k[j].valid
    BY <2>4
  <2>6. i = j => ~w[j].valid
    BY <2>4 DEF no
  <2> QED
    BY <1>1, <1>3, <2>1, <2>3, <2>4, <2>5, <2>6 DEF One, SameCopy
<1> QED
  BY <1>2, <1>3

\* idup() adds a reference.
LEMMA DupIs ==
  ASSUME NEW c, CacheTyped(c), NEW i \in Inum, NEW j \in Inum
  PROVE  LET d == idup(c, i) IN
         /\ d[j].ref = c[j].ref + One(i = j) /\ d[j].busy = c[j].busy /\ SameCopy(d[j], c[j])
         /\ d[j].valid = c[j].valid
<1>1. c[i].ref \in Int /\ c[j].ref \in Int
  BY DEF CacheTyped, SlotTyped
<1>2. idup(c, i) = SetRef(c, i, c[i].ref + 1)
  BY DEF idup, SetRef
<1> QED
  BY <1>1, <1>2, RefIs DEF One

\* The first reference of a call: the root, the current directory, or a file's.
LEMMA StartedIs ==
  ASSUME TypeOK, NEW c, CacheTyped(c), \A i \in Inum : c[i].ref >= 0,
         NEW p \in Process, c[cwd[p]].ref > 0, NEW job, NEW j \in Inum
  PROVE  LET d == started(c, p, job)
             i == Start(p, job) IN
         /\ i \in Inum /\ (i = Root \/ i = cwd[p])
         /\ d[j].ref = c[j].ref + One(i = j) /\ d[j].busy = c[j].busy /\ SameCopy(d[j], c[j])
         /\ i # j \/ c[j].ref > 0 => d[j].valid = c[j].valid
         /\ i = j /\ ~(c[j].ref > 0) => ~d[j].valid
<1>1. Root \in Inum /\ cwd[p] \in Inum
  BY FsAssumption DEF TypeOK, Root, Inum
<1>2. CASE job.from = "root"
  <2>1. Start(p, job) = Root /\ started(c, p, job) = iget(c, Root)
    BY <1>2 DEF Start, started
  <2> QED
    BY <1>1, <2>1, GetIs
<1>3. CASE job.from # "root"
  <2>1. Start(p, job) = cwd[p] /\ started(c, p, job) = idup(c, cwd[p])
    BY <1>3 DEF Start, started
  <2> QED
    BY <1>1, <2>1, DupIs
<1> QED
  BY <1>2, <1>3

\* ilock() sets I_BUSY and makes the copy valid.
LEMMA LockIs ==
  ASSUME TypeOK, NEW c, CacheTyped(c), NEW i \in Inum, NEW j \in Inum, NEW p \in Process
  PROVE  LET d == ilock(c, i, p) IN
         /\ d[j].ref = c[j].ref /\ d[j].busy = IF i = j THEN p ELSE c[j].busy
         /\ i = j => d[j].valid
         /\ c[j].valid => d[j].valid
         /\ i # j => d[j].valid = c[j].valid
         /\ c[j].valid \/ i # j => SameCopy(d[j], c[j])
         /\ i = j /\ ~c[j].valid => SameCopy(d[j], dinode[j])
<1> DEFINE b == Read(c, i)
<1>1. CacheTyped(b)
  BY CacheRead
<1>2. ilock(c, i, p) = SetBusy(b, i, p)
  BY DEF ilock, SetBusy
<1>3. LET d == b IN
         /\ d[j].ref = c[j].ref /\ d[j].busy = c[j].busy
         /\ i = j => d[j].valid
         /\ c[j].valid => d[j].valid
         /\ i # j => d[j].valid = c[j].valid
         /\ c[j].valid \/ i # j => SameCopy(d[j], c[j])
         /\ i = j /\ ~c[j].valid => SameCopy(d[j], dinode[j])
  BY ReadIs
<1> HIDE DEF b
<1>4. LET d == SetBusy(b, i, p) IN
         /\ SameCopy(d[j], b[j]) /\ d[j].ref = b[j].ref /\ d[j].valid = b[j].valid
         /\ d[j].busy = IF i = j THEN p ELSE b[j].busy
  BY <1>1, BusyIs
<1> QED
  BY <1>2, <1>3, <1>4 DEF SameCopy

\* iunlock() clears I_BUSY.
LEMMA UnlockIs ==
  ASSUME NEW c, CacheTyped(c), NEW i \in Inum, NEW j \in Inum
  PROVE  LET d == iunlock(c, i) IN
         /\ d[j].ref = c[j].ref /\ d[j].busy = IF i = j THEN NoProcess ELSE c[j].busy
         /\ d[j].valid = c[j].valid /\ SameCopy(d[j], c[j])
<1>1. iunlock(c, i) = SetBusy(c, i, NoProcess)
  BY DEF iunlock, SetBusy
<1> QED
  BY <1>1, BusyIs

\* The in-memory inode is the one the tree of names has.
LEMMA LockedIs ==
  ASSUME TypeOK, CacheTyped(icache), NEW i \in Inum, icache[i].ref > 0
  PROVE  /\ Locked(i).addr = Addr(i)
         /\ SameCopy(Locked(i), IF icache[i].valid THEN icache[i] ELSE dinode[i])
         /\ \A n : lookup(i, n) = IF Addr(i) = None THEN None ELSE dirent[Addr(i)][n]
<1>1. /\ icache[i].valid => SameCopy(Locked(i), icache[i])
      /\ ~icache[i].valid => SameCopy(Locked(i), dinode[i])
  BY ReadIs DEF Locked
<1>2. Locked(i).addr = Addr(i)
  BY <1>1 DEF Addr, SameCopy
<1> QED
  BY <1>1, <1>2 DEF lookup

-----------------------------------------------------------------------------
(* The links *)

\* An inode's address is a block or none.
LEMMA AddrTyped ==
  ASSUME IInv, NEW i \in Inum
  PROVE  Addr(i) \in Block \cup {None}
BY DEF IInv, TypeOK, CacheTyped, SlotTyped, Addr

\* A link is an entry of a directory's block.
LEMMA LinksAre ==
  ASSUME IInv
  PROVE  /\ \A d \in Inum, n \in Name : \A x :
              <<d, n, x>> \in Links <=> /\ dinode[d].type = "dir" /\ Addr(d) # None
                                        /\ dirent[Addr(d)][n] = x /\ x # None
         /\ \A l \in Links : /\ l[1] \in Inum /\ l[2] \in Name /\ l[3] \in Inum
                             /\ l = <<l[1], l[2], l[3]>>
                             /\ dinode[l[1]].type = "dir" /\ Addr(l[1]) # None
                             /\ dirent[Addr(l[1])][l[2]] = l[3] /\ l[3] # None
<1> DEFINE Of(d) == {<<d, l[1], l[2]>> : l \in Names(Addr(d))}
           Dirs == {e \in Inum : dinode[e].type = "dir" /\ Addr(e) # None}
<1>1. Links = UNION {Of(d) : d \in Dirs}
  BY DEF Links
<1>2. ASSUME NEW d \in Inum, NEW n \in Name, NEW x,
             dinode[d].type = "dir", Addr(d) # None, dirent[Addr(d)][n] = x, x # None
      PROVE  <<d, n, x>> \in Links
  <2>1. <<n, x>> \in Names(Addr(d))
    BY <1>2 DEF Names
  <2>2. <<d, n, x>> \in Of(d)
    <3>1. <<d, <<n, x>>[1], <<n, x>>[2]>> \in Of(d)
      BY <2>1
    <3> QED
      BY <3>1
  <2>3. d \in Dirs
    BY <1>2
  <2> HIDE DEF Of, Dirs
  <2> QED
    BY <1>1, <2>2, <2>3
<1>3. ASSUME NEW l \in Links
      PROVE  /\ l[1] \in Inum /\ l[2] \in Name /\ l[3] \in Inum
             /\ l = <<l[1], l[2], l[3]>>
             /\ dinode[l[1]].type = "dir" /\ Addr(l[1]) # None
             /\ dirent[Addr(l[1])][l[2]] = l[3] /\ l[3] # None
  <2>1. PICK d \in Dirs : l \in Of(d)
    BY <1>1
  <2>2. PICK m \in Names(Addr(d)) : l = <<d, m[1], m[2]>>
    BY <2>1
  <2>3. PICK n \in Name : m = <<n, dirent[Addr(d)][n]>> /\ dirent[Addr(d)][n] # None
    BY <2>2 DEF Names
  <2>4. d \in Inum /\ dinode[d].type = "dir" /\ Addr(d) # None
    BY <2>1
  <2>5. l = <<d, n, dirent[Addr(d)][n]>>
    BY <2>2, <2>3
  <2>6. Addr(d) \in Block
    BY <2>4, AddrTyped
  <2>7. dirent[Addr(d)][n] \in Inum
    <3>1. n \in Entry /\ dirent \in [Block -> [Entry -> Inum \cup {None}]]
      BY DEF Entry, IInv, TypeOK
    <3> QED
      BY <2>3, <2>6, <3>1
  <2> QED
    BY <2>3, <2>4, <2>5, <2>7
<1>4. ASSUME NEW d \in Inum, NEW n \in Name, NEW x, <<d, n, x>> \in Links
      PROVE  /\ dinode[d].type = "dir" /\ Addr(d) # None
             /\ dirent[Addr(d)][n] = x /\ x # None
  <2> DEFINE l == <<d, n, x>>
  <2>1. l[1] = d /\ l[2] = n /\ l[3] = x
    OBVIOUS
  <2>2. l \in Links
    BY <1>4
  <2> HIDE DEF l
  <2> QED
    BY <1>3, <2>1, <2>2
<1> QED
  BY <1>2, <1>3, <1>4

\* The links stay when directories keep their blocks and blocks their entries.
LEMMA LinksSame ==
  ASSUME \A i \in Inum : dinode'[i].type = dinode[i].type /\ Addr(i)' = Addr(i),
         dirent' = dirent
  PROVE  Links' = Links /\ \A i : To(i)' = To(i)
<1> DEFINE Dirs == {e \in Inum : dinode[e].type = "dir" /\ Addr(e) # None}
<1>1. Dirs' = Dirs
  OBVIOUS
<1>2. \A a : Names(a)' = Names(a)
  BY DEF Names
<1>3. Links' = Links
  <2>1. \A d \in Dirs : {<<d, l[1], l[2]>> : l \in Names(Addr(d))}'
                          = {<<d, l[1], l[2]>> : l \in Names(Addr(d))}
    BY <1>2
  <2>2. /\ Links = UNION {{<<d, l[1], l[2]>> : l \in Names(Addr(d))} : d \in Dirs}
        /\ Links' = UNION {{<<d, l[1], l[2]>> : l \in Names(Addr(d))}' : d \in Dirs'}
    BY DEF Links
  <2> QED
    BY <1>1, <2>1, <2>2
<1> QED
  BY <1>3 DEF To

\* What lies under a directory depends on the links and their types only.
LEMMA UnderSame ==
  ASSUME Links' = Links, \A l \in Links : dinode'[l[3]].type = dinode[l[3]].type
  PROVE  \A i : Under(i)' = Under(i)
BY DEF Under

-----------------------------------------------------------------------------
(* Counting links and calls *)

\* One link more or less in the tally of an inode.
LEMMA TallyIs ==
  ASSUME NEW S, NEW T, IsFiniteSet(S), NEW x, S \ {x} = T \ {x}
  PROVE  /\ IsFiniteSet(T) /\ Cardinality(S) \in Nat /\ Cardinality(T) \in Nat
         /\ Cardinality(T) = Cardinality(S) + One(x \in T) - One(x \in S)
<1>1. IsFiniteSet(S \ {x}) /\ Cardinality(S \ {x}) = Cardinality(S) - One(x \in S)
  <2>1. CASE x \in S
    BY <2>1, FS_RemoveElement, FS_CardinalityType DEF One
  <2>2. CASE x \notin S
    <3>1. S \ {x} = S
      BY <2>2
    <3>2. Cardinality(S) \in Nat
      BY FS_CardinalityType
    <3>3. One(x \in S) = 0
      BY <2>2 DEF One
    <3> QED
      BY <3>1, <3>2, <3>3
  <2> QED
    BY <2>1, <2>2
<1>2. IsFiniteSet(T) /\ Cardinality(T) = Cardinality(S \ {x}) + One(x \in T)
  <2>1. CASE x \in T
    <3>1. T = (S \ {x}) \cup {x} /\ x \notin S \ {x}
      BY <2>1
    <3> QED
      BY <1>1, <2>1, <3>1, FS_AddElement, FS_CardinalityType DEF One
  <2>2. CASE x \notin T
    <3>1. T = S \ {x}
      BY <2>2
    <3> QED
      BY <1>1, <2>2, <3>1, FS_CardinalityType DEF One
  <2> QED
    BY <2>1, <2>2
<1>3. Cardinality(S) \in Nat /\ Cardinality(T) \in Nat
  BY <1>2, FS_CardinalityType
<1> QED
  BY <1>1, <1>2, <1>3 DEF One

\* The links due to an inode are a number.
LEMMA DueTyped ==
  ASSUME IsFiniteSet(Links), NEW i
  PROVE  /\ IsFiniteSet(To(i)) /\ IsFiniteSet(Under(i))
         /\ IsFiniteSet(ForIp(i)) /\ IsFiniteSet(ForDp(i))
         /\ Cardinality(To(i)) \in Nat /\ Cardinality(Under(i)) \in Nat
         /\ Cardinality(ForIp(i)) \in Nat /\ Cardinality(ForDp(i)) \in Nat
         /\ Due(i) \in Nat
<1>1. /\ To(i) \in SUBSET Links /\ Under(i) \in SUBSET Links
      /\ ForIp(i) \in SUBSET Process /\ ForDp(i) \in SUBSET Process
  BY DEF To, Under, ForIp, ForDp
<1>2. IsFiniteSet(To(i)) /\ IsFiniteSet(Under(i)) /\ IsFiniteSet(ForIp(i)) /\ IsFiniteSet(ForDp(i))
  BY <1>1, FS_Subset, FsAssumption
<1>3. /\ Cardinality(To(i)) \in Nat /\ Cardinality(Under(i)) \in Nat
      /\ Cardinality(ForIp(i)) \in Nat /\ Cardinality(ForDp(i)) \in Nat
  BY <1>2, FS_CardinalityType
<1> QED
  BY <1>2, <1>3 DEF Due, One

\* A step of p changes by its own calls what is due for them.
LEMMA CallsDue ==
  ASSUME NEW p \in Process, Others(p), NEW i
  PROVE  /\ Cardinality(ForIp(i))' = Cardinality(ForIp(i)) + One(PendIp(t'[p], i)) - One(PendIp(t[p], i))
         /\ Cardinality(ForDp(i))' = Cardinality(ForDp(i)) + One(PendDp(t'[p], i)) - One(PendDp(t[p], i))
<1>1. IsFiniteSet(ForIp(i)) /\ IsFiniteSet(ForDp(i))
  <2>1. ForIp(i) \in SUBSET Process /\ ForDp(i) \in SUBSET Process
    BY DEF ForIp, ForDp
  <2> QED
    BY <2>1, FS_Subset, FsAssumption
<1>2. /\ ForIp(i) \ {p} = ForIp(i)' \ {p} /\ ForDp(i) \ {p} = ForDp(i)' \ {p}
  BY DEF ForIp, ForDp, Others
<1>3. /\ p \in ForIp(i) <=> PendIp(t[p], i)
      /\ p \in ForIp(i)' <=> PendIp(t'[p], i)
      /\ p \in ForDp(i) <=> PendDp(t[p], i)
      /\ p \in ForDp(i)' <=> PendDp(t'[p], i)
  BY DEF ForIp, ForDp
<1>4. /\ Cardinality(ForIp(i)') = Cardinality(ForIp(i)) + One(p \in ForIp(i)') - One(p \in ForIp(i))
      /\ Cardinality(ForDp(i)') = Cardinality(ForDp(i)) + One(p \in ForDp(i)') - One(p \in ForDp(i))
  BY <1>1, <1>2, TallyIs
<1> QED
  BY <1>3, <1>4 DEF One

\* A link to an inode, or to a directory in it, or a call, is counted.
LEMMA Dues ==
  ASSUME IInv, TreeInv, CountInv, NEW i \in Inum, dinode[i].type # "free"
  PROVE  /\ dinode[i].nlink \in Nat /\ (i = Root => dinode[i].nlink >= 1)
         /\ \A l \in Links : l[3] = i => dinode[i].nlink >= 1
         /\ \A l \in Links : l[1] = i /\ dinode[l[3]].type = "dir" => dinode[i].nlink >= 1
         /\ \A p \in Process : PendIp(t[p], i) => dinode[i].nlink >= 1
         /\ \A p \in Process, l \in Links : PendIp(t[p], i) /\ l[3] = i => dinode[i].nlink >= 2
         /\ \A p \in Process : PendDp(t[p], i) => dinode[i].nlink >= 1
<1>1. /\ IsFiniteSet(To(i)) /\ IsFiniteSet(Under(i)) /\ IsFiniteSet(ForIp(i)) /\ IsFiniteSet(ForDp(i))
      /\ Cardinality(To(i)) \in Nat /\ Cardinality(Under(i)) \in Nat
      /\ Cardinality(ForIp(i)) \in Nat /\ Cardinality(ForDp(i)) \in Nat
      /\ Due(i) \in Nat
  BY DueTyped DEF TreeInv
<1>2. dinode[i].nlink >= Due(i) /\ dinode[i].nlink \in Int
  BY DEF CountInv, IInv, TypeOK
<1>3. ASSUME NEW S, IsFiniteSet(S), NEW x \in S
      PROVE  Cardinality(S) \in Nat /\ Cardinality(S) >= 1
  <2>1. Cardinality(S) \in Nat /\ (Cardinality(S) = 0 <=> S = {})
    BY <1>3, FS_CardinalityType, FS_EmptySet
  <2> QED
    BY <2>1
<1>4. ASSUME NEW l \in Links, l[3] = i PROVE Cardinality(To(i)) >= 1
  BY <1>1, <1>3, <1>4 DEF To
<1>5. ASSUME NEW l \in Links, l[1] = i, dinode[l[3]].type = "dir" PROVE Cardinality(Under(i)) >= 1
  BY <1>1, <1>3, <1>5 DEF Under
<1>6. ASSUME NEW p \in Process, PendIp(t[p], i) PROVE Cardinality(ForIp(i)) >= 1
  BY <1>1, <1>3, <1>6 DEF ForIp
<1>7. ASSUME NEW p \in Process, PendDp(t[p], i) PROVE Cardinality(ForDp(i)) >= 1
  BY <1>1, <1>3, <1>7 DEF ForDp
<1> QED
  BY <1>1, <1>2, <1>4, <1>5, <1>6, <1>7 DEF Due, One

-----------------------------------------------------------------------------
(* Locks *)

\* LockInv is kept when p's holds change together with I_BUSY.
LEMMA LocksKept ==
  ASSUME IInv, LockInv, NEW p \in Process, Others(p),
         \A i \in Inum :
            \/ /\ icache'[i].busy = icache[i].busy
               /\ Keeps(file'[p], t'[p], i) <=> Keeps(file[p], t[p], i)
            \/ icache[i].busy = NoProcess /\ icache'[i].busy = p /\ Keeps(file'[p], t'[p], i)
            \/ icache[i].busy = p /\ icache'[i].busy = NoProcess /\ ~Keeps(file'[p], t'[p], i),
         \A i \in Inum : icache'[i].busy # NoProcess => icache'[i].valid,
         t'[p].pc \in {"uplink", "balloc", "dots", "name", "downlink"} => t'[p].ip # t'[p].dp
  PROVE  LockInv'
<1>1. ASSUME NEW i \in Inum, NEW q \in Process
      PROVE  icache'[i].busy = q <=> Keeps(file'[q], t'[q], i)
  <2>0. NoProcess \notin Process
    BY FsAssumption
  <2>1. icache[i].busy = q <=> Keeps(file[q], t[q], i)
    BY DEF LockInv
  <2>2. icache[i].busy = p <=> Keeps(file[p], t[p], i)
    BY DEF LockInv
  <2>3. CASE q = p
    BY <2>0, <2>2, <2>3
  <2>4. CASE q # p
    <3>1. Keeps(file'[q], t'[q], i) <=> Keeps(file[q], t[q], i)
      BY <2>4 DEF Others
    <3> QED
      BY <2>0, <2>1, <2>2, <2>4, <3>1
  <2> QED
    BY <2>3, <2>4
<1>2. ASSUME NEW q \in Process,
             t'[q].pc \in {"uplink", "balloc", "dots", "name", "downlink"}
      PROVE  t'[q].ip # t'[q].dp
  BY <1>2 DEF LockInv, Others
<1> QED
  BY <1>1, <1>2 DEF LockInv

\* Nobody else has locked what p has, nor anybody what is free.
LEMMA OneKeeper ==
  ASSUME IInv, LockInv, NEW i \in Inum, NEW p \in Process
  PROVE  /\ Keeps(file[p], t[p], i) => Mem(i) /\ icache[i].busy = p
         /\ icache[i].busy = NoProcess => ~Keeps(file[p], t[p], i)
         /\ icache[i].busy = p => Keeps(file[p], t[p], i)
         /\ Freed(t[p], i) => Keeps(file[p], t[p], i)
         /\ Ahead(file[p], t[p], i) => Keeps(file[p], t[p], i)
         /\ \A q \in Process : Keeps(file[p], t[p], i) /\ Keeps(file[q], t[q], i) => p = q
<1>1. NoProcess \notin Process
  BY FsAssumption
<1>2. icache[i].busy = p <=> Keeps(file[p], t[p], i)
  BY DEF LockInv
<1>3. \A q \in Process : icache[i].busy = q <=> Keeps(file[q], t[q], i)
  BY DEF LockInv
<1>4. Keeps(file[p], t[p], i) => Mem(i)
  BY <1>1, <1>2, InUse DEF LockInv, Mem
<1>5. Freed(t[p], i) => Keeps(file[p], t[p], i)
  BY DEF Freed, Keeps, EndPc
<1>6. Ahead(file[p], t[p], i) => Keeps(file[p], t[p], i)
  BY DEF Ahead, Keeps, EndPc, OwnPc, Label, PutPc
<1> QED
  BY <1>1, <1>2, <1>3, <1>4, <1>5, <1>6

\* An inode in use that nobody has locked is seen as it is.
LEMMA Seen ==
  ASSUME IInv, LockInv, CopyInv, NEW i \in Inum, icache[i].ref > 0,
         icache[i].busy = NoProcess
  PROVE  /\ Locked(i).type = dinode[i].type /\ Locked(i).nlink = dinode[i].nlink
         /\ Locked(i).addr = Addr(i) /\ Addr(i) = dinode[i].addr
         /\ \A n : lookup(i, n) = IF Addr(i) = None THEN None ELSE dirent[Addr(i)][n]
<1>1. /\ Locked(i).addr = Addr(i)
      /\ SameCopy(Locked(i), IF icache[i].valid THEN icache[i] ELSE dinode[i])
      /\ \A n : lookup(i, n) = IF Addr(i) = None THEN None ELSE dirent[Addr(i)][n]
  BY LockedIs, Now DEF IInv
<1>2. \A q \in Process : ~Freed(t[q], i) /\ ~Ahead(file[q], t[q], i)
  BY OneKeeper
<1>3. icache[i].valid => SameCopy(icache[i], dinode[i])
  BY <1>2 DEF CopyInv, CopyAt, Mem, SameCopy
<1> QED
  BY <1>1, <1>3 DEF SameCopy

-----------------------------------------------------------------------------
(* The cache *)

\* A step leaves the copy of an inode in memory, or makes one.
Kept(i) ==
    /\ Mem(i) => SameCopy(icache'[i], icache[i])
    /\ icache'[i].ref > 0 /\ icache'[i].valid => Mem(i) \/ SameCopy(icache'[i], dinode[i])

\* An inode whose two copies are left alone still agrees.
LEMMA CopySame ==
  ASSUME NEW i \in Inum, CopyAt(i), NEW p \in Process, Others(p), Kept(i),
         SameCopy(dinode'[i], dinode[i]),
         Freed(t[p], i) => Freed(t'[p], i),
         Ahead(file[p], t[p], i) => Ahead(file'[p], t'[p], i)
  PROVE  CopyAt(i)'
<1> SUFFICES ASSUME icache'[i].ref > 0, icache'[i].valid
             PROVE  /\ icache'[i].nlink = dinode'[i].nlink
                    /\ (\A q \in Process : ~Freed(t'[q], i)) => icache'[i].type = dinode'[i].type
                    /\ (\A q \in Process : ~Ahead(file'[q], t'[q], i)) => icache'[i].addr = dinode'[i].addr
  BY DEF CopyAt, Mem
<1>1. CASE ~Mem(i)
  BY <1>1 DEF Kept, SameCopy
<1>2. CASE Mem(i)
  <2>1. SameCopy(icache'[i], icache[i])
    BY <1>2 DEF Kept
  <2>2. icache[i].nlink = dinode[i].nlink
    BY <1>2 DEF CopyAt
  <2>3. ASSUME \A q \in Process : ~Freed(t'[q], i) PROVE icache[i].type = dinode[i].type
    <3>1. \A q \in Process : ~Freed(t[q], i)
      BY <2>3 DEF Others
    <3> QED
      BY <1>2, <3>1 DEF CopyAt
  <2>4. ASSUME \A q \in Process : ~Ahead(file'[q], t'[q], i) PROVE icache[i].addr = dinode[i].addr
    <3>1. \A q \in Process : ~Ahead(file[q], t[q], i)
      BY <2>4 DEF Others
    <3> QED
      BY <1>2, <3>1 DEF CopyAt
  <2> QED
    BY <2>1, <2>2, <2>3, <2>4 DEF SameCopy
<1> QED
  BY <1>1, <1>2

\* An entry and its inode still agree on the address.
LEMMA AddrSame ==
  ASSUME NEW i \in Inum, Kept(i), SameCopy(dinode'[i], dinode[i]),
         Mem(i) /\ ~(icache'[i].ref > 0 /\ icache'[i].valid) => icache[i].addr = dinode[i].addr
  PROVE  Addr(i)' = Addr(i)
BY DEF Kept, SameCopy, Addr, Mem

-----------------------------------------------------------------------------
(* Inodes that a call may find: in use on the disk, and nobody's own *)

Given(i) == /\ i \in Inum /\ dinode[i].type # "free" /\ dinode[i].nlink >= 1
            /\ \A q \in Process : ~Sole(t[q], i)

\* The root may be found.
LEMMA GivenRoot ==
  ASSUME DInv
  PROVE  Given(Root)
<1>1. Root \in Inum /\ dinode[Root].type = "dir"
  BY FsAssumption DEF Root, Inum, DInv, DirInv
<1>2. dinode[Root].nlink >= 1
  BY <1>1, Dues DEF DInv
<1>3. \A q \in Process : ~Sole(t[q], Root)
  BY <1>1 DEF DInv, SoleInv
<1> QED
  BY <1>1, <1>2, <1>3 DEF Given

\* What a link leads to may be found.
LEMMA GivenLinked ==
  ASSUME DInv, NEW l \in Links
  PROVE  Given(l[3])
<1>1. l[3] \in Inum /\ dinode[l[3]].type # "free"
  BY LinksAre DEF DInv, TreeInv
<1>2. dinode[l[3]].nlink >= 1
  BY <1>1, Dues DEF DInv
<1>3. \A q \in Process : ~Sole(t[q], l[3])
  BY <1>1 DEF DInv, SoleInv
<1> QED
  BY <1>1, <1>2, <1>3 DEF Given

\* What one call alone refers to no other refers to.
LEMMA SoleUser ==
  ASSUME DInv, NEW i \in Inum, NEW p \in Process, NEW q \in Process, Sole(t[p], i),
         Uses(cwd[q], file[q], t[q], i)
  PROVE  p = q
BY DEF DInv, SoleInv

\* A call that is the only user of an inode uses it.
LEMMA SoleUses ==
  ASSUME NEW c, NEW f, NEW r, NEW i, Sole(r, i)
  PROVE  Uses(c, f, r, i)
BY DEF Sole, Uses, Else

\* Where directories stay, so may the parent of one.
LEMMA GivenParent ==
  ASSUME DInv, Stay, NEW l \in Links, dinode[l[3]].type = "dir"
  PROVE  Given(l[1])
<1>1. l[1] \in Inum /\ dinode[l[1]].type = "dir" /\ l[3] \in Inum
  BY LinksAre DEF DInv
<1>2. dinode[l[1]].nlink >= 1
  BY <1>1, Dues DEF DInv
<1>3. ASSUME NEW q \in Process, Sole(t[q], l[1]) PROVE FALSE
  <2>1. /\ l[1] # Root /\ \A m \in Links : m[3] # l[1]
        /\ t[q].pc \in FreshPc => l[1] # l[1]
    BY <1>1, <1>3 DEF DInv, SoleInv
  <2>2. PICK D \in SUBSET Name : DirsStay(programs, D)
    BY DEF Stay
  <2>3. PICK x \in Process : Building(t[x], l[1])
    BY <1>1, <2>1, <2>2 DEF DInv, StayInv
  <2>4. Sole(t[x], l[1])
    BY <2>3 DEF Building, Sole
  <2>5. x = q
    BY <1>1, <1>3, <2>4, SoleUser, SoleUses
  <2> QED
    BY <2>1, <2>3, <2>5 DEF Building
<1> QED
  BY <1>1, <1>2, <1>3 DEF Given

\* A directory in use has its block.
LEMMA DirBlock ==
  ASSUME DInv, NEW p \in Process, NEW i \in Inum, Uses(cwd[p], file[p], t[p], i),
         ~Sole(t[p], i), dinode[i].type = "dir"
  PROVE  Addr(i) # None
<1>1. SUFFICES ASSUME NEW q \in Process, Unbuilt(t[q], i) PROVE FALSE
  BY DEF DInv, DirInv
<1>2. Sole(t[q], i)
  BY <1>1 DEF Unbuilt, Sole, FreshPc
<1> QED
  BY <1>2, SoleUser

\* A walk finds what may be found, by a link unless it takes the dots.
LEMMA Finds ==
  ASSUME DInv, Orderly, NEW p \in Process, NEW i \in Inum, Uses(cwd[p], file[p], t[p], i),
         ~Sole(t[p], i), icache[i].busy = NoProcess, dinode[i].type = "dir",
         NEW n \in Entry, n = ".." => ~NoDots(programs)
  PROVE  /\ n = ".." => lookup(i, n) # None
         /\ lookup(i, n) # None => Given(lookup(i, n))
         /\ n \in Name /\ lookup(i, n) # None => <<i, n, lookup(i, n)>> \in Links
         /\ Addr(i) # None /\ lookup(i, n) = dirent[Addr(i)][n]
<1>1. icache[i].ref > 0
  BY InUse DEF DInv, Sole, FreshPc
<1>2. lookup(i, n) = IF Addr(i) = None THEN None ELSE dirent[Addr(i)][n]
  BY <1>1, Seen DEF DInv
<1>3. Addr(i) # None
  BY DirBlock
<1>4. CASE n \in Name
  <2>1. lookup(i, n) # None => <<i, n, lookup(i, n)>> \in Links
    BY <1>2, <1>3, <1>4, LinksAre DEF DInv
  <2>2. lookup(i, n) # None => Given(lookup(i, n))
    <3> DEFINE l == <<i, n, lookup(i, n)>>
    <3>1. l[3] = lookup(i, n)
      OBVIOUS
    <3>2. l \in Links => Given(l[3])
      BY GivenLinked
    <3> HIDE DEF l
    <3> QED
      BY <2>1, <3>1, <3>2 DEF l
  <2>3. n # ".."
    BY <1>4 DEF Orderly
  <2> QED
    BY <1>2, <1>3, <2>1, <2>2, <2>3
<1>5. CASE n = ".."
  <2>0. n \notin Name
    BY <1>5 DEF Orderly
  <2>1. Stay
    BY <1>5 DEF Orderly, DInv, IInv, Stay
  <2>2. PICK D \in SUBSET Name : DirsStay(programs, D)
    BY <2>1 DEF Stay
  <2>3. \A q \in Process : ~Building(t[q], i)
    <3> SUFFICES ASSUME NEW q \in Process, Building(t[q], i) PROVE FALSE
      OBVIOUS
    <3>1. Sole(t[q], i)
      BY DEF Building, Sole
    <3> QED
      BY <3>1, SoleUser
  <2>4. i = Root \/ \E l \in Links : l[3] = i
    BY <2>2, <2>3 DEF DInv, StayInv
  <2>5. CASE i = Root
    <3>1. lookup(i, n) = Root /\ Root # None
      BY <1>2, <1>3, <1>5, <2>5 DEF DInv, DirInv, Root, None
    <3> QED
      BY <1>2, <1>3, <2>0, <3>1, GivenRoot
  <2>6. CASE \E l \in Links : l[3] = i
    <3>1. PICK l \in Links : l[3] = i
      BY <2>6
    <3>2. lookup(i, n) = l[1]
      BY <1>2, <1>3, <1>5, <3>1 DEF DInv, TreeInv
    <3>3. Given(l[1])
      BY <2>1, <3>1, GivenParent
    <3>4. l[1] # None
      BY <3>3 DEF Given, Inum, None
    <3> QED
      BY <1>2, <1>3, <2>0, <3>2, <3>3, <3>4
  <2> QED
    BY <2>4, <2>5, <2>6
<1> QED
  BY <1>4, <1>5 DEF Entry

-----------------------------------------------------------------------------
(* What a step of p leaves of the others' calls *)

\* What a call points to are inodes or none.
LEMMA PointersTyped ==
  ASSUME IInv, NEW p \in Process
  PROVE  /\ cwd[p] \in Inum /\ (file[p] # None => file[p] \in Inum)
         /\ t[p].dp # None => t[p].dp \in Inum
         /\ t[p].ip # None => t[p].ip \in Inum
         /\ t[p].at # None => t[p].at \in Inum
         /\ t[p].pc \in DpPc => t[p].dp \in Inum
         /\ t[p].pc \in AtPc => t[p].at \in Inum
         /\ t[p].pc \in FreshPc \cup IpPc => t[p].ip \in Inum
         /\ t[p].pc \in PutPc => First(t[p]) \in Inum /\ First(t[p]) = Put(p)
         /\ t[p].pc \notin PutPc => First(t[p]) = None /\ Second(t[p]) = None
         /\ t[p].pc \in FilePc => file[p] \in Inum
<1>1. CallTyped(t[p]) /\ PointersSet(t[p]) /\ CallFits(t[p], file[p])
  BY DEF IInv, Sound
<1>2. cwd[p] \in Inum /\ file[p] \in Inum \cup {None}
  BY DEF IInv, TypeOK
<1>3. t[p].pc \in PutPc => First(t[p]) \in Inum /\ First(t[p]) = Put(p)
  BY <1>1 DEF CallTyped, First, Put
<1>4. t[p].pc \notin PutPc => First(t[p]) = None /\ Second(t[p]) = None
  BY <1>1, OwesNone DEF CallTyped
<1>5. t[p].pc \notin PutPc => Label(t[p]) = t[p].pc
  BY DEF Label
<1> QED
  BY <1>1, <1>2, <1>3, <1>4, <1>5
     DEF PointersSet, CallFits, PutPc, AtPc, DpPc, IpPc, FilePc, FreshPc

\* What the invariant says of the other calls stays true.
LEMMA OthersCalls ==
  ASSUME DInv, NEW p \in Process, Others(p), programs' = programs, NEW q \in Process \ {p},
         \A i \in Inum : Uses(cwd[q], file[q], t[q], i) => dinode'[i].type = dinode[i].type,
         \A i \in Inum : Keeps(file[q], t[q], i) =>
            /\ icache'[i].addr = icache[i].addr /\ Addr(i)' = Addr(i)
            /\ dinode[i].type # "free" => SameCopy(dinode'[i], dinode[i])
            /\ Addr(i) # None => dirent'[Addr(i)] = dirent[Addr(i)],
         \A i \in Inum : t[q].pc \in {"iget", "fresh"} /\ t[q].ip = i
            => SameCopy(dinode'[i], dinode[i]),
         \A i \in Inum : Freed(t[q], i) =>
            /\ dinode'[i].nlink = 0 /\ dinode'[i].addr = None
            /\ \/ dinode'[i].type = "free"
               \/ \E x \in Process : t'[x].pc \in {"iget", "fresh"} /\ t'[x].ip = i
  PROVE  CallSound(q)'
<1> DEFINE r == t[q]
<1>1. t'[q] = r /\ cwd'[q] = cwd[q] /\ file'[q] = file[q]
  BY DEF Others
<1>2. CallSound(q)
  BY DEF DInv, CallInv
<1>3. /\ cwd[q] \in Inum /\ (r.dp # None => r.dp \in Inum)
      /\ (r.ip # None => r.ip \in Inum)
      /\ r.pc \in DpPc => r.dp \in Inum
      /\ r.pc \in AtPc => r.at \in Inum
      /\ r.pc \in FreshPc \cup IpPc => r.ip \in Inum
      /\ r.pc \in PutPc => First(r) \in Inum
      /\ r.pc \in FilePc => file[q] \in Inum
  BY PointersTyped DEF DInv
<1>4. ASSUME NEW i \in Inum, Uses(cwd[q], file[q], r, i) PROVE dinode[i].type # "free"
  BY <1>4 DEF DInv, PointInv
<1>5. Typing(q)'
  <2>1. \A i \in Inum : (i = cwd[q] \/ i = r.dp \/ i = r.at \/ i = r.ip \/ i = file[q])
                           => dinode'[i].type = dinode[i].type
    BY DEF Uses, Else
  <2>2. Typing(q)
    BY <1>2 DEF CallSound
  <2> HIDE DEF r
  <2> QED
    BY <1>1, <1>3, <2>1, <2>2 DEF Typing, DpPc, AtPc, IpPc, FilePc, FreshPc, r
<1>6. Ending(q)'
  <2>1. r.pc \in EndPc => Keeps(file[q], r, First(r)) /\ First(r) \in Inum
    BY <1>3 DEF Keeps, EndPc, PutPc
  <2>2. r.pc \in {"itrunc", "ifree"} => Uses(cwd[q], file[q], r, First(r))
    BY DEF Uses
  <2>3. r.pc = "iputend" => Freed(r, First(r))
    BY DEF Freed
  <2>4. Ending(q)
    BY <1>2 DEF CallSound
  <2>5. r.pc \in {"itrunc", "ifree"} => dinode'[First(r)].nlink = 0
    BY <1>4, <2>1, <2>2, <2>4 DEF Ending, EndPc, SameCopy
  <2>6. r.pc \in {"ifree", "iputend"} => icache'[First(r)].addr = None
    BY <2>1, <2>4 DEF Ending, EndPc
  <2>7. r.pc = "iputend" =>
            /\ dinode'[First(r)].nlink = 0 /\ dinode'[First(r)].addr = None
            /\ \/ dinode'[First(r)].type = "free"
               \/ \E x \in Process : t'[x].pc \in {"iget", "fresh"} /\ t'[x].ip = First(r)
    BY <2>1, <2>3 DEF EndPc
  <2> HIDE DEF r
  <2> QED
    BY <1>1, <2>5, <2>6, <2>7 DEF Ending, EndPc
<1>7. Making(q)'
  <2>1. Making(q)
    BY <1>2 DEF CallSound
  <2>2. r.pc \in FreshPc => r.ip \in Inum /\ SameCopy(dinode'[r.ip], dinode[r.ip])
    <3>1. ASSUME r.pc \in FreshPc \ {"iget", "fresh"}
          PROVE  Keeps(file[q], r, r.ip) /\ Uses(cwd[q], file[q], r, r.ip) /\ r.ip \in Inum
      BY <1>3, <3>1 DEF FreshPc, Keeps, OwnPc, Label, PutPc, Uses
    <3> QED
      BY <1>3, <1>4, <3>1 DEF FreshPc
  <2>3. ASSUME NEW i \in Inum, Made(r), i = r.ip
        PROVE  /\ Addr(i)' = Addr(i)
               /\ Addr(i) # None => dirent'[Addr(i)] = dirent[Addr(i)]
    <3>1. Keeps(file[q], r, i)
      BY <1>3, <2>3 DEF FreshPc, Keeps, OwnPc, Label, PutPc, Made
    <3> QED
      BY <3>1
  <2>4. r.pc = "grow" => SameCopy(dinode'[file[q]], dinode[file[q]])
    <3>1. ASSUME r.pc = "grow"
          PROVE  file[q] \in Inum /\ Keeps(file[q], r, file[q])
                 /\ Uses(cwd[q], file[q], r, file[q])
      BY <1>3, <3>1 DEF FilePc, Keeps, Uses, Else
    <3> QED
      BY <1>4, <3>1
  <2> HIDE DEF r
  <2>5. /\ t'[q].pc \in {"iget", "fresh"} => dinode'[t'[q].ip].nlink = 0
        /\ t'[q].pc \in FreshPc \ {"iget", "fresh"} => dinode'[t'[q].ip].nlink = 1
        /\ t'[q].pc \in FreshPc /\ ~(t'[q].pc = "name" /\ t'[q].job.op = "mkdir")
             => dinode'[t'[q].ip].addr = None
    BY <1>1, <2>1, <2>2 DEF Making, FreshPc, SameCopy, r
  <2>6. /\ t'[q].pc \in {"uplink", "balloc", "dots"} => t'[q].job.op = "mkdir"
        /\ t'[q].pc = "grow" => dinode'[file'[q]].addr = None
    BY <1>1, <2>1, <2>4 DEF Making, SameCopy, r
  <2>7. ASSUME Made(r)
        PROVE  /\ Addr(r.ip)' # None /\ \A n \in Name : dirent'[Addr(r.ip)'][n] = None
               /\ r.pc = "name" => dirent'[Addr(r.ip)'][".."] = r.dp
    <3>1. /\ Addr(r.ip) # None /\ \A n \in Name : dirent[Addr(r.ip)][n] = None
          /\ r.pc = "name" => dirent[Addr(r.ip)][".."] = r.dp
      BY <2>1, <2>7 DEF Making, r
    <3>2. r.pc \in FreshPc
      BY <2>7 DEF Made, FreshPc
    <3>3. r.ip \in Inum
      BY <1>3, <3>2
    <3>4. Addr(r.ip)' = Addr(r.ip)
      BY <1>1, <2>3, <2>7, <3>3 DEF r
    <3>5. dirent'[Addr(r.ip)] = dirent[Addr(r.ip)]
      BY <2>3, <2>7, <3>1, <3>3
    <3> QED
      BY <3>1, <3>4, <3>5
  <2>8. Made(t'[q]) => Addr(t[q].ip)' # None /\ \A n \in Name : dirent'[Addr(t[q].ip)'][n] = None
    BY <1>1, <2>7 DEF r
  <2>9. Made(t'[q]) /\ t'[q].pc = "name" => dirent'[Addr(t[q].ip)'][".."] = t'[q].dp
    BY <1>1, <2>7 DEF r
  <2> QED
    BY <1>1, <2>5, <2>6, <2>8, <2>9 DEF Making, Made, r, Addr
<1>8. Going(q)'
  <2>1. Going(q) /\ Typing(q)
    BY <1>2 DEF CallSound
  <2>2. ASSUME NEW d \in Inum, r.pc \in {"ialloc", "victim"} \cup FreshPc, d = r.dp
        PROVE  Addr(d)' = Addr(d) /\ dirent'[Addr(d)] = dirent[Addr(d)]
    <3>1. r.pc \in DpPc
      BY <2>2 DEF DpPc, FreshPc
    <3>2. Keeps(file[q], r, d) /\ Else(cwd[q], file[q], r, d)
      BY <2>2, <3>1 DEF Keeps, Else
    <3>3. Uses(cwd[q], file[q], r, d) /\ ~Sole(r, d)
      BY <3>2 DEF Uses, DInv, SoleInv
    <3>4. dinode[d].type = "dir"
      BY <2>1, <2>2 DEF Typing, Inum, None
    <3>5. Addr(d) # None
      BY <3>3, <3>4, DirBlock
    <3> QED
      BY <3>2, <3>5
  <2>3. r.pc \in {"ialloc", "victim"} \cup FreshPc => r.dp \in Inum
    BY <1>3 DEF DpPc, FreshPc
  <2> HIDE DEF r
  <2>4. Label(t'[q]) \in LookPc =>
         /\ NoDots(programs)' => \A n \in 1..Len(t'[q].path) : t'[q].path[n] # ".."
         /\ t'[q].job.op \in {"mkdir", "unlink"} /\ t'[q].path # <<>> =>
               t'[q].job.path # <<>> /\ End(t'[q].path) = End(t'[q].job.path)
         /\ Label(t'[q]) # "walk" => Len(t'[q].path) = 1
         /\ Label(t'[q]) = "create" => t'[q].job.op \in {"create", "mkdir"}
         /\ Label(t'[q]) = "unlink" => t'[q].job.op = "unlink"
    BY <1>1, <2>1 DEF Going, r, NoDots
  <2>5. t'[q].pc \in {"ialloc"} \cup FreshPc =>
         /\ t'[q].job.op \in {"create", "mkdir"}
         /\ Elem(q)' # ".." /\ dirent'[Addr(t[q].dp)'][Elem(q)'] = None
    <3> SUFFICES ASSUME r.pc \in {"ialloc"} \cup FreshPc
                 PROVE  /\ r.job.op \in {"create", "mkdir"}
                        /\ Elem(q) # ".." /\ dirent'[Addr(r.dp)'][Elem(q)] = None
      BY <1>1 DEF Elem, r
    <3>1. /\ r.job.op \in {"create", "mkdir"}
          /\ Elem(q) # ".." /\ dirent[Addr(r.dp)][Elem(q)] = None
      BY <2>1 DEF Going, r
    <3>2. Addr(r.dp)' = Addr(r.dp) /\ dirent'[Addr(r.dp)] = dirent[Addr(r.dp)]
      BY <1>1, <2>2, <2>3 DEF r
    <3> QED
      BY <3>1, <3>2
  <2>6. t'[q].pc = "victim" =>
         /\ t'[q].job.op = "unlink"
         /\ Elem(q)' # ".." /\ dirent'[Addr(t[q].dp)'][Elem(q)'] = t'[q].ip
    <3> SUFFICES ASSUME r.pc = "victim"
                 PROVE  /\ r.job.op = "unlink"
                        /\ Elem(q)' # ".." /\ dirent'[Addr(t[q].dp)'][Elem(q)'] = r.ip
      BY <1>1
    <3>1. /\ r.job.op = "unlink"
          /\ Elem(q) # ".." /\ dirent[Addr(r.dp)][Elem(q)] = r.ip
      BY <2>1 DEF Going, r
    <3>2. Elem(q)' = Elem(q) /\ t'[q].dp = r.dp
      BY <1>1 DEF Elem, r
    <3>3. dirent'[Addr(t[q].dp)'] = dirent[Addr(r.dp)]
      BY <1>1, <2>2, <2>3 DEF r, Addr
    <3> QED
      BY <3>1, <3>2, <3>3
  <2> QED
    BY <2>4, <2>5, <2>6 DEF Going
<1> QED
  BY <1>5, <1>6, <1>7, <1>8 DEF CallSound

\* The same when p changes nothing but inodes J that it uses and may lock.
LEMMA OthersKept ==
  ASSUME DInv, NEW p \in Process, Others(p), programs' = programs, NEW J \in SUBSET Inum,
         \A j \in J : Uses(cwd[p], file[p], t[p], j) /\ icache[j].busy \in {p, NoProcess},
         \A i \in Inum \ J : SameCopy(dinode'[i], dinode[i]) /\ Kept(i) /\ Addr(i)' = Addr(i),
         \A j \in J : dinode'[j].type = dinode[j].type \/ Sole(t[p], j),
         \A i \in Inum \ J : Addr(i) # None => dirent'[Addr(i)] = dirent[Addr(i)],
         t[p].pc \in {"iget", "fresh"} =>
            t[p].ip \in J \/ (t'[p].pc \in {"iget", "fresh"} /\ t'[p].ip = t[p].ip)
  PROVE  \A q \in Process \ {p} : CallSound(q)'
<1> SUFFICES ASSUME NEW q \in Process \ {p} PROVE CallSound(q)'
  OBVIOUS
<1>0. NoProcess \notin Process
  BY FsAssumption
<1>1. ASSUME NEW i \in Inum, Keeps(file[q], t[q], i) PROVE i \notin J /\ Mem(i)
  <2>1. icache[i].busy = q /\ Mem(i)
    BY <1>1, OneKeeper DEF DInv
  <2> QED
    BY <1>0, <2>1
<1>2. ASSUME NEW i \in Inum, Uses(cwd[q], file[q], t[q], i)
      PROVE  dinode'[i].type = dinode[i].type
  <2>1. CASE i \in J /\ Sole(t[p], i)
    BY <1>2, <2>1, SoleUser
  <2> QED
    BY <2>1 DEF SameCopy
<1>3. ASSUME NEW i \in Inum, Keeps(file[q], t[q], i)
      PROVE  /\ icache'[i].addr = icache[i].addr /\ Addr(i)' = Addr(i)
             /\ SameCopy(dinode'[i], dinode[i])
             /\ Addr(i) # None => dirent'[Addr(i)] = dirent[Addr(i)]
  <2>1. i \in Inum \ J /\ Mem(i)
    BY <1>1, <1>3
  <2> QED
    BY <2>1 DEF Kept, SameCopy
<1>4. ASSUME NEW i \in Inum, t[q].pc \in {"iget", "fresh"} /\ t[q].ip = i
      PROVE  SameCopy(dinode'[i], dinode[i])
  <2>1. Sole(t[q], i)
    BY <1>4 DEF Sole, FreshPc
  <2>2. i \notin J
    BY <2>1, SoleUser
  <2> QED
    BY <2>2
<1>5. ASSUME NEW i \in Inum, Freed(t[q], i)
      PROVE  /\ dinode'[i].nlink = 0 /\ dinode'[i].addr = None
             /\ \/ dinode'[i].type = "free"
                \/ \E x \in Process : t'[x].pc \in {"iget", "fresh"} /\ t'[x].ip = i
  <2>1. Keeps(file[q], t[q], i)
    BY <1>5, OneKeeper DEF DInv
  <2>2. i \notin J
    BY <1>1, <2>1
  <2>3. SameCopy(dinode'[i], dinode[i])
    BY <2>2
  <2>4. Ending(q) /\ t[q].pc = "iputend" /\ First(t[q]) = i
    BY <1>5 DEF DInv, CallInv, CallSound, Freed
  <2>5. dinode[i].nlink = 0 /\ dinode[i].addr = None
    BY <2>4 DEF Ending, EndPc
  <2>6. dinode[i].type # "free" => \E x \in Process : t[x].pc \in {"iget", "fresh"} /\ t[x].ip = i
    BY <2>4 DEF Ending
  <2>7. ASSUME NEW x \in Process, t[x].pc \in {"iget", "fresh"} /\ t[x].ip = i
        PROVE  t'[x].pc \in {"iget", "fresh"} /\ t'[x].ip = i
    BY <2>2, <2>7 DEF Others
  <2> QED
    BY <2>3, <2>5, <2>6, <2>7 DEF SameCopy
<1> QED
  BY <1>2, <1>3, <1>4, <1>5, OthersCalls

-----------------------------------------------------------------------------
(* Pointers *)

\* PointInv is kept when p's own pointers are good.
LEMMA PointsKept ==
  ASSUME DInv, NEW p \in Process, Others(p),
         \A i \in Inum : dinode[i].type # "free" /\ dinode'[i].type = "free" =>
            Sole(t[p], i) /\ ~Uses(cwd'[p], file'[p], t'[p], i),
         \A i \in Inum : Uses(cwd'[p], file'[p], t'[p], i) =>
            Uses(cwd[p], file[p], t[p], i) \/ dinode'[i].type # "free"
  PROVE  PointInv'
<1> SUFFICES ASSUME NEW q \in Process, NEW i \in Inum, Uses(cwd'[q], file'[q], t'[q], i)
             PROVE  dinode'[i].type # "free"
  BY DEF PointInv
<1>1. CASE q = p
  BY <1>1 DEF DInv, PointInv
<1>2. CASE q # p
  <2>1. Uses(cwd[q], file[q], t[q], i)
    BY <1>2 DEF Others
  <2>2. dinode[i].type # "free"
    BY <2>1 DEF DInv, PointInv
  <2> QED
    BY <1>2, <2>1, <2>2, SoleUser
<1> QED
  BY <1>1, <1>2

\* SoleInv is kept when p's own sole inodes are.
LEMMA SolesKept ==
  ASSUME DInv, NEW p \in Process, Others(p),
         \A i \in Inum : Uses(cwd'[p], file'[p], t'[p], i) =>
            Uses(cwd[p], file[p], t[p], i) \/ \A q \in Process \ {p} : ~Sole(t[q], i),
         \A l \in Links' : \/ l \in Links
                           \/ \A q \in Process \ {p} : ~Sole(t[q], l[1]) /\ ~Sole(t[q], l[3]),
         \A i \in Inum : Sole(t'[p], i) =>
            /\ i # Root /\ ~Else(cwd'[p], file'[p], t'[p], i)
            /\ \A q \in Process \ {p} : ~Uses(cwd[q], file[q], t[q], i)
            /\ \A l \in Links' : l[3] # i /\ (t'[p].pc \in FreshPc => l[1] # i)
  PROVE  SoleInv'
<1> SUFFICES ASSUME NEW q \in Process, NEW i \in Inum, Sole(t'[q], i)
             PROVE  /\ i # Root /\ ~Else(cwd'[q], file'[q], t'[q], i)
                    /\ \A x \in Process \ {q} : ~Uses(cwd'[x], file'[x], t'[x], i)
                    /\ \A l \in Links' : l[3] # i /\ (t'[q].pc \in FreshPc => l[1] # i)
  BY DEF SoleInv
<1>1. CASE q = p
  BY <1>1 DEF Others
<1>2. CASE q # p
  <2>1. Sole(t[q], i) /\ t'[q] = t[q] /\ cwd'[q] = cwd[q] /\ file'[q] = file[q]
    BY <1>2 DEF Others
  <2>2. /\ i # Root /\ ~Else(cwd[q], file[q], t[q], i)
        /\ \A x \in Process \ {q} : ~Uses(cwd[x], file[x], t[x], i)
        /\ \A l \in Links : l[3] # i /\ (t[q].pc \in FreshPc => l[1] # i)
    BY <2>1 DEF DInv, SoleInv
  <2>3. \A x \in Process \ {q} : ~Uses(cwd'[x], file'[x], t'[x], i)
    BY <1>2, <2>1, <2>2 DEF Others
  <2>4. \A l \in Links' : l[3] # i /\ (t'[q].pc \in FreshPc => l[1] # i)
    BY <1>2, <2>1, <2>2
  <2> QED
    BY <2>1, <2>2, <2>3, <2>4
<1> QED
  BY <1>1, <1>2

-----------------------------------------------------------------------------
(* Steps that leave the directories and the blocks: what p holds may change, and
   the counts of inodes J that it uses. *)

\* What p loses, another has, or the inode is not to be freed.
Released(p, i) ==
    Uses(cwd[p], file[p], t[p], i) =>
        \/ Uses(cwd'[p], file'[p], t'[p], i)
        \/ dinode'[i].nlink # 0 \/ dinode[i].type = "free"
        \/ \E q \in Process \ {p} : Uses(cwd[q], file[q], t[q], i)
\* An inode without links that is not read in is one that a call is making.
Loaded(p, i) ==
    dinode[i].type # "free" /\ dinode'[i].nlink = 0 /\ icache'[i].ref > 0 =>
        \/ icache'[i].valid
        \/ t'[p].pc = "fresh" /\ t'[p].ip = i
        \/ \E q \in Process \ {p} : t[q].pc = "fresh" /\ t[q].ip = i
        \/ /\ icache[i].ref > 0 /\ (icache[i].valid => icache'[i].valid)
           /\ SameCopy(dinode'[i], dinode[i]) /\ ~(t[p].pc = "fresh" /\ t[p].ip = i)
\* What p has to itself.
Owned(p, i) ==
    Sole(t'[p], i) =>
        \/ /\ Sole(t[p], i) /\ (t'[p].pc \in FreshPc => t[p].pc \in FreshPc)
           /\ ~Else(cwd'[p], file'[p], t'[p], i)
        \/ /\ i # Root /\ ~Else(cwd'[p], file'[p], t'[p], i)
           /\ \A q \in Process \ {p} : ~Uses(cwd[q], file[q], t[q], i)
           /\ \A l \in Links : l[3] # i /\ (t'[p].pc \in FreshPc => l[1] # i)
\* The count of an inode changes by what p has counted for its link to come or go.
Counting(p, i) ==
    dinode[i].type # "free" =>
        dinode'[i].nlink = dinode[i].nlink
                            + One(PendIp(t'[p], i)) - One(PendIp(t[p], i))
                            + One(PendDp(t'[p], i)) - One(PendDp(t[p], i))

\* The links stay, and so do the types of inodes.
SameTree == Links' = Links /\ \A i \in Inum : dinode'[i].type = dinode[i].type

\* A step that leaves the disk alone keeps the invariant, given its parts for p ...
LEMMA Level ==
  ASSUME DInv, IInv', LockInv', CopyInv', NEW p \in Process, Others(p),
         programs' = programs, bitmap' = bitmap, dirent' = dirent,
         NEW J \in SUBSET Inum,
         \A j \in J : Uses(cwd[p], file[p], t[p], j) /\ icache[j].busy \in {p, NoProcess},
         \A i \in Inum \ J : SameCopy(dinode'[i], dinode[i]) /\ Kept(i),
         \A i \in Inum : dinode'[i].type = dinode[i].type /\ Addr(i)' = Addr(i),
         \A i \in Inum : Uses(cwd'[p], file'[p], t'[p], i) =>
                            Uses(cwd[p], file[p], t[p], i) \/ Given(i),
         \A i \in Inum : Released(p, i),
         \A i \in Inum : Loaded(p, i),
         \A i \in Inum : Owned(p, i),
         \A i \in Inum : Unbuilt(t[p], i) => Unbuilt(t'[p], i) \/ Addr(i) # None
                                               \/ dinode[i].type # "dir",
         \A i \in Inum : Building(t[p], i) => Building(t'[p], i),
         t'[p].pc # "downlink",
         \A i \in Inum : Counting(p, i),
         CallSound(p)',
         t[p].pc \in {"iget", "fresh"} =>
            t[p].ip \in J \/ (t'[p].pc \in {"iget", "fresh"} /\ t'[p].ip = t[p].ip)
  PROVE  DInv' /\ SameTree
<1>1. /\ IInv /\ LockInv /\ CopyInv /\ PointInv /\ SoleInv /\ CallInv /\ FreeInv
      /\ BlockInv /\ DirInv /\ TreeInv /\ StayInv /\ CountInv
  BY DEF DInv
<1>2. Links' = Links
  BY LinksSame
<1>3. \A l \in Links : l[1] \in Inum /\ l[3] \in Inum
  BY <1>1, LinksAre
<1>4. PointInv'
  <2>1. \A i \in Inum : Uses(cwd'[p], file'[p], t'[p], i) =>
            Uses(cwd[p], file[p], t[p], i) \/ dinode'[i].type # "free"
    BY DEF Given
  <2> QED
    BY <2>1, PointsKept
<1>5. SoleInv'
  <2>1. \A i \in Inum : Uses(cwd'[p], file'[p], t'[p], i) =>
            Uses(cwd[p], file[p], t[p], i) \/ \A q \in Process \ {p} : ~Sole(t[q], i)
    BY DEF Given
  <2>2. ASSUME NEW i \in Inum, Sole(t'[p], i)
        PROVE  /\ i # Root /\ ~Else(cwd'[p], file'[p], t'[p], i)
               /\ \A q \in Process \ {p} : ~Uses(cwd[q], file[q], t[q], i)
               /\ \A l \in Links' : l[3] # i /\ (t'[p].pc \in FreshPc => l[1] # i)
    <3>1. Owned(p, i)
      OBVIOUS
    <3>2. Sole(t[p], i) =>
              /\ i # Root
              /\ \A q \in Process \ {p} : ~Uses(cwd[q], file[q], t[q], i)
              /\ \A l \in Links : l[3] # i /\ (t[p].pc \in FreshPc => l[1] # i)
      BY <1>1 DEF SoleInv
    <3> QED
      BY <1>2, <2>2, <3>1, <3>2 DEF Owned
  <2> QED
    BY <1>2, <2>1, <2>2, SolesKept
<1>6. CallInv'
  <2>1. \A q \in Process \ {p} : CallSound(q)'
    BY OthersKept
  <2> QED
    BY <2>1 DEF CallInv
<1>7. FreeInv'
  <2>1. ASSUME NEW i \in Inum, dinode'[i].type = "free"
        PROVE  dinode'[i].nlink = 0 /\ dinode'[i].addr = None
    <3>1. i \notin J
      BY <1>1, <2>1 DEF PointInv
    <3> QED
      BY <1>1, <2>1, <3>1 DEF FreeInv, SameCopy
  <2>2. ASSUME NEW i \in Inum, dinode'[i].type # "free", dinode'[i].nlink = 0
        PROVE  \E q \in Process : Uses(cwd'[q], file'[q], t'[q], i)
    <3>1. PICK q \in Process : Uses(cwd[q], file[q], t[q], i)
      BY <1>1, <2>2 DEF FreeInv, SameCopy
    <3>2. CASE q # p
      BY <3>1, <3>2 DEF Others
    <3>3. CASE q = p
      <4>1. \/ Uses(cwd'[p], file'[p], t'[p], i)
            \/ \E x \in Process \ {p} : Uses(cwd[x], file[x], t[x], i)
        BY <2>2, <3>1, <3>3 DEF Released
      <4> QED
        BY <4>1 DEF Others
    <3> QED
      BY <3>2, <3>3
  <2>3. ASSUME NEW i \in Inum, dinode'[i].type # "free", dinode'[i].nlink = 0,
               icache'[i].ref > 0, ~icache'[i].valid
        PROVE  \E q \in Process : t'[q].pc = "fresh" /\ t'[q].ip = i
    <3>1. CASE t'[p].pc = "fresh" /\ t'[p].ip = i
      BY <3>1
    <3>2. CASE /\ icache[i].ref > 0 /\ ~icache[i].valid
               /\ SameCopy(dinode'[i], dinode[i]) /\ ~(t[p].pc = "fresh" /\ t[p].ip = i)
      <4>1. PICK q \in Process : t[q].pc = "fresh" /\ t[q].ip = i
        BY <1>1, <2>3, <3>2 DEF FreeInv, SameCopy
      <4>2. t'[q] = t[q]
        BY <3>2, <4>1 DEF Others
      <4> QED
        BY <4>1, <4>2
    <3>3. CASE \E q \in Process \ {p} : t[q].pc = "fresh" /\ t[q].ip = i
      BY <3>3 DEF Others
    <3> QED
      BY <2>3, <3>1, <3>2, <3>3 DEF Loaded
  <2> QED
    BY <2>1, <2>2, <2>3 DEF FreeInv
<1>8. BlockInv'
  BY <1>1 DEF BlockInv
<1>9. DirInv'
  <2>1. ASSUME NEW i \in Inum, dinode'[i].type = "dir", Addr(i)' = None
        PROVE  \E q \in Process : Unbuilt(t'[q], i)
    <3>1. PICK q \in Process : Unbuilt(t[q], i)
      BY <1>1, <2>1 DEF DirInv
    <3>2. dinode[i].type = "dir" /\ Addr(i) = None
      BY <2>1
    <3>3. CASE q # p
      BY <3>1, <3>3 DEF Others
    <3>4. CASE q = p
      BY <3>1, <3>2, <3>4
    <3> QED
      BY <3>3, <3>4
  <2>2. Root \in Inum
    BY FsAssumption DEF Root, Inum
  <2>3. /\ dinode'[Root].type = "dir" /\ Addr(Root)' # None
        /\ dirent'[Addr(Root)'][".."] = Root
    BY <1>1, <2>2 DEF DirInv
  <2> QED
    BY <2>1, <2>3 DEF DirInv
<1>10. TreeInv'
  <2>1. ASSUME NEW l \in Links
        PROVE  /\ dinode'[l[3]].type # "free" /\ l[3] # Root
               /\ dinode'[l[3]].type = "dir" =>
                     Addr(l[3])' # None /\ dirent'[Addr(l[3])'][".."] = l[1]
    <3>1. l[3] \in Inum
      BY <1>3
    <3>2. Addr(l[3])' = Addr(l[3]) /\ dinode'[l[3]].type = dinode[l[3]].type
      <4> DEFINE i == l[3]
      <4>1. Addr(i)' = Addr(i)
        BY <3>1
      <4> QED
        BY <3>1, <4>1
    <3> QED
      BY <1>1, <3>2 DEF TreeInv
  <2> QED
    BY <1>1, <1>2, <2>1 DEF TreeInv
<1>11. StayInv'
  <2> SUFFICES ASSUME NEW D \in SUBSET Name, DirsStay(programs, D)
               PROVE  /\ \A l \in Links : dinode'[l[3]].type = "dir" => l[2] \in D
                      /\ \A i \in Inum : dinode'[i].type = "dir" =>
                           \/ i = Root \/ \E l \in Links : l[3] = i
                           \/ \E q \in Process : Building(t'[q], i)
                      /\ \A q \in Process : t'[q].pc # "downlink"
    BY <1>2 DEF StayInv, DirsStay
  <2>1. /\ \A l \in Links : dinode[l[3]].type = "dir" => l[2] \in D
        /\ \A i \in Inum : dinode[i].type = "dir" =>
             i = Root \/ (\E l \in Links : l[3] = i) \/ \E q \in Process : Building(t[q], i)
        /\ \A q \in Process : t[q].pc # "downlink"
    BY <1>1 DEF StayInv
  <2>2. ASSUME NEW i \in Inum, NEW q \in Process, Building(t[q], i)
        PROVE  Building(t'[q], i)
    BY <2>2 DEF Others
  <2>3. \A q \in Process : t'[q].pc # "downlink"
    BY <2>1 DEF Others
  <2> QED
    BY <1>3, <2>1, <2>2, <2>3
<1>12. CountInv'
  <2> SUFFICES ASSUME NEW i \in Inum, dinode'[i].type # "free"
               PROVE  dinode'[i].nlink >= Due(i)' /\ (Stay' => dinode'[i].nlink = Due(i)')
    BY DEF CountInv
  <2>1. dinode[i].nlink >= Due(i) /\ (Stay => dinode[i].nlink = Due(i))
    BY <1>1 DEF CountInv
  <2>2. Stay' = Stay
    BY DEF Stay, DirsStay
  <2>3. Counting(p, i)
    OBVIOUS
  <2>4. /\ Cardinality(ForIp(i))' = Cardinality(ForIp(i)) + One(PendIp(t'[p], i)) - One(PendIp(t[p], i))
        /\ Cardinality(ForDp(i))' = Cardinality(ForDp(i)) + One(PendDp(t'[p], i)) - One(PendDp(t[p], i))
    BY CallsDue
  <2>5. To(i)' = To(i) /\ Under(i)' = Under(i)
    BY <1>2, <1>3, UnderSame DEF To
  <2>6. /\ Cardinality(To(i)) \in Nat /\ Cardinality(Under(i)) \in Nat
        /\ Cardinality(ForIp(i)) \in Nat /\ Cardinality(ForDp(i)) \in Nat
    BY <1>1, DueTyped DEF TreeInv
  <2>7. dinode[i].nlink \in Int
    BY <1>1 DEF IInv, TypeOK
  <2>8. Due(i)' = Due(i) + One(PendIp(t'[p], i)) - One(PendIp(t[p], i))
                         + One(PendDp(t'[p], i)) - One(PendDp(t[p], i))
    BY <2>4, <2>5, <2>6 DEF Due, One
  <2>9. Due(i) \in Nat
    BY <2>6 DEF Due, One
  <2>10. dinode[i].type # "free"
    OBVIOUS
  <2> QED
    BY <2>1, <2>2, <2>3, <2>7, <2>8, <2>9, <2>10 DEF Counting, One
<1>13. SameTree
  BY <1>2 DEF SameTree
<1> QED
  BY <1>4, <1>5, <1>6, <1>7, <1>8, <1>9, <1>10, <1>11, <1>12, <1>13 DEF DInv

-----------------------------------------------------------------------------
(* Steps that leave the disk as it is *)

\* p locks i, lets it go, or leaves it.
Held(p, i) ==
    /\ \/ /\ icache'[i].busy = icache[i].busy
          /\ Keeps(file'[p], t'[p], i) <=> Keeps(file[p], t[p], i)
       \/ icache[i].busy = NoProcess /\ icache'[i].busy = p /\ Keeps(file'[p], t'[p], i)
       \/ icache[i].busy = p /\ icache'[i].busy = NoProcess /\ ~Keeps(file'[p], t'[p], i)
    /\ icache'[i].busy # NoProcess => icache'[i].valid
\* What it leaves in memory is a copy of the disk.
Cached(p, i) ==
    /\ Kept(i)
    /\ Mem(i) /\ ~(icache'[i].ref > 0 /\ icache'[i].valid) => icache[i].addr = dinode[i].addr
    /\ icache'[i].valid => /\ Freed(t[p], i) => Freed(t'[p], i)
                           /\ Ahead(file[p], t[p], i) => Ahead(file'[p], t'[p], i)

\* ... and one that also leaves the copies alone needs p's parts only ...
LEMMA Quiet ==
  ASSUME DInv, NEW p \in Process, IInv', Others(p),
         UNCHANGED <<dinode, bitmap, dirent, programs>>,
         \A i \in Inum : Held(p, i),
         t'[p].pc \in {"uplink", "balloc", "dots", "name", "downlink"} => t'[p].ip # t'[p].dp,
         \A i \in Inum : Cached(p, i),
         \A i \in Inum : Uses(cwd'[p], file'[p], t'[p], i) =>
                            Uses(cwd[p], file[p], t[p], i) \/ Given(i),
         \A i \in Inum : Released(p, i),
         \A i \in Inum : Loaded(p, i),
         \A i \in Inum : Owned(p, i),
         \A i \in Inum : Unbuilt(t[p], i) => Unbuilt(t'[p], i) \/ Addr(i) # None
                                               \/ dinode[i].type # "dir",
         \A i \in Inum : Building(t[p], i) => Building(t'[p], i),
         t'[p].pc # "downlink",
         \A i \in Inum : /\ PendIp(t'[p], i) <=> PendIp(t[p], i)
                         /\ PendDp(t'[p], i) <=> PendDp(t[p], i),
         CallSound(p)',
         t[p].pc \in {"iget", "fresh"} => t'[p].pc \in {"iget", "fresh"} /\ t'[p].ip = t[p].ip
  PROVE  DInv' /\ SameTree
<1>1. IInv /\ LockInv /\ CopyInv
  BY DEF DInv
<1>2. LockInv'
  BY <1>1, LocksKept DEF Held
<1>3. \A i \in Inum : SameCopy(dinode'[i], dinode[i])
  BY DEF SameCopy
<1>4. CopyInv'
  <2> SUFFICES ASSUME NEW i \in Inum PROVE CopyAt(i)'
    BY DEF CopyInv
  <2>1. Cached(p, i) /\ CopyAt(i)
    BY <1>1 DEF CopyInv
  <2>2. CASE ~icache'[i].valid
    BY <2>2 DEF CopyAt, Mem
  <2>3. CASE icache'[i].valid
    BY <1>3, <2>1, <2>3, CopySame DEF Cached
  <2> QED
    BY <2>2, <2>3
<1>5. \A i \in Inum : Addr(i)' = Addr(i)
  BY <1>3, AddrSame DEF Cached
<1>6. \A i \in Inum : Counting(p, i)
  <2>1. \A i \in Inum : dinode[i].nlink \in Int
    BY <1>1 DEF IInv, TypeOK
  <2> QED
    BY <2>1 DEF Counting, One
<1>7. \A i \in Inum : dinode'[i].type = dinode[i].type
  OBVIOUS
<1> DEFINE J == {i \in Inum : FALSE}
<1>8. /\ J \in SUBSET Inum
      /\ \A j \in J : Uses(cwd[p], file[p], t[p], j) /\ icache[j].busy \in {p, NoProcess}
      /\ \A i \in Inum \ J : SameCopy(dinode'[i], dinode[i]) /\ Kept(i)
  BY <1>3 DEF Cached
<1> HIDE DEF J
<1> QED
  BY <1>2, <1>4, <1>5, <1>6, <1>7, <1>8, Level

-----------------------------------------------------------------------------
(* Calls that have nothing locked and make nothing *)

CalmPc == {"idle", "ret", "iput", "write", "bad"} \cup AtPc
Calm(r) == r.pc \in CalmPc /\ Label(r) \notin OwnPc

\* A call at a calm label has no sole inode and no links on the way ...
LEMMA CalmIs ==
  ASSUME NEW r, Calm(r), NEW i
  PROVE  /\ \A f : ~Keeps(f, r, i) /\ ~Ahead(f, r, i)
         /\ ~Freed(r, i) /\ ~Sole(r, i) /\ ~Unbuilt(r, i) /\ ~Building(r, i)
         /\ ~PendDp(r, i) /\ ~Made(r)
         /\ r.pc \notin FreshPc \cup DpPc \cup EndPc \cup OwnPc \cup {"grow"}
         /\ \A c, f : Uses(c, f, r, i) <=> \/ c = i \/ f = i \/ r.at = i \/ r.dp = i \/ r.ip = i
                                           \/ First(r) = i \/ Second(r) = i
<1>1. r.pc \notin FreshPc \cup DpPc \cup EndPc \cup OwnPc \cup {"grow"}
  BY DEF Calm, CalmPc, AtPc, FreshPc, DpPc, EndPc, OwnPc
<1>2. Label(r) \notin OwnPc
  BY DEF Calm
<1>3. r.pc \notin {"iget", "fresh", "uplink", "balloc", "dots", "name", "downlink",
                   "itrunc", "ifree", "iputend", "grow"}
  BY <1>1 DEF FreshPc, DpPc, EndPc, OwnPc
<1> QED
  BY <1>1, <1>2, <1>3
     DEF Keeps, Ahead, Freed, Sole, Unbuilt, Building, PendDp, Made, Uses, Else

\* ... and uses what it points to.
LEMMA CalmUses ==
  ASSUME NEW r, Calm(r), NEW i, NEW c, NEW f
  PROVE  Uses(c, f, r, i) <=> \/ c = i \/ f = i \/ r.at = i \/ r.dp = i \/ r.ip = i
                              \/ First(r) = i \/ Second(r) = i
BY CalmIs

\* Where a path leads.
Path(r) == Label(r) \in LookPc =>
    /\ NoDots(programs) => \A n \in 1..Len(r.path) : r.path[n] # ".."
    /\ r.job.op \in {"mkdir", "unlink"} /\ r.path # <<>> =>
          r.job.path # <<>> /\ End(r.path) = End(r.job.path)
    /\ Label(r) # "walk" => Len(r.path) = 1
    /\ Label(r) = "create" => r.job.op \in {"create", "mkdir"}
    /\ Label(r) = "unlink" => r.job.op = "unlink"
\* What an unlocked call knows of the inodes it has.
Known(c, r) ==
    /\ dinode[c].type = "dir"
    /\ r.pc \in {"create", "unlink", "enter"} => dinode[r.at].type = "dir"
    /\ Label(r) \in {"walk", "enter", "bad"} /\ r.ip # None => dinode[r.ip].type = "file"

\* ... and one from a calm label to another needs less still.
LEMMA Calmly ==
  ASSUME DInv, NEW p \in Process, IInv', Others(p),
         UNCHANGED <<dinode, bitmap, dirent, programs>>,
         Calm(t[p]), Calm(t'[p]), t'[p].dp = None,
         \A i \in Inum : icache'[i].busy = icache[i].busy /\ Kept(i),
         \A i \in Inum : Mem(i) => /\ icache'[i].valid
                                   /\ icache'[i].ref > 0 \/ icache[i].addr = dinode[i].addr,
         \A i \in Inum : icache'[i].ref > 0 => icache[i].ref > 0 \/ Given(i),
         \A i \in Inum : Uses(cwd'[p], file'[p], t'[p], i) =>
                            Uses(cwd[p], file[p], t[p], i) \/ Given(i),
         \A i \in Inum : Released(p, i),
         \A i \in Inum : PendIp(t'[p], i) <=> PendIp(t[p], i),
         Path(t'[p]), Known(cwd'[p], t'[p])
  PROVE  DInv' /\ SameTree
<1>1. IInv /\ LockInv /\ CopyInv
  BY DEF DInv
<1>2. ASSUME NEW i \in Inum PROVE Held(p, i)
  <2>1. ASSUME icache[i].busy # NoProcess PROVE icache'[i].valid
    <3>1. icache[i].busy \in Process
      BY <1>1, <2>1 DEF IInv, CacheTyped, SlotTyped
    <3>2. Keeps(file[icache[i].busy], t[icache[i].busy], i)
      BY <1>1, <3>1 DEF LockInv
    <3>3. Mem(i)
      BY <1>1, <3>1, <3>2, OneKeeper
    <3> QED
      BY <3>3
  <2> QED
    BY <2>1, CalmIs DEF Held
<1>3. t'[p].pc \notin {"uplink", "balloc", "dots", "name", "downlink"}
  BY CalmIs DEF OwnPc
<1>4. ASSUME NEW i \in Inum PROVE Cached(p, i)
  BY CalmIs DEF Cached
<1>5. ASSUME NEW i \in Inum PROVE Loaded(p, i)
  <2>1. t[p].pc # "fresh"
    BY CalmIs DEF FreshPc
  <2>2. icache[i].ref > 0 /\ icache[i].valid => icache'[i].valid
    BY DEF Mem
  <2> QED
    BY <2>1, <2>2 DEF Loaded, Given, SameCopy
<1>6. ASSUME NEW i \in Inum PROVE Owned(p, i)
  BY CalmIs DEF Owned
<1>7. ASSUME NEW i \in Inum
      PROVE  /\ ~Unbuilt(t[p], i) /\ ~Building(t[p], i)
             /\ ~PendDp(t[p], i) /\ ~PendDp(t'[p], i)
  BY CalmIs
<1>8. t[p].pc \notin {"iget", "fresh"}
  BY CalmIs DEF FreshPc
<1>9. CallSound(p)'
  <2>1. t'[p].pc \notin FreshPc \cup DpPc \cup EndPc \cup OwnPc \cup {"grow"} /\ ~Made(t'[p])
    BY CalmIs
  <2>2. t'[p].pc \notin FreshPc \cup EndPc \cup {"downlink", "grow", "ialloc", "victim"}
    BY <2>1 DEF DpPc
  <2>3. Typing(p)'
    BY <2>2 DEF Typing, Known
  <2>4. Ending(p)'
    BY <2>2 DEF Ending, EndPc
  <2>5. Making(p)'
    BY <2>1, <2>2 DEF Making, FreshPc
  <2>6. Going(p)'
    BY <2>2 DEF Going, Path, NoDots
  <2> QED
    BY <2>3, <2>4, <2>5, <2>6 DEF CallSound
<1> QED
  BY <1>2, <1>3, <1>4, <1>5, <1>6, <1>7, <1>8, <1>9, Quiet

-----------------------------------------------------------------------------
(* The cache after ilock() and iunlock(), and after iget() *)

\* Reading an entry keeps the others.
LEMMA ReadKept ==
  ASSUME IInv, NEW i \in Inum, icache' = Read(icache, i), NEW j \in Inum
  PROVE  /\ icache'[j].busy = icache[j].busy /\ Kept(j) /\ icache'[j].ref = icache[j].ref
         /\ Mem(j) => icache'[j].valid /\ icache'[j].ref > 0
<1>1. CacheTyped(icache)
  BY DEF IInv
<1> QED
  BY <1>1, ReadIs DEF Kept, Mem, SameCopy

\* Getting an entry keeps the copies of the others.
LEMMA GetKept ==
  ASSUME IInv, NEW i \in Inum, NEW n \in Inum, icache' = iget(Read(icache, i), n), NEW j \in Inum
  PROVE  /\ icache'[j].busy = icache[j].busy /\ Kept(j)
         /\ icache'[j].ref = icache[j].ref + One(n = j)
         /\ Mem(j) => icache'[j].valid /\ icache'[j].ref > 0
<1> DEFINE c == Read(icache, i)
<1>1. CacheTyped(icache) /\ CacheTyped(c)
  BY CacheRead DEF IInv
<1>2. c[n].ref = icache[n].ref /\ icache[n].ref \in Nat /\ icache[j].ref \in Nat
  BY <1>1, ReadIs DEF IInv, TypeOK
<1>3. /\ c[j].ref = icache[j].ref /\ c[j].busy = icache[j].busy
      /\ icache[j].valid => c[j].valid
      /\ i # j => c[j].valid = icache[j].valid
      /\ icache[j].valid \/ i # j => SameCopy(c[j], icache[j])
      /\ i = j /\ ~icache[j].valid => SameCopy(c[j], dinode[j])
  BY <1>1, ReadIs
<1> HIDE DEF c
<1> DEFINE d == iget(c, n)
<1>4. /\ d[j].ref = c[j].ref + One(n = j) /\ d[j].busy = c[j].busy /\ SameCopy(d[j], c[j])
      /\ n # j \/ c[j].ref > 0 => d[j].valid = c[j].valid
      /\ n = j /\ ~(c[j].ref > 0) => ~d[j].valid
  BY <1>1, <1>2, GetIs
<1>5. icache' = d
  BY DEF c
<1> HIDE DEF d
<1> QED
  BY <1>2, <1>3, <1>4, <1>5 DEF Kept, Mem, SameCopy, One

\* Taking the first references keeps the copies.
LEMMA StartKept ==
  ASSUME DInv, NEW p \in Process, NEW job, icache' = started(icache, p, job), NEW j \in Inum
  PROVE  /\ Start(p, job) \in Inum /\ (Start(p, job) = Root \/ Start(p, job) = cwd[p])
         /\ icache'[j].busy = icache[j].busy /\ Kept(j)
         /\ icache'[j].ref = icache[j].ref + One(Start(p, job) = j)
         /\ Mem(j) => icache'[j].valid /\ icache'[j].ref > 0
<1>1. /\ TypeOK /\ CacheTyped(icache)
      /\ \A i \in Inum : icache[i].ref >= 0 /\ icache[i].ref \in Int
      /\ cwd[p] \in Inum
  BY Now DEF DInv, IInv, TypeOK
<1>2. icache[cwd[p]].ref > 0
  <2>1. Uses(cwd[p], file[p], t[p], cwd[p]) /\ ~Sole(t[p], cwd[p])
    BY <1>1 DEF Uses, Else, DInv, SoleInv
  <2> QED
    BY <1>1, <2>1, InUse DEF DInv, Sole, FreshPc
<1>3. LET d == icache'
          i == Start(p, job) IN
         /\ i \in Inum /\ (i = Root \/ i = cwd[p])
         /\ d[j].ref = icache[j].ref + One(i = j) /\ d[j].busy = icache[j].busy
         /\ SameCopy(d[j], icache[j])
         /\ i # j \/ icache[j].ref > 0 => d[j].valid = icache[j].valid
         /\ i = j /\ ~(icache[j].ref > 0) => ~d[j].valid
  BY <1>1, <1>2, StartedIs
<1> QED
  BY <1>1, <1>3 DEF Kept, Mem, SameCopy, One

-----------------------------------------------------------------------------
(* What p is at before a step *)

\* What the invariant says of p before its step.
LEMMA Before ==
  ASSUME DInv, NEW p \in Process
  PROVE  /\ IInv /\ Sound(t[p], file[p]) /\ cwd[p] \in Inum /\ CallSound(p)
         /\ t[p].pc \in AtPc => /\ t[p].at \in Inum /\ t[p].dp = None
                                                   /\ (t[p].ip # None <=> t[p].ip \in Inum)
                                /\ t[p].pc \notin {"walk", "enter"} => t[p].ip = None
                                /\ Calm(t[p]) /\ Label(t[p]) = t[p].pc
                                /\ First(t[p]) = None /\ Second(t[p]) = None
                                /\ icache[t[p].at].ref > 0
                                /\ Uses(cwd[p], file[p], t[p], t[p].at) /\ ~Sole(t[p], t[p].at)
<1>1. IInv /\ Sound(t[p], file[p]) /\ cwd[p] \in Inum /\ CallSound(p)
  BY DEF DInv, IInv, TypeOK, CallInv
<1>2. ASSUME t[p].pc \in AtPc
      PROVE  /\ t[p].at \in Inum /\ t[p].dp = None
             /\ (t[p].ip # None <=> t[p].ip \in Inum)
             /\ t[p].pc \notin {"walk", "enter"} => t[p].ip = None
             /\ Calm(t[p]) /\ Label(t[p]) = t[p].pc
             /\ First(t[p]) = None /\ Second(t[p]) = None
             /\ t[p].pc # "iget"
  <2>1. t[p].pc \notin PutPc \cup DpPc \cup OwnPc \cup {"iget"} /\ Label(t[p]) = t[p].pc
        /\ t[p].pc \notin IpPc \ {"enter"}
    BY <1>2 DEF AtPc, PutPc, DpPc, OwnPc, IpPc, Label
  <2>2. Calm(t[p])
    BY <1>2, <2>1 DEF Calm, CalmPc
  <2>3. /\ t[p].at \in Inum /\ t[p].dp = None
        /\ (t[p].ip # None <=> t[p].ip \in Inum)
        /\ t[p].pc \notin {"walk", "enter"} => t[p].ip = None
    BY <1>1, <1>2, <2>1 DEF Sound, PointersSet, Inum, None
  <2>4. First(t[p]) = None /\ Second(t[p]) = None
    BY <1>1, <2>1, PointersTyped
  <2>5. t[p].pc # "iget"
    BY <2>1
  <2> QED
    BY <2>1, <2>2, <2>3, <2>4, <2>5
<1>3. ASSUME t[p].pc \in AtPc
      PROVE  /\ icache[t[p].at].ref > 0
             /\ Uses(cwd[p], file[p], t[p], t[p].at) /\ ~Sole(t[p], t[p].at)
  <2>1. Uses(cwd[p], file[p], t[p], t[p].at) /\ ~Sole(t[p], t[p].at)
    BY <1>2, <1>3, CalmIs
  <2> QED
    BY <1>1, <1>2, <1>3, <2>1, InUse
<1> QED
  BY <1>1, <1>2, <1>3

\* A call puts the inode it is at and has failed.
LEMMA LetGo ==
  ASSUME DInv, NEW p \in Process, IInv', NEW l \in {"ret", "bad"}, t[p].pc \in AtPc,
         l = "bad" <=> t[p].ip # None,
         icache' \in {icache, Read(icache, t[p].at)},
         Puts(p, <<t[p].at>>, l, [at |-> None]),
         UNCHANGED <<dinode, bitmap, dirent, cwd, file, calls, programs>>
  PROVE  DInv' /\ SameTree
<1> DEFINE r == t[p]
           s == t'[p]
<1>1. /\ IInv /\ r.at \in Inum /\ r.dp = None
      /\ (r.ip # None <=> r.ip \in Inum)
      /\ r.pc \notin {"walk", "enter"} => r.ip = None
      /\ Calm(r) /\ Label(r) = r.pc
      /\ First(r) = None /\ Second(r) = None /\ CallSound(p)
  BY Before
<1>2. ASSUME NEW j \in Inum
      PROVE  /\ icache'[j].busy = icache[j].busy /\ Kept(j) /\ icache'[j].ref = icache[j].ref
             /\ Mem(j) => icache'[j].valid /\ icache'[j].ref > 0
  <2>1. CASE icache' = icache
    BY <2>1 DEF Kept, Mem, SameCopy
  <2>2. CASE icache' = Read(icache, r.at)
    BY <1>1, <2>2, ReadKept
  <2> QED
    BY <2>1, <2>2
<1>3. r.pc \notin PutPc
  BY DEF AtPc, PutPc
<1>4. /\ \A q \in Process \ {p} : t'[q] = t[q]
      /\ s.pc = "iput" /\ Label(s) = l
      /\ First(s) = r.at /\ Second(s) = None
      /\ s.at = None /\ s.dp = r.dp /\ s.ip = r.ip /\ s.job = r.job
  BY <1>1, <1>3, GivesOne DEF ThenPc
<1>5. Calm(s)
  BY <1>4 DEF Calm, CalmPc, OwnPc
<1>6. ASSUME NEW i \in Inum
      PROVE  Uses(cwd'[p], file'[p], s, i) <=> Uses(cwd[p], file[p], r, i)
  <2>1. Uses(cwd[p], file[p], r, i) <=>
            \/ cwd[p] = i \/ file[p] = i \/ r.at = i \/ r.dp = i \/ r.ip = i
            \/ First(r) = i \/ Second(r) = i
    BY <1>1, CalmUses
  <2>2. Uses(cwd'[p], file'[p], s, i) <=>
            \/ cwd'[p] = i \/ file'[p] = i \/ s.at = i \/ s.dp = i \/ s.ip = i
            \/ First(s) = i \/ Second(s) = i
    BY <1>5, CalmUses
  <2>3. i # None
    BY DEF Inum, None
  <2> HIDE DEF r, s
  <2> QED
    BY <1>1, <1>4, <2>1, <2>2, <2>3
<1>7. \A i \in Inum : Released(p, i)
  BY <1>6 DEF Released
<1>8. \A i \in Inum : PendIp(s, i) <=> PendIp(r, i)
  BY <1>1, <1>4 DEF PendIp, DueIp
<1>9. Path(s)
  BY <1>4 DEF Path, LookPc, FreshPc
<1>10. Known(cwd'[p], s)
  BY <1>1, <1>4 DEF Known, CallSound, Typing
<1>11. Others(p)
  BY <1>4 DEF Others
<1> QED
  BY <1>1, <1>2, <1>4, <1>5, <1>6, <1>7, <1>8, <1>9, <1>10, <1>11, Calmly

-----------------------------------------------------------------------------
(* The walk, and what ends it *)

\* A path with its first entry gone is a path.
LEMMA TailIs ==
  ASSUME NEW S, NEW q \in Seq(S), q # <<>>
  PROVE  /\ Tail(q) \in Seq(S) /\ Head(q) = q[1] /\ Head(q) \in S /\ 1 \in 1..Len(q)
         /\ \A n \in 1..Len(Tail(q)) : Tail(q)[n] = q[n + 1] /\ n + 1 \in 1..Len(q)
         /\ Tail(q) # <<>> => End(Tail(q)) = End(q)
<1>1. Len(q) \in Nat /\ Len(q) >= 1 /\ Tail(q) \in Seq(S) /\ Len(Tail(q)) = Len(q) - 1
  OBVIOUS
<1>2. \A n \in 1..Len(Tail(q)) : Tail(q)[n] = q[n + 1] /\ n + 1 \in 1..Len(q)
  BY <1>1
<1>3. ASSUME Tail(q) # <<>> PROVE End(Tail(q)) = End(q)
  <2>1. Len(Tail(q)) >= 1
    BY <1>1, <1>3
  <2>2. Len(Tail(q)) \in 1..Len(Tail(q)) /\ Len(Tail(q)) + 1 = Len(q)
    BY <1>1, <2>1
  <2> QED
    BY <1>2, <2>2 DEF End
<1>4. Head(q) = q[1] /\ Head(q) \in S /\ 1 \in 1..Len(q)
  BY <1>1
<1> QED
  BY <1>1, <1>2, <1>3, <1>4

\* What a step at label l finds in the inode it locks.
LEMMA Looks ==
  ASSUME DInv, NEW p \in Process, NEW l, At(p, l), t[p].pc \in AtPc
  PROVE  /\ icache[t[p].at].busy = NoProcess
         /\ Locked(t[p].at).type = dinode[t[p].at].type
<1>1. IInv /\ LockInv /\ CopyInv /\ t[p].at \in Inum /\ icache[t[p].at].ref > 0
  BY Before DEF DInv
<1>2. Wanted(p) = t[p].at
  <2>1. t[p].pc \in Waits /\ t[p].pc \notin {"fresh", "victim", "bad", "write"}
    BY DEF AtPc, Waits
  <2> QED
    BY <2>1 DEF Wanted
<1>3. icache[t[p].at].busy = NoProcess
  BY <1>1, <1>2 DEF At, Inum, None
<1> QED
  BY <1>1, <1>3, Seen

\* namex() goes down one directory.
LEMMA WalkDInv ==
  ASSUME DInv, Orderly, NEW p \in Process, IInv', Walk(p)
  PROVE  DInv' /\ SameTree
<1> DEFINE r == t[p]
           s == t'[p]
           next == lookup(r.at, Head(r.path))
           rest == Tail(r.path)
<1>1. /\ r.pc = "walk" /\ r.path # <<>> /\ next # None /\ r.pc \in AtPc /\ At(p, "walk")
      /\ Locked(r.at).type = "dir"
      /\ icache' = iget(Read(icache, r.at), next)
      /\ Puts(p, <<r.at>>, "walk", [at |-> next, path |-> rest])
      /\ UNCHANGED <<dinode, bitmap, dirent, cwd, file, calls, programs>>
  BY DEF Walk, disk, Still, At, AtPc
<1>2. /\ IInv /\ r.at \in Inum /\ r.dp = None
      /\ (r.ip # None <=> r.ip \in Inum)
      /\ Calm(r) /\ Label(r) = r.pc
      /\ First(r) = None /\ Second(r) = None /\ CallSound(p)
      /\ Uses(cwd[p], file[p], r, r.at) /\ ~Sole(r, r.at)
      /\ r.path \in Seq(Entry)
  BY <1>1, Before DEF Sound, CallTyped
<1>3. icache[r.at].busy = NoProcess /\ dinode[r.at].type = "dir"
  BY <1>1, Looks
<1>4. Path(r)
  BY <1>2 DEF CallSound, Going, Path
<1>5. /\ rest \in Seq(Entry) /\ Head(r.path) = r.path[1] /\ Head(r.path) \in Entry
      /\ 1 \in 1..Len(r.path)
      /\ \A n \in 1..Len(rest) : rest[n] = r.path[n + 1] /\ n + 1 \in 1..Len(r.path)
      /\ rest # <<>> => End(rest) = End(r.path)
  BY <1>1, <1>2, TailIs
<1>6. Given(next)
  <2>1. Head(r.path) = ".." => ~NoDots(programs)
    BY <1>1, <1>2, <1>4, <1>5 DEF Path, LookPc
  <2> QED
    BY <1>1, <1>2, <1>3, <1>5, <2>1, Finds
<1>7. next \in Inum
  BY <1>6 DEF Given
<1> HIDE DEF next, rest
<1>8. ASSUME NEW j \in Inum
      PROVE  /\ icache'[j].busy = icache[j].busy /\ Kept(j)
             /\ icache'[j].ref = icache[j].ref + One(next = j)
             /\ Mem(j) => icache'[j].valid /\ icache'[j].ref > 0
  BY <1>1, <1>2, <1>7, GetKept
<1>9. /\ \A q \in Process \ {p} : t'[q] = t[q]
      /\ s.pc = "iput" /\ Label(s) = "walk"
      /\ First(s) = r.at /\ Second(s) = None
      /\ s.at = next /\ s.dp = r.dp /\ s.ip = r.ip /\ s.job = r.job /\ s.path = rest
  BY <1>1, <1>2, GivesOne DEF PutPc, ThenPc
<1>10. Calm(s)
  BY <1>9 DEF Calm, CalmPc, OwnPc
<1>11. ASSUME NEW i \in Inum
      PROVE  Uses(cwd'[p], file'[p], s, i) <=> Uses(cwd[p], file[p], r, i) \/ i = next
  <2>1. Uses(cwd[p], file[p], r, i) <=>
            \/ cwd[p] = i \/ file[p] = i \/ r.at = i \/ r.dp = i \/ r.ip = i
            \/ First(r) = i \/ Second(r) = i
    BY <1>2, CalmUses
  <2>2. Uses(cwd'[p], file'[p], s, i) <=>
            \/ cwd'[p] = i \/ file'[p] = i \/ s.at = i \/ s.dp = i \/ s.ip = i
            \/ First(s) = i \/ Second(s) = i
    BY <1>10, CalmUses
  <2>3. i # None
    BY DEF Inum, None
  <2> HIDE DEF r, s
  <2> QED
    BY <1>1, <1>2, <1>9, <2>1, <2>2, <2>3
<1>12. \A i \in Inum : Released(p, i)
  BY <1>11 DEF Released
<1>13. \A i \in Inum : PendIp(s, i) <=> PendIp(r, i)
  BY <1>1, <1>2, <1>9 DEF PendIp, DueIp
<1>14. Path(s)
  BY <1>1, <1>2, <1>4, <1>5, <1>9 DEF Path, LookPc
<1>15. Known(cwd'[p], s)
  BY <1>1, <1>2, <1>9 DEF Known, CallSound, Typing
<1>16. Others(p)
  BY <1>1, <1>9 DEF Others
<1>17. \A i \in Inum : icache'[i].ref > 0 => icache[i].ref > 0 \/ Given(i)
  <2>1. \A i \in Inum : icache[i].ref \in Nat
    BY <1>2 DEF IInv, TypeOK
  <2> QED
    BY <1>6, <1>8, <2>1 DEF One
<1> QED
  BY <1>1, <1>2, <1>6, <1>8, <1>9, <1>10, <1>11, <1>12, <1>13, <1>14, <1>15, <1>16, <1>17, Calmly

\* A call that gives up its inode and fails.
LEMMA FailsDInv ==
  ASSUME DInv, NEW p \in Process, IInv',
         \/ WalkFails(p) \/ OpenFails(p) \/ UnlinkMiss(p) \/ LinkDir(p) \/ LinkTaken(p)
         \/ WalkEnds(p) /\ Parent(p)
         \/ Chdir(p) /\ Locked(t[p].at).type # "dir"
         \/ Exists(p) /\ file' = file /\ Puts(p, <<t[p].at>>, "ret", [at |-> None])
  PROVE  DInv' /\ SameTree
<1> DEFINE r == t[p]
<1>1. /\ r.pc \in AtPc => (r.pc \notin {"walk", "enter"} => r.ip = None)
      /\ r.pc = "walk" /\ r.ip # None => r.job.op = "link"
      /\ r.pc = "enter" => r.ip # None
  <2>1. r.pc \in AtPc => (r.pc \notin {"walk", "enter"} => r.ip = None)
    BY Before
  <2>2. Sound(r, file[p])
    BY Before
  <2>3. Label(r) = r.pc \/ r.pc \in PutPc
    BY DEF Label
  <2> QED
    BY <2>1, <2>2, <2>3 DEF Sound, CallFits, PointersSet, PutPc, IpPc, Inum, None
<1>2. CASE WalkFails(p)
  BY <1>1, <1>2, LetGo DEF WalkFails, At, Failed, disk, Still, AtPc
<1>3. CASE OpenFails(p)
  BY <1>1, <1>3, LetGo DEF OpenFails, At, disk, Still, AtPc
<1>4. CASE UnlinkMiss(p)
  BY <1>1, <1>4, LetGo DEF UnlinkMiss, At, disk, Still, AtPc, Dir
<1>5. CASE LinkDir(p)
  BY <1>1, <1>5, LetGo DEF LinkDir, At, disk, Still, AtPc
<1>6. CASE LinkTaken(p)
  BY <1>1, <1>6, LetGo DEF LinkTaken, At, disk, Still, AtPc, Dir
<1>7. CASE WalkEnds(p) /\ Parent(p)
  BY <1>1, <1>7, LetGo DEF WalkEnds, At, Failed, disk, Still, AtPc
<1>8. CASE Chdir(p) /\ Locked(t[p].at).type # "dir"
  BY <1>1, <1>8, LetGo DEF Chdir, At, disk, Still, AtPc
<1>9. CASE Exists(p) /\ file' = file /\ Puts(p, <<t[p].at>>, "ret", [at |-> None])
  BY <1>1, <1>9, LetGo DEF Exists, At, disk, Still, AtPc
<1> QED
  BY <1>2, <1>3, <1>4, <1>5, <1>6, <1>7, <1>8, <1>9

\* nameiparent() stops one level early.
LEMMA WalkParentDInv ==
  ASSUME DInv, NEW p \in Process, IInv', WalkParent(p)
  PROVE  DInv' /\ SameTree
<1> DEFINE r == t[p]
           s == t'[p]
<1>1. /\ r.pc = "walk" /\ r.pc \in AtPc /\ At(p, "walk") /\ Len(r.path) = 1 /\ Parent(p)
      /\ Locked(r.at).type = "dir"
      /\ icache' = Read(icache, r.at) /\ Set(p, [pc |-> Stage(p)])
      /\ UNCHANGED <<dinode, bitmap, dirent, cwd, file, calls, programs>>
  BY DEF WalkParent, disk, Still, At, AtPc
<1>2. /\ IInv /\ r.at \in Inum /\ r.dp = None
      /\ (r.ip # None <=> r.ip \in Inum)
      /\ Calm(r) /\ Label(r) = r.pc
      /\ First(r) = None /\ Second(r) = None /\ CallSound(p)
  BY <1>1, Before
<1>3. icache[r.at].busy = NoProcess /\ dinode[r.at].type = "dir"
  BY <1>1, Looks
<1>4. Path(r)
  BY <1>2 DEF CallSound, Going, Path
<1>5. Stage(p) \in {"create", "unlink", "enter"} /\ (Stage(p) = "enter" <=> r.ip # None)
  <2>1. Sound(r, file[p])
    BY Before
  <2>2. r.ip # None => r.job.op = "link"
    BY <1>1, <1>2, <2>1 DEF Sound, CallFits
  <2> QED
    BY <1>1, <2>2 DEF Parent, Stage
<1>8. ASSUME NEW j \in Inum
      PROVE  /\ icache'[j].busy = icache[j].busy /\ Kept(j)
             /\ icache'[j].ref = icache[j].ref
             /\ Mem(j) => icache'[j].valid /\ icache'[j].ref > 0
  BY <1>1, <1>2, ReadKept
<1>9. /\ \A q \in Process \ {p} : t'[q] = t[q]
      /\ s.pc = Stage(p) /\ Label(s) = Stage(p)
      /\ First(s) = None /\ Second(s) = None
      /\ s.at = r.at /\ s.dp = r.dp /\ s.ip = r.ip /\ s.job = r.job /\ s.path = r.path
  BY <1>1, <1>2, <1>5, Goes DEF PutPc
<1>10. Calm(s)
  BY <1>5, <1>9 DEF Calm, CalmPc, OwnPc, AtPc
<1>11. ASSUME NEW i \in Inum
      PROVE  Uses(cwd'[p], file'[p], s, i) <=> Uses(cwd[p], file[p], r, i)
  <2>1. Uses(cwd[p], file[p], r, i) <=>
            \/ cwd[p] = i \/ file[p] = i \/ r.at = i \/ r.dp = i \/ r.ip = i
            \/ First(r) = i \/ Second(r) = i
    BY <1>2, CalmUses
  <2>2. Uses(cwd'[p], file'[p], s, i) <=>
            \/ cwd'[p] = i \/ file'[p] = i \/ s.at = i \/ s.dp = i \/ s.ip = i
            \/ First(s) = i \/ Second(s) = i
    BY <1>10, CalmUses
  <2> HIDE DEF r, s
  <2> QED
    BY <1>1, <1>2, <1>9, <2>1, <2>2
<1>12. \A i \in Inum : Released(p, i)
  BY <1>11 DEF Released
<1>13. \A i \in Inum : PendIp(s, i) <=> PendIp(r, i)
  BY <1>1, <1>2, <1>5, <1>9 DEF PendIp, DueIp, Inum, None
<1>14. Path(s)
  <2>1. /\ Stage(p) = "create" => r.job.op \in {"create", "mkdir"}
        /\ Stage(p) = "unlink" => r.job.op = "unlink"
    BY <1>1 DEF Stage, Parent
  <2> QED
    BY <1>1, <1>2, <1>4, <1>9, <2>1 DEF Path, LookPc
<1>15. Known(cwd'[p], s)
  BY <1>1, <1>2, <1>3, <1>5, <1>9 DEF Known, CallSound, Typing
<1>16. Others(p)
  BY <1>1, <1>9 DEF Others
<1> QED
  BY <1>1, <1>2, <1>8, <1>9, <1>10, <1>11, <1>12, <1>13, <1>14, <1>15, <1>16, Calmly

\* namei() comes to the end of its path.
LEMMA WalkEndsDInv ==
  ASSUME DInv, NEW p \in Process, IInv', WalkEnds(p)
  PROVE  DInv' /\ SameTree
<1> DEFINE r == t[p]
           s == t'[p]
<1>0. CASE Parent(p)
  BY <1>0, FailsDInv
<1>00. SUFFICES ASSUME ~Parent(p) PROVE DInv' /\ SameTree
  BY <1>0
<1>1. /\ r.pc = "walk" /\ r.pc \in AtPc
      /\ icache' = icache /\ Set(p, [pc |-> Stage(p)])
      /\ UNCHANGED <<dinode, bitmap, dirent, cwd, file, calls, programs>>
  BY <1>00 DEF WalkEnds, disk, Still, AtPc
<1>2. /\ IInv /\ r.at \in Inum /\ r.dp = None
      /\ (r.ip # None <=> r.ip \in Inum)
      /\ Calm(r) /\ Label(r) = r.pc
      /\ First(r) = None /\ Second(r) = None /\ CallSound(p)
  BY <1>1, Before
<1>5. Stage(p) \in {"open", "chdir", "link"} /\ r.ip = None
  <2>1. Sound(r, file[p]) /\ programs \in DOMAIN Jobs
    BY Before DEF IInv
  <2>2. r.ip # None => r.job.op = "link"
    BY <1>1, <1>2, <2>1 DEF Sound, CallFits
  <2>3. r.job.op \in {"open", "create", "mkdir", "unlink", "link", "chdir"}
    BY <1>1, <1>2, <2>1, FsAssumption DEF Sound, CallTyped, CallFits
  <2> QED
    BY <1>00, <1>1, <2>2, <2>3 DEF Parent, Stage
<1>8. ASSUME NEW j \in Inum
      PROVE  /\ icache'[j].busy = icache[j].busy /\ Kept(j)
             /\ icache'[j].ref = icache[j].ref
             /\ Mem(j) => icache'[j].valid /\ icache'[j].ref > 0
  BY <1>1, <1>2 DEF Kept, SameCopy, Mem
<1>9. /\ \A q \in Process \ {p} : t'[q] = t[q]
      /\ s.pc = Stage(p) /\ Label(s) = Stage(p)
      /\ First(s) = None /\ Second(s) = None
      /\ s.at = r.at /\ s.dp = r.dp /\ s.ip = r.ip /\ s.job = r.job /\ s.path = r.path
  BY <1>1, <1>2, <1>5, Goes DEF PutPc
<1>10. Calm(s)
  BY <1>5, <1>9 DEF Calm, CalmPc, OwnPc, AtPc
<1>11. ASSUME NEW i \in Inum
      PROVE  Uses(cwd'[p], file'[p], s, i) <=> Uses(cwd[p], file[p], r, i)
  <2>1. Uses(cwd[p], file[p], r, i) <=>
            \/ cwd[p] = i \/ file[p] = i \/ r.at = i \/ r.dp = i \/ r.ip = i
            \/ First(r) = i \/ Second(r) = i
    BY <1>2, CalmUses
  <2>2. Uses(cwd'[p], file'[p], s, i) <=>
            \/ cwd'[p] = i \/ file'[p] = i \/ s.at = i \/ s.dp = i \/ s.ip = i
            \/ First(s) = i \/ Second(s) = i
    BY <1>10, CalmUses
  <2> HIDE DEF r, s
  <2> QED
    BY <1>1, <1>2, <1>9, <2>1, <2>2
<1>12. \A i \in Inum : Released(p, i)
  BY <1>11 DEF Released
<1>13. \A i \in Inum : PendIp(s, i) <=> PendIp(r, i)
  BY <1>1, <1>2, <1>5, <1>9 DEF PendIp, DueIp, Inum, None
<1>14. Path(s)
  BY <1>5, <1>9 DEF Path, LookPc, FreshPc
<1>15. Known(cwd'[p], s)
  BY <1>1, <1>2, <1>5, <1>9 DEF Known, CallSound, Typing
<1>16. Others(p)
  BY <1>1, <1>9 DEF Others
<1> QED
  BY <1>1, <1>2, <1>8, <1>9, <1>10, <1>11, <1>12, <1>13, <1>14, <1>15, <1>16, Calmly

-----------------------------------------------------------------------------
(* Opening, changing the directory, finding a name *)

\* open keeps the inode it is at.
LEMMA OpensDInv ==
  ASSUME DInv, NEW p \in Process, IInv', t[p].pc \in {"open", "exists"}, file[p] = None,
         icache' = Read(icache, t[p].at), file' = [file EXCEPT ![p] = t[p].at],
         NEW b, Set(p, [at |-> None, pc |-> "ret", ok |-> b]),
         UNCHANGED <<dinode, bitmap, dirent, cwd, calls, programs>>
  PROVE  DInv' /\ SameTree
<1> DEFINE r == t[p]
           s == t'[p]
<1>1. r.pc \in AtPc
  BY DEF AtPc
<1>2. /\ IInv /\ r.at \in Inum /\ r.dp = None /\ r.ip = None
      /\ Calm(r) /\ Label(r) = r.pc
      /\ First(r) = None /\ Second(r) = None /\ CallSound(p)
  BY <1>1, Before
<1>8. ASSUME NEW j \in Inum
      PROVE  /\ icache'[j].busy = icache[j].busy /\ Kept(j)
             /\ icache'[j].ref = icache[j].ref
             /\ Mem(j) => icache'[j].valid /\ icache'[j].ref > 0
  BY <1>1, <1>2, ReadKept
<1>9. /\ \A q \in Process \ {p} : t'[q] = t[q]
      /\ s.pc = "ret" /\ Label(s) = "ret"
      /\ First(s) = None /\ Second(s) = None
      /\ s.at = None /\ s.dp = r.dp /\ s.ip = r.ip
  BY <1>1, <1>2, Goes DEF PutPc
<1>10. Calm(s)
  BY <1>9 DEF Calm, CalmPc, OwnPc, AtPc
<1>3. file'[p] = r.at /\ \A q \in Process \ {p} : file'[q] = file[q]
  BY <1>2 DEF IInv, TypeOK
<1>11. ASSUME NEW i \in Inum
      PROVE  Uses(cwd'[p], file'[p], s, i) <=> Uses(cwd[p], file[p], r, i)
  <2>1. Uses(cwd[p], file[p], r, i) <=>
            \/ cwd[p] = i \/ file[p] = i \/ r.at = i \/ r.dp = i \/ r.ip = i
            \/ First(r) = i \/ Second(r) = i
    BY <1>2, CalmUses
  <2>2. Uses(cwd'[p], file'[p], s, i) <=>
            \/ cwd'[p] = i \/ file'[p] = i \/ s.at = i \/ s.dp = i \/ s.ip = i
            \/ First(s) = i \/ Second(s) = i
    BY <1>10, CalmUses
  <2>3. i # None
    BY DEF Inum, None
  <2> HIDE DEF r, s
  <2> QED
    BY <1>2, <1>3, <1>9, <2>1, <2>2, <2>3
<1>12. \A i \in Inum : Released(p, i)
  BY <1>11 DEF Released
<1>13. \A i \in Inum : PendIp(s, i) <=> PendIp(r, i)
  BY <1>1, <1>2, <1>9 DEF PendIp, DueIp, Inum, None
<1>14. Path(s)
  BY <1>9 DEF Path, LookPc, FreshPc
<1>15. Known(cwd'[p], s)
  BY <1>1, <1>2, <1>9 DEF Known, CallSound, Typing
<1>16. Others(p)
  BY <1>1, <1>3, <1>9 DEF Others
<1> QED
  BY <1>1, <1>2, <1>8, <1>9, <1>10, <1>11, <1>12, <1>13, <1>14, <1>15, <1>16, Calmly

\* open takes a descriptor, or finds none.
LEMMA OpenDInv ==
  ASSUME DInv, NEW p \in Process, IInv', Open(p) \/ Exists(p)
  PROVE  DInv' /\ SameTree
<1>1. t[p].pc \in {"open", "exists"} /\ t[p].pc \in AtPc
  BY DEF Open, Exists, At, AtPc
<1>2. t[p].job.op \in {"open", "create"} => file[p] = None
  <2>1. Sound(t[p], file[p]) /\ Label(t[p]) = t[p].pc
    BY <1>1, Before
  <2> QED
    BY <1>1, <2>1 DEF Sound, CallFits
<1>3. CASE Open(p)
  <2>1. t[p].pc = "open"
    BY <1>3 DEF Open, At
  <2>2. t[p].job.op = "open"
    <3>1. Sound(t[p], file[p]) /\ Label(t[p]) = t[p].pc
      BY <1>1, Before
    <3> QED
      BY <2>1, <3>1 DEF Sound, CallFits
  <2> QED
    BY <1>1, <1>2, <1>3, <2>2, OpensDInv DEF Open, disk, Still
<1>4. CASE Exists(p)
  <2>1. CASE file' = file /\ Puts(p, <<t[p].at>>, "ret", [at |-> None])
    BY <1>4, <2>1, FailsDInv
  <2>2. CASE ~(file' = file /\ Puts(p, <<t[p].at>>, "ret", [at |-> None]))
    BY <1>1, <1>2, <1>4, <2>2, OpensDInv DEF Exists, disk, Still
  <2> QED
    BY <2>1, <2>2
<1> QED
  BY <1>3, <1>4

\* chdir changes the current directory.
LEMMA ChdirDInv ==
  ASSUME DInv, NEW p \in Process, IInv', Chdir(p)
  PROVE  DInv' /\ SameTree
<1> DEFINE r == t[p]
           s == t'[p]
<1>0. CASE Locked(r.at).type # "dir"
  BY <1>0, FailsDInv
<1>00. SUFFICES ASSUME Locked(r.at).type = "dir" PROVE DInv' /\ SameTree
  BY <1>0
<1>1. /\ r.pc = "chdir" /\ r.pc \in AtPc /\ At(p, "chdir")
      /\ icache' = Read(icache, r.at)
      /\ Puts(p, <<cwd[p]>>, "ret", [at |-> None, ok |-> TRUE])
      /\ cwd' = [cwd EXCEPT ![p] = r.at]
      /\ UNCHANGED <<dinode, bitmap, dirent, file, calls, programs>>
  BY <1>00 DEF Chdir, disk, Still, At, AtPc
<1>2. /\ IInv /\ r.at \in Inum /\ r.dp = None /\ r.ip = None
      /\ Calm(r) /\ Label(r) = r.pc /\ cwd[p] \in Inum
      /\ First(r) = None /\ Second(r) = None /\ CallSound(p)
  BY <1>1, Before
<1>3. cwd'[p] = r.at /\ \A q \in Process \ {p} : cwd'[q] = cwd[q]
  BY <1>1, <1>2 DEF IInv, TypeOK
<1>4. dinode[r.at].type = "dir"
  BY <1>00, <1>1, Looks
<1>8. ASSUME NEW j \in Inum
      PROVE  /\ icache'[j].busy = icache[j].busy /\ Kept(j)
             /\ icache'[j].ref = icache[j].ref
             /\ Mem(j) => icache'[j].valid /\ icache'[j].ref > 0
  BY <1>1, <1>2, ReadKept
<1>9. /\ \A q \in Process \ {p} : t'[q] = t[q]
      /\ s.pc = "iput" /\ Label(s) = "ret"
      /\ First(s) = cwd[p] /\ Second(s) = None
      /\ s.at = None /\ s.dp = r.dp /\ s.ip = r.ip
  BY <1>1, <1>2, GivesOne DEF PutPc, ThenPc
<1>10. Calm(s)
  BY <1>9 DEF Calm, CalmPc, OwnPc, AtPc
<1>11. ASSUME NEW i \in Inum
      PROVE  Uses(cwd'[p], file'[p], s, i) <=> Uses(cwd[p], file[p], r, i)
  <2>1. Uses(cwd[p], file[p], r, i) <=>
            \/ cwd[p] = i \/ file[p] = i \/ r.at = i \/ r.dp = i \/ r.ip = i
            \/ First(r) = i \/ Second(r) = i
    BY <1>2, CalmUses
  <2>2. Uses(cwd'[p], file'[p], s, i) <=>
            \/ cwd'[p] = i \/ file'[p] = i \/ s.at = i \/ s.dp = i \/ s.ip = i
            \/ First(s) = i \/ Second(s) = i
    BY <1>10, CalmUses
  <2>3. i # None
    BY DEF Inum, None
  <2> HIDE DEF r, s
  <2> QED
    BY <1>1, <1>2, <1>3, <1>9, <2>1, <2>2, <2>3
<1>12. \A i \in Inum : Released(p, i)
  BY <1>11 DEF Released
<1>13. \A i \in Inum : PendIp(s, i) <=> PendIp(r, i)
  BY <1>1, <1>2, <1>9 DEF PendIp, DueIp, Inum, None
<1>14. Path(s)
  BY <1>9 DEF Path, LookPc, FreshPc
<1>15. Known(cwd'[p], s)
  BY <1>2, <1>3, <1>4, <1>9 DEF Known
<1>16. Others(p)
  BY <1>1, <1>3, <1>9 DEF Others
<1> QED
  BY <1>1, <1>2, <1>8, <1>9, <1>10, <1>11, <1>12, <1>13, <1>14, <1>15, <1>16, Calmly

\* create() comes upon a name that is taken.
LEMMA CreateFoundDInv ==
  ASSUME DInv, Orderly, NEW p \in Process, IInv', CreateFound(p)
  PROVE  DInv' /\ SameTree
<1> DEFINE r == t[p]
           s == t'[p]
           next == lookup(r.at, Elem(p))
<1>1. /\ r.pc = "create" /\ next # None /\ r.pc \in AtPc /\ At(p, "create")
      /\ icache' = iget(Read(icache, r.at), next)
      /\ Puts(p, <<r.at>>, "exists", [at |-> next, done |-> r.job.op = "create"])
      /\ UNCHANGED <<dinode, bitmap, dirent, cwd, file, calls, programs>>
  BY DEF CreateFound, disk, Still, At, AtPc, Dir
<1>2. /\ IInv /\ r.at \in Inum /\ r.dp = None /\ r.ip = None
      /\ Calm(r) /\ Label(r) = r.pc
      /\ First(r) = None /\ Second(r) = None /\ CallSound(p)
      /\ Uses(cwd[p], file[p], r, r.at) /\ ~Sole(r, r.at)
      /\ r.path \in Seq(Entry)
  BY <1>1, Before DEF Sound, CallTyped
<1>3. icache[r.at].busy = NoProcess /\ dinode[r.at].type = "dir"
  BY <1>1, <1>2, Looks DEF CallSound, Typing
<1>4. Path(r)
  BY <1>2 DEF CallSound, Going, Path
<1>5. Elem(p) \in Entry /\ (Elem(p) = ".." => ~NoDots(programs))
  <2>1. Len(r.path) = 1
    BY <1>1, <1>2, <1>4 DEF Path, LookPc
  <2>2. 1 \in 1..Len(r.path)
    BY <2>1
  <2>3. r.path[1] \in Entry
    BY <1>2, <2>2
  <2> QED
    BY <1>1, <1>2, <1>4, <2>2, <2>3 DEF Path, LookPc, Elem
<1>6. Given(next)
  BY <1>1, <1>2, <1>3, <1>5, Finds
<1>7. next \in Inum
  BY <1>6 DEF Given
<1> HIDE DEF next
<1>8. ASSUME NEW j \in Inum
      PROVE  /\ icache'[j].busy = icache[j].busy /\ Kept(j)
             /\ icache'[j].ref = icache[j].ref + One(next = j)
             /\ Mem(j) => icache'[j].valid /\ icache'[j].ref > 0
  BY <1>1, <1>2, <1>7, GetKept
<1>9. /\ \A q \in Process \ {p} : t'[q] = t[q]
      /\ s.pc = "iput" /\ Label(s) = "exists"
      /\ First(s) = r.at /\ Second(s) = None
      /\ s.at = next /\ s.dp = r.dp /\ s.ip = r.ip
  BY <1>1, <1>2, GivesOne DEF PutPc, ThenPc
<1>10. Calm(s)
  BY <1>9 DEF Calm, CalmPc, OwnPc
<1>11. ASSUME NEW i \in Inum
      PROVE  Uses(cwd'[p], file'[p], s, i) <=> Uses(cwd[p], file[p], r, i) \/ i = next
  <2>1. Uses(cwd[p], file[p], r, i) <=>
            \/ cwd[p] = i \/ file[p] = i \/ r.at = i \/ r.dp = i \/ r.ip = i
            \/ First(r) = i \/ Second(r) = i
    BY <1>2, CalmUses
  <2>2. Uses(cwd'[p], file'[p], s, i) <=>
            \/ cwd'[p] = i \/ file'[p] = i \/ s.at = i \/ s.dp = i \/ s.ip = i
            \/ First(s) = i \/ Second(s) = i
    BY <1>10, CalmUses
  <2>3. i # None
    BY DEF Inum, None
  <2> HIDE DEF r, s
  <2> QED
    BY <1>1, <1>2, <1>9, <2>1, <2>2, <2>3
<1>12. \A i \in Inum : Released(p, i)
  BY <1>11 DEF Released
<1>13. \A i \in Inum : PendIp(s, i) <=> PendIp(r, i)
  BY <1>1, <1>2, <1>9 DEF PendIp, DueIp, Inum, None
<1>14. Path(s)
  BY <1>9 DEF Path, LookPc, FreshPc
<1>15. Known(cwd'[p], s)
  BY <1>1, <1>2, <1>9 DEF Known, CallSound, Typing
<1>16. Others(p)
  BY <1>1, <1>9 DEF Others
<1>17. \A i \in Inum : icache'[i].ref > 0 => icache[i].ref > 0 \/ Given(i)
  <2>1. \A i \in Inum : icache[i].ref \in Nat
    BY <1>2 DEF IInv, TypeOK
  <2> QED
    BY <1>6, <1>8, <2>1 DEF One
<1> QED
  BY <1>1, <1>2, <1>6, <1>8, <1>9, <1>10, <1>11, <1>12, <1>13, <1>14, <1>15, <1>16, <1>17, Calmly

-----------------------------------------------------------------------------
(* The start and the end of a call, and a write in place *)

\* Between calls, and where a call only has its file, a process points nowhere.
LEMMA Bare ==
  ASSUME DInv, NEW p \in Process, t[p].pc \in {"idle", "ret", "write"}
  PROVE  /\ IInv /\ cwd[p] \in Inum /\ CallSound(p)
         /\ t[p].at = None /\ t[p].dp = None /\ t[p].ip = None
         /\ Calm(t[p]) /\ Label(t[p]) = t[p].pc
         /\ First(t[p]) = None /\ Second(t[p]) = None
         /\ t[p].pc = "write" => file[p] \in Inum
<1>1. IInv /\ Sound(t[p], file[p]) /\ cwd[p] \in Inum /\ CallSound(p)
  BY Before
<1>2. t[p].pc \notin PutPc \cup AtPc \cup DpPc \cup IpPc \cup OwnPc /\ Label(t[p]) = t[p].pc
  BY DEF PutPc, AtPc, DpPc, IpPc, OwnPc, Label
<1>3. t[p].at = None /\ t[p].dp = None /\ t[p].ip = None
  BY <1>1, <1>2 DEF Sound, PointersSet
<1>4. Calm(t[p])
  BY <1>2 DEF Calm, CalmPc
<1>5. First(t[p]) = None /\ Second(t[p]) = None
  BY <1>1, <1>2, PointersTyped
<1>6. t[p].pc = "write" => file[p] \in Inum
  BY <1>1, PointersTyped DEF FilePc
<1> QED
  BY <1>1, <1>2, <1>3, <1>4, <1>5, <1>6

\* A call returns.
LEMMA ReturnDInv ==
  ASSUME DInv, NEW p \in Process, IInv', Return(p)
  PROVE  DInv' /\ SameTree
<1> DEFINE r == t[p]
           s == t'[p]
<1>1. /\ r.pc = "ret" /\ t' = [t EXCEPT ![p] = Idle]
      /\ UNCHANGED <<dinode, bitmap, dirent, icache, cwd, file, calls, programs>>
  BY DEF Return, disk, Still
<1>2. /\ IInv /\ cwd[p] \in Inum /\ CallSound(p)
      /\ r.at = None /\ r.dp = None /\ r.ip = None
      /\ Calm(r) /\ Label(r) = r.pc
      /\ First(r) = None /\ Second(r) = None
  BY <1>1, Bare
<1>8. ASSUME NEW j \in Inum
      PROVE  /\ icache'[j].busy = icache[j].busy /\ Kept(j)
             /\ icache'[j].ref = icache[j].ref
             /\ Mem(j) => icache'[j].valid /\ icache'[j].ref > 0
  BY <1>1 DEF Kept, SameCopy, Mem
<1>9. /\ \A q \in Process \ {p} : t'[q] = t[q]
      /\ s.pc = "idle" /\ Label(s) = "idle"
      /\ First(s) = None /\ Second(s) = None
      /\ s.at = None /\ s.dp = None /\ s.ip = None
  <2>1. s = Idle /\ \A q \in Process \ {p} : t'[q] = t[q]
    BY <1>1, <1>2 DEF IInv
  <2>2. First(Idle) = None /\ Second(Idle) = None
    BY OwesNone DEF Idle
  <2> QED
    BY <2>1, <2>2 DEF Idle, Label, PutPc
<1>10. Calm(s)
  BY <1>9 DEF Calm, CalmPc, OwnPc
<1>11. ASSUME NEW i \in Inum
      PROVE  Uses(cwd'[p], file'[p], s, i) <=> Uses(cwd[p], file[p], r, i)
  <2>1. Uses(cwd[p], file[p], r, i) <=>
            \/ cwd[p] = i \/ file[p] = i \/ r.at = i \/ r.dp = i \/ r.ip = i
            \/ First(r) = i \/ Second(r) = i
    BY <1>2, CalmUses
  <2>2. Uses(cwd'[p], file'[p], s, i) <=>
            \/ cwd'[p] = i \/ file'[p] = i \/ s.at = i \/ s.dp = i \/ s.ip = i
            \/ First(s) = i \/ Second(s) = i
    BY <1>10, CalmUses
  <2> HIDE DEF r, s
  <2> QED
    BY <1>1, <1>2, <1>9, <2>1, <2>2
<1>12. \A i \in Inum : Released(p, i)
  BY <1>11 DEF Released
<1>13. \A i \in Inum : PendIp(s, i) <=> PendIp(r, i)
  BY <1>2, <1>9 DEF PendIp, DueIp, Inum, None
<1>14. Path(s)
  BY <1>9 DEF Path, LookPc, FreshPc
<1>15. Known(cwd'[p], s)
  BY <1>1, <1>2, <1>9 DEF Known, CallSound, Typing
<1>16. Others(p)
  BY <1>1, <1>9 DEF Others
<1> QED
  BY <1>1, <1>2, <1>8, <1>9, <1>10, <1>11, <1>12, <1>13, <1>14, <1>15, <1>16, Calmly

\* write comes to its file.
LEMMA WriteDInv ==
  ASSUME DInv, NEW p \in Process, IInv', Write(p)
  PROVE  DInv' /\ SameTree
<1> DEFINE r == t[p]
           s == t'[p]
<1>1. /\ r.pc = "write" /\ icache' = Read(icache, file[p])
      /\ \E b : Set(p, [pc |-> "ret", ok |-> b])
      /\ UNCHANGED <<dinode, bitmap, dirent, cwd, file, calls, programs>>
  BY DEF Write, disk, Still, At
<1>2. /\ IInv /\ cwd[p] \in Inum /\ CallSound(p)
      /\ r.at = None /\ r.dp = None /\ r.ip = None
      /\ Calm(r) /\ Label(r) = r.pc
      /\ First(r) = None /\ Second(r) = None /\ file[p] \in Inum
  BY <1>1, Bare
<1>8. ASSUME NEW j \in Inum
      PROVE  /\ icache'[j].busy = icache[j].busy /\ Kept(j)
             /\ icache'[j].ref = icache[j].ref
             /\ Mem(j) => icache'[j].valid /\ icache'[j].ref > 0
  BY <1>1, <1>2, ReadKept
<1>9. /\ \A q \in Process \ {p} : t'[q] = t[q]
      /\ s.pc = "ret" /\ Label(s) = "ret"
      /\ First(s) = None /\ Second(s) = None
      /\ s.at = r.at /\ s.dp = r.dp /\ s.ip = r.ip
  <2>1. PICK b : Set(p, [pc |-> "ret", ok |-> b])
    BY <1>1
  <2> QED
    BY <1>1, <1>2, <2>1, Goes DEF PutPc
<1>10. Calm(s)
  BY <1>9 DEF Calm, CalmPc, OwnPc
<1>11. ASSUME NEW i \in Inum
      PROVE  Uses(cwd'[p], file'[p], s, i) <=> Uses(cwd[p], file[p], r, i)
  <2>1. Uses(cwd[p], file[p], r, i) <=>
            \/ cwd[p] = i \/ file[p] = i \/ r.at = i \/ r.dp = i \/ r.ip = i
            \/ First(r) = i \/ Second(r) = i
    BY <1>2, CalmUses
  <2>2. Uses(cwd'[p], file'[p], s, i) <=>
            \/ cwd'[p] = i \/ file'[p] = i \/ s.at = i \/ s.dp = i \/ s.ip = i
            \/ First(s) = i \/ Second(s) = i
    BY <1>10, CalmUses
  <2> HIDE DEF r, s
  <2> QED
    BY <1>1, <1>2, <1>9, <2>1, <2>2
<1>12. \A i \in Inum : Released(p, i)
  BY <1>11 DEF Released
<1>13. \A i \in Inum : PendIp(s, i) <=> PendIp(r, i)
  BY <1>2, <1>9 DEF PendIp, DueIp, Inum, None
<1>14. Path(s)
  BY <1>9 DEF Path, LookPc, FreshPc
<1>15. Known(cwd'[p], s)
  BY <1>1, <1>2, <1>9 DEF Known, CallSound, Typing
<1>16. Others(p)
  BY <1>1, <1>9 DEF Others
<1> QED
  BY <1>1, <1>2, <1>8, <1>9, <1>10, <1>11, <1>12, <1>13, <1>14, <1>15, <1>16, Calmly

\* A call begins.
LEMMA BeginDInv ==
  ASSUME DInv, NEW p \in Process, IInv', Begin(p)
  PROVE  DInv' /\ SameTree
<1> DEFINE r == t[p]
           s == t'[p]
<1>0. PICK job \in Jobs[programs] :
         /\ job.op \in {"open", "create"} => file[p] = None
         /\ job.op \in {"close", "write"} => file[p] # None
         /\ CASE job.op = "close" ->
                    /\ Puts(p, <<file[p]>>, "ret", [job |-> job, ok |-> TRUE])
                    /\ file' = [file EXCEPT ![p] = None]
                    /\ UNCHANGED icache
              [] job.op = "write" ->
                    /\ Set(p, [job |-> job, pc |-> "write"])
                    /\ UNCHANGED <<file, icache>>
              [] OTHER ->
                    /\ icache' = started(icache, p, job)
                    /\ Set(p, [job |-> job, path |-> job.path, at |-> Start(p, job),
                               pc |-> "walk"])
                    /\ UNCHANGED file
  BY DEF Begin
<1>1. r.pc = "idle" /\ UNCHANGED <<dinode, bitmap, dirent, cwd, programs>>
  BY DEF Begin, disk
<1>2. /\ IInv /\ cwd[p] \in Inum /\ CallSound(p)
      /\ r.at = None /\ r.dp = None /\ r.ip = None
      /\ Calm(r) /\ Label(r) = r.pc
      /\ First(r) = None /\ Second(r) = None
  BY <1>1, Bare
<1>3. dinode[cwd[p]].type = "dir"
  BY <1>2 DEF CallSound, Typing
<1>4. file \in [Process -> Inum \cup {None}]
  BY <1>2 DEF IInv, TypeOK
<1>5. ASSUME job.op \notin {"close", "write"}
      PROVE  /\ icache' = started(icache, p, job)
             /\ Set(p, [job |-> job, path |-> job.path, at |-> Start(p, job),
                        pc |-> "walk"])
             /\ UNCHANGED file
  BY <1>0, <1>5
<1>6. ASSUME job.op = "close"
      PROVE  /\ Puts(p, <<file[p]>>, "ret", [job |-> job, ok |-> TRUE])
             /\ file' = [file EXCEPT ![p] = None] /\ file[p] \in Inum
             /\ UNCHANGED icache
  BY <1>0, <1>4, <1>6
<1>7. ASSUME job.op = "write"
      PROVE  /\ Set(p, [job |-> job, pc |-> "write"])
             /\ UNCHANGED <<file, icache>>
  BY <1>0, <1>7
<1> DEFINE i0 == Start(p, job)
<1>8. CASE job.op \notin {"close", "write"}
  <2>1. /\ icache' = started(icache, p, job) /\ UNCHANGED file
        /\ Set(p, [job |-> job, path |-> job.path, at |-> i0, pc |-> "walk"])
    BY <1>5, <1>8
  <2>2. ASSUME NEW j \in Inum
        PROVE  /\ icache'[j].busy = icache[j].busy /\ Kept(j)
               /\ icache'[j].ref = icache[j].ref + One(i0 = j)
               /\ Mem(j) => icache'[j].valid /\ icache'[j].ref > 0
    BY <2>1, StartKept
  <2>3. i0 \in Inum /\ (i0 = Root \/ i0 = cwd[p])
    BY <1>2, <2>1, StartKept
  <2> HIDE DEF i0
  <2>4. /\ \A q \in Process \ {p} : t'[q] = t[q]
        /\ s.pc = "walk" /\ Label(s) = "walk"
        /\ First(s) = None /\ Second(s) = None
        /\ s.at = i0 /\ s.dp = r.dp /\ s.ip = r.ip /\ s.job = job /\ s.path = job.path
    BY <1>1, <1>2, <2>1, Goes DEF PutPc
  <2>5. Calm(s)
    BY <2>4 DEF Calm, CalmPc, OwnPc, AtPc
  <2>6. ASSUME NEW i \in Inum
        PROVE  Uses(cwd'[p], file'[p], s, i) <=> Uses(cwd[p], file[p], r, i) \/ i = i0
    <3>1. Uses(cwd[p], file[p], r, i) <=>
              \/ cwd[p] = i \/ file[p] = i \/ r.at = i \/ r.dp = i \/ r.ip = i
              \/ First(r) = i \/ Second(r) = i
      BY <1>2, CalmUses
    <3>2. Uses(cwd'[p], file'[p], s, i) <=>
              \/ cwd'[p] = i \/ file'[p] = i \/ s.at = i \/ s.dp = i \/ s.ip = i
              \/ First(s) = i \/ Second(s) = i
      BY <2>5, CalmUses
    <3>3. i # None
      BY DEF Inum, None
    <3> HIDE DEF r, s
    <3> QED
      BY <1>1, <1>2, <2>1, <2>4, <3>1, <3>2, <3>3
  <2>7. Uses(cwd[p], file[p], r, cwd[p])
    BY DEF Uses, Else
  <2>8. ASSUME NEW i \in Inum, Uses(cwd'[p], file'[p], s, i)
        PROVE  Uses(cwd[p], file[p], r, i) \/ Given(i)
    BY <2>3, <2>6, <2>7, <2>8, GivenRoot
  <2>9. \A i \in Inum : Released(p, i)
    BY <2>6 DEF Released
  <2>10. \A i \in Inum : PendIp(s, i) <=> PendIp(r, i)
    BY <1>1, <1>2, <2>4 DEF PendIp, DueIp, Inum, None
  <2>11. Path(s)
    <3>1. NoDots(programs) => \A n \in 1..Len(job.path) : job.path[n] # ".."
      BY DEF NoDots
    <3> QED
      BY <2>4, <3>1 DEF Path
  <2>12. Known(cwd'[p], s)
    BY <1>1, <1>2, <1>3, <2>4 DEF Known
  <2>13. Others(p)
    BY <1>1, <2>1, <2>4 DEF Others
  <2>14. ASSUME NEW i \in Inum, icache'[i].ref > 0
         PROVE  icache[i].ref > 0 \/ Given(i)
    <3>1. icache[cwd[p]].ref > 0
      BY <1>1, <1>2, <2>7, InUse
    <3>2. icache[i].ref \in Nat
      BY <1>2 DEF IInv, TypeOK
    <3> QED
      BY <2>2, <2>3, <2>14, <3>1, <3>2, GivenRoot DEF One
  <2> QED
    BY <1>1, <1>2, <2>2, <2>4, <2>5, <2>8, <2>9, <2>10, <2>11, <2>12, <2>13, <2>14, Calmly
<1>9. CASE job.op = "close"
  <2>1. /\ Puts(p, <<file[p]>>, "ret", [job |-> job, ok |-> TRUE])
        /\ file' = [file EXCEPT ![p] = None] /\ file[p] \in Inum
        /\ UNCHANGED icache
    BY <1>6, <1>9
  <2>2. ASSUME NEW j \in Inum
        PROVE  /\ icache'[j].busy = icache[j].busy /\ Kept(j)
               /\ icache'[j].ref = icache[j].ref
               /\ Mem(j) => icache'[j].valid /\ icache'[j].ref > 0
    BY <1>1, <2>1 DEF Kept, SameCopy, Mem
  <2>3. file'[p] = None /\ \A q \in Process \ {p} : file'[q] = file[q]
    BY <1>4, <2>1
  <2>4. /\ \A q \in Process \ {p} : t'[q] = t[q]
        /\ s.pc = "iput" /\ Label(s) = "ret"
        /\ First(s) = file[p] /\ Second(s) = None
        /\ s.at = r.at /\ s.dp = r.dp /\ s.ip = r.ip
    BY <1>1, <1>2, <2>1, GivesOne DEF PutPc, ThenPc
  <2>5. Calm(s)
    BY <2>4 DEF Calm, CalmPc, OwnPc, AtPc
  <2>6. ASSUME NEW i \in Inum
        PROVE  Uses(cwd'[p], file'[p], s, i) <=> Uses(cwd[p], file[p], r, i)
    <3>1. Uses(cwd[p], file[p], r, i) <=>
              \/ cwd[p] = i \/ file[p] = i \/ r.at = i \/ r.dp = i \/ r.ip = i
              \/ First(r) = i \/ Second(r) = i
      BY <1>2, CalmUses
    <3>2. Uses(cwd'[p], file'[p], s, i) <=>
              \/ cwd'[p] = i \/ file'[p] = i \/ s.at = i \/ s.dp = i \/ s.ip = i
              \/ First(s) = i \/ Second(s) = i
      BY <2>5, CalmUses
    <3>3. i # None
      BY DEF Inum, None
    <3> HIDE DEF r, s
    <3> QED
      BY <1>1, <1>2, <2>3, <2>4, <3>1, <3>2, <3>3
  <2>7. \A i \in Inum : Released(p, i)
    BY <2>6 DEF Released
  <2>8. \A i \in Inum : PendIp(s, i) <=> PendIp(r, i)
    BY <1>1, <1>2, <2>4 DEF PendIp, DueIp, Inum, None
  <2>9. Path(s)
    BY <2>4 DEF Path, LookPc, FreshPc
  <2>10. Known(cwd'[p], s)
    BY <1>1, <1>2, <1>3, <2>4 DEF Known
  <2>11. Others(p)
    BY <1>1, <2>3, <2>4 DEF Others
  <2> QED
    BY <1>1, <1>2, <2>2, <2>4, <2>5, <2>6, <2>7, <2>8, <2>9, <2>10, <2>11, Calmly
<1>10. CASE job.op = "write"
  <2>1. Set(p, [job |-> job, pc |-> "write"]) /\ UNCHANGED <<file, icache>>
    BY <1>7, <1>10
  <2>2. ASSUME NEW j \in Inum
        PROVE  /\ icache'[j].busy = icache[j].busy /\ Kept(j)
               /\ icache'[j].ref = icache[j].ref
               /\ Mem(j) => icache'[j].valid /\ icache'[j].ref > 0
    BY <1>1, <2>1 DEF Kept, SameCopy, Mem
  <2>4. /\ \A q \in Process \ {p} : t'[q] = t[q]
        /\ s.pc = "write" /\ Label(s) = "write"
        /\ First(s) = None /\ Second(s) = None
        /\ s.at = r.at /\ s.dp = r.dp /\ s.ip = r.ip
    BY <1>1, <1>2, <2>1, Goes DEF PutPc
  <2>5. Calm(s)
    BY <2>4 DEF Calm, CalmPc, OwnPc, AtPc
  <2>6. ASSUME NEW i \in Inum
        PROVE  Uses(cwd'[p], file'[p], s, i) <=> Uses(cwd[p], file[p], r, i)
    <3>1. Uses(cwd[p], file[p], r, i) <=>
              \/ cwd[p] = i \/ file[p] = i \/ r.at = i \/ r.dp = i \/ r.ip = i
              \/ First(r) = i \/ Second(r) = i
      BY <1>2, CalmUses
    <3>2. Uses(cwd'[p], file'[p], s, i) <=>
              \/ cwd'[p] = i \/ file'[p] = i \/ s.at = i \/ s.dp = i \/ s.ip = i
              \/ First(s) = i \/ Second(s) = i
      BY <2>5, CalmUses
    <3> HIDE DEF r, s
    <3> QED
      BY <1>1, <1>2, <2>1, <2>4, <3>1, <3>2
  <2>7. \A i \in Inum : Released(p, i)
    BY <2>6 DEF Released
  <2>8. \A i \in Inum : PendIp(s, i) <=> PendIp(r, i)
    BY <1>1, <1>2, <2>4 DEF PendIp, DueIp, Inum, None
  <2>9. Path(s)
    BY <2>4 DEF Path, LookPc, FreshPc
  <2>10. Known(cwd'[p], s)
    BY <1>1, <1>2, <1>3, <2>4 DEF Known
  <2>11. Others(p)
    BY <1>1, <2>1, <2>4 DEF Others
  <2> QED
    BY <1>1, <1>2, <2>2, <2>4, <2>5, <2>6, <2>7, <2>8, <2>9, <2>10, <2>11, Calmly
<1> QED
  BY <1>8, <1>9, <1>10

-----------------------------------------------------------------------------
(* The invariant is about all variables but exhausted and calls. *)

\* A step that changes none of the variables of the invariant keeps it.
LEMMA DUnmoved ==
  ASSUME DInv, IInv', UNCHANGED <<dinode, bitmap, dirent, icache, cwd, file, t, programs>>
  PROVE  DInv' /\ SameTree
<1>1. Links' = Links /\ \A i : Addr(i)' = Addr(i) /\ Uses(cwd[i], file[i], t[i], i)' = Uses(cwd[i], file[i], t[i], i)
  BY LinksSame DEF Addr
<1>2. LockInv'
  BY DEF DInv, LockInv
<1>3. CopyInv'
  BY DEF DInv, CopyInv, CopyAt, Mem
<1>4. PointInv'
  BY DEF DInv, PointInv
<1>5. SoleInv'
  BY <1>1 DEF DInv, SoleInv
<1>6. CallInv'
  <2>1. \A p \in Process : Typing(p)' /\ Ending(p)'
    BY DEF DInv, CallInv, CallSound, Typing, Ending
  <2>2. ASSUME NEW p \in Process PROVE Making(p)'
    <3>1. Making(p)
      BY DEF DInv, CallInv, CallSound
    <3> QED
      BY <3>1 DEF Making, Addr
  <2>3. ASSUME NEW p \in Process PROVE Going(p)'
    <3>1. Going(p)
      BY DEF DInv, CallInv, CallSound
    <3>2. Addr(t[p].dp)' = Addr(t[p].dp) /\ Elem(p)' = Elem(p)
      BY DEF Addr, Elem
    <3>3. NoDots(programs)' <=> NoDots(programs)
      BY DEF NoDots
    <3> QED
      BY <3>1, <3>2, <3>3 DEF Going
  <2> QED
    BY <2>1, <2>2, <2>3 DEF CallInv, CallSound
<1>7. FreeInv'
  BY DEF DInv, FreeInv
<1>8. BlockInv'
  BY DEF DInv, BlockInv, Addr
<1>9. DirInv'
  BY DEF DInv, DirInv, Addr
<1>10. TreeInv'
  BY <1>1 DEF DInv, TreeInv, Addr
<1>11. StayInv'
  BY <1>1 DEF DInv, StayInv, DirsStay
<1>12. CountInv'
  <2>1. \A i : Due(i)' = Due(i)
    BY <1>1 DEF Due, To, Under, ForIp, ForDp
  <2> QED
    BY <2>1 DEF DInv, CountInv, Stay, DirsStay
<1>13. SameTree
  BY <1>1 DEF SameTree
<1> QED
  BY <1>2, <1>3, <1>4, <1>5, <1>6, <1>7, <1>8, <1>9, <1>10, <1>11, <1>12, <1>13 DEF DInv

\* The disk is full.
LEMMA ExhaustsDInv ==
  ASSUME DInv, NEW p \in Process, IInv', Exhausts(p)
  PROVE  DInv' /\ SameTree
BY DUnmoved DEF Exhausts, disk

-----------------------------------------------------------------------------
(* Steps that write the in-memory inode to the disk *)

\* iupdate() writes one inode.
LEMMA UpdateIs ==
  ASSUME IInv, NEW i \in Inum, NEW a, iupdate(i, a), NEW j \in Inum
  PROVE  /\ i = j => SameCopy(dinode'[j], a)
         /\ i # j => SameCopy(dinode'[j], dinode[j])
BY DEF IInv, TypeOK, iupdate, SameCopy

\* A step that writes one inode to the disk and leaves the links alone.
LEMMA Flushes ==
  ASSUME DInv, NEW p \in Process, Others(p), NEW j \in Inum, NEW a, iupdate(j, a),
         SameCopy(a, icache'[j]), icache'[j].ref > 0, icache'[j].valid,
         icache'[j].addr = Addr(j), icache'[j].type = dinode[j].type,
         \A i \in Inum \ {j} : /\ Kept(i) /\ (Mem(i) => icache'[i].ref > 0 /\ icache'[i].valid)
                               /\ ~Freed(t[p], i) /\ ~Ahead(file[p], t[p], i)
  PROVE  /\ CopyInv'
         /\ \A i \in Inum : dinode'[i].type = dinode[i].type /\ Addr(i)' = Addr(i)
         /\ \A i \in Inum \ {j} : SameCopy(dinode'[i], dinode[i]) /\ Kept(i)
         /\ dinode'[j].nlink = icache'[j].nlink /\ dinode'[j].addr = icache'[j].addr
<1>1. SameCopy(dinode'[j], icache'[j])
  <2>1. SameCopy(dinode'[j], a)
    BY UpdateIs DEF DInv
  <2> QED
    BY <2>1 DEF SameCopy
<1>2. \A i \in Inum \ {j} : SameCopy(dinode'[i], dinode[i])
  BY UpdateIs DEF DInv
<1>3. ASSUME NEW i \in Inum PROVE CopyAt(i)'
  <2>1. CASE i = j
    BY <1>1, <2>1 DEF CopyAt, SameCopy
  <2>2. CASE i # j
    <3>1. CopyAt(i) /\ Kept(i) /\ ~Freed(t[p], i) /\ ~Ahead(file[p], t[p], i)
      BY <2>2 DEF DInv, CopyInv
    <3> QED
      BY <1>2, <2>2, <3>1, CopySame
  <2> QED
    BY <2>1, <2>2
<1>4. ASSUME NEW i \in Inum PROVE Addr(i)' = Addr(i)
  <2>1. CASE i = j
    BY <2>1 DEF Addr
  <2>2. CASE i # j
    BY <1>2, <2>2, AddrSame
  <2> QED
    BY <2>1, <2>2
<1> QED
  BY <1>1, <1>2, <1>3, <1>4 DEF CopyInv, SameCopy

\* The in-memory inode that p has locked, or may lock, is that on the disk.
LEMMA Exact ==
  ASSUME DInv, NEW p \in Process, NEW j \in Inum, Keeps(file[p], t[p], j),
         ~Freed(t[p], j), ~Ahead(file[p], t[p], j)
  PROVE  SameCopy(icache[j], dinode[j]) /\ Mem(j) /\ Addr(j) = icache[j].addr
<1>1. Mem(j) /\ icache[j].busy = p
  BY OneKeeper DEF DInv
<1>2. \A q \in Process : ~Freed(t[q], j) /\ ~Ahead(file[q], t[q], j)
  <2>1. SUFFICES ASSUME NEW q \in Process, Freed(t[q], j) \/ Ahead(file[q], t[q], j) PROVE q = p
    OBVIOUS
  <2>2. Keeps(file[q], t[q], j)
    BY <2>1, OneKeeper DEF DInv
  <2> QED
    BY <2>2, OneKeeper DEF DInv
<1> QED
  BY <1>1, <1>2 DEF DInv, CopyInv, CopyAt, SameCopy, Addr, Mem

\* A calm call is sound.
LEMMA CalmCall ==
  ASSUME NEW p \in Process, Calm(t'[p]), t'[p].dp = None, programs' = programs,
         Path(t'[p]), Known(cwd[p], t[p])'
  PROVE  CallSound(p)'
<1>1. t'[p].pc \notin FreshPc \cup DpPc \cup EndPc \cup OwnPc \cup {"grow"} /\ ~Made(t'[p])
  BY CalmIs
<1>2. t'[p].pc \notin FreshPc \cup EndPc \cup {"downlink", "grow", "ialloc", "victim"}
  BY <1>1 DEF DpPc
<1>3. Typing(p)'
  BY <1>2 DEF Typing, Known
<1>4. Ending(p)'
  BY <1>2 DEF Ending, EndPc
<1>5. Making(p)'
  BY <1>1, <1>2 DEF Making, FreshPc
<1>6. Going(p)'
  BY <1>2 DEF Going, Path, NoDots
<1> QED
  BY <1>3, <1>4, <1>5, <1>6 DEF CallSound

\* A calm step that writes the inode j.
LEMMA CalmFlush ==
  ASSUME DInv, NEW p \in Process, IInv', Others(p), programs' = programs,
         bitmap' = bitmap, dirent' = dirent,
         Calm(t[p]), Calm(t'[p]), t'[p].dp = None,
         NEW j \in Inum, Uses(cwd[p], file[p], t[p], j), icache[j].busy = NoProcess,
         NEW a, iupdate(j, a), SameCopy(a, icache'[j]),
         icache'[j].ref > 0, icache'[j].valid, icache'[j].addr = Addr(j),
         icache'[j].type = dinode[j].type,
         \A i \in Inum \ {j} : Kept(i) /\ (Mem(i) => icache'[i].ref > 0 /\ icache'[i].valid),
         \A i \in Inum : icache'[i].busy = icache[i].busy,
         \A i \in Inum : icache'[i].ref > 0 => icache[i].ref > 0 \/ Given(i),
         \A i \in Inum : Uses(cwd'[p], file'[p], t'[p], i) =>
                            Uses(cwd[p], file[p], t[p], i) \/ Given(i),
         \A i \in Inum : Released(p, i),
         \A i \in Inum : Counting(p, i),
         Path(t'[p]), Known(cwd[p], t[p])'
  PROVE  DInv' /\ SameTree
<1>1. IInv /\ LockInv /\ CopyInv
  BY DEF DInv
<1>2. \A i \in Inum : /\ ~Freed(t[p], i) /\ \A f : ~Ahead(f, t[p], i) /\ ~Keeps(f, t[p], i)
                      /\ ~Unbuilt(t[p], i) /\ ~Building(t[p], i)
  BY CalmIs
<1>3. /\ CopyInv'
      /\ \A i \in Inum : dinode'[i].type = dinode[i].type /\ Addr(i)' = Addr(i)
      /\ \A i \in Inum \ {j} : SameCopy(dinode'[i], dinode[i]) /\ Kept(i)
  BY <1>2, Flushes
<1>4. t'[p].pc \notin {"uplink", "balloc", "dots", "name", "downlink"}
  BY CalmIs DEF OwnPc
<1>5. LockInv'
  <2>1. \A i \in Inum : ~Keeps(file'[p], t'[p], i)
    BY CalmIs
  <2>2. ASSUME NEW i \in Inum, icache'[i].busy # NoProcess PROVE icache'[i].valid
    <3>1. icache[i].busy \in Process /\ i # j
      BY <1>1, <2>2 DEF IInv, CacheTyped, SlotTyped
    <3>2. Keeps(file[icache[i].busy], t[icache[i].busy], i)
      BY <1>1, <3>1 DEF LockInv
    <3>3. Mem(i)
      BY <1>1, <3>1, <3>2, OneKeeper
    <3> QED
      BY <3>1, <3>3
  <2> QED
    BY <1>1, <1>2, <1>4, <2>1, <2>2, LocksKept
<1>6. ASSUME NEW i \in Inum PROVE Loaded(p, i)
  <2>1. t[p].pc # "fresh"
    BY CalmIs DEF FreshPc
  <2>2. i # j /\ icache[i].ref > 0 /\ icache[i].valid => icache'[i].valid
    BY DEF Mem
  <2> QED
    BY <1>3, <2>1, <2>2 DEF Loaded, Given, SameCopy
<1>7. ASSUME NEW i \in Inum PROVE Owned(p, i)
  BY CalmIs DEF Owned
<1>8. t[p].pc \notin {"iget", "fresh"}
  BY CalmIs DEF FreshPc
<1>9. CallSound(p)'
  BY CalmCall
<1> DEFINE J == {j}
<1>10. /\ J \in SUBSET Inum
       /\ \A i \in J : Uses(cwd[p], file[p], t[p], i) /\ icache[i].busy \in {p, NoProcess}
       /\ \A i \in Inum \ J : SameCopy(dinode'[i], dinode[i]) /\ Kept(i)
  BY <1>3
<1> HIDE DEF J
<1> QED
  BY <1>2, <1>3, <1>4, <1>5, <1>6, <1>7, <1>8, <1>9, <1>10, Level

-----------------------------------------------------------------------------
(* link *)

\* What a slot is after ilock() and a change of its count.
LEMMA CountIs ==
  ASSUME IInv, NEW j \in Inum, NEW n \in Int, NEW i \in Inum
  PROVE  LET d == SetNlink(Read(icache, j), j, n) IN
         /\ d[i].ref = icache[i].ref /\ d[i].busy = icache[i].busy
         /\ i = j => /\ d[i].valid /\ d[i].nlink = n
                     /\ d[i].type = Locked(j).type /\ d[i].addr = Locked(j).addr
         /\ i # j => d[i].valid = icache[i].valid /\ SameCopy(d[i], icache[i])
         /\ CacheTyped(d)
<1> DEFINE c == Read(icache, j)
           d == SetNlink(c, j, n)
<1>1. CacheTyped(icache) /\ CacheTyped(c)
  BY CacheRead DEF IInv
<1>2. /\ c[i].ref = icache[i].ref /\ c[i].busy = icache[i].busy
      /\ i = j => c[i].valid
      /\ i # j => c[i].valid = icache[i].valid
      /\ i # j => SameCopy(c[i], icache[i])
  BY <1>1, ReadIs
<1>3. c[j] = Locked(j)
  BY DEF Locked
<1> HIDE DEF c
<1>4. /\ d[i].type = c[i].type /\ d[i].addr = c[i].addr /\ d[i].ref = c[i].ref
      /\ d[i].valid = c[i].valid /\ d[i].busy = c[i].busy
      /\ d[i].nlink = IF j = i THEN n ELSE c[i].nlink
  BY <1>1, NlinkIs
<1>5. CacheTyped(d)
  BY <1>1, CacheNlink DEF SetNlink
<1> HIDE DEF d
<1>6. /\ d[i].ref = icache[i].ref /\ d[i].busy = icache[i].busy
      /\ i = j => /\ d[i].valid /\ d[i].nlink = n
                  /\ d[i].type = Locked(j).type /\ d[i].addr = Locked(j).addr
      /\ i # j => d[i].valid = icache[i].valid /\ SameCopy(d[i], icache[i])
  BY <1>2, <1>3, <1>4 DEF SameCopy
<1> QED
  BY <1>5, <1>6 DEF d, c

\* link takes its count back.
LEMMA LinkBadDInv ==
  ASSUME DInv, NEW p \in Process, IInv', LinkBad(p)
  PROVE  DInv' /\ SameTree
<1> DEFINE r == t[p]
           s == t'[p]
           j == r.ip
           n == Locked(j).nlink - 1
<1>1. /\ r.pc = "bad" /\ At(p, "bad")
      /\ icache' = [Read(icache, j) EXCEPT ![j].nlink = @ - 1]
      /\ iupdate(j, icache'[j])
      /\ Puts(p, <<j>>, "ret", [ip |-> None])
      /\ UNCHANGED <<bitmap, dirent, cwd, file, calls, programs>>
  BY DEF LinkBad, Still, At
<1>2. /\ IInv /\ cwd[p] \in Inum /\ CallSound(p) /\ j \in Inum
      /\ r.at = None /\ r.dp = None /\ Label(r) = r.pc /\ Calm(r)
      /\ First(r) = None /\ Second(r) = None
  <2>1. IInv /\ Sound(r, file[p]) /\ cwd[p] \in Inum /\ CallSound(p)
    BY Before
  <2>2. r.pc \notin PutPc \cup AtPc \cup DpPc \cup OwnPc /\ Label(r) = r.pc /\ r.pc \in IpPc
    BY <1>1 DEF PutPc, AtPc, DpPc, IpPc, OwnPc, Label
  <2>3. First(r) = None /\ Second(r) = None
    BY <2>1, <2>2, PointersTyped
  <2> QED
    BY <1>1, <2>1, <2>2, <2>3 DEF Sound, PointersSet, Calm, CalmPc
<1>3. Uses(cwd[p], file[p], r, j) /\ icache[j].ref > 0
  <2>1. Uses(cwd[p], file[p], r, j)
    BY DEF Uses
  <2> QED
    BY <1>1, <1>2, <2>1, InUse
<1>4. icache[j].busy = NoProcess
  <2>1. Wanted(p) = j
    BY <1>1 DEF Wanted, Waits
  <2> QED
    BY <1>1, <1>2, <2>1 DEF At, Inum, None
<1>5. /\ Locked(j).type = dinode[j].type /\ Locked(j).nlink = dinode[j].nlink
      /\ Locked(j).addr = Addr(j) /\ dinode[j].nlink \in Int
  BY <1>2, <1>3, <1>4, Seen DEF DInv, IInv, TypeOK
<1> HIDE DEF j
<1>6. n \in Int /\ icache' = SetNlink(Read(icache, j), j, n)
  BY <1>1, <1>5 DEF SetNlink, Locked
<1> HIDE DEF n
<1>7. ASSUME NEW i \in Inum
      PROVE  /\ icache'[i].ref = icache[i].ref /\ icache'[i].busy = icache[i].busy
             /\ i = j => /\ icache'[i].valid /\ icache'[i].nlink = n
                         /\ icache'[i].type = Locked(j).type /\ icache'[i].addr = Locked(j).addr
             /\ i # j => icache'[i].valid = icache[i].valid /\ SameCopy(icache'[i], icache[i])
  BY <1>2, <1>6, CountIs
<1>8. \A i \in Inum \ {j} : Kept(i) /\ (Mem(i) => icache'[i].ref > 0 /\ icache'[i].valid)
  BY <1>7 DEF Kept, Mem, SameCopy
<1>9. /\ \A q \in Process \ {p} : t'[q] = t[q]
      /\ s.pc = "iput" /\ Label(s) = "ret"
      /\ First(s) = j /\ Second(s) = None
      /\ s.at = None /\ s.dp = None /\ s.ip = None
  BY <1>1, <1>2, GivesOne DEF PutPc, ThenPc
<1>10. Calm(s)
  BY <1>9 DEF Calm, CalmPc, OwnPc
<1>11. ASSUME NEW i \in Inum
       PROVE  Uses(cwd'[p], file'[p], s, i) <=> Uses(cwd[p], file[p], r, i)
  <2>1. Uses(cwd[p], file[p], r, i) <=>
            \/ cwd[p] = i \/ file[p] = i \/ r.at = i \/ r.dp = i \/ r.ip = i
            \/ First(r) = i \/ Second(r) = i
    BY <1>2, CalmUses
  <2>2. Uses(cwd'[p], file'[p], s, i) <=>
            \/ cwd'[p] = i \/ file'[p] = i \/ s.at = i \/ s.dp = i \/ s.ip = i
            \/ First(s) = i \/ Second(s) = i
    BY <1>10, CalmUses
  <2>3. i # None /\ r.ip = j
    BY DEF Inum, None, j
  <2> HIDE DEF r, s
  <2> QED
    BY <1>1, <1>2, <1>9, <2>1, <2>2, <2>3
<1>12. \A i \in Inum : Released(p, i)
  BY <1>11 DEF Released
<1>18. ASSUME NEW i \in Inum
       PROVE  /\ i = j => SameCopy(dinode'[i], icache'[j])
              /\ i # j => SameCopy(dinode'[i], dinode[i])
  BY <1>1, <1>2, UpdateIs
<1>13. ASSUME NEW i \in Inum PROVE Counting(p, i)
  <2>1. /\ PendIp(r, i) <=> i = j
        /\ ~PendIp(s, i) /\ ~PendDp(r, i) /\ ~PendDp(s, i)
    <3>1. r.ip = j /\ i # None
      BY DEF j, Inum, None
    <3>2. PendIp(r, i) <=> i = j
      BY <1>1, <1>2, <3>1 DEF PendIp, DueIp
    <3>3. ~PendIp(s, i)
      BY <1>9 DEF PendIp, DueIp
    <3> QED
      BY <1>1, <1>2, <1>9, <3>1, <3>2, <3>3 DEF PendDp
  <2>2. i = j => dinode'[i].nlink = n
    BY <1>2, <1>7, <1>18 DEF SameCopy
  <2>3. i # j => dinode'[i].nlink = dinode[i].nlink
    BY <1>18 DEF SameCopy
  <2>4. n = dinode[j].nlink - 1 /\ dinode[i].nlink \in Int
    BY <1>2, <1>5 DEF n, IInv, TypeOK
  <2> QED
    BY <2>1, <2>2, <2>3, <2>4 DEF Counting, One
<1>14. Path(s)
  BY <1>9 DEF Path, LookPc, FreshPc
<1>15. Known(cwd[p], t[p])'
  <2>1. dinode'[cwd[p]].type = dinode[cwd[p]].type
    BY <1>2, <1>5, <1>7, <1>18 DEF SameCopy
  <2> QED
    BY <1>1, <1>2, <1>9, <2>1 DEF Known, CallSound, Typing
<1>16. Others(p)
  BY <1>1, <1>9 DEF Others
<1>17. /\ SameCopy(icache'[j], icache'[j]) /\ icache'[j].ref > 0 /\ icache'[j].valid
       /\ icache'[j].addr = Addr(j) /\ icache'[j].type = dinode[j].type
       /\ \A i \in Inum : icache'[i].busy = icache[i].busy /\ icache'[i].ref = icache[i].ref
  BY <1>2, <1>3, <1>5, <1>7 DEF SameCopy
<1> QED
  BY <1>1, <1>2, <1>3, <1>4, <1>8, <1>9, <1>10, <1>11, <1>12, <1>13, <1>14, <1>15, <1>16,
     <1>17, CalmFlush

-----------------------------------------------------------------------------
\* link counts the new name before it makes it.
LEMMA LinkDInv ==
  ASSUME DInv, NEW p \in Process, IInv', Link(p)
  PROVE  DInv' /\ SameTree
<1> DEFINE r == t[p]
           s == t'[p]
           j == r.at
           n == Locked(j).nlink + 1
           m == Start(p, r.job)
           c == [Read(icache, j) EXCEPT ![j].nlink = @ + 1]
<1>1. /\ r.pc = "link" /\ r.pc \in AtPc /\ At(p, "link") /\ Locked(j).type # "dir"
      /\ icache' = started(c, p, r.job)
      /\ iupdate(j, c[j])
      /\ Set(p, [ip |-> j, at |-> m, path |-> r.job.new, pc |-> "walk"])
      /\ UNCHANGED <<bitmap, dirent, cwd, file, calls, programs>>
  BY DEF Link, Still, At, AtPc
<1>2. /\ IInv /\ cwd[p] \in Inum /\ CallSound(p) /\ j \in Inum
      /\ r.dp = None /\ r.ip = None /\ Label(r) = r.pc /\ Calm(r)
      /\ First(r) = None /\ Second(r) = None
      /\ icache[j].ref > 0 /\ Uses(cwd[p], file[p], r, j)
  BY <1>1, Before
<1>3. r.job \in Jobs[programs] /\ r.job.op = "link" /\ programs \in DOMAIN Jobs
  <2>1. Sound(r, file[p])
    BY Before
  <2> QED
    BY <1>1, <1>2, <2>1 DEF Sound, CallTyped, CallFits, IInv
<1>4. icache[j].busy = NoProcess
  BY <1>1, Looks
<1>5. /\ Locked(j).type = dinode[j].type /\ Locked(j).nlink = dinode[j].nlink
      /\ Locked(j).addr = Addr(j) /\ dinode[j].nlink \in Int
  BY <1>2, <1>4, Seen DEF DInv, IInv, TypeOK
<1>6. dinode[j].type = "file"
  <2>1. dinode[j].type # "free" /\ dinode[j].type \in Type
    BY <1>2 DEF DInv, PointInv, IInv, TypeOK
  <2> QED
    BY <1>1, <1>5, <2>1 DEF Type
<1>21. \A x \in 1..Len(r.job.new) : NoDots(programs) => r.job.new[x] # ".."
  BY <1>3 DEF NoDots
<1> HIDE DEF j, m
<1>7. n \in Int /\ c = SetNlink(Read(icache, j), j, n)
  BY <1>1, <1>5 DEF SetNlink, Locked
<1> HIDE DEF n, c
<1>8. ASSUME NEW i \in Inum
      PROVE  /\ c[i].ref = icache[i].ref /\ c[i].busy = icache[i].busy
             /\ i = j => /\ c[i].valid /\ c[i].nlink = n
                         /\ c[i].type = Locked(j).type /\ c[i].addr = Locked(j).addr
             /\ i # j => c[i].valid = icache[i].valid /\ SameCopy(c[i], icache[i])
             /\ CacheTyped(c)
  BY <1>2, <1>7, CountIs
<1>9. /\ TypeOK /\ CacheTyped(c) /\ \A i \in Inum : c[i].ref >= 0
      /\ c[cwd[p]].ref > 0
  <2>1. Uses(cwd[p], file[p], r, cwd[p])
    BY DEF Uses, Else
  <2>2. icache[cwd[p]].ref > 0
    BY <1>1, <1>2, <2>1, InUse
  <2> QED
    BY <1>2, <1>8, <2>2, Now
<1>10. ASSUME NEW i \in Inum
       PROVE  /\ m \in Inum /\ (m = Root \/ m = cwd[p])
              /\ icache'[i].ref = c[i].ref + One(m = i) /\ icache'[i].busy = c[i].busy
              /\ SameCopy(icache'[i], c[i])
              /\ m # i \/ c[i].ref > 0 => icache'[i].valid = c[i].valid
              /\ m = i /\ ~(c[i].ref > 0) => ~icache'[i].valid
  BY <1>1, <1>9, StartedIs, SMTT(20) DEF m
<1>11. m \in Inum /\ (m = Root \/ m = cwd[p])
  BY <1>2, <1>10
<1>12. ASSUME NEW i \in Inum
       PROVE  /\ icache'[i].ref = icache[i].ref + One(m = i) /\ icache'[i].busy = icache[i].busy
              /\ icache[i].ref \in Nat
              /\ i # j => SameCopy(icache'[i], icache[i])
              /\ i # j /\ (m # i \/ icache[i].ref > 0) => icache'[i].valid = icache[i].valid
              /\ i # j /\ m = i /\ ~(icache[i].ref > 0) => ~icache'[i].valid
  <2>1. icache[i].ref \in Nat
    BY <1>2 DEF IInv, TypeOK
  <2>2. /\ icache'[i].ref = icache[i].ref + One(m = i) /\ icache'[i].busy = icache[i].busy
    BY <1>8, <1>10
  <2>3. ASSUME i # j
        PROVE  /\ SameCopy(icache'[i], icache[i])
               /\ m # i \/ icache[i].ref > 0 => icache'[i].valid = icache[i].valid
               /\ m = i /\ ~(icache[i].ref > 0) => ~icache'[i].valid
    <3>1. c[i].valid = icache[i].valid /\ SameCopy(c[i], icache[i]) /\ c[i].ref = icache[i].ref
      BY <1>8, <2>3
    <3>2. /\ SameCopy(icache'[i], c[i])
          /\ m # i \/ c[i].ref > 0 => icache'[i].valid = c[i].valid
          /\ m = i /\ ~(c[i].ref > 0) => ~icache'[i].valid
      BY <1>10
    <3>3. SameCopy(icache'[i], icache[i])
      BY <3>1, <3>2 DEF SameCopy
    <3> QED
      BY <3>1, <3>2, <3>3
  <2> QED
    BY <2>1, <2>2, <2>3
<1>13. /\ SameCopy(c[j], icache'[j]) /\ icache'[j].ref > 0 /\ icache'[j].valid
       /\ icache'[j].addr = Addr(j) /\ icache'[j].type = dinode[j].type
       /\ c[j].nlink = n
  BY <1>2, <1>5, <1>8, <1>10, <1>12 DEF SameCopy, One
<1>14. \A i \in Inum \ {j} : Kept(i) /\ (Mem(i) => icache'[i].ref > 0 /\ icache'[i].valid)
  BY <1>12 DEF Kept, Mem, SameCopy, One
<1>15. /\ \A q \in Process \ {p} : t'[q] = t[q]
       /\ s.pc = "walk" /\ Label(s) = "walk"
       /\ First(s) = None /\ Second(s) = None
       /\ s.at = m /\ s.dp = r.dp /\ s.ip = j /\ s.job = r.job /\ s.path = r.job.new
  BY <1>1, <1>2, Goes DEF PutPc
<1>16. Calm(s)
  BY <1>15 DEF Calm, CalmPc, OwnPc, AtPc
<1>17. ASSUME NEW i \in Inum
       PROVE  Uses(cwd'[p], file'[p], s, i) <=> Uses(cwd[p], file[p], r, i) \/ i = m
  <2>1. Uses(cwd[p], file[p], r, i) <=>
            \/ cwd[p] = i \/ file[p] = i \/ r.at = i \/ r.dp = i \/ r.ip = i
            \/ First(r) = i \/ Second(r) = i
    BY <1>2, CalmUses
  <2>2. Uses(cwd'[p], file'[p], s, i) <=>
            \/ cwd'[p] = i \/ file'[p] = i \/ s.at = i \/ s.dp = i \/ s.ip = i
            \/ First(s) = i \/ Second(s) = i
    BY <1>16, CalmUses
  <2>3. i # None /\ r.at = j
    BY DEF Inum, None, j
  <2> HIDE DEF r, s
  <2> QED
    BY <1>1, <1>2, <1>15, <2>1, <2>2, <2>3
<1>18. ASSUME NEW i \in Inum, Uses(cwd'[p], file'[p], s, i)
       PROVE  Uses(cwd[p], file[p], r, i) \/ Given(i)
  <2>1. Uses(cwd[p], file[p], r, cwd[p])
    BY DEF Uses, Else
  <2> QED
    BY <1>11, <1>17, <1>18, <2>1, GivenRoot
<1>19. \A i \in Inum : Released(p, i)
  BY <1>17 DEF Released
<1>20. ASSUME NEW i \in Inum
       PROVE  /\ i = j => SameCopy(dinode'[i], c[j])
              /\ i # j => SameCopy(dinode'[i], dinode[i])
  BY <1>1, <1>2, UpdateIs
<1>22. ASSUME NEW i \in Inum PROVE Counting(p, i)
  <2>1. i # None /\ ~PendIp(r, i) /\ ~PendDp(r, i) /\ ~PendDp(s, i)
    BY <1>1, <1>2, <1>15 DEF PendIp, PendDp, Inum, None
  <2>2. PendIp(s, i) <=> i = j
    BY <1>15 DEF PendIp, DueIp
  <2>3. i = j => dinode'[i].nlink = n
    BY <1>13, <1>20 DEF SameCopy
  <2>4. i # j => dinode'[i].nlink = dinode[i].nlink
    BY <1>20 DEF SameCopy
  <2>5. n = dinode[j].nlink + 1 /\ dinode[i].nlink \in Int
    BY <1>2, <1>5 DEF n, IInv, TypeOK
  <2> QED
    BY <2>1, <2>2, <2>3, <2>4, <2>5 DEF Counting, One
<1>23. Path(s)
  BY <1>3, <1>15, <1>21 DEF Path
<1>24. Known(cwd[p], t[p])'
  <2>1. dinode'[cwd[p]].type = dinode[cwd[p]].type /\ dinode'[j].type = "file"
    BY <1>2, <1>5, <1>6, <1>13, <1>20 DEF SameCopy
  <2> QED
    BY <1>1, <1>2, <1>15, <2>1 DEF Known, CallSound, Typing
<1>25. Others(p)
  BY <1>1, <1>15 DEF Others
<1>26. ASSUME NEW i \in Inum, icache'[i].ref > 0 PROVE icache[i].ref > 0 \/ Given(i)
  <2>1. icache[cwd[p]].ref > 0
    BY <1>2, <1>8, <1>9
  <2> QED
    BY <1>11, <1>12, <1>26, <2>1, GivenRoot DEF One
<1>27. Uses(cwd[p], file[p], r, j) /\ \A i \in Inum : icache'[i].busy = icache[i].busy
  BY <1>2, <1>12
<1>28. Known(cwd[p], t[p])' /\ s.dp = None /\ programs' = programs /\ bitmap' = bitmap /\ dirent' = dirent
  BY <1>1, <1>2, <1>15, <1>24
<1> HIDE DEF r, s
<1> QED
  BY <1>1, <1>2, <1>4, <1>13, <1>14, <1>16, <1>18, <1>19, <1>22, <1>23, <1>25, <1>26,
     <1>27, <1>28, CalmFlush DEF r, s

-----------------------------------------------------------------------------
(* iput *)

\* A call between iputs: what was known of it still is.
LEMMA PutCall ==
  ASSUME DInv, NEW p \in Process, t[p].pc \in PutPc, programs' = programs, cwd' = cwd,
         t'[p].pc \in ThenPc \cup {"iput"}, Label(t'[p]) = Label(t[p]),
         t'[p].dp = t[p].dp, t'[p].ip = t[p].ip, t'[p].job = t[p].job, t'[p].path = t[p].path,
         \A i \in Inum : Uses(cwd[p], file[p], t[p], i) => dinode'[i].type = dinode[i].type
  PROVE  CallSound(p)'
<1> DEFINE r == t[p]
           s == t'[p]
<1>1. /\ CallSound(p) /\ PointersSet(r) /\ CallTyped(r)
  BY Before DEF Sound
<1>2. Label(r) \notin DpPc \cup {"create", "unlink", "grow"} /\ r.dp = None
  <2>1. Label(r) \in ThenPc
    BY <1>1 DEF CallTyped, Label
  <2> QED
    BY <1>1, <2>1 DEF PointersSet, ThenPc, DpPc
<1>3. s.pc \notin FreshPc \cup EndPc \cup {"create", "unlink", "enter", "downlink", "grow",
                                            "ialloc", "victim", "dots", "name"}
  BY DEF ThenPc, FreshPc, EndPc
<1>4. dinode'[cwd[p]].type = "dir"
  <2>1. cwd[p] \in Inum /\ Uses(cwd[p], file[p], r, cwd[p])
    BY Before DEF Uses, Else
  <2> QED
    BY <1>1, <2>1 DEF CallSound, Typing
<1>5. ASSUME Label(r) \in {"walk", "enter", "bad"}, r.ip # None PROVE dinode'[r.ip].type = "file"
  <2>1. r.ip \in Inum /\ Uses(cwd[p], file[p], r, r.ip)
    BY <1>5, PointersTyped DEF DInv, Uses
  <2> QED
    BY <1>1, <1>5, <2>1 DEF CallSound, Typing
<1>6. Typing(p)'
  BY <1>2, <1>3, <1>4, <1>5 DEF Typing
<1>7. Ending(p)'
  BY <1>3 DEF Ending, EndPc
<1>8. Making(p)'
  BY <1>3 DEF Making, FreshPc, Made
<1>9. Going(p)'
  <2>1. Going(p)
    BY <1>1 DEF CallSound
  <2> QED
    BY <1>3, <2>1 DEF Going, NoDots
<1> QED
  BY <1>6, <1>7, <1>8, <1>9 DEF CallSound

\* Of an inode that it has just freed, a call has nothing but this reference.
LEMMA EndUnused ==
  ASSUME DInv, NEW p \in Process, t[p].pc = "iputend"
  PROVE  /\ First(t[p]) \in Inum /\ Keeps(file[p], t[p], First(t[p]))
         /\ ~Uses(cwd[p], file[p], t[p], First(t[p]))
         /\ dinode[First(t[p])].nlink = 0
         /\ icache[First(t[p])].addr = None /\ dinode[First(t[p])].addr = None
<1> DEFINE i == First(t[p])
<1>1. i \in Inum /\ Keeps(file[p], t[p], i)
  BY PointersTyped DEF DInv, PutPc, Keeps, EndPc
<1>2. Ending(p)
  BY DEF DInv, CallInv, CallSound
<1>3. dinode[i].nlink = 0 /\ icache[i].addr = None /\ dinode[i].addr = None
  BY <1>2 DEF Ending, EndPc
<1>4. ASSUME Uses(cwd[p], file[p], t[p], i) PROVE FALSE
  <2>1. dinode[i].type # "free"
    BY <1>1, <1>4 DEF DInv, PointInv
  <2>2. PICK x \in Process : t[x].pc \in {"iget", "fresh"} /\ t[x].ip = i
    BY <1>2, <2>1 DEF Ending
  <2>3. Sole(t[x], i)
    BY <2>2 DEF Sole, FreshPc
  <2>4. x = p
    BY <1>1, <1>4, <2>3, SoleUser
  <2> QED
    BY <2>2, <2>4
<1> QED
  BY <1>1, <1>3, <1>4

\* iput() of a reference that is not the last.
LEMMA IputDInv ==
  ASSUME DInv, NEW p \in Process, IInv', Iput(p)
  PROVE  DInv' /\ SameTree
<1> DEFINE r == t[p]
           s == t'[p]
           k == Put(p)
<1>1. /\ r.pc = "iput" /\ ~LastRef(k) /\ icache' = [icache EXCEPT ![k].ref = @ - 1]
      /\ Set(p, Next1(p)) /\ r.pc \in PutPc
      /\ UNCHANGED <<dinode, bitmap, dirent, cwd, file, calls, programs>>
  BY DEF Iput, disk, Still, PutPc
<1>2. IInv /\ LockInv /\ CopyInv /\ PointersSet(r) /\ CallTyped(r) /\ CacheTyped(icache)
  BY DEF DInv, IInv, Sound
<1>3. /\ \A q \in Process \ {p} : t'[q] = t[q]
      /\ s.pc \in ThenPc \cup {"iput"} /\ Label(s) = Label(r)
      /\ s.at = r.at /\ s.dp = r.dp /\ s.ip = r.ip /\ s.job = r.job /\ s.path = r.path
      /\ First(r) = k /\ First(s) = Second(r) /\ Second(s) = None /\ k \in Inum
  BY <1>1, <1>2, PutDone
<1>4. Others(p)
  BY <1>1, <1>3 DEF Others
<1>5. CallSound(p)'
  BY <1>1, <1>3, PutCall
<1>6. Label(r) \notin DpPc /\ r.dp = None
  <2>1. Label(r) \in ThenPc
    BY <1>1, <1>2 DEF CallTyped, Label
  <2> QED
    BY <1>2, <2>1 DEF PointersSet, ThenPc, DpPc
<1> HIDE DEF k
<1>7. ASSUME NEW i \in Inum
      PROVE  /\ SameCopy(icache'[i], icache[i]) /\ icache'[i].valid = icache[i].valid
             /\ icache'[i].busy = icache[i].busy
             /\ icache'[i].ref = icache[i].ref - One(i = k)
             /\ icache[i].ref \in Nat
  <2>1. icache' = SetRef(icache, k, icache[k].ref - 1)
    BY <1>1 DEF SetRef
  <2>2. icache[i].ref \in Nat
    BY <1>2 DEF IInv, TypeOK
  <2> QED
    BY <1>2, <1>3, <2>1, <2>2, RefIs DEF One
<1>8. s.pc \notin DpPc \cup EndPc \cup FreshPc \cup {"grow", "itrunc", "ifree", "downlink"}
  BY <1>3 DEF ThenPc, DpPc, EndPc, FreshPc
<1>9. r.pc \notin DpPc \cup EndPc \cup FreshPc \cup {"grow", "itrunc", "ifree", "iputend"}
  BY <1>1 DEF DpPc, EndPc, FreshPc
<1>10. ASSUME NEW i \in Inum PROVE Held(p, i)
  <2>1. Keeps(file'[p], s, i) <=> Keeps(file[p], r, i)
    BY <1>1, <1>3, <1>8, <1>9 DEF Keeps
  <2> QED
    BY <1>2, <1>7, <2>1 DEF Held, LockInv
<1>11. ASSUME NEW i \in Inum
       PROVE  /\ Uses(cwd[p], file[p], r, i) <=>
                    \/ cwd[p] = i \/ file[p] = i \/ r.at = i \/ r.ip = i
                    \/ First(r) = i \/ Second(r) = i
              /\ Uses(cwd'[p], file'[p], s, i) <=>
                    \/ cwd[p] = i \/ file[p] = i \/ r.at = i \/ r.ip = i
                    \/ Second(r) = i
  <2>1. i # None
    BY DEF Inum, None
  <2> QED
    BY <1>1, <1>3, <1>6, <1>8, <1>9, <2>1 DEF Uses, Else, EndPc
<1>12. icache[k].ref > 0 /\ Share(p, k) >= 1 /\ Uses(cwd[p], file[p], r, k)
  BY <1>2, <1>3, <1>11, InUse
<1>13. ASSUME NEW i \in Inum PROVE Cached(p, i)
  <2>1. Kept(i)
    BY <1>7 DEF Kept, Mem, SameCopy, One
  <2>2. ~Freed(r, i) /\ ~Ahead(file[p], r, i)
    BY <1>1 DEF Freed, Ahead
  <2>3. ASSUME Mem(i), ~(icache'[i].ref > 0 /\ icache'[i].valid)
        PROVE  icache[i].addr = dinode[i].addr
    <3>1. i = k /\ icache[i].ref = 1
      BY <1>7, <2>3 DEF Mem, One
    <3>2. ASSUME NEW q \in Process, Ahead(file[q], t[q], i) PROVE FALSE
      <4>1. q # p
        BY <2>2, <3>2
      <4>2. Share(q, i) >= 1
        BY <1>2, <3>2, OneKeeper, InUse
      <4>3. Share(p, i) \in 0..7 /\ Share(q, i) \in 0..7
        BY ShareIs DEF Share
      <4> QED
        BY <1>2, <1>12, <3>1, <4>1, <4>2, <4>3, Shared
    <3> QED
      BY <1>2, <2>3, <3>2 DEF CopyInv, CopyAt
  <2> QED
    BY <2>1, <2>2, <2>3 DEF Cached
<1>14. ASSUME NEW i \in Inum PROVE Released(p, i)
  <2> SUFFICES ASSUME Uses(cwd[p], file[p], r, i), ~Uses(cwd'[p], file'[p], s, i),
                      dinode'[i].nlink = 0, dinode[i].type # "free"
               PROVE  \E q \in Process \ {p} : Uses(cwd[q], file[q], t[q], i)
    BY DEF Released
  <2>1. i = k
    BY <1>3, <1>11
  <2>2. ASSUME NEW x \in Process, t[x].pc \in {"iget", "fresh"}, t[x].ip = i PROVE FALSE
    <3>1. Sole(t[x], i)
      BY <2>2 DEF Sole, FreshPc
    <3>2. x = p
      BY <3>1, SoleUser
    <3> QED
      BY <1>1, <2>2, <3>2
  <2>3. icache[i].valid
    <3>1. dinode[i].nlink = 0
      BY <1>1
    <3> QED
      BY <1>12, <2>1, <2>2, <3>1 DEF DInv, FreeInv
  <2>4. icache[i].nlink = 0
    BY <1>1, <1>2, <1>12, <2>1, <2>3 DEF CopyInv, CopyAt, Mem
  <2>5. icache[i].ref # 1
    BY <1>1, <2>1, <2>3, <2>4 DEF LastRef
  <2>6. Share(p, i) = 1
    <3>1. cwd[p] # i /\ file[p] # i /\ r.at # i /\ r.dp # i /\ r.ip # i /\ Second(r) # i
          /\ First(r) = i
      BY <1>3, <1>6, <1>11, <2>1 DEF Inum, None
    <3> QED
      BY <3>1 DEF Share, Owns, One
  <2>7. PICK q \in Process \ {p} : Share(q, i) >= 1
    BY <1>2, <1>7, <1>12, <2>1, <2>5, <2>6, Shared
  <2>8. CASE Freed(t[q], i)
    <3>1. Ending(q)
      BY DEF DInv, CallInv, CallSound
    <3> QED
      BY <2>2, <2>8, <3>1 DEF Ending, Freed
  <2> QED
    BY <1>2, <2>7, <2>8, InUse
<1>15. ASSUME NEW i \in Inum PROVE Loaded(p, i)
  <2>1. icache[i].ref > 0 \/ ~(icache'[i].ref > 0)
    BY <1>7 DEF One
  <2> QED
    BY <1>1, <1>7, <2>1 DEF Loaded, SameCopy
<1>16. ASSUME NEW i \in Inum
       PROVE  /\ Owned(p, i) /\ ~Unbuilt(r, i) /\ ~Building(r, i)
              /\ PendIp(s, i) <=> PendIp(r, i)
              /\ PendDp(s, i) <=> PendDp(r, i)
  <2>1. Owned(p, i)
    BY <1>8 DEF Owned, Sole
  <2>2. ~Unbuilt(r, i) /\ ~Building(r, i)
    BY <1>9 DEF Unbuilt, Building, FreshPc
  <2>3. /\ PendIp(s, i) <=> PendIp(r, i)
        /\ ~PendDp(s, i) /\ ~PendDp(r, i)
    BY <1>3, <1>8, <1>9 DEF PendIp, PendDp, DpPc
  <2> QED
    BY <2>1, <2>2, <2>3
<1>17. /\ s.pc \notin {"uplink", "balloc", "dots", "name", "downlink"}
       /\ r.pc \notin {"iget", "fresh"} /\ s.pc # "downlink"
  BY <1>1, <1>8 DEF DpPc
<1>18. \A i \in Inum : Uses(cwd'[p], file'[p], s, i) => Uses(cwd[p], file[p], r, i)
  BY <1>11
<1> HIDE DEF r, s
<1> QED
  BY <1>1, <1>4, <1>5, <1>10, <1>13, <1>14, <1>15, <1>16, <1>17, <1>18, Quiet DEF r, s

-----------------------------------------------------------------------------
\* What a process uses while it puts references.
LEMMA PutUses ==
  ASSUME NEW r, r.pc \in PutPc, r.dp = None, NEW c, NEW f, NEW i \in Inum
  PROVE  Uses(c, f, r, i) <=> \/ c = i \/ f = i \/ r.at = i \/ r.ip = i \/ Second(r) = i
                              \/ First(r) = i /\ r.pc # "iputend"
<1>1. r.pc \notin FreshPc /\ i # None
  BY DEF PutPc, FreshPc, Inum, None
<1> QED
  BY <1>1 DEF Uses, Else

\* A call that puts references has given up its directory, and is about to put one.
LEMMA PutDp ==
  ASSUME DInv, NEW p \in Process, t[p].pc \in PutPc
  PROVE  /\ Label(t[p]) \in ThenPc /\ Label(t[p]) \notin DpPc /\ t[p].dp = None
         /\ First(t[p]) = Put(p) /\ Put(p) \in Inum
<1>1. CallTyped(t[p]) /\ PointersSet(t[p])
  BY Before DEF Sound
<1>2. Label(t[p]) \in ThenPc
  BY <1>1 DEF CallTyped, Label
<1>3. First(t[p]) = Put(p) /\ Put(p) \in Inum
  BY PointersTyped DEF DInv
<1> QED
  BY <1>1, <1>2, <1>3 DEF PointersSet, ThenPc, DpPc

\* iput() locks an inode that has lost its last name and user.
LEMMA IputLastDInv ==
  ASSUME DInv, NEW p \in Process, IInv', IputLast(p)
  PROVE  DInv' /\ SameTree
<1> DEFINE r == t[p]
           s == t'[p]
           k == Put(p)
<1>1. /\ r.pc = "iput" /\ LastRef(k) /\ icache[k].busy = NoProcess
      /\ icache' = [icache EXCEPT ![k].busy = p]
      /\ Set(p, [pc |-> "itrunc"]) /\ r.pc \in PutPc
      /\ UNCHANGED <<dinode, bitmap, dirent, cwd, file, calls, programs>>
  BY DEF IputLast, disk, Still, PutPc
<1>2. IInv /\ LockInv /\ CopyInv /\ CacheTyped(icache) /\ CallSound(p)
  BY Before DEF DInv, IInv
<1>3. /\ \A q \in Process \ {p} : t'[q] = t[q]
      /\ s.pc = "itrunc" /\ Label(s) = Label(r)
      /\ s.at = r.at /\ s.dp = r.dp /\ s.ip = r.ip /\ s.job = r.job /\ s.path = r.path
      /\ First(s) = First(r) /\ Second(s) = Second(r)
  BY <1>1, <1>2, Putting DEF PutPc
<1>4. Label(r) \in ThenPc /\ r.dp = None /\ First(r) = k /\ k \in Inum
  BY <1>1, PutDp
<1>5. Others(p)
  BY <1>1, <1>3 DEF Others
<1> HIDE DEF k
<1>6. ASSUME NEW i \in Inum
      PROVE  /\ SameCopy(icache'[i], icache[i]) /\ icache'[i].valid = icache[i].valid
             /\ icache'[i].busy = IF k = i THEN p ELSE icache[i].busy
             /\ icache'[i].ref = icache[i].ref
  <2>1. icache' = SetBusy(icache, k, p)
    BY <1>1 DEF SetBusy
  <2> QED
    BY <1>2, <1>4, <2>1, BusyIs
<1>7. ASSUME NEW i \in Inum
      PROVE  Uses(cwd'[p], file'[p], s, i) <=> Uses(cwd[p], file[p], r, i)
  <2>1. s.pc \in PutPc /\ s.dp = None
    BY <1>3, <1>4 DEF PutPc
  <2>2. Uses(cwd[p], file[p], r, i) <=>
            \/ cwd[p] = i \/ file[p] = i \/ r.at = i \/ r.ip = i \/ Second(r) = i
            \/ First(r) = i /\ r.pc # "iputend"
    BY <1>1, <1>4, PutUses
  <2>3. Uses(cwd'[p], file'[p], s, i) <=>
            \/ cwd'[p] = i \/ file'[p] = i \/ s.at = i \/ s.ip = i \/ Second(s) = i
            \/ First(s) = i /\ s.pc # "iputend"
    BY <2>1, PutUses
  <2> HIDE DEF r, s
  <2> QED
    BY <1>1, <1>3, <2>2, <2>3
<1>8. Uses(cwd[p], file[p], r, k) /\ Mem(k) /\ icache[k].ref = 1 /\ Share(p, k) = 1
  <2>1. Uses(cwd[p], file[p], r, k)
    BY <1>1, <1>4, PutUses
  <2>2. Share(p, k) >= 1 /\ Share(p, k) \in 0..7 /\ icache[k].ref = 1
    BY <1>1, <1>2, <1>4, InUse, ShareIs DEF Share, LastRef
  <2>3. Share(p, k) = 1
    BY <1>2, <1>4, <2>2, Shared
  <2> QED
    BY <1>1, <2>1, <2>2, <2>3 DEF Mem, LastRef
<1>9. dinode[k].nlink = 0 /\ dinode[k].type # "free"
  BY <1>1, <1>2, <1>4, <1>8 DEF CopyInv, CopyAt, LastRef, DInv, PointInv
<1>10. k # Root /\ \A l \in Links : l[3] # k
  BY <1>2, <1>4, <1>9, Dues DEF DInv
<1>11. ~Else(cwd'[p], file'[p], s, k)
  <2>1. /\ cwd[p] # k /\ file[p] # k /\ r.at # k /\ r.dp # k /\ Second(r) # k
        /\ r.ip # k
    BY <1>1, <1>4, <1>8, ShareIs DEF Share, Inum, None
  <2> QED
    BY <1>1, <1>3, <2>1 DEF Else
<1>12. ASSUME NEW q \in Process \ {p}, Uses(cwd[q], file[q], t[q], k) PROVE FALSE
  <2>1. ~(t[q].pc = "iget" /\ t[q].ip = k)
    <3>1. SUFFICES ASSUME t[q].pc = "iget" /\ t[q].ip = k PROVE FALSE
      OBVIOUS
    <3>2. Sole(t[q], k)
      BY <3>1 DEF Sole, FreshPc
    <3> QED
      BY <1>4, <1>8, <3>2, SoleUser
  <2>2. Share(q, k) >= 1 /\ Share(q, k) \in 0..7
    BY <1>2, <1>4, <1>12, <2>1, InUse, ShareIs DEF Share
  <2> QED
    BY <1>2, <1>4, <1>8, <2>2, Shared
<1>13. ASSUME NEW i \in Inum PROVE Held(p, i)
  <2>1. Keeps(file'[p], s, k)
    BY <1>3, <1>4 DEF Keeps, EndPc
  <2>2. i # k => (Keeps(file'[p], s, i) <=> Keeps(file[p], r, i))
    BY <1>1, <1>3, <1>4 DEF Keeps, EndPc, DpPc
  <2>3. icache'[i].busy # NoProcess => icache'[i].valid
    BY <1>2, <1>6, <1>8 DEF LockInv, Mem
  <2> QED
    BY <1>1, <1>6, <2>1, <2>2, <2>3 DEF Held
<1>14. ASSUME NEW i \in Inum PROVE Cached(p, i)
  <2>1. Kept(i) /\ (Mem(i) => icache'[i].ref > 0 /\ icache'[i].valid)
    BY <1>6 DEF Kept, Mem, SameCopy
  <2>2. ~Freed(r, i) /\ ~Ahead(file[p], r, i)
    BY <1>1 DEF Freed, Ahead
  <2> QED
    BY <2>1, <2>2 DEF Cached
<1>15. ASSUME NEW i \in Inum PROVE Released(p, i) /\ Loaded(p, i)
  BY <1>1, <1>6, <1>7 DEF Released, Loaded, SameCopy
<1>16. ASSUME NEW i \in Inum PROVE Owned(p, i)
  <2>1. s.pc \notin FreshPc
    BY <1>3 DEF FreshPc
  <2>2. Sole(s, i) => i = k
    BY <1>3, <1>4, <2>1 DEF Sole
  <2> QED
    BY <1>10, <1>11, <1>12, <2>1, <2>2 DEF Owned
<1>17. ASSUME NEW i \in Inum
       PROVE  /\ ~Unbuilt(r, i) /\ ~Building(r, i)
              /\ PendIp(s, i) <=> PendIp(r, i)
              /\ PendDp(s, i) <=> PendDp(r, i)
  BY <1>1, <1>3 DEF Unbuilt, Building, FreshPc, PendIp, PendDp
<1>18. CallSound(p)'
  <2>1. Typing(p)'
    BY <1>1, <1>2, <1>3, <1>4 DEF CallSound, Typing, FreshPc
  <2>2. Ending(p)'
    BY <1>1, <1>3, <1>4, <1>9 DEF Ending
  <2>3. Making(p)'
    BY <1>3 DEF Making, FreshPc, Made
  <2>4. Going(p)'
    <3>1. Going(p)
      BY <1>2 DEF CallSound
    <3>2. s.pc \notin FreshPc \cup {"ialloc", "victim"}
      BY <1>3 DEF FreshPc
    <3> QED
      BY <1>1, <1>3, <3>1, <3>2 DEF Going, NoDots
  <2> QED
    BY <2>1, <2>2, <2>3, <2>4 DEF CallSound
<1> HIDE DEF r, s
<1> QED
  BY <1>1, <1>3, <1>5, <1>7, <1>13, <1>14, <1>15, <1>16, <1>17, <1>18, Quiet DEF r, s

\* iput() wakes up who waits and lets the reference go.
LEMMA IputEndDInv ==
  ASSUME DInv, NEW p \in Process, IInv', IputEnd(p)
  PROVE  DInv' /\ SameTree
<1> DEFINE r == t[p]
           s == t'[p]
           k == Put(p)
           no == FALSE
           c1 == SetRef(icache, k, icache[k].ref - 1)
           c2 == SetBusy(c1, k, NoProcess)
<1>1. /\ r.pc = "iputend"
      /\ icache' = [icache EXCEPT ![k].ref = @ - 1, ![k].busy = NoProcess, ![k].valid = FALSE]
      /\ Set(p, Next1(p)) /\ r.pc \in PutPc
      /\ UNCHANGED <<dinode, bitmap, dirent, cwd, file, calls, programs>>
  BY DEF IputEnd, disk, Still, PutPc
<1>2. IInv /\ LockInv /\ CopyInv /\ CacheTyped(icache) /\ CallSound(p)
  BY Before DEF DInv, IInv
<1>3. /\ \A q \in Process \ {p} : t'[q] = t[q]
      /\ s.pc \in ThenPc \cup {"iput"} /\ Label(s) = Label(r)
      /\ s.at = r.at /\ s.dp = r.dp /\ s.ip = r.ip /\ s.job = r.job /\ s.path = r.path
      /\ First(r) = k /\ First(s) = Second(r) /\ Second(s) = None /\ k \in Inum
  BY <1>1, <1>2, PutDone
<1>4. Label(r) \notin DpPc /\ r.dp = None
  BY <1>1, PutDp
<1>5. Others(p)
  BY <1>1, <1>3 DEF Others
<1>6. /\ Keeps(file[p], r, k) /\ ~Uses(cwd[p], file[p], r, k)
      /\ dinode[k].nlink = 0 /\ icache[k].addr = None /\ dinode[k].addr = None
  BY <1>1, <1>3, EndUnused
<1>7. ASSUME NEW i \in Inum
      PROVE  /\ SameCopy(icache'[i], icache[i])
             /\ icache'[i].valid = IF k = i THEN no ELSE icache[i].valid
             /\ icache'[i].busy = IF k = i THEN NoProcess ELSE icache[i].busy
             /\ icache'[i].ref = icache[i].ref - One(i = k)
             /\ icache[i].ref \in Nat
  <2>0. k \in Inum /\ icache[i].ref \in Nat
    BY <1>2, <1>3 DEF IInv, TypeOK
  <2>1. icache' = SetValid(c2, k, no)
    <3>1. icache = [x \in Inum |-> icache[x]]
      BY <1>2 DEF CacheTyped
    <3> QED
      BY <1>1, <1>3, <3>1 DEF SetRef, SetBusy, SetValid
  <2>2. CacheTyped(c1)
    <3> DEFINE a == [icache[k] EXCEPT !.ref = @ - 1]
    <3>1. SlotTyped(icache[k])
      BY <1>2, <1>3 DEF CacheTyped
    <3>2. a = [f \in SlotFields |-> IF f = "ref" THEN icache[k].ref - 1 ELSE icache[k][f]]
      BY <3>1 DEF SlotTyped, SlotFields
    <3>3. SlotTyped(a)
      <4> HIDE DEF a
      <4> QED
        BY <3>1, <3>2 DEF SlotTyped, SlotFields
    <3>4. c1 = [icache EXCEPT ![k] = a]
      BY DEF SetRef
    <3> HIDE DEF a, c1
    <3> QED
      BY <1>2, <1>3, <3>3, <3>4, CacheSlot
  <2>3. CacheTyped(c2)
    <3> HIDE DEF c1
    <3>1. CacheTyped([c1 EXCEPT ![k].busy = NoProcess])
      BY <1>3, <2>2, CacheBusy
    <3> QED
      BY <3>1 DEF SetBusy
  <2>4. /\ SameCopy(c1[i], icache[i]) /\ c1[i].valid = icache[i].valid
        /\ c1[i].busy = icache[i].busy
        /\ c1[i].ref = IF k = i THEN icache[k].ref - 1 ELSE icache[i].ref
    BY <1>2, <1>3, RefIs
  <2> HIDE DEF c1, k
  <2>5. /\ SameCopy(c2[i], c1[i]) /\ c2[i].valid = c1[i].valid /\ c2[i].ref = c1[i].ref
        /\ c2[i].busy = IF k = i THEN NoProcess ELSE c1[i].busy
    BY <2>0, <2>2, BusyIs
  <2> HIDE DEF c2, no
  <2>6. /\ SameCopy(icache'[i], c2[i]) /\ icache'[i].ref = c2[i].ref
        /\ icache'[i].busy = c2[i].busy
        /\ icache'[i].valid = IF k = i THEN no ELSE c2[i].valid
    BY <2>0, <2>1, <2>3, ValidIs
  <2>7. icache'[i].ref = icache[i].ref - One(i = k)
    BY <2>0, <2>4, <2>5, <2>6 DEF One
  <2> QED
    BY <2>0, <2>4, <2>5, <2>6, <2>7 DEF SameCopy
<1>20. icache'[k].valid = FALSE /\ \A i \in Inum \ {k} : icache'[i].valid = icache[i].valid
  BY <1>3, <1>7
<1> HIDE DEF k, c1, c2, no
<1>8. s.pc \notin DpPc \cup EndPc \cup FreshPc \cup {"grow", "itrunc", "ifree", "downlink"}
  BY <1>3 DEF ThenPc, DpPc, EndPc, FreshPc
<1>9. ASSUME NEW i \in Inum
      PROVE  Uses(cwd'[p], file'[p], s, i) <=> Uses(cwd[p], file[p], r, i)
  <2>1. Uses(cwd[p], file[p], r, i) <=>
            \/ cwd[p] = i \/ file[p] = i \/ r.at = i \/ r.ip = i \/ Second(r) = i
    BY <1>1, <1>4, PutUses
  <2>2. Uses(cwd'[p], file'[p], s, i) <=>
            \/ cwd'[p] = i \/ file'[p] = i \/ s.at = i \/ s.ip = i \/ First(s) = i
    <3>1. i # None
      BY DEF Inum, None
    <3>2. s.pc # "iputend" /\ s.pc \notin FreshPc
      BY <1>8 DEF EndPc
    <3> QED
      BY <1>3, <1>4, <3>1, <3>2 DEF Uses, Else
  <2> HIDE DEF r, s
  <2> QED
    BY <1>1, <1>3, <2>1, <2>2
<1>10. r.ip # k
  BY <1>1, <1>3, <1>4, <1>6, PutUses
<1>11. Mem(k) /\ icache[k].busy = p
  BY <1>2, <1>3, <1>6, OneKeeper
<1>12. ASSUME NEW i \in Inum PROVE Held(p, i)
  <2>1. i # k => (Keeps(file'[p], s, i) <=> Keeps(file[p], r, i))
    BY <1>1, <1>3, <1>8 DEF Keeps, EndPc, DpPc
  <2>2. ~Keeps(file'[p], s, k)
    BY <1>3, <1>8, <1>10 DEF Keeps
  <2>3. icache'[i].busy # NoProcess => icache'[i].valid
    BY <1>2, <1>7, <1>20 DEF LockInv
  <2> QED
    BY <1>7, <1>11, <2>1, <2>2, <2>3 DEF Held
<1>13. ASSUME NEW i \in Inum PROVE Cached(p, i)
  <2>1. Kept(i)
    <3>1. icache'[i].ref > 0 /\ icache'[i].valid => Mem(i)
      BY <1>7, <1>20 DEF Mem, One
    <3> QED
      BY <1>7, <3>1 DEF Kept
  <2>2. Mem(i) /\ ~(icache'[i].ref > 0 /\ icache'[i].valid) => icache[i].addr = dinode[i].addr
    BY <1>6, <1>7, <1>20 DEF Mem, One
  <2>3. icache'[i].valid => ~Freed(r, i) /\ ~Ahead(file[p], r, i)
    BY <1>1, <1>3, <1>20 DEF Freed, Ahead
  <2> QED
    BY <2>1, <2>2, <2>3 DEF Cached
<1>14. ASSUME NEW i \in Inum PROVE Released(p, i)
  BY <1>9 DEF Released
<1>15. ASSUME NEW i \in Inum PROVE Loaded(p, i)
  <2>1. CASE i # k
    <3>1. icache'[i].ref = icache[i].ref /\ icache'[i].valid = icache[i].valid
      BY <1>7, <1>20, <2>1 DEF One
    <3> QED
      BY <1>1, <3>1 DEF Loaded, SameCopy
  <2>2. CASE i = k
    <3> SUFFICES ASSUME dinode[k].type # "free", icache'[k].ref > 0
                 PROVE  \E q \in Process \ {p} : t[q].pc = "fresh" /\ t[q].ip = k
      BY <2>2 DEF Loaded
    <3>1. PICK x \in Process : t[x].pc \in {"iget", "fresh"} /\ t[x].ip = k
      BY <1>1, <1>2, <1>3 DEF CallSound, Ending
    <3>2. Sole(t[x], k) /\ x # p
      BY <1>1, <3>1 DEF Sole, FreshPc
    <3>3. Share(p, k) = 1
      <4>1. /\ cwd[p] # k /\ file[p] # k /\ r.at # k /\ r.dp # k /\ r.ip # k
            /\ Second(r) # k /\ First(r) = k
        BY <1>1, <1>3, <1>4, <1>6, PutUses DEF Inum, None
      <4> QED
        BY <4>1 DEF Share, Owns, One
    <3>4. icache[k].ref > 1
      BY <1>3, <1>7 DEF One
    <3>5. PICK q \in Process \ {p} : Share(q, k) >= 1
      BY <1>2, <1>3, <3>3, <3>4, Shared
    <3>6. ~Freed(t[q], k)
      BY <1>2, <1>3, <1>6, OneKeeper
    <3>7. Uses(cwd[q], file[q], t[q], k)
      BY <1>2, <1>3, <3>5, <3>6, InUse
    <3>8. q = x
      BY <1>3, <3>2, <3>7, SoleUser
    <3>9. t[x].pc # "iget"
      <4>1. SUFFICES ASSUME t[x].pc = "iget" PROVE FALSE
        OBVIOUS
      <4>2. ~Else(cwd[x], file[x], t[x], k)
        BY <1>3, <3>2 DEF DInv, SoleInv
      <4>3. First(t[x]) = None
        BY <1>2, <4>1, PointersTyped DEF PutPc
      <4>4. k # None
        BY <1>3 DEF Inum, None
      <4>5. Share(x, k) = 0
        BY <4>1, <4>2, <4>3, <4>4 DEF Else, Share, Owns, One
      <4> QED
        BY <3>5, <3>8, <4>5
    <3> QED
      BY <3>1, <3>2, <3>9
  <2> QED
    BY <2>1, <2>2
<1>16. ASSUME NEW i \in Inum
       PROVE  /\ Owned(p, i) /\ ~Unbuilt(r, i) /\ ~Building(r, i)
              /\ PendIp(s, i) <=> PendIp(r, i)
              /\ PendDp(s, i) <=> PendDp(r, i)
  <2>1. Owned(p, i)
    BY <1>8 DEF Owned, Sole
  <2>2. ~Unbuilt(r, i) /\ ~Building(r, i)
    BY <1>1 DEF Unbuilt, Building, FreshPc
  <2>3. /\ PendIp(s, i) <=> PendIp(r, i)
        /\ ~PendDp(s, i) /\ ~PendDp(r, i)
    BY <1>1, <1>3, <1>8 DEF PendIp, PendDp, DpPc
  <2> QED
    BY <2>1, <2>2, <2>3
<1>17. /\ s.pc \notin {"uplink", "balloc", "dots", "name", "downlink"}
       /\ r.pc \notin {"iget", "fresh"} /\ s.pc # "downlink"
  BY <1>1, <1>8 DEF DpPc
<1>18. CallSound(p)'
  BY <1>1, <1>3, PutCall
<1> HIDE DEF r, s
<1> QED
  BY <1>1, <1>5, <1>9, <1>12, <1>13, <1>14, <1>15, <1>16, <1>17, <1>18, Quiet DEF r, s

-----------------------------------------------------------------------------
(* The directory stays locked *)

\* A name that is looked up has no dots where programs name none.
LEMMA LastName ==
  ASSUME DInv, NEW p \in Process, t[p].pc \in {"create", "unlink", "enter", "ialloc", "victim"} \cup FreshPc
  PROVE  Elem(p) \in Entry /\ (Elem(p) = ".." => ~NoDots(programs))
<1>1. Going(p) /\ t[p].path \in Seq(Entry)
  BY Before DEF CallSound, Sound, CallTyped
<1>2. Label(t[p]) = t[p].pc /\ t[p].pc \in LookPc /\ t[p].pc # "walk"
  BY DEF Label, PutPc, FreshPc, LookPc
<1>3. Len(t[p].path) = 1
  BY <1>1, <1>2 DEF Going
<1>4. 1 \in 1..Len(t[p].path) /\ t[p].path[1] \in Entry
  BY <1>1, <1>3
<1> QED
  BY <1>1, <1>2, <1>4 DEF Going, Elem

\* create() finds its name free.
LEMMA CreateNewDInv ==
  ASSUME DInv, Orderly, NEW p \in Process, IInv', CreateNew(p)
  PROVE  DInv' /\ SameTree
<1> DEFINE r == t[p]
           s == t'[p]
           j == r.at
<1>1. /\ r.pc = "create" /\ r.pc \in AtPc /\ At(p, "create")
      /\ lookup(j, Elem(p)) = None
      /\ icache' = ilock(icache, j, p)
      /\ Set(p, [at |-> None, dp |-> j, pc |-> "ialloc"])
      /\ UNCHANGED <<dinode, bitmap, dirent, cwd, file, calls, programs>>
  BY DEF CreateNew, disk, Still, At, AtPc, Dir
<1>2. /\ IInv /\ j \in Inum /\ r.dp = None /\ r.ip = None
      /\ Calm(r) /\ Label(r) = r.pc
      /\ First(r) = None /\ Second(r) = None /\ CallSound(p)
      /\ Uses(cwd[p], file[p], r, j) /\ ~Sole(r, j) /\ icache[j].ref > 0
  BY <1>1, Before
<1>3. icache[j].busy = NoProcess /\ dinode[j].type = "dir"
  BY <1>1, <1>2, Looks DEF CallSound, Typing
<1>4. Elem(p) # ".." /\ dirent[Addr(j)][Elem(p)] = None
  BY <1>1, <1>2, <1>3, LastName, Finds
<1> HIDE DEF j
<1>5. ASSUME NEW i \in Inum
      PROVE  /\ icache'[i].ref = icache[i].ref /\ icache'[i].busy = IF j = i THEN p ELSE icache[i].busy
             /\ (i = j \/ icache[i].valid) => icache'[i].valid
             /\ i # j => icache'[i].valid = icache[i].valid
             /\ Kept(i)
  <2>1. TypeOK /\ CacheTyped(icache)
    BY <1>2 DEF IInv
  <2>2. LET d == ilock(icache, j, p) IN
         /\ d[i].ref = icache[i].ref /\ d[i].busy = IF j = i THEN p ELSE icache[i].busy
         /\ j = i => d[i].valid
         /\ icache[i].valid => d[i].valid
         /\ j # i => d[i].valid = icache[i].valid
         /\ icache[i].valid \/ j # i => SameCopy(d[i], icache[i])
         /\ j = i /\ ~icache[i].valid => SameCopy(d[i], dinode[i])
    BY <1>2, <2>1, LockIs
  <2> QED
    BY <1>1, <2>2 DEF Kept, Mem, SameCopy
<1>6. /\ \A q \in Process \ {p} : t'[q] = t[q]
      /\ s.pc = "ialloc" /\ Label(s) = "ialloc"
      /\ First(s) = None /\ Second(s) = None
      /\ s.at = None /\ s.dp = j /\ s.ip = None /\ s.job = r.job /\ s.path = r.path
  BY <1>1, <1>2, Goes DEF PutPc
<1>7. Others(p)
  BY <1>1, <1>6 DEF Others
<1>8. ASSUME NEW i \in Inum
      PROVE  Uses(cwd'[p], file'[p], s, i) <=> Uses(cwd[p], file[p], r, i)
  <2>1. Uses(cwd[p], file[p], r, i) <=>
            \/ cwd[p] = i \/ file[p] = i \/ r.at = i \/ r.dp = i \/ r.ip = i
            \/ First(r) = i \/ Second(r) = i
    BY <1>2, CalmUses
  <2>2. i # None
    BY DEF Inum, None
  <2> QED
    BY <1>1, <1>2, <1>6, <2>1, <2>2 DEF Uses, Else, j
<1>9. ASSUME NEW i \in Inum
      PROVE  ~Keeps(file[p], r, i) /\ ~Freed(r, i) /\ ~Ahead(file[p], r, i)
             /\ ~Unbuilt(r, i) /\ ~Building(r, i) /\ ~PendDp(r, i)
  BY <1>2, CalmIs
<1>10. ASSUME NEW i \in Inum PROVE Held(p, i)
  <2>1. Keeps(file'[p], s, i) <=> i = j
    BY <1>6 DEF Keeps, DpPc, OwnPc, EndPc
  <2> QED
    BY <1>3, <1>5, <1>9, <2>1 DEF Held, DInv, LockInv
<1>11. ASSUME NEW i \in Inum PROVE Cached(p, i)
  BY <1>5, <1>9 DEF Cached, Mem
<1>12. ASSUME NEW i \in Inum PROVE Released(p, i) /\ Loaded(p, i) /\ Owned(p, i)
  <2>1. Loaded(p, i)
    BY <1>1, <1>5 DEF Loaded, SameCopy
  <2>2. ~Sole(s, i)
    BY <1>6 DEF Sole, FreshPc
  <2> QED
    BY <1>8, <2>1, <2>2 DEF Released, Owned
<1>13. ASSUME NEW i \in Inum
       PROVE  /\ PendIp(s, i) <=> PendIp(r, i)
              /\ PendDp(s, i) <=> PendDp(r, i)
  BY <1>1, <1>2, <1>6, <1>9 DEF PendIp, PendDp, DueIp
<1>14. CallSound(p)'
  <2>1. Typing(p)'
    <3>1. dinode[cwd[p]].type = "dir"
      BY <1>2 DEF CallSound, Typing
    <3> QED
      BY <1>1, <1>3, <1>6, <3>1 DEF Typing, FreshPc
  <2>2. Ending(p)' /\ Making(p)'
    BY <1>6 DEF Ending, EndPc, Making, FreshPc, Made
  <2>3. Going(p)'
    <3>1. Going(p)
      BY <1>2 DEF CallSound
    <3>3. ASSUME NEW i \in Inum, i = j PROVE Addr(i)' = Addr(i)
      <4>1. Kept(i) /\ (Mem(i) => icache'[i].ref > 0 /\ icache'[i].valid)
        BY <1>2, <1>5, <3>3 DEF Mem
      <4>2. SameCopy(dinode'[i], dinode[i])
        BY <1>1 DEF SameCopy
      <4> QED
        BY <4>1, <4>2, AddrSame
    <3>4. Elem(p)' = Elem(p)
      BY <1>6 DEF Elem
    <3>5. dirent'[Addr(t[p].dp)'][Elem(p)'] = None /\ Elem(p)' # ".."
      BY <1>1, <1>2, <1>4, <1>6, <3>3, <3>4 DEF Addr
    <3> QED
      BY <1>1, <1>2, <1>6, <3>1, <3>5 DEF Going, LookPc, NoDots, FreshPc
  <2> QED
    BY <2>1, <2>2, <2>3 DEF CallSound
<1>15. /\ s.pc \notin {"uplink", "balloc", "dots", "name", "downlink"}
       /\ r.pc \notin {"iget", "fresh"} /\ s.pc # "downlink"
  BY <1>1, <1>6
<1> HIDE DEF r, s
<1> QED
  BY <1>1, <1>7, <1>8, <1>9, <1>10, <1>11, <1>12, <1>13, <1>14, <1>15, Quiet DEF r, s

\* unlink looks its name up.
LEMMA UnlinkDInv ==
  ASSUME DInv, Orderly, NEW p \in Process, IInv', Unlink(p)
  PROVE  DInv' /\ SameTree
<1> DEFINE r == t[p]
           s == t'[p]
           j == r.at
           f == lookup(j, Elem(p))
           c == ilock(icache, j, p)
<1>1. /\ r.pc = "unlink" /\ r.pc \in AtPc /\ At(p, "unlink")
      /\ f # None /\ Elem(p) # ".."
      /\ icache' = iget(c, f)
      /\ Set(p, [at |-> None, dp |-> j, ip |-> f, pc |-> "victim"])
      /\ UNCHANGED <<dinode, bitmap, dirent, cwd, file, calls, programs>>
  BY DEF Unlink, disk, Still, At, AtPc, Dir
<1>2. /\ IInv /\ j \in Inum /\ r.dp = None /\ r.ip = None
      /\ Calm(r) /\ Label(r) = r.pc
      /\ First(r) = None /\ Second(r) = None /\ CallSound(p)
      /\ Uses(cwd[p], file[p], r, j) /\ ~Sole(r, j) /\ icache[j].ref > 0
  BY <1>1, Before
<1>3. icache[j].busy = NoProcess /\ dinode[j].type = "dir"
  BY <1>1, <1>2, Looks DEF CallSound, Typing
<1>4. Given(f) /\ f = dirent[Addr(j)][Elem(p)]
  BY <1>1, <1>2, <1>3, LastName, Finds
<1> HIDE DEF j, f, c
<1>5. ASSUME NEW i \in Inum
      PROVE  /\ icache'[i].ref = icache[i].ref + One(i = f)
             /\ icache'[i].busy = IF j = i THEN p ELSE icache[i].busy
             /\ (icache[i].ref > 0 /\ (i = j \/ icache[i].valid)) => icache'[i].valid
             /\ icache[i].ref \in Nat
             /\ i # f /\ icache[i].valid => icache'[i].valid
             /\ Kept(i)
  <2>0. f \in Inum /\ icache[i].ref \in Nat /\ icache[f].ref \in Nat
    BY <1>2, <1>4 DEF IInv, TypeOK, Given
  <2>1. TypeOK /\ CacheTyped(icache)
    BY <1>2 DEF IInv
  <2>2. /\ c[i].ref = icache[i].ref /\ c[i].busy = IF j = i THEN p ELSE icache[i].busy
        /\ j = i => c[i].valid
        /\ icache[i].valid => c[i].valid
        /\ j # i => c[i].valid = icache[i].valid
        /\ icache[i].valid \/ j # i => SameCopy(c[i], icache[i])
        /\ j = i /\ ~icache[i].valid => SameCopy(c[i], dinode[i])
        /\ c[f].ref = icache[f].ref
    BY <1>2, <2>0, <2>1, LockIs DEF c
  <2>3. CacheTyped(c)
    BY <1>2, <2>1, CacheLock DEF c
  <2>4. LET d == iget(c, f) IN
        /\ d[i].ref = c[i].ref + One(f = i) /\ d[i].busy = c[i].busy /\ SameCopy(d[i], c[i])
        /\ f # i \/ c[i].ref > 0 => d[i].valid = c[i].valid
        /\ f = i /\ ~(c[i].ref > 0) => ~d[i].valid
    BY <2>0, <2>2, <2>3, GetIs
  <2>5. Mem(i) => SameCopy(icache'[i], icache[i])
    BY <1>1, <2>2, <2>4 DEF Mem, SameCopy
  <2>6. icache'[i].ref > 0 /\ icache'[i].valid => Mem(i) \/ SameCopy(icache'[i], dinode[i])
    <3>1. SUFFICES ASSUME icache'[i].ref > 0, icache'[i].valid, ~Mem(i)
                   PROVE  SameCopy(icache'[i], dinode[i])
      OBVIOUS
    <3>2. icache[i].ref > 0
      <4>1. CASE i = f
        BY <1>1, <2>0, <2>2, <2>4, <3>1, <4>1
      <4>2. CASE i # f
        BY <1>1, <2>0, <2>2, <2>4, <3>1, <4>2 DEF One
      <4> QED
        BY <4>1, <4>2
    <3>3. ~icache[i].valid /\ j = i
      BY <1>1, <2>2, <2>4, <3>1, <3>2 DEF Mem
    <3> QED
      BY <1>1, <2>2, <2>4, <3>3 DEF SameCopy
  <2>7. Kept(i)
    BY <2>5, <2>6 DEF Kept
  <2> QED
    BY <1>1, <2>0, <2>2, <2>4, <2>7 DEF One
<1>6. /\ \A q \in Process \ {p} : t'[q] = t[q]
      /\ s.pc = "victim" /\ Label(s) = "victim"
      /\ First(s) = None /\ Second(s) = None
      /\ s.at = None /\ s.dp = j /\ s.ip = f /\ s.job = r.job /\ s.path = r.path
  BY <1>1, <1>2, Goes DEF PutPc
<1>7. Others(p)
  BY <1>1, <1>6 DEF Others
<1>8. ASSUME NEW i \in Inum
      PROVE  Uses(cwd'[p], file'[p], s, i) <=> Uses(cwd[p], file[p], r, i) \/ i = f
  <2>1. Uses(cwd[p], file[p], r, i) <=>
            \/ cwd[p] = i \/ file[p] = i \/ r.at = i \/ r.dp = i \/ r.ip = i
            \/ First(r) = i \/ Second(r) = i
    BY <1>2, CalmUses
  <2>2. i # None
    BY DEF Inum, None
  <2> QED
    BY <1>1, <1>2, <1>6, <2>1, <2>2 DEF Uses, Else, j
<1>9. ASSUME NEW i \in Inum
      PROVE  ~Keeps(file[p], r, i) /\ ~Freed(r, i) /\ ~Ahead(file[p], r, i)
             /\ ~Unbuilt(r, i) /\ ~Building(r, i) /\ ~PendDp(r, i)
  BY <1>2, CalmIs
<1>10. ASSUME NEW i \in Inum PROVE Held(p, i)
  <2>1. Keeps(file'[p], s, i) <=> i = j
    BY <1>6 DEF Keeps, DpPc, OwnPc, EndPc
  <2>2. icache'[i].busy # NoProcess => icache'[i].valid
    <3>1. CASE i = j
      BY <1>2, <1>5, <3>1
    <3>2. CASE i # j
      <4>1. SUFFICES ASSUME icache[i].busy # NoProcess PROVE icache'[i].valid
        BY <1>5, <3>2
      <4>2. icache[i].busy \in Process
        BY <1>2, <4>1 DEF IInv, CacheTyped, SlotTyped
      <4>3. Mem(i)
        BY <1>2, <4>2, OneKeeper DEF DInv
      <4> QED
        BY <1>5, <4>3 DEF Mem
    <3> QED
      BY <3>1, <3>2
  <2> QED
    BY <1>3, <1>5, <1>9, <2>1, <2>2 DEF Held
<1>11. ASSUME NEW i \in Inum PROVE Cached(p, i)
  <2>1. Mem(i) => icache'[i].ref > 0 /\ icache'[i].valid
    BY <1>5 DEF Mem, One
  <2> QED
    BY <1>5, <1>9, <2>1 DEF Cached
<1>12. ASSUME NEW i \in Inum PROVE Released(p, i) /\ Loaded(p, i) /\ Owned(p, i)
  <2>1. Loaded(p, i)
    <3>1. CASE i = f
      BY <1>1, <1>4, <3>1 DEF Loaded, Given
    <3>2. CASE i # f
      <4>1. icache'[i].ref = icache[i].ref /\ (icache[i].valid => icache'[i].valid)
        BY <1>5, <3>2 DEF One
      <4> QED
        BY <1>1, <4>1 DEF Loaded, SameCopy
    <3> QED
      BY <3>1, <3>2
  <2>2. ~Sole(s, i)
    BY <1>6 DEF Sole, FreshPc
  <2> QED
    BY <1>8, <2>1, <2>2 DEF Released, Owned
<1>13. ASSUME NEW i \in Inum
       PROVE  /\ PendIp(s, i) <=> PendIp(r, i)
              /\ PendDp(s, i) <=> PendDp(r, i)
  BY <1>1, <1>2, <1>6, <1>9 DEF PendIp, PendDp, DueIp
<1>14. CallSound(p)'
  <2>1. Typing(p)'
    <3>1. dinode[cwd[p]].type = "dir"
      BY <1>2 DEF CallSound, Typing
    <3> QED
      BY <1>1, <1>3, <1>6, <3>1 DEF Typing, FreshPc
  <2>2. Ending(p)' /\ Making(p)'
    BY <1>6 DEF Ending, EndPc, Making, FreshPc, Made
  <2>3. Going(p)'
    <3>1. Going(p)
      BY <1>2 DEF CallSound
    <3>3. ASSUME NEW i \in Inum, i = j PROVE Addr(i)' = Addr(i)
      <4>1. Kept(i) /\ (Mem(i) => icache'[i].ref > 0 /\ icache'[i].valid)
        BY <1>2, <1>5, <3>3 DEF Mem, One
      <4>2. SameCopy(dinode'[i], dinode[i])
        BY <1>1 DEF SameCopy
      <4> QED
        BY <4>1, <4>2, AddrSame
    <3>4. Elem(p)' = Elem(p)
      BY <1>6 DEF Elem
    <3>5. dirent'[Addr(t[p].dp)'][Elem(p)'] = s.ip /\ Elem(p)' # ".."
      BY <1>1, <1>2, <1>4, <1>6, <3>3, <3>4 DEF Addr
    <3> QED
      BY <1>1, <1>2, <1>6, <3>1, <3>5 DEF Going, LookPc, NoDots, FreshPc
  <2> QED
    BY <2>1, <2>2, <2>3 DEF CallSound
<1>15. /\ s.pc \notin {"uplink", "balloc", "dots", "name", "downlink"}
       /\ r.pc \notin {"iget", "fresh"} /\ s.pc # "downlink"
  BY <1>1, <1>6
<1>16. \A i \in Inum : Uses(cwd'[p], file'[p], s, i) => Uses(cwd[p], file[p], r, i) \/ Given(i)
  BY <1>4, <1>8
<1> HIDE DEF r, s
<1> QED
  BY <1>1, <1>7, <1>9, <1>10, <1>11, <1>12, <1>13, <1>14, <1>15, <1>16, Quiet DEF r, s

-----------------------------------------------------------------------------
(* A call that has a directory locked *)

\* At most labels a call uses what it points to.
LEMMA PlainUses ==
  ASSUME NEW r, r.pc \notin FreshPc \cup {"iputend"}, NEW i, NEW c, NEW f
  PROVE  Uses(c, f, r, i) <=> \/ c = i \/ f = i \/ r.at = i \/ r.dp = i \/ r.ip = i
                              \/ First(r) = i \/ Second(r) = i
BY DEF Uses, Else

\* A call that works in a directory holds it.
LEMMA Holds ==
  ASSUME DInv, NEW p \in Process, t[p].pc \in DpPc
  PROVE  /\ IInv /\ CallSound(p) /\ cwd[p] \in Inum /\ Label(t[p]) = t[p].pc
         /\ t[p].dp \in Inum /\ t[p].at = None /\ First(t[p]) = None /\ Second(t[p]) = None
         /\ t[p].pc # "ialloc" => t[p].ip \in Inum
         /\ t[p].pc = "ialloc" => t[p].ip = None
         /\ t[p].job \in Jobs[programs] /\ t[p].path \in Seq(Entry)
         /\ Keeps(file[p], t[p], t[p].dp) /\ Mem(t[p].dp) /\ icache[t[p].dp].busy = p
         /\ Uses(cwd[p], file[p], t[p], t[p].dp) /\ ~Sole(t[p], t[p].dp)
         /\ dinode[t[p].dp].type = "dir" /\ Addr(t[p].dp) # None
<1> DEFINE r == t[p]
<1>1. IInv /\ Sound(r, file[p]) /\ CallSound(p) /\ cwd[p] \in Inum
  BY Before
<1>2. r.pc \notin PutPc \cup AtPc \cup {"idle", "walk"} /\ Label(r) = r.pc
      /\ (r.pc # "ialloc" => r.pc \in IpPc) /\ (r.pc = "ialloc" => r.pc \notin IpPc)
  BY DEF DpPc, AtPc, PutPc, IpPc, Label
<1>3. /\ r.dp \in Inum /\ r.at = None
      /\ r.pc # "ialloc" => r.ip \in Inum
      /\ r.pc = "ialloc" => r.ip = None
  BY <1>1, <1>2 DEF Sound, PointersSet
<1>4. First(r) = None /\ Second(r) = None
  BY <1>1, <1>2, PointersTyped
<1>5. r.job \in Jobs[programs] /\ r.path \in Seq(Entry)
  BY <1>1, <1>2 DEF Sound, CallTyped
<1>6. Keeps(file[p], r, r.dp) /\ Else(cwd[p], file[p], r, r.dp)
  BY DEF Keeps, Else
<1>7. Mem(r.dp) /\ icache[r.dp].busy = p
  BY <1>3, <1>6, OneKeeper DEF DInv
<1>8. Uses(cwd[p], file[p], r, r.dp) /\ ~Sole(r, r.dp)
  BY <1>3, <1>6 DEF Uses, DInv, SoleInv
<1>9. dinode[r.dp].type = "dir"
  BY <1>1, <1>3 DEF CallSound, Typing, Inum, None
<1>10. Addr(r.dp) # None
  BY <1>3, <1>8, <1>9, DirBlock
<1> QED
  BY <1>1, <1>2, <1>3, <1>4, <1>5, <1>6, <1>7, <1>8, <1>9, <1>10

\* What a call that makes an inode has of it.
LEMMA Makes ==
  ASSUME DInv, NEW p \in Process, t[p].pc \in FreshPc
  PROVE  /\ t[p].pc \in DpPc /\ Sole(t[p], t[p].ip) /\ t[p].ip \in Inum
         /\ t[p].ip # t[p].dp /\ t[p].ip # Root /\ t[p].ip # cwd[p] /\ t[p].ip # file[p]
         /\ Uses(cwd[p], file[p], t[p], t[p].ip)
         /\ t[p].pc # "iget" => icache[t[p].ip].ref > 0
         /\ dinode[t[p].ip].type = IF t[p].job.op = "mkdir" THEN "dir" ELSE "file"
         /\ t[p].pc \in {"uplink", "balloc", "dots", "name"} => ~Keeps(file[p], t[p], cwd[p])
                                                                 \/ cwd[p] = t[p].dp
<1>1. t[p].pc \in DpPc /\ t[p].pc # "ialloc" /\ Sole(t[p], t[p].ip)
  BY DEF DpPc, FreshPc, Sole
<1>2. t[p].ip \in Inum /\ CallSound(p) /\ IInv
  BY <1>1, Holds
<1>3. /\ t[p].ip # Root /\ ~Else(cwd[p], file[p], t[p], t[p].ip)
  BY <1>1, <1>2 DEF DInv, SoleInv
<1>4. t[p].ip # t[p].dp /\ t[p].ip # cwd[p] /\ t[p].ip # file[p]
  BY <1>3 DEF Else
<1>5. Uses(cwd[p], file[p], t[p], t[p].ip)
  BY DEF Uses
<1>6. t[p].pc # "iget" => icache[t[p].ip].ref > 0
  BY <1>2, <1>5, InUse
<1>7. dinode[t[p].ip].type = IF t[p].job.op = "mkdir" THEN "dir" ELSE "file"
  BY <1>2 DEF CallSound, Typing
<1>8. t[p].pc \in {"uplink", "balloc", "dots", "name"} => ~Keeps(file[p], t[p], cwd[p])
                                                                 \/ cwd[p] = t[p].dp
  BY <1>4 DEF Keeps, EndPc
<1> QED
  BY <1>1, <1>2, <1>3, <1>4, <1>5, <1>6, <1>7, <1>8

\* The way to the new name stays.
LEMMA GoingOn ==
  ASSUME DInv, NEW p \in Process, t[p].pc \in {"ialloc"} \cup FreshPc, t'[p].pc \in FreshPc,
         t'[p].job = t[p].job, t'[p].path = t[p].path, t'[p].dp = t[p].dp,
         programs' = programs,
         \A i \in Inum : i = t[p].dp =>
            Addr(i)' = Addr(i) /\ dirent'[Addr(i)] = dirent[Addr(i)]
  PROVE  Going(p)'
<1>1. t[p].pc \in DpPc
  BY DEF DpPc, FreshPc
<1>2. Going(p) /\ t[p].dp \in Inum /\ Label(t[p]) = t[p].pc
  BY <1>1, Holds DEF CallSound
<1>3. Label(t'[p]) = t'[p].pc /\ t'[p].pc \notin {"walk", "create", "unlink", "victim"}
      /\ t[p].pc \in LookPc \ {"walk", "create", "unlink", "victim"}
  BY DEF Label, PutPc, FreshPc, LookPc
<1>4. Elem(p)' = Elem(p)
  BY DEF Elem
<1>5. dirent'[Addr(t[p].dp)'][Elem(p)'] = None /\ Elem(p)' # ".."
  BY <1>2, <1>4 DEF Going, Addr
<1>6. /\ Label(t[p]) \in LookPc /\ Label(t[p]) # "walk" /\ t[p].pc \in {"ialloc"} \cup FreshPc
      /\ t'[p].pc # "victim" /\ Label(t'[p]) # "create" /\ Label(t'[p]) # "unlink"
  BY <1>2, <1>3 DEF FreshPc
<1>7. /\ NoDots(programs) => \A n \in 1..Len(t[p].path) : t[p].path[n] # ".."
      /\ t[p].job.op \in {"mkdir", "unlink"} /\ t[p].path # <<>> =>
            t[p].job.path # <<>> /\ End(t[p].path) = End(t[p].job.path)
      /\ Len(t[p].path) = 1
  BY <1>2, <1>6 DEF Going
<1>8. t[p].job.op \in {"create", "mkdir"}
  BY <1>2, <1>6 DEF Going
<1>9. NoDots(programs)' <=> NoDots(programs)
  BY DEF NoDots
<1> QED
  BY <1>5, <1>6, <1>7, <1>8, <1>9 DEF Going

\* unlink of a directory that is not empty.
LEMMA UnlinkFullDInv ==
  ASSUME DInv, NEW p \in Process, IInv', UnlinkFull(p)
  PROVE  DInv' /\ SameTree
<1> DEFINE r == t[p]
           s == t'[p]
           j == r.dp
           k == r.ip
           c == Read(icache, k)
<1>1. /\ r.pc = "victim" /\ r.pc \in DpPc /\ At(p, "victim")
      /\ icache' = iunlock(c, j)
      /\ Puts(p, <<k, j>>, "ret", [ip |-> None, dp |-> None])
      /\ UNCHANGED <<dinode, bitmap, dirent, cwd, file, calls, programs>>
  BY DEF UnlinkFull, disk, Still, At, DpPc
<1>2. /\ IInv /\ CallSound(p) /\ cwd[p] \in Inum /\ Label(r) = r.pc
      /\ j \in Inum /\ k \in Inum /\ r.at = None /\ First(r) = None /\ Second(r) = None
      /\ Keeps(file[p], r, j) /\ Mem(j) /\ icache[j].busy = p
  BY <1>1, Holds
<1>3. CacheTyped(icache) /\ CacheTyped(c)
  BY <1>2, CacheRead DEF IInv
<1>4. ASSUME NEW i \in Inum
      PROVE  /\ icache'[i].ref = icache[i].ref
             /\ icache'[i].busy = IF j = i THEN NoProcess ELSE icache[i].busy
             /\ Kept(i) /\ (icache[i].valid => icache'[i].valid)
  <2>1. /\ c[i].ref = icache[i].ref /\ c[i].busy = icache[i].busy
        /\ icache[i].valid => c[i].valid
        /\ k # i => c[i].valid = icache[i].valid
        /\ icache[i].valid \/ k # i => SameCopy(c[i], icache[i])
        /\ k = i /\ ~icache[i].valid => SameCopy(c[i], dinode[i])
    BY <1>2, <1>3, ReadIs
  <2> HIDE DEF c, j, k
  <2>2. /\ icache'[i].ref = c[i].ref
        /\ icache'[i].busy = IF j = i THEN NoProcess ELSE c[i].busy
        /\ icache'[i].valid = c[i].valid /\ SameCopy(icache'[i], c[i])
    BY <1>1, <1>2, <1>3, UnlockIs
  <2> QED
    BY <2>1, <2>2 DEF Kept, Mem, SameCopy
<1>5. /\ \A q \in Process \ {p} : t'[q] = t[q]
      /\ s.pc = "iput" /\ Label(s) = "ret"
      /\ First(s) = k /\ Second(s) = j
      /\ s.at = None /\ s.dp = None /\ s.ip = None
  BY <1>1, <1>2, GivesTwo DEF ThenPc, PutPc
<1>6. Calm(s)
  BY <1>5 DEF Calm, CalmPc, OwnPc
<1> HIDE DEF c
<1>7. ASSUME NEW i \in Inum
      PROVE  Uses(cwd'[p], file'[p], s, i) <=> Uses(cwd[p], file[p], r, i)
  <2>1. Uses(cwd[p], file[p], r, i) <=>
            \/ cwd[p] = i \/ file[p] = i \/ r.at = i \/ r.dp = i \/ r.ip = i
            \/ First(r) = i \/ Second(r) = i
    BY <1>1, PlainUses DEF FreshPc
  <2>2. Uses(cwd'[p], file'[p], s, i) <=>
            \/ cwd'[p] = i \/ file'[p] = i \/ s.at = i \/ s.dp = i \/ s.ip = i
            \/ First(s) = i \/ Second(s) = i
    BY <1>6, CalmUses
  <2>3. i # None
    BY DEF Inum, None
  <2> HIDE DEF r, s
  <2> QED
    BY <1>1, <1>2, <1>5, <2>1, <2>2, <2>3 DEF j, k
<1>8. ASSUME NEW i \in Inum
      PROVE  /\ ~Freed(r, i) /\ ~Ahead(file[p], r, i)
             /\ ~Unbuilt(r, i) /\ ~Building(r, i) /\ ~PendDp(r, i) /\ ~PendIp(r, i)
             /\ Keeps(file[p], r, i) <=> i = j
             /\ ~Keeps(file'[p], s, i) /\ ~Sole(s, i) /\ ~PendIp(s, i) /\ ~PendDp(s, i)
  <2>1. /\ ~Freed(r, i) /\ ~Ahead(file[p], r, i)
        /\ ~Unbuilt(r, i) /\ ~Building(r, i) /\ ~PendDp(r, i) /\ ~PendIp(r, i)
        /\ Keeps(file[p], r, i) <=> i = j
    BY <1>1, <1>2 DEF Freed, Ahead, Unbuilt, Building, FreshPc, PendDp, PendIp, DueIp, Keeps,
         OwnPc, EndPc
  <2>2. ~Keeps(file'[p], s, i) /\ ~Sole(s, i) /\ ~PendDp(s, i)
    BY <1>6, CalmIs
  <2>3. ~PendIp(s, i)
    BY <1>5 DEF PendIp, DueIp
  <2> QED
    BY <2>1, <2>2, <2>3
<1>9. ASSUME NEW i \in Inum PROVE Held(p, i) /\ Cached(p, i)
  <2>1. icache'[i].busy # NoProcess => icache'[i].valid
    BY <1>2, <1>4 DEF DInv, LockInv
  <2>2. Mem(i) => icache'[i].ref > 0 /\ icache'[i].valid
    BY <1>4 DEF Mem
  <2>3. Held(p, i)
    BY <1>2, <1>4, <1>8, <2>1 DEF Held
  <2> QED
    BY <1>4, <1>8, <2>2, <2>3 DEF Cached
<1>10. ASSUME NEW i \in Inum PROVE Released(p, i) /\ Loaded(p, i) /\ Owned(p, i)
  <2>1. Loaded(p, i)
    BY <1>1, <1>4 DEF Loaded, SameCopy
  <2> QED
    BY <1>7, <1>8, <2>1 DEF Released, Owned
<1>11. CallSound(p)'
  <2>1. Path(s)
    BY <1>5 DEF Path, LookPc, FreshPc
  <2>2. Known(cwd[p], t[p])'
    BY <1>1, <1>2, <1>5 DEF Known, CallSound, Typing
  <2> QED
    BY <1>1, <1>5, <1>6, <2>1, <2>2, CalmCall
<1>12. Others(p)
  BY <1>1, <1>5 DEF Others
<1>13. /\ s.pc \notin {"uplink", "balloc", "dots", "name", "downlink"}
       /\ r.pc \notin {"iget", "fresh"} /\ s.pc # "downlink"
  BY <1>1, <1>5
<1> HIDE DEF r, s
<1> QED
  BY <1>1, <1>7, <1>8, <1>9, <1>10, <1>11, <1>12, <1>13, Quiet DEF r, s

\* create() has made the name.
LEMMA CreatedDInv ==
  ASSUME DInv, NEW p \in Process, IInv', Created(p)
  PROVE  DInv' /\ SameTree
<1> DEFINE r == t[p]
           s == t'[p]
           k == r.ip
<1>1. /\ r.pc = "created" /\ r.pc \in IpPc
      /\ icache' = iunlock(icache, k)
      /\ \/ /\ r.job.op = "create"
            /\ file' = [file EXCEPT ![p] = k]
            /\ Set(p, [ip |-> None, pc |-> "ret", ok |-> TRUE])
         \/ /\ Puts(p, <<k>>, "ret", [ip |-> None, ok |-> r.job.op = "mkdir"])
            /\ UNCHANGED file
      /\ UNCHANGED <<dinode, bitmap, dirent, cwd, calls, programs>>
  BY DEF Created, disk, Still, IpPc
<1>2. /\ IInv /\ CallSound(p) /\ cwd[p] \in Inum /\ Label(r) = r.pc
      /\ k \in Inum /\ r.at = None /\ r.dp = None /\ First(r) = None /\ Second(r) = None
      /\ r.job.op = "create" => file[p] = None
  <2>1. IInv /\ Sound(r, file[p]) /\ CallSound(p) /\ cwd[p] \in Inum
    BY Before
  <2>2. r.pc \notin PutPc \cup AtPc \cup DpPc \cup {"idle", "walk"} /\ Label(r) = r.pc
    BY <1>1 DEF DpPc, AtPc, PutPc, IpPc, Label
  <2>3. First(r) = None /\ Second(r) = None
    BY <2>1, <2>2, PointersTyped
  <2> QED
    BY <1>1, <2>1, <2>2, <2>3 DEF Sound, PointersSet, CallFits
<1>3. Keeps(file[p], r, k) /\ Mem(k) /\ icache[k].busy = p
  <2>1. Keeps(file[p], r, k)
    BY <1>1, <1>2 DEF Keeps, OwnPc
  <2> QED
    BY <1>2, <2>1, OneKeeper DEF DInv
<1>4. ASSUME NEW i \in Inum
      PROVE  /\ icache'[i].ref = icache[i].ref
             /\ icache'[i].busy = IF k = i THEN NoProcess ELSE icache[i].busy
             /\ Kept(i) /\ icache'[i].valid = icache[i].valid
  <2>1. CacheTyped(icache)
    BY <1>2 DEF IInv
  <2> HIDE DEF k
  <2>2. /\ icache'[i].ref = icache[i].ref
        /\ icache'[i].busy = IF k = i THEN NoProcess ELSE icache[i].busy
        /\ icache'[i].valid = icache[i].valid /\ SameCopy(icache'[i], icache[i])
    BY <1>1, <1>2, <2>1, UnlockIs
  <2> QED
    BY <2>2 DEF Kept, Mem, SameCopy
<1>5. /\ \A q \in Process \ {p} : t'[q] = t[q] /\ file'[q] = file[q]
      /\ Calm(s) /\ Label(s) = "ret"
      /\ s.at = None /\ s.dp = None /\ s.ip = None /\ Second(s) = None
      /\ \/ First(s) = None /\ file'[p] = k /\ file[p] = None
         \/ First(s) = k /\ file'[p] = file[p]
  <2>1. CASE /\ r.job.op = "create"
             /\ file' = [file EXCEPT ![p] = k]
             /\ Set(p, [ip |-> None, pc |-> "ret", ok |-> TRUE])
    <3>1. /\ \A q \in Process \ {p} : t'[q] = t[q]
          /\ s.pc = "ret" /\ Label(s) = "ret" /\ First(s) = None /\ Second(s) = None
          /\ s.at = None /\ s.dp = None /\ s.ip = None
      BY <1>1, <1>2, <2>1, Goes DEF PutPc
    <3>2. file'[p] = k /\ \A q \in Process \ {p} : file'[q] = file[q]
      BY <1>2, <2>1 DEF IInv, TypeOK
    <3> QED
      BY <1>2, <2>1, <3>1, <3>2 DEF Calm, CalmPc, OwnPc
  <2>2. CASE Puts(p, <<k>>, "ret", [ip |-> None, ok |-> r.job.op = "mkdir"]) /\ UNCHANGED file
    <3>1. /\ \A q \in Process \ {p} : t'[q] = t[q]
          /\ s.pc = "iput" /\ Label(s) = "ret" /\ First(s) = k /\ Second(s) = None
          /\ s.at = None /\ s.dp = None /\ s.ip = None
      BY <1>1, <1>2, <2>2, GivesOne DEF PutPc, ThenPc
    <3> QED
      BY <2>2, <3>1 DEF Calm, CalmPc, OwnPc
  <2> QED
    BY <1>1, <2>1, <2>2
<1>7. ASSUME NEW i \in Inum
      PROVE  Uses(cwd'[p], file'[p], s, i) <=> Uses(cwd[p], file[p], r, i)
  <2>1. Uses(cwd[p], file[p], r, i) <=>
            \/ cwd[p] = i \/ file[p] = i \/ r.at = i \/ r.dp = i \/ r.ip = i
            \/ First(r) = i \/ Second(r) = i
    BY <1>1, PlainUses DEF FreshPc
  <2>2. Uses(cwd'[p], file'[p], s, i) <=>
            \/ cwd'[p] = i \/ file'[p] = i \/ s.at = i \/ s.dp = i \/ s.ip = i
            \/ First(s) = i \/ Second(s) = i
    BY <1>5, CalmUses
  <2>3. i # None
    BY DEF Inum, None
  <2> HIDE DEF r, s
  <2> QED
    BY <1>1, <1>2, <1>5, <2>1, <2>2, <2>3 DEF k
<1>8. ASSUME NEW i \in Inum
      PROVE  /\ ~Freed(r, i) /\ ~Ahead(file[p], r, i)
             /\ ~Unbuilt(r, i) /\ ~Building(r, i) /\ ~PendDp(r, i) /\ ~PendIp(r, i)
             /\ Keeps(file[p], r, i) <=> i = k
             /\ ~Keeps(file'[p], s, i) /\ ~Sole(s, i) /\ ~PendIp(s, i) /\ ~PendDp(s, i)
  <2>1. /\ ~Freed(r, i) /\ ~Ahead(file[p], r, i)
        /\ ~Unbuilt(r, i) /\ ~Building(r, i) /\ ~PendDp(r, i) /\ ~PendIp(r, i)
        /\ Keeps(file[p], r, i) <=> i = k
    BY <1>1, <1>2 DEF Freed, Ahead, Unbuilt, Building, FreshPc, PendDp, PendIp, DueIp, Keeps,
         OwnPc, EndPc, DpPc
  <2>2. ~Keeps(file'[p], s, i) /\ ~Sole(s, i) /\ ~PendDp(s, i)
    BY <1>5, CalmIs
  <2>3. ~PendIp(s, i)
    BY <1>5 DEF PendIp, DueIp
  <2> QED
    BY <2>1, <2>2, <2>3
<1>9. ASSUME NEW i \in Inum PROVE Held(p, i) /\ Cached(p, i)
  <2>1. icache'[i].busy # NoProcess => icache'[i].valid
    BY <1>2, <1>4 DEF DInv, LockInv
  <2>2. Mem(i) => icache'[i].ref > 0 /\ icache'[i].valid
    BY <1>4 DEF Mem
  <2>3. Held(p, i)
    BY <1>3, <1>4, <1>8, <2>1 DEF Held
  <2> QED
    BY <1>4, <1>8, <2>2, <2>3 DEF Cached
<1>10. ASSUME NEW i \in Inum PROVE Released(p, i) /\ Loaded(p, i) /\ Owned(p, i)
  <2>1. Loaded(p, i)
    BY <1>1, <1>4 DEF Loaded, SameCopy
  <2> QED
    BY <1>7, <1>8, <2>1 DEF Released, Owned
<1>11. CallSound(p)'
  <2>1. Path(s)
    BY <1>5 DEF Path, LookPc, FreshPc
  <2>2. Known(cwd[p], t[p])'
    <3>1. s.pc \notin {"create", "unlink", "enter"}
      BY <1>5 DEF Label, PutPc
    <3> QED
      BY <1>1, <1>2, <1>5, <3>1 DEF Known, CallSound, Typing
  <2> QED
    BY <1>1, <1>5, <2>1, <2>2, CalmCall
<1>12. Others(p)
  BY <1>1, <1>5 DEF Others
<1>13. /\ s.pc \notin {"uplink", "balloc", "dots", "name", "downlink"}
       /\ r.pc \notin {"iget", "fresh"} /\ s.pc # "downlink"
  <2>1. s.pc \in PutPc \cup {"ret"}
    BY <1>5 DEF Label
  <2> QED
    BY <1>1, <2>1 DEF PutPc
<1> HIDE DEF r, s
<1> QED
  BY <1>1, <1>7, <1>8, <1>9, <1>10, <1>11, <1>12, <1>13, Quiet DEF r, s

\* ialloc() gets the entry of its new inode.
LEMMA IallocGetDInv ==
  ASSUME DInv, NEW p \in Process, IInv', IallocGet(p)
  PROVE  DInv' /\ SameTree
<1> DEFINE r == t[p]
           s == t'[p]
           k == r.ip
<1>1. /\ r.pc = "iget" /\ r.pc \in FreshPc
      /\ icache' = iget(icache, k)
      /\ Set(p, [pc |-> "fresh"])
      /\ UNCHANGED <<dinode, bitmap, dirent, cwd, file, calls, programs>>
  BY DEF IallocGet, disk, Still, FreshPc
<1>2. r.pc \in DpPc /\ k \in Inum /\ Sole(r, k)
  BY <1>1, Makes
<1>3. /\ IInv /\ CallSound(p) /\ Label(r) = r.pc /\ r.dp \in Inum
      /\ First(r) = None /\ Second(r) = None
      /\ Mem(r.dp) /\ dinode[r.dp].type = "dir"
  BY <1>2, Holds
<1>4. ASSUME NEW i \in Inum
      PROVE  /\ icache'[i].ref = icache[i].ref + One(k = i) /\ icache'[i].busy = icache[i].busy
             /\ Kept(i) /\ icache[i].ref \in Nat
             /\ k # i => icache'[i].valid = icache[i].valid
             /\ Mem(i) => icache'[i].ref > 0 /\ icache'[i].valid
  <2>1. CacheTyped(icache) /\ icache[k].ref \in Nat /\ icache[i].ref \in Nat
    BY <1>2, <1>3 DEF IInv, TypeOK
  <2> HIDE DEF k
  <2>2. /\ icache'[i].ref = icache[i].ref + One(k = i) /\ icache'[i].busy = icache[i].busy
        /\ SameCopy(icache'[i], icache[i])
        /\ k # i \/ icache[i].ref > 0 => icache'[i].valid = icache[i].valid
        /\ k = i /\ ~(icache[i].ref > 0) => ~icache'[i].valid
    BY <1>1, <1>2, <2>1, GetIs
  <2> QED
    BY <2>1, <2>2 DEF Kept, Mem, SameCopy, One
<1>5. /\ \A q \in Process \ {p} : t'[q] = t[q]
      /\ s.pc = "fresh" /\ Label(s) = "fresh"
      /\ First(s) = First(r) /\ Second(s) = Second(r)
      /\ s.at = r.at /\ s.dp = r.dp /\ s.ip = r.ip /\ s.job = r.job /\ s.path = r.path
  BY <1>1, <1>3, Goes DEF PutPc
<1>7. ASSUME NEW i \in Inum
      PROVE  /\ Uses(cwd'[p], file'[p], s, i) <=> Uses(cwd[p], file[p], r, i)
             /\ Else(cwd'[p], file'[p], s, i) <=> Else(cwd[p], file[p], r, i)
             /\ Sole(s, i) <=> Sole(r, i)
  BY <1>1, <1>5 DEF Uses, Else, Sole, FreshPc
<1>8. ASSUME NEW i \in Inum
      PROVE  /\ ~Freed(r, i) /\ ~Ahead(file[p], r, i)
             /\ Keeps(file[p], r, i) <=> Keeps(file'[p], s, i)
             /\ Unbuilt(s, i) <=> Unbuilt(r, i)
             /\ Building(s, i) <=> Building(r, i)
             /\ PendIp(s, i) <=> PendIp(r, i)
             /\ PendDp(s, i) <=> PendDp(r, i)
  BY <1>1, <1>3, <1>5 DEF Freed, Ahead, Unbuilt, Building, FreshPc, PendDp, PendIp, DueIp, Keeps,
         OwnPc, EndPc, DpPc
<1>9. ASSUME NEW i \in Inum PROVE Held(p, i) /\ Cached(p, i)
  <2>1. icache'[i].busy # NoProcess => icache'[i].valid
    <3>1. SUFFICES ASSUME icache[i].busy # NoProcess PROVE icache'[i].valid
      BY <1>4
    <3>2. icache[i].busy \in Process
      BY <1>3, <3>1 DEF IInv, CacheTyped, SlotTyped
    <3>3. Mem(i)
      BY <1>3, <3>2, OneKeeper DEF DInv
    <3> QED
      BY <1>4, <3>3
  <2>2. Held(p, i)
    BY <1>4, <1>8, <2>1 DEF Held
  <2> QED
    BY <1>4, <1>8, <2>2 DEF Cached
<1>10. ASSUME NEW i \in Inum PROVE Released(p, i) /\ Loaded(p, i) /\ Owned(p, i)
  <2>1. Loaded(p, i)
    <3>1. CASE i = k
      BY <1>5, <3>1 DEF Loaded
    <3>2. CASE i # k
      BY <1>1, <1>4, <3>2 DEF Loaded, SameCopy, One
    <3> QED
      BY <3>1, <3>2
  <2>2. Owned(p, i)
    BY <1>1, <1>7 DEF Owned, DInv, SoleInv
  <2> QED
    BY <1>7, <2>1, <2>2 DEF Released
<1>11. CallSound(p)'
  <2>1. Typing(p) /\ Making(p)
    BY <1>3 DEF CallSound
  <2>2. Typing(p)'
    BY <1>1, <1>5, <2>1 DEF Typing
  <2>3. Ending(p)'
    BY <1>5 DEF Ending, EndPc
  <2>4. Making(p)'
    BY <1>1, <1>5, <2>1 DEF Making, Made, FreshPc
  <2>5. Going(p)'
    <3>1. \A i \in Inum : Addr(i)' = Addr(i)
      <4> SUFFICES ASSUME NEW i \in Inum PROVE Addr(i)' = Addr(i)
        OBVIOUS
      <4>1. SameCopy(dinode'[i], dinode[i])
        BY <1>1 DEF SameCopy
      <4> QED
        BY <1>4, <4>1, AddrSame
    <3> QED
      BY <1>1, <1>5, <3>1, GoingOn DEF FreshPc
  <2> QED
    BY <2>2, <2>3, <2>4, <2>5 DEF CallSound
<1>12. Others(p)
  BY <1>1, <1>5 DEF Others
<1>13. s.pc \notin {"uplink", "balloc", "dots", "name", "downlink"} /\ s.pc # "downlink"
  BY <1>5
<1> HIDE DEF r, s
<1> QED
  BY <1>1, <1>5, <1>7, <1>8, <1>9, <1>10, <1>11, <1>12, <1>13, Quiet DEF r, s
=============================================================================
