----------------------------- MODULE MfsProofs -----------------------------
(***************************************************************************)
(* The image of the file server makes sense at every instant, whatever is  *)
(* lost, sent again or cut off by a crash, for any number of inodes,       *)
(* blocks, names, requests and crashes; and the server implements          *)
(* FileStore: a call changes the tree as it asks, and its answer is true.  *)
(*                                                                         *)
(* The invariant says what the image is between two requests and, while    *)
(* one is served, which pwrites are still to be done for it (PhaseInv):    *)
(* each pwrite takes a list of them to the next.                           *)
(***************************************************************************)
EXTENDS Mfs, FiniteSetTheorems, WellFoundedInduction, TLAPS

-----------------------------------------------------------------------------
(* The invariant *)

\* A list has nothing outside its length.
List(l) == l \in Seq({l[x] : x \in 1..Len(l)})

\* Requests that are answered are asked again only when nothing is under way.
OneFlight ==
    /\ call \in Request \cup {NoCall}
    /\ reqs = <<>> \/ (reqs = <<call>> /\ reps = <<>>)
    /\ reps = <<>> \/ reps = <<reps[1]>>
    /\ call = NoCall => reqs = <<>> /\ reps = <<>> /\ cur = NoCall
    /\ cur # NoCall => cur = call /\ reqs = <<>> /\ reps = <<>> /\ up = "up"
    /\ cur = NoCall => todo = <<>>
    /\ List(todo)

\* A directory that is written, and what it has.
IsDir(d) == IsType(d, Directory) /\ Entries(d) \in Dirs
Has(d, n, i) == IsDir(d) /\ Entries(d)[n] = i
Named(i) == \E d \in Inum, n \in Name : Has(d, n, i)

FileOk(i) ==
    /\ IsType(i, RegularFile) =>
         /\ \A k \in Addr : IF k < inodes[i].size THEN inodes[i].addrs[k] \in Block
                                                  ELSE inodes[i].addrs[k] = NoBlock
         /\ inodes[i].size = Cardinality(Owned(i))
    /\ IsType(i, Directory) => inodes[i].addrs[0] \in Block /\ inodes[i].size = 1
FilesInv == IsType(0, Directory) /\ \A i \in Inum : FileOk(i)
OwnInv ==
    /\ \A i \in Inum \ Doomed : Owned(i) \subseteq bitmap
    /\ \A i, j \in Inum : i # j => Owned(i) \cap Owned(j) = {}
BlockInv == \A b \in Block :
    \/ block[b] \in Value \cup {EmptyDir}
    \/ block[b] \in Dirs /\ \E d \in Inum : IsType(d, Directory) /\ inodes[d].addrs[0] = b
NameInv ==
    /\ \A i \in Inum : Named(i) => i # 0 /\ (i \in Doomed \/ ~IsType(i, 0))
    /\ \A d, e \in Inum, n, m \in Name, i \in Inum : Has(d, n, i) /\ Has(e, m, i) => d = e /\ n = m
    /\ \A d \in Inum : (d = 0 \/ Named(d)) /\ IsType(d, Directory) => IsDir(d)

Spare == MaxCrash - crashes
\* A request can be carried out, also if the server crashes in it.
Ready(r) ==
    /\ r.cmd # "SHUTDOWN" => r.inum = 0 \/ Named(r.inum) \/ IsType(r.inum, 0)
    /\ r.cmd = "CREAT" /\ IsDir(r.inum) /\ Entries(r.inum)[r.name] = NoInum =>
         Cardinality(Block \ bitmap) > Spare /\ Cardinality(FreeInodes) > Spare
    /\ r.cmd = "WRITE" /\ IsType(r.inum, RegularFile) /\ inodes[r.inum].addrs[r.blk] = NoBlock =>
         Cardinality(Block \ bitmap) >= r.blk - inodes[r.inum].size + 1 + Spare
    /\ Safe(r)
ReadyInv == \A r \in Request : r = call /\ todo = <<>> => Ready(r)

\* The last push of a creation.
Entered(p, n, i) == PushBlock(inodes[p].addrs[0], [Entries(p) EXCEPT ![n] = i])
WithFile(i) == [inodes EXCEPT ![i] =
        [type |-> RegularFile, size |-> 0, addrs |-> [k \in Addr |-> NoBlock]]]
WithDir(i, b) == [[inodes EXCEPT ![i].type = Directory, ![i].size = 1, ![i].addrs[0] = b]
                    EXCEPT ![0].addrs = [k \in Addr |-> IF k = 0 THEN @[0] ELSE NoBlock]]
Room(n) == Cardinality(Block \ bitmap) >= n + Spare
Inodes(n) == Cardinality(FreeInodes) >= n + Spare

\* The pwrites l still to do for r: a new file or directory with inode i,
MakeFile(r, i, l) ==
    /\ r.type # Directory /\ IsType(i, 0) /\ Room(0) /\ Inodes(1)
    /\ l = <<PushInodes(WithFile(i)), Entered(r.inum, r.name, i)>>
MarkDir(r, i, l) ==
    /\ r.type = Directory /\ IsType(i, 0) /\ Room(1) /\ Inodes(1)
    /\ \E b \in Block \ bitmap :
         l = <<PushBitmap(bitmap \cup {b}), PushInodes(WithDir(i, b)),
               PushBlock(b, EmptyDir), Entered(r.inum, r.name, i)>>
MakeDir(r, i, l) ==
    /\ r.type = Directory /\ IsType(i, 0) /\ Room(0) /\ Inodes(1)
    /\ \E b \in bitmap :
         /\ \A j \in Inum : b \notin Owned(j)
         /\ l = <<PushInodes(WithDir(i, b)), PushBlock(b, EmptyDir), Entered(r.inum, r.name, i)>>
ClearDir(r, i, l) ==
    /\ r.type = Directory /\ IsType(i, Directory) /\ ~Named(i) /\ Room(0) /\ Inodes(0)
    /\ Entries(i) \in Value \cup {EmptyDir}
    /\ l = <<PushBlock(inodes[i].addrs[0], EmptyDir), Entered(r.inum, r.name, i)>>
Enter(r, i, l) ==
    /\ ~IsType(i, 0) /\ ~Named(i) /\ Room(0) /\ Inodes(0)
    /\ IF r.type = Directory THEN IsType(i, Directory) /\ Entries(i) = EmptyDir
                             ELSE IsType(i, RegularFile) /\ inodes[i].size = 0
    /\ l = <<Entered(r.inum, r.name, i)>>
Creating(r, l) ==
    /\ r.cmd = "CREAT" /\ IsDir(r.inum) /\ (r.inum = 0 \/ Named(r.inum))
    /\ Entries(r.inum)[r.name] = NoInum
    /\ \E i \in Inum \ {0} : \/ MakeFile(r, i, l) \/ MarkDir(r, i, l) \/ MakeDir(r, i, l)
                             \/ ClearDir(r, i, l) \/ Enter(r, i, l)

\* Inode i grown by the first y of the blocks nb.
Grown(i, nb, y) ==
    LET g == inodes[i].size IN
    [inodes EXCEPT ![i].size = @ + y,
                   ![i].addrs = [a \in Addr |-> IF a \in g..g + y - 1 THEN nb[a - g + 1] ELSE @[a]]]
Taken(nb, y) == bitmap \cup {nb[x] : x \in 1..y}
Missing(r) == r.blk - inodes[r.inum].size + 1
Distinct(nb, n) == \A x, y \in 1..n : nb[x] = nb[y] => x = y

\* the block alone, or the blocks that are missing, from the bitmap or from the
\* inode on,
StoreBlock(r, l, R) ==
    R <= 0 /\ l = <<PushBlock(inodes[r.inum].addrs[r.blk], r.val)>>
MarkBlock(r, l, R) ==
    /\ R >= 1 /\ Len(l) = 2 * R + 1 /\ Room(R)
    /\ \E nb \in [1..R -> Block \ bitmap] :
         /\ Distinct(nb, R)
         /\ \A y \in 1..R : /\ l[2 * y - 1] = PushBitmap(Taken(nb, y))
                            /\ l[2 * y] = PushInodes(Grown(r.inum, nb, y))
         /\ l[2 * R + 1] = PushBlock(nb[R], r.val)
LinkBlock(r, l, R) ==
    /\ R >= 1 /\ Len(l) = 2 * R /\ Room(R - 1)
    /\ \E nb \in [1..R -> Block] :
         /\ Distinct(nb, R)
         /\ nb[1] \in bitmap /\ \A x \in 2..R : nb[x] \notin bitmap
         /\ \A j \in Inum : nb[1] \notin Owned(j)
         /\ \A y \in 1..R : l[2 * y - 1] = PushInodes(Grown(r.inum, nb, y))
         /\ \A y \in 2..R : l[2 * y - 2] = PushBitmap(Taken(nb, y))
         /\ l[2 * R] = PushBlock(nb[R], r.val)
Writing(r, l) ==
    /\ r.cmd = "WRITE" /\ IsType(r.inum, RegularFile) /\ (r.inum = 0 \/ Named(r.inum))
    /\ \E R \in {Missing(r)} : StoreBlock(r, l, R) \/ MarkBlock(r, l, R) \/ LinkBlock(r, l, R)

\* or the removal of inode i.
Cleared(p, i) == PushBlock(inodes[p].addrs[0],
                    [m \in Name |-> IF Entries(p)[m] = i THEN NoInum ELSE Entries(p)[m]])
Unmark(r, i, l) ==
    /\ ~IsType(i, 0) /\ (IsType(i, Directory) => Entries(i) = EmptyDir)
    /\ Len(l) \in 2..NADDR + 2
    /\ l[Len(l)] = Cleared(r.inum, i) /\ l[Len(l) - 1] = PushInodes([inodes EXCEPT ![i].type = 0])
    /\ \A x \in 1..Len(l) - 2 : /\ l[x] = PushBitmap(l[x].to) /\ l[x].to \subseteq Block
                                /\ \A j \in Inum \ {i} : Owned(j) \subseteq l[x].to
Clear(r, i, l) == IsType(i, 0) /\ l = <<Cleared(r.inum, i)>>
Unlinking(r, l) ==
    LET i == Entries(r.inum)[r.name] IN
    /\ r.cmd = "UNLINK" /\ IsDir(r.inum) /\ (r.inum = 0 \/ Named(r.inum))
    /\ i \in Inum /\ i # r.inum
    /\ Unmark(r, i, l) \/ Clear(r, i, l)

PhaseInv == \A r \in Request, l \in {todo} :
    r = cur /\ l # <<>> => Creating(r, l) \/ Writing(r, l) \/ Unlinking(r, l)

IInv == /\ TypeOK /\ OneFlight /\ block = [b \in Block |-> block[b]]
        /\ FilesInv /\ OwnInv /\ BlockInv /\ NameInv /\ ReadyInv /\ PhaseInv

-----------------------------------------------------------------------------
(* What a step leaves of the image *)

Contents(i) == [k \in Addr |-> IF inodes[i].addrs[k] = NoBlock THEN Hole
                                ELSE block[inodes[i].addrs[k]]]
SameNode(j) ==
    /\ \A t : IsType(j, t)' = IsType(j, t)
    /\ IsType(j, Directory) => Entries(j)' = Entries(j)
    /\ IsType(j, RegularFile) => Contents(j)' = Contents(j)
\* Only inode i changes, which has no name.
OnlyNameless(i) ==
    /\ ~Named(i) /\ \A j \in Inum : Named(j)' = Named(j)
    /\ \A j \in Inum \ {i} : SameNode(j)

\* The entry of i is made in directory p,
Entering(p, n, i) ==
    /\ Named(i)' /\ \A j \in Inum \ {i} : Named(j)' <=> Named(j)
    /\ \A j \in Inum \ {p} : SameNode(j)
    /\ \A t : IsType(p, t)' = IsType(p, t)
    /\ Entries(p)' = [Entries(p) EXCEPT ![n] = i]
\* block k of file i is written,
Storing(i, k, v) ==
    /\ \A j \in Inum : Named(j)' = Named(j)
    /\ \A j \in Inum \ {i} : SameNode(j)
    /\ UNCHANGED inodes /\ inodes[i].addrs[k] \in Block
    /\ \A x \in Block : block'[x] = IF x = inodes[i].addrs[k] THEN v ELSE block[x]
\* a block is put at the end of file i, which is not above k,
Appending(i, k) ==
    LET g == inodes[i].size IN
    /\ \A j \in Inum : Named(j)' = Named(j)
    /\ \A j \in Inum \ {i} : SameNode(j)
    /\ \A t : IsType(i, t)' = IsType(i, t)
    /\ UNCHANGED block /\ g \in Addr /\ g <= k /\ inodes[i].addrs[g] = NoBlock
    /\ \E b \in Block : \A a \in Addr : inodes'[i].addrs[a] = IF a = g THEN b ELSE inodes[i].addrs[a]
\* inode i is freed,
FreeingInode(i) ==
    /\ \A j \in Inum : Named(j)' = Named(j)
    /\ \A j \in Inum \ {i} : SameNode(j)
    /\ IsType(i, 0)' /\ ~IsType(i, 0) /\ (IsType(i, Directory) => Entries(i) = EmptyDir)
\* and its entry in directory p removed.
Clearing(p, i) ==
    /\ \A j \in Inum : Named(j)' <=> Named(j) /\ j # i
    /\ \A j \in Inum \ {p} : SameNode(j)
    /\ \A t : IsType(p, t)' = IsType(p, t)
    /\ Entries(p)' = [m \in Name |-> IF Entries(p)[m] = i THEN NoInum ELSE Entries(p)[m]]

-----------------------------------------------------------------------------
(* Numbers and sets of blocks *)

\* A set of numbers has a least one.
LEMMA MinIsIn == ASSUME NEW S, S \subseteq Nat, S # {} PROVE Min(S) \in S /\ \A y \in S : Min(S) <= y
<1>1. PICK x \in S : \A y \in S : ~(<<y, x>> \in OpToRel(<, Nat))
  BY WFMin, NatLessThanWellFounded
<1>2. ASSUME NEW y \in S PROVE x <= y
  <2>1. x \in Nat /\ y \in Nat /\ <<y, x>> \in Nat \X Nat /\ <<y, x>>[1] = y
          /\ <<y, x>>[2] = x
    OBVIOUS
  <2>2. ~(y < x)
    BY <1>1, <2>1 DEF OpToRel
  <2> QED
    BY <2>1, <2>2
<1> QED
  BY <1>2 DEF Min

Rising(seq, n) == \A k, m \in 1..n : k < m => seq[k] < seq[m]

\* A finite set of numbers can be put in order.
LEMMA Sorted ==
  ASSUME NEW S, S \subseteq Nat, IsFiniteSet(S)
  PROVE  \E seq \in [1..Cardinality(S) -> S] : Rising(seq, Cardinality(S))
<1> DEFINE Bad == {n \in Nat : \E T \in SUBSET Nat :
                     /\ IsFiniteSet(T) /\ Cardinality(T) = n
                     /\ ~ \E seq \in [1..n -> T] : Rising(seq, n)}
<1>1. SUFFICES Bad = {}
  BY <1>1, FS_CardinalityType
<1>2. SUFFICES ASSUME Bad # {} PROVE FALSE
  OBVIOUS
<1>3. PICK n \in Bad : \A y \in Bad : n <= y
  <2>1. Bad \subseteq Nat
    OBVIOUS
  <2> HIDE DEF Bad
  <2> QED
    BY <1>2, <2>1, MinIsIn
<1>4. PICK T \in SUBSET Nat : /\ IsFiniteSet(T) /\ Cardinality(T) = n
                              /\ ~ \E seq \in [1..n -> T] : Rising(seq, n)
  BY <1>3
<1>5. n \in Nat
  BY <1>3
<1> HIDE DEF Bad
<1>6. n # 0
  <2> SUFFICES ASSUME n = 0 PROVE FALSE
    OBVIOUS
  <2>1. 1..n = {}
    BY <1>5
  <2>2. [x \in 1..n |-> x] \in [1..n -> T] /\ Rising([x \in 1..n |-> x], n)
    BY <2>1 DEF Rising
  <2> QED
    BY <2>2, <1>4
<1>7. T # {}
  BY <1>4, <1>6, FS_EmptySet
<1>8. PICK a \in T : \A b \in T : a <= b
  BY <1>7, MinIsIn
<1> DEFINE U == T \ {a}
<1>9. /\ IsFiniteSet(U) /\ Cardinality(U) = n - 1 /\ U \in SUBSET Nat
  BY <1>4, <1>5, <1>8, FS_RemoveElement
<1>10. n - 1 \in Nat /\ n - 1 \notin Bad
  <2>1. n - 1 \in Nat /\ ~(n <= n - 1)
    BY <1>5, <1>6
  <2> QED
    BY <1>3, <2>1
<1>11. PICK seq \in [1..n - 1 -> U] : Rising(seq, n - 1)
  BY <1>9, <1>10 DEF Bad
<1> DEFINE all == [x \in 1..n |-> IF x = 1 THEN a ELSE seq[x - 1]]
<1>12. ASSUME NEW x \in 1..n
       PROVE  /\ x = 1 => all[x] = a
              /\ x # 1 => all[x] = seq[x - 1] /\ x - 1 \in 1..n - 1 /\ all[x] \in U
              /\ all[x] \in T
  <2>1. all[x] = IF x = 1 THEN a ELSE seq[x - 1]
    OBVIOUS
  <2>2. x # 1 => x - 1 \in 1..n - 1
    BY <1>5
  <2>3. x # 1 => seq[x - 1] \in U
    BY <1>11, <2>2
  <2> QED
    BY <2>1, <2>2, <2>3, <1>8
<1> HIDE DEF all
<1>13. ASSUME NEW x \in 1..n, NEW y \in 1..n, x < y PROVE all[x] < all[y]
  <2>1. y # 1 /\ all[y] = seq[y - 1] /\ y - 1 \in 1..n - 1 /\ all[y] \in U
    BY <1>5, <1>12, <1>13
  <2>2. CASE x = 1
    <3>1. all[x] = a /\ all[y] \in T /\ all[y] # a
      BY <2>1, <2>2, <1>12
    <3>2. a \in Nat /\ all[y] \in Nat /\ a <= all[y]
      BY <3>1, <1>8, <1>4
    <3> QED
      BY <3>1, <3>2
  <2>3. CASE x # 1
    <3>1. all[x] = seq[x - 1] /\ x - 1 \in 1..n - 1 /\ x - 1 < y - 1
      BY <1>5, <1>12, <1>13, <2>3
    <3> QED
      BY <3>1, <2>1, <1>11 DEF Rising
  <2> QED
    BY <2>2, <2>3
<1>14. all \in [1..n -> T]
  BY <1>12 DEF all
<1>15. Rising(all, n)
  BY <1>13 DEF Rising
<1> QED
  BY <1>4, <1>14, <1>15

\* The numbers of a set in order, each once.
LEMMA AscendingIs ==
  ASSUME NEW S, S \subseteq Nat, IsFiniteSet(S)
  PROVE  /\ Cardinality(S) \in Nat /\ Ascending(S) \in [1..Cardinality(S) -> S]
         /\ \A m, n \in 1..Cardinality(S) : Ascending(S)[m] = Ascending(S)[n] => m = n
<1>1. Cardinality(S) \in Nat
  BY FS_CardinalityType
<1>2. Ascending(S) \in [1..Cardinality(S) -> S] /\ Rising(Ascending(S), Cardinality(S))
  BY Sorted DEF Ascending, Rising
<1>3. ASSUME NEW m \in 1..Cardinality(S), NEW n \in 1..Cardinality(S), Ascending(S)[m] = Ascending(S)[n]
      PROVE  m = n
  <2>1. Ascending(S)[m] \in S /\ m \in Int /\ n \in Int
    BY <1>1, <1>2
  <2>2. ~(Ascending(S)[m] < Ascending(S)[m])
    <3>1. \A z \in S : ~(z < z)
      OBVIOUS
    <3> QED
      BY <2>1, <3>1, Zenon
  <2>3. m < n => Ascending(S)[m] < Ascending(S)[n]
    BY <1>2 DEF Rising
  <2>4. n < m => Ascending(S)[n] < Ascending(S)[m]
    BY <1>2 DEF Rising
  <2> QED
    BY <1>3, <2>1, <2>2, <2>3, <2>4
<1> QED
  BY <1>1, <1>2, <1>3 DEF Rising

\* The numbers of inodes, blocks and addresses.
LEMMA Blocks ==
  /\ Inum \subseteq Nat /\ Block \subseteq Nat /\ Addr \subseteq Nat
  /\ 0 \in Inum /\ 0 \in Block /\ 0 \in Addr
  /\ IsFiniteSet(Inum) /\ IsFiniteSet(Block) /\ IsFiniteSet(Addr) /\ Cardinality(Addr) = NADDR
  /\ NoInum \notin Inum /\ NoBlock \notin Block /\ Header \notin Block /\ NoBlock # Header
<1>1. NINODE - 1 \in Int /\ NBLOCK - 1 \in Int /\ NADDR - 1 \in Int
  BY MfsAssumption
<1> QED
  BY <1>1, MfsAssumption, FS_Interval DEF Inum, Block, Addr, NoInum, NoBlock, Header

\* The first n free blocks.
LEMMA FreshBlocks ==
  ASSUME NEW n \in Nat, n <= Cardinality(Block \ bitmap)
  PROVE  /\ FreeBlocks(n) \in [1..n -> Block \ bitmap] /\ Len(FreeBlocks(n)) = n
         /\ \A x, y \in 1..n : FreeBlocks(n)[x] = FreeBlocks(n)[y] => x = y
<1> DEFINE S == Block \ bitmap
<1>1. S \subseteq Nat /\ IsFiniteSet(S)
  BY Blocks, FS_Subset
<1> HIDE DEF S
<1>2. /\ Cardinality(S) \in Nat /\ Ascending(S) \in [1..Cardinality(S) -> S]
      /\ \A m, k \in 1..Cardinality(S) : Ascending(S)[m] = Ascending(S)[k] => m = k
  BY <1>1, AscendingIs
<1>3. FreeBlocks(n) = [x \in 1..n |-> Ascending(S)[x]] /\ Len(FreeBlocks(n)) = n
  <2>1. FreeBlocks(n) = SubSeq(Ascending(S), 1, n)
    BY DEF FreeBlocks, S
  <2>2. Ascending(S) \in Seq(S)
    BY <1>2
  <2>3. n <= Len(Ascending(S))
    BY <1>2 DEF S
  <2> QED
    BY <2>1, <2>2, <2>3
<1>4. \A x \in 1..n : x \in 1..Cardinality(S)
  BY <1>2 DEF S
<1> QED
  BY <1>2, <1>3, <1>4 DEF S

-----------------------------------------------------------------------------
(* Sequences *)

\* A sequence without its first.
LEMMA TailIs ==
  ASSUME NEW s, List(s), s # <<>>
  PROVE  /\ Len(s) \in Nat \ {0} /\ Len(Tail(s)) = Len(s) - 1 /\ Head(s) = s[1]
         /\ \A x \in 1..Len(s) - 1 : Tail(s)[x] = s[x + 1]
         /\ List(Tail(s))
<1> DEFINE S == {s[x] : x \in 1..Len(s)}
<1>1. s \in Seq(S)
  BY DEF List
<1> HIDE DEF S
<1>2. /\ Len(s) \in Nat \ {0} /\ Len(Tail(s)) = Len(s) - 1 /\ Head(s) = s[1]
      /\ \A x \in 1..Len(s) - 1 : Tail(s)[x] = s[x + 1]
      /\ Tail(s) \in Seq(S)
  BY <1>1
<1> DEFINE u == Tail(s)
<1>3. u \in Seq(S)
  BY <1>2
<1> HIDE DEF u
<1>4. List(u)
  <2> DEFINE U == {u[x] : x \in 1..Len(u)}
  <2>1. Len(u) \in Nat /\ u \in [1..Len(u) -> S]
    BY <1>3
  <2>2. \A x \in 1..Len(u) : u[x] \in U
    OBVIOUS
  <2> HIDE DEF U
  <2>3. u \in [1..Len(u) -> U]
    BY <2>1, <2>2
  <2>4. u \in Seq(U)
    BY <2>1, <2>3
  <2> QED
    BY <2>4 DEF List, U
<1> QED
  BY <1>2, <1>4 DEF u

\* A function on 1..n is a sequence of its values.
LEMMA ListIs ==
  ASSUME NEW n \in Nat, NEW S, NEW s \in [1..n -> S]
  PROVE  List(s) /\ Len(s) = n
<1>1. s \in Seq(S) /\ Len(s) = n
  OBVIOUS
<1> DEFINE U == {s[x] : x \in 1..n}
<1>2. s \in [1..n -> U]
  OBVIOUS
<1> QED
  BY <1>1, <1>2 DEF List

\* The only element of a sequence is taken out of it.
LEMMA Only == ASSUME NEW a PROVE Len(<<a>>) = 1 /\ RemoveAt(<<a>>, 1) = <<>> /\ <<a>> # <<>>
<1>1. Len(<<a>>) = 1 /\ <<a>> # <<>>
  OBVIOUS
<1>2. SubSeq(<<a>>, 1, 0) = <<>> /\ SubSeq(<<a>>, 2, 1) = <<>>
  OBVIOUS
<1> QED
  BY <1>1, <1>2 DEF RemoveAt

-----------------------------------------------------------------------------
(* The image *)

\* What the image holds stays while it does.
LEMMA SameImage ==
  ASSUME UNCHANGED image
  PROVE  /\ \A i : Owned(i)' = Owned(i) /\ Entries(i)' = Entries(i) /\ Named(i)' = Named(i)
         /\ \A i, k : IsType(i, k)' = IsType(i, k)
         /\ \A d : IsDir(d)' = IsDir(d)
         /\ \A d, n, i : Has(d, n, i)' = Has(d, n, i)
         /\ FreeInodes' = FreeInodes /\ bitmap' = bitmap /\ inodes' = inodes /\ block' = block
<1>1. bitmap' = bitmap /\ inodes' = inodes /\ block' = block
  BY DEF image
<1>2. /\ \A i : Owned(i)' = Owned(i) /\ Entries(i)' = Entries(i)
      /\ \A i, k : IsType(i, k)' = IsType(i, k)
  BY <1>1 DEF Owned, Entries, IsType
<1>3. \A d : IsDir(d)' = IsDir(d)
  BY <1>2 DEF IsDir
<1>4. \A d, n, i : Has(d, n, i)' = Has(d, n, i)
  BY <1>2, <1>3 DEF Has
<1>5. \A i : Named(i)' = Named(i)
  BY <1>4 DEF Named
<1>6. FreeInodes' = FreeInodes
  BY <1>2 DEF FreeInodes
<1> QED
  BY <1>1, <1>2, <1>3, <1>4, <1>5, <1>6

\* Unlinking is as safe.
LEMMA SameSafe == ASSUME UNCHANGED image, NEW r PROVE Safe(r)' = Safe(r)
<1>1. bitmap' = bitmap /\ inodes' = inodes /\ block' = block
  BY DEF image
<1> QED
  BY <1>1 DEF Safe, mfs_unlink, Unlinked, Freeing, Owned, Entries, IsType, Quick, Pushes, Reply,
     PushBitmap, PushInodes, PushBlock, ClearBits

\* What requests are about.
LEMMA RequestIs ==
  ASSUME NEW r \in Request
  PROVE  /\ r # NoCall /\ (r.cmd # "SHUTDOWN" => r.inum \in Inum)
         /\ r.cmd \in {"LOOKUP", "UNLINK", "CREAT", "WRITE", "READ", "STAT", "SHUTDOWN"}
         /\ r.cmd \in {"LOOKUP", "UNLINK", "CREAT"} => r.name \in Name
         /\ r.cmd = "CREAT" => r.type \in {RegularFile, Directory, Unknown}
         /\ r.cmd \in {"WRITE", "READ"} => r.blk \in Addr
         /\ r.cmd = "WRITE" => r.val \in Value
BY MfsAssumption DEF Request

\* A request stays ready while the image stays and no crash is lost.
LEMMA StaysReady ==
  ASSUME TypeOK, UNCHANGED image, NEW r \in Request, Ready(r), Spare \in Int, Spare' \in Int, Spare' <= Spare
  PROVE  Ready(r)'
<1>1. /\ \A i : Named(i)' = Named(i) /\ Entries(i)' = Entries(i)
      /\ \A i, k : IsType(i, k)' = IsType(i, k)
      /\ \A d : IsDir(d)' = IsDir(d)
      /\ FreeInodes' = FreeInodes /\ bitmap' = bitmap /\ inodes' = inodes
  BY SameImage
<1>2. Safe(r)' = Safe(r)
  BY SameSafe
<1>3. Cardinality(Block \ bitmap) \in Nat /\ Cardinality(FreeInodes) \in Nat
  BY Blocks, FS_Subset, FS_CardinalityType DEF FreeInodes
<1> DEFINE c == Cardinality(Block \ bitmap)
           f == Cardinality(FreeInodes)
           m == r.blk - inodes[r.inum].size + 1
<1>4. c > Spare => c > Spare'
  BY <1>3
<1>5. f > Spare => f > Spare'
  BY <1>3
<1>6. m \in Int /\ c >= m + Spare => c >= m + Spare'
  BY <1>3
<1>7. r.cmd = "WRITE" => m \in Int
  <2> SUFFICES ASSUME r.cmd = "WRITE" PROVE m \in Int
    OBVIOUS
  <2>1. r.blk \in Nat /\ r.inum \in Inum
    BY RequestIs, Blocks
  <2>2. inodes[r.inum].size \in Int
    BY <2>1, MfsAssumption DEF TypeOK, Inode
  <2> QED
    BY <2>1, <2>2
<1> QED
  BY <1>1, <1>2, <1>4, <1>5, <1>6, <1>7 DEF Ready

\* The invariants of the image stay with it.
LEMMA StaysSound ==
  ASSUME UNCHANGED image, FilesInv, OwnInv, BlockInv, NameInv, Doomed \subseteq Doomed'
  PROVE  FilesInv' /\ OwnInv' /\ BlockInv' /\ NameInv'
<1>1. /\ \A i : Owned(i)' = Owned(i) /\ Entries(i)' = Entries(i) /\ Named(i)' = Named(i)
      /\ \A i, k : IsType(i, k)' = IsType(i, k)
      /\ \A d : IsDir(d)' = IsDir(d)
      /\ \A d, n, i : Has(d, n, i)' = Has(d, n, i)
      /\ bitmap' = bitmap /\ inodes' = inodes /\ block' = block
  BY SameImage
<1>2. FilesInv'
  BY <1>1 DEF FilesInv, FileOk
<1>3. OwnInv'
  BY <1>1 DEF OwnInv
<1>4. BlockInv'
  BY <1>1 DEF BlockInv
<1>5. NameInv'
  BY <1>1 DEF NameInv
<1> QED
  BY <1>2, <1>3, <1>4, <1>5

-----------------------------------------------------------------------------
(* The start, and the steps that leave the image alone *)

\* A new image is sound.
LEMMA InitIInv == ASSUME Modest, Init PROVE IInv
<1>1. /\ bitmap = {0} /\ up = "up" /\ cur = NoCall /\ todo = <<>> /\ crashes = 0
      /\ reqs = <<>> /\ reps = <<>> /\ call = NoCall
  BY DEF Init
<1>2. \A i \in Inum : inodes[i] =
            IF i = 0 THEN [type |-> Directory, size |-> 1,
                           addrs |-> [k \in Addr |-> IF k = 0 THEN 0 ELSE NoBlock]]
            ELSE [type |-> 0, size |-> 0, addrs |-> [k \in Addr |-> Header]]
  BY DEF Init
<1>3. block = [b \in Block |-> IF b = 0 THEN EmptyDir ELSE Zero]
  BY DEF Init
<1>4. EmptyDir \in Dirs /\ Zero \in Value
  BY MfsAssumption DEF EmptyDir, Dirs
<1>5. TypeOK
  <2>1. bitmap \subseteq Block
    BY <1>1, Blocks
  <2>2. inodes \in [Inum -> Inode]
    <3>1. [type |-> Directory, size |-> 1,
           addrs |-> [k \in Addr |-> IF k = 0 THEN 0 ELSE NoBlock]] \in Inode
      BY Blocks, MfsAssumption DEF Inode
    <3>2. [type |-> 0, size |-> 0, addrs |-> [k \in Addr |-> Header]] \in Inode
      BY Blocks, MfsAssumption DEF Inode
    <3> QED
      BY <3>1, <3>2 DEF Init
  <2>3. \A b \in Block : block[b] \in Value \/ block[b] \in Dirs
    BY <1>3, <1>4
  <2>4. Len(todo) <= 3 * NADDR + 2 /\ crashes \in 0..MaxCrash /\ Len(reqs) + Len(reps) <= MaxFlight
    BY <1>1, MfsAssumption
  <2> QED
    BY <1>1, <2>1, <2>2, <2>3, <2>4 DEF TypeOK
<1>6. OneFlight
  <2>1. List(todo)
    BY <1>1 DEF List
  <2> QED
    BY <1>1, <2>1 DEF OneFlight
<1>7. /\ IsType(0, Directory) /\ inodes[0].addrs[0] = 0 /\ inodes[0].size = 1 /\ Entries(0) = EmptyDir
      /\ \A i \in Inum : i # 0 => IsType(i, 0)
  <2>1. inodes[0] = [type |-> Directory, size |-> 1,
                     addrs |-> [k \in Addr |-> IF k = 0 THEN 0 ELSE NoBlock]]
    BY <1>2, Blocks
  <2>2. inodes[0].type = Directory /\ inodes[0].size = 1 /\ inodes[0].addrs[0] = 0
    BY <2>1, Blocks
  <2>a. 0 \in Block
    BY Blocks
  <2>3. block[0] = EmptyDir
    BY <1>3, <2>a
  <2>4. ASSUME NEW i \in Inum, i # 0 PROVE inodes[i].type = 0
    <3>1. inodes[i] = [type |-> 0, size |-> 0, addrs |-> [k \in Addr |-> Header]]
      BY <1>2, <2>4
    <3> QED
      BY <3>1
  <2> QED
    BY <2>2, <2>3, <2>4 DEF IsType, Entries
<1>8. Directory # 0 /\ RegularFile # 0 /\ Directory # RegularFile
  BY DEF Directory, RegularFile
<1>9. \A i \in Inum : IsType(i, Directory) <=> i = 0
  BY <1>7, <1>8 DEF IsType
<1>10. \A i \in Inum : ~IsType(i, RegularFile)
  BY <1>7, <1>8 DEF IsType
<1>11. FilesInv
  BY <1>7, <1>9, <1>10, Blocks DEF FilesInv, FileOk
<1>12. OwnInv
  <2>1. \A i \in Inum : Owned(i) = IF i = 0 THEN {0} ELSE {}
    <3>1. Owned(0) = {0}
      BY <1>7, <1>8, <1>10 DEF Owned, IsType
    <3>2. \A i \in Inum \ {0} : Owned(i) = {}
      BY <1>7, <1>8, <1>9, <1>10 DEF Owned, IsType
    <3> QED
      BY <3>1, <3>2
  <2> QED
    BY <2>1, <1>1 DEF OwnInv
<1>13. BlockInv
  BY <1>3, <1>4 DEF BlockInv
<1>14. NameInv
  <2>1. \A d \in Inum, n \in Name, i \in Inum : ~Has(d, n, i)
    BY <1>7, <1>9, Blocks DEF Has, IsDir, EmptyDir
  <2>2. \A i \in Inum : ~Named(i)
    BY <2>1 DEF Named
  <2>3. IsDir(0)
    BY <1>4, <1>7 DEF IsDir
  <2> QED
    BY <2>1, <2>2, <2>3 DEF NameInv
<1>15. ReadyInv /\ PhaseInv
  BY <1>1, RequestIs DEF ReadyInv, PhaseInv
<1>16. block = [b \in Block |-> block[b]]
  BY <1>3
<1> QED
  BY <1>5, <1>6, <1>11, <1>12, <1>13, <1>14, <1>15, <1>16 DEF IInv

\* The first block that has to be allocated is the size of the file.
LEMMA FirstNewIs ==
  ASSUME TypeOK, FilesInv, NEW i \in Inum, IsType(i, RegularFile), NEW k \in Addr,
         inodes[i].addrs[k] = NoBlock
  PROVE  FirstNew(i, k) = inodes[i].size /\ inodes[i].size <= k
<1> DEFINE s == inodes[i].size
           a == inodes[i].addrs
           S == {m \in Addr : a[m] = NoBlock}
<1>1. s \in Nat /\ k \in Nat
  BY MfsAssumption, Blocks DEF TypeOK, Inode
<1>2. \A m \in Addr : IF m < s THEN a[m] \in Block ELSE a[m] = NoBlock
  BY DEF FilesInv, FileOk
<1>3. \A m \in Addr : a[m] = NoBlock <=> ~(m < s)
  BY <1>2, Blocks
<1>4. s <= k
  BY <1>1, <1>3
<1>5. s \in Addr
  BY <1>1, <1>4, MfsAssumption DEF Addr
<1>6. k # 0 => k - 1 \in Addr
  BY <1>1, MfsAssumption DEF Addr
<1>7. S \subseteq Nat /\ s \in S /\ \A m \in S : s <= m
  <2>1. S \subseteq Nat
    BY Blocks
  <2>2. s \in S
    BY <1>1, <1>3, <1>5
  <2>3. ASSUME NEW m \in S PROVE s <= m
    <3>1. m \in Addr /\ m \in Nat /\ ~(m < s)
      BY <1>3, Blocks
    <3> HIDE DEF s
    <3> QED
      BY <1>1, <3>1
  <2> QED
    BY <2>1, <2>2, <2>3
<1>8. Min(S) = s
  <2> HIDE DEF S, s
  <2>1. Min(S) \in S /\ \A y \in S : Min(S) <= y
    BY <1>7, MinIsIn
  <2> DEFINE n == Min(S)
  <2>2. n \in S /\ n <= s /\ s <= n
    BY <1>7, <2>1
  <2> HIDE DEF n
  <2>3. n \in Nat /\ s \in Nat
    BY <1>7, <2>2
  <2>4. n = s
    BY <2>2, <2>3
  <2> QED
    BY <2>4 DEF n
<1>9. FirstNew(i, k) = IF k # 0 /\ a[k - 1] = NoBlock THEN Min(S) ELSE k
  BY DEF FirstNew
<1> HIDE DEF S, s, a
<1>10. CASE k # 0 /\ a[k - 1] = NoBlock
  BY <1>4, <1>8, <1>9, <1>10 DEF s
<1>11. CASE k = 0
  BY <1>1, <1>4, <1>9, <1>11 DEF s
<1>12. CASE k # 0 /\ a[k - 1] # NoBlock
  <2>1. k - 1 < s
    BY <1>3, <1>6, <1>12
  <2> QED
    BY <1>1, <1>4, <1>9, <1>12, <2>1 DEF s
<1> QED
  BY <1>10, <1>11, <1>12

\* The steps of the client and the network: the server is idle.
LEMMA ClientStep ==
  ASSUME IInv, UNCHANGED <<image, server>>, todo = <<>>, OneFlight', Len(reqs') + Len(reps') <= MaxFlight,
         \A r \in Request : r = call' => Ready(r)
  PROVE  IInv'
<1>1. UNCHANGED image /\ up' = up /\ cur' = cur /\ todo' = todo /\ crashes' = crashes
  BY DEF server
<1>2. Doomed = {} /\ Doomed' = {}
  BY <1>1 DEF Doomed
<1>3. FilesInv' /\ OwnInv' /\ BlockInv' /\ NameInv'
  BY <1>1, <1>2, StaysSound DEF IInv
<1>4. TypeOK'
  BY <1>1 DEF IInv, TypeOK, image, OneFlight
<1>5. ReadyInv'
  <2>1. Spare \in Int /\ Spare' = Spare
    BY <1>1, MfsAssumption DEF IInv, TypeOK, Spare
  <2>2. ASSUME NEW r \in Request, Ready(r) PROVE Ready(r)'
    <3>1. TypeOK /\ Spare' <= Spare /\ Spare' \in Int
      BY <2>1 DEF IInv
    <3> QED
      BY <1>1, <2>1, <2>2, <3>1, StaysReady
  <2> QED
    BY <2>2 DEF ReadyInv
<1>6. PhaseInv'
  BY <1>1 DEF PhaseInv
<1>7. block' = [b \in Block |-> block'[b]]
  BY <1>1 DEF image, IInv
<1> QED
  BY <1>3, <1>4, <1>5, <1>6, <1>7 DEF IInv

\* A list of one.
LEMMA OneIs == ASSUME NEW s, NEW a, s = <<a>>, NEW x \in 1..Len(s) PROVE x = 1 /\ s[x] = a /\ RemoveAt(s, x) = <<>>
<1>1. Len(s) = 1 /\ s[1] = a
  OBVIOUS
<1>2. x = 1
  BY <1>1
<1> QED
  BY <1>1, <1>2, Only

\* With one datagram under way, the server is idle while there is one.
LEMMA Idle ==
  ASSUME OneFlight
  PROVE  /\ Len(reqs) > 0 => reqs = <<call>> /\ reps = <<>> /\ cur = NoCall /\ todo = <<>> /\ call \in Request
         /\ Len(reps) > 0 => reps = <<reps[1]>> /\ reqs = <<>> /\ cur = NoCall /\ todo = <<>> /\ call \in Request
         /\ reqs = <<>> \/ reqs = <<call>>
         /\ reps = <<>> \/ reps = <<reps[1]>>
<1>1. Len(<<>>) = 0
  OBVIOUS
<1> QED
  BY <1>1 DEF OneFlight

\* What the client and the network do.
LEMMA ClientSteps ==
  ASSUME Modest, IInv, (\E r \in Request : Call(r)) \/ Timeout \/ Take \/ Lose
  PROVE  IInv'
<1>0. OneFlight /\ MaxFlight = 1
  BY DEF IInv, Modest
<1>1. ASSUME NEW r \in Request, Call(r) PROVE IInv'
  <2>1. /\ call = NoCall /\ reqs = <<>> /\ reps = <<>> /\ cur = NoCall /\ todo = <<>>
        /\ call' = r /\ reqs' = <<r>> /\ reps' = <<>> /\ UNCHANGED <<image, server>> /\ r # NoCall
    BY <1>0, <1>1, RequestIs DEF OneFlight, Call
  <2>2. OneFlight'
    <3>1. cur' = NoCall /\ todo' = <<>>
      BY <2>1 DEF server
    <3> QED
      BY <2>1, <3>1, <1>0 DEF OneFlight
  <2>3. Len(reqs') + Len(reps') <= MaxFlight
    BY <2>1, <1>0
  <2>4. Ready(r)
    <3>1. r.cmd # "SHUTDOWN" => r.inum = 0 \/ Named(r.inum) \/ IsType(r.inum, 0)
      <4>1. ASSUME NEW i, Linked(i) PROVE i = 0 \/ Named(i)
        BY <4>1 DEF Linked, Named, Has, IsDir
      <4> QED
        BY <1>1, <4>1 DEF Call, Knows
    <3>2. Fits(r) /\ Safe(r)
      BY <1>1 DEF Call
    <3>3. Cardinality(Block \ bitmap) \in Nat /\ Cardinality(FreeInodes) \in Nat /\ Spare \in Nat
      BY Blocks, FS_Subset, FS_CardinalityType, MfsAssumption DEF FreeInodes, Spare, IInv, TypeOK
    <3>4. r.cmd = "CREAT" => Cardinality(Block \ bitmap) > Spare /\ Cardinality(FreeInodes) > Spare
      <4> SUFFICES ASSUME r.cmd = "CREAT" PROVE Cardinality(Block \ bitmap) > Spare /\ Cardinality(FreeInodes) > Spare
        OBVIOUS
      <4>1. Needs(r) = 1
        BY DEF Needs
      <4>2. Cardinality(Block \ bitmap) >= 1 + Spare /\ Cardinality(FreeInodes) > Spare
        BY <3>2, <4>1 DEF Fits, Spare
      <4> QED
        BY <3>3, <4>2
    <3>5. ASSUME r.cmd = "WRITE", IsType(r.inum, RegularFile), inodes[r.inum].addrs[r.blk] = NoBlock
          PROVE  Cardinality(Block \ bitmap) >= r.blk - inodes[r.inum].size + 1 + Spare
      <4>1. r.inum \in Inum /\ r.blk \in Addr /\ r.blk \in Nat /\ TypeOK /\ FilesInv
        BY <3>5, RequestIs, Blocks DEF IInv
      <4>2. FirstNew(r.inum, r.blk) = inodes[r.inum].size /\ inodes[r.inum].size <= r.blk
        BY <3>5, <4>1, FirstNewIs
      <4> DEFINE s == inodes[r.inum].size
                 c == Cardinality(Block \ bitmap)
      <4>3. s \in Nat
        BY <4>1, MfsAssumption DEF TypeOK, Inode
      <4>4. Needs(r) = IF r.blk > 0 THEN r.blk - s + 1 ELSE 1
        BY <3>5, <4>2 DEF Needs
      <4>5. Needs(r) > 0 => c >= Needs(r) + Spare
        BY <3>2 DEF Fits, Spare
      <4> DEFINE k == r.blk
                 w == Needs(r)
      <4>6. /\ k \in Nat /\ s \in Nat /\ s <= k /\ w = (IF k > 0 THEN k - s + 1 ELSE 1)
            /\ (w > 0 => c >= w + Spare) /\ c \in Nat /\ Spare \in Nat
        BY <3>3, <4>1, <4>2, <4>3, <4>4, <4>5
      <4> HIDE DEF s, c, k, w
      <4>7. c >= k - s + 1 + Spare
        BY <4>6
      <4> QED
        BY <4>7 DEF s, c, k
    <3> QED
      BY <3>1, <3>2, <3>4, <3>5 DEF Ready
  <2> QED
    BY <1>1, <2>1, <2>2, <2>3, <2>4, ClientStep
<1>2. ASSUME Timeout PROVE IInv'
  <2>1. /\ call # NoCall /\ InFlight < 1 /\ reqs' = Append(reqs, call)
        /\ UNCHANGED <<image, server, reps, call, answer>>
    BY <1>0, <1>2 DEF Timeout
  <2>2. reqs = <<>> /\ reps = <<>> /\ cur = NoCall /\ todo = <<>>
    <3>1. (reqs = <<>> \/ Len(reqs) = 1) /\ (reps = <<>> \/ Len(reps) = 1)
      <4>1. Len(<<call>>) = 1 /\ Len(<<reps[1]>>) = 1
        OBVIOUS
      <4> QED
        BY <1>0, <4>1, Idle
    <3>2. Len(<<>>) = 0
      OBVIOUS
    <3> DEFINE a == Len(reqs)
               b == Len(reps)
               c == IF cur # NoCall THEN 1 ELSE 0
    <3>3. a \in {0, 1} /\ b \in {0, 1} /\ c \in {0, 1} /\ a + b + c < 1
      BY <2>1, <3>1, <3>2 DEF InFlight
    <3> HIDE DEF a, b, c
    <3>4. a = 0 /\ b = 0 /\ c = 0
      BY <3>3
    <3> QED
      BY <1>0, <3>1, <3>4 DEF a, b, c, OneFlight
  <2>3. reqs' = <<call'>> /\ reps' = <<>> /\ cur' = NoCall /\ todo' = <<>> /\ call' = call /\ UNCHANGED <<image, server>>
    BY <2>1, <2>2 DEF server
  <2>a. List(todo)'
    BY <2>3 DEF List
  <2>4. OneFlight' /\ Len(reqs') + Len(reps') <= MaxFlight
    BY <1>0, <2>1, <2>3, <2>a DEF OneFlight
  <2>5. \A r \in Request : r = call' => Ready(r)
    BY <2>2, <2>3 DEF IInv, ReadyInv
  <2> QED
    BY <2>2, <2>3, <2>4, <2>5, ClientStep
<1>3. ASSUME Take PROVE IInv'
  <2>1. PICK x \in 1..Len(reps) : reps' = RemoveAt(reps, x)
    BY <1>3 DEF Take
  <2>2. Len(reps) > 0
    <3>1. Len(reps) \in Nat
      BY <1>0, Idle
    <3> QED
      BY <3>1
  <2>3. reps = <<reps[1]>> /\ reqs = <<>> /\ cur = NoCall /\ todo = <<>>
    BY <1>0, <2>2, Idle
  <2>4. reps' = <<>>
    BY <2>1, <2>3, OneIs
  <2>5. call' = NoCall /\ reqs' = <<>> /\ cur' = NoCall /\ todo' = <<>> /\ UNCHANGED <<image, server>>
    BY <1>3, <2>3 DEF Take, server
  <2>6. OneFlight' /\ Len(reqs') + Len(reps') <= MaxFlight
    BY <1>0, <2>4, <2>5 DEF OneFlight
  <2>7. \A r \in Request : r = call' => Ready(r)
    BY <2>5, RequestIs
  <2> QED
    BY <2>3, <2>5, <2>6, <2>7, ClientStep
<1>4. ASSUME Lose PROVE IInv'
  <2>1. \/ \E x \in 1..Len(reqs) : reqs' = RemoveAt(reqs, x) /\ UNCHANGED reps
        \/ \E x \in 1..Len(reps) : reps' = RemoveAt(reps, x) /\ UNCHANGED reqs
    BY <1>4 DEF Lose
  <2>2. UNCHANGED <<image, server>> /\ call' = call
    BY <1>4 DEF Lose
  <2>3. reqs' = <<>> /\ reps' = <<>> /\ cur = NoCall /\ todo = <<>> /\ call \in Request
    <3>1. CASE \E x \in 1..Len(reqs) : reqs' = RemoveAt(reqs, x) /\ UNCHANGED reps
      <4>1. PICK x \in 1..Len(reqs) : reqs' = RemoveAt(reqs, x) /\ UNCHANGED reps
        BY <3>1
      <4>2. Len(reqs) \in Nat
        BY <1>0, Idle
      <4>3. Len(reqs) > 0
        BY <4>2
      <4>4. reqs = <<call>> /\ reps = <<>> /\ cur = NoCall /\ todo = <<>> /\ call \in Request
        BY <1>0, <4>3, Idle
      <4> QED
        BY <4>1, <4>4, OneIs
    <3>2. CASE \E x \in 1..Len(reps) : reps' = RemoveAt(reps, x) /\ UNCHANGED reqs
      <4>1. PICK x \in 1..Len(reps) : reps' = RemoveAt(reps, x) /\ UNCHANGED reqs
        BY <3>2
      <4>2. Len(reps) \in Nat
        BY <1>0, Idle
      <4>3. Len(reps) > 0
        BY <4>2
      <4>4. reps = <<reps[1]>> /\ reqs = <<>> /\ cur = NoCall /\ todo = <<>> /\ call \in Request
        BY <1>0, <4>3, Idle
      <4> QED
        BY <4>1, <4>4, OneIs
    <3> QED
      BY <2>1, <3>1, <3>2
  <2>4. cur' = NoCall /\ todo' = <<>>
    BY <2>2, <2>3 DEF server
  <2>5. OneFlight' /\ Len(reqs') + Len(reps') <= MaxFlight
    BY <1>0, <2>2, <2>3, <2>4 DEF OneFlight
  <2>6. \A r \in Request : r = call' => Ready(r)
    BY <2>2, <2>3 DEF IInv, ReadyInv
  <2> QED
    BY <2>2, <2>3, <2>5, <2>6, ClientStep
<1> QED
  BY <1>1, <1>2, <1>3, <1>4

-----------------------------------------------------------------------------
(* The server between its pwrites *)

\* What is the same while the image is.
LEMMA ServerStep ==
  ASSUME Modest, IInv, UNCHANGED <<image, call>>, OneFlight', TypeOK', Spare' <= Spare,
         cur' # NoCall => todo' = <<>>, Doomed = {},
         \A r \in Request : r = call /\ todo' = <<>> => Ready(r)'
  PROVE  IInv'
<1>1. UNCHANGED image
  OBVIOUS
<1>2. Doomed' = {}
  BY DEF Doomed
<1>3. FilesInv' /\ OwnInv' /\ BlockInv' /\ NameInv'
  BY <1>1, <1>2, StaysSound DEF IInv
<1>4. ReadyInv'
  BY DEF ReadyInv
<1>5. PhaseInv'
  BY DEF PhaseInv, OneFlight
<1>6. block' = [b \in Block |-> block'[b]]
  BY <1>1 DEF image, IInv
<1> QED
  BY <1>3, <1>4, <1>5, <1>6 DEF IInv

\* A request that can be carried out can still be, after a crash in the middle.
LEMMA ReadyAgain ==
  ASSUME Modest, IInv, NEW r \in Request, r = cur, todo # <<>>, r.cmd # "UNLINK", crashes < MaxCrash,
         UNCHANGED image, crashes' = crashes + 1
  PROVE  Ready(r)'
<1>1. /\ \A i : Named(i)' = Named(i) /\ Entries(i)' = Entries(i)
      /\ \A i, k : IsType(i, k)' = IsType(i, k)
      /\ \A d : IsDir(d)' = IsDir(d)
      /\ FreeInodes' = FreeInodes /\ bitmap' = bitmap /\ inodes' = inodes
  BY SameImage
<1>2. Spare \in Nat /\ Spare' \in Nat /\ Spare = Spare' + 1
  BY MfsAssumption DEF IInv, TypeOK, Spare
<1>3. Cardinality(Block \ bitmap) \in Nat /\ Cardinality(FreeInodes) \in Nat
  BY Blocks, FS_Subset, FS_CardinalityType DEF FreeInodes
<1>4. PICK l \in {todo} : Creating(r, l) \/ Writing(r, l)
  <2>1. ~Unlinking(r, todo)
    BY DEF Unlinking
  <2> QED
    BY <2>1 DEF IInv, PhaseInv
<1>5. Safe(r)'
  BY DEF Safe
<1>6. CASE Creating(r, l)
  <2>1. r.cmd = "CREAT" /\ (r.inum = 0 \/ Named(r.inum))
    BY <1>6 DEF Creating
  <2>2. /\ Cardinality(Block \ bitmap) >= Spare \/ Cardinality(Block \ bitmap) >= 1 + Spare
        /\ Cardinality(FreeInodes) >= Spare \/ Cardinality(FreeInodes) >= 1 + Spare
    <3>1. (Room(0) \/ Room(1)) /\ (Inodes(0) \/ Inodes(1))
      BY <1>6 DEF Creating, MakeFile, MarkDir, MakeDir, ClearDir, Enter
    <3>2. 0 + Spare = Spare
      BY <1>2
    <3> QED
      BY <3>1, <3>2 DEF Room, Inodes
  <2>a. ASSUME NEW c \in Nat, NEW s \in Nat, NEW t \in Nat, s = t + 1, c >= s \/ c >= 1 + s PROVE c > t
    BY <2>a
  <2>3. Cardinality(Block \ bitmap) > Spare' /\ Cardinality(FreeInodes) > Spare'
    BY <1>2, <1>3, <2>2, <2>a
  <2> QED
    BY <1>1, <1>5, <2>1, <2>3 DEF Ready
<1>7. CASE Writing(r, l)
  <2> DEFINE i == r.inum
             s == inodes[i].size
             R == r.blk - s + 1
             c == Cardinality(Block \ bitmap)
  <2>1. r.cmd = "WRITE" /\ IsType(i, RegularFile) /\ (i = 0 \/ Named(i))
    BY <1>7 DEF Writing
  <2>2. i \in Inum /\ r.blk \in Addr /\ r.blk \in Nat
    BY <2>1, RequestIs, Blocks
  <2>3. s \in Nat /\ R \in Int
    <3>1. s \in 0..NADDR
      BY <2>2 DEF IInv, TypeOK, Inode
    <3>2. s \in Nat
      BY <3>1, MfsAssumption
    <3> HIDE DEF s
    <3> QED
      BY <2>2, <3>2
  <2>4. R <= 0 \/ c >= R + Spare \/ c >= R - 1 + Spare
    <3>1. PICK R0 \in {Missing(r)} : StoreBlock(r, l, R0) \/ MarkBlock(r, l, R0) \/ LinkBlock(r, l, R0)
      BY <1>7 DEF Writing
    <3>2. R0 = R
      BY <3>1 DEF Missing
    <3>3. R0 <= 0 \/ Room(R0) \/ Room(R0 - 1)
      BY <3>1 DEF StoreBlock, MarkBlock, LinkBlock
    <3> QED
      BY <3>2, <3>3 DEF Room
  <2>5. R <= 0 => inodes[i].addrs[r.blk] # NoBlock
    <3> SUFFICES ASSUME R <= 0 PROVE inodes[i].addrs[r.blk] # NoBlock
      OBVIOUS
    <3>1. r.blk < s
      BY <2>2, <2>3
    <3>2. inodes[i].addrs[r.blk] \in Block
      BY <2>1, <2>2, <3>1 DEF IInv, FilesInv, FileOk
    <3> QED
      BY <3>2, Blocks
  <2>6. R > 0 => c >= R + Spare'
    <3>1. c \in Nat
      BY <1>3
    <3>2. ASSUME NEW x \in Nat, NEW y \in Int, NEW sp \in Nat, NEW t \in Nat, sp = t + 1,
                 y <= 0 \/ x >= y + sp \/ x >= y - 1 + sp, y > 0
          PROVE  x >= y + t
      BY <3>2
    <3> HIDE DEF R, c
    <3> QED
      BY <1>2, <2>3, <2>4, <3>1, <3>2
  <2>7. inodes[i].addrs[r.blk] = NoBlock => c >= R + Spare'
    BY <2>3, <2>5, <2>6
  <2>8. (r.cmd = "WRITE" /\ IsType(r.inum, RegularFile)' /\ inodes'[r.inum].addrs[r.blk] = NoBlock)
           => Cardinality(Block \ bitmap') >= r.blk - inodes'[r.inum].size + 1 + Spare'
    BY <1>1, <2>7
  <2> QED
    BY <1>1, <1>5, <2>1, <2>8 DEF Ready
<1> QED
  BY <1>4, <1>6, <1>7

\* The steps of the server between pwrites.
LEMMA ServerSteps ==
  ASSUME Modest, IInv, Respond \/ Crash \/ Restart
  PROVE  IInv'
<1>0. TypeOK /\ OneFlight /\ MaxFlight = 1 /\ Spare \in Nat
  BY MfsAssumption DEF IInv, Modest, TypeOK, Spare
<1>1. ASSUME Respond PROVE IInv'
  <2>1. /\ cur # NoCall /\ todo = <<>> /\ reps' = Append(reps, reply) /\ cur' = NoCall
        /\ up' \in {up, "off"}
        /\ UNCHANGED <<image, todo, crashes, reqs, call, answer>>
    BY <1>1 DEF Respond
  <2>2. cur = call /\ reqs = <<>> /\ reps = <<>>
    BY <1>0, <2>1 DEF OneFlight
  <2>3. reps' = <<reps'[1]>> /\ reps' = <<reply>> /\ reqs' = <<>>
    BY <2>1, <2>2
  <2>4. OneFlight'
    BY <1>0, <2>1, <2>2, <2>3 DEF OneFlight
  <2>5. TypeOK'
    <3>1. Len(reqs') + Len(reps') <= MaxFlight
      BY <1>0, <2>3
    <3> QED
      BY <1>0, <2>1, <3>1 DEF TypeOK, image
  <2>6. Spare' = Spare /\ Spare' <= Spare
    BY <1>0, <2>1 DEF Spare
  <2>7. ASSUME NEW r \in Request, r = call PROVE Ready(r)'
    <3>1. Ready(r) /\ UNCHANGED image
      BY <2>1, <2>7 DEF IInv, ReadyInv
    <3>2. Spare \in Int /\ Spare' \in Int
      BY <1>0, <2>6
    <3> QED
      BY <1>0, <2>6, <3>1, <3>2, StaysReady
  <2>8. Doomed = {}
    BY <2>1 DEF Doomed
  <2> QED
    BY <2>1, <2>4, <2>5, <2>6, <2>7, <2>8, ServerStep
<1>2. ASSUME Crash PROVE IInv'
  <2>1. /\ up = "up" /\ crashes < MaxCrash
        /\ cur # NoCall => cur.cmd # "UNLINK"
        /\ up' = "down" /\ cur' = NoCall /\ todo' = <<>>
        /\ crashes' = crashes + 1
        /\ UNCHANGED <<image, reqs, reps, call, answer>>
    BY <1>2, MfsAssumption DEF Crash
  <2>2. OneFlight'
    <3>1. List(todo)'
      BY <2>1 DEF List
    <3> QED
      BY <1>0, <2>1, <3>1 DEF OneFlight
  <2>3. TypeOK'
    <3>1. crashes' \in 0..MaxCrash
      BY <1>0, <2>1, MfsAssumption DEF TypeOK
    <3>2. Len(todo') <= 3 * NADDR + 2
      <4>1. Len(<<>>) = 0
        OBVIOUS
      <4> QED
        BY <2>1, <4>1, MfsAssumption
    <3> QED
      BY <1>0, <2>1, <3>1, <3>2 DEF TypeOK, image
  <2>4. Spare' = Spare - 1 /\ Spare' \in Int /\ Spare' <= Spare
    BY <1>0, <2>1, MfsAssumption DEF Spare, TypeOK
  <2>5. ASSUME NEW r \in Request, r = call PROVE Ready(r)'
    <3>1. CASE todo = <<>>
      <4>1. Ready(r) /\ UNCHANGED image /\ Spare \in Int
        BY <1>0, <2>1, <2>5, <3>1 DEF IInv, ReadyInv
      <4> QED
        BY <1>0, <2>4, <4>1, StaysReady
    <3>2. CASE todo # <<>>
      <4>1. r = cur /\ cur # NoCall
        BY <1>0, <2>5, <3>2 DEF OneFlight
      <4>2. r.cmd # "UNLINK" /\ UNCHANGED image
        BY <2>1, <4>1
      <4> QED
        BY <2>1, <3>2, <4>1, <4>2, ReadyAgain
    <3> QED
      BY <3>1, <3>2
  <2>6. Doomed = {} /\ UNCHANGED <<image, call>>
    BY <2>1 DEF Doomed
  <2> QED
    BY <2>1, <2>2, <2>3, <2>4, <2>5, <2>6, ServerStep
<1>3. ASSUME Restart PROVE IInv'
  <2>1. up = "down" /\ up' = "up" /\ UNCHANGED <<image, cur, todo, reply, crashes, reqs, reps, call, answer>>
    BY <1>3 DEF Restart
  <2>2. cur = NoCall /\ todo = <<>>
    BY <1>0, <2>1 DEF OneFlight
  <2>3. OneFlight'
    BY <1>0, <2>1 DEF OneFlight
  <2>4. TypeOK'
    BY <1>0, <2>1 DEF TypeOK, image
  <2>5. Spare' = Spare /\ Spare' <= Spare /\ Spare' \in Int
    BY <1>0, <2>1 DEF Spare
  <2>6. ASSUME NEW r \in Request, r = call PROVE Ready(r)'
    <3>1. Ready(r) /\ UNCHANGED image /\ Spare \in Int
      BY <1>0, <2>1, <2>2, <2>6 DEF IInv, ReadyInv
    <3> QED
      BY <1>0, <2>5, <3>1, StaysReady
  <2>7. Doomed = {} /\ UNCHANGED <<image, call>> /\ cur' = NoCall
    BY <2>1, <2>2 DEF Doomed
  <2> QED
    BY <2>3, <2>4, <2>5, <2>6, <2>7, ServerStep
<1> QED
  BY <1>1, <1>2, <1>3

-----------------------------------------------------------------------------
(* A request arrives *)

\* What is still to do is about the image and the crashes alone.
LEMMA SamePhase ==
  ASSUME UNCHANGED image, Spare' = Spare, NEW r, NEW l, Creating(r, l) \/ Writing(r, l) \/ Unlinking(r, l)
  PROVE  (Creating(r, l) \/ Writing(r, l) \/ Unlinking(r, l))'
<1>1. /\ bitmap' = bitmap /\ inodes' = inodes /\ block' = block
      /\ \A i : Entries(i)' = Entries(i) /\ Named(i)' = Named(i) /\ Owned(i)' = Owned(i)
      /\ \A i, k : IsType(i, k)' = IsType(i, k)
      /\ \A d : IsDir(d)' = IsDir(d)
      /\ FreeInodes' = FreeInodes
  BY SameImage
<1>2. /\ \A n : Room(n)' = Room(n) /\ Inodes(n)' = Inodes(n)
      /\ \A p, n, i : Entered(p, n, i)' = Entered(p, n, i)
      /\ \A p, i : Cleared(p, i)' = Cleared(p, i)
      /\ Missing(r)' = Missing(r)
      /\ \A nb, y : Taken(nb, y)' = Taken(nb, y)
  BY <1>1 DEF Room, Inodes, Entered, Cleared, Missing, Taken, PushBlock
<1>3. \A i : WithFile(i)' = WithFile(i)
  BY <1>1 DEF WithFile
<1>4. \A i, b : WithDir(i, b)' = WithDir(i, b)
  BY <1>1 DEF WithDir
<1>5. \A i, nb, y : Grown(i, nb, y)' = Grown(i, nb, y)
  BY <1>1 DEF Grown
<1>6. CASE Creating(r, l)
  <2>1. PICK i \in Inum \ {0} : MakeFile(r, i, l) \/ MarkDir(r, i, l) \/ MakeDir(r, i, l)
                                 \/ ClearDir(r, i, l) \/ Enter(r, i, l)
    BY <1>6 DEF Creating
  <2>2. MakeFile(r, i, l)' = MakeFile(r, i, l)
    BY <1>1, <1>2, <1>3 DEF MakeFile, PushInodes
  <2>3. MarkDir(r, i, l)' = MarkDir(r, i, l)
    BY <1>1, <1>2, <1>4 DEF MarkDir, PushInodes, PushBitmap, PushBlock, EmptyDir
  <2>4. MakeDir(r, i, l)' = MakeDir(r, i, l)
    BY <1>1, <1>2, <1>4 DEF MakeDir, PushInodes, PushBlock, EmptyDir
  <2>5. ClearDir(r, i, l)' = ClearDir(r, i, l)
    BY <1>1, <1>2 DEF ClearDir, PushBlock, EmptyDir
  <2>6. Enter(r, i, l)' = Enter(r, i, l)
    BY <1>1, <1>2 DEF Enter, EmptyDir
  <2>7. (MakeFile(r, i, l) \/ MarkDir(r, i, l) \/ MakeDir(r, i, l) \/ ClearDir(r, i, l) \/ Enter(r, i, l))'
    BY <2>1, <2>2, <2>3, <2>4, <2>5, <2>6
  <2> QED
    BY <1>1, <1>6, <2>7 DEF Creating
<1>7. CASE Writing(r, l)
  <2>1. \A R : StoreBlock(r, l, R)' = StoreBlock(r, l, R)
    BY <1>1, <1>2 DEF StoreBlock, PushBlock
  <2>2. \A R : MarkBlock(r, l, R)' = MarkBlock(r, l, R)
    BY <1>1, <1>2, <1>5 DEF MarkBlock, PushBlock, PushBitmap, PushInodes, Distinct
  <2>3. \A R : LinkBlock(r, l, R)' = LinkBlock(r, l, R)
    BY <1>1, <1>2, <1>5 DEF LinkBlock, PushBlock, PushBitmap, PushInodes, Distinct
  <2> QED
    BY <1>1, <1>2, <1>7, <2>1, <2>2, <2>3 DEF Writing
<1>8. CASE Unlinking(r, l)
  <2>1. \A i : Unmark(r, i, l)' = Unmark(r, i, l)
    BY <1>1, <1>2 DEF Unmark, PushBitmap, PushInodes, EmptyDir
  <2>2. \A i : Clear(r, i, l)' = Clear(r, i, l)
    BY <1>1, <1>2 DEF Clear
  <2> QED
    BY <1>1, <1>8, <2>1, <2>2 DEF Unlinking
<1> QED
  BY <1>6, <1>7, <1>8

\* A list with one or two more at its end.
LEMMA JoinOne ==
  ASSUME NEW n \in Nat, NEW S, NEW f \in [1..n -> S], NEW a
  PROVE  /\ Len(f \o <<a>>) = n + 1 /\ f \o <<a>> \in Seq(S \cup {a})
         /\ \A x \in 1..n : (f \o <<a>>)[x] = f[x]
         /\ (f \o <<a>>)[n + 1] = a
<1>1. f \in Seq(S \cup {a}) /\ Len(f) = n
  OBVIOUS
<1>2. <<a>> \in Seq(S \cup {a}) /\ Len(<<a>>) = 1
  OBVIOUS
<1> QED
  BY <1>1, <1>2

\* The same with two more elements.
LEMMA JoinTwo ==
  ASSUME NEW n \in Nat, NEW S, NEW f \in [1..n -> S], NEW a, NEW b
  PROVE  /\ Len(f \o <<a, b>>) = n + 2 /\ f \o <<a, b>> \in Seq(S \cup {a, b})
         /\ \A x \in 1..n : (f \o <<a, b>>)[x] = f[x]
         /\ (f \o <<a, b>>)[n + 1] = a /\ (f \o <<a, b>>)[n + 2] = b
<1>1. f \in Seq(S \cup {a, b}) /\ Len(f) = n
  OBVIOUS
<1>2. <<a, b>> \in Seq(S \cup {a, b}) /\ Len(<<a, b>>) = 2 /\ <<a, b>>[1] = a /\ <<a, b>>[2] = b
  OBVIOUS
<1>3. Len(f \o <<a, b>>) = n + 2 /\ f \o <<a, b>> \in Seq(S \cup {a, b})
  BY <1>1, <1>2
<1>4. \A x \in 1..n : (f \o <<a, b>>)[x] = f[x]
  BY <1>1, <1>2
<1>5. (f \o <<a, b>>)[n + 1] = <<a, b>>[1] /\ (f \o <<a, b>>)[n + 2] = <<a, b>>[2]
  BY <1>1, <1>2
<1> QED
  BY <1>2, <1>3, <1>4, <1>5

\* A list over a set is a list of its elements.
LEMMA ItsOwn == ASSUME NEW S, NEW s \in Seq(S) PROVE List(s)
<1>1. Len(s) \in Nat /\ s \in [1..Len(s) -> S]
  OBVIOUS
<1> QED
  BY <1>1, ListIs

\* What a creation starts with.
LEMMA CreatStarts ==
  ASSUME Modest, IInv, todo = <<>>, NEW r \in Request, Ready(r), r.cmd = "CREAT",
         NEW l, l = mfs_creat(r.inum, r.type, r.name).push, l # <<>>
  PROVE  Creating(r, l) /\ Len(l) <= 3 * NADDR + 2 /\ List(l)
<1> DEFINE p == r.inum
           n == r.name
<1>0. TypeOK /\ NameInv /\ FilesInv /\ p \in Inum /\ n \in Name /\ Spare \in Nat
  BY RequestIs, MfsAssumption DEF IInv, TypeOK, Spare
<1>1. /\ IsType(p, Directory) /\ Entries(p)[n] = NoInum
      /\ l = IF r.type = Directory THEN NewDir(p, n, Min(FreeInodes)) ELSE NewFile(p, n, Min(FreeInodes))
  BY DEF mfs_creat, Quick, Pushes
<1>2. ~IsType(p, 0)
  BY <1>1 DEF IsType, Directory
<1>3. p = 0 \/ Named(p)
  BY <1>2 DEF Ready
<1>4. IsDir(p)
  BY <1>0, <1>1, <1>3 DEF NameInv
<1>5. Cardinality(Block \ bitmap) > Spare /\ Cardinality(FreeInodes) > Spare
  BY <1>1, <1>4 DEF Ready
<1>6. Cardinality(Block \ bitmap) \in Nat /\ Cardinality(FreeInodes) \in Nat
  BY Blocks, FS_Subset, FS_CardinalityType DEF FreeInodes
<1>7. Room(0) /\ Room(1) /\ Inodes(1)
  <2>1. ASSUME NEW c \in Nat, NEW s \in Nat, c > s PROVE c >= 1 + s /\ c >= 0 + s
    BY <2>1
  <2> QED
    BY <1>0, <1>5, <1>6, <2>1 DEF Room, Inodes
<1>8. FreeInodes # {} /\ FreeInodes \subseteq Nat
  <2>1. Cardinality(FreeInodes) # 0
    BY <1>0, <1>5, <1>6
  <2> QED
    BY <2>1, FS_EmptySet, Blocks DEF FreeInodes
<1> DEFINE i == Min(FreeInodes)
<1>9. i \in FreeInodes
  BY <1>8, MinIsIn
<1> HIDE DEF i
<1>10. i \in Inum /\ IsType(i, 0) /\ i # 0
  <2>1. i \in Inum /\ IsType(i, 0)
    BY <1>9 DEF FreeInodes
  <2>2. IsType(0, Directory)
    BY <1>0, Blocks DEF FilesInv, FileOk
  <2> QED
    BY <2>1, <2>2 DEF IsType, Directory
<1>11. CASE r.type = Directory
  <2>1. 1 <= Cardinality(Block \ bitmap)
    BY <1>0, <1>5, <1>6
  <2>2. FreeBlocks(1) \in [1..1 -> Block \ bitmap]
    BY <2>1, FreshBlocks
  <2> DEFINE b == FreeBlocks(1)[1]
  <2>3. b \in Block \ bitmap
    BY <2>2
  <2>4. l = NewDir(p, n, i)
    BY <1>1, <1>11 DEF i
  <2>5. l = <<PushBitmap(bitmap \cup {b}), PushInodes(WithDir(i, b)),
               PushBlock(b, EmptyDir), Entered(p, n, i)>>
    BY <2>4 DEF NewDir, WithDir, Entered
  <2> HIDE DEF b
  <2>6. MarkDir(r, i, l)
    BY <1>7, <1>10, <1>11, <2>3, <2>5 DEF MarkDir
  <2>7. Len(l) = 4
    BY <2>5
  <2>8. List(l)
    <3> DEFINE S == {PushBitmap(bitmap \cup {b}), PushInodes(WithDir(i, b)), PushBlock(b, EmptyDir),
                     Entered(p, n, i)}
    <3>1. l \in Seq(S)
      BY <2>5
    <3> HIDE DEF S
    <3> QED
      BY <3>1, ItsOwn
  <2>9. Creating(r, l)
    BY <1>1, <1>3, <1>4, <1>10, <2>6 DEF Creating
  <2>10. 4 <= 3 * NADDR + 2
    BY MfsAssumption
  <2> QED
    BY <2>7, <2>8, <2>9, <2>10
<1>12. CASE r.type # Directory
  <2>1. l = NewFile(p, n, i)
    BY <1>1, <1>12 DEF i
  <2>2. l = <<PushInodes(WithFile(i)), Entered(p, n, i)>>
    BY <2>1 DEF NewFile, WithFile, Entered
  <2>3. MakeFile(r, i, l)
    BY <1>7, <1>10, <1>12, <2>2 DEF MakeFile
  <2>4. Len(l) = 2
    BY <2>2
  <2>5. List(l)
    <3> DEFINE S == {PushInodes(WithFile(i)), Entered(p, n, i)}
    <3>1. l \in Seq(S)
      BY <2>2
    <3> HIDE DEF S
    <3> QED
      BY <3>1, ItsOwn
  <2>6. Creating(r, l)
    BY <1>1, <1>3, <1>4, <1>10, <2>3 DEF Creating
  <2>7. 2 <= 3 * NADDR + 2
    BY MfsAssumption
  <2> QED
    BY <2>4, <2>5, <2>6, <2>7
<1> QED
  BY <1>11, <1>12

\* What a file grows by.
LEMMA GrowthIs ==
  ASSUME NEW i \in Inum, NEW k \in Addr, NEW R \in Nat \ {0}, R <= Cardinality(Block \ bitmap),
         FirstNew(i, k) = inodes[i].size, R = k - inodes[i].size + 1
  PROVE  \E nb \in [1..R -> Block \ bitmap] :
           /\ nb = FreeBlocks(R) /\ Distinct(nb, R)
           /\ Growth(i, k) \in [1..2 * R -> {Growth(i, k)[x] : x \in 1..2 * R}]
           /\ \A y \in 1..R : /\ Growth(i, k)[2 * y - 1] = PushBitmap(Taken(nb, y))
                              /\ Growth(i, k)[2 * y] = PushInodes(Grown(i, nb, y))
<1> DEFINE nb == FreeBlocks(R)
<1>1. nb \in [1..R -> Block \ bitmap] /\ Len(nb) = R /\ Distinct(nb, R)
  BY FreshBlocks DEF Distinct
<1>2. Growth(i, k) = [x \in 1..2 * R |->
          IF x % 2 = 1 THEN PushBitmap(Taken(nb, (x + 1) \div 2)) ELSE PushInodes(Grown(i, nb, x \div 2))]
  <2>1. FreeBlocks(k - FirstNew(i, k) + 1) = nb
    OBVIOUS
  <2> QED
    BY <1>1, <2>1 DEF Growth, Taken, Grown
<1> HIDE DEF nb
<1>3. Growth(i, k) \in [1..2 * R -> {Growth(i, k)[x] : x \in 1..2 * R}]
  BY <1>2
<1>4. ASSUME NEW y \in 1..R
      PROVE  /\ Growth(i, k)[2 * y - 1] = PushBitmap(Taken(nb, y))
             /\ Growth(i, k)[2 * y] = PushInodes(Grown(i, nb, y))
  <2>1. y \in Nat /\ 2 * y - 1 \in 1..2 * R /\ 2 * y \in 1..2 * R
    OBVIOUS
  <2>2. (2 * y - 1) % 2 = 1 /\ (2 * y) % 2 = 0 /\ (2 * y - 1 + 1) \div 2 = y /\ (2 * y) \div 2 = y
    BY <2>1
  <2>3. ASSUME NEW x \in 1..2 * R
        PROVE  Growth(i, k)[x] = IF x % 2 = 1 THEN PushBitmap(Taken(nb, (x + 1) \div 2))
                                              ELSE PushInodes(Grown(i, nb, x \div 2))
    BY <1>2
  <2>4. Growth(i, k)[2 * y - 1] = PushBitmap(Taken(nb, y))
    BY <2>1, <2>2, <2>3
  <2>5. Growth(i, k)[2 * y] = PushInodes(Grown(i, nb, y))
    <3>1. (2 * y) % 2 # 1
      BY <2>2
    <3> QED
      BY <2>1, <2>2, <2>3, <3>1
  <2> QED
    BY <2>4, <2>5
<1>5. nb = FreeBlocks(R)
  BY DEF nb
<1> QED
  BY <1>1, <1>3, <1>4, <1>5

\* What a write starts with.
LEMMA WriteStarts ==
  ASSUME Modest, IInv, todo = <<>>, NEW r \in Request, Ready(r), r.cmd = "WRITE",
         NEW l, l = mfs_write(r.inum, r.blk, r.val).push, IsType(r.inum, RegularFile)
  PROVE  Writing(r, l) /\ Len(l) \in 1..3 * NADDR + 2 /\ List(l)
<1> DEFINE i == r.inum
           k == r.blk
           s == inodes[i].size
<1>0. TypeOK /\ NameInv /\ FilesInv /\ i \in Inum /\ k \in Addr /\ Spare \in Nat
  BY RequestIs, MfsAssumption DEF IInv, TypeOK, Spare
<1>1. IsType(i, RegularFile)
  OBVIOUS
<1>2. ~IsType(i, 0)
  BY <1>1 DEF IsType, RegularFile
<1>3. i = 0 \/ Named(i)
  BY <1>2 DEF Ready
<1>4. s \in Nat /\ s <= NADDR /\ k \in Nat /\ k < NADDR
  <2>1. s \in 0..NADDR
    BY <1>0 DEF TypeOK, Inode
  <2>2. ASSUME NEW x \in Addr PROVE x \in Nat /\ x < NADDR
    BY MfsAssumption DEF Addr
  <2> QED
    BY <1>0, <2>1, <2>2, MfsAssumption
<1>5. NADDR \in Nat \ {0}
  BY MfsAssumption
<1>6. CASE inodes[i].addrs[k] # NoBlock
  <2>1. l = <<PushBlock(inodes[i].addrs[k], r.val)>>
    BY <1>1, <1>6 DEF mfs_write, Pushes
  <2>2. k < s
    BY <1>0, <1>1, <1>6 DEF FilesInv, FileOk
  <2>3. Missing(r) <= 0
    <3>1. k - s + 1 <= 0
      BY <1>4, <2>2
    <3> QED
      BY <3>1 DEF Missing
  <2>4. Writing(r, l)
    BY <1>1, <1>3, <2>1, <2>3 DEF Writing, StoreBlock
  <2>5. Len(l) = 1
    BY <2>1
  <2>6. List(l)
    <3> DEFINE a == PushBlock(inodes[i].addrs[k], r.val)
    <3>1. l \in Seq({a})
      BY <2>1
    <3> HIDE DEF a
    <3> QED
      BY <3>1, ItsOwn
  <2>7. 1 \in 1..3 * NADDR + 2
    BY <1>5
  <2> QED
    BY <2>4, <2>5, <2>6, <2>7
<1>7. CASE inodes[i].addrs[k] = NoBlock
  <2>1. FirstNew(i, k) = s /\ s <= k
    BY <1>0, <1>1, <1>7, FirstNewIs
  <2> DEFINE R == k - s + 1
             c == Cardinality(Block \ bitmap)
  <2>2. R \in Nat \ {0} /\ R <= NADDR
    <3> HIDE DEF s, k
    <3>1. s \in Nat /\ k \in Nat /\ s <= k /\ k < NADDR
      BY <1>4, <2>1 DEF s, k
    <3> QED
      BY <1>5, <3>1
  <2>3. c >= R + Spare
    BY <1>1, <1>7 DEF Ready
  <2>4. R <= c
    <3>1. c \in Nat
      BY Blocks, FS_Subset, FS_CardinalityType
    <3> HIDE DEF R, c
    <3> QED
      BY <1>0, <2>2, <2>3, <3>1
  <2>5. R = Missing(r)
    BY DEF Missing
  <2> DEFINE f == Growth(i, k)
  <2>6. PICK nb \in [1..R -> Block \ bitmap] :
           /\ nb = FreeBlocks(R) /\ Distinct(nb, R)
           /\ f \in [1..2 * R -> {f[x] : x \in 1..2 * R}]
           /\ \A y \in 1..R : /\ f[2 * y - 1] = PushBitmap(Taken(nb, y))
                              /\ f[2 * y] = PushInodes(Grown(i, nb, y))
    <3> HIDE DEF c
    <3>1. R <= Cardinality(Block \ bitmap)
      BY <2>4 DEF c
    <3> QED
      BY <1>0, <2>1, <2>2, <3>1, GrowthIs
  <2> DEFINE e == PushBlock(nb[R], r.val)
  <2>7. l = f \o <<e>>
    <3>1. Last(nb) = nb[R]
      <4>1. Len(nb) = R
        BY <2>2
      <4> QED
        BY <4>1 DEF Last
    <3>2. nb = FreeBlocks(k - FirstNew(i, k) + 1)
      BY <2>1, <2>6
    <3> QED
      BY <1>1, <1>7, <3>1, <3>2 DEF mfs_write, Pushes
  <2> HIDE DEF f, e, R, c
  <2>8. 2 * R \in Nat
    BY <2>2
  <2>9. /\ Len(l) = 2 * R + 1 /\ l \in Seq({f[x] : x \in 1..2 * R} \cup {e})
        /\ \A x \in 1..2 * R : l[x] = f[x]
        /\ l[2 * R + 1] = e
    <3> DEFINE S == {f[x] : x \in 1..2 * R}
               n == 2 * R
    <3>1. f \in [1..n -> S] /\ n \in Nat
      BY <2>6, <2>8
    <3> HIDE DEF S, n
    <3>2. /\ Len(f \o <<e>>) = n + 1 /\ f \o <<e>> \in Seq(S \cup {e})
          /\ \A x \in 1..n : (f \o <<e>>)[x] = f[x]
          /\ (f \o <<e>>)[n + 1] = e
      BY <3>1, JoinOne
    <3> QED
      BY <2>7, <3>2 DEF S, n
  <2>10. ASSUME NEW y \in 1..R
         PROVE  l[2 * y - 1] = PushBitmap(Taken(nb, y)) /\ l[2 * y] = PushInodes(Grown(i, nb, y))
    <3>1. 2 * y - 1 \in 1..2 * R /\ 2 * y \in 1..2 * R
      BY <2>2
    <3> QED
      BY <2>6, <2>9, <3>1
  <2>11. MarkBlock(r, l, R)
    <3>1. R >= 1
      BY <2>2
    <3>2. Room(R)
      BY <2>3 DEF Room, c
    <3>3. l[2 * R + 1] = PushBlock(nb[R], r.val)
      BY <2>9 DEF e
    <3>4. /\ R >= 1 /\ Len(l) = 2 * R + 1 /\ Room(R)
          /\ \E nc \in [1..R -> Block \ bitmap] :
               /\ Distinct(nc, R)
               /\ \A y \in 1..R : /\ l[2 * y - 1] = PushBitmap(Taken(nc, y))
                                  /\ l[2 * y] = PushInodes(Grown(i, nc, y))
               /\ l[2 * R + 1] = PushBlock(nc[R], r.val)
      BY <2>6, <2>9, <2>10, <3>1, <3>2, <3>3
    <3> QED
      BY <3>4 DEF MarkBlock
  <2>12. Writing(r, l)
    BY <1>1, <1>3, <2>5, <2>11 DEF Writing
  <2>13. Len(l) \in 1..3 * NADDR + 2
    BY <1>5, <2>2, <2>9
  <2> QED
    BY <2>9, <2>12, <2>13, ItsOwn
<1> QED
  BY <1>6, <1>7

\* An inode has one of the types, and what it owns.
LEMMA TypeIs ==
  ASSUME TypeOK, NEW i \in Inum
  PROVE  /\ IsType(i, 0) \/ IsType(i, RegularFile) \/ IsType(i, Directory)
         /\ IsType(i, 0) => ~IsType(i, RegularFile) /\ ~IsType(i, Directory) /\ Owned(i) = {}
         /\ IsType(i, RegularFile) => ~IsType(i, Directory)
              /\ Owned(i) = {inodes[i].addrs[k] : k \in Addr} \ {NoBlock}
         /\ IsType(i, Directory) => Owned(i) = {inodes[i].addrs[0]}
<1>1. inodes[i].type \in {0, RegularFile, Directory}
  BY DEF TypeOK, Inode
<1>2. 0 # RegularFile /\ 0 # Directory /\ RegularFile # Directory
  BY DEF RegularFile, Directory
<1>3. /\ IsType(i, 0) \/ IsType(i, RegularFile) \/ IsType(i, Directory)
      /\ IsType(i, 0) => ~IsType(i, RegularFile) /\ ~IsType(i, Directory)
      /\ IsType(i, RegularFile) => ~IsType(i, Directory)
  BY <1>1, <1>2 DEF IsType
<1>4. IsType(i, 0) => Owned(i) = {}
  <2> SUFFICES ASSUME IsType(i, 0) PROVE Owned(i) = {}
    OBVIOUS
  <2>1. IsType(i, 0) /\ ~IsType(i, RegularFile) /\ ~IsType(i, Directory)
    BY <1>3
  <2> QED
    BY <2>1 DEF Owned
<1>5. IsType(i, RegularFile) => Owned(i) = {inodes[i].addrs[k] : k \in Addr} \ {NoBlock}
  <2> SUFFICES ASSUME IsType(i, RegularFile) PROVE Owned(i) = {inodes[i].addrs[k] : k \in Addr} \ {NoBlock}
    OBVIOUS
  <2>1. IsType(i, RegularFile) /\ ~IsType(i, 0) /\ ~IsType(i, Directory)
    BY <1>3
  <2> QED
    BY <2>1 DEF Owned
<1>6. IsType(i, Directory) => Owned(i) = {inodes[i].addrs[0]}
  BY <1>3 DEF Owned
<1> QED
  BY <1>3, <1>4, <1>5, <1>6

\* An inode owns no more blocks than it has addresses.
LEMMA OwnedIs ==
  ASSUME TypeOK, FilesInv, NEW i \in Inum
  PROVE  /\ Owned(i) \subseteq Block /\ IsFiniteSet(Owned(i))
         /\ Cardinality(Owned(i)) \in Nat /\ Cardinality(Owned(i)) <= NADDR
<1>1. Owned(i) \subseteq Block
  <2>1. CASE IsType(i, RegularFile)
    <3>1. \A k \in Addr : inodes[i].addrs[k] \in Block \/ inodes[i].addrs[k] = NoBlock
      BY <2>1 DEF FilesInv, FileOk
    <3> QED
      BY <2>1, <3>1, TypeIs
  <2>2. CASE IsType(i, Directory)
    BY <2>2, TypeIs DEF FilesInv, FileOk
  <2> QED
    BY <2>1, <2>2, TypeIs
<1>2. IsFiniteSet(Owned(i)) /\ Cardinality(Owned(i)) \in Nat
  BY <1>1, Blocks, FS_Subset, FS_CardinalityType
<1>3. Cardinality(Owned(i)) <= NADDR
  <2>1. CASE IsType(i, RegularFile)
    <3>1. inodes[i].size \in 0..NADDR /\ inodes[i].size = Cardinality(Owned(i))
      BY <2>1 DEF FilesInv, FileOk, TypeOK, Inode
    <3> QED
      BY <1>2, <3>1, MfsAssumption
  <2>2. CASE IsType(i, Directory)
    <3>1. Cardinality(Owned(i)) = 1
      BY <2>2, TypeIs, FS_Singleton
    <3> QED
      BY <3>1, MfsAssumption
  <2>3. CASE IsType(i, 0)
    <3>1. Cardinality(Owned(i)) = 0
      BY <2>3, TypeIs, FS_EmptySet
    <3> QED
      BY <3>1, MfsAssumption
  <2> QED
    BY <2>1, <2>2, <2>3, TypeIs
<1> QED
  BY <1>1, <1>2, <1>3

\* What an unlink starts with.
LEMMA UnlinkStarts ==
  ASSUME Modest, IInv, todo = <<>>, NEW r \in Request, Ready(r), r.cmd = "UNLINK",
         NEW l, l = mfs_unlink(r.inum, r.name).push,
         NEW i, i = Entries(r.inum)[r.name], IsType(r.inum, Directory), i # NoInum,
         IsType(i, Directory) => Entries(i) = EmptyDir
  PROVE  Unlinking(r, l) /\ Len(l) \in 1..3 * NADDR + 2 /\ List(l)
<1> DEFINE p == r.inum
           n == r.name
<1>0. TypeOK /\ NameInv /\ FilesInv /\ p \in Inum /\ n \in Name /\ NADDR \in Nat \ {0} /\ Doomed = {}
  BY RequestIs, MfsAssumption DEF IInv, Doomed
<1>1. /\ IsType(p, Directory) /\ i # NoInum
      /\ ~(IsType(i, Directory) /\ Entries(i) # EmptyDir)
      /\ l = Unlinked(p, i)
  BY DEF mfs_unlink, Quick, Pushes
<1>2. ~IsType(p, 0)
  BY <1>0, <1>1, TypeIs
<1>3. p = 0 \/ Named(p)
  BY <1>2 DEF Ready
<1>4. IsDir(p)
  BY <1>0, <1>1, <1>3 DEF NameInv
<1>5. i \in Inum
  <2>1. Entries(p) \in [Name -> Inum \cup {NoInum}]
    BY <1>4 DEF IsDir, Dirs
  <2> QED
    BY <1>0, <1>1, <2>1
<1>6. Named(i)
  BY <1>0, <1>4 DEF Named, Has
<1>7. i # 0 /\ ~IsType(i, 0)
  BY <1>0, <1>5, <1>6 DEF NameInv
<1>8. i # p
  <2> SUFFICES ASSUME i = p PROVE FALSE
    OBVIOUS
  <2>1. IsType(i, Directory) /\ Entries(i) = EmptyDir
    BY <1>1
  <2>2. EmptyDir[n] = NoInum
    BY <1>0 DEF EmptyDir
  <2> QED
    BY <1>1, <2>1, <2>2
<1> DEFINE c == Cardinality(Owned(i))
           own == Ascending(Owned(i))
           B(k) == ClearBits(bitmap, {own[m] : m \in 1..k})
           f == [k \in 1..c |-> PushBitmap(B(k))]
           S == {PushBitmap(B(k)) : k \in 1..c}
           a == PushInodes([inodes EXCEPT ![i].type = 0])
           e == Cleared(p, i)
<1>9. c \in Nat /\ c <= NADDR /\ Owned(i) \subseteq Block
  BY <1>0, <1>5, OwnedIs
<1>10. Len(own) = c
  <2>1. Owned(i) \subseteq Nat /\ IsFiniteSet(Owned(i))
    BY <1>0, <1>5, <1>9, OwnedIs, Blocks
  <2>2. own \in [1..c -> Owned(i)]
    BY <2>1, AscendingIs
  <2> HIDE DEF own, c
  <2> QED
    BY <1>9, <2>2
<1>11. l = f \o <<a, e>>
  <2>1. Freeing(i) = f
    BY <1>10 DEF Freeing
  <2> QED
    BY <1>1, <2>1 DEF Unlinked, Cleared
<1>12. f \in [1..c -> S]
  OBVIOUS
<1>13. \A k \in 1..c : f[k] = PushBitmap(B(k)) /\ B(k) \subseteq Block
  BY <1>0 DEF ClearBits, TypeOK
<1> HIDE DEF f, S, a, e, c, B
<1>14. /\ Len(l) = c + 2 /\ l \in Seq(S \cup {a, e})
       /\ \A x \in 1..c : l[x] = f[x]
       /\ l[c + 1] = a /\ l[c + 2] = e
  <2>1. /\ Len(f \o <<a, e>>) = c + 2 /\ f \o <<a, e>> \in Seq(S \cup {a, e})
        /\ \A x \in 1..c : (f \o <<a, e>>)[x] = f[x]
        /\ (f \o <<a, e>>)[c + 1] = a /\ (f \o <<a, e>>)[c + 2] = e
    BY <1>9, <1>12, JoinTwo
  <2> QED
    BY <1>11, <2>1
<1>15. ASSUME NEW x \in 1..c, NEW j \in Inum \ {i} PROVE Owned(j) \subseteq l[x].to
  <2>1. Safe(r) /\ ~AnyUnlink
    BY DEF Ready, Modest
  <2>2. l[x].where = "bitmap" /\ x \in 1..Len(l)
    <3>1. l[x] = PushBitmap(B(x))
      BY <1>13, <1>14
    <3> QED
      BY <1>9, <1>14, <3>1 DEF PushBitmap
  <2> QED
    BY <2>1, <2>2 DEF Safe
<1>16. Unmark(r, i, l)
  <2>1. Len(l) \in 2..NADDR + 2
    BY <1>0, <1>9, <1>14
  <2>2. l[Len(l)] = Cleared(p, i) /\ l[Len(l) - 1] = PushInodes([inodes EXCEPT ![i].type = 0])
    <3>1. Len(l) - 1 = c + 1
      BY <1>9, <1>14
    <3> QED
      BY <1>14, <3>1 DEF a, e
  <2>3. Len(l) - 2 = c
    BY <1>9, <1>14
  <2>4. ASSUME NEW x \in 1..c PROVE l[x] = PushBitmap(l[x].to) /\ l[x].to \subseteq Block
    <3>1. l[x] = PushBitmap(B(x)) /\ B(x) \subseteq Block
      BY <1>13, <1>14
    <3> QED
      BY <3>1 DEF PushBitmap
  <2>5. IsType(i, Directory) => Entries(i) = EmptyDir
    BY <1>1
  <2> QED
    BY <1>7, <1>15, <2>1, <2>2, <2>3, <2>4, <2>5 DEF Unmark
<1>17. Unlinking(r, l)
  BY <1>3, <1>4, <1>5, <1>8, <1>16 DEF Unlinking
<1>18. Len(l) \in 1..3 * NADDR + 2
  BY <1>0, <1>9, <1>14
<1> QED
  BY <1>14, <1>17, <1>18, ItsOwn

\* A request arrives and is computed.
LEMMA ReceiveStep ==
  ASSUME Modest, IInv, Receive
  PROVE  IInv'
<1>0. TypeOK /\ OneFlight /\ MaxFlight = 1 /\ Spare \in Nat
  BY MfsAssumption DEF IInv, Modest, TypeOK, Spare
<1>1. PICK x \in 1..Len(reqs) :
         /\ reqs' = RemoveAt(reqs, x)
         /\ IF Asserts(reqs[x])
              THEN up' = "down" /\ UNCHANGED <<cur, todo, reply>>
              ELSE cur' = reqs[x] /\ todo' = Handle(reqs[x]).push /\ UNCHANGED up
  BY DEF Receive
<1>2. up = "up" /\ cur = NoCall /\ UNCHANGED <<image, crashes, reps, call, answer>>
  BY DEF Receive
<1>3. Len(reqs) > 0
  <2>1. Len(reqs) \in Nat
    BY <1>0, Idle
  <2> QED
    BY <2>1
<1>4. reqs = <<call>> /\ reps = <<>> /\ todo = <<>> /\ call \in Request
  BY <1>0, <1>3, Idle
<1>5. reqs[x] = call /\ reqs' = <<>> /\ reps' = <<>>
  BY <1>1, <1>2, <1>4, OneIs
<1>6. PICK r \in Request : r = call
  BY <1>4
<1>7. Ready(r) /\ call # NoCall
  BY <1>4, <1>6, RequestIs DEF IInv, ReadyInv
<1>8. Spare' = Spare /\ Spare' <= Spare /\ Spare' \in Int
  BY <1>0, <1>2 DEF Spare
<1>9. Ready(r)'
  <2>1. UNCHANGED image /\ Spare \in Int
    BY <1>0, <1>2
  <2> QED
    BY <1>0, <1>7, <1>8, <2>1, StaysReady
<1>10. Len(reqs') + Len(reps') <= MaxFlight
  BY <1>0, <1>5
<1>11. Doomed = {}
  BY <1>2 DEF Doomed
<1>12. CASE Asserts(r)
  <2>1. up' = "down" /\ cur' = NoCall /\ todo' = <<>>
    BY <1>1, <1>2, <1>4, <1>5, <1>6, <1>12
  <2>2. OneFlight'
    <3>1. List(todo)'
      BY <2>1 DEF List
    <3> QED
      BY <1>0, <1>2, <1>5, <2>1, <3>1 DEF OneFlight
  <2>3. TypeOK'
    BY <1>0, <1>2, <1>4, <1>10, <2>1 DEF TypeOK, image
  <2>4. UNCHANGED <<image, call>>
    BY <1>2
  <2>5. \A q \in Request : q = call /\ todo' = <<>> => Ready(q)'
    BY <1>6, <1>9
  <2> QED
    BY <1>8, <1>11, <2>1, <2>2, <2>3, <2>4, <2>5, ServerStep
<1>13. CASE ~Asserts(r)
  <2>1. up' = "up" /\ cur' = r /\ todo' = Handle(r).push
    BY <1>1, <1>2, <1>5, <1>6, <1>13
  <2>2. PICK l \in {Handle(r).push} : todo' = l /\ l = Handle(r).push
    BY <2>1
  <2>3. CASE l = <<>>
    <3>1. List(todo)'
      BY <2>2, <2>3 DEF List
    <3>2. OneFlight'
      BY <1>0, <1>2, <1>5, <1>6, <1>7, <2>1, <2>2, <2>3, <3>1 DEF OneFlight
    <3>3. TypeOK'
      BY <1>0, <1>2, <1>4, <1>6, <1>10, <2>1, <2>2, <2>3 DEF TypeOK, image
    <3>4. UNCHANGED <<image, call>>
      BY <1>2
    <3>5. \A q \in Request : q = call /\ todo' = <<>> => Ready(q)'
      BY <1>6, <1>9
    <3> QED
      BY <1>8, <1>11, <2>2, <2>3, <3>2, <3>3, <3>4, <3>5, ServerStep
  <2>4. CASE l # <<>>
    <3>1. /\ Creating(r, l) \/ Writing(r, l) \/ Unlinking(r, l)
          /\ Len(l) <= 3 * NADDR + 2 /\ List(l)
      <4>1. r.cmd \in {"CREAT", "WRITE", "UNLINK"}
        <5>1. r.cmd \in {"LOOKUP", "STAT", "READ", "SHUTDOWN"} => Handle(r).push = <<>>
          BY DEF Handle, mfs_lookup, mfs_stat, mfs_read, Quick
        <5> QED
          BY <2>2, <2>4, <5>1, RequestIs
      <4>a. todo = <<>> /\ Ready(r) /\ l # <<>>
        BY <1>4, <1>7, <2>4
      <4>2. CASE r.cmd = "CREAT"
        <5>1. l = mfs_creat(r.inum, r.type, r.name).push
          BY <2>2, <4>2 DEF Handle
        <5>2. Creating(r, l) /\ Len(l) <= 3 * NADDR + 2 /\ List(l)
          BY <4>a, <4>2, <5>1, CreatStarts
        <5> QED
          BY <5>2
      <4>3. CASE r.cmd = "WRITE"
        <5>1. l = mfs_write(r.inum, r.blk, r.val).push
          BY <2>2, <4>3 DEF Handle
        <5>2. IsType(r.inum, RegularFile)
          BY <4>a, <5>1 DEF mfs_write, Quick
        <5>3. Writing(r, l) /\ Len(l) \in 1..3 * NADDR + 2 /\ List(l)
          BY <4>a, <4>3, <5>1, <5>2, WriteStarts
        <5> QED
          BY <5>3
      <4>4. CASE r.cmd = "UNLINK"
        <5>1. l = mfs_unlink(r.inum, r.name).push
          BY <2>2, <4>4 DEF Handle
        <5>2. PICK i : i = Entries(r.inum)[r.name]
          OBVIOUS
        <5>3. IsType(r.inum, Directory) /\ i # NoInum /\ (IsType(i, Directory) => Entries(i) = EmptyDir)
          BY <4>a, <5>1, <5>2 DEF mfs_unlink, Quick
        <5>4. Unlinking(r, l) /\ Len(l) \in 1..3 * NADDR + 2 /\ List(l)
          BY <4>a, <4>4, <5>1, <5>2, <5>3, UnlinkStarts
        <5> QED
          BY <5>4
      <4> QED
        BY <4>1, <4>2, <4>3, <4>4
    <3>2. (Creating(r, l) \/ Writing(r, l) \/ Unlinking(r, l))'
      <4>1. UNCHANGED image
        BY <1>2
      <4> QED
        BY <1>8, <3>1, <4>1, SamePhase
    <3>3. PhaseInv'
      BY <2>1, <2>2, <3>2 DEF PhaseInv
    <3>4. OneFlight'
      BY <1>0, <1>2, <1>5, <1>6, <1>7, <2>1, <2>2, <3>1 DEF OneFlight
    <3>5. TypeOK'
      BY <1>0, <1>2, <1>4, <1>6, <1>10, <2>1, <2>2, <3>1 DEF TypeOK, image
    <3>6. ReadyInv'
      BY <2>2, <2>4 DEF ReadyInv
    <3>7. FilesInv' /\ OwnInv' /\ BlockInv' /\ NameInv'
      <4>1. UNCHANGED image /\ Doomed \subseteq Doomed'
        BY <1>2, <1>11
      <4> QED
        BY <4>1, StaysSound DEF IInv
    <3>8. block' = [b \in Block |-> block'[b]]
      BY <1>2 DEF image, IInv
    <3> QED
      BY <3>3, <3>4, <3>5, <3>6, <3>7, <3>8 DEF IInv
  <2> QED
    BY <2>3, <2>4
<1> QED
  BY <1>12, <1>13

-----------------------------------------------------------------------------
(* A pwrite *)

\* What it writes.
LEMMA PushIs ==
  ASSUME Push, NEW l, l = todo
  PROVE  /\ l # <<>> /\ todo' = Tail(l) /\ Spare' = Spare
         /\ UNCHANGED <<up, cur, crashes, reqs, reps, call>>
         /\ \A map : Head(l) = PushBitmap(map) => bitmap' = map /\ UNCHANGED <<inodes, block>>
         /\ \A ino : Head(l) = PushInodes(ino) => inodes' = ino /\ UNCHANGED <<bitmap, block>>
         /\ \A b, v : Head(l) = PushBlock(b, v) =>
              block' = [block EXCEPT ![b] = v] /\ UNCHANGED <<bitmap, inodes>>
<1> DEFINE w == Head(l)
<1>1. /\ l # <<>> /\ todo' = Tail(l) /\ UNCHANGED <<up, cur, crashes, reqs, reps, call>>
      /\ bitmap' = IF w.where = "bitmap" THEN w.to ELSE bitmap
      /\ inodes' = IF w.where = "inodes" THEN w.to ELSE inodes
      /\ block'  = IF w.where = "block" THEN [block EXCEPT ![w.block] = w.to] ELSE block
  BY DEF Push
<1>2. Spare' = Spare
  BY <1>1 DEF Spare
<1> HIDE DEF w
<1>3. \A map : w = PushBitmap(map) => bitmap' = map /\ UNCHANGED <<inodes, block>>
  <2> SUFFICES ASSUME NEW map, w = PushBitmap(map) PROVE bitmap' = map /\ UNCHANGED <<inodes, block>>
    OBVIOUS
  <2>1. w.where = "bitmap" /\ w.to = map
    BY DEF PushBitmap
  <2> QED
    BY <1>1, <2>1
<1>4. \A ino : w = PushInodes(ino) => inodes' = ino /\ UNCHANGED <<bitmap, block>>
  <2> SUFFICES ASSUME NEW ino, w = PushInodes(ino) PROVE inodes' = ino /\ UNCHANGED <<bitmap, block>>
    OBVIOUS
  <2>1. w.where = "inodes" /\ w.to = ino
    BY DEF PushInodes
  <2> QED
    BY <1>1, <2>1
<1>5. \A b, v : w = PushBlock(b, v) => block' = [block EXCEPT ![b] = v] /\ UNCHANGED <<bitmap, inodes>>
  <2> SUFFICES ASSUME NEW b, NEW v, w = PushBlock(b, v)
               PROVE  block' = [block EXCEPT ![b] = v] /\ UNCHANGED <<bitmap, inodes>>
    OBVIOUS
  <2>1. w.where = "block" /\ w.to = v /\ w.block = b
    BY DEF PushBlock
  <2> QED
    BY <1>1, <2>1
<1> QED
  BY <1>1, <1>2, <1>3, <1>4, <1>5 DEF w

\* The rest of the invariant, when the image is sound again.
LEMMA PushRest ==
  ASSUME Modest, IInv, Push, NEW l, l = todo, NEW r \in Request, r = cur,
         bitmap' \subseteq Block, inodes' \in [Inum -> Inode],
         FilesInv', OwnInv', BlockInv', NameInv',
         Tail(l) = <<>> => Ready(r)',
         \A t : t = Tail(l) /\ t # <<>> => (Creating(r, t) \/ Writing(r, t) \/ Unlinking(r, t))'
  PROVE  IInv'
<1>1. /\ l # <<>> /\ todo' = Tail(l) /\ UNCHANGED <<up, cur, crashes, reqs, reps, call>>
  BY PushIs
<1>2. cur # NoCall /\ cur = call
  BY <1>1, RequestIs DEF IInv, OneFlight
<1>3. /\ Len(l) \in Nat \ {0} /\ Len(Tail(l)) = Len(l) - 1
      /\ List(Tail(l))
  <2>1. List(l)
    BY DEF IInv, OneFlight
  <2>2. l # <<>>
    BY <1>1
  <2>3. /\ Len(l) \in Nat \ {0} /\ Len(Tail(l)) = Len(l) - 1
        /\ List(Tail(l))
    BY <2>1, <2>2, TailIs
  <2> QED
    BY <2>3
<1>4. OneFlight'
  BY <1>1, <1>2, <1>3 DEF IInv, OneFlight
<1>5. Len(todo') <= 3 * NADDR + 2
  <2>1. Len(l) <= 3 * NADDR + 2
    BY DEF IInv, TypeOK
  <2> QED
    BY <1>1, <1>3, <2>1, MfsAssumption
<1>6. \A b \in Block : block'[b] \in Value \/ block'[b] \in Dirs
  <2>1. EmptyDir \in Dirs
    BY DEF EmptyDir, Dirs
  <2> QED
    BY <2>1 DEF BlockInv
<1>7. TypeOK'
  BY <1>1, <1>5, <1>6 DEF IInv, TypeOK
<1>8. block' = [b \in Block |-> block'[b]]
  <2>1. block = [b \in Block |-> block[b]]
    BY DEF IInv
  <2>2. block' = block \/ \E c, v : block' = [block EXCEPT ![c] = v]
    BY DEF Push
  <2>3. CASE block' = block
    BY <2>1, <2>3
  <2>4. CASE block' # block
    <3>1. PICK c, v : block' = [block EXCEPT ![c] = v]
      BY <2>2, <2>4
    <3> DEFINE f == [b \in Block |-> block[b]]
    <3>2. block' = [f EXCEPT ![c] = v]
      BY <2>1, <3>1
    <3> QED
      BY <3>2
  <2> QED
    BY <2>3, <2>4
<1>9. ReadyInv'
  BY <1>1 DEF ReadyInv, OneFlight, IInv
<1>10. PhaseInv'
  BY <1>1 DEF PhaseInv
<1> QED
  BY <1>4, <1>7, <1>8, <1>9, <1>10 DEF IInv

\* What stays while only the bitmap is written.
LEMMA MapStep ==
  ASSUME UNCHANGED <<inodes, block>>
  PROVE  /\ \A i : Owned(i)' = Owned(i) /\ Entries(i)' = Entries(i) /\ Named(i)' = Named(i)
         /\ \A i, k : IsType(i, k)' = IsType(i, k)
         /\ \A d : IsDir(d)' = IsDir(d)
         /\ \A d, n, i : Has(d, n, i)' = Has(d, n, i)
         /\ FreeInodes' = FreeInodes
         /\ \A p, n, i : Entered(p, n, i)' = Entered(p, n, i)
         /\ \A p, i : Cleared(p, i)' = Cleared(p, i)
         /\ \A i, b : WithDir(i, b)' = WithDir(i, b)
         /\ \A i, nb, y : Grown(i, nb, y)' = Grown(i, nb, y)
         /\ FilesInv => FilesInv'
         /\ BlockInv => BlockInv'
         /\ NameInv /\ Doomed \subseteq Doomed' => NameInv'
<1>1. inodes' = inodes /\ block' = block
  OBVIOUS
<1>2. /\ \A i : Owned(i)' = Owned(i) /\ Entries(i)' = Entries(i)
      /\ \A i, k : IsType(i, k)' = IsType(i, k)
  BY <1>1 DEF Owned, Entries, IsType
<1>3. \A d : IsDir(d)' = IsDir(d)
  BY <1>2 DEF IsDir
<1>4. \A d, n, i : Has(d, n, i)' = Has(d, n, i)
  BY <1>2, <1>3 DEF Has
<1>5. \A i : Named(i)' = Named(i)
  BY <1>4 DEF Named
<1>6. FreeInodes' = FreeInodes
  BY <1>2 DEF FreeInodes
<1>7. /\ \A p, n, i : Entered(p, n, i)' = Entered(p, n, i)
      /\ \A p, i : Cleared(p, i)' = Cleared(p, i)
  BY <1>1, <1>2 DEF Entered, Cleared, PushBlock
<1>8. \A i, b : WithDir(i, b)' = WithDir(i, b)
  BY <1>1 DEF WithDir
<1>9. \A i, nb, y : Grown(i, nb, y)' = Grown(i, nb, y)
  BY <1>1 DEF Grown
<1>10. FilesInv => FilesInv'
  BY <1>1, <1>2 DEF FilesInv, FileOk
<1>11. BlockInv => BlockInv'
  BY <1>1, <1>2 DEF BlockInv
<1>12. NameInv /\ Doomed \subseteq Doomed' => NameInv'
  BY <1>2, <1>3, <1>4, <1>5 DEF NameInv
<1> QED
  BY <1>2, <1>3, <1>4, <1>5, <1>6, <1>7, <1>8, <1>9, <1>10, <1>11, <1>12

\* What stays of an inode while it does.
LEMMA SameInode ==
  ASSUME UNCHANGED block, NEW j, inodes'[j] = inodes[j]
  PROVE  /\ Owned(j)' = Owned(j) /\ Entries(j)' = Entries(j) /\ FileOk(j)' = FileOk(j) /\ IsDir(j)' = IsDir(j)
         /\ \A t : IsType(j, t)' = IsType(j, t)
         /\ \A n, i : Has(j, n, i)' = Has(j, n, i)
         /\ SameNode(j)
<1>1. Owned(j)' = Owned(j) /\ Entries(j)' = Entries(j)
  BY DEF Owned, Entries, IsType
<1>2. \A t : IsType(j, t)' = IsType(j, t)
  BY DEF IsType
<1>3. FileOk(j)' = FileOk(j)
  BY <1>1, <1>2 DEF FileOk
<1>4. IsDir(j)' = IsDir(j)
  BY <1>1, <1>2 DEF IsDir
<1>5. \A n, i : Has(j, n, i)' = Has(j, n, i)
  BY <1>1, <1>4 DEF Has
<1>6. SameNode(j)
  BY <1>1, <1>2 DEF SameNode, Contents
<1> QED
  BY <1>1, <1>2, <1>3, <1>4, <1>5, <1>6

\* A set of marked blocks grows by one.
LEMMA OneLess ==
  ASSUME NEW b \in Block \ bitmap, bitmap' = bitmap \cup {b}, bitmap \subseteq Block,
         Spare \in Nat, Spare' = Spare
  PROVE  /\ bitmap' \subseteq Block
         /\ \A n \in Nat : \A m : m = n + 1 /\ Room(m) => Room(n)'
<1> DEFINE S == Block \ bitmap
           T == Block \ bitmap'
<1>1. T = S \ {b} /\ IsFiniteSet(S) /\ b \in S
  BY Blocks, FS_Subset
<1>2. Cardinality(T) = Cardinality(S) - 1 /\ Cardinality(S) \in Nat
  <2> HIDE DEF S, T
  <2> QED
    BY <1>1, FS_RemoveElement, FS_CardinalityType
<1>3. ASSUME NEW n \in Nat, NEW m, m = n + 1, Room(m) PROVE Room(n)'
  <2>1. Cardinality(S) >= n + 1 + Spare
    BY <1>3 DEF Room
  <2> HIDE DEF S, T
  <2>2. Cardinality(T) >= n + Spare
    BY <1>2, <2>1
  <2>3. Cardinality(T) >= n + Spare'
    BY <2>2
  <2> QED
    BY <2>3 DEF Room, T
<1> QED
  BY <1>3

\* The request and the pwrites it still needs.
LEMMA Serving ==
  ASSUME IInv, Push
  PROVE  \E r \in Request, l \in {todo} :
           /\ r = cur /\ l # <<>> /\ List(l) /\ (r.cmd # "SHUTDOWN" => r.inum \in Inum)
           /\ Creating(r, l) \/ Writing(r, l) \/ Unlinking(r, l)
<1>1. todo # <<>>
  BY DEF Push
<1>2. cur \in Request
  BY <1>1 DEF IInv, OneFlight, TypeOK
<1> QED
  BY <1>1, <1>2, RequestIs DEF IInv, PhaseInv, OneFlight

\* Nothing is doomed but by an unlink.
LEMMA NotDoomed ==
  ASSUME NEW r, r = cur, r.cmd # "UNLINK", cur' = cur
  PROVE  Doomed = {} /\ Doomed' = {}
BY DEF Doomed

-----------------------------------------------------------------------------
(* The pwrites of a creation *)

\* Of nothing but inode i of those in use, and of nothing else is it changed.
LEMMA FilePush ==
  ASSUME Modest, IInv, Push, NEW l, l = todo, NEW r \in Request, r = cur, Creating(r, l),
         NEW i \in Inum \ {0}, MakeFile(r, i, l)
  PROVE  IInv' /\ Tail(l) # <<>> /\ OnlyNameless(i)
<1> DEFINE p == r.inum
           n == r.name
<1>0. /\ TypeOK /\ OneFlight /\ FilesInv /\ OwnInv /\ BlockInv /\ NameInv
      /\ p \in Inum /\ n \in Name /\ Spare \in Nat /\ r.cmd = "CREAT" /\ IsDir(p)
      /\ (p = 0 \/ Named(p)) /\ Entries(p)[n] = NoInum
  BY RequestIs, MfsAssumption DEF IInv, TypeOK, Spare, Creating
<1>1. /\ r.type # Directory /\ IsType(i, 0) /\ Room(0) /\ Inodes(1)
      /\ l = <<PushInodes(WithFile(i)), Entered(p, n, i)>>
  BY DEF MakeFile
<1>2. Head(l) = PushInodes(WithFile(i)) /\ Tail(l) = <<Entered(p, n, i)>>
  BY <1>1
<1>3. inodes' = WithFile(i) /\ UNCHANGED <<bitmap, block>> /\ cur' = cur /\ Spare' = Spare
  BY <1>2, PushIs
<1>4. Doomed = {} /\ Doomed' = {}
  BY <1>0, <1>3, NotDoomed
<1> DEFINE new == [type |-> RegularFile, size |-> 0, addrs |-> [k \in Addr |-> NoBlock]]
<1>5. /\ inodes' \in [Inum -> Inode] /\ inodes'[i] = new
      /\ \A j \in Inum \ {i} : inodes'[j] = inodes[j]
  <2>1. new \in Inode
    BY MfsAssumption DEF Inode
  <2>2. inodes \in [Inum -> Inode]
    BY <1>0 DEF TypeOK
  <2>3. inodes' = [inodes EXCEPT ![i] = new]
    BY <1>3 DEF WithFile
  <2> HIDE DEF new
  <2> QED
    BY <2>1, <2>2, <2>3
<1>6. /\ IsType(i, RegularFile)' /\ ~IsType(i, 0)' /\ ~IsType(i, Directory)'
      /\ ~IsType(i, Directory) /\ Owned(i) = {} /\ Owned(i)' = {}
  <2>1. IsType(i, RegularFile)' /\ ~IsType(i, 0)' /\ ~IsType(i, Directory)'
    BY <1>5 DEF IsType, RegularFile, Directory
  <2>2. Owned(i)' = {inodes'[i].addrs[k] : k \in Addr} \ {NoBlock}
    BY <2>1 DEF Owned
  <2>3. \A k \in Addr : inodes'[i].addrs[k] = NoBlock
    BY <1>5
  <2>4. Owned(i)' = {}
    BY <2>2, <2>3
  <2>5. ~IsType(i, Directory) /\ Owned(i) = {}
    BY <1>0, <1>1, TypeIs
  <2> QED
    BY <2>1, <2>4, <2>5
<1>7. \A j \in Inum \ {i} : /\ Owned(j)' = Owned(j) /\ Entries(j)' = Entries(j) /\ FileOk(j)' = FileOk(j)
                            /\ \A t : IsType(j, t)' = IsType(j, t)
                            /\ SameNode(j)
  BY <1>3, <1>5, SameInode
<1>8. \A d \in Inum : IsDir(d)' = IsDir(d)
  BY <1>6, <1>7 DEF IsDir
<1>9. \A d \in Inum : \A m, j : Has(d, m, j)' = Has(d, m, j)
  <2>1. ~IsDir(i)
    BY <1>6 DEF IsDir
  <2> QED
    BY <1>7, <1>8, <2>1 DEF Has
<1>10. \A j : Named(j)' = Named(j)
  BY <1>9 DEF Named
<1>11. ~Named(i)
  BY <1>0, <1>1, <1>4 DEF NameInv
<1>12. FilesInv'
  <2>1. Cardinality({}) = 0
    BY FS_EmptySet
  <2>2. /\ \A k \in Addr : inodes'[i].addrs[k] = NoBlock /\ ~(k < inodes'[i].size)
        /\ inodes'[i].size = 0
    BY <1>5, Blocks
  <2>3. 0 \in Inum \ {i}
    BY Blocks
  <2>4. FileOk(i)'
    BY <1>6, <2>1, <2>2 DEF FileOk
  <2>5. IsType(0, Directory)'
    BY <1>0, <1>7, <2>3 DEF FilesInv
  <2> QED
    BY <1>0, <1>7, <2>4, <2>5 DEF FilesInv
<1>13. OwnInv'
  BY <1>0, <1>3, <1>4, <1>6, <1>7 DEF OwnInv
<1>14. BlockInv'
  BY <1>0, <1>3, <1>5, <1>6, <1>7 DEF BlockInv
<1>15. NameInv'
  <2>1. \A j \in Inum : Named(j) => j # 0 /\ j # i /\ ~IsType(j, 0)'
    BY <1>0, <1>4, <1>7, <1>11 DEF NameInv
  <2>2. \A d \in Inum : (d = 0 \/ Named(d)) /\ IsType(d, Directory)' => IsDir(d)'
    BY <1>0, <1>6, <1>7, <1>8 DEF NameInv
  <2> QED
    BY <1>0, <1>9, <1>10, <2>1, <2>2 DEF NameInv
<1>16. Inodes(0)' /\ Room(0)'
  <2>1. FreeInodes' = FreeInodes \ {i} /\ i \in FreeInodes
    BY <1>1, <1>6, <1>7 DEF FreeInodes
  <2>2. IsFiniteSet(FreeInodes)
    BY Blocks, FS_Subset DEF FreeInodes
  <2>3. Cardinality(FreeInodes') = Cardinality(FreeInodes) - 1 /\ Cardinality(FreeInodes) \in Nat
    BY <2>1, <2>2, FS_RemoveElement, FS_CardinalityType
  <2>4. Cardinality(FreeInodes) >= 1 + Spare
    BY <1>1 DEF Inodes
  <2>5. Cardinality(FreeInodes') >= 0 + Spare
    BY <1>0, <2>3, <2>4
  <2> QED
    BY <1>1, <1>3, <2>5 DEF Inodes, Room
<1>17. p # i
  BY <1>0, <1>6 DEF IsDir
<1>18. Entered(p, n, i)' = Entered(p, n, i)
  BY <1>0, <1>5, <1>7, <1>17 DEF Entered, PushBlock
<1>19. ASSUME NEW t, t = Tail(l) PROVE Creating(r, t)'
  <2>1. Enter(r, i, t)'
    <3>1. IsType(i, RegularFile)' /\ inodes'[i].size = 0 /\ r.type # Directory
      BY <1>1, <1>5, <1>6
    <3> QED
      BY <1>2, <1>6, <1>10, <1>11, <1>16, <1>18, <1>19, <3>1 DEF Enter
  <2>2. IsDir(p)' /\ (p = 0 \/ Named(p)') /\ Entries(p)'[n] = NoInum
    BY <1>0, <1>7, <1>8, <1>10, <1>17
  <2> QED
    BY <1>0, <2>1, <2>2 DEF Creating
<1>20. Tail(l) # <<>> /\ bitmap' \subseteq Block
  BY <1>0, <1>2, <1>3, Only DEF TypeOK
<1>21. IInv'
  BY <1>5, <1>12, <1>13, <1>14, <1>15, <1>19, <1>20, PushRest
<1> QED
  BY <1>7, <1>10, <1>11, <1>20, <1>21 DEF OnlyNameless

\* What is known while a creation is served.
LEMMA CreatIs ==
  ASSUME IInv, Push, NEW r \in Request, r = cur, NEW l, Creating(r, l)
  PROVE  /\ TypeOK /\ OneFlight /\ FilesInv /\ OwnInv /\ BlockInv /\ NameInv
         /\ r.inum \in Inum /\ r.name \in Name /\ Spare \in Nat /\ r.cmd = "CREAT" /\ IsDir(r.inum)
         /\ (r.inum = 0 \/ Named(r.inum)) /\ Entries(r.inum)[r.name] = NoInum
         /\ Doomed = {} /\ Doomed' = {} /\ cur' = cur /\ Spare' = Spare
         /\ block = [b \in Block |-> block[b]]
<1>1. r.cmd = "CREAT" /\ cur' = cur /\ Spare' = Spare
  BY DEF Creating, Push, Spare
<1>2. Doomed = {} /\ Doomed' = {}
  BY <1>1, NotDoomed
<1>3. Spare \in Nat
  BY MfsAssumption DEF IInv, TypeOK, Spare
<1> QED
  BY <1>1, <1>2, <1>3, RequestIs DEF IInv, Creating

\* The block of a directory is marked.
LEMMA MarkDirPush ==
  ASSUME Modest, IInv, Push, NEW l, l = todo, NEW r \in Request, r = cur, Creating(r, l),
         NEW i \in Inum \ {0}, MarkDir(r, i, l)
  PROVE  IInv' /\ Tail(l) # <<>> /\ UNCHANGED <<inodes, block>>
<1> DEFINE p == r.inum
           n == r.name
<1>0. /\ TypeOK /\ FilesInv /\ OwnInv /\ BlockInv /\ NameInv
      /\ Spare \in Nat /\ r.cmd = "CREAT" /\ IsDir(p)
      /\ (p = 0 \/ Named(p)) /\ Entries(p)[n] = NoInum
      /\ Doomed = {} /\ Doomed' = {} /\ Spare' = Spare
  BY CreatIs
<1>1. PICK b \in Block \ bitmap :
         l = <<PushBitmap(bitmap \cup {b}), PushInodes(WithDir(i, b)),
               PushBlock(b, EmptyDir), Entered(p, n, i)>>
  BY DEF MarkDir
<1>2. r.type = Directory /\ IsType(i, 0) /\ Room(1) /\ Inodes(1)
  BY DEF MarkDir
<1>3. /\ Head(l) = PushBitmap(bitmap \cup {b})
      /\ Tail(l) = <<PushInodes(WithDir(i, b)), PushBlock(b, EmptyDir), Entered(p, n, i)>>
  BY <1>1
<1>4. bitmap' = bitmap \cup {b} /\ UNCHANGED <<inodes, block>>
  BY <1>3, PushIs
<1>5. /\ \A j : Owned(j)' = Owned(j) /\ Entries(j)' = Entries(j) /\ Named(j)' = Named(j)
      /\ \A j, k : IsType(j, k)' = IsType(j, k)
      /\ \A d : IsDir(d)' = IsDir(d)
      /\ FreeInodes' = FreeInodes
      /\ \A q, m, j : Entered(q, m, j)' = Entered(q, m, j)
      /\ \A j, c : WithDir(j, c)' = WithDir(j, c)
      /\ FilesInv' /\ BlockInv' /\ NameInv'
  BY <1>0, <1>4, MapStep
<1>6. bitmap' \subseteq Block /\ Room(0)'
  <2>1. bitmap \subseteq Block /\ 0 + 1 = 1 /\ 0 \in Nat
    BY <1>0 DEF TypeOK
  <2>2. bitmap' \subseteq Block /\ \A m \in Nat : \A k : k = m + 1 /\ Room(k) => Room(m)'
    BY <1>0, <1>4, <2>1, OneLess
  <2> QED
    BY <1>2, <2>1, <2>2
<1>7. OwnInv'
  BY <1>0, <1>4, <1>5 DEF OwnInv
<1>8. Inodes(1)'
  BY <1>0, <1>2, <1>5 DEF Inodes
<1>9. ASSUME NEW t, t = Tail(l) PROVE Creating(r, t)'
  <2>1. \A j \in Inum : b \notin Owned(j)
    BY <1>0 DEF OwnInv
  <2>2. /\ b \in bitmap' /\ \A j \in Inum : b \notin Owned(j)'
        /\ t = <<PushInodes(WithDir(i, b)'), PushBlock(b, EmptyDir), Entered(p, n, i)'>>
    BY <1>3, <1>4, <1>5, <1>9, <2>1
  <2>3. MakeDir(r, i, t)'
    BY <1>2, <1>5, <1>6, <1>8, <2>2 DEF MakeDir, PushInodes, PushBlock, EmptyDir
  <2> QED
    BY <1>0, <1>5, <2>3 DEF Creating
<1>10. Tail(l) # <<>> /\ inodes' \in [Inum -> Inode]
  <2>1. Tail(l) # <<>>
    BY <1>3
  <2>2. inodes' \in [Inum -> Inode]
    BY <1>0, <1>4 DEF TypeOK
  <2> QED
    BY <2>1, <2>2
<1>11. IInv'
  BY <1>5, <1>6, <1>7, <1>9, <1>10, PushRest
<1> QED
  BY <1>4, <1>10, <1>11

\* Its inode is filled in.
LEMMA MakeDirPush ==
  ASSUME Modest, IInv, Push, NEW l, l = todo, NEW r \in Request, r = cur, Creating(r, l),
         NEW i \in Inum \ {0}, MakeDir(r, i, l)
  PROVE  IInv' /\ Tail(l) # <<>> /\ OnlyNameless(i)
<1> DEFINE p == r.inum
           n == r.name
<1>0. /\ TypeOK /\ FilesInv /\ OwnInv /\ BlockInv /\ NameInv
      /\ p \in Inum /\ n \in Name /\ Spare \in Nat /\ r.cmd = "CREAT" /\ IsDir(p)
      /\ (p = 0 \/ Named(p)) /\ Entries(p)[n] = NoInum
      /\ Doomed = {} /\ Doomed' = {} /\ Spare' = Spare
  BY CreatIs
<1>1. PICK b \in bitmap :
         /\ \A j \in Inum : b \notin Owned(j)
         /\ l = <<PushInodes(WithDir(i, b)), PushBlock(b, EmptyDir), Entered(p, n, i)>>
  BY DEF MakeDir
<1>2. r.type = Directory /\ IsType(i, 0) /\ Room(0) /\ Inodes(1) /\ b \in Block
  BY <1>0 DEF MakeDir, TypeOK
<1>3. /\ Head(l) = PushInodes(WithDir(i, b))
      /\ Tail(l) = <<PushBlock(b, EmptyDir), Entered(p, n, i)>>
  BY <1>1
<1>4. inodes' = WithDir(i, b) /\ UNCHANGED <<bitmap, block>>
  BY <1>3, PushIs
<1>5. /\ inodes' \in [Inum -> Inode]
      /\ inodes'[i].type = Directory /\ inodes'[i].size = 1 /\ inodes'[i].addrs[0] = b
      /\ inodes'[0].type = inodes[0].type /\ inodes'[0].size = inodes[0].size
      /\ inodes'[0].addrs[0] = inodes[0].addrs[0]
      /\ \A j \in Inum \ {i, 0} : inodes'[j] = inodes[j]
  <2> DEFINE ino == [inodes EXCEPT ![i].type = Directory, ![i].size = 1, ![i].addrs[0] = b]
             none == [k \in Addr |-> IF k = 0 THEN ino[0].addrs[0] ELSE NoBlock]
  <2>1. inodes \in [Inum -> Inode] /\ 0 \in Inum /\ 0 \in Addr /\ i # 0
    BY <1>0, Blocks DEF TypeOK
  <2>2. \A j \in Inum : /\ inodes[j].addrs \in [Addr -> Block \cup {NoBlock, Header}]
                        /\ inodes[j] = [type |-> inodes[j].type, size |-> inodes[j].size,
                                        addrs |-> inodes[j].addrs]
                        /\ inodes[j].type \in {0, RegularFile, Directory} /\ inodes[j].size \in 0..NADDR
    BY <2>1 DEF Inode
  <2>3. /\ ino \in [Inum -> Inode]
        /\ ino[i].type = Directory /\ ino[i].size = 1 /\ ino[i].addrs[0] = b
        /\ \A j \in Inum \ {i} : ino[j] = inodes[j]
    <3> DEFINE new == [type |-> Directory, size |-> 1, addrs |-> [inodes[i].addrs EXCEPT ![0] = b]]
    <3>1. ino = [inodes EXCEPT ![i] = new]
      <4>1. ino = [inodes EXCEPT ![i] = [inodes[i] EXCEPT !.type = Directory, !.size = 1, !.addrs[0] = b]]
        BY <2>1
      <4> DEFINE t == inodes[i].type
                 s == inodes[i].size
                 a == inodes[i].addrs
                 d == Directory
      <4>2. inodes[i] = [type |-> t, size |-> s, addrs |-> a]
        BY <2>2
      <4> HIDE DEF t, s, a, d
      <4>3. [[type |-> t, size |-> s, addrs |-> a] EXCEPT !.type = d] = [type |-> d, size |-> s, addrs |-> a]
        OBVIOUS
      <4>4. [[type |-> d, size |-> s, addrs |-> a] EXCEPT !.size = 1] = [type |-> d, size |-> 1, addrs |-> a]
        OBVIOUS
      <4>5. [[type |-> d, size |-> 1, addrs |-> a] EXCEPT !.addrs = [a EXCEPT ![0] = b]]
              = [type |-> d, size |-> 1, addrs |-> [a EXCEPT ![0] = b]]
        OBVIOUS
      <4>6. [[type |-> d, size |-> 1, addrs |-> a] EXCEPT !.addrs[0] = b]
              = [[type |-> d, size |-> 1, addrs |-> a] EXCEPT !.addrs = [a EXCEPT ![0] = b]]
        OBVIOUS
      <4>7. [inodes[i] EXCEPT !.type = d, !.size = 1, !.addrs[0] = b]
              = [type |-> d, size |-> 1, addrs |-> [a EXCEPT ![0] = b]]
        BY <4>2, <4>3, <4>4, <4>5, <4>6
      <4> QED
        BY <4>1, <4>7 DEF a, d
    <3>2. new \in Inode /\ new.type = Directory /\ new.size = 1 /\ new.addrs[0] = b
      <4>1. [inodes[i].addrs EXCEPT ![0] = b] \in [Addr -> Block \cup {NoBlock, Header}]
        BY <1>2, <2>2
      <4>2. [inodes[i].addrs EXCEPT ![0] = b][0] = b
        BY <2>1, <2>2
      <4> QED
        BY <4>1, <4>2, MfsAssumption DEF Inode
    <3> HIDE DEF new, ino
    <3> QED
      BY <2>1, <3>1, <3>2
  <2>4. inodes' = [ino EXCEPT ![0].addrs = none]
    BY <1>4 DEF WithDir
  <2> HIDE DEF ino
  <2>5. none \in [Addr -> Block \cup {NoBlock, Header}] /\ none[0] = inodes[0].addrs[0]
    <3>1. ino[0].addrs[0] = inodes[0].addrs[0]
      BY <2>1, <2>3
    <3>2. inodes[0].addrs[0] \in Block \cup {NoBlock, Header}
      BY <2>1, <2>2
    <3> QED
      BY <2>1, <3>1, <3>2
  <2> HIDE DEF none
  <2> DEFINE root == [type |-> inodes[0].type, size |-> inodes[0].size, addrs |-> none]
  <2>6. ino[0] = [type |-> inodes[0].type, size |-> inodes[0].size, addrs |-> inodes[0].addrs]
    BY <2>1, <2>2, <2>3
  <2>7. inodes' = [ino EXCEPT ![0] = root]
    <3>1. [ino[0] EXCEPT !.addrs = none] = root
      BY <2>6
    <3>2. inodes' = [ino EXCEPT ![0] = [ino[0] EXCEPT !.addrs = none]]
      BY <2>1, <2>3, <2>4
    <3> QED
      BY <3>1, <3>2
  <2>8. root \in Inode
    BY <2>1, <2>2, <2>5 DEF Inode
  <2>9. root.type = inodes[0].type /\ root.size = inodes[0].size /\ root.addrs[0] = inodes[0].addrs[0]
    BY <2>5
  <2> HIDE DEF root
  <2>10. inodes' \in [Inum -> Inode] /\ inodes'[0] = root /\ \A j \in Inum \ {0} : inodes'[j] = ino[j]
    BY <2>1, <2>3, <2>7, <2>8
  <2> QED
    BY <2>1, <2>3, <2>9, <2>10
<1>6. 0 \in Inum /\ IsType(0, Directory) /\ FileOk(0)
  BY <1>0, Blocks DEF FilesInv
<1>7. \A j \in Inum \ {i} : /\ Owned(j)' = Owned(j) /\ Entries(j)' = Entries(j) /\ FileOk(j)' = FileOk(j)
                            /\ IsDir(j)' = IsDir(j)
                            /\ \A t : IsType(j, t)' = IsType(j, t)
                            /\ \A m, e : Has(j, m, e)' = Has(j, m, e)
  <2>1. /\ \A t : IsType(0, t)' = IsType(0, t)
        /\ Owned(0)' = Owned(0) /\ Entries(0)' = Entries(0) /\ FileOk(0)' = FileOk(0)
    <3>1. \A t : IsType(0, t)' = IsType(0, t)
      BY <1>5 DEF IsType
    <3>2. Entries(0)' = Entries(0)
      BY <1>4, <1>5 DEF Entries
    <3>3. ~IsType(0, RegularFile)
      BY <1>0, <1>6, TypeIs
    <3>4. Owned(0) = {inodes[0].addrs[0]} /\ Owned(0)' = {inodes'[0].addrs[0]}
      <4>1. ~IsType(0, 0)
        BY <1>0, <1>6, TypeIs
      <4>2. IsType(0, Directory)' /\ ~IsType(0, RegularFile)' /\ ~IsType(0, 0)'
        BY <1>6, <3>1, <3>3, <4>1
      <4> QED
        BY <1>6, <3>3, <4>1, <4>2 DEF Owned
    <3>5. FileOk(0)' = FileOk(0)
      BY <1>5, <3>1, <3>3 DEF FileOk
    <3> QED
      BY <1>5, <3>1, <3>2, <3>4, <3>5
  <2>2. IsDir(0)' = IsDir(0) /\ \A m, e : Has(0, m, e)' = Has(0, m, e)
    BY <2>1 DEF IsDir, Has
  <2>3. \A j \in Inum \ {i, 0} : /\ Owned(j)' = Owned(j) /\ Entries(j)' = Entries(j) /\ FileOk(j)' = FileOk(j)
                            /\ IsDir(j)' = IsDir(j)
                            /\ \A t : IsType(j, t)' = IsType(j, t)
                            /\ \A m, e : Has(j, m, e)' = Has(j, m, e)
    BY <1>4, <1>5, SameInode
  <2> QED
    BY <2>1, <2>2, <2>3
<1>8. /\ IsType(i, Directory)' /\ ~IsType(i, 0)' /\ ~IsType(i, RegularFile)'
      /\ ~IsType(i, Directory) /\ Owned(i) = {} /\ Owned(i)' = {b} /\ Entries(i)' = block[b]
  <2>1. IsType(i, Directory)' /\ ~IsType(i, 0)' /\ ~IsType(i, RegularFile)'
    BY <1>5 DEF IsType, RegularFile, Directory
  <2>2. Owned(i)' = {inodes'[i].addrs[0]}
    BY <2>1 DEF Owned
  <2>3. Owned(i) = {} /\ ~IsType(i, Directory)
    BY <1>0, <1>2, TypeIs
  <2> QED
    BY <1>4, <1>5, <2>1, <2>2, <2>3 DEF Entries
<1>9. block[b] \in Value \cup {EmptyDir}
  <2>1. \A d \in Inum : IsType(d, Directory) => Owned(d) = {inodes[d].addrs[0]}
    BY <1>0, TypeIs
  <2>2. ~ \E d \in Inum : IsType(d, Directory) /\ inodes[d].addrs[0] = b
    BY <1>1, <2>1
  <2> QED
    BY <1>0, <1>2, <2>2 DEF BlockInv
<1>10. \A m \in Name, e \in Inum : Has(i, m, e)' = Has(i, m, e)
  <2>1. ~IsDir(i)
    BY <1>8 DEF IsDir
  <2>2. IsDir(i)' => Entries(i)' = EmptyDir
    BY <1>8, <1>9 DEF IsDir, Modest, Dirs
  <2> QED
    BY <2>1, <2>2, Blocks DEF Has, EmptyDir
<1>11. \A j \in Inum : Named(j)' = Named(j)
  <2>1. \A d \in Inum, m \in Name, j \in Inum : Has(d, m, j)' = Has(d, m, j)
    BY <1>7, <1>10
  <2> QED
    BY <2>1 DEF Named
<1>12. ~Named(i)
  BY <1>0, <1>2 DEF NameInv
<1>13. FilesInv'
  <2>1. FileOk(i)'
    BY <1>2, <1>5, <1>8 DEF FileOk
  <2>2. IsType(0, Directory)'
    BY <1>6, <1>7
  <2> QED
    BY <1>0, <1>7, <2>1, <2>2 DEF FilesInv
<1>14. OwnInv'
  BY <1>0, <1>1, <1>4, <1>7, <1>8 DEF OwnInv
<1>15. BlockInv'
  <2>1. \A d \in Inum : IsType(d, Directory) => IsType(d, Directory)' /\ inodes'[d].addrs[0] = inodes[d].addrs[0]
    BY <1>5, <1>7, <1>8
  <2> QED
    BY <1>0, <1>4, <2>1 DEF BlockInv
<1>16. NameInv'
  <2>1. \A j \in Inum : Named(j) => j # 0 /\ ~IsType(j, 0)'
    BY <1>0, <1>7, <1>12 DEF NameInv
  <2>2. \A d \in Inum : (d = 0 \/ Named(d)) /\ IsType(d, Directory)' => IsDir(d)'
    BY <1>0, <1>7, <1>12 DEF NameInv
  <2>3. \A d \in Inum, m \in Name, j \in Inum : Has(d, m, j)' = Has(d, m, j)
    BY <1>7, <1>10
  <2> QED
    BY <1>0, <1>11, <2>1, <2>2, <2>3 DEF NameInv
<1>17. Inodes(0)' /\ Room(0)'
  <2>1. FreeInodes' = FreeInodes \ {i} /\ i \in FreeInodes
    BY <1>2, <1>7, <1>8 DEF FreeInodes
  <2>2. IsFiniteSet(FreeInodes)
    BY Blocks, FS_Subset DEF FreeInodes
  <2>3. Cardinality(FreeInodes') = Cardinality(FreeInodes) - 1 /\ Cardinality(FreeInodes) \in Nat
    BY <2>1, <2>2, FS_RemoveElement, FS_CardinalityType
  <2>4. Cardinality(FreeInodes) >= 1 + Spare
    BY <1>2 DEF Inodes
  <2>5. Cardinality(FreeInodes') >= 0 + Spare
    BY <1>0, <2>3, <2>4
  <2> QED
    BY <1>0, <1>2, <1>4, <2>5 DEF Inodes, Room
<1>18. p # i
  BY <1>0, <1>8 DEF IsDir
<1>19. Entered(p, n, i)' = Entered(p, n, i)
  <2>1. inodes'[p].addrs[0] = inodes[p].addrs[0] /\ Entries(p)' = Entries(p)
    BY <1>0, <1>5, <1>7, <1>18
  <2> QED
    BY <2>1 DEF Entered, PushBlock
<1>20. ASSUME NEW t, t = Tail(l) PROVE Creating(r, t)'
  <2>1. t = <<PushBlock(inodes'[i].addrs[0], EmptyDir), Entered(p, n, i)'>>
    BY <1>3, <1>5, <1>19, <1>20
  <2>2. ClearDir(r, i, t)'
    BY <1>2, <1>8, <1>9, <1>11, <1>12, <1>17, <2>1 DEF ClearDir, PushBlock, EmptyDir
  <2>3. IsDir(p)' /\ (p = 0 \/ Named(p)') /\ Entries(p)'[n] = NoInum
    BY <1>0, <1>7, <1>11, <1>18
  <2> QED
    BY <1>0, <2>2, <2>3 DEF Creating
<1>21. Tail(l) # <<>> /\ bitmap' \subseteq Block
  <2>1. \A x, y : <<x, y>> # <<>>
    OBVIOUS
  <2>2. bitmap' \subseteq Block
    BY <1>0, <1>4 DEF TypeOK
  <2> QED
    BY <1>3, <2>1, <2>2
<1>22. IInv'
  BY <1>5, <1>13, <1>14, <1>15, <1>16, <1>20, <1>21, PushRest
<1>23. \A j \in Inum \ {i} : SameNode(j)
  <2>1. SameNode(0)
    BY <1>0, <1>2, <1>6, <1>7, TypeIs DEF SameNode
  <2>2. \A j \in Inum \ {i, 0} : SameNode(j)
    BY <1>4, <1>5, SameInode
  <2> QED
    BY <2>1, <2>2
<1> QED
  BY <1>11, <1>12, <1>21, <1>22, <1>23 DEF OnlyNameless

\* What stays while a block of inode e is written.
LEMMA BlockStep ==
  ASSUME TypeOK, block = [b \in Block |-> block[b]], FilesInv, OwnInv, UNCHANGED <<bitmap, inodes>>,
         NEW e \in Inum, NEW b \in Owned(e), NEW v, block' = [block EXCEPT ![b] = v], Spare' = Spare
  PROVE  /\ b \in Block /\ \A x \in Block : block'[x] = IF x = b THEN v ELSE block[x]
         /\ \A i : Owned(i)' = Owned(i)
         /\ \A i, t : IsType(i, t)' = IsType(i, t)
         /\ \A n : Room(n)' = Room(n) /\ Inodes(n)' = Inodes(n)
         /\ \A d \in Inum \ {e} : /\ IsType(d, Directory) => Entries(d)' = Entries(d)
                                  /\ IsDir(d)' = IsDir(d)
                                  /\ \A n, i : Has(d, n, i)' = Has(d, n, i)
                                  /\ SameNode(d)
         /\ IsType(e, Directory) => b = inodes[e].addrs[0] /\ Entries(e)' = v
         /\ FilesInv'
         /\ Doomed \subseteq Doomed' => OwnInv'
         /\ inodes' \in [Inum -> Inode] /\ bitmap' \subseteq Block
<1>1. b \in Block
  BY OwnedIs
<1>2. \A x \in Block : block'[x] = IF x = b THEN v ELSE block[x]
  BY <1>1
<1>3. \A i, t : IsType(i, t)' = IsType(i, t)
  BY DEF IsType
<1>4. \A i : Owned(i)' = Owned(i)
  BY <1>3 DEF Owned
<1>5. \A i : FileOk(i)' = FileOk(i)
  BY <1>3, <1>4 DEF FileOk
<1>6. ASSUME NEW d \in Inum \ {e}
      PROVE  /\ IsType(d, Directory) => Entries(d)' = Entries(d)
             /\ IsDir(d)' = IsDir(d)
             /\ \A n, i : Has(d, n, i)' = Has(d, n, i)
             /\ SameNode(d)
  <2>1. IsType(d, Directory) => inodes[d].addrs[0] \in Block /\ inodes[d].addrs[0] # b
    <3> SUFFICES ASSUME IsType(d, Directory) PROVE inodes[d].addrs[0] \in Block /\ inodes[d].addrs[0] # b
      OBVIOUS
    <3>1. Owned(d) = {inodes[d].addrs[0]}
      BY TypeIs
    <3>2. Owned(d) \cap Owned(e) = {}
      BY DEF OwnInv
    <3>3. inodes[d].addrs[0] \in Block
      BY DEF FilesInv, FileOk
    <3> QED
      BY <3>1, <3>2, <3>3
  <2>2. IsType(d, Directory) => Entries(d)' = Entries(d)
    BY <1>2, <2>1 DEF Entries
  <2>3. IsDir(d)' = IsDir(d)
    BY <1>3, <2>2 DEF IsDir
  <2>4. \A n, i : Has(d, n, i)' = Has(d, n, i)
    BY <2>2, <2>3 DEF Has, IsDir
  <2>5. IsType(d, RegularFile) => Contents(d)' = Contents(d)
    <3> SUFFICES ASSUME IsType(d, RegularFile) PROVE Contents(d)' = Contents(d)
      OBVIOUS
    <3>1. Owned(d) = {inodes[d].addrs[k] : k \in Addr} \ {NoBlock}
      BY TypeIs
    <3>2. Owned(d) \cap Owned(e) = {}
      BY DEF OwnInv
    <3>3. \A k \in Addr : inodes[d].addrs[k] \in Block \/ inodes[d].addrs[k] = NoBlock
      BY DEF FilesInv, FileOk
    <3>4. \A k \in Addr : inodes[d].addrs[k] # NoBlock => block'[inodes[d].addrs[k]] = block[inodes[d].addrs[k]]
      BY <1>2, <3>1, <3>2, <3>3
    <3> QED
      BY <3>4 DEF Contents
  <2>6. SameNode(d)
    BY <1>3, <2>2, <2>5 DEF SameNode
  <2> QED
    BY <2>2, <2>3, <2>4, <2>6
<1>7. IsType(e, Directory) => b = inodes[e].addrs[0] /\ Entries(e)' = v
  <2> SUFFICES ASSUME IsType(e, Directory) PROVE b = inodes[e].addrs[0] /\ Entries(e)' = v
    OBVIOUS
  <2>1. Owned(e) = {inodes[e].addrs[0]}
    BY TypeIs
  <2>2. b = inodes[e].addrs[0]
    BY <2>1
  <2> QED
    BY <1>1, <1>2, <2>2 DEF Entries
<1>8. FreeInodes' = FreeInodes
  BY <1>3 DEF FreeInodes
<1>9. \A n : Room(n)' = Room(n) /\ Inodes(n)' = Inodes(n)
  BY <1>8 DEF Room, Inodes
<1>10. FilesInv'
  BY <1>3, <1>5 DEF FilesInv
<1>11. Doomed \subseteq Doomed' => OwnInv'
  BY <1>4 DEF OwnInv
<1>12. inodes' \in [Inum -> Inode] /\ bitmap' \subseteq Block
  BY DEF TypeOK
<1> QED
  BY <1>1, <1>2, <1>3, <1>4, <1>6, <1>7, <1>9, <1>10, <1>11, <1>12

\* The block of a new directory is cleared.
LEMMA ClearDirPush ==
  ASSUME Modest, IInv, Push, NEW l, l = todo, NEW r \in Request, r = cur, Creating(r, l),
         NEW i \in Inum \ {0}, ClearDir(r, i, l)
  PROVE  IInv' /\ Tail(l) # <<>> /\ OnlyNameless(i)
<1> DEFINE p == r.inum
           n == r.name
           b == inodes[i].addrs[0]
<1>0. /\ TypeOK /\ FilesInv /\ OwnInv /\ BlockInv /\ NameInv
      /\ p \in Inum /\ n \in Name /\ Spare \in Nat /\ r.cmd = "CREAT" /\ IsDir(p)
      /\ (p = 0 \/ Named(p)) /\ Entries(p)[n] = NoInum
      /\ Doomed = {} /\ Doomed' = {} /\ Spare' = Spare /\ block = [x \in Block |-> block[x]]
  BY CreatIs
<1>1. /\ r.type = Directory /\ IsType(i, Directory) /\ ~Named(i) /\ Room(0) /\ Inodes(0)
      /\ Entries(i) \in Value \cup {EmptyDir}
      /\ l = <<PushBlock(b, EmptyDir), Entered(p, n, i)>>
  BY DEF ClearDir
<1>2. Head(l) = PushBlock(b, EmptyDir) /\ Tail(l) = <<Entered(p, n, i)>>
  BY <1>1
<1>3. block' = [block EXCEPT ![b] = EmptyDir] /\ UNCHANGED <<bitmap, inodes>>
  BY <1>2, PushIs
<1>4. b \in Owned(i)
  BY <1>0, <1>1, TypeIs
<1>5. /\ b \in Block /\ \A x \in Block : block'[x] = IF x = b THEN EmptyDir ELSE block[x]
      /\ \A j, t : IsType(j, t)' = IsType(j, t)
      /\ \A m : Room(m)' = Room(m) /\ Inodes(m)' = Inodes(m)
      /\ \A d \in Inum \ {i} : /\ IsType(d, Directory) => Entries(d)' = Entries(d)
                               /\ IsDir(d)' = IsDir(d)
                               /\ \A m, j : Has(d, m, j)' = Has(d, m, j)
                               /\ SameNode(d)
      /\ Entries(i)' = EmptyDir
      /\ FilesInv' /\ OwnInv' /\ inodes' \in [Inum -> Inode] /\ bitmap' \subseteq Block
  <2> HIDE DEF b
  <2> QED
    BY <1>0, <1>1, <1>3, <1>4, BlockStep
<1>6. \A m \in Name, j \in Inum : Has(i, m, j)' = Has(i, m, j)
  <2>1. IsDir(i) => Entries(i) = EmptyDir
    BY <1>1 DEF IsDir, Modest
  <2> QED
    BY <1>5, <2>1, Blocks DEF Has, EmptyDir
<1>7. \A d \in Inum, m \in Name, j \in Inum : Has(d, m, j)' = Has(d, m, j)
  BY <1>5, <1>6
<1>8. \A j \in Inum : Named(j)' = Named(j)
  BY <1>7 DEF Named
<1>9. BlockInv'
  BY <1>0, <1>3, <1>5 DEF BlockInv
<1>10. NameInv'
  <2>1. \A j \in Inum : Named(j) => j # 0 /\ ~IsType(j, 0)'
    BY <1>0, <1>5 DEF NameInv
  <2>2. \A d \in Inum : (d = 0 \/ Named(d)) /\ IsType(d, Directory)' => IsDir(d)'
    BY <1>0, <1>1, <1>5 DEF NameInv
  <2> QED
    BY <1>0, <1>7, <1>8, <2>1, <2>2 DEF NameInv
<1>11. p # i
  BY <1>0, <1>1
<1>12. Entered(p, n, i)' = Entered(p, n, i) /\ Entries(p)' = Entries(p)
  BY <1>0, <1>3, <1>5, <1>11 DEF Entered, PushBlock, IsDir
<1>13. ASSUME NEW t, t = Tail(l) PROVE Creating(r, t)'
  <2>1. ~IsType(i, 0) /\ ~IsType(i, RegularFile)
    BY <1>0, <1>1, TypeIs
  <2>2. Entries(i)' = EmptyDir' /\ t = <<Entered(p, n, i)'>>
    BY <1>2, <1>5, <1>12, <1>13 DEF EmptyDir
  <2>3. Enter(r, i, t)'
    BY <1>1, <1>5, <1>8, <2>1, <2>2 DEF Enter
  <2>4. IsDir(p)' /\ (p = 0 \/ Named(p)') /\ Entries(p)'[n] = NoInum
    BY <1>0, <1>5, <1>8, <1>11, <1>12
  <2> QED
    BY <1>0, <2>3, <2>4 DEF Creating
<1>14. Tail(l) # <<>>
  BY <1>2, Only
<1>15. IInv'
  BY <1>5, <1>9, <1>10, <1>13, <1>14, PushRest
<1> QED
  BY <1>1, <1>5, <1>8, <1>14, <1>15 DEF OnlyNameless

\* The entry of a new file or directory is written.
LEMMA EnterPush ==
  ASSUME Modest, IInv, Push, NEW l, l = todo, NEW r \in Request, r = cur, Creating(r, l),
         NEW i \in Inum \ {0}, Enter(r, i, l)
  PROVE  IInv' /\ Tail(l) = <<>> /\ Entering(r.inum, r.name, i)
<1> DEFINE p == r.inum
           n == r.name
           b == inodes[p].addrs[0]
           v == [Entries(p) EXCEPT ![n] = i]
<1>0. /\ TypeOK /\ FilesInv /\ OwnInv /\ BlockInv /\ NameInv
      /\ p \in Inum /\ n \in Name /\ Spare \in Nat /\ r.cmd = "CREAT" /\ IsDir(p)
      /\ (p = 0 \/ Named(p)) /\ Entries(p)[n] = NoInum
      /\ Doomed = {} /\ Doomed' = {} /\ Spare' = Spare /\ block = [x \in Block |-> block[x]]
  BY CreatIs
<1>1. /\ ~IsType(i, 0) /\ ~Named(i) /\ Room(0) /\ Inodes(0)
      /\ IsType(i, Directory) => Entries(i) = EmptyDir
      /\ l = <<Entered(p, n, i)>>
  <2>1. /\ ~IsType(i, 0) /\ ~Named(i) /\ Room(0) /\ Inodes(0) /\ l = <<Entered(p, n, i)>>
        /\ IsType(i, RegularFile) \/ Entries(i) = EmptyDir
    BY DEF Enter
  <2> QED
    BY <1>0, <2>1, TypeIs
<1>2. Head(l) = PushBlock(b, v) /\ Tail(l) = <<>>
  BY <1>1 DEF Entered
<1>3. block' = [block EXCEPT ![b] = v] /\ UNCHANGED <<bitmap, inodes>>
  BY <1>2, PushIs
<1>4. b \in Owned(p) /\ IsType(p, Directory) /\ Entries(p) \in Dirs /\ i # p
  BY <1>0, <1>1, TypeIs DEF IsDir
<1>5. /\ b \in Block /\ \A x \in Block : block'[x] = IF x = b THEN v ELSE block[x]
      /\ \A j, t : IsType(j, t)' = IsType(j, t)
      /\ \A d \in Inum \ {p} : /\ IsType(d, Directory) => Entries(d)' = Entries(d)
                               /\ IsDir(d)' = IsDir(d)
                               /\ \A m, j : Has(d, m, j)' = Has(d, m, j)
                               /\ SameNode(d)
      /\ Entries(p)' = v
      /\ FilesInv' /\ OwnInv' /\ inodes' \in [Inum -> Inode] /\ bitmap' \subseteq Block
  <2> HIDE DEF b, v
  <2> QED
    BY <1>0, <1>3, <1>4, BlockStep
<1>6. v \in Dirs /\ v[n] = i /\ \A m \in Name \ {n} : v[m] = Entries(p)[m]
  BY <1>0, <1>4 DEF Dirs
<1>7. IsDir(p)'
  BY <1>4, <1>5, <1>6 DEF IsDir, Dirs
<1>8. \A m \in Name : \A j : Has(p, m, j)' = IF m = n THEN j = i ELSE Has(p, m, j)
  <2>1. \A m \in Name : \A j : Has(p, m, j)' <=> v[m] = j
    BY <1>5, <1>7 DEF Has
  <2>2. \A m \in Name : \A j : Has(p, m, j) <=> Entries(p)[m] = j
    BY <1>0 DEF Has
  <2> HIDE DEF v
  <2>3. ASSUME NEW m \in Name, NEW j PROVE Has(p, m, j)' = IF m = n THEN j = i ELSE Has(p, m, j)
    <3>1. Has(p, m, j)' \in BOOLEAN /\ Has(p, m, j) \in BOOLEAN
      BY DEF Has, IsDir
    <3>2. m = n => (Has(p, m, j)' <=> j = i)
      BY <1>6, <2>1
    <3>3. m # n => (Has(p, m, j)' <=> Has(p, m, j))
      BY <1>6, <2>1, <2>2
    <3> QED
      BY <3>1, <3>2, <3>3
  <2> QED
    BY <2>3
<1>9. \A j \in Inum : ~Has(p, n, j)
  BY <1>0, Blocks DEF Has
<1>a. \A d \in Inum, m \in Name, j \in Inum \ {i} : Has(d, m, j)' => Has(d, m, j)
  <2> SUFFICES ASSUME NEW d \in Inum, NEW m \in Name, NEW j \in Inum \ {i}, Has(d, m, j)'
               PROVE  Has(d, m, j)
    OBVIOUS
  <2>1. CASE d # p
    <3>a. d \in Inum \ {p}
      BY <2>1
    <3>b. \A f \in Inum \ {p} : \A k, q : Has(f, k, q)' = Has(f, k, q)
      BY <1>5
    <3>1. Has(d, m, j)' = Has(d, m, j)
      BY <3>a, <3>b
    <3> QED
      BY <3>1
  <2>2. CASE d = p
    <3>1. Has(p, m, j)' = IF m = n THEN j = i ELSE Has(p, m, j)
      BY <1>8
    <3>2. m # n
      BY <2>2, <3>1
    <3> QED
      BY <2>2, <3>1, <3>2
  <2> QED
    BY <2>1, <2>2
<1>10. \A j \in Inum \ {i} : Named(j)' <=> Named(j)
  <2>1. ASSUME NEW j \in Inum \ {i}, Named(j) PROVE Named(j)'
    <3>1. PICK d \in Inum, m \in Name : Has(d, m, j)
      BY <2>1 DEF Named
    <3>2. Has(d, m, j)'
      BY <1>5, <1>8, <1>9, <3>1
    <3> QED
      BY <3>2 DEF Named
  <2>2. ASSUME NEW j \in Inum \ {i}, Named(j)' PROVE Named(j)
    <3>1. PICK d \in Inum, m \in Name : Has(d, m, j)'
      BY <2>2 DEF Named
    <3>2. Has(d, m, j)
      BY <1>a, <3>1
    <3> QED
      BY <3>2 DEF Named
  <2> QED
    BY <2>1, <2>2
<1>11. BlockInv'
  <2>1. block'[b] \in Dirs' /\ IsType(p, Directory)'
    BY <1>4, <1>5, <1>6 DEF Dirs
  <2> HIDE DEF v
  <2>2. ASSUME NEW x \in Block \ {b}
        PROVE  \/ block'[x] \in Value \cup {EmptyDir}
               \/ block'[x] \in Dirs /\ \E d \in Inum : IsType(d, Directory) /\ inodes[d].addrs[0] = x
    BY <1>0, <1>5 DEF BlockInv
  <2>3. ASSUME NEW x \in Block
        PROVE  \/ block'[x] \in Value \cup {EmptyDir}
               \/ block'[x] \in Dirs /\ \E d \in Inum : IsType(d, Directory) /\ inodes[d].addrs[0] = x
    <3>1. CASE x = b
      <4>1. block'[x] \in Dirs /\ IsType(p, Directory) /\ inodes[p].addrs[0] = x
        BY <1>4, <1>5, <1>6, <3>1
      <4> QED
        BY <1>0, <4>1
    <3>2. CASE x # b
      <4>1. x \in Block \ {b}
        BY <3>2
      <4> QED
        BY <2>2, <4>1
    <3> QED
      BY <3>1, <3>2
  <2> QED
    BY <1>3, <1>5, <2>3 DEF BlockInv, EmptyDir, Dirs
<1>12. NameInv'
  <2>1. \A j \in Inum : Named(j)' => j # 0 /\ ~IsType(j, 0)'
    BY <1>0, <1>1, <1>5, <1>10 DEF NameInv
  <2>2. ASSUME NEW d \in Inum, d = 0 \/ Named(d)', IsType(d, Directory)' PROVE IsDir(d)'
    <3>1. CASE d = p
      BY <1>7, <3>1
    <3>2. CASE d = i
      <4>1. IsType(i, Directory) /\ Entries(i)' = EmptyDir
        BY <1>1, <1>4, <1>5, <2>2, <3>2
      <4>2. EmptyDir \in Dirs
        BY DEF EmptyDir, Dirs
      <4> QED
        BY <2>2, <3>2, <4>1, <4>2 DEF IsDir, Dirs
    <3>3. CASE d # p /\ d # i
      BY <1>0, <1>5, <1>10, <2>2, <3>3 DEF NameInv
    <3> QED
      BY <3>1, <3>2, <3>3
  <2>3. ASSUME NEW d \in Inum, NEW e \in Inum, NEW m \in Name, NEW k \in Name, NEW j \in Inum,
               Has(d, m, j)', Has(e, k, j)'
        PROVE  d = e /\ m = k
    <3>1. CASE j # i
      <4>1. Has(d, m, j) /\ Has(e, k, j)
        BY <1>a, <2>3, <3>1
      <4> QED
        BY <1>0, <4>1 DEF NameInv
    <3>2. CASE j = i
      <4>1. ~Has(d, m, j) /\ ~Has(e, k, j)
        BY <1>1, <3>2 DEF Named
      <4> QED
        BY <1>5, <1>8, <2>3, <3>2, <4>1
    <3> QED
      BY <3>1, <3>2
  <2> QED
    BY <1>0, <2>1, <2>2, <2>3 DEF NameInv
<1>13. Ready(r)'
  <2>1. p = 0 \/ Named(p)'
    BY <1>0, <1>4, <1>10
  <2>2. Entries(p)'[n] # NoInum
    BY <1>5, <1>6, Blocks
  <2>3. Safe(r)'
    BY <1>0 DEF Safe
  <2> QED
    BY <1>0, <2>1, <2>2, <2>3 DEF Ready
<1>14. IInv'
  BY <1>2, <1>5, <1>11, <1>12, <1>13, PushRest
<1>15. Named(i)'
  <2>1. Has(p, n, i)'
    BY <1>0, <1>8
  <2> QED
    BY <1>0, <2>1 DEF Named
<1> QED
  BY <1>2, <1>5, <1>10, <1>14, <1>15 DEF Entering

-----------------------------------------------------------------------------
(* The pwrites of a write *)

\* What is known while a write is served.
LEMMA WriteIs ==
  ASSUME IInv, Push, NEW r \in Request, r = cur, NEW l, Writing(r, l)
  PROVE  /\ TypeOK /\ FilesInv /\ OwnInv /\ BlockInv /\ NameInv
         /\ r.inum \in Inum /\ r.blk \in Addr /\ r.blk \in Nat /\ r.val \in Value /\ Spare \in Nat
         /\ r.cmd = "WRITE" /\ IsType(r.inum, RegularFile) /\ (r.inum = 0 \/ Named(r.inum))
         /\ ~IsType(r.inum, 0) /\ ~IsType(r.inum, Directory)
         /\ inodes[r.inum].size \in Nat /\ FileOk(r.inum)
         /\ Missing(r) = r.blk - inodes[r.inum].size + 1 /\ Missing(r) \in Int
         /\ Doomed = {} /\ Doomed' = {} /\ cur' = cur /\ Spare' = Spare
         /\ block = [b \in Block |-> block[b]]
<1>1. r.cmd = "WRITE" /\ cur' = cur /\ Spare' = Spare
  BY DEF Writing, Push, Spare
<1>2. Doomed = {} /\ Doomed' = {}
  BY <1>1, NotDoomed
<1>3. Spare \in Nat
  BY MfsAssumption DEF IInv, TypeOK, Spare
<1>4. r.inum \in Inum /\ r.blk \in Addr /\ r.blk \in Nat /\ r.val \in Value
  BY <1>1, RequestIs, Blocks
<1>5. IsType(r.inum, RegularFile) /\ (r.inum = 0 \/ Named(r.inum))
  BY DEF Writing
<1>6. ~IsType(r.inum, 0) /\ ~IsType(r.inum, Directory) /\ FileOk(r.inum)
  BY <1>4, <1>5, TypeIs DEF IInv, FilesInv
<1>7. inodes[r.inum].size \in Nat
  BY <1>4, MfsAssumption DEF IInv, TypeOK, Inode
<1>8. Missing(r) = r.blk - inodes[r.inum].size + 1 /\ Missing(r) \in Int
  BY <1>4, <1>7 DEF Missing
<1> QED
  BY <1>1, <1>2, <1>3, <1>4, <1>5, <1>6, <1>7, <1>8 DEF IInv

\* The data are written.
LEMMA StoreBlockPush ==
  ASSUME Modest, IInv, Push, NEW l, l = todo, NEW r \in Request, r = cur, Writing(r, l), StoreBlock(r, l, Missing(r))
  PROVE  IInv' /\ Tail(l) = <<>> /\ Storing(r.inum, r.blk, r.val)
<1> DEFINE i == r.inum
           b == inodes[i].addrs[r.blk]
<1>0. /\ TypeOK /\ FilesInv /\ OwnInv /\ BlockInv /\ NameInv
      /\ i \in Inum /\ r.blk \in Addr /\ r.blk \in Nat /\ r.val \in Value /\ Spare \in Nat
      /\ r.cmd = "WRITE" /\ IsType(i, RegularFile) /\ (i = 0 \/ Named(i))
      /\ ~IsType(i, 0) /\ ~IsType(i, Directory)
      /\ inodes[i].size \in Nat /\ FileOk(i)
      /\ Missing(r) = r.blk - inodes[i].size + 1 /\ Missing(r) \in Int
      /\ Doomed = {} /\ Doomed' = {} /\ Spare' = Spare
      /\ block = [x \in Block |-> block[x]]
  BY WriteIs
<1>1. Missing(r) <= 0 /\ l = <<PushBlock(b, r.val)>>
  BY DEF StoreBlock
<1>2. Head(l) = PushBlock(b, r.val) /\ Tail(l) = <<>>
  BY <1>1
<1>3. block' = [block EXCEPT ![b] = r.val] /\ UNCHANGED <<bitmap, inodes>>
  BY <1>2, PushIs
<1>4. b \in Block /\ b # NoBlock
  <2>1. r.blk < inodes[i].size
    BY <1>0, <1>1
  <2>2. b \in Block
    BY <1>0, <2>1 DEF FileOk
  <2> QED
    BY <2>2, Blocks
<1>5. b \in Owned(i)
  BY <1>0, <1>4, TypeIs
<1>6. /\ \A x \in Block : block'[x] = IF x = b THEN r.val ELSE block[x]
      /\ \A j, t : IsType(j, t)' = IsType(j, t)
      /\ \A d \in Inum \ {i} : /\ IsType(d, Directory) => Entries(d)' = Entries(d)
                               /\ IsDir(d)' = IsDir(d)
                               /\ \A m, j : Has(d, m, j)' = Has(d, m, j)
                               /\ SameNode(d)
      /\ FilesInv' /\ OwnInv' /\ inodes' \in [Inum -> Inode] /\ bitmap' \subseteq Block
  <2> HIDE DEF b
  <2> QED
    BY <1>0, <1>3, <1>5, BlockStep
<1>7. \A d \in Inum : \A m, j : Has(d, m, j)' = Has(d, m, j)
  <2>1. \A m, j : Has(i, m, j)' = Has(i, m, j)
    BY <1>0, <1>6 DEF Has, IsDir
  <2> QED
    BY <1>6, <2>1
<1>8. \A j : Named(j)' = Named(j)
  BY <1>7 DEF Named
<1>9. BlockInv'
  <2>1. \A x \in Block : block'[x] \in Value \/ block'[x] = block[x]
    BY <1>0, <1>6
  <2> QED
    BY <1>0, <1>3, <1>6, <2>1 DEF BlockInv
<1>10. NameInv'
  BY <1>0, <1>6, <1>7, <1>8 DEF NameInv
<1>11. Ready(r)'
  <2>1. inodes'[i].addrs[r.blk] # NoBlock
    BY <1>3, <1>4
  <2>2. Safe(r)'
    BY <1>0 DEF Safe
  <2> QED
    BY <1>0, <1>8, <2>1, <2>2 DEF Ready
<1>12. IInv'
  BY <1>2, <1>6, <1>9, <1>10, <1>11, PushRest
<1> QED
  BY <1>2, <1>3, <1>4, <1>6, <1>8, <1>12 DEF Storing

\* A new block is marked.
LEMMA MarkBlockPush ==
  ASSUME Modest, IInv, Push, NEW l, l = todo, NEW r \in Request, r = cur, Writing(r, l),
         NEW R, R = Missing(r), MarkBlock(r, l, R), NEW t, t = Tail(l), List(l)
  PROVE  IInv' /\ Tail(l) # <<>> /\ UNCHANGED <<inodes, block>>
<1> DEFINE i == r.inum
<1>0. /\ TypeOK /\ FilesInv /\ OwnInv /\ BlockInv /\ NameInv
      /\ i \in Inum /\ Spare \in Nat
      /\ r.cmd = "WRITE" /\ IsType(i, RegularFile) /\ (i = 0 \/ Named(i))
      /\ R \in Int /\ Doomed = {} /\ Doomed' = {} /\ Spare' = Spare
  BY WriteIs
<1>1. R >= 1 /\ Len(l) = 2 * R + 1 /\ Room(R) /\ R \in Nat \ {0}
  BY <1>0 DEF MarkBlock
<1>2. PICK nb \in [1..R -> Block \ bitmap] :
         /\ Distinct(nb, R)
         /\ \A y \in 1..R : /\ l[2 * y - 1] = PushBitmap(Taken(nb, y))
                            /\ l[2 * y] = PushInodes(Grown(i, nb, y))
         /\ l[2 * R + 1] = PushBlock(nb[R], r.val)
  BY DEF MarkBlock
<1>3. /\ l # <<>> /\ Head(l) = l[1] /\ Len(t) = 2 * R
      /\ \A x \in 1..2 * R : t[x] = l[x + 1]
  <2>1. l # <<>>
    BY PushIs
  <2>2. Len(t) = Len(l) - 1 /\ Head(l) = l[1] /\ \A x \in 1..Len(l) - 1 : t[x] = l[x + 1]
    BY <2>1, TailIs
  <2>3. Len(l) - 1 = 2 * R
    BY <1>1
  <2> QED
    BY <2>1, <2>2, <2>3
<1>4. 1 \in 1..R /\ 2 * 1 - 1 = 1
  BY <1>1
<1>5. Head(l) = PushBitmap(Taken(nb, 1))
  BY <1>2, <1>3, <1>4
<1>6. nb[1] \in Block \ bitmap /\ Taken(nb, 1) = bitmap \cup {nb[1]}
  BY <1>2, <1>4 DEF Taken
<1>7. bitmap' = bitmap \cup {nb[1]} /\ UNCHANGED <<inodes, block>>
  BY <1>5, <1>6, PushIs
<1>8. /\ \A j : Owned(j)' = Owned(j) /\ Named(j)' = Named(j)
      /\ \A j, k : IsType(j, k)' = IsType(j, k)
      /\ \A j, mb, y : Grown(j, mb, y)' = Grown(j, mb, y)
      /\ FilesInv' /\ BlockInv' /\ NameInv'
  BY <1>0, <1>7, MapStep
<1>9. bitmap' \subseteq Block /\ Room(R - 1)'
  <2>1. bitmap \subseteq Block /\ R - 1 \in Nat /\ R - 1 + 1 = R
    BY <1>0, <1>1 DEF TypeOK
  <2>2. bitmap' \subseteq Block /\ \A n \in Nat : \A m : m = n + 1 /\ Room(m) => Room(n)'
    BY <1>0, <1>6, <1>7, <2>1, OneLess
  <2>3. R = R - 1 + 1
    BY <1>1
  <2> QED
    BY <1>1, <2>1, <2>2, <2>3, Zenon
<1>10. OwnInv'
  BY <1>0, <1>7, <1>8 DEF OwnInv
<1>11. LinkBlock(r, t, R)'
  <2>2. nb \in [1..R -> Block]
    BY <1>2
  <2>3. nb[1] \in bitmap' /\ \A x \in 2..R : nb[x] \notin bitmap'
    <3>1. ASSUME NEW x \in 2..R PROVE nb[x] \notin bitmap'
      <4>1. x \in 1..R /\ x # 1
        BY <1>1
      <4>2. nb[x] \notin bitmap /\ nb[x] # nb[1]
        BY <1>2, <1>4, <4>1 DEF Distinct
      <4> QED
        BY <1>7, <4>2
    <3> QED
      BY <1>7, <3>1
  <2>4. \A j \in Inum : nb[1] \notin Owned(j)'
    BY <1>0, <1>6, <1>8 DEF OwnInv
  <2>5. ASSUME NEW y \in 1..R PROVE t[2 * y - 1] = PushInodes(Grown(i, nb, y)')
    <3>1. 2 * y - 1 \in 1..2 * R /\ 2 * y - 1 + 1 = 2 * y
      BY <1>1
    <3>2. t[2 * y - 1] = l[2 * y]
      BY <1>3, <3>1
    <3> QED
      BY <1>2, <1>8, <3>2
  <2>6. ASSUME NEW y \in 2..R PROVE t[2 * y - 2] = PushBitmap(Taken(nb, y)')
    <3>1. 2 * y - 2 \in 1..2 * R /\ 2 * y - 2 + 1 = 2 * y - 1 /\ y \in 1..R
      BY <1>1
    <3>2. t[2 * y - 2] = l[2 * y - 1]
      BY <1>3, <3>1
    <3>3. Taken(nb, y)' = Taken(nb, y)
      <4>1. nb[1] \in {nb[x] : x \in 1..y}
        BY <3>1
      <4> QED
        BY <1>7, <4>1 DEF Taken
    <3> QED
      BY <1>2, <3>1, <3>2, <3>3
  <2>7. t[2 * R] = PushBlock(nb[R], r.val)
    <3>1. 2 * R \in 1..2 * R
      BY <1>1
    <3> QED
      BY <1>2, <1>3, <3>1
  <2>8. /\ R >= 1 /\ Len(t) = 2 * R /\ Room(R - 1)'
        /\ \E mb \in [1..R -> Block] :
             /\ Distinct(mb, R)
             /\ mb[1] \in bitmap' /\ \A x \in 2..R : mb[x] \notin bitmap'
             /\ \A j \in Inum : mb[1] \notin Owned(j)'
             /\ \A y \in 1..R : t[2 * y - 1] = PushInodes(Grown(i, mb, y)')
             /\ \A y \in 2..R : t[2 * y - 2] = PushBitmap(Taken(mb, y)')
             /\ t[2 * R] = PushBlock(mb[R], r.val)
    BY <1>1, <1>2, <1>3, <1>9, <2>2, <2>3, <2>4, <2>5, <2>6, <2>7
  <2> QED
    BY <1>7, <2>8 DEF LinkBlock, PushInodes, PushBitmap, PushBlock, Distinct
<1>12. ASSUME NEW u, u = Tail(l) PROVE Writing(r, u)'
  <2>1. LinkBlock(r, u, R)' /\ Missing(r)' = R
    BY <1>7, <1>11, <1>12 DEF Missing
  <2> QED
    BY <1>0, <1>8, <2>1 DEF Writing
<1>13. Tail(l) # <<>> /\ inodes' \in [Inum -> Inode]
  <2>1. Len(<<>>) = 0 /\ 2 * R # 0
    BY <1>1
  <2> QED
    BY <1>0, <1>3, <1>7, <2>1 DEF TypeOK
<1>14. IInv'
  BY <1>8, <1>9, <1>10, <1>12, <1>13, PushRest
<1> QED
  BY <1>7, <1>13, <1>14

-----------------------------------------------------------------------------
(* An inode that grows *)

\* The addresses x has with y more of the blocks nb, and the inodes with it.
Reached(x, nb, y) ==
    [a \in Addr |-> IF a \in x.size..x.size + y - 1 THEN nb[a - x.size + 1] ELSE x.addrs[a]]
Longer(ino, i, nb, y) ==
    LET g == ino[i].size IN
    [ino EXCEPT ![i].size = @ + y,
                ![i].addrs = [a \in Addr |-> IF a \in g..g + y - 1 THEN nb[a - g + 1] ELSE @[a]]]
Grows(ino, i, nb, y) ==
    [ino EXCEPT ![i] = [type |-> ino[i].type, size |-> ino[i].size + y, addrs |-> Reached(ino[i], nb, y)]]

Shifted(mb, nb, y) == \A x \in 1..y : mb[x] = nb[x + 1]

\* Growing changes size and addresses of the one inode.
LEMMA LongerIs ==
  ASSUME NEW ino \in [Inum -> Inode], NEW i \in Inum, NEW nb, NEW y
  PROVE  Longer(ino, i, nb, y) = Grows(ino, i, nb, y)
<1> DEFINE t == ino[i].type
           s == ino[i].size
           a == ino[i].addrs
           b == Reached(ino[i], nb, y)
           z == ino[i].size + y
<1>1. ino[i] = [type |-> t, size |-> s, addrs |-> a]
  BY DEF Inode
<1>2. Longer(ino, i, nb, y) = [ino EXCEPT ![i] = [ino[i] EXCEPT !.size = z, !.addrs = b]]
  BY DEF Longer, Reached
<1> HIDE DEF t, s, a, b, z
<1>3. [[type |-> t, size |-> s, addrs |-> a] EXCEPT !.size = z] = [type |-> t, size |-> z, addrs |-> a]
  OBVIOUS
<1>4. [[type |-> t, size |-> z, addrs |-> a] EXCEPT !.addrs = b] = [type |-> t, size |-> z, addrs |-> b]
  OBVIOUS
<1>5. [ino[i] EXCEPT !.size = z, !.addrs = b] = [type |-> t, size |-> z, addrs |-> b]
  BY <1>1, <1>3, <1>4
<1>6. Longer(ino, i, nb, y) = [ino EXCEPT ![i] = [type |-> t, size |-> z, addrs |-> b]]
  BY <1>2, <1>5
<1> QED
  BY <1>6 DEF t, z, b, Grows

\* Growing by one block and then by y is growing by y + 1.
LEMMA LongerTwice ==
  ASSUME NEW ino \in [Inum -> Inode], NEW i \in Inum, NEW nb, NEW mb, NEW y \in Nat,
         NEW jno \in [Inum -> Inode], jno = Longer(ino, i, nb, 1),
         Shifted(mb, nb, y)
  PROVE  Longer(jno, i, mb, y) = Longer(ino, i, nb, y + 1)
<1>1. ino[i].size \in Nat /\ Addr \subseteq Nat
  BY MfsAssumption, Blocks DEF Inode
<1>2. jno = [ino EXCEPT ![i] = [type |-> ino[i].type, size |-> ino[i].size + 1, addrs |-> Reached(ino[i], nb, 1)]]
  <2>1. jno = Grows(ino, i, nb, 1)
    BY LongerIs
  <2> QED
    BY <2>1 DEF Grows
<1>3. jno[i] = [type |-> ino[i].type, size |-> ino[i].size + 1, addrs |-> Reached(ino[i], nb, 1)]
  BY <1>2
<1>4. jno[i].type = ino[i].type /\ jno[i].size = ino[i].size + 1 /\ jno[i].addrs = Reached(ino[i], nb, 1)
  BY <1>3
<1>5. Reached(jno[i], mb, y) = Reached(ino[i], nb, y + 1)
  <2> DEFINE g == ino[i].size
             h == ino[i].addrs
  <2>1. jno[i].size = g + 1 /\ \A a \in Addr : jno[i].addrs[a] = IF a \in g..g + 1 - 1 THEN nb[a - g + 1] ELSE h[a]
    BY <1>4 DEF Reached
  <2>2. g \in Nat
    BY <1>1
  <2> HIDE DEF g, h
  <2>3. ASSUME NEW a \in Addr
        PROVE  (IF a \in g + 1..g + 1 + y - 1 THEN mb[a - (g + 1) + 1] ELSE jno[i].addrs[a])
                 = IF a \in g..g + (y + 1) - 1 THEN nb[a - g + 1] ELSE h[a]
    <3>1. a \in Nat
      BY <1>1
    <3>2. CASE a \in g + 1..g + 1 + y - 1
      <4>1. a - (g + 1) + 1 \in 1..y /\ a - (g + 1) + 1 + 1 = a - g + 1 /\ a \in g..g + (y + 1) - 1
        BY <2>2, <3>1, <3>2
      <4>2. mb[a - (g + 1) + 1] = nb[a - g + 1]
        BY <4>1 DEF Shifted
      <4> QED
        BY <3>2, <4>1, <4>2
    <3>3. CASE a = g
      <4>1. a \notin g + 1..g + 1 + y - 1 /\ a \in g..g + (y + 1) - 1 /\ a \in g..g + 1 - 1
        BY <2>2, <3>3
      <4> QED
        BY <2>1, <4>1
    <3>4. CASE a # g /\ a \notin g + 1..g + 1 + y - 1
      <4>1. a \notin g..g + (y + 1) - 1 /\ a \notin g..g + 1 - 1
        BY <2>2, <3>1, <3>4
      <4> QED
        BY <2>1, <3>4, <4>1
    <3> QED
      BY <3>2, <3>3, <3>4
  <2> QED
    BY <2>1, <2>3 DEF Reached, g, h
<1>6. Longer(jno, i, mb, y) =
        [jno EXCEPT ![i] = [type |-> jno[i].type, size |-> jno[i].size + y, addrs |-> Reached(jno[i], mb, y)]]
  <2>1. Longer(jno, i, mb, y) = Grows(jno, i, mb, y)
    BY LongerIs
  <2> QED
    BY <2>1 DEF Grows
<1>7. Longer(ino, i, nb, y + 1) =
        [ino EXCEPT ![i] = [type |-> ino[i].type, size |-> ino[i].size + (y + 1), addrs |-> Reached(ino[i], nb, y + 1)]]
  <2>1. Longer(ino, i, nb, y + 1) = Grows(ino, i, nb, y + 1)
    BY LongerIs
  <2> QED
    BY <2>1 DEF Grows
<1>8. jno[i].size + y = ino[i].size + (y + 1)
  BY <1>1, <1>4
<1> DEFINE w == [type |-> ino[i].type, size |-> ino[i].size + (y + 1), addrs |-> Reached(ino[i], nb, y + 1)]
           v == [type |-> ino[i].type, size |-> ino[i].size + 1, addrs |-> Reached(ino[i], nb, 1)]
<1>9. Longer(jno, i, mb, y) = [jno EXCEPT ![i] = w]
  BY <1>4, <1>5, <1>6, <1>8
<1> HIDE DEF w
<1>10. [jno EXCEPT ![i] = w] = [ino EXCEPT ![i] = w]
  <2>1. jno = [ino EXCEPT ![i] = v]
    BY <1>2
  <2> HIDE DEF v
  <2> QED
    BY <2>1
<1> QED
  BY <1>7, <1>9, <1>10 DEF w

\* The first of the blocks nb is put into the file i: what that changes.
Linking(i, nb, b) ==
    /\ inodes' \in [Inum -> Inode] /\ inodes' = Longer(inodes, i, nb, 1)
    /\ inodes'[i].size = inodes[i].size + 1 /\ inodes'[i].addrs[inodes[i].size] = b
    /\ inodes'[i].addrs = Reached(inodes[i], nb, 1)
    /\ \A j, t : j \in Inum => IsType(j, t)' = IsType(j, t)
    /\ \A j \in Inum : Named(j)' = Named(j)
    /\ \A j \in Inum \ {i} : SameNode(j)
    /\ \A a \in Addr : inodes'[i].addrs[a] = IF a = inodes[i].size THEN b ELSE inodes[i].addrs[a]
    /\ inodes[i].addrs[inodes[i].size] = NoBlock
    /\ FilesInv' /\ OwnInv' /\ BlockInv' /\ NameInv'

\* The step from nb[1] to the address of the file that is the first without.
LEMMA LinkStep ==
  ASSUME TypeOK, FilesInv, OwnInv, BlockInv, NameInv, Doomed = {}, Doomed' = {},
         NEW i \in Inum, IsType(i, RegularFile), NEW nb, NEW b \in bitmap, nb[1] = b,
         \A j \in Inum : b \notin Owned(j), inodes[i].size \in Addr,
         inodes' = Grown(i, nb, 1), UNCHANGED <<bitmap, block>>
  PROVE  Linking(i, nb, b)
<1> DEFINE g == inodes[i].size
<1>1. inodes \in [Inum -> Inode] /\ g \in Nat /\ g + 1 \in 0..NADDR /\ b \in Block /\ Addr \subseteq Nat
  BY MfsAssumption, Blocks DEF TypeOK, Addr
<1>2. inodes' = Longer(inodes, i, nb, 1)
  BY DEF Grown, Longer
<1>3. inodes' = Grows(inodes, i, nb, 1)
  BY <1>1, <1>2, LongerIs
<1>4. Reached(inodes[i], nb, 1) \in [Addr -> Block \cup {NoBlock, Header}]
  <2>1. inodes[i].addrs \in [Addr -> Block \cup {NoBlock, Header}]
    BY <1>1 DEF Inode
  <2>2. ASSUME NEW a \in Addr, a \in g..g + 1 - 1 PROVE nb[a - g + 1] = b
    <3>1. a - g + 1 = 1
      BY <1>1, <2>2
    <3> QED
      BY <3>1
  <2> HIDE DEF g
  <2> QED
    BY <1>1, <2>1, <2>2 DEF Reached, g
<1>5. /\ inodes'[i] = [type |-> RegularFile, size |-> g + 1, addrs |-> Reached(inodes[i], nb, 1)]
      /\ \A j \in Inum \ {i} : inodes'[j] = inodes[j]
  BY <1>1, <1>3 DEF Grows, IsType
<1>6. inodes' \in [Inum -> Inode]
  <2>1. [type |-> RegularFile, size |-> g + 1, addrs |-> Reached(inodes[i], nb, 1)] \in Inode
    BY <1>1, <1>4 DEF Inode
  <2> DEFINE w == [type |-> RegularFile, size |-> g + 1, addrs |-> Reached(inodes[i], nb, 1)]
  <2>2. inodes' = [inodes EXCEPT ![i] = w]
    BY <1>3 DEF Grows, IsType
  <2> HIDE DEF w
  <2>3. w \in Inode
    BY <2>1 DEF w
  <2> QED
    BY <1>1, <2>2, <2>3
<1>7. /\ inodes'[i].type = RegularFile /\ inodes'[i].size = g + 1
      /\ inodes'[i].addrs = Reached(inodes[i], nb, 1)
      /\ inodes'[i].addrs[g] = b
      /\ \A a \in Addr : inodes'[i].addrs[a] = IF a = g THEN b ELSE inodes[i].addrs[a]
  <2>1. inodes'[i].type = RegularFile /\ inodes'[i].size = g + 1 /\ inodes'[i].addrs = Reached(inodes[i], nb, 1)
    BY <1>5
  <2>2. \A a \in Addr : (a \in g..g + 1 - 1 <=> a = g) /\ (a = g => a - g + 1 = 1)
    BY <1>1
  <2>3. \A a \in Addr : Reached(inodes[i], nb, 1)[a] = IF a = g THEN b ELSE inodes[i].addrs[a]
    BY <2>2 DEF Reached
  <2> QED
    BY <2>1, <2>3
<1>8. \A j \in Inum \ {i} : /\ Owned(j)' = Owned(j) /\ FileOk(j)' = FileOk(j) /\ IsDir(j)' = IsDir(j)
                            /\ \A t : IsType(j, t)' = IsType(j, t)
                            /\ \A n, e : Has(j, n, e)' = Has(j, n, e)
                            /\ SameNode(j)
  BY <1>5, SameInode
<1>9. \A j, t : j \in Inum => IsType(j, t)' = IsType(j, t)
  <2>1. \A t : IsType(i, t)' = IsType(i, t)
    BY <1>7 DEF IsType
  <2> QED
    BY <1>8, <2>1
<1>10. ~IsType(i, Directory) /\ ~IsType(i, 0) /\ ~IsType(i, Directory)'
  BY <1>9, TypeIs
<1>11. \A d \in Inum : IsDir(d)' = IsDir(d) /\ \A n, e : Has(d, n, e)' = Has(d, n, e)
  <2>1. ~IsDir(i) /\ ~IsDir(i)'
    BY <1>10 DEF IsDir
  <2>2. IsDir(i)' = IsDir(i) /\ \A n, e : Has(i, n, e)' = Has(i, n, e)
    BY <2>1 DEF Has, IsDir
  <2> QED
    BY <1>8, <2>2
<1>12. \A j \in Inum : Named(j)' = Named(j)
  BY <1>11 DEF Named
<1>13. inodes[i].addrs[g] = NoBlock
  <2>1. FileOk(i) /\ ~(g < g)
    BY <1>1 DEF FilesInv
  <2> QED
    BY <2>1 DEF FileOk
<1>14. Owned(i)' = Owned(i) \cup {b}
  <2>1. Owned(i) = {inodes[i].addrs[k] : k \in Addr} \ {NoBlock}
    BY TypeIs
  <2>2. Owned(i)' = {inodes'[i].addrs[k] : k \in Addr} \ {NoBlock}
    <3>1. IsType(i, RegularFile)' /\ ~IsType(i, 0)' /\ ~IsType(i, Directory)'
      BY <1>9, <1>10
    <3> QED
      BY <3>1 DEF Owned
  <2>3. b # NoBlock
    BY <1>1, Blocks
  <2>4. ASSUME NEW x PROVE x \in Owned(i)' <=> x \in Owned(i) \cup {b}
    BY <1>7, <1>13, <2>1, <2>2, <2>3
  <2> QED
    BY <2>4
<1>15. FileOk(i)'
  <2>1. Cardinality(Owned(i)') = g + 1
    <3>1. IsFiniteSet(Owned(i)) /\ b \notin Owned(i)
      BY OwnedIs
    <3>2. Cardinality(Owned(i) \cup {b}) = Cardinality(Owned(i)) + 1
      BY <3>1, FS_AddElement
    <3>3. Cardinality(Owned(i)) = g
      BY DEF FilesInv, FileOk
    <3> QED
      BY <1>14, <3>2, <3>3
  <2>2. \A k \in Addr : IF k < g + 1 THEN inodes'[i].addrs[k] \in Block ELSE inodes'[i].addrs[k] = NoBlock
    <3>1. \A k \in Addr : IF k < g THEN inodes[i].addrs[k] \in Block ELSE inodes[i].addrs[k] = NoBlock
      BY DEF FilesInv, FileOk
    <3>2. ASSUME NEW k \in Addr
          PROVE  IF k < g + 1 THEN inodes'[i].addrs[k] \in Block ELSE inodes'[i].addrs[k] = NoBlock
      <4>1. (k < g + 1 <=> k < g \/ k = g) /\ ~(g < g)
        BY <1>1
      <4> QED
        BY <1>1, <1>7, <3>1, <4>1
    <3> QED
      BY <3>2
  <2> QED
    BY <1>7, <1>10, <2>1, <2>2 DEF FileOk
<1>16. FilesInv'
  BY <1>8, <1>9, <1>15, Blocks DEF FilesInv
<1>17. OwnInv'
  BY <1>8, <1>14 DEF OwnInv
<1>18. BlockInv'
  <2>1. \A d \in Inum : IsType(d, Directory) => IsType(d, Directory)' /\ inodes'[d].addrs[0] = inodes[d].addrs[0]
    BY <1>5, <1>9, <1>10
  <2> QED
    BY <2>1 DEF BlockInv
<1>19. NameInv'
  BY <1>9, <1>11, <1>12 DEF NameInv
<1> QED
  BY <1>2, <1>6, <1>7, <1>8, <1>9, <1>12, <1>13, <1>16, <1>17, <1>18, <1>19 DEF Linking

\* A marked block is put into the inode.
LEMMA LinkBlockPush ==
  ASSUME Modest, IInv, Push, NEW l, l = todo, NEW r \in Request, r = cur, Writing(r, l),
         NEW R, R = Missing(r), LinkBlock(r, l, R), NEW t, t = Tail(l), List(l)
  PROVE  IInv' /\ Tail(l) # <<>> /\ Appending(r.inum, r.blk)
<1> DEFINE i == r.inum
<1>0. /\ TypeOK /\ FilesInv /\ OwnInv /\ BlockInv /\ NameInv
      /\ i \in Inum /\ r.blk \in Addr /\ r.blk \in Nat /\ Spare \in Nat
      /\ r.cmd = "WRITE" /\ IsType(i, RegularFile) /\ (i = 0 \/ Named(i))
      /\ inodes[i].size \in Nat
      /\ R = r.blk - inodes[i].size + 1
      /\ R \in Int /\ Doomed = {} /\ Doomed' = {} /\ Spare' = Spare
  BY WriteIs
<1>1. R >= 1 /\ Len(l) = 2 * R /\ Room(R - 1) /\ R \in Nat \ {0}
  BY <1>0 DEF LinkBlock
<1>2. PICK nb \in [1..R -> Block] :
         /\ Distinct(nb, R)
         /\ nb[1] \in bitmap /\ \A x \in 2..R : nb[x] \notin bitmap
         /\ \A j \in Inum : nb[1] \notin Owned(j)
         /\ \A y \in 1..R : l[2 * y - 1] = PushInodes(Grown(i, nb, y))
         /\ \A y \in 2..R : l[2 * y - 2] = PushBitmap(Taken(nb, y))
         /\ l[2 * R] = PushBlock(nb[R], r.val)
  BY DEF LinkBlock
<1>3. /\ l # <<>> /\ Head(l) = l[1] /\ Len(t) = 2 * R - 1 /\ List(t)
      /\ \A x \in 1..2 * R - 1 : t[x] = l[x + 1]
  <2>1. l # <<>>
    BY PushIs
  <2>2. Len(t) = Len(l) - 1 /\ Head(l) = l[1] /\ List(t) /\ \A x \in 1..Len(l) - 1 : t[x] = l[x + 1]
    BY <2>1, TailIs
  <2> QED
    BY <1>1, <2>1, <2>2
<1>4. 1 \in 1..R /\ 2 * 1 - 1 = 1
  BY <1>1
<1>5. Head(l) = PushInodes(Grown(i, nb, 1))
  BY <1>2, <1>3, <1>4
<1>6. inodes' = Grown(i, nb, 1) /\ UNCHANGED <<bitmap, block>>
  BY <1>5, PushIs
<1> DEFINE g == inodes[i].size
<1>7. g \in Addr /\ g <= r.blk
  <2>1. g <= r.blk /\ g \in Nat
    BY <1>0, <1>1
  <2> QED
    BY <1>0, <2>1, MfsAssumption DEF Addr
<1>8. /\ inodes' \in [Inum -> Inode] /\ inodes' = Longer(inodes, i, nb, 1)
      /\ inodes'[i].size = g + 1 /\ inodes'[i].addrs[g] = nb[1]
      /\ \A j, k : j \in Inum => IsType(j, k)' = IsType(j, k)
      /\ \A j \in Inum : Named(j)' = Named(j)
      /\ \A j \in Inum \ {i} : SameNode(j)
      /\ \A a \in Addr : inodes'[i].addrs[a] = IF a = inodes[i].size THEN nb[1] ELSE inodes[i].addrs[a]
      /\ inodes[i].addrs[inodes[i].size] = NoBlock
      /\ FilesInv' /\ OwnInv' /\ BlockInv' /\ NameInv'
  <2>1. PICK b \in bitmap : nb[1] = b /\ \A j \in Inum : b \notin Owned(j)
    BY <1>2
  <2>2. Doomed = {} /\ Doomed' = {} /\ i \in Inum /\ IsType(i, RegularFile) /\ TypeOK /\ FilesInv
        /\ OwnInv /\ BlockInv /\ NameInv
    BY <1>0
  <2>3. Linking(i, nb, b)
    BY <1>6, <1>7, <2>1, <2>2, LinkStep
  <2> QED
    BY <2>1, <2>3 DEF Linking
<1>9. PICK R1 \in {R - 1} : R1 = R - 1
  OBVIOUS
<1>10. R1 \in Nat /\ Missing(r)' = R1 /\ Room(R1)'
  <2>1. Room(R1)
    BY <1>1, <1>9
  <2>2. Room(R1)'
    BY <1>0, <1>6, <2>1 DEF Room
  <2>3. Missing(r)' = r.blk - (g + 1) + 1
    BY <1>8 DEF Missing
  <2>4. ASSUME NEW x \in Nat, NEW y \in Nat, NEW z \in Nat \ {0}, z = x - y + 1
        PROVE  z - 1 \in Nat /\ z - 1 = x - (y + 1) + 1
    BY <2>4
  <2>5. R1 \in Nat /\ R1 = r.blk - (g + 1) + 1
    BY <1>0, <1>1, <1>9, <2>4
  <2> QED
    BY <2>2, <2>3, <2>5
<1>11. R1 = 0 => StoreBlock(r, t, R1)'
  <2> SUFFICES ASSUME R1 = 0 PROVE StoreBlock(r, t, R1)'
    OBVIOUS
  <2>1. R = 1 /\ r.blk = g
    BY <1>0, <1>1, <1>9
  <2>2. t[1] = PushBlock(nb[1], r.val) /\ Len(t) = 1
    <3>1. 1 \in 1..2 * R - 1 /\ 1 + 1 = 2 * R /\ 2 * R - 1 = 1
      BY <2>1
    <3>2. t[1] = l[1 + 1] /\ Len(t) = 1
      BY <1>3, <3>1
    <3> QED
      BY <1>2, <2>1, <3>1, <3>2
  <2>3. t = <<PushBlock(nb[1], r.val)>>
    <3>1. \A x, z : List(x) /\ Len(x) = 1 /\ x[1] = z => x = <<z>>
      BY DEF List
    <3> QED
      BY <1>3, <2>2, <3>1
  <2>4. inodes'[i].addrs[r.blk] = nb[1]
    BY <1>8, <2>1
  <2>5. t = <<PushBlock(inodes'[i].addrs[r.blk], r.val)>>
    BY <2>3, <2>4
  <2>6. R1 <= 0
    BY <1>10
  <2> QED
    BY <2>5, <2>6 DEF StoreBlock, PushBlock
<1>12. R1 # 0 => MarkBlock(r, t, R1)'
  <2> SUFFICES ASSUME R1 # 0 PROVE MarkBlock(r, t, R1)'
    OBVIOUS
  <2>1. R1 >= 1 /\ R = R1 + 1 /\ 2 * R - 1 = 2 * R1 + 1
    BY <1>1, <1>9, <1>10
  <2>2. PICK mb \in {[x \in 1..R1 |-> nb[x + 1]]} : \A x \in 1..R1 : mb[x] = nb[x + 1]
    OBVIOUS
  <2>3. \A x \in 1..R1 : x + 1 \in 2..R /\ x + 1 \in 1..R
    BY <1>10, <2>1
  <2>4. mb \in [1..R1 -> Block \ bitmap']
    BY <1>2, <1>6, <2>2, <2>3
  <2>5. Distinct(mb, R1)
    <3>1. ASSUME NEW x \in 1..R1, NEW y \in 1..R1, mb[x] = mb[y] PROVE x = y
      <4>1. nb[x + 1] = nb[y + 1]
        BY <2>2, <3>1
      <4>2. x + 1 = y + 1
        BY <1>2, <2>3, <4>1 DEF Distinct
      <4> QED
        BY <4>2
    <3> QED
      BY <3>1 DEF Distinct
  <2>6. ASSUME NEW y \in 1..R1 PROVE t[2 * y - 1] = PushBitmap(Taken(mb, y)')
    <3>1. 2 * y - 1 \in 1..2 * R - 1 /\ 2 * y - 1 + 1 = 2 * (y + 1) - 2
      BY <1>10, <2>1
    <3>2. t[2 * y - 1] = l[2 * (y + 1) - 2]
      BY <1>3, <3>1
    <3>3. l[2 * (y + 1) - 2] = PushBitmap(Taken(nb, y + 1))
      BY <1>2, <2>3
    <3>4. Taken(mb, y)' = Taken(nb, y + 1)
      <4>1. ASSUME NEW b, b \in Taken(nb, y + 1) PROVE b \in Taken(mb, y)'
        <5>1. CASE b \in bitmap
          BY <1>6, <5>1 DEF Taken
        <5>2. CASE b \notin bitmap
          <6>1. PICK x \in 1..y + 1 : b = nb[x]
            BY <4>1, <5>2 DEF Taken
          <6>2. x # 1
            BY <1>2, <5>2, <6>1
          <6>3. x - 1 \in 1..y /\ x - 1 \in 1..R1 /\ x - 1 + 1 = x
            BY <1>10, <6>2
          <6>4. mb[x - 1] = b
            BY <2>2, <6>1, <6>3
          <6> QED
            BY <6>3, <6>4 DEF Taken
        <5> QED
          BY <5>1, <5>2
      <4>2. ASSUME NEW b, b \in Taken(mb, y)' PROVE b \in Taken(nb, y + 1)
        <5>1. \A x \in 1..y : x + 1 \in 1..y + 1 /\ x \in 1..R1
          BY <1>10
        <5> QED
          BY <1>6, <2>2, <4>2, <5>1 DEF Taken
      <4> QED
        BY <4>1, <4>2
    <3> QED
      BY <3>2, <3>3, <3>4
  <2>7. ASSUME NEW y \in 1..R1 PROVE t[2 * y] = PushInodes(Grown(i, mb, y)')
    <3>1. 2 * y \in 1..2 * R - 1 /\ 2 * y + 1 = 2 * (y + 1) - 1
      BY <1>10, <2>1
    <3>2. t[2 * y] = l[2 * (y + 1) - 1]
      BY <1>3, <3>1
    <3>3. l[2 * (y + 1) - 1] = PushInodes(Grown(i, nb, y + 1))
      BY <1>2, <2>3
    <3>4. Grown(i, mb, y)' = Longer(inodes', i, mb, y) /\ Grown(i, nb, y + 1) = Longer(inodes, i, nb, y + 1)
      BY DEF Grown, Longer
    <3>5. y \in Nat /\ \A x \in 1..y : x \in 1..R1
      BY <1>10
    <3>6. inodes \in [Inum -> Inode] /\ Shifted(mb, nb, y)
      BY <1>0, <2>2, <3>5 DEF TypeOK, Shifted
    <3>7. Longer(inodes', i, mb, y) = Longer(inodes, i, nb, y + 1)
      <4>1. i \in Inum /\ inodes' \in [Inum -> Inode] /\ inodes' = Longer(inodes, i, nb, 1)
        BY <1>0, <1>8
      <4>2. PICK j \in Inum, f \in [Inum -> Inode], h \in [Inum -> Inode] :
              j = i /\ f = inodes /\ h = inodes'
        BY <3>6, <4>1
      <4>3. h = Longer(f, j, nb, 1)
        BY <4>1, <4>2
      <4>4. Longer(h, j, mb, y) = Longer(f, j, nb, y + 1)
        BY <3>5, <3>6, <4>3, LongerTwice
      <4> QED
        BY <4>2, <4>4
    <3> QED
      BY <3>2, <3>3, <3>4, <3>7
  <2>8. t[2 * R1 + 1] = PushBlock(mb[R1], r.val)
    <3>1. 2 * R1 + 1 \in 1..2 * R - 1 /\ 2 * R1 + 1 + 1 = 2 * R /\ R1 \in 1..R1
      BY <1>10, <2>1
    <3>2. t[2 * R1 + 1] = l[2 * R]
      BY <1>3, <3>1
    <3> QED
      BY <1>2, <2>1, <2>2, <3>1, <3>2
  <2>9. /\ R1 >= 1 /\ Len(t) = 2 * R1 + 1 /\ Room(R1)'
        /\ \E m \in [1..R1 -> Block \ bitmap'] :
             /\ Distinct(m, R1)
             /\ \A y \in 1..R1 : /\ t[2 * y - 1] = PushBitmap(Taken(m, y)')
                                 /\ t[2 * y] = PushInodes(Grown(i, m, y)')
             /\ t[2 * R1 + 1] = PushBlock(m[R1], r.val)
    BY <1>3, <1>10, <2>1, <2>4, <2>5, <2>6, <2>7, <2>8
  <2> QED
    BY <2>9 DEF MarkBlock, PushInodes, PushBitmap, PushBlock, Distinct
<1>13. Writing(r, t)'
  <2>1. IsType(i, RegularFile)' /\ (i = 0 \/ Named(i)')
    BY <1>0, <1>8
  <2> QED
    BY <1>0, <1>10, <1>11, <1>12, <2>1 DEF Writing
<1>14. Tail(l) # <<>> /\ bitmap' \subseteq Block
  <2>1. Len(<<>>) = 0 /\ 2 * R - 1 # 0
    BY <1>1
  <2>2. bitmap' \subseteq Block
    BY <1>0, <1>6 DEF TypeOK
  <2> QED
    BY <1>3, <2>1, <2>2
<1>15. IInv'
  BY <1>8, <1>13, <1>14, PushRest
<1>16. nb[1] \in Block
  BY <1>0, <1>2 DEF TypeOK
<1> QED
  BY <1>0, <1>6, <1>7, <1>8, <1>14, <1>15, <1>16 DEF Appending

-----------------------------------------------------------------------------
(* The pwrites of a removal *)

\* What is known while an unlink is served.
LEMMA UnlinkIs ==
  ASSUME IInv, Push, NEW l, l = todo, NEW r \in Request, r = cur, Unlinking(r, l),
         NEW i, i = Entries(r.inum)[r.name]
  PROVE  /\ TypeOK /\ FilesInv /\ OwnInv /\ BlockInv /\ NameInv
         /\ r.inum \in Inum /\ r.name \in Name /\ r.cmd = "UNLINK" /\ IsDir(r.inum)
         /\ (r.inum = 0 \/ Named(r.inum)) /\ i \in Inum /\ i # r.inum /\ i # 0
         /\ Has(r.inum, r.name, i) /\ Doomed = {i} /\ cur' = cur /\ Spare' = Spare
         /\ block = [b \in Block |-> block[b]]
         /\ Unmark(r, i, l) \/ Clear(r, i, l)
         /\ \A t : t = Tail(l) /\ t # <<>> /\ Entries(r.inum)'[r.name] = i => Doomed' = {i}
<1>1. /\ r.cmd = "UNLINK" /\ IsDir(r.inum) /\ (r.inum = 0 \/ Named(r.inum))
      /\ i \in Inum /\ i # r.inum /\ (Unmark(r, i, l) \/ Clear(r, i, l))
  BY DEF Unlinking
<1>2. cur' = cur /\ Spare' = Spare /\ todo # <<>> /\ todo' = Tail(l)
  BY DEF Push, Spare
<1>3. r.inum \in Inum /\ r.name \in Name /\ r # NoCall
  BY <1>1, RequestIs
<1>4. Has(r.inum, r.name, i)
  BY <1>1 DEF Has
<1>5. Named(i)
  BY <1>1, <1>3, <1>4 DEF Named
<1>6. i # 0
  BY <1>1, <1>5 DEF IInv, NameInv
<1>7. Doomed = {i}
  BY <1>1, <1>2, <1>3 DEF Doomed
<1>8. \A t : t = Tail(l) /\ t # <<>> /\ Entries(r.inum)'[r.name] = i => Doomed' = {i}
  BY <1>1, <1>2, <1>3 DEF Doomed
<1> QED
  BY <1>1, <1>2, <1>3, <1>4, <1>6, <1>7, <1>8 DEF IInv

\* Bits of the inode's blocks are unmarked.
LEMMA UnmarkPush ==
  ASSUME Modest, IInv, Push, NEW l, l = todo, NEW r \in Request, r = cur, Unlinking(r, l), List(l),
         NEW i, i = Entries(r.inum)[r.name], Unmark(r, i, l), Len(l) # 2, NEW t, t = Tail(l)
  PROVE  IInv' /\ Tail(l) # <<>> /\ UNCHANGED <<inodes, block>>
<1> DEFINE p == r.inum
<1>0. /\ TypeOK /\ FilesInv /\ OwnInv /\ BlockInv /\ NameInv
      /\ p \in Inum /\ r.cmd = "UNLINK" /\ IsDir(p)
      /\ (p = 0 \/ Named(p)) /\ i \in Inum /\ i # p /\ Doomed = {i}
      /\ t # <<>> /\ Entries(p)'[r.name] = i => Doomed' = {i}
  BY UnlinkIs
<1>1. /\ ~IsType(i, 0) /\ (IsType(i, Directory) => Entries(i) = EmptyDir)
      /\ l[Len(l)] = Cleared(p, i) /\ l[Len(l) - 1] = PushInodes([inodes EXCEPT ![i].type = 0])
      /\ \A x \in 1..Len(l) - 2 : /\ l[x] = PushBitmap(l[x].to) /\ l[x].to \subseteq Block
                                  /\ \A j \in Inum \ {i} : Owned(j) \subseteq l[x].to
  BY DEF Unmark
<1>2. Len(l) \in 3..NADDR + 2 /\ NADDR \in Nat
  <2>1. Len(l) \in 2..NADDR + 2
    BY DEF Unmark
  <2>2. NADDR \in Nat
    BY MfsAssumption
  <2>3. \A x : x \in 2..NADDR + 2 /\ x # 2 => x \in 3..NADDR + 2
    BY <2>2
  <2> QED
    BY <2>1, <2>2, <2>3
<1>3. /\ Head(l) = l[1] /\ Len(t) = Len(l) - 1 /\ \A x \in 1..Len(l) - 1 : t[x] = l[x + 1]
  BY PushIs, TailIs
<1>4. 1 \in 1..Len(l) - 2
  BY <1>2
<1>5. PICK map : map = l[1].to
  OBVIOUS
<1>6. Head(l) = PushBitmap(map) /\ map \subseteq Block /\ \A j \in Inum \ {i} : Owned(j) \subseteq map
  BY <1>1, <1>3, <1>4, <1>5
<1>7. bitmap' = map /\ UNCHANGED <<inodes, block>>
  BY <1>6, PushIs
<1>8. t # <<>>
  <2>1. Len(t) # 0
    <3>1. PICK y \in 3..NADDR + 2 : y = Len(l)
      BY <1>2
    <3>2. PICK x : x = Len(t)
      OBVIOUS
    <3>3. x = y - 1
      BY <1>3, <3>1, <3>2
    <3>4. y \in Nat /\ 3 <= y /\ y <= NADDR + 2 /\ x \in Int
      BY <1>2, <3>3
    <3>5. x \in 2..NADDR + 2 /\ x + 1 = y /\ x - 1 + 1 = y - 1
      BY <1>2, <3>3, <3>4
    <3>6. x \in 1..y - 1 /\ x - 1 \in 1..y - 1
      BY <3>3, <3>4
    <3> QED
      BY <3>1, <3>2, <3>5, <3>6
  <2> QED
    BY <2>1
<1>9. Entries(p)' = Entries(p)
  BY <1>7, MapStep
<1>10. Doomed' = {i} /\ Doomed \subseteq Doomed'
  BY <1>0, <1>8, <1>9
<1>11. /\ \A j : Owned(j)' = Owned(j) /\ Entries(j)' = Entries(j) /\ Named(j)' = Named(j)
       /\ \A j, k : IsType(j, k)' = IsType(j, k)
       /\ \A d : IsDir(d)' = IsDir(d)
       /\ \A q, j : Cleared(q, j)' = Cleared(q, j)
       /\ FilesInv' /\ BlockInv' /\ NameInv'
  BY <1>0, <1>7, <1>10, MapStep
<1>12. OwnInv'
  BY <1>0, <1>6, <1>7, <1>10, <1>11 DEF OwnInv
<1>13. Unmark(r, i, t)'
  <2>1. Len(t) \in 2..NADDR + 2 /\ Len(t) \in 1..Len(l) - 1 /\ Len(t) - 1 \in 1..Len(l) - 1
        /\ Len(t) + 1 = Len(l) /\ Len(t) - 1 + 1 = Len(l) - 1
    BY <1>2, <1>3
  <2>2. t[Len(t)] = Cleared(p, i)' /\ t[Len(t) - 1] = PushInodes([inodes' EXCEPT ![i].type = 0])
    BY <1>1, <1>3, <1>7, <1>11, <2>1
  <2>3. ASSUME NEW x \in 1..Len(t) - 2
        PROVE  /\ t[x] = PushBitmap(t[x].to) /\ t[x].to \subseteq Block
               /\ \A j \in Inum \ {i} : Owned(j)' \subseteq t[x].to
    <3>1. x + 1 \in 1..Len(l) - 2 /\ x \in 1..Len(l) - 1
      BY <1>2, <1>3
    <3>2. t[x] = l[x + 1]
      BY <1>3, <3>1
    <3> QED
      BY <1>1, <1>11, <3>1, <3>2
  <2>4. ~IsType(i, 0)' /\ (IsType(i, Directory)' => Entries(i)' = EmptyDir)
    BY <1>1, <1>11
  <2> QED
    BY <2>1, <2>2, <2>3, <2>4 DEF Unmark, PushInodes, PushBitmap, EmptyDir
<1>14. Unlinking(r, t)'
  BY <1>0, <1>11, <1>13 DEF Unlinking
<1>15. inodes' \in [Inum -> Inode] /\ bitmap' \subseteq Block
  BY <1>0, <1>6, <1>7 DEF TypeOK
<1>16. IInv'
  BY <1>8, <1>11, <1>12, <1>14, <1>15, PushRest
<1> QED
  BY <1>7, <1>8, <1>16

\* The inode is freed.
LEMMA FreePush ==
  ASSUME Modest, IInv, Push, NEW l, l = todo, NEW r \in Request, r = cur, Unlinking(r, l), List(l),
         NEW i, i = Entries(r.inum)[r.name], Unmark(r, i, l), Len(l) = 2, NEW t, t = Tail(l)
  PROVE  IInv' /\ Tail(l) # <<>> /\ FreeingInode(i)
<1> DEFINE p == r.inum
<1>0. /\ TypeOK /\ FilesInv /\ OwnInv /\ BlockInv /\ NameInv
      /\ p \in Inum /\ r.cmd = "UNLINK" /\ IsDir(p)
      /\ (p = 0 \/ Named(p)) /\ i \in Inum /\ i # p /\ i # 0 /\ Doomed = {i}
      /\ t # <<>> /\ Entries(p)'[r.name] = i => Doomed' = {i}
  BY UnlinkIs
<1>1. /\ ~IsType(i, 0) /\ (IsType(i, Directory) => Entries(i) = EmptyDir)
      /\ l[2] = Cleared(p, i) /\ l[1] = PushInodes([inodes EXCEPT ![i].type = 0])
  <2>1. l[Len(l)] = Cleared(p, i) /\ l[Len(l) - 1] = PushInodes([inodes EXCEPT ![i].type = 0])
    BY DEF Unmark
  <2>2. ~IsType(i, 0) /\ (IsType(i, Directory) => Entries(i) = EmptyDir)
    BY DEF Unmark
  <2> QED
    BY <2>1, <2>2
<1>2. /\ Head(l) = l[1] /\ Len(t) = 1 /\ t[1] = l[2] /\ List(t)
  <2>1. /\ Head(l) = l[1] /\ Len(t) = Len(l) - 1 /\ List(t) /\ \A x \in 1..Len(l) - 1 : t[x] = l[x + 1]
    BY PushIs, TailIs
  <2>2. 1 \in 1..Len(l) - 1 /\ 1 + 1 = 2 /\ Len(l) - 1 = 1
    OBVIOUS
  <2> QED
    BY <2>1, <2>2
<1>3. t = <<Cleared(p, i)>> /\ t # <<>>
  <2>1. \A x, z : List(x) /\ Len(x) = 1 /\ x[1] = z => x = <<z>> /\ x # <<>>
    BY DEF List
  <2> QED
    BY <1>1, <1>2, <2>1
<1>4. inodes' = [inodes EXCEPT ![i].type = 0] /\ UNCHANGED <<bitmap, block>>
  BY <1>1, <1>2, PushIs
<1>5. /\ inodes' \in [Inum -> Inode] /\ inodes'[i].type = 0
      /\ \A j \in Inum \ {i} : inodes'[j] = inodes[j]
  <2>1. inodes \in [Inum -> Inode]
    BY <1>0 DEF TypeOK
  <2> DEFINE z == [inodes[i] EXCEPT !.type = 0]
  <2>2. z \in Inode /\ z.type = 0
    BY <1>0, <2>1 DEF Inode
  <2>3. inodes' = [inodes EXCEPT ![i] = z]
    BY <1>4
  <2> HIDE DEF z
  <2> QED
    BY <1>0, <2>1, <2>2, <2>3
<1>6. \A j \in Inum \ {i} : /\ Owned(j)' = Owned(j) /\ Entries(j)' = Entries(j) /\ FileOk(j)' = FileOk(j)
                            /\ IsDir(j)' = IsDir(j)
                            /\ \A k : IsType(j, k)' = IsType(j, k)
                            /\ \A m, e : Has(j, m, e)' = Has(j, m, e)
                            /\ SameNode(j)
  BY <1>4, <1>5, SameInode
<1>7. /\ IsType(i, 0)' /\ ~IsType(i, Directory)' /\ ~IsType(i, RegularFile)' /\ Owned(i)' = {}
  <2>1. IsType(i, 0)' /\ ~IsType(i, Directory)' /\ ~IsType(i, RegularFile)'
    BY <1>5 DEF IsType, Directory, RegularFile
  <2> QED
    BY <2>1 DEF Owned
<1>8. \A d \in Inum, m \in Name, j \in Inum : Has(d, m, j)' = Has(d, m, j)
  <2>1. \A m \in Name, j \in Inum : ~Has(i, m, j)
    BY <1>1, Blocks DEF Has, IsDir, EmptyDir
  <2>2. \A m \in Name, j \in Inum : ~Has(i, m, j)'
    BY <1>7 DEF Has, IsDir
  <2>3. \A m \in Name, j \in Inum : Has(i, m, j)' = Has(i, m, j)
    <3>1. \A m \in Name, j \in Inum : Has(i, m, j) \in BOOLEAN /\ Has(i, m, j)' \in BOOLEAN
      BY DEF Has, IsDir
    <3> QED
      BY <2>1, <2>2, <3>1
  <2> QED
    BY <1>6, <2>3
<1>9. \A j \in Inum : Named(j)' = Named(j)
  BY <1>8 DEF Named
<1>10. Entries(p)' = Entries(p)
  BY <1>0, <1>6
<1>11. Doomed' = {i}
  BY <1>0, <1>3, <1>10
<1>12. FilesInv'
  <2>1. FileOk(i)'
    BY <1>7 DEF FileOk
  <2>2. IsType(0, Directory)'
    BY <1>0, <1>6, Blocks DEF FilesInv
  <2> QED
    BY <1>0, <1>6, <2>1, <2>2 DEF FilesInv
<1>13. OwnInv'
  BY <1>0, <1>4, <1>6, <1>7, <1>11 DEF OwnInv
<1>14. BlockInv'
  <2>1. ASSUME NEW x \in Block
        PROVE  \/ block[x] \in Value \cup {EmptyDir}
               \/ block[x] \in Dirs /\ \E d \in Inum : IsType(d, Directory)' /\ inodes'[d].addrs[0] = x
    <3>1. CASE block[x] \in Value \cup {EmptyDir}
      BY <3>1
    <3>2. CASE block[x] \notin Value \cup {EmptyDir}
      <4>1. block[x] \in Dirs /\ \E d \in Inum : IsType(d, Directory) /\ inodes[d].addrs[0] = x
        BY <1>0, <3>2 DEF BlockInv
      <4>2. PICK d \in Inum : IsType(d, Directory) /\ inodes[d].addrs[0] = x
        BY <4>1
      <4>3. d # i
        BY <1>1, <3>2, <4>2 DEF Entries
      <4>4. IsType(d, Directory)' /\ inodes'[d].addrs[0] = x
        BY <1>5, <1>6, <4>2, <4>3
      <4> QED
        BY <4>1, <4>4
    <3> QED
      BY <3>1, <3>2
  <2> QED
    BY <1>4, <2>1 DEF BlockInv, EmptyDir, Dirs
<1>15. NameInv'
  <2>1. \A j \in Inum : Named(j)' => j # 0 /\ (j \in Doomed' \/ ~IsType(j, 0)')
    <3>1. ASSUME NEW j \in Inum, Named(j)' PROVE j # 0 /\ (j \in Doomed' \/ ~IsType(j, 0)')
      <4>1. Named(j) /\ j # 0 /\ (j \in {i} \/ ~IsType(j, 0))
        BY <1>0, <1>9, <3>1 DEF NameInv
      <4> QED
        BY <1>6, <1>11, <4>1
    <3> QED
      BY <3>1
  <2>2. \A d \in Inum : (d = 0 \/ Named(d)') /\ IsType(d, Directory)' => IsDir(d)'
    BY <1>0, <1>6, <1>7, <1>9 DEF NameInv
  <2> QED
    BY <1>0, <1>8, <2>1, <2>2 DEF NameInv
<1>16. Clear(r, i, t)'
  <2>1. inodes'[p] = inodes[p]
    BY <1>0, <1>5
  <2>2. Cleared(p, i)' = Cleared(p, i)
    BY <1>10, <2>1 DEF Cleared, PushBlock
  <2> QED
    BY <1>3, <1>7, <2>2 DEF Clear
<1>17. Unlinking(r, t)'
  <2>1. IsDir(p)' /\ (p = 0 \/ Named(p)')
    BY <1>0, <1>6, <1>9
  <2> QED
    BY <1>0, <1>10, <1>16, <2>1 DEF Unlinking
<1>18. bitmap' \subseteq Block
  BY <1>0, <1>4 DEF TypeOK
<1>19. IInv'
  BY <1>3, <1>5, <1>12, <1>13, <1>14, <1>15, <1>17, <1>18, PushRest
<1> QED
  BY <1>1, <1>3, <1>6, <1>7, <1>9, <1>19 DEF FreeingInode

\* The entry is removed.
LEMMA ClearPush ==
  ASSUME Modest, IInv, Push, NEW l, l = todo, NEW r \in Request, r = cur, Unlinking(r, l),
         NEW i, i = Entries(r.inum)[r.name], Clear(r, i, l)
  PROVE  IInv' /\ Tail(l) = <<>> /\ Clearing(r.inum, i)
<1> DEFINE p == r.inum
           n == r.name
           b == inodes[p].addrs[0]
           v == [m \in Name |-> IF Entries(p)[m] = i THEN NoInum ELSE Entries(p)[m]]
<1>0. /\ TypeOK /\ FilesInv /\ OwnInv /\ BlockInv /\ NameInv
      /\ p \in Inum /\ n \in Name /\ r.cmd = "UNLINK" /\ IsDir(p)
      /\ (p = 0 \/ Named(p)) /\ i \in Inum /\ i # p /\ i # 0 /\ Doomed = {i} /\ Spare' = Spare
      /\ Has(p, n, i) /\ block = [x \in Block |-> block[x]]
  BY UnlinkIs
<1>1. IsType(i, 0) /\ l = <<PushBlock(b, v)>>
  BY DEF Clear, Cleared
<1>2. Head(l) = PushBlock(b, v) /\ Tail(l) = <<>>
  BY <1>1
<1>3. block' = [block EXCEPT ![b] = v] /\ UNCHANGED <<bitmap, inodes>>
  BY <1>2, PushIs
<1>4. b \in Owned(p) /\ IsType(p, Directory) /\ Entries(p) \in Dirs
  BY <1>0, TypeIs DEF IsDir
<1>5. /\ b \in Block /\ \A x \in Block : block'[x] = IF x = b THEN v ELSE block[x]
      /\ \A j : Owned(j)' = Owned(j)
      /\ \A j, t : IsType(j, t)' = IsType(j, t)
      /\ \A d \in Inum \ {p} : /\ IsType(d, Directory) => Entries(d)' = Entries(d)
                               /\ IsDir(d)' = IsDir(d)
                               /\ \A m, j : Has(d, m, j)' = Has(d, m, j)
                               /\ SameNode(d)
      /\ Entries(p)' = v
      /\ FilesInv' /\ inodes' \in [Inum -> Inode] /\ bitmap' \subseteq Block
  <2> HIDE DEF b, v
  <2> QED
    BY <1>0, <1>3, <1>4, BlockStep
<1>6. v \in Dirs /\ \A m \in Name : v[m] = IF Entries(p)[m] = i THEN NoInum ELSE Entries(p)[m]
  BY <1>4 DEF Dirs
<1>7. IsDir(p)'
  BY <1>4, <1>5, <1>6 DEF IsDir, Dirs
<1>8. \A m \in Name, j \in Inum : Has(p, m, j)' <=> Has(p, m, j) /\ j # i
  <2>1. \A m \in Name : \A j : Has(p, m, j)' <=> v[m] = j
    BY <1>5, <1>7 DEF Has
  <2>2. \A m \in Name : \A j : Has(p, m, j) <=> Entries(p)[m] = j
    BY <1>0 DEF Has
  <2> HIDE DEF v
  <2> QED
    BY <1>6, <2>1, <2>2, Blocks
<1>9. \A d \in Inum, m \in Name, j \in Inum : Has(d, m, j)' <=> Has(d, m, j) /\ j # i
  <2>1. ASSUME NEW d \in Inum, NEW m \in Name, NEW j \in Inum PROVE Has(d, m, j)' <=> Has(d, m, j) /\ j # i
    <3>1. CASE d = p
      BY <1>8, <3>1
    <3>2. CASE d # p
      <4>1. Has(d, m, j)' = Has(d, m, j) /\ Has(d, m, j) \in BOOLEAN
        BY <1>5, <3>2 DEF Has, IsDir
      <4>2. ~Has(d, m, i)
        BY <1>0, <3>2 DEF NameInv
      <4> QED
        BY <4>1, <4>2
    <3> QED
      BY <3>1, <3>2
  <2> QED
    BY <2>1
<1>10. \A j \in Inum : Named(j)' <=> Named(j) /\ j # i
  <2>1. ASSUME NEW j \in Inum, Named(j), j # i PROVE Named(j)'
    <3>1. PICK d \in Inum, m \in Name : Has(d, m, j)
      BY <2>1 DEF Named
    <3>2. Has(d, m, j)'
      BY <1>9, <2>1, <3>1
    <3> QED
      BY <3>2 DEF Named
  <2>2. ASSUME NEW j \in Inum, Named(j)' PROVE Named(j) /\ j # i
    <3>1. PICK d \in Inum, m \in Name : Has(d, m, j)'
      BY <2>2 DEF Named
    <3>2. Has(d, m, j) /\ j # i
      BY <1>9, <3>1
    <3> QED
      BY <3>2 DEF Named
  <2> QED
    BY <2>1, <2>2
<1>11. OwnInv'
  <2>1. Owned(i) = {}
    BY <1>0, <1>1, TypeIs
  <2> QED
    BY <1>0, <1>3, <1>5, <2>1 DEF OwnInv
<1>12. BlockInv'
  <2> HIDE DEF v
  <2>1. ASSUME NEW x \in Block
        PROVE  \/ block'[x] \in Value \cup {EmptyDir}
               \/ block'[x] \in Dirs /\ \E d \in Inum : IsType(d, Directory) /\ inodes[d].addrs[0] = x
    <3>1. CASE x = b
      <4>1. block'[x] \in Dirs /\ IsType(p, Directory) /\ inodes[p].addrs[0] = x
        BY <1>4, <1>5, <1>6, <3>1
      <4> QED
        BY <1>0, <4>1
    <3>2. CASE x # b
      <4>1. block'[x] = block[x]
        BY <1>5, <3>2
      <4> QED
        BY <1>0, <4>1 DEF BlockInv
    <3> QED
      BY <3>1, <3>2
  <2> QED
    BY <1>3, <1>5, <2>1 DEF BlockInv, EmptyDir, Dirs
<1>13. NameInv'
  <2>1. \A j \in Inum : Named(j)' => j # 0 /\ ~IsType(j, 0)'
    BY <1>0, <1>5, <1>10 DEF NameInv
  <2>2. ASSUME NEW d \in Inum, d = 0 \/ Named(d)', IsType(d, Directory)' PROVE IsDir(d)'
    <3>1. CASE d = p
      BY <1>7, <3>1
    <3>2. CASE d # p
      BY <1>0, <1>5, <1>10, <2>2, <3>2 DEF NameInv
    <3> QED
      BY <3>1, <3>2
  <2> QED
    BY <1>0, <1>9, <2>1, <2>2 DEF NameInv
<1>14. Ready(r)'
  <2>1. p = 0 \/ Named(p)'
    BY <1>0, <1>10
  <2>2. Safe(r)'
    <3>1. Entries(p)'[n] = NoInum
      BY <1>0, <1>5, <1>6
    <3>2. mfs_unlink(p, n)'.push = <<>>
      BY <1>4, <1>5, <3>1 DEF mfs_unlink, Quick
    <3>3. Len(mfs_unlink(p, n)'.push) = 0
      BY <3>2
    <3> HIDE DEF p, n
    <3> QED
      BY <3>3 DEF Safe, p, n
  <2> QED
    BY <1>0, <2>1, <2>2 DEF Ready
<1>15. IInv'
  BY <1>2, <1>5, <1>11, <1>12, <1>13, <1>14, PushRest
<1> QED
  BY <1>2, <1>5, <1>10, <1>15 DEF Clearing

-----------------------------------------------------------------------------
(* Every step *)

\* A pwrite.
LEMMA PushStep == ASSUME Modest, IInv, Push PROVE IInv'
<1>1. PICK r \in Request, l \in {todo} :
        /\ r = cur /\ List(l)
        /\ Creating(r, l) \/ Writing(r, l) \/ Unlinking(r, l)
  BY Serving
<1>2. l = todo
  OBVIOUS
<1>3. CASE Creating(r, l)
  <2>1. PICK i \in Inum \ {0} : \/ MakeFile(r, i, l) \/ MarkDir(r, i, l) \/ MakeDir(r, i, l)
                               \/ ClearDir(r, i, l) \/ Enter(r, i, l)
    BY <1>3 DEF Creating
  <2>2. CASE MakeFile(r, i, l)
    BY <1>1, <1>2, <1>3, <2>2, FilePush
  <2>3. CASE MarkDir(r, i, l)
    BY <1>1, <1>2, <1>3, <2>3, MarkDirPush
  <2>4. CASE MakeDir(r, i, l)
    BY <1>1, <1>2, <1>3, <2>4, MakeDirPush
  <2>5. CASE ClearDir(r, i, l)
    BY <1>1, <1>2, <1>3, <2>5, ClearDirPush
  <2>6. CASE Enter(r, i, l)
    BY <1>1, <1>2, <1>3, <2>6, EnterPush
  <2> QED
    BY <2>1, <2>2, <2>3, <2>4, <2>5, <2>6
<1>4. CASE Writing(r, l)
  <2>1. PICK R \in {Missing(r)} : StoreBlock(r, l, R) \/ MarkBlock(r, l, R) \/ LinkBlock(r, l, R)
    BY <1>4 DEF Writing
  <2>2. PICK t : t = Tail(l)
    OBVIOUS
  <2>3. CASE StoreBlock(r, l, R)
    BY <1>1, <1>2, <1>4, <2>3, StoreBlockPush
  <2>4. CASE MarkBlock(r, l, R)
    BY <1>1, <1>2, <1>4, <2>2, <2>4, MarkBlockPush
  <2>5. CASE LinkBlock(r, l, R)
    BY <1>1, <1>2, <1>4, <2>2, <2>5, LinkBlockPush
  <2> QED
    BY <2>1, <2>3, <2>4, <2>5
<1>5. CASE Unlinking(r, l)
  <2>1. PICK i : i = Entries(r.inum)[r.name]
    OBVIOUS
  <2>2. PICK t : t = Tail(l)
    OBVIOUS
  <2>3. Unmark(r, i, l) \/ Clear(r, i, l)
    BY <1>5, <2>1 DEF Unlinking
  <2>4. CASE Unmark(r, i, l) /\ Len(l) # 2
    BY <1>1, <1>2, <1>5, <2>1, <2>2, <2>4, UnmarkPush
  <2>5. CASE Unmark(r, i, l) /\ Len(l) = 2
    BY <1>1, <1>2, <1>5, <2>1, <2>2, <2>5, FreePush
  <2>6. CASE Clear(r, i, l)
    BY <1>1, <1>2, <1>5, <2>1, <2>6, ClearPush
  <2> QED
    BY <2>3, <2>4, <2>5, <2>6
<1> QED
  BY <1>1, <1>3, <1>4, <1>5

\* A step that changes nothing.
LEMMA StaysSame == ASSUME Modest, IInv, UNCHANGED vars PROVE IInv'
<1>1. /\ UNCHANGED <<image, bitmap, inodes, block, up, cur, todo, reply, crashes, reqs, reps, call, answer>>
      /\ Spare' = Spare /\ Doomed \subseteq Doomed'
  BY DEF vars, image, server, Spare, Doomed, Entries
<1>2. TypeOK' /\ OneFlight' /\ block' = [b \in Block |-> block'[b]]
  BY <1>1 DEF IInv, TypeOK, OneFlight
<1>3. FilesInv' /\ OwnInv' /\ BlockInv' /\ NameInv'
  BY <1>1, StaysSound DEF IInv
<1>4. TypeOK /\ Spare \in Int /\ Spare' \in Int /\ Spare' <= Spare
  BY <1>1, MfsAssumption DEF IInv, TypeOK, Spare
<1>5. ReadyInv'
  <2>1. ASSUME NEW r \in Request, Ready(r) PROVE Ready(r)'
    BY <1>1, <1>4, <2>1, StaysReady
  <2> QED
    BY <1>1, <2>1 DEF IInv, ReadyInv
<1>6. PhaseInv'
  <2>1. ASSUME NEW r, NEW l, Creating(r, l) \/ Writing(r, l) \/ Unlinking(r, l)
        PROVE  (Creating(r, l) \/ Writing(r, l) \/ Unlinking(r, l))'
    BY <1>1, <2>1, SamePhase
  <2> QED
    BY <1>1, <2>1 DEF IInv, PhaseInv
<1> QED
  BY <1>2, <1>3, <1>5, <1>6 DEF IInv

\* Every step.
LEMMA NextStep == ASSUME Modest, IInv, [Next]_vars PROVE IInv'
<1>1. ASSUME NEW r \in Request, Call(r) PROVE IInv'
  BY <1>1, ClientSteps
<1>2. CASE Timeout \/ Take \/ Lose
  BY <1>2, ClientSteps
<1>3. CASE Respond \/ Crash \/ Restart
  BY <1>3, ServerSteps
<1>4. CASE UNCHANGED vars
  BY <1>4, StaysSame
<1> QED
  BY <1>1, <1>2, <1>3, <1>4, ReceiveStep, PushStep DEF Next

\* The image makes sense when the invariant holds.
LEMMA SoundIs == ASSUME IInv PROVE ImageSound
<1>1. \A i \in Inum : IsType(i, RegularFile) => inodes[i].size = Cardinality(Owned(i))
  BY DEF IInv, FilesInv, FileOk
<1>2. ASSUME NEW d \in Inum, NEW n \in Name, Linked(d), IsType(d, Directory)
      PROVE  Entries(d)[n] \in Doomed \cup {NoInum} \/ ~IsType(Entries(d)[n], 0)
  <2>1. d = 0 \/ Named(d)
    BY <1>2 DEF Linked, Named, Has, IsDir
  <2>2. IsDir(d)
    BY <1>2, <2>1 DEF IInv, NameInv
  <2>3. PICK e : e = Entries(d)[n]
    OBVIOUS
  <2>4. e \in Inum \cup {NoInum}
    BY <2>2, <2>3 DEF IsDir, Dirs
  <2>5. CASE e \in Inum
    <3>1. Named(e)
      BY <2>2, <2>3, <2>5 DEF Named, Has
    <3> QED
      BY <2>3, <2>5, <3>1 DEF IInv, NameInv
  <2> QED
    BY <2>3, <2>4, <2>5
<1> QED
  BY <1>1, <1>2 DEF IInv, OwnInv, ImageSound

\* At every instant the image makes sense, but for the inode whose unlink is being
\* served, when the server dies in creations and writes only (MfsAssumption).
THEOREM ImageStaysSound == ASSUME Modest PROVE Spec => []ImageSound
<1>1. Init => IInv
  BY InitIInv
<1>2. IInv /\ [Next]_vars => IInv'
  BY NextStep
<1>3. IInv => ImageSound
  BY SoundIs
<1> QED
  BY <1>1, <1>2, <1>3, PTL DEF Spec

-----------------------------------------------------------------------------
(* The tree of names *)

\* What an inode is in the tree.
Dirents(i) == [n \in Name |-> IF Entries(i)[n] # NoInum /\ IsType(Entries(i)[n], 0)
                                THEN NoInum ELSE Entries(i)[n]]
InTree(i) == (i = 0 \/ Named(i)) /\ ~IsType(i, 0)
Node(i) == IF ~InTree(i) THEN Free
           ELSE IF IsType(i, Directory) THEN [type |-> Directory, has |-> Dirents(i)]
                                        ELSE [type |-> RegularFile, has |-> Contents(i)]
TreeIs ==
    /\ tree = [i \in Inum |-> Node(i)]
    /\ \A i \in Inum : Store!IsDir(i) <=> InTree(i) /\ IsType(i, Directory)
    /\ \A i \in Inum : Store!IsFile(i) <=> InTree(i) /\ IsType(i, RegularFile)
    /\ \A i \in Inum : InTree(i) /\ IsType(i, Directory) => Entries(i) \in Dirs
    /\ \A i \in Inum : InTree(i) /\ ~IsType(i, Directory) => IsType(i, RegularFile)

\* The tree of module Store is made of these.
LEMMA TreeHolds == IInv => TreeIs
<1> SUFFICES ASSUME IInv PROVE TreeIs
  OBVIOUS
<1>0. TypeOK /\ FilesInv /\ BlockInv /\ NameInv /\ 0 \in Inum
  BY Blocks DEF IInv
<1>1. ASSUME NEW i \in Inum PROVE Linked(i) <=> i = 0 \/ Named(i)
  BY DEF Linked, Named, Has, IsDir
<1>2. ASSUME NEW i \in Inum, InTree(i), IsType(i, Directory) PROVE Entries(i) \in Dirs /\ Dirents(i) \in Dirs
  <2>1. Entries(i) \in Dirs
    BY <1>0, <1>2 DEF InTree, NameInv, IsDir
  <2>2. \A n \in Name : Entries(i)[n] \in Inum \cup {NoInum}
    BY <2>1 DEF Dirs
  <2> QED
    BY <2>1, <2>2 DEF Dirents, Dirs
<1>3. ASSUME NEW i \in Inum, IsType(i, RegularFile)
      PROVE  Contents(i) \in [Addr -> Value \cup Dirs \cup {Hole}]
  <2>1. \A k \in Addr : inodes[i].addrs[k] \in Block \/ inodes[i].addrs[k] = NoBlock
    BY <1>0, <1>3 DEF FilesInv, FileOk
  <2>2. \A b \in Block : block[b] \in Value \cup Dirs
    BY <1>0 DEF TypeOK
  <2>3. \A k \in Addr : (IF inodes[i].addrs[k] = NoBlock THEN Hole ELSE block[inodes[i].addrs[k]])
                          \in Value \cup Dirs \cup {Hole}
    BY <2>1, <2>2
  <2> QED
    BY <2>3 DEF Contents
<1>4. ASSUME NEW i \in Inum, InTree(i), ~IsType(i, Directory) PROVE IsType(i, RegularFile)
  BY <1>0, <1>4, TypeIs DEF InTree
<1>5. ASSUME NEW i \in Inum PROVE tree[i] = Node(i)
  <2>1. CASE ~InTree(i)
    BY <1>1, <2>1 DEF tree, Node, InTree
  <2>2. CASE InTree(i) /\ IsType(i, Directory)
    <3>1. Linked(i) /\ ~IsType(i, 0) /\ inodes[i].type = Directory
      BY <1>1, <2>2 DEF InTree, IsType
    <3> QED
      BY <2>2, <3>1 DEF tree, Node, Dirents
  <2>3. CASE InTree(i) /\ ~IsType(i, Directory)
    <3>1. Linked(i) /\ ~IsType(i, 0) /\ inodes[i].type = RegularFile
      BY <1>1, <1>4, <2>3 DEF InTree, IsType
    <3> QED
      BY <2>3, <3>1 DEF tree, Node, Contents
  <2> QED
    BY <2>1, <2>2, <2>3
<1>6. tree = [i \in Inum |-> Node(i)]
  <2>1. tree = [i \in Inum |-> tree[i]]
    BY DEF tree
  <2> QED
    BY <1>5, <2>1
<1>7. ASSUME NEW i \in Inum
      PROVE  /\ Store!IsDir(i) <=> InTree(i) /\ IsType(i, Directory)
             /\ Store!IsFile(i) <=> InTree(i) /\ IsType(i, RegularFile)
  <2>1. CASE ~InTree(i)
    BY <1>5, <2>1 DEF Node, Store!IsDir, Store!IsFile
  <2>2. CASE InTree(i) /\ IsType(i, Directory)
    <3>1. tree[i] = [type |-> Directory, has |-> Dirents(i)]
      BY <1>5, <2>2 DEF Node
    <3>2. tree[i] # Free /\ tree[i].type = Directory
      BY <1>2, <2>2, <3>1, MfsAssumption
    <3>3. ~IsType(i, RegularFile) /\ tree[i].type # RegularFile
      BY <1>0, <2>2, <3>2, TypeIs DEF RegularFile, Directory
    <3> QED
      BY <2>2, <3>2, <3>3 DEF Store!IsDir, Store!IsFile
  <2>3. CASE InTree(i) /\ ~IsType(i, Directory)
    <3>1. tree[i] = [type |-> RegularFile, has |-> Contents(i)]
      BY <1>5, <2>3 DEF Node
    <3>2. IsType(i, RegularFile)
      BY <1>4, <2>3
    <3>3. tree[i] # Free /\ tree[i].type = RegularFile
      BY <1>3, <3>1, <3>2, MfsAssumption
    <3>4. tree[i].type # Directory
      BY <3>3 DEF RegularFile, Directory
    <3> QED
      BY <2>3, <3>2, <3>3, <3>4 DEF Store!IsDir, Store!IsFile
  <2> QED
    BY <2>1, <2>2, <2>3
<1> QED
  BY <1>2, <1>4, <1>6, <1>7 DEF TreeIs

\* Also after a step.
LEMMA TreeHoldsThen == IInv' => TreeIs'
BY TreeHolds, PTL

\* No pwrite of bitmaps shows in the tree.
LEMMA SameTree == ASSUME UNCHANGED <<inodes, block>> PROVE tree' = tree
BY DEF tree, Linked, IsType, Entries

\* A directory shows the same names when its entries are the same and none of the
\* inodes they are of is freed or taken.
LEMMA SameDirents ==
  ASSUME NEW d, Entries(d) \in Dirs, Entries(d)' = Entries(d),
         \A k \in Inum : \A m \in Name : Entries(d)[m] = k => (IsType(k, 0)' <=> IsType(k, 0))
  PROVE  Dirents(d)' = Dirents(d)
<1>1. PICK v \in Dirs : v = Entries(d)
  OBVIOUS
<1>2. \A m \in Name : v[m] \in Inum \cup {NoInum}
  BY DEF Dirs
<1>3. \A m \in Name : v[m] # NoInum => (inodes'[v[m]].type = 0 <=> inodes[v[m]].type = 0)
  BY <1>1, <1>2 DEF IsType
<1>4. /\ Dirents(d) = [m \in Name |-> IF v[m] # NoInum /\ inodes[v[m]].type = 0 THEN NoInum ELSE v[m]]
      /\ Dirents(d)' = [m \in Name |-> IF v[m] # NoInum /\ inodes'[v[m]].type = 0 THEN NoInum ELSE v[m]]
  BY <1>1 DEF Dirents, IsType
<1> QED
  BY <1>3, <1>4

\* An inode is the same in the tree.
LEMMA SameNodeIs ==
  ASSUME TreeIs, NEW j \in Inum, SameNode(j), Named(j)' <=> Named(j),
         \A k \in Inum : \A m \in Name : Has(j, m, k) => (IsType(k, 0)' <=> IsType(k, 0))
  PROVE  Node(j)' = Node(j)
<1>1. \A t : IsType(j, t)' = IsType(j, t)
  BY DEF SameNode
<1>2. InTree(j)' <=> InTree(j)
  BY <1>1 DEF InTree
<1>3. CASE ~InTree(j)
  BY <1>2, <1>3 DEF Node
<1>4. CASE InTree(j) /\ IsType(j, Directory)
  <2>1. Entries(j) \in Dirs /\ Entries(j)' = Entries(j)
    BY <1>4 DEF TreeIs, SameNode
  <2>2. \A k \in Inum : \A m \in Name : Entries(j)[m] = k => Has(j, m, k)
    BY <1>4, <2>1 DEF Has, IsDir
  <2>3. Dirents(j)' = Dirents(j)
    BY <2>1, <2>2, SameDirents
  <2> QED
    BY <1>1, <1>2, <1>4, <2>3 DEF Node
<1>5. CASE InTree(j) /\ ~IsType(j, Directory)
  <2>1. IsType(j, RegularFile)
    BY <1>5 DEF TreeIs
  <2>2. Contents(j)' = Contents(j)
    BY <2>1 DEF SameNode
  <2> QED
    BY <1>1, <1>2, <1>5, <2>2 DEF Node
<1> QED
  BY <1>3, <1>4, <1>5

\* The tree is the same when its inodes are.
LEMMA SameNodes ==
  ASSUME TreeIs, TreeIs', \A j \in Inum : Node(j)' = Node(j)
  PROVE  tree' = tree
<1>1. tree = [j \in Inum |-> Node(j)] /\ tree' = [j \in Inum |-> Node(j)']
  BY DEF TreeIs
<1> QED
  BY <1>1

\* What is done to an inode without a name is not seen.
LEMMA NamelessIs ==
  ASSUME TreeIs, TreeIs', NEW i \in Inum \ {0}, OnlyNameless(i)
  PROVE  tree' = tree
<1>1. \A k \in Inum : \A j \in Inum : \A m \in Name : Has(j, m, k) => k # i
  BY DEF OnlyNameless, Named
<1>2. \A k \in Inum \ {i} : IsType(k, 0)' = IsType(k, 0)
  BY DEF OnlyNameless, SameNode
<1>3. Node(i)' = Node(i)
  BY DEF OnlyNameless, Node, InTree
<1>4. ASSUME NEW j \in Inum \ {i} PROVE Node(j)' = Node(j)
  <2>1. SameNode(j) /\ (Named(j)' <=> Named(j))
    BY DEF OnlyNameless
  <2>2. \A k \in Inum : \A m \in Name : Has(j, m, k) => (IsType(k, 0)' <=> IsType(k, 0))
    BY <1>1, <1>2
  <2> QED
    BY <2>1, <2>2, SameNodeIs
<1>5. \A j \in Inum : Node(j)' = Node(j)
  BY <1>3, <1>4
<1> QED
  BY <1>5, SameNodes

\* One name or one block of an inode is replaced.
Replaced(T, p, n, x) == [T EXCEPT ![p].has[n] = x]
Renewed(T, p, ty, h) == [T EXCEPT ![p] = [type |-> ty, has |-> h]]

-----------------------------------------------------------------------------
(* The pwrites of a call, as steps of the tree *)

\* A step that replaces one name or one block of inode p,
ThisNode(p, ty, h, n, x) ==
  /\ Node(p) = [type |-> ty, has |-> h] /\ Node(p)' = [type |-> ty, has |-> [h EXCEPT ![n] = x]]
  /\ \A j \in Inum \ {p} : Node(j)' = Node(j)
ThisChanged(p, n, x) == tree' = [tree EXCEPT ![p].has[n] = x]
\* makes that of the tree.
LEMMA OneChanged ==
  ASSUME TreeIs, TreeIs', NEW p \in Inum, NEW ty, NEW h, NEW n, NEW x, ThisNode(p, ty, h, n, x)
  PROVE  ThisChanged(p, n, x)
<1>0. /\ Node(p) = [type |-> ty, has |-> h] /\ Node(p)' = [type |-> ty, has |-> [h EXCEPT ![n] = x]]
      /\ \A j \in Inum \ {p} : Node(j)' = Node(j)
  BY DEF ThisNode
<1>1. PICK T : T = tree
  OBVIOUS
<1>2. T = [j \in Inum |-> T[j]] /\ \A j \in Inum : T[j] = Node(j)
  BY <1>1 DEF TreeIs
<1>3. tree' = [j \in Inum |-> Node(j)']
  BY DEF TreeIs
<1>4. PICK g : g = [h EXCEPT ![n] = x]
  OBVIOUS
<1>5. Replaced(T, p, n, x) = Renewed(T, p, ty, g)
  <2>1. T[p] = [type |-> ty, has |-> h]
    BY <1>0, <1>2
  <2>2. Replaced(T, p, n, x) = [T EXCEPT ![p] = [T[p] EXCEPT !.has = [T[p].has EXCEPT ![n] = x]]]
    BY DEF Replaced
  <2>3. [T[p].has EXCEPT ![n] = x] = g
    BY <1>4, <2>1
  <2>4. [T[p] EXCEPT !.has = g] = [type |-> ty, has |-> g]
    BY <2>1
  <2> QED
    BY <2>2, <2>3, <2>4 DEF Renewed
<1>6. tree' = Renewed(T, p, ty, g)
  <2>1. PICK w : w = [type |-> ty, has |-> g]
    OBVIOUS
  <2>2. tree' = [T EXCEPT ![p] = w]
    BY <1>0, <1>2, <1>3, <1>4, <2>1
  <2> QED
    BY <2>1, <2>2 DEF Renewed
<1> QED
  BY <1>1, <1>5, <1>6 DEF Replaced, ThisChanged

\* and one that makes y of inode i, too.
BothNodes(p, ty, h, n, x, i, y) ==
  /\ Node(p) = [type |-> ty, has |-> h] /\ Node(p)' = [type |-> ty, has |-> [h EXCEPT ![n] = x]]
  /\ Node(i)' = y /\ \A j \in Inum \ {p, i} : Node(j)' = Node(j)
BothChanged(p, n, x, i, y) == tree' = [tree EXCEPT ![p].has[n] = x, ![i] = y]
\* makes both of the tree.
LEMMA TwoChanged ==
  ASSUME TreeIs, TreeIs', NEW p \in Inum, NEW ty, NEW h, NEW n, NEW x, NEW i \in Inum, i # p, NEW y,
         BothNodes(p, ty, h, n, x, i, y)
  PROVE  BothChanged(p, n, x, i, y)
<1>0. /\ Node(p) = [type |-> ty, has |-> h] /\ Node(p)' = [type |-> ty, has |-> [h EXCEPT ![n] = x]]
      /\ Node(i)' = y /\ \A j \in Inum \ {p, i} : Node(j)' = Node(j)
  BY DEF BothNodes
<1>1. PICK T : T = tree
  OBVIOUS
<1>2. T = [j \in Inum |-> T[j]] /\ \A j \in Inum : T[j] = Node(j)
  BY <1>1 DEF TreeIs
<1>3. tree' = [j \in Inum |-> Node(j)']
  BY DEF TreeIs
<1>4. PICK g : g = [h EXCEPT ![n] = x]
  OBVIOUS
<1>5. Replaced(T, p, n, x) = Renewed(T, p, ty, g)
  <2>1. T[p] = [type |-> ty, has |-> h]
    BY <1>0, <1>2
  <2>2. Replaced(T, p, n, x) = [T EXCEPT ![p] = [T[p] EXCEPT !.has = [T[p].has EXCEPT ![n] = x]]]
    BY DEF Replaced
  <2>3. [T[p].has EXCEPT ![n] = x] = g
    BY <1>4, <2>1
  <2>4. [T[p] EXCEPT !.has = g] = [type |-> ty, has |-> g]
    BY <2>1
  <2> QED
    BY <2>2, <2>3, <2>4 DEF Renewed
<1>6. tree' = [Renewed(T, p, ty, g) EXCEPT ![i] = y]
  <2>1. PICK w : w = [type |-> ty, has |-> g]
    OBVIOUS
  <2>2. tree' = [[T EXCEPT ![p] = w] EXCEPT ![i] = y]
    BY <1>0, <1>2, <1>3, <1>4, <2>1
  <2> QED
    BY <2>1, <2>2 DEF Renewed
<1>7. [T EXCEPT ![p].has[n] = x, ![i] = y] = [Replaced(T, p, n, x) EXCEPT ![i] = y]
  BY DEF Replaced
<1> QED
  BY <1>1, <1>5, <1>6, <1>7 DEF BothChanged

\* What a call is answered is true.
Answer(rc, size, val) == Store!TrueAnswer(rc, size, val)

\* The entry of the new file or directory is what Create adds.
LEMMA EnterCreates ==
  ASSUME Modest, IInv, IInv', Push, NEW l, l = todo, NEW r \in Request, r = cur, Creating(r, l),
         NEW i \in Inum \ {0}, Enter(r, i, l)
  PROVE  Store!Create /\ Answer(0, 0, Hole)' /\ Tail(l) = <<>>
<1> DEFINE p == r.inum
           n == r.name
<1>0. /\ TypeOK /\ FilesInv /\ NameInv
      /\ p \in Inum /\ n \in Name /\ r.cmd = "CREAT" /\ IsDir(p)
      /\ (p = 0 \/ Named(p)) /\ Entries(p)[n] = NoInum
  BY CreatIs
<1>1. TreeIs /\ TreeIs'
  BY TreeHolds, TreeHoldsThen
<1>2. /\ Tail(l) = <<>> /\ Named(i)' /\ \A j \in Inum \ {i} : Named(j)' <=> Named(j)
      /\ \A j \in Inum \ {p} : SameNode(j)
      /\ \A t : IsType(p, t)' = IsType(p, t)
      /\ Entries(p)' = [Entries(p) EXCEPT ![n] = i]
  <2>1. Tail(l) = <<>> /\ Entering(p, n, i)
    BY EnterPush
  <2> QED
    BY <2>1 DEF Entering
<1>3. /\ ~IsType(i, 0) /\ ~Named(i)
      /\ IF r.type = Directory THEN IsType(i, Directory) /\ Entries(i) = EmptyDir
                               ELSE IsType(i, RegularFile) /\ inodes[i].size = 0
  BY DEF Enter
<1>4. p # i /\ IsType(p, Directory) /\ Entries(p) \in Dirs /\ ~IsType(p, 0) /\ InTree(p)
  BY <1>0, <1>3, TypeIs DEF IsDir, InTree
<1>5. \A j \in Inum : \A t : IsType(j, t)' = IsType(j, t)
  BY <1>2 DEF SameNode
<1>6. Node(p) = [type |-> Directory, has |-> Dirents(p)]
  BY <1>4 DEF Node
<1>7. Dirents(p)' = [Dirents(p) EXCEPT ![n] = i]
  <2>1. PICK v \in Dirs : v = Entries(p)
    BY <1>4
  <2>2. PICK w : w = [v EXCEPT ![n] = i]
    OBVIOUS
  <2>3. /\ w \in Dirs /\ w[n] = i /\ \A m \in Name \ {n} : w[m] = v[m]
        /\ \A m \in Name : v[m] \in Inum \cup {NoInum} /\ w[m] \in Inum \cup {NoInum}
    BY <1>0, <2>1, <2>2 DEF Dirs
  <2>4. \A k \in Inum : inodes'[k].type = 0 <=> inodes[k].type = 0
    BY <1>5 DEF IsType
  <2>5. /\ Dirents(p) = [m \in Name |-> IF v[m] # NoInum /\ inodes[v[m]].type = 0 THEN NoInum ELSE v[m]]
        /\ Dirents(p)' = [m \in Name |-> IF w[m] # NoInum /\ inodes'[w[m]].type = 0 THEN NoInum ELSE w[m]]
    BY <1>2, <2>1, <2>2 DEF Dirents, IsType
  <2>6. inodes[i].type # 0 /\ i # NoInum
    BY <1>3, Blocks DEF IsType
  <2>7. ASSUME NEW m \in Name PROVE Dirents(p)'[m] = IF m = n THEN i ELSE Dirents(p)[m]
    BY <2>3, <2>4, <2>5, <2>6
  <2> QED
    BY <1>0, <2>5, <2>7
<1>8. Node(p)' = [type |-> Directory, has |-> [Dirents(p) EXCEPT ![n] = i]]
  <2>1. InTree(p)' /\ IsType(p, Directory)'
    BY <1>0, <1>2, <1>4, <1>5 DEF InTree
  <2> QED
    BY <1>7, <2>1 DEF Node
<1>9. Node(i)' = IF r.type = Directory THEN Store!EmptyDir ELSE Store!EmptyFile
  <2>1. InTree(i)' /\ (\A t : IsType(i, t)' = IsType(i, t)) /\ SameNode(i)
    BY <1>2, <1>3, <1>4, <1>5 DEF InTree
  <2>2. CASE r.type = Directory
    <3>1. IsType(i, Directory) /\ Entries(i) = EmptyDir /\ Entries(i)' = EmptyDir
      BY <1>3, <2>1, <2>2 DEF SameNode
    <3>2. Dirents(i)' = [m \in Name |-> NoInum]
      BY <3>1 DEF Dirents, EmptyDir
    <3> QED
      BY <2>1, <2>2, <3>1, <3>2 DEF Node, Store!EmptyDir
  <2>3. CASE r.type # Directory
    <3>1. IsType(i, RegularFile) /\ ~IsType(i, Directory) /\ Contents(i)' = Contents(i)
      BY <1>0, <1>3, <2>1, <2>3, TypeIs DEF SameNode
    <3>2. \A k \in Addr : inodes[i].addrs[k] = NoBlock
      <4>1. \A k \in Addr : ~(k < inodes[i].size)
        BY <1>3, <2>3, Blocks
      <4> QED
        BY <1>0, <3>1, <4>1 DEF FilesInv, FileOk
    <3>3. Contents(i) = [k \in Addr |-> Hole]
      BY <3>2 DEF Contents
    <3> QED
      BY <2>1, <2>3, <3>1, <3>3 DEF Node, Store!EmptyFile
  <2> QED
    BY <2>2, <2>3
<1>10. ASSUME NEW j \in Inum \ {p, i} PROVE Node(j)' = Node(j)
  <2>1. SameNode(j) /\ (Named(j)' <=> Named(j))
    BY <1>2
  <2>2. \A k \in Inum : \A m \in Name : Has(j, m, k) => (IsType(k, 0)' <=> IsType(k, 0))
    BY <1>5
  <2> QED
    BY <1>1, <2>1, <2>2, SameNodeIs
<1>11. PICK y : y = IF r.type = Directory THEN Store!EmptyDir ELSE Store!EmptyFile
  OBVIOUS
<1>12. tree' = [tree EXCEPT ![p].has[n] = i, ![i] = y]
  <2>1. PICK h : h = Dirents(p)
    OBVIOUS
  <2>2. i \in Inum \ {p} /\ Node(i)' = y /\ \A j \in Inum \ {p, i} : Node(j)' = Node(j)
    BY <1>4, <1>9, <1>10, <1>11
  <2>3. PICK pp : pp = p
    OBVIOUS
  <2>4. PICK nn : nn = n
    OBVIOUS
  <2>5. /\ Node(pp) = [type |-> Directory, has |-> h]
        /\ Node(pp)' = [type |-> Directory, has |-> [h EXCEPT ![nn] = i]]
    BY <1>6, <1>8, <2>1, <2>3, <2>4
  <2>6. BothNodes(pp, Directory, h, nn, i, i, y)
    BY <2>2, <2>3, <2>5 DEF BothNodes
  <2>7. pp \in Inum /\ i # pp
    BY <1>0, <1>4, <2>3
  <2>8. BothChanged(pp, nn, i, i, y)
    <3>1. TreeIs /\ TreeIs' /\ i \in Inum /\ pp \in Inum /\ i # pp
      BY <1>1, <2>7
    <3> QED
      BY <2>6, <3>1, TwoChanged
  <2> QED
    BY <2>3, <2>4, <2>8 DEF BothChanged
<1>13. call = r /\ call' = r
  BY DEF IInv, OneFlight, Push
<1>14. Store!IsDir(p) /\ tree[p].has[n] = NoInum /\ tree[i] = Free
  <2>1. tree[p] = Node(p) /\ tree[i] = Node(i) /\ Store!IsDir(p)
    BY <1>0, <1>1, <1>4 DEF TreeIs
  <2>2. Dirents(p)[n] = NoInum
    BY <1>0 DEF Dirents
  <2>3. Node(i) = Free
    BY <1>3 DEF Node, InTree
  <2> QED
    BY <1>6, <2>1, <2>2, <2>3
<1>15. Store!Create
  BY <1>0, <1>11, <1>12, <1>13, <1>14, RequestIs DEF Store!Create
<1>16. Store!IsDir(p)' /\ tree'[p].has[n] = i
  <2>1. InTree(p)' /\ IsType(p, Directory)'
    BY <1>0, <1>2, <1>4, <1>5 DEF InTree
  <2>2. tree'[p] = Node(p)' /\ Store!IsDir(p)'
    BY <1>0, <1>1, <2>1 DEF TreeIs
  <2>3. tree'[p].has = [Dirents(p) EXCEPT ![n] = i]
    BY <1>8, <2>2
  <2> QED
    BY <1>0, <2>2, <2>3 DEF Dirents
<1>17. Answer(0, 0, Hole)'
  <2>1. i # NoInum
    BY Blocks
  <2> QED
    BY <1>0, <1>13, <1>16, <2>1 DEF Answer, Store!TrueAnswer
<1> QED
  BY <1>2, <1>15, <1>17

\* A file has a block at one address only.
LEMMA OneAddress ==
  ASSUME IInv, NEW i \in Inum, IsType(i, RegularFile), NEW a \in Addr, NEW c \in Addr,
         inodes[i].addrs[a] = inodes[i].addrs[c], inodes[i].addrs[a] \in Block
  PROVE  a = c
<1>0. TypeOK /\ FileOk(i) /\ Addr \subseteq Nat
  BY Blocks DEF IInv, FilesInv
<1>1. PICK s \in 0..NADDR : s = inodes[i].size
  BY <1>0 DEF TypeOK, Inode
<1>2. PICK D : D = inodes[i].addrs
  OBVIOUS
<1>3. /\ \A k \in Addr : IF k < s THEN D[k] \in Block ELSE D[k] = NoBlock
      /\ s = Cardinality(Owned(i)) /\ Owned(i) = {D[k] : k \in Addr} \ {NoBlock}
  BY <1>0, <1>1, <1>2, TypeIs DEF FileOk
<1>4. s \in Nat /\ NADDR \in Nat /\ s <= NADDR
  BY <1>1, MfsAssumption
<1>5. PICK S : S = 0..s - 1
  OBVIOUS
<1>6. S \subseteq Addr /\ \A k \in Addr : k < s <=> k \in S
  BY <1>0, <1>4, <1>5 DEF Addr
<1>7. IsFiniteSet(S) /\ Cardinality(S) = s
  <2>1. 0 \in Int /\ s - 1 \in Int
    BY <1>4
  <2>2. IsFiniteSet(0..s - 1) /\ Cardinality(0..s - 1) = IF 0 > s - 1 THEN 0 ELSE s - 1 - 0 + 1
    BY <2>1, FS_Interval
  <2> QED
    BY <1>4, <1>5, <2>2
<1>8. PICK f : f = [k \in S |-> D[k]]
  OBVIOUS
<1>9. f \in Surjection(S, Owned(i))
  <2>1. \A k \in S : f[k] \in Owned(i)
    BY <1>3, <1>6, <1>8, Blocks
  <2>2. \A b \in Owned(i) : \E k \in S : f[k] = b
    BY <1>3, <1>6, <1>8
  <2> QED
    BY <1>8, <2>1, <2>2 DEF Surjection
<1>10. f \in Injection(S, Owned(i))
  BY <1>3, <1>7, <1>9, FS_SurjSameCardinalityImpliesInj
<1>11. a \in S /\ c \in S
  BY <1>2, <1>3, <1>6, Blocks
<1> QED
  BY <1>2, <1>8, <1>10, <1>11 DEF Injection, IsInjective

\* A file that is written.
LEMMA FileNode ==
  ASSUME NEW p, InTree(p), IsType(p, RegularFile)
  PROVE  Node(p) = [type |-> RegularFile, has |-> Contents(p)]
<1>1. RegularFile # Directory
  BY DEF RegularFile, Directory
<1> QED
  BY <1>1 DEF Node, IsType

\* The other files and directories of a step that frees no inode and changes no
\* name.
LEMMA OthersSame ==
  ASSUME TreeIs, TypeOK, NEW p \in Inum, \A j \in Inum : Named(j)' <=> Named(j),
         \A j \in Inum \ {p} : SameNode(j), \A t : IsType(p, t)' = IsType(p, t)
  PROVE  \A j \in Inum \ {p} : Node(j)' = Node(j)
<1>1. \A j \in Inum : \A t : IsType(j, t)' = IsType(j, t)
  BY DEF SameNode
<1> SUFFICES ASSUME NEW j \in Inum \ {p} PROVE Node(j)' = Node(j)
  OBVIOUS
<1>2. SameNode(j) /\ (Named(j)' <=> Named(j))
  OBVIOUS
<1>3. \A k \in Inum : \A m \in Name : Has(j, m, k) => (IsType(k, 0)' <=> IsType(k, 0))
  BY <1>1
<1> QED
  BY <1>2, <1>3, SameNodeIs

\* The data are what Store stores.
LEMMA StoreStores ==
  ASSUME Modest, IInv, IInv', Push, NEW l, l = todo, NEW r \in Request, r = cur, Writing(r, l),
         StoreBlock(r, l, Missing(r))
  PROVE  Store!Store /\ Answer(0, 0, Hole)' /\ Tail(l) = <<>>
<1>0. /\ TypeOK /\ FilesInv /\ r.inum \in Inum /\ r.blk \in Addr /\ r.val \in Value
      /\ r.cmd = "WRITE" /\ IsType(r.inum, RegularFile) /\ (r.inum = 0 \/ Named(r.inum)) /\ ~IsType(r.inum, 0)
  BY WriteIs
<1>1. PICK p \in Inum : p = r.inum
  BY <1>0
<1>2. PICK k \in Addr : k = r.blk
  BY <1>0
<1>3. PICK v \in Value : v = r.val
  BY <1>0
<1>4. TreeIs /\ TreeIs'
  BY TreeHolds, TreeHoldsThen
<1>5. /\ Tail(l) = <<>> /\ \A j \in Inum : Named(j)' = Named(j)
      /\ \A j \in Inum \ {p} : SameNode(j)
      /\ inodes' = inodes /\ inodes[p].addrs[k] \in Block
      /\ \A x \in Block : block'[x] = IF x = inodes[p].addrs[k] THEN v ELSE block[x]
  <2>1. Tail(l) = <<>> /\ Storing(p, k, v)
    BY <1>1, <1>2, <1>3, StoreBlockPush
  <2> QED
    BY <2>1 DEF Storing
<1>6. \A t : IsType(p, t)' = IsType(p, t)
  BY <1>5 DEF IsType
<1>7. InTree(p) /\ InTree(p)' /\ IsType(p, RegularFile)'
  BY <1>0, <1>1, <1>5, <1>6 DEF InTree
<1>8. PICK h : h = Contents(p)
  OBVIOUS
<1>9. Contents(p)' = [h EXCEPT ![k] = v]
  <2>1. PICK D : D = inodes[p].addrs
    OBVIOUS
  <2>2. \A a \in Addr : D[a] \in Block \/ D[a] = NoBlock
    BY <1>0, <1>1, <2>1 DEF FilesInv, FileOk
  <2>3. \A a \in Addr : D[a] = D[k] => a = k
    BY <1>0, <1>1, <1>5, <2>1, OneAddress
  <2>4. h = [a \in Addr |-> IF D[a] = NoBlock THEN Hole ELSE block[D[a]]]
    BY <1>8, <2>1 DEF Contents
  <2>5. Contents(p)' = [a \in Addr |-> IF D[a] = NoBlock THEN Hole ELSE block'[D[a]]]
    BY <1>5, <2>1 DEF Contents
  <2>6. D[k] # NoBlock /\ D[k] \in Block
    BY <1>5, <2>1, Blocks
  <2>7. ASSUME NEW a \in Addr
        PROVE  (IF D[a] = NoBlock THEN Hole ELSE block'[D[a]]) = IF a = k THEN v ELSE h[a]
    BY <1>5, <2>1, <2>2, <2>3, <2>4, <2>6
  <2> QED
    BY <2>4, <2>5, <2>7
<1>10. Node(p) = [type |-> RegularFile, has |-> h]
  BY <1>0, <1>1, <1>7, <1>8, FileNode
<1>11. Node(p)' = [type |-> RegularFile, has |-> [h EXCEPT ![k] = v]]
  <2>1. Node(p)' = [type |-> RegularFile, has |-> Contents(p)']
    <3>1. RegularFile # Directory
      BY DEF RegularFile, Directory
    <3> QED
      BY <1>7, <3>1 DEF Node, IsType
  <2> QED
    BY <1>9, <2>1
<1>12. \A j \in Inum \ {p} : Node(j)' = Node(j)
  BY <1>0, <1>4, <1>5, <1>6, OthersSame
<1>13. tree' = [tree EXCEPT ![p].has[k] = v]
  <2>1. ThisNode(p, RegularFile, h, k, v)
    BY <1>10, <1>11, <1>12 DEF ThisNode
  <2>2. ThisChanged(p, k, v)
    BY <1>4, <2>1, OneChanged
  <2> QED
    BY <2>2 DEF ThisChanged
<1>14. call = r /\ call' = r
  BY DEF IInv, OneFlight, Push
<1>15. Store!IsFile(p) /\ Store!IsFile(p)' /\ tree[p].has = h /\ tree'[p].has[k] = v
  <2>1. Store!IsFile(p) /\ Store!IsFile(p)' /\ tree[p] = Node(p) /\ tree'[p] = Node(p)'
    BY <1>0, <1>1, <1>4, <1>7 DEF TreeIs
  <2>2. [h EXCEPT ![k] = v][k] = v
    BY <1>8 DEF Contents
  <2> QED
    BY <1>10, <1>11, <2>1, <2>2
<1>16. h[k] # Hole
  <2>1. h[k] = block[inodes[p].addrs[k]]
    BY <1>5, <1>8, Blocks DEF Contents
  <2>2. h[k] \in Value \cup Dirs
    BY <1>0, <1>5, <2>1 DEF TypeOK
  <2> QED
    BY <2>2, MfsAssumption
<1>17. Store!Store
  BY <1>0, <1>1, <1>2, <1>3, <1>13, <1>14, <1>15, <1>16, RequestIs DEF Store!Store
<1>18. Answer(0, 0, Hole)'
  BY <1>0, <1>1, <1>2, <1>3, <1>14, <1>15 DEF Answer, Store!TrueAnswer
<1> QED
  BY <1>5, <1>17, <1>18

\* The new end of the file is what Grow adds.
LEMMA LinkGrows ==
  ASSUME Modest, IInv, IInv', Push, NEW l, l = todo, NEW r \in Request, r = cur, Writing(r, l),
         NEW R, R = Missing(r), LinkBlock(r, l, R), List(l)
  PROVE  Store!Grow /\ Tail(l) # <<>>
<1>0. /\ TypeOK /\ FilesInv /\ r.inum \in Inum /\ r.blk \in Addr /\ r.val \in Value
      /\ r.cmd = "WRITE" /\ IsType(r.inum, RegularFile) /\ (r.inum = 0 \/ Named(r.inum)) /\ ~IsType(r.inum, 0)
  BY WriteIs
<1>1. PICK p \in Inum : p = r.inum
  BY <1>0
<1>2. PICK k \in Addr : k = r.blk
  BY <1>0
<1>3. PICK g : g = inodes[p].size
  OBVIOUS
<1>4. TreeIs /\ TreeIs'
  BY TreeHolds, TreeHoldsThen
<1>5. PICK t : t = Tail(l)
  OBVIOUS
<1>6. Tail(l) # <<>> /\ Appending(r.inum, r.blk)
  BY <1>5, LinkBlockPush
<1>7. /\ \A j \in Inum : Named(j)' = Named(j)
      /\ \A j \in Inum \ {p} : SameNode(j)
      /\ \A y : IsType(p, y)' = IsType(p, y)
      /\ block' = block /\ g \in Addr /\ g <= k /\ inodes[p].addrs[g] = NoBlock
  BY <1>1, <1>2, <1>3, <1>6 DEF Appending
<1>8. PICK b \in Block : \A a \in Addr : inodes'[p].addrs[a] = IF a = g THEN b ELSE inodes[p].addrs[a]
  BY <1>1, <1>3, <1>6 DEF Appending
<1>9. InTree(p) /\ InTree(p)' /\ IsType(p, RegularFile) /\ IsType(p, RegularFile)'
  BY <1>0, <1>1, <1>7 DEF InTree
<1>10. PICK h : h = Contents(p)
  OBVIOUS
<1>11. PICK v : v = block[b]
  OBVIOUS
<1>12. b # NoBlock /\ v # Hole
  <2>1. v \in Value \cup Dirs
    BY <1>0, <1>11 DEF TypeOK
  <2> QED
    BY <2>1, Blocks, MfsAssumption
<1>13. Contents(p)' = [h EXCEPT ![g] = v]
  <2>1. PICK D : D = inodes[p].addrs
    OBVIOUS
  <2>2. PICK E : E = inodes'[p].addrs
    OBVIOUS
  <2>3. h = [a \in Addr |-> IF D[a] = NoBlock THEN Hole ELSE block[D[a]]]
    BY <1>10, <2>1 DEF Contents
  <2>4. Contents(p)' = [a \in Addr |-> IF E[a] = NoBlock THEN Hole ELSE block[E[a]]]
    BY <1>7, <2>2 DEF Contents
  <2>5. ASSUME NEW a \in Addr
        PROVE  (IF E[a] = NoBlock THEN Hole ELSE block[E[a]]) = IF a = g THEN v ELSE h[a]
    BY <1>8, <1>11, <1>12, <2>1, <2>2, <2>3
  <2> QED
    BY <2>3, <2>4, <2>5
<1>14. Node(p) = [type |-> RegularFile, has |-> h]
  BY <1>9, <1>10, FileNode
<1>15. Node(p)' = [type |-> RegularFile, has |-> [h EXCEPT ![g] = v]]
  <2>1. Node(p)' = [type |-> RegularFile, has |-> Contents(p)']
    <3>1. RegularFile # Directory
      BY DEF RegularFile, Directory
    <3> QED
      BY <1>9, <3>1 DEF Node, IsType
  <2> QED
    BY <1>13, <2>1
<1>16. \A j \in Inum \ {p} : Node(j)' = Node(j)
  BY <1>0, <1>4, <1>7, OthersSame
<1>17. tree' = [tree EXCEPT ![p].has[g] = v]
  <2>1. ThisNode(p, RegularFile, h, g, v)
    BY <1>14, <1>15, <1>16 DEF ThisNode
  <2>2. ThisChanged(p, g, v)
    BY <1>4, <2>1, OneChanged
  <2> QED
    BY <2>2 DEF ThisChanged
<1>18. call = r
  BY DEF IInv, OneFlight, Push
<1>19. Store!IsFile(p) /\ tree[p].has = h /\ tree'[p].has[g] = v
  <2>1. Store!IsFile(p) /\ tree[p] = Node(p) /\ tree'[p] = Node(p)'
    BY <1>4, <1>9 DEF TreeIs
  <2>2. [h EXCEPT ![g] = v][g] = v
    BY <1>7, <1>10 DEF Contents
  <2> QED
    BY <1>14, <1>15, <2>1, <2>2
<1>20. h[g] = Hole /\ \A m \in Addr : m < g => h[m] # Hole
  <2>1. h[g] = Hole
    BY <1>7, <1>10 DEF Contents
  <2>2. ASSUME NEW m \in Addr, m < g PROVE h[m] # Hole
    <3>1. inodes[p].addrs[m] \in Block
      BY <1>0, <1>1, <1>3, <2>2 DEF FilesInv, FileOk
    <3>2. h[m] = block[inodes[p].addrs[m]]
      BY <1>10, <3>1, Blocks DEF Contents
    <3>3. h[m] \in Value \cup Dirs
      BY <1>0, <3>1, <3>2 DEF TypeOK
    <3> QED
      BY <3>3, MfsAssumption
  <2> QED
    BY <2>1, <2>2
<1>21. tree' = [tree EXCEPT ![p].has[g] = tree'[p].has[g]]
  BY <1>17, <1>19
<1>22. Store!Grow
  BY <1>0, <1>1, <1>2, <1>7, <1>12, <1>18, <1>19, <1>20, <1>21, RequestIs DEF Store!Grow
<1> QED
  BY <1>6, <1>22

\* A directory that is written.
LEMMA DirNode ==
  ASSUME TypeOK, NEW p \in Inum, InTree(p), IsType(p, Directory)
  PROVE  Node(p) = [type |-> Directory, has |-> Dirents(p)]
BY DEF Node

\* The freed inode is what Remove removes.
LEMMA FreeRemoves ==
  ASSUME Modest, IInv, IInv', Push, NEW l, l = todo, NEW r \in Request, r = cur, Unlinking(r, l), List(l),
         NEW i, i = Entries(r.inum)[r.name], Unmark(r, i, l), Len(l) = 2
  PROVE  Store!Remove /\ Tail(l) # <<>>
<1>0. /\ TypeOK /\ NameInv /\ r.inum \in Inum /\ r.name \in Name /\ r.cmd = "UNLINK" /\ IsDir(r.inum)
      /\ (r.inum = 0 \/ Named(r.inum)) /\ i \in Inum /\ i # r.inum /\ i # 0 /\ Has(r.inum, r.name, i)
  BY UnlinkIs
<1>1. PICK p \in Inum : p = r.inum
  BY <1>0
<1>2. PICK n \in Name : n = r.name
  BY <1>0
<1>3. PICK t : t = Tail(l)
  OBVIOUS
<1>4. TreeIs /\ TreeIs'
  BY TreeHolds, TreeHoldsThen
<1>5. Tail(l) # <<>> /\ FreeingInode(i)
  BY <1>3, FreePush
<1>6. /\ \A j \in Inum : Named(j)' = Named(j)
      /\ \A j \in Inum \ {i} : SameNode(j)
      /\ IsType(i, 0)' /\ ~IsType(i, 0) /\ (IsType(i, Directory) => Entries(i) = EmptyDir)
  BY <1>5 DEF FreeingInode
<1>7. \A j \in Inum \ {i} : \A y : IsType(j, y)' = IsType(j, y)
  BY <1>6 DEF SameNode
<1>8. IsType(p, Directory) /\ ~IsType(p, 0) /\ Entries(p) \in Dirs /\ Entries(p)' = Entries(p) /\ Entries(p)[n] = i
  BY <1>0, <1>1, <1>2, <1>6, TypeIs DEF IsDir, SameNode
<1>9. \A j \in Inum, m \in Name : Has(j, m, i) => j = p /\ m = n
  BY <1>0, <1>1, <1>2 DEF NameInv
<1>10. i # p
  BY <1>0, <1>1
<1>11. InTree(p) /\ InTree(p)' /\ IsType(p, Directory)'
  BY <1>0, <1>1, <1>6, <1>7, <1>8, <1>10 DEF InTree
<1>12. Dirents(p)' = [Dirents(p) EXCEPT ![n] = NoInum] /\ Dirents(p)[n] = i
  <2>1. PICK v \in Dirs : v = Entries(p)
    BY <1>8
  <2>2. \A m \in Name : v[m] \in Inum \cup {NoInum}
    BY DEF Dirs
  <2>3. \A m \in Name : v[m] = i => m = n
    <3>1. \A m \in Name : v[m] = i => Has(p, m, i)
      BY <1>8, <2>1 DEF Has, IsDir
    <3> QED
      BY <1>9, <3>1
  <2>4. /\ Dirents(p) = [m \in Name |-> IF v[m] # NoInum /\ inodes[v[m]].type = 0 THEN NoInum ELSE v[m]]
        /\ Dirents(p)' = [m \in Name |-> IF v[m] # NoInum /\ inodes'[v[m]].type = 0 THEN NoInum ELSE v[m]]
    BY <1>8, <2>1 DEF Dirents, IsType
  <2>5. \A k \in Inum \ {i} : inodes'[k].type = 0 <=> inodes[k].type = 0
    BY <1>7 DEF IsType
  <2>6. v[n] = i /\ i # NoInum /\ inodes[i].type # 0 /\ inodes'[i].type = 0
    BY <1>0, <1>6, <1>8, <2>1, Blocks DEF IsType
  <2>7. ASSUME NEW m \in Name PROVE Dirents(p)'[m] = IF m = n THEN NoInum ELSE Dirents(p)[m]
    BY <2>2, <2>3, <2>4, <2>5, <2>6
  <2>8. Dirents(p)[n] = i
    BY <2>4, <2>6
  <2> QED
    BY <2>4, <2>7, <2>8
<1>13. PICK h : h = Dirents(p)
  OBVIOUS
<1>14. Node(p) = [type |-> Directory, has |-> h]
  BY <1>0, <1>8, <1>11, <1>13, DirNode
<1>15. Node(p)' = [type |-> Directory, has |-> [h EXCEPT ![n] = NoInum]]
  BY <1>11, <1>12, <1>13 DEF Node
<1>16. Node(i)' = Free
  BY <1>6 DEF Node, InTree
<1>17. ASSUME NEW j \in Inum \ {p, i} PROVE Node(j)' = Node(j)
  <2>1. SameNode(j) /\ (Named(j)' <=> Named(j))
    BY <1>6
  <2>2. ASSUME NEW k \in Inum, NEW m \in Name, Has(j, m, k) PROVE IsType(k, 0)' <=> IsType(k, 0)
    <3>1. k # i
      BY <1>9, <2>2
    <3> QED
      BY <1>7, <3>1
  <2> QED
    BY <1>4, <2>1, <2>2, SameNodeIs
<1>18. tree' = [tree EXCEPT ![p].has[n] = NoInum, ![i] = Free]
  <2>1. PICK x : x = NoInum
    OBVIOUS
  <2>2. PICK y : y = Free
    OBVIOUS
  <2>3. BothNodes(p, Directory, h, n, x, i, y)
    BY <1>14, <1>15, <1>16, <1>17, <2>1, <2>2 DEF BothNodes
  <2>4. i \in Inum
    BY <1>0
  <2>5. BothChanged(p, n, x, i, y)
    BY <1>4, <1>10, <2>3, <2>4, TwoChanged
  <2> QED
    BY <2>1, <2>2, <2>5 DEF BothChanged
<1>19. call = r
  BY DEF IInv, OneFlight, Push
<1>20. Store!IsDir(p) /\ tree[p].has[n] = i
  <2>1. Store!IsDir(p) /\ tree[p] = Node(p)
    BY <1>4, <1>8, <1>11 DEF TreeIs
  <2> QED
    BY <1>12, <1>13, <1>14, <2>1
<1>21. Store!IsDir(i) => \A m \in Name : tree[i].has[m] = NoInum
  <2> SUFFICES ASSUME Store!IsDir(i), NEW m \in Name PROVE tree[i].has[m] = NoInum
    OBVIOUS
  <2>1. InTree(i) /\ IsType(i, Directory) /\ tree[i] = Node(i)
    BY <1>0, <1>4 DEF TreeIs
  <2>2. Dirents(i)[m] = NoInum
    BY <1>6, <2>1 DEF Dirents, EmptyDir
  <2> QED
    BY <1>0, <2>1, <2>2, DirNode
<1>22. i # NoInum
  BY <1>0, Blocks
<1>23. Store!Remove
  BY <1>0, <1>1, <1>2, <1>18, <1>19, <1>20, <1>21, <1>22, RequestIs DEF Store!Remove
<1> QED
  BY <1>5, <1>23

\* The entry that goes was not seen any more.
LEMMA ClearStutters ==
  ASSUME Modest, IInv, IInv', Push, NEW l, l = todo, NEW r \in Request, r = cur, Unlinking(r, l),
         NEW i, i = Entries(r.inum)[r.name], Clear(r, i, l)
  PROVE  tree' = tree /\ Answer(0, 0, Hole)' /\ Tail(l) = <<>>
<1>0. /\ TypeOK /\ NameInv /\ r.inum \in Inum /\ r.name \in Name /\ r.cmd = "UNLINK" /\ IsDir(r.inum)
      /\ (r.inum = 0 \/ Named(r.inum)) /\ i \in Inum /\ i # r.inum /\ i # 0 /\ Has(r.inum, r.name, i)
  BY UnlinkIs
<1>1. PICK p \in Inum : p = r.inum
  BY <1>0
<1>2. PICK n \in Name : n = r.name
  BY <1>0
<1>3. TreeIs /\ TreeIs'
  BY TreeHolds, TreeHoldsThen
<1>4. Tail(l) = <<>> /\ Clearing(r.inum, i) /\ IsType(i, 0)
  BY ClearPush DEF Clear
<1>5. /\ \A j \in Inum : Named(j)' <=> Named(j) /\ j # i
      /\ \A j \in Inum \ {p} : SameNode(j)
      /\ \A y : IsType(p, y)' = IsType(p, y)
      /\ Entries(p)' = [m \in Name |-> IF Entries(p)[m] = i THEN NoInum ELSE Entries(p)[m]]
  BY <1>1, <1>4 DEF Clearing
<1>6. \A j \in Inum : \A y : IsType(j, y)' = IsType(j, y)
  BY <1>5 DEF SameNode
<1>7. IsType(p, Directory) /\ ~IsType(p, 0) /\ Entries(p) \in Dirs /\ Entries(p)[n] = i /\ i # p
  BY <1>0, <1>1, <1>2, TypeIs DEF IsDir, Has
<1>8. InTree(p) /\ InTree(p)' /\ IsType(p, Directory)'
  BY <1>0, <1>1, <1>5, <1>6, <1>7 DEF InTree
<1>9. Dirents(p)' = Dirents(p) /\ Dirents(p)[n] = NoInum
  <2>1. PICK v \in Dirs : v = Entries(p)
    BY <1>7
  <2>2. \A m \in Name : v[m] \in Inum \cup {NoInum}
    BY DEF Dirs
  <2>3. PICK w : w = [m \in Name |-> IF v[m] = i THEN NoInum ELSE v[m]]
    OBVIOUS
  <2>4. /\ Dirents(p) = [m \in Name |-> IF v[m] # NoInum /\ inodes[v[m]].type = 0 THEN NoInum ELSE v[m]]
        /\ Dirents(p)' = [m \in Name |-> IF w[m] # NoInum /\ inodes'[w[m]].type = 0 THEN NoInum ELSE w[m]]
    BY <1>5, <2>1, <2>3 DEF Dirents, IsType
  <2>5. \A k \in Inum : inodes'[k].type = 0 <=> inodes[k].type = 0
    BY <1>6 DEF IsType
  <2>6. v[n] = i /\ i # NoInum /\ inodes[i].type = 0 /\ i \in Inum
    BY <1>0, <1>4, <1>7, <2>1, Blocks DEF IsType
  <2>7. ASSUME NEW m \in Name PROVE Dirents(p)'[m] = Dirents(p)[m]
    <3>1. CASE v[m] = i
      BY <2>3, <2>4, <2>6, <3>1
    <3>2. CASE v[m] # i
      BY <2>2, <2>3, <2>4, <2>5, <3>2
    <3> QED
      BY <3>1, <3>2
  <2>8. Dirents(p)[n] = NoInum
    BY <2>4, <2>6
  <2> QED
    BY <2>4, <2>7, <2>8
<1>10. Node(p)' = Node(p)
  BY <1>7, <1>8, <1>9 DEF Node
<1>11. Node(i)' = Node(i)
  BY <1>0, <1>4, <1>6 DEF Node, InTree
<1>12. ASSUME NEW j \in Inum \ {p, i} PROVE Node(j)' = Node(j)
  <2>1. SameNode(j) /\ (Named(j)' <=> Named(j))
    BY <1>5
  <2>2. \A k \in Inum : \A m \in Name : Has(j, m, k) => (IsType(k, 0)' <=> IsType(k, 0))
    BY <1>6
  <2> QED
    BY <1>3, <2>1, <2>2, SameNodeIs
<1>13. tree' = tree
  BY <1>3, <1>10, <1>11, <1>12, SameNodes
<1>14. call' = r
  BY DEF IInv, OneFlight, Push
<1>15. Store!IsDir(p)' /\ tree'[p].has[n] = NoInum
  <2>1. Store!IsDir(p)' /\ tree'[p] = Node(p)'
    BY <1>3, <1>8 DEF TreeIs
  <2>2. Node(p)' = [type |-> Directory, has |-> Dirents(p)']
    BY <1>8 DEF Node
  <2> QED
    BY <1>9, <2>1, <2>2
<1>16. Answer(0, 0, Hole)'
  BY <1>0, <1>1, <1>2, <1>14, <1>15 DEF Answer, Store!TrueAnswer
<1> QED
  BY <1>4, <1>13, <1>16

-----------------------------------------------------------------------------
(* The answers *)

\* What a request to an idle server is about, in the tree.
LEMMA SeenIs ==
  ASSUME IInv, Doomed = {}, NEW p \in Inum, p = 0 \/ Named(p) \/ IsType(p, 0)
  PROVE  /\ Store!IsDir(p) <=> IsType(p, Directory)
         /\ Store!IsFile(p) <=> IsType(p, RegularFile)
         /\ IsType(p, Directory) => /\ tree[p].has = Entries(p) /\ IsDir(p) /\ Entries(p) \in Dirs
                                    /\ \A n \in Name : Entries(p)[n] # NoInum =>
                                         /\ Entries(p)[n] \in Inum /\ Named(Entries(p)[n])
         /\ IsType(p, RegularFile) => tree[p].has = Contents(p)
<1>0. TreeIs /\ TypeOK /\ NameInv
  BY TreeHolds DEF IInv
<1>1. IsType(p, Directory) \/ IsType(p, RegularFile) => InTree(p)
  BY <1>0, TypeIs DEF InTree
<1>2. IsType(p, RegularFile) => tree[p].has = Contents(p)
  <2> SUFFICES ASSUME IsType(p, RegularFile) PROVE tree[p].has = Contents(p)
    OBVIOUS
  <2>1. Node(p) = [type |-> RegularFile, has |-> Contents(p)]
    BY <1>1, FileNode
  <2> QED
    BY <1>0, <2>1 DEF TreeIs
<1>3. ASSUME IsType(p, Directory)
      PROVE  /\ tree[p].has = Entries(p) /\ IsDir(p) /\ Entries(p) \in Dirs
             /\ \A n \in Name : Entries(p)[n] # NoInum => Entries(p)[n] \in Inum /\ Named(Entries(p)[n])
  <2>1. PICK v : v = Entries(p)
    OBVIOUS
  <2>2. IsDir(p) /\ v \in Dirs
    BY <1>0, <1>1, <1>3, <2>1 DEF TreeIs, IsDir
  <2>3. \A n \in Name : v[n] \in Inum \cup {NoInum}
    BY <2>2 DEF Dirs
  <2>4. ASSUME NEW n \in Name, v[n] # NoInum PROVE v[n] \in Inum /\ Named(v[n]) /\ ~IsType(v[n], 0)
    <3>1. v[n] \in Inum /\ Has(p, n, v[n])
      BY <2>1, <2>2, <2>3, <2>4 DEF Has
    <3>2. Named(v[n])
      BY <3>1 DEF Named
    <3> QED
      BY <1>0, <3>1, <3>2 DEF NameInv
  <2>5. Dirents(p) = v
    <3>1. Dirents(p) = [n \in Name |-> IF v[n] # NoInum /\ IsType(v[n], 0) THEN NoInum ELSE v[n]]
      BY <2>1 DEF Dirents
    <3>2. v = [n \in Name |-> v[n]]
      BY <2>2 DEF Dirs
    <3> QED
      BY <2>4, <3>1, <3>2
  <2>6. tree[p] = [type |-> Directory, has |-> Dirents(p)]
    BY <1>0, <1>1, <1>3, DirNode DEF TreeIs
  <2> QED
    BY <2>1, <2>2, <2>4, <2>5, <2>6
<1>4. (Store!IsDir(p) <=> IsType(p, Directory)) /\ (Store!IsFile(p) <=> IsType(p, RegularFile))
  BY <1>0, <1>1 DEF TreeIs
<1> QED
  BY <1>2, <1>3, <1>4

\* An idle server, and a request that has arrived.
Arrived(r, p) ==
  /\ IInv /\ Modest /\ todo = <<>> /\ Doomed = {} /\ Ready(r) /\ r = call
  /\ p = r.inum /\ p \in Inum /\ (p = 0 \/ Named(p) \/ IsType(p, 0))

TrueReply(x) == Answer(x.rc, x.size, x.val)
\* A handler that pushes nothing answers what is so.
AnswersTrue(h) == /\ h.push = <<>> => TrueReply(h.reply)
                  /\ h.push # <<>> => h.reply = Reply(0, 0, Hole)

\* What is so, for some of the commands.
LEMMA AnswerIs ==
  ASSUME NEW rc, NEW size, NEW val, NEW p, p = call.inum
  PROVE  /\ call.cmd = "LOOKUP" =>
              (Answer(rc, size, val) <=> rc = IF Store!IsDir(p) THEN tree[p].has[call.name] ELSE NoInum)
         /\ call.cmd = "CREAT" =>
              (Answer(rc, size, val) <=> IF Store!IsDir(p) THEN rc = 0 /\ tree[p].has[call.name] # NoInum ELSE rc = -1)
         /\ call.cmd = "STAT" =>
              (Answer(rc, size, val) <=>
                 IF Store!IsFile(p) THEN rc = 0 /\ size = Store!Length(p)
                 ELSE IF Store!IsDir(p) THEN rc = 0 /\ size = 1 ELSE rc = -1)
         /\ call.cmd = "WRITE" /\ ~Store!IsFile(p) => (Answer(rc, size, val) <=> rc = -1)
         /\ call.cmd = "READ" /\ Store!IsDir(p) /\ ~Store!IsFile(p) =>
              (Answer(rc, size, val) <=> (call.blk = 0 => rc = 0 /\ val = tree[p].has))
<1>1. ASSUME call.cmd = "LOOKUP"
      PROVE  Answer(rc, size, val) <=> rc = IF Store!IsDir(p) THEN tree[p].has[call.name] ELSE NoInum
  BY <1>1 DEF Answer, Store!TrueAnswer
<1>2. ASSUME call.cmd = "CREAT"
      PROVE  Answer(rc, size, val) <=> IF Store!IsDir(p) THEN rc = 0 /\ tree[p].has[call.name] # NoInum ELSE rc = -1
  BY <1>2 DEF Answer, Store!TrueAnswer
<1>3. ASSUME call.cmd = "STAT"
      PROVE  Answer(rc, size, val) <=>
                 IF Store!IsFile(p) THEN rc = 0 /\ size = Store!Length(p)
                 ELSE IF Store!IsDir(p) THEN rc = 0 /\ size = 1 ELSE rc = -1
  BY <1>3 DEF Answer, Store!TrueAnswer
<1>4. ASSUME call.cmd = "WRITE", ~Store!IsFile(p)
      PROVE  Answer(rc, size, val) <=> rc = -1
  BY <1>4 DEF Answer, Store!TrueAnswer
<1>5. ASSUME call.cmd = "READ", Store!IsDir(p), ~Store!IsFile(p)
      PROVE  Answer(rc, size, val) <=> (call.blk = 0 => rc = 0 /\ val = tree[p].has)
  BY <1>5 DEF Answer, Store!TrueAnswer
<1> QED
  BY <1>1, <1>2, <1>3, <1>4, <1>5

\* The answer of a handler that does nothing.
LEMMA QuickIs ==
  ASSUME NEW rc, NEW val, Answer(rc, 0, val), NEW h, h = Quick(rc, val)
  PROVE  AnswersTrue(h)
BY DEF AnswersTrue, TrueReply, Quick, Reply

\* LOOKUP tells what the name stands for,
LEMMA LookupAnswers ==
  ASSUME NEW r \in Request, NEW p, Arrived(r, p), r.cmd = "LOOKUP"
  PROVE  AnswersTrue(mfs_lookup(p, r.name))
<1>0. r = call /\ IInv /\ Doomed = {} /\ p = r.inum /\ p \in Inum /\ (p = 0 \/ Named(p) \/ IsType(p, 0)) /\ r.name \in Name
  BY RequestIs DEF Arrived
<1>1. /\ Store!IsDir(p) <=> IsType(p, Directory)
      /\ IsType(p, Directory) => tree[p].has = Entries(p)
  BY <1>0, SeenIs
<1>2. CASE IsType(p, Directory)
  <2>1. mfs_lookup(p, r.name) = Quick(Entries(p)[r.name], Hole)
    BY <1>2 DEF mfs_lookup
  <2>2. Answer(Entries(p)[r.name], 0, Hole)
    BY <1>0, <1>1, <1>2, AnswerIs
  <2> QED
    BY <2>1, <2>2, QuickIs
<1>3. CASE ~IsType(p, Directory)
  <2>1. mfs_lookup(p, r.name) = Quick(-1, Hole)
    BY <1>3 DEF mfs_lookup
  <2>2. Answer(-1, 0, Hole)
    BY <1>0, <1>1, <1>3, AnswerIs DEF NoInum
  <2> QED
    BY <2>1, <2>2, QuickIs
<1> QED
  BY <1>2, <1>3

\* STAT how many blocks there are,
LEMMA StatAnswers ==
  ASSUME NEW r \in Request, NEW p, Arrived(r, p), r.cmd = "STAT"
  PROVE  AnswersTrue(mfs_stat(p))
<1>0. /\ r = call /\ IInv /\ Doomed = {} /\ p = r.inum /\ p \in Inum /\ (p = 0 \/ Named(p) \/ IsType(p, 0))
      /\ TypeOK /\ FileOk(p)
  BY DEF Arrived, IInv, FilesInv
<1>1. /\ Store!IsDir(p) <=> IsType(p, Directory)
      /\ Store!IsFile(p) <=> IsType(p, RegularFile)
      /\ IsType(p, RegularFile) => tree[p].has = Contents(p)
  BY <1>0, SeenIs
<1>2. CASE IsType(p, 0)
  <2>1. mfs_stat(p) = Quick(-1, Hole) /\ ~IsType(p, Directory) /\ ~IsType(p, RegularFile)
    BY <1>0, <1>2, TypeIs DEF mfs_stat
  <2>2. Answer(-1, 0, Hole)
    BY <1>0, <1>1, <2>1, AnswerIs
  <2> QED
    BY <2>1, <2>2, QuickIs
<1>3. CASE ~IsType(p, 0)
  <2>1. PICK s \in 0..NADDR : s = inodes[p].size
    BY <1>0 DEF TypeOK, Inode
  <2>2. mfs_stat(p).push = <<>> /\ mfs_stat(p).reply = Reply(0, s, Hole)
    BY <1>3, <2>1 DEF mfs_stat
  <2>3. CASE IsType(p, RegularFile)
    <3>1. PICK S : S = {k \in Addr : Contents(p)[k] # Hole}
      OBVIOUS
    <3>2. S = 0..s - 1
      <4>1. ASSUME NEW k \in Addr PROVE Contents(p)[k] # Hole <=> k < s
        <5>1. CASE k < s
          <6>1. inodes[p].addrs[k] \in Block
            BY <1>0, <2>1, <2>3, <5>1 DEF FileOk
          <6>2. Contents(p)[k] = block[inodes[p].addrs[k]]
            BY <6>1, Blocks DEF Contents
          <6>3. Contents(p)[k] \in Value \cup Dirs
            BY <1>0, <6>1, <6>2 DEF TypeOK
          <6> QED
            BY <5>1, <6>3, MfsAssumption
        <5>2. CASE ~(k < s)
          <6>1. inodes[p].addrs[k] = NoBlock
            BY <1>0, <2>1, <2>3, <5>2 DEF FileOk
          <6> QED
            BY <5>2, <6>1 DEF Contents
        <5> QED
          BY <5>1, <5>2
      <4>2. NADDR \in Nat /\ s \in Nat /\ s <= NADDR
        BY <2>1, MfsAssumption
      <4>3. \A k \in Int : k \in Addr /\ k < s <=> k \in 0..s - 1
        BY <4>2 DEF Addr
      <4>4. S \subseteq Int /\ Addr \subseteq Int
        BY <3>1 DEF Addr
      <4> QED
        BY <3>1, <4>1, <4>3, <4>4
    <3>3. Cardinality(S) = s
      <4>1. s \in Nat /\ 0 \in Int /\ s - 1 \in Int
        BY <2>1, MfsAssumption
      <4>2. Cardinality(0..s - 1) = IF 0 > s - 1 THEN 0 ELSE s - 1 - 0 + 1
        BY <4>1, FS_Interval
      <4> QED
        BY <3>2, <4>1, <4>2
    <3>4. TrueReply(Reply(0, s, Hole))
      <4>1. Store!Length(p) = s
        <5>1. S = {k \in Addr : tree[p].has[k] # Hole}
          BY <1>1, <2>3, <3>1
        <5>2. Store!Length(p) = Cardinality(S)
          BY <5>1, Zenon DEF Store!Length, Store!Cardinality, Cardinality
        <5> QED
          BY <3>3, <5>2
      <4>2. Answer(0, s, Hole)
        BY <1>0, <1>1, <2>3, <4>1, AnswerIs
      <4> QED
        BY <4>2 DEF TrueReply, Reply
    <3> QED
      BY <2>2, <3>4 DEF AnswersTrue
  <2>4. CASE IsType(p, Directory)
    <3>1. s = 1 /\ ~IsType(p, RegularFile)
      BY <1>0, <2>1, <2>4, TypeIs DEF FileOk
    <3>2. TrueReply(Reply(0, s, Hole))
      <4>1. Answer(0, s, Hole)
        BY <1>0, <1>1, <2>4, <3>1, AnswerIs
      <4> QED
        BY <4>1 DEF TrueReply, Reply
    <3> QED
      BY <2>2, <3>2 DEF AnswersTrue
  <2> QED
    BY <1>0, <1>3, <2>3, <2>4, TypeIs
<1> QED
  BY <1>2, <1>3

\* READ what a block holds,
LEMMA ReadAnswers ==
  ASSUME NEW r \in Request, NEW p, Arrived(r, p), r.cmd = "READ"
  PROVE  AnswersTrue(mfs_read(p, r.blk))
<1>0. /\ r = call /\ IInv /\ Doomed = {} /\ p = r.inum /\ p \in Inum /\ (p = 0 \/ Named(p) \/ IsType(p, 0))
      /\ TypeOK /\ FileOk(p) /\ r.blk \in Addr
  BY RequestIs DEF Arrived, IInv, FilesInv
<1>1. PICK k \in Addr : k = r.blk
  BY <1>0
<1>2. /\ Store!IsDir(p) <=> IsType(p, Directory)
      /\ Store!IsFile(p) <=> IsType(p, RegularFile)
      /\ IsType(p, RegularFile) => tree[p].has = Contents(p)
      /\ IsType(p, Directory) => tree[p].has = Entries(p)
  BY <1>0, SeenIs
<1>3. PICK h : h = mfs_read(p, k)
  OBVIOUS
<1>4. CASE IsType(p, 0)
  <2>1. h = Quick(-1, Hole) /\ ~IsType(p, Directory) /\ ~IsType(p, RegularFile)
    BY <1>0, <1>3, <1>4, TypeIs DEF mfs_read
  <2>2. AnswersTrue(h)
    BY <1>0, <1>1, <1>2, <2>1 DEF AnswersTrue, Quick, TrueReply, Reply, Answer, Store!TrueAnswer
  <2> QED
    BY <1>1, <1>3, <2>2
<1>5. CASE IsType(p, RegularFile)
  <2>1. ~IsType(p, 0) /\ inodes[p].addrs[k] \in Block \cup {NoBlock} /\ inodes[p].addrs[k] # Header
    BY <1>0, <1>5, TypeIs, Blocks DEF FileOk
  <2>2. CASE inodes[p].addrs[k] = NoBlock
    <3>1. h = Quick(-1, Hole) /\ Contents(p)[k] = Hole
      BY <1>3, <2>2 DEF mfs_read, Contents
    <3>2. AnswersTrue(h)
      BY <1>0, <1>1, <1>2, <1>5, <3>1 DEF AnswersTrue, Quick, TrueReply, Reply, Answer, Store!TrueAnswer
    <3> QED
      BY <1>1, <1>3, <3>2
  <2>3. CASE inodes[p].addrs[k] # NoBlock
    <3>1. h = Quick(0, block[inodes[p].addrs[k]]) /\ Contents(p)[k] = block[inodes[p].addrs[k]]
      BY <1>3, <2>1, <2>3 DEF mfs_read, Contents
    <3>2. Contents(p)[k] # Hole
      BY <1>0, <2>1, <2>3, <3>1, MfsAssumption DEF TypeOK
    <3>3. AnswersTrue(h)
      BY <1>0, <1>1, <1>2, <1>5, <3>1, <3>2 DEF AnswersTrue, Quick, TrueReply, Reply, Answer, Store!TrueAnswer
    <3> QED
      BY <1>1, <1>3, <3>3
  <2> QED
    BY <2>2, <2>3
<1>6. CASE IsType(p, Directory)
  <2>1. ~IsType(p, 0) /\ ~IsType(p, RegularFile) /\ inodes[p].addrs[0] \in Block
    BY <1>0, <1>6, TypeIs DEF FileOk
  <2>2. h.push = <<>>
    BY <1>3 DEF mfs_read, Quick
  <2>3. k = 0 => h = Quick(0, Entries(p))
    BY <1>3, <2>1, Blocks DEF mfs_read, Entries
  <2>4. TrueReply(h.reply)
    <3>1. CASE k = 0
      <4>1. Answer(0, 0, Entries(p))
        BY <1>0, <1>1, <1>2, <1>6, <2>1, <3>1, AnswerIs
      <4> QED
        BY <2>3, <3>1, <4>1 DEF TrueReply, Quick, Reply
    <3>2. CASE k # 0
      <4>1. \A rc, size, val : Answer(rc, size, val)
        BY <1>0, <1>1, <1>2, <1>6, <2>1, <3>2, AnswerIs
      <4> QED
        BY <4>1 DEF TrueReply
    <3> QED
      BY <3>1, <3>2
  <2>5. AnswersTrue(h)
    BY <2>2, <2>4 DEF AnswersTrue
  <2> QED
    BY <1>1, <1>3, <2>5
<1> QED
  BY <1>0, <1>4, <1>5, <1>6, TypeIs

\* WRITE, if it does nothing, that it is no file,
LEMMA WriteAnswers ==
  ASSUME NEW r \in Request, NEW p, Arrived(r, p), r.cmd = "WRITE"
  PROVE  AnswersTrue(mfs_write(p, r.blk, r.val))
<1>0. /\ r = call /\ IInv /\ Modest /\ todo = <<>> /\ Ready(r) /\ Doomed = {}
      /\ p = r.inum /\ p \in Inum /\ (p = 0 \/ Named(p) \/ IsType(p, 0)) /\ TypeOK
  BY DEF Arrived, IInv
<1>1. (Store!IsDir(p) <=> IsType(p, Directory)) /\ (Store!IsFile(p) <=> IsType(p, RegularFile))
  BY <1>0, SeenIs
<1>2. CASE ~IsType(p, RegularFile)
  <2>1. mfs_write(p, r.blk, r.val) = Quick(-1, Hole)
    BY <1>2 DEF mfs_write
  <2>2. Answer(-1, 0, Hole)
    BY <1>0, <1>1, <1>2, AnswerIs
  <2> QED
    BY <2>1, <2>2, QuickIs
<1>3. CASE IsType(p, RegularFile)
  <2>1. PICK l : l = mfs_write(p, r.blk, r.val).push
    OBVIOUS
  <2>2. Len(l) \in 1..3 * NADDR + 2
    BY <1>0, <1>3, <2>1, WriteStarts
  <2>3. l # <<>>
    BY <2>2
  <2>4. mfs_write(p, r.blk, r.val).reply = Reply(0, 0, Hole)
    BY <1>3 DEF mfs_write, Pushes
  <2> QED
    BY <2>1, <2>3, <2>4 DEF AnswersTrue
<1> QED
  BY <1>2, <1>3

\* CREAT that there is the name, or no directory,
LEMMA CreatAnswers ==
  ASSUME NEW r \in Request, NEW p, Arrived(r, p), r.cmd = "CREAT"
  PROVE  AnswersTrue(mfs_creat(p, r.type, r.name))
<1>0. /\ r = call /\ IInv /\ Doomed = {} /\ p = r.inum /\ p \in Inum /\ (p = 0 \/ Named(p) \/ IsType(p, 0))
      /\ r.name \in Name
  BY RequestIs DEF Arrived
<1>1. /\ Store!IsDir(p) <=> IsType(p, Directory)
      /\ IsType(p, Directory) => tree[p].has = Entries(p)
  BY <1>0, SeenIs
<1>2. CASE ~IsType(p, Directory)
  <2>1. mfs_creat(p, r.type, r.name) = Quick(-1, Hole)
    BY <1>2 DEF mfs_creat
  <2>2. Answer(-1, 0, Hole)
    BY <1>0, <1>1, <1>2, AnswerIs
  <2> QED
    BY <2>1, <2>2, QuickIs
<1>3. CASE IsType(p, Directory) /\ Entries(p)[r.name] # NoInum
  <2>1. mfs_creat(p, r.type, r.name) = Quick(0, Hole)
    BY <1>3 DEF mfs_creat
  <2>2. Answer(0, 0, Hole)
    BY <1>0, <1>1, <1>3, AnswerIs
  <2> QED
    BY <2>1, <2>2, QuickIs
<1>4. CASE IsType(p, Directory) /\ Entries(p)[r.name] = NoInum
  <2>1. PICK l : l = mfs_creat(p, r.type, r.name).push
    OBVIOUS
  <2>2. l # <<>>
    BY <1>4, <2>1 DEF mfs_creat, Pushes, NewFile, NewDir
  <2>3. mfs_creat(p, r.type, r.name).reply = Reply(0, 0, Hole)
    BY <1>4 DEF mfs_creat, Pushes
  <2> QED
    BY <2>1, <2>2, <2>3 DEF AnswersTrue
<1> QED
  BY <1>2, <1>3, <1>4

\* UNLINK that there is no name, or no directory, or one with names in it.
LEMMA UnlinkAnswers ==
  ASSUME NEW r \in Request, NEW p, Arrived(r, p), r.cmd = "UNLINK"
  PROVE  AnswersTrue(mfs_unlink(p, r.name))
<1>0. /\ r = call /\ IInv /\ Modest /\ todo = <<>> /\ Ready(r) /\ Doomed = {}
      /\ p = r.inum /\ p \in Inum /\ (p = 0 \/ Named(p) \/ IsType(p, 0))
  BY DEF Arrived
<1>1. PICK n \in Name : n = r.name
  BY <1>0, RequestIs
<1>2. PICK i : i = Entries(p)[n]
  OBVIOUS
<1>3. /\ Store!IsDir(p) <=> IsType(p, Directory)
      /\ IsType(p, Directory) => /\ tree[p].has = Entries(p)
                                 /\ i # NoInum => i \in Inum /\ Named(i)
  BY <1>0, <1>2, SeenIs
<1>4. PICK h : h = mfs_unlink(p, n)
  OBVIOUS
<1>5. CASE ~IsType(p, Directory)
  <2>1. h = Quick(-1, Hole)
    BY <1>4, <1>5 DEF mfs_unlink
  <2>2. AnswersTrue(h)
    BY <1>0, <1>1, <1>3, <1>5, <2>1 DEF AnswersTrue, Quick, TrueReply, Reply, Answer, Store!TrueAnswer
  <2> QED
    BY <1>1, <1>4, <2>2
<1>6. CASE IsType(p, Directory) /\ i = NoInum
  <2>1. h = Quick(0, Hole)
    BY <1>2, <1>4, <1>6 DEF mfs_unlink
  <2>2. AnswersTrue(h)
    BY <1>0, <1>1, <1>2, <1>3, <1>6, <2>1 DEF AnswersTrue, Quick, TrueReply, Reply, Answer, Store!TrueAnswer
  <2> QED
    BY <1>1, <1>4, <2>2
<1>7. CASE IsType(p, Directory) /\ i # NoInum /\ IsType(i, Directory) /\ Entries(i) # EmptyDir
  <2>1. h = Quick(-1, Hole)
    BY <1>2, <1>4, <1>7 DEF mfs_unlink
  <2>2. i \in Inum /\ Named(i)
    BY <1>3, <1>7
  <2>3. Store!IsDir(i) /\ tree[i].has = Entries(i) /\ Entries(i) \in Dirs
    BY <1>0, <1>7, <2>2, SeenIs
  <2>4. \E m \in Name : tree[i].has[m] # NoInum
    BY <1>7, <2>3 DEF Dirs, EmptyDir
  <2>5. AnswersTrue(h)
    BY <1>0, <1>1, <1>2, <1>3, <1>7, <2>1, <2>3, <2>4
       DEF AnswersTrue, Quick, TrueReply, Reply, Answer, Store!TrueAnswer
  <2> QED
    BY <1>1, <1>4, <2>5
<1>8. CASE IsType(p, Directory) /\ i # NoInum /\ ~(IsType(i, Directory) /\ Entries(i) # EmptyDir)
  <2>1. PICK l : l = h.push
    OBVIOUS
  <2>2. l = mfs_unlink(r.inum, r.name).push /\ i = Entries(r.inum)[r.name]
    BY <1>0, <1>1, <1>2, <1>4, <2>1
  <2>3. IsType(r.inum, Directory) /\ i # NoInum /\ (IsType(i, Directory) => Entries(i) = EmptyDir)
    BY <1>0, <1>8
  <2>4. Len(l) \in 1..3 * NADDR + 2
    BY <1>0, <2>2, <2>3, UnlinkStarts
  <2>5. l # <<>>
    BY <2>4
  <2>6. h.reply = Reply(0, 0, Hole)
    BY <1>2, <1>4, <1>8 DEF mfs_unlink, Pushes
  <2>7. AnswersTrue(h)
    BY <2>1, <2>5, <2>6 DEF AnswersTrue
  <2> QED
    BY <1>1, <1>4, <2>7
<1> QED
  BY <1>5, <1>6, <1>7, <1>8

-----------------------------------------------------------------------------
(* The server implements the store *)

\* The invariant of the answers: those under way are true.
AnswersInv ==
  /\ cur # NoCall => IF todo = <<>> THEN TrueReply(reply) ELSE reply = Reply(0, 0, Hole)
  /\ reps # <<>> => TrueReply(reps[1])
StoreNext == [Store!Next]_<<tree, call, answer>>

\* As long as the tree stays, so does what is so of it.
LEMMA SameLength == ASSUME tree' = tree, NEW i PROVE Store!Length(i)' = Store!Length(i)
<1>1. {k \in Addr : tree'[i].has[k] # Hole} = {k \in Addr : tree[i].has[k] # Hole}
  OBVIOUS
<1> QED
  BY <1>1, Zenon DEF Store!Length

\* And the answers to the call.
LEMMA SameReply ==
  ASSUME UNCHANGED <<tree, call>>, NEW x, TrueReply(x)
  PROVE  TrueReply(x)'
<1>1. PICK p : p = call.inum
  OBVIOUS
<1>2. /\ Store!Length(p)' = Store!Length(p)
      /\ \A i : (Store!IsDir(i)' <=> Store!IsDir(i)) /\ (Store!IsFile(i)' <=> Store!IsFile(i))
  BY SameLength DEF Store!IsDir, Store!IsFile
<1>3. ASSUME NEW a, NEW b, NEW c PROVE Answer(a, b, c)' <=> Answer(a, b, c)
  BY <1>1, <1>2 DEF Answer, Store!TrueAnswer
<1> QED
  BY <1>3 DEF TrueReply

\* A step that does nothing to the image, the calls and the answers under way.
LEMMA QuietStep ==
  ASSUME AnswersInv, UNCHANGED <<image, call, answer>>,
         cur' # NoCall => UNCHANGED <<cur, todo, reply>>,
         reps' # <<>> => reps' = reps
  PROVE  AnswersInv' /\ StoreNext
<1>1. tree' = tree
  BY SameTree DEF image
<1>2. StoreNext
  BY <1>1 DEF StoreNext
<1>3. ASSUME cur' # NoCall PROVE IF todo' = <<>> THEN TrueReply(reply)' ELSE reply' = Reply(0, 0, Hole)
  <2>1. PICK x : x = reply
    OBVIOUS
  <2>2. todo = <<>> => TrueReply(x)'
    BY <1>1, <1>3, <2>1, SameReply DEF AnswersInv
  <2>3. TrueReply(x)' => TrueReply(reply)'
    BY <1>3, <2>1 DEF TrueReply, Answer, Store!TrueAnswer
  <2> QED
    BY <1>3, <2>1, <2>2, <2>3 DEF AnswersInv
<1>4. ASSUME reps' # <<>> PROVE TrueReply(reps[1])'
  <2>1. PICK x : x = reps[1]
    OBVIOUS
  <2>2. TrueReply(x)'
    BY <1>1, <1>4, <2>1, SameReply DEF AnswersInv
  <2>3. reps'[1] = x
    BY <1>4, <2>1
  <2> QED
    BY <2>2, <2>3 DEF TrueReply, Answer, Store!TrueAnswer
<1> QED
  BY <1>2, <1>3, <1>4 DEF AnswersInv

\* The program calls: it begins.
LEMMA CallBegins ==
  ASSUME IInv, IInv', AnswersInv, NEW r \in Request, Call(r)
  PROVE  AnswersInv' /\ StoreNext
<1>1. /\ call = NoCall /\ call' = r /\ answer' = [call |-> NoCall, res |-> NoReply]
      /\ UNCHANGED <<image, server, reps>>
  BY DEF Call
<1>2. reps' = <<>> /\ cur' = NoCall
  BY <1>1 DEF IInv, OneFlight, server
<1>3. tree' = tree
  BY <1>1, SameTree DEF image
<1>4. Store!Begin
  BY <1>1, <1>3 DEF Store!Begin
<1> QED
  BY <1>2, <1>4 DEF AnswersInv, StoreNext, Store!Next

\* It takes an answer: it returns, as that is true.
LEMMA TakeReturns ==
  ASSUME IInv, IInv', AnswersInv, Take
  PROVE  AnswersInv' /\ StoreNext
<1>1. PICK x \in 1..Len(reps) : answer' = [call |-> call, res |-> reps[x]]
  BY DEF Take
<1>2. call # NoCall /\ call' = NoCall /\ UNCHANGED image
  BY DEF Take
<1>3. reps' = <<>> /\ cur' = NoCall
  BY <1>2 DEF IInv, OneFlight
<1>4. Len(reps) > 0
  <2>1. Len(reps) \in Nat
    BY Idle DEF IInv
  <2> QED
    BY <2>1
<1>5. reps = <<reps[1]>>
  BY <1>4, Idle DEF IInv
<1>6. reps # <<>> /\ reps[x] = reps[1]
  <2>1. PICK y : y = reps[1]
    OBVIOUS
  <2>2. reps = <<y>>
    BY <1>5, <2>1
  <2>3. reps[x] = y /\ reps # <<>>
    BY <2>2, OneIs
  <2> QED
    BY <2>1, <2>3
<1>7. PICK y : y = reps[1]
  OBVIOUS
<1>8. TrueReply(y)
  BY <1>6, <1>7 DEF AnswersInv
<1>9. answer'.call = call /\ answer'.res = y
  BY <1>1, <1>6, <1>7
<1>10. tree' = tree
  BY <1>2, SameTree DEF image
<1>11. Store!TrueAnswer(answer'.res.rc, answer'.res.size, answer'.res.val)
  BY <1>8, <1>9 DEF TrueReply, Answer
<1>12. Store!Return
  BY <1>2, <1>9, <1>10, <1>11 DEF Store!Return
<1> QED
  BY <1>3, <1>12 DEF AnswersInv, StoreNext, Store!Next

\* Other steps of the client and the network.
LEMMA OtherSteps ==
  ASSUME Modest, IInv, IInv', AnswersInv, Timeout \/ Lose \/ Crash \/ Restart
  PROVE  AnswersInv' /\ StoreNext
<1>0. OneFlight /\ MaxFlight = 1
  BY DEF IInv, Modest
<1>1. CASE Timeout
  BY <1>1, QuietStep DEF Timeout, server
<1>2. CASE Lose
  <2>1. UNCHANGED <<image, call, answer>> /\ UNCHANGED <<cur, todo, reply>>
    BY <1>2 DEF Lose, server
  <2>2. reps' # <<>> => reps' = reps
    <3>1. ASSUME NEW x \in 1..Len(reps), reps' = RemoveAt(reps, x) PROVE reps' = <<>>
      <4>1. reps = <<>> \/ reps = <<reps[1]>>
        BY <1>0 DEF OneFlight
      <4>2. reps # <<>>
        BY Only
      <4> QED
        BY <3>1, <4>1, <4>2, OneIs
    <3> QED
      BY <1>2, <3>1 DEF Lose
  <2> QED
    BY <2>1, <2>2, QuietStep
<1>3. CASE Crash
  BY <1>3, QuietStep DEF Crash
<1>4. CASE Restart
  BY <1>4, QuietStep DEF Restart
<1> QED
  BY <1>1, <1>2, <1>3, <1>4

\* The server answers what it has computed.
LEMMA RespondTells ==
  ASSUME IInv, IInv', AnswersInv, Respond
  PROVE  AnswersInv' /\ StoreNext
<1>1. /\ cur # NoCall /\ todo = <<>> /\ reps' = Append(reps, reply) /\ cur' = NoCall
      /\ UNCHANGED <<image, call, answer>>
  BY DEF Respond
<1>2. PICK x : x = reply
  OBVIOUS
<1>3. tree' = tree
  BY <1>1, SameTree DEF image
<1>4. TrueReply(x)'
  BY <1>1, <1>2, <1>3, SameReply DEF AnswersInv
<1>5. reps'[1] = x
  <2>1. reps = <<>>
    BY <1>1 DEF IInv, OneFlight
  <2> QED
    BY <1>1, <1>2, <2>1
<1>6. TrueReply(reps[1])'
  BY <1>4, <1>5 DEF TrueReply, Answer, Store!TrueAnswer
<1> QED
  BY <1>1, <1>3, <1>6 DEF AnswersInv, StoreNext

\* The server takes a request, and if there is nothing to write it is answered.
LEMMA ReceiveTells ==
  ASSUME Modest, IInv, IInv', AnswersInv, Receive
  PROVE  AnswersInv' /\ StoreNext
<1>1. PICK x \in 1..Len(reqs) :
         IF Asserts(reqs[x])
           THEN up' = "down" /\ UNCHANGED <<cur, todo, reply>>
           ELSE cur' = reqs[x] /\ todo' = Handle(reqs[x]).push /\ reply' = Handle(reqs[x]).reply
  BY DEF Receive
<1>2. cur = NoCall /\ UNCHANGED <<image, reps, call, answer>>
  BY DEF Receive
<1>3. Len(reqs) > 0
  <2>1. Len(reqs) \in Nat
    BY Idle DEF IInv
  <2> QED
    BY <2>1
<1>4. reqs = <<call>> /\ reps = <<>> /\ todo = <<>> /\ call \in Request
  BY <1>3, Idle DEF IInv
<1>5. PICK r \in Request : r = call
  BY <1>4
<1>6. reqs[x] = r
  BY <1>4, <1>5, OneIs
<1>7. CASE Asserts(r)
  <2>1. UNCHANGED <<cur, todo, reply>>
    BY <1>1, <1>6, <1>7
  <2> QED
    BY <1>2, <2>1, QuietStep
<1>8. CASE ~Asserts(r)
  <2>1. cur' = r /\ todo' = Handle(r).push /\ reply' = Handle(r).reply
    BY <1>1, <1>6, <1>8
  <2>2. AnswersTrue(Handle(r))
    <3>1. Ready(r) /\ Doomed = {}
      BY <1>2, <1>4, <1>5 DEF IInv, ReadyInv, Doomed
    <3>2. CASE r.cmd = "SHUTDOWN"
      <4>1. Handle(r) = Quick(0, Hole)
        BY <3>2 DEF Handle
      <4>2. Answer(0, 0, Hole)
        BY <1>5, <3>2 DEF Answer, Store!TrueAnswer
      <4> QED
        BY <4>1, <4>2, QuickIs
    <3>3. CASE r.cmd # "SHUTDOWN"
      <4>1. PICK p : p = r.inum
        OBVIOUS
      <4>2. Arrived(r, p)
        BY <1>4, <1>5, <3>1, <3>3, <4>1, RequestIs DEF Arrived, Ready
      <4>3. r.cmd = "LOOKUP" => Handle(r) = mfs_lookup(p, r.name)
        BY <4>1 DEF Handle
      <4>4. r.cmd = "STAT" => Handle(r) = mfs_stat(p)
        BY <4>1 DEF Handle
      <4>5. r.cmd = "READ" => Handle(r) = mfs_read(p, r.blk)
        BY <4>1 DEF Handle
      <4>6. r.cmd = "WRITE" => Handle(r) = mfs_write(p, r.blk, r.val)
        BY <4>1 DEF Handle
      <4>7. r.cmd = "CREAT" => Handle(r) = mfs_creat(p, r.type, r.name)
        BY <4>1 DEF Handle
      <4>8. r.cmd = "UNLINK" => Handle(r) = mfs_unlink(p, r.name)
        BY <4>1 DEF Handle
      <4>9. r.cmd \in {"LOOKUP", "UNLINK", "CREAT", "WRITE", "READ", "STAT"}
        BY <3>3, RequestIs
      <4>10. CASE r.cmd \in {"LOOKUP", "STAT", "READ"}
        BY <4>2, <4>3, <4>4, <4>5, <4>10, LookupAnswers, StatAnswers, ReadAnswers
      <4>11. CASE r.cmd \in {"WRITE", "CREAT", "UNLINK"}
        BY <4>2, <4>6, <4>7, <4>8, <4>11, WriteAnswers, CreatAnswers, UnlinkAnswers
      <4> QED
        BY <4>9, <4>10, <4>11
    <3> QED
      BY <3>2, <3>3
  <2>3. PICK h : h = Handle(r)
    OBVIOUS
  <2>4. PICK y : y = h.reply
    OBVIOUS
  <2>5. IF h.push = <<>> THEN TrueReply(y) ELSE y = Reply(0, 0, Hole)
    BY <2>2, <2>3, <2>4 DEF AnswersTrue
  <2>6. tree' = tree
    BY <1>2, SameTree DEF image
  <2>7. todo' = h.push /\ reply' = y
    BY <2>1, <2>3, <2>4
  <2>8. TrueReply(y) => TrueReply(reply)'
    <3>1. TrueReply(y) => TrueReply(y)'
      BY <1>2, <2>6, SameReply
    <3> QED
      BY <2>7, <3>1 DEF TrueReply, Answer, Store!TrueAnswer
  <2>9. reps' = <<>>
    BY <1>2, <1>4
  <2> QED
    BY <1>2, <2>5, <2>6, <2>7, <2>8, <2>9 DEF AnswersInv, StoreNext
<1> QED
  BY <1>7, <1>8

\* A pwrite does nothing to the tree, or what the call asks for.
LEMMA PushStores ==
  ASSUME Modest, IInv, IInv', Push
  PROVE  /\ todo' = <<>> => Answer(0, 0, Hole)'
         /\ tree' = tree \/ Store!Create \/ Store!Grow \/ Store!Store \/ Store!Remove
<1>1. PICK r \in Request, l \in {todo} :
        /\ r = cur /\ List(l)
        /\ Creating(r, l) \/ Writing(r, l) \/ Unlinking(r, l)
  BY Serving
<1>2. l = todo /\ todo' = Tail(l)
  BY <1>1 DEF Push
<1>3. TreeIs /\ TreeIs'
  BY TreeHolds, TreeHoldsThen
<1>4. CASE Creating(r, l)
  <2>1. PICK i \in Inum \ {0} : \/ MakeFile(r, i, l) \/ MarkDir(r, i, l) \/ MakeDir(r, i, l)
                               \/ ClearDir(r, i, l) \/ Enter(r, i, l)
    BY <1>4 DEF Creating
  <2>2. CASE MakeFile(r, i, l)
    <3>1. Tail(l) # <<>> /\ OnlyNameless(i)
      BY <1>1, <1>2, <1>4, <2>2, FilePush
    <3> QED
      BY <1>2, <1>3, <3>1, NamelessIs
  <2>3. CASE MarkDir(r, i, l)
    <3>1. Tail(l) # <<>> /\ UNCHANGED <<inodes, block>>
      BY <1>1, <1>2, <1>4, <2>3, MarkDirPush
    <3> QED
      BY <1>2, <3>1, SameTree
  <2>4. CASE MakeDir(r, i, l)
    <3>1. Tail(l) # <<>> /\ OnlyNameless(i)
      BY <1>1, <1>2, <1>4, <2>4, MakeDirPush
    <3> QED
      BY <1>2, <1>3, <3>1, NamelessIs
  <2>5. CASE ClearDir(r, i, l)
    <3>1. Tail(l) # <<>> /\ OnlyNameless(i)
      BY <1>1, <1>2, <1>4, <2>5, ClearDirPush
    <3> QED
      BY <1>2, <1>3, <3>1, NamelessIs
  <2>6. CASE Enter(r, i, l)
    <3>1. Store!Create /\ Answer(0, 0, Hole)'
      BY <1>1, <1>2, <1>4, <2>6, EnterCreates
    <3> QED
      BY <3>1
  <2> QED
    BY <2>1, <2>2, <2>3, <2>4, <2>5, <2>6
<1>5. CASE Writing(r, l)
  <2>1. PICK R \in {Missing(r)} : StoreBlock(r, l, R) \/ MarkBlock(r, l, R) \/ LinkBlock(r, l, R)
    BY <1>5 DEF Writing
  <2>2. R = Missing(r)
    BY <2>1
  <2>3. PICK t : t = Tail(l)
    OBVIOUS
  <2>4. CASE StoreBlock(r, l, R)
    <3>1. StoreBlock(r, l, Missing(r))
      BY <2>2, <2>4
    <3>2. Store!Store /\ Answer(0, 0, Hole)'
      BY <1>1, <1>2, <1>5, <3>1, StoreStores
    <3> QED
      BY <3>2
  <2>5. CASE MarkBlock(r, l, R)
    <3>1. Tail(l) # <<>> /\ UNCHANGED <<inodes, block>>
      BY <1>1, <1>2, <1>5, <2>2, <2>3, <2>5, MarkBlockPush
    <3> QED
      BY <1>2, <3>1, SameTree
  <2>6. CASE LinkBlock(r, l, R)
    <3>1. Store!Grow /\ Tail(l) # <<>>
      BY <1>1, <1>2, <1>5, <2>2, <2>6, LinkGrows
    <3> QED
      BY <1>2, <3>1
  <2> QED
    BY <2>1, <2>4, <2>5, <2>6
<1>6. CASE Unlinking(r, l)
  <2>1. PICK i : i = Entries(r.inum)[r.name]
    OBVIOUS
  <2>2. PICK t : t = Tail(l)
    OBVIOUS
  <2>3. Unmark(r, i, l) \/ Clear(r, i, l)
    BY <1>6, <2>1 DEF Unlinking
  <2>4. CASE Unmark(r, i, l) /\ Len(l) # 2
    <3>1. Tail(l) # <<>> /\ UNCHANGED <<inodes, block>>
      BY <1>1, <1>2, <1>6, <2>1, <2>2, <2>4, UnmarkPush
    <3> QED
      BY <1>2, <3>1, SameTree
  <2>5. CASE Unmark(r, i, l) /\ Len(l) = 2
    <3>1. Store!Remove /\ Tail(l) # <<>>
      BY <1>1, <1>2, <1>6, <2>1, <2>5, FreeRemoves
    <3> QED
      BY <1>2, <3>1
  <2>6. CASE Clear(r, i, l)
    <3>1. tree' = tree /\ Answer(0, 0, Hole)'
      BY <1>1, <1>2, <1>6, <2>1, <2>6, ClearStutters
    <3> QED
      BY <3>1
  <2> QED
    BY <2>3, <2>4, <2>5, <2>6
<1> QED
  BY <1>1, <1>4, <1>5, <1>6

\* So the answer is true when all are done.
LEMMA PushTells ==
  ASSUME Modest, IInv, IInv', AnswersInv, Push
  PROVE  AnswersInv' /\ StoreNext
<1>1. /\ todo # <<>> /\ UNCHANGED <<cur, reply, reps, call, answer>>
  BY DEF Push
<1>2. cur # NoCall /\ reps = <<>>
  BY <1>1 DEF IInv, OneFlight
<1>3. reply' = Reply(0, 0, Hole)
  BY <1>1, <1>2 DEF AnswersInv
<1>4. todo' = <<>> => TrueReply(reply)'
  <2>1. todo' = <<>> => Answer(0, 0, Hole)'
    BY PushStores
  <2>2. reply'.rc = 0 /\ reply'.size = 0 /\ reply'.val = Hole
    BY <1>3 DEF Reply
  <2>3. Answer(0, 0, Hole)' => TrueReply(reply)'
    BY <2>2 DEF TrueReply, Answer, Store!TrueAnswer
  <2> QED
    BY <2>1, <2>3
<1>5. AnswersInv'
  BY <1>1, <1>2, <1>3, <1>4 DEF AnswersInv
<1>6. StoreNext
  BY <1>1, PushStores DEF StoreNext, Store!Next
<1> QED
  BY <1>5, <1>6

\* Every step.
LEMMA EveryStores ==
  ASSUME Modest, IInv, IInv', AnswersInv, [Next]_vars
  PROVE  AnswersInv' /\ StoreNext
<1>1. ASSUME NEW r \in Request, Call(r) PROVE AnswersInv' /\ StoreNext
  BY <1>1, CallBegins
<1>2. CASE Take
  BY <1>2, TakeReturns
<1>3. CASE Timeout \/ Lose \/ Crash \/ Restart
  BY <1>3, OtherSteps
<1>4. CASE Respond
  BY <1>4, RespondTells
<1>5. CASE Receive
  BY <1>5, ReceiveTells
<1>6. CASE Push
  BY <1>6, PushTells
<1>7. CASE UNCHANGED vars
  BY <1>7, QuietStep DEF vars, server
<1> QED
  BY <1>1, <1>2, <1>3, <1>4, <1>5, <1>6, <1>7 DEF Next

\* The tree of a new image is a root without names.
LEMMA InitStores == ASSUME Modest, Init PROVE AnswersInv /\ Store!Init
<1>1. /\ inodes = [i \in Inum |->
            IF i = 0 THEN [type |-> Directory, size |-> 1,
                           addrs |-> [k \in Addr |-> IF k = 0 THEN 0 ELSE NoBlock]]
            ELSE [type |-> 0, size |-> 0, addrs |-> [k \in Addr |-> Header]]]
      /\ block = [b \in Block |-> IF b = 0 THEN EmptyDir ELSE Zero]
      /\ cur = NoCall /\ reps = <<>> /\ call = NoCall /\ answer.call = NoCall
  BY DEF Init
<1>2. AnswersInv
  BY <1>1 DEF AnswersInv
<1>3. TreeIs
  BY InitIInv, TreeHolds
<1>4. IsType(0, Directory) /\ \A i \in Inum \ {0} : IsType(i, 0)
  BY <1>1, Blocks DEF IsType
<1>5. ~IsType(0, 0)
  BY <1>4 DEF IsType, Directory
<1>6. Entries(0) = EmptyDir
  <2>1. inodes[0].addrs[0] = 0
    BY <1>1, Blocks
  <2> QED
    BY <1>1, <2>1, Blocks DEF Entries
<1>7. Dirents(0) = [n \in Name |-> NoInum]
  BY <1>6 DEF Dirents, EmptyDir
<1>8. Node(0) = Store!EmptyDir
  BY <1>4, <1>5, <1>7 DEF Node, InTree, Store!EmptyDir
<1>9. \A i \in Inum \ {0} : Node(i) = Free
  BY <1>4 DEF Node, InTree
<1>10. tree = [i \in Inum |-> IF i = 0 THEN Store!EmptyDir ELSE Free]
  BY <1>3, <1>8, <1>9 DEF TreeIs
<1> QED
  BY <1>1, <1>2, <1>10 DEF Store!Init

\* The server, its client and the network between them implement the abstract file
\* store: a call takes effect at most once, whatever is lost, sent again or cut off
\* by a crash of a creation or a write (server.c worker(), mfs.c send_request()), and
\* what it returns is true.
THEOREM StoreIsImplemented == ASSUME Modest PROVE Spec => ImplementsStore
<1>1. Init => IInv /\ AnswersInv /\ Store!Init
  BY InitIInv, InitStores
<1>2. IInv /\ [Next]_vars => IInv'
  BY NextStep
<1>3. IInv /\ IInv' /\ AnswersInv /\ [Next]_vars => AnswersInv' /\ [Store!Next]_<<tree, call, answer>>
  BY EveryStores DEF StoreNext
<1> QED
  BY <1>1, <1>2, <1>3, PTL DEF Spec, ImplementsStore, Store!Spec
=============================================================================
