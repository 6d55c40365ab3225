---------------------------- MODULE FsDiskProofs ----------------------------
(***************************************************************************)
(* The file system of orderly programs is sound, for any number of         *)
(* processes, inodes and blocks and for all trees and calls.  Second part: *)
(* the steps that change links and counts, what the invariant is for, and  *)
(* the promise of module NameSpace, kept step by step.                     *)
(***************************************************************************)
EXTENDS FsInodeProofs

-----------------------------------------------------------------------------
(* Steps that write an inode p has locked, or locks *)

\* A step that writes the copy of an inode to the disk.
LEMMA Flushed ==
  ASSUME DInv, IInv', NEW p \in Process, Others(p),
         programs' = programs, bitmap' = bitmap, dirent' = dirent,
         NEW j \in Inum, Uses(cwd[p], file[p], t[p], j), icache[j].busy \in {p, NoProcess},
         NEW a, iupdate(j, a), SameCopy(a, icache'[j]), icache'[j].ref > 0, icache'[j].valid,
         icache'[j].addr = Addr(j), icache'[j].type = dinode[j].type,
         \A i \in Inum \ {j} : /\ Kept(i) /\ (Mem(i) => icache'[i].ref > 0 /\ icache'[i].valid)
                               /\ ~Freed(t[p], i) /\ ~Ahead(file[p], t[p], i),
         \A i \in Inum : Held(p, i),
         t'[p].pc \in {"uplink", "balloc", "dots", "name", "downlink"} => t'[p].ip # t'[p].dp,
         \A i \in Inum : Uses(cwd'[p], file'[p], t'[p], i) <=> Uses(cwd[p], file[p], t[p], i),
         \A i \in Inum : Loaded(p, i),
         \A i \in Inum : Owned(p, i),
         \A i \in Inum : Unbuilt(t[p], i) => Unbuilt(t'[p], i) \/ Addr(i) # None
                                               \/ dinode[i].type # "dir",
         \A i \in Inum : Building(t[p], i) => Building(t'[p], i),
         t'[p].pc # "downlink",
         \A i \in Inum : Counting(p, i),
         CallSound(p)',
         t[p].pc \in {"iget", "fresh"} => t[p].ip = j
  PROVE  DInv' /\ SameTree
<1>1. IInv /\ LockInv
  BY DEF DInv
<1>2. LockInv'
  BY <1>1, LocksKept DEF Held
<1>3. /\ CopyInv'
      /\ \A i \in Inum : dinode'[i].type = dinode[i].type /\ Addr(i)' = Addr(i)
      /\ \A i \in Inum \ {j} : SameCopy(dinode'[i], dinode[i]) /\ Kept(i)
  BY Flushes
<1>4. \A i \in Inum : Released(p, i)
  BY DEF Released
<1> DEFINE J == {j}
<1>5. /\ J \in SUBSET Inum
      /\ \A i \in J : Uses(cwd[p], file[p], t[p], i) /\ icache[i].busy \in {p, NoProcess}
      /\ \A i \in Inum \ J : SameCopy(dinode'[i], dinode[i]) /\ Kept(i)
      /\ t[p].pc \in {"iget", "fresh"} => t[p].ip \in J
  BY <1>3
<1> HIDE DEF J
<1> QED
  BY <1>2, <1>3, <1>4, <1>5, Level

\* What p has locked is in memory as it counts on the disk.
LEMMA Counted1 ==
  ASSUME DInv, NEW p \in Process, NEW j \in Inum, Keeps(file[p], t[p], j), ~Freed(t[p], j)
  PROVE  /\ Mem(j) /\ Addr(j) = icache[j].addr /\ icache[j].busy = p
         /\ icache[j].type = dinode[j].type /\ icache[j].nlink = dinode[j].nlink
<1>1. Mem(j) /\ icache[j].busy = p
  BY OneKeeper DEF DInv
<1>2. \A q \in Process : ~Freed(t[q], j)
  <2>1. SUFFICES ASSUME NEW q \in Process, Freed(t[q], j) PROVE q = p
    OBVIOUS
  <2>2. Keeps(file[q], t[q], j)
    BY <2>1, OneKeeper DEF DInv
  <2> QED
    BY <2>2, OneKeeper DEF DInv
<1> QED
  BY <1>1, <1>2 DEF DInv, CopyInv, CopyAt, Addr, Mem

\* A call that has made its last link or removed it.
LEMMA EndingCall ==
  ASSUME NEW p \in Process, t'[p].pc = "iput", Label(t'[p]) \in {"unlinked", "created", "ret"},
         t'[p].dp = None, dinode'[cwd'[p]].type = "dir"
  PROVE  CallSound(p)'
<1>1. t'[p].pc \notin FreshPc \cup EndPc \cup {"create", "unlink", "enter", "downlink", "grow",
                                                "ialloc", "victim", "dots", "name"}
  BY DEF FreshPc, EndPc
<1>2. Label(t'[p]) \notin {"walk", "enter", "bad"} \cup LookPc
  BY DEF LookPc, FreshPc
<1>3. Typing(p)'
  BY <1>1, <1>2 DEF Typing
<1>4. Ending(p)'
  BY <1>1 DEF Ending
<1>5. Making(p)'
  BY <1>1 DEF Making, FreshPc, Made
<1>6. Going(p)'
  BY <1>1, <1>2 DEF Going
<1> QED
  BY <1>3, <1>4, <1>5, <1>6 DEF CallSound

\* create() sets up its new inode.
LEMMA FreshDInv ==
  ASSUME DInv, NEW p \in Process, IInv', Fresh(p)
  PROVE  DInv' /\ SameTree
<1> DEFINE r == t[p]
           s == t'[p]
           j == r.ip
           c == ilock(icache, j, p)
           one == 1
<1>1. /\ r.pc = "fresh" /\ r.pc \in FreshPc /\ At(p, "fresh")
      /\ icache' = [c EXCEPT ![j].nlink = 1]
      /\ iupdate(j, icache'[j])
      /\ Set(p, [pc |-> IF r.job.op = "mkdir" THEN "uplink" ELSE "name"])
      /\ UNCHANGED <<bitmap, dirent, cwd, file, calls, programs>>
  BY DEF Fresh, Still, FreshPc, At
<1>2. /\ r.pc \in DpPc /\ j \in Inum /\ Sole(r, j) /\ j # r.dp
      /\ Uses(cwd[p], file[p], r, j) /\ icache[j].ref > 0
      /\ dinode[j].type = IF r.job.op = "mkdir" THEN "dir" ELSE "file"
  BY <1>1, Makes
<1>3. /\ IInv /\ CallSound(p) /\ Label(r) = r.pc /\ r.dp \in Inum
      /\ First(r) = None /\ Second(r) = None /\ cwd[p] \in Inum
      /\ Mem(r.dp) /\ dinode[r.dp].type = "dir"
  BY <1>2, Holds
<1>4. icache[j].busy = NoProcess
  <2>1. Wanted(p) = j
    BY <1>1 DEF Wanted, Waits
  <2> QED
    BY <1>1, <1>2, <2>1 DEF At, Inum, None
<1>5. /\ Locked(j).type = dinode[j].type /\ Locked(j).nlink = dinode[j].nlink
      /\ Locked(j).addr = Addr(j) /\ Addr(j) = dinode[j].addr
  BY <1>2, <1>3, <1>4, Seen DEF DInv
<1>6. dinode[j].nlink = 0 /\ dinode[j].addr = None
  BY <1>1, <1>3 DEF CallSound, Making
<1> HIDE DEF j
<1>7. ASSUME NEW i \in Inum
      PROVE  /\ icache'[i].ref = icache[i].ref
             /\ icache'[i].busy = IF j = i THEN p ELSE icache[i].busy
             /\ i = j => /\ icache'[i].valid /\ icache'[i].nlink = 1
                         /\ icache'[i].type = dinode[j].type /\ icache'[i].addr = Addr(j)
             /\ i # j => icache'[i].valid = icache[i].valid /\ SameCopy(icache'[i], icache[i])
  <2>1. TypeOK /\ CacheTyped(icache)
    BY <1>3 DEF IInv
  <2>2. CacheTyped(c)
    BY <1>2, <1>3, <2>1, CacheLock
  <2>3. /\ c[i].ref = icache[i].ref /\ c[i].busy = IF j = i THEN p ELSE icache[i].busy
        /\ j = i => c[i].valid
        /\ j # i => c[i].valid = icache[i].valid
        /\ j # i => SameCopy(c[i], icache[i])
        /\ icache[i].valid => SameCopy(c[i], icache[i])
        /\ j = i /\ ~icache[i].valid => SameCopy(c[i], dinode[i])
    BY <1>2, <2>1, LockIs
  <2>4. j = i => c[i].type = dinode[j].type /\ c[i].addr = Addr(j)
    BY <1>2, <1>5, <2>1, <2>3, LockedIs DEF SameCopy
  <2>5. icache' = SetNlink(c, j, one)
    BY <1>1 DEF SetNlink
  <2> HIDE DEF c, one
  <2>6. /\ icache'[i].type = c[i].type /\ icache'[i].addr = c[i].addr
        /\ icache'[i].ref = c[i].ref
        /\ icache'[i].valid = c[i].valid /\ icache'[i].busy = c[i].busy
        /\ icache'[i].nlink = IF j = i THEN one ELSE c[i].nlink
    BY <1>2, <2>2, <2>5, NlinkIs
  <2> QED
    BY <2>3, <2>4, <2>6 DEF SameCopy, one
<1> HIDE DEF c, one
<1>8. /\ \A q \in Process \ {p} : t'[q] = t[q]
      /\ s.pc = (IF r.job.op = "mkdir" THEN "uplink" ELSE "name") /\ Label(s) = s.pc
      /\ First(s) = First(r) /\ Second(s) = Second(r)
      /\ s.at = r.at /\ s.dp = r.dp /\ s.ip = r.ip /\ s.job = r.job /\ s.path = r.path
  <2> DEFINE l == IF r.job.op = "mkdir" THEN "uplink" ELSE "name"
  <2>1. Set(p, [pc |-> l]) /\ l \notin PutPc /\ r.pc \notin PutPc
    BY <1>1 DEF PutPc
  <2>0. l = IF r.job.op = "mkdir" THEN "uplink" ELSE "name"
    OBVIOUS
  <2> HIDE DEF l
  <2>2. /\ \A q \in Process \ {p} : t'[q] = t[q]
        /\ s.pc = l /\ Label(s) = l
        /\ First(s) = None /\ Second(s) = None
        /\ s.at = r.at /\ s.dp = r.dp /\ s.ip = r.ip /\ s.job = r.job /\ s.path = r.path
    BY <1>3, <2>1, Goes
  <2>3. s.pc = IF r.job.op = "mkdir" THEN "uplink" ELSE "name"
    BY <2>0, <2>2
  <2>4. Label(s) = s.pc /\ First(s) = First(r) /\ Second(s) = Second(r)
    BY <1>3, <2>2
  <2> QED
    BY <2>2, <2>3, <2>4
<1>9. ASSUME NEW i \in Inum
      PROVE  /\ i = j => SameCopy(dinode'[i], icache'[j])
             /\ i # j => SameCopy(dinode'[i], dinode[i])
  <2>1. iupdate(j, icache'[j]) /\ IInv
    BY <1>1, <1>3 DEF j
  <2> QED
    BY <1>2, <2>1, UpdateIs
<1>10. ASSUME NEW i \in Inum
       PROVE  /\ Uses(cwd'[p], file'[p], s, i) <=> Uses(cwd[p], file[p], r, i)
              /\ Else(cwd'[p], file'[p], s, i) <=> Else(cwd[p], file[p], r, i)
              /\ Sole(s, i) <=> Sole(r, i)
  BY <1>1, <1>8 DEF Uses, Else, Sole, FreshPc
<1>11. ASSUME NEW i \in Inum
       PROVE  /\ ~Freed(r, i) /\ ~Ahead(file[p], r, i)
              /\ Keeps(file[p], r, i) <=> i = r.dp
              /\ Keeps(file'[p], s, i) <=> i = r.dp \/ i = j
              /\ Unbuilt(r, i) => Unbuilt(s, i) \/ dinode[i].type # "dir"
              /\ Building(s, i) <=> Building(r, i)
              /\ ~PendIp(r, i) /\ (PendIp(s, i) <=> i = j)
              /\ ~PendDp(s, i) /\ ~PendDp(r, i)
  <2>1. ~Freed(r, i) /\ ~Ahead(file[p], r, i) /\ ~PendIp(r, i) /\ ~PendDp(r, i)
        /\ (PendIp(s, i) <=> i = j) /\ ~PendDp(s, i)
    BY <1>1, <1>3, <1>8 DEF Freed, Ahead, PendIp, PendDp, DueIp, j
  <2>2. /\ Keeps(file[p], r, i) <=> i = r.dp
        /\ Keeps(file'[p], s, i) <=> i = r.dp \/ i = j
    BY <1>1, <1>2, <1>3, <1>8 DEF Keeps, OwnPc, EndPc, DpPc, j
  <2>3. /\ Unbuilt(r, i) => Unbuilt(s, i) \/ dinode[i].type # "dir"
        /\ Building(s, i) <=> Building(r, i)
    BY <1>1, <1>2, <1>8 DEF Unbuilt, Building, FreshPc, j
  <2> QED
    BY <2>1, <2>2, <2>3
<1>12. ASSUME NEW i \in Inum PROVE Held(p, i)
  <2>1. icache'[i].busy # NoProcess => icache'[i].valid
    BY <1>3, <1>7 DEF DInv, LockInv
  <2> QED
    BY <1>4, <1>7, <1>11, <2>1 DEF Held
<1>13. ASSUME NEW i \in Inum \ {j}
       PROVE  /\ Kept(i) /\ (Mem(i) => icache'[i].ref > 0 /\ icache'[i].valid)
              /\ ~Freed(r, i) /\ ~Ahead(file[p], r, i)
  BY <1>7, <1>11 DEF Kept, Mem, SameCopy
<1>14. ASSUME NEW i \in Inum PROVE Loaded(p, i) /\ Owned(p, i)
  <2>1. Loaded(p, i)
    <3>1. CASE i = j
      BY <1>7, <1>9, <3>1 DEF Loaded, SameCopy
    <3>2. CASE i # j
      BY <1>7, <1>9, <3>2 DEF Loaded, j
    <3> QED
      BY <3>1, <3>2
  <2>2. Owned(p, i)
    BY <1>1, <1>10 DEF Owned, DInv, SoleInv
  <2> QED
    BY <2>1, <2>2
<1>15. ASSUME NEW i \in Inum PROVE Counting(p, i)
  <2>1. dinode[i].nlink \in Int
    BY <1>3 DEF IInv, TypeOK
  <2>2. i = j => dinode'[i].nlink = 1 /\ dinode[i].nlink = 0
    BY <1>6, <1>7, <1>9 DEF SameCopy, j
  <2>3. i # j => dinode'[i].nlink = dinode[i].nlink
    BY <1>9 DEF SameCopy
  <2> QED
    BY <1>11, <2>1, <2>2, <2>3 DEF Counting, One
<1>16. CallSound(p)'
  <2>1. Typing(p) /\ Making(p)
    BY <1>3 DEF CallSound
  <2>2. \A i \in Inum : dinode'[i].type = dinode[i].type
    BY <1>7, <1>9 DEF SameCopy
  <2>3. Typing(p)'
    BY <1>1, <1>2, <1>3, <1>8, <2>1, <2>2 DEF Typing, FreshPc, j
  <2>4. Ending(p)'
    BY <1>8 DEF Ending, EndPc
  <2>5. Making(p)'
    <3>1. dinode'[j].nlink = 1 /\ dinode'[j].addr = None
      BY <1>2, <1>5, <1>6, <1>7, <1>9 DEF SameCopy, j
    <3>2. ~Made(s) /\ s.pc \in {"uplink", "name"} /\ s.ip = j
      BY <1>8 DEF Made, j
    <3> HIDE DEF s, r
    <3> QED
      BY <1>8, <3>1, <3>2 DEF Making, s
  <2>6. Going(p)'
    <3>1. ASSUME NEW i \in Inum, i = r.dp PROVE Addr(i)' = Addr(i)
      <4>1. i # j
        BY <1>2, <3>1 DEF j
      <4>2. SameCopy(dinode'[i], dinode[i]) /\ Kept(i)
            /\ (Mem(i) => icache'[i].ref > 0 /\ icache'[i].valid)
        BY <1>9, <1>13, <4>1
      <4> QED
        BY <4>2, AddrSame
    <3> QED
      BY <1>1, <1>8, <3>1, GoingOn DEF FreshPc
  <2> QED
    BY <2>3, <2>4, <2>5, <2>6 DEF CallSound
<1>17. Others(p)
  BY <1>1, <1>8 DEF Others
<1>18. /\ SameCopy(icache'[j], icache'[j]) /\ icache'[j].ref > 0 /\ icache'[j].valid
       /\ icache'[j].addr = Addr(j) /\ icache'[j].type = dinode[j].type
       /\ Uses(cwd[p], file[p], r, j) /\ r.ip = j
       /\ s.ip # s.dp /\ s.pc # "downlink"
  BY <1>2, <1>7, <1>8 DEF SameCopy, j
<1> HIDE DEF r, s
<1> QED
  BY <1>1, <1>2, <1>4, <1>10, <1>11, <1>12, <1>13, <1>14, <1>15, <1>16, <1>17, <1>18, Flushed
     DEF r, s

\* mkdir counts the new directory's ..
LEMMA UplinkDInv ==
  ASSUME DInv, NEW p \in Process, IInv', Uplink(p)
  PROVE  DInv' /\ SameTree
<1> DEFINE r == t[p]
           s == t'[p]
           j == r.dp
           n == icache[j].nlink + 1
<1>1. /\ r.pc = "uplink" /\ r.pc \in FreshPc
      /\ icache' = [icache EXCEPT ![j].nlink = @ + 1]
      /\ iupdate(j, icache'[j])
      /\ Set(p, [pc |-> "balloc"])
      /\ UNCHANGED <<bitmap, dirent, cwd, file, calls, programs>>
  BY DEF Uplink, Still, FreshPc
<1>2. /\ r.pc \in DpPc /\ r.ip \in Inum /\ Sole(r, r.ip) /\ j # r.ip
      /\ dinode[r.ip].type = IF r.job.op = "mkdir" THEN "dir" ELSE "file"
  BY <1>1, Makes
<1>3. /\ IInv /\ CallSound(p) /\ Label(r) = r.pc /\ j \in Inum
      /\ First(r) = None /\ Second(r) = None /\ cwd[p] \in Inum
      /\ Mem(j) /\ dinode[j].type = "dir" /\ icache[j].busy = p
      /\ Uses(cwd[p], file[p], r, j) /\ Keeps(file[p], r, j)
  BY <1>2, Holds
<1>5. icache[j].type = dinode[j].type /\ icache[j].nlink = dinode[j].nlink
      /\ icache[j].addr = Addr(j)
  <2>1. ~Freed(r, j)
    BY <1>1 DEF Freed
  <2> QED
    BY <1>3, <2>1, Counted1
<1>6. r.job.op = "mkdir"
  BY <1>1, <1>3 DEF CallSound, Making
<1> HIDE DEF j
<1>7. ASSUME NEW i \in Inum
      PROVE  /\ icache'[i].ref = icache[i].ref
             /\ icache'[i].busy = icache[i].busy /\ icache'[i].valid = icache[i].valid
             /\ icache'[i].type = icache[i].type /\ icache'[i].addr = icache[i].addr
             /\ icache'[i].nlink = IF j = i THEN n ELSE icache[i].nlink
  <2>1. CacheTyped(icache)
    BY <1>3 DEF IInv
  <2>2. icache' = SetNlink(icache, j, n)
    BY <1>1 DEF SetNlink
  <2> HIDE DEF n
  <2> QED
    BY <1>3, <2>1, <2>2, NlinkIs
<1>8. /\ \A q \in Process \ {p} : t'[q] = t[q]
      /\ s.pc = "balloc" /\ Label(s) = s.pc
      /\ First(s) = First(r) /\ Second(s) = Second(r)
      /\ s.at = r.at /\ s.dp = r.dp /\ s.ip = r.ip /\ s.job = r.job /\ s.path = r.path
  BY <1>1, <1>3, Goes DEF PutPc
<1>9. ASSUME NEW i \in Inum
      PROVE  /\ i = j => SameCopy(dinode'[i], icache'[j])
             /\ i # j => SameCopy(dinode'[i], dinode[i])
  BY <1>1, <1>3, UpdateIs
<1>10. ASSUME NEW i \in Inum
       PROVE  /\ Uses(cwd'[p], file'[p], s, i) <=> Uses(cwd[p], file[p], r, i)
              /\ Else(cwd'[p], file'[p], s, i) <=> Else(cwd[p], file[p], r, i)
              /\ Sole(s, i) <=> Sole(r, i)
  BY <1>1, <1>8 DEF Uses, Else, Sole, FreshPc
<1>11. ASSUME NEW i \in Inum
       PROVE  /\ ~Freed(r, i) /\ ~Ahead(file[p], r, i)
              /\ Keeps(file[p], r, i) <=> Keeps(file'[p], s, i)
              /\ Unbuilt(r, i) <=> Unbuilt(s, i)
              /\ Building(s, i) <=> Building(r, i)
              /\ PendIp(r, i) <=> PendIp(s, i)
              /\ PendDp(s, i) <=> i = j
              /\ ~PendDp(r, i)
  <2>1. ~Freed(r, i) /\ ~Ahead(file[p], r, i) /\ (PendIp(r, i) <=> PendIp(s, i)) /\ ~PendDp(r, i)
        /\ (PendDp(s, i) <=> i = j)
    BY <1>1, <1>3, <1>6, <1>8 DEF Freed, Ahead, PendIp, PendDp, DueIp, j
  <2>2. Keeps(file[p], r, i) <=> Keeps(file'[p], s, i)
    BY <1>1, <1>2, <1>3, <1>8 DEF Keeps, OwnPc, EndPc, DpPc
  <2>3. /\ Unbuilt(r, i) <=> Unbuilt(s, i)
        /\ Building(s, i) <=> Building(r, i)
    BY <1>1, <1>8 DEF Unbuilt, Building, FreshPc
  <2> QED
    BY <2>1, <2>2, <2>3
<1>12. ASSUME NEW i \in Inum PROVE Held(p, i)
  BY <1>7, <1>11 DEF Held, DInv, LockInv
<1>13. ASSUME NEW i \in Inum \ {j}
       PROVE  /\ Kept(i) /\ (Mem(i) => icache'[i].ref > 0 /\ icache'[i].valid)
              /\ ~Freed(r, i) /\ ~Ahead(file[p], r, i)
  BY <1>7, <1>11 DEF Kept, Mem, SameCopy
<1>14. ASSUME NEW i \in Inum PROVE Loaded(p, i) /\ Owned(p, i)
  <2>1. Loaded(p, i)
    <3>1. CASE i = j
      BY <1>3, <1>7, <3>1 DEF Loaded, Mem
    <3>2. CASE i # j
      BY <1>1, <1>7, <1>9, <3>2 DEF Loaded
    <3> QED
      BY <3>1, <3>2
  <2>2. Owned(p, i)
    BY <1>1, <1>10 DEF Owned, DInv, SoleInv
  <2> QED
    BY <2>1, <2>2
<1>15. ASSUME NEW i \in Inum PROVE Counting(p, i)
  <2>1. dinode[i].nlink \in Int
    BY <1>3 DEF IInv, TypeOK
  <2>2. i = j => dinode'[i].nlink = dinode[i].nlink + 1
    BY <1>5, <1>7, <1>9 DEF SameCopy
  <2>3. i # j => dinode'[i].nlink = dinode[i].nlink
    BY <1>9 DEF SameCopy
  <2> QED
    BY <1>11, <2>1, <2>2, <2>3 DEF Counting, One
<1>16. CallSound(p)'
  <2>1. Typing(p) /\ Making(p)
    BY <1>3 DEF CallSound
  <2>2. \A i \in Inum : dinode'[i].type = dinode[i].type
    BY <1>5, <1>7, <1>9 DEF SameCopy
  <2>3. Typing(p)'
    BY <1>1, <1>2, <1>3, <1>8, <2>1, <2>2 DEF Typing, FreshPc, j
  <2>4. Ending(p)'
    BY <1>8 DEF Ending, EndPc
  <2>5. Making(p)'
    <3>1. dinode'[r.ip].nlink = 1 /\ dinode'[r.ip].addr = None
      <4>1. dinode[r.ip].nlink = 1 /\ dinode[r.ip].addr = None
        BY <1>1, <2>1 DEF Making
      <4> QED
        BY <1>2, <1>9, <4>1 DEF SameCopy
    <3> HIDE DEF r
    <3> QED
      BY <1>6, <1>8, <3>1 DEF Making, Made, r
  <2>6. Going(p)'
    <3>1. ASSUME NEW i \in Inum PROVE Addr(i)' = Addr(i)
      <4>1. CASE i = j
        BY <1>3, <1>5, <1>7, <4>1 DEF Addr, Mem
      <4>2. CASE i # j
        BY <1>7, <1>9, <1>13, <4>2, AddrSame DEF Mem
      <4> QED
        BY <4>1, <4>2
    <3> QED
      BY <1>1, <1>8, <3>1, GoingOn DEF FreshPc
  <2> QED
    BY <2>3, <2>4, <2>5, <2>6 DEF CallSound
<1>17. Others(p)
  BY <1>1, <1>8 DEF Others
<1>18. /\ SameCopy(icache'[j], icache'[j]) /\ icache'[j].ref > 0 /\ icache'[j].valid
       /\ icache'[j].addr = Addr(j) /\ icache'[j].type = dinode[j].type
       /\ s.ip # s.dp /\ s.pc # "downlink" /\ r.pc \notin {"iget", "fresh"}
  <2>1. SameCopy(icache'[j], icache'[j])
    BY DEF SameCopy
  <2>2. /\ icache'[j].ref = icache[j].ref /\ icache'[j].valid = icache[j].valid
        /\ icache'[j].addr = icache[j].addr /\ icache'[j].type = icache[j].type
    BY <1>3, <1>7
  <2>3. Mem(j)
    BY <1>3
  <2>4. Addr(j) = icache[j].addr /\ icache[j].type = dinode[j].type
    BY <1>5
  <2>5. s.pc # "downlink" /\ r.pc \notin {"iget", "fresh"}
    BY <1>1, <1>8
  <2>6. s.ip # s.dp
    BY <1>2, <1>8 DEF j
  <2>7. icache[j].ref > 0 /\ icache[j].valid
    BY <2>3 DEF Mem
  <2> HIDE DEF r, s
  <2> QED
    BY <2>1, <2>2, <2>4, <2>5, <2>6, <2>7
<1> HIDE DEF r, s
<1> QED
  BY <1>1, <1>3, <1>10, <1>11, <1>12, <1>13, <1>14, <1>15, <1>16, <1>17, <1>18, Flushed
     DEF r, s

-----------------------------------------------------------------------------
\* nlink-- and iunlock.
Drop(c, j) == [c EXCEPT ![j].nlink = @ - 1, ![j].busy = NoProcess]
\* nlink-- and iunlock() of an entry.
LEMMA DropIs ==
  ASSUME NEW c, CacheTyped(c), NEW j \in Inum, NEW i \in Inum
  PROVE  /\ Drop(c, j)[i].ref = c[i].ref /\ Drop(c, j)[i].valid = c[i].valid
         /\ Drop(c, j)[i].busy = IF j = i THEN NoProcess ELSE c[i].busy
         /\ Drop(c, j)[i].type = c[i].type /\ Drop(c, j)[i].addr = c[i].addr
         /\ Drop(c, j)[i].nlink = IF j = i THEN c[j].nlink - 1 ELSE c[i].nlink
<1> DEFINE n == c[j].nlink - 1
           e == [c[j] EXCEPT !.nlink = n]
           g == [e EXCEPT !.busy = NoProcess]
<1>1. SlotTyped(c[j]) /\ c = [x \in Inum |-> c[x]]
  BY DEF CacheTyped

<1>2. /\ e = [f \in SlotFields |-> e[f]]
      /\ e.ref = c[j].ref /\ e.valid = c[j].valid /\ e.type = c[j].type /\ e.addr = c[j].addr
      /\ e.nlink = n
  BY <1>1 DEF SlotTyped, SlotFields
<1> HIDE DEF e
<1>3. /\ g.ref = e.ref /\ g.valid = e.valid /\ g.type = e.type /\ g.addr = e.addr
      /\ g.nlink = e.nlink /\ g.busy = NoProcess
  BY <1>2 DEF SlotFields
<1> HIDE DEF g
<1>4. Drop(c, j)[i] = IF j = i THEN g ELSE c[i]
  BY <1>1 DEF g, e, n, Drop
<1> QED
  BY <1>2, <1>3, <1>4 DEF n

\* unlink of a directory takes the .. of it from the count.
LEMMA DownlinkDInv ==
  ASSUME DInv, NEW p \in Process, IInv', Downlink(p)
  PROVE  DInv' /\ SameTree
<1> DEFINE r == t[p]
           s == t'[p]
           j == r.dp
           n == icache[j].nlink - 1
<1>1. /\ r.pc = "downlink" /\ r.pc \in DpPc
      /\ icache' = [icache EXCEPT ![j].nlink = @ - 1, ![j].busy = NoProcess]
      /\ iupdate(j, icache'[j])
      /\ Puts(p, <<j>>, "unlinked", [dp |-> None])
      /\ UNCHANGED <<bitmap, dirent, cwd, file, calls, programs>>
  BY DEF Downlink, Still, DpPc
<1>2. /\ IInv /\ CallSound(p) /\ Label(r) = r.pc /\ j \in Inum /\ r.ip \in Inum /\ r.at = None
      /\ First(r) = None /\ Second(r) = None /\ cwd[p] \in Inum
      /\ Mem(j) /\ dinode[j].type = "dir" /\ icache[j].busy = p
      /\ Uses(cwd[p], file[p], r, j) /\ Keeps(file[p], r, j)
  BY <1>1, Holds
<1>3. r.ip # j
  BY <1>1 DEF DInv, LockInv
<1>4. icache[j].type = dinode[j].type /\ icache[j].nlink = dinode[j].nlink
      /\ icache[j].addr = Addr(j)
  <2>1. ~Freed(r, j)
    BY <1>1 DEF Freed
  <2> QED
    BY <1>2, <2>1, Counted1
<1> HIDE DEF j
<1>5. ASSUME NEW i \in Inum
      PROVE  /\ icache'[i].ref = icache[i].ref
             /\ icache'[i].busy = IF j = i THEN NoProcess ELSE icache[i].busy
             /\ icache'[i].valid = icache[i].valid
             /\ icache'[i].type = icache[i].type /\ icache'[i].addr = icache[i].addr
             /\ icache'[i].nlink = IF j = i THEN n ELSE icache[i].nlink
  <2>1. CacheTyped(icache) /\ icache[j].nlink \in Int
    BY <1>2 DEF IInv, CacheTyped, SlotTyped
  <2>2. icache' = Drop(icache, j)
    BY <1>1 DEF Drop
  <2> QED
    BY <1>2, <2>1, <2>2, DropIs

<1>6. /\ \A q \in Process \ {p} : t'[q] = t[q]
      /\ s.pc = "iput" /\ Label(s) = "unlinked"
      /\ First(s) = j /\ Second(s) = None
      /\ s.at = None /\ s.dp = None /\ s.ip = r.ip
  BY <1>1, <1>2, GivesOne DEF PutPc, ThenPc
<1>7. ASSUME NEW i \in Inum
      PROVE  /\ i = j => SameCopy(dinode'[i], icache'[j])
             /\ i # j => SameCopy(dinode'[i], dinode[i])
  BY <1>1, <1>2, UpdateIs
<1>8. ASSUME NEW i \in Inum
      PROVE  Uses(cwd'[p], file'[p], s, i) <=> Uses(cwd[p], file[p], r, i)
  <2>1. Uses(cwd[p], file[p], r, i) <=>
            \/ cwd[p] = i \/ file[p] = i \/ r.at = i \/ r.dp = i \/ r.ip = i
            \/ First(r) = i \/ Second(r) = i
    BY <1>1, PlainUses DEF FreshPc
  <2>2. Uses(cwd'[p], file'[p], s, i) <=>
            \/ cwd'[p] = i \/ file'[p] = i \/ s.at = i \/ s.dp = i \/ s.ip = i
            \/ First(s) = i \/ Second(s) = i
    BY <1>6, PlainUses DEF FreshPc
  <2>3. i # None
    BY DEF Inum, None
  <2> HIDE DEF r, s
  <2> QED
    BY <1>1, <1>2, <1>6, <2>1, <2>2, <2>3 DEF j
<1>9. ASSUME NEW i \in Inum
      PROVE  /\ ~Freed(r, i) /\ ~Ahead(file[p], r, i)
             /\ Keeps(file[p], r, i) <=> i = j \/ i = r.ip
             /\ Keeps(file'[p], s, i) <=> i = r.ip
             /\ ~Unbuilt(r, i) /\ ~Building(r, i) /\ ~Sole(s, i)
             /\ PendIp(r, i) <=> PendIp(s, i)
             /\ ~PendDp(s, i) /\ (PendDp(r, i) <=> i = j)
  <2>1. ~Freed(r, i) /\ ~Ahead(file[p], r, i) /\ (PendIp(r, i) <=> PendIp(s, i)) /\ ~PendDp(s, i)
        /\ (PendDp(r, i) <=> i = j)
    BY <1>1, <1>2, <1>6 DEF Freed, Ahead, PendIp, PendDp, DueIp, j
  <2>2. Keeps(file[p], r, i) <=> i = j \/ i = r.ip
    BY <1>1, <1>2 DEF Keeps, OwnPc, EndPc, DpPc, j
  <2>3. Keeps(file'[p], s, i) <=> i = r.ip
    BY <1>6 DEF Keeps, OwnPc, EndPc, DpPc
  <2>4. ~Unbuilt(r, i) /\ ~Building(r, i) /\ ~Sole(s, i)
    BY <1>1, <1>6 DEF Unbuilt, Building, FreshPc, Sole
  <2> QED
    BY <2>1, <2>2, <2>3, <2>4
<1>10. ASSUME NEW i \in Inum PROVE Held(p, i)
  <2>1. icache'[i].busy # NoProcess => icache'[i].valid
    BY <1>2, <1>5 DEF DInv, LockInv
  <2> QED
    BY <1>2, <1>3, <1>5, <1>9, <2>1 DEF Held
<1>11. ASSUME NEW i \in Inum \ {j}
       PROVE  /\ Kept(i) /\ (Mem(i) => icache'[i].ref > 0 /\ icache'[i].valid)
              /\ ~Freed(r, i) /\ ~Ahead(file[p], r, i)
  BY <1>5, <1>9 DEF Kept, Mem, SameCopy
<1>12. ASSUME NEW i \in Inum PROVE Loaded(p, i) /\ Owned(p, i)
  <2>1. Loaded(p, i)
    <3>1. CASE i = j
      BY <1>2, <1>5, <3>1 DEF Loaded, Mem
    <3>2. CASE i # j
      BY <1>1, <1>5, <1>7, <3>2 DEF Loaded
    <3> QED
      BY <3>1, <3>2
  <2> QED
    BY <1>9, <2>1 DEF Owned
<1>13. ASSUME NEW i \in Inum PROVE Counting(p, i)
  <2>1. dinode[i].nlink \in Int
    BY <1>2 DEF IInv, TypeOK
  <2>2. i = j => dinode'[i].nlink = dinode[i].nlink - 1
    BY <1>4, <1>5, <1>7 DEF SameCopy
  <2>3. i # j => dinode'[i].nlink = dinode[i].nlink
    BY <1>7 DEF SameCopy
  <2> QED
    BY <1>9, <2>1, <2>2, <2>3 DEF Counting, One
<1>14. CallSound(p)'
  <2>1. dinode'[cwd[p]].type = dinode[cwd[p]].type
    BY <1>2, <1>4, <1>5, <1>7 DEF SameCopy
  <2>2. dinode'[cwd'[p]].type = "dir"
    BY <1>1, <1>2, <2>1 DEF CallSound, Typing
  <2> QED
    BY <1>6, <2>2, EndingCall
<1>15. Others(p)
  BY <1>1, <1>6 DEF Others
<1>16. /\ SameCopy(icache'[j], icache'[j]) /\ icache'[j].ref > 0 /\ icache'[j].valid
       /\ icache'[j].addr = Addr(j) /\ icache'[j].type = dinode[j].type
       /\ s.pc \notin {"uplink", "balloc", "dots", "name", "downlink"}
       /\ r.pc \notin {"iget", "fresh"}
  <2>1. SameCopy(icache'[j], icache'[j])
    BY DEF SameCopy
  <2>2. /\ icache'[j].ref = icache[j].ref /\ icache'[j].valid
        /\ icache'[j].addr = icache[j].addr /\ icache'[j].type = icache[j].type
    <3>1. j \in Inum
      BY <1>2
    <3>2. /\ icache'[j].ref = icache[j].ref /\ icache'[j].valid = icache[j].valid
          /\ icache'[j].addr = icache[j].addr /\ icache'[j].type = icache[j].type
      BY <1>5, <3>1
    <3>3. icache[j].valid
      BY <1>2 DEF Mem
    <3> QED
      BY <3>2, <3>3
  <2>3. Mem(j)
    BY <1>2
  <2>4. Addr(j) = icache[j].addr /\ icache[j].type = dinode[j].type
    BY <1>4
  <2>5. s.pc \notin {"uplink", "balloc", "dots", "name", "downlink"} /\ r.pc \notin {"iget", "fresh"}
    BY <1>1, <1>6
  <2>6. icache[j].ref > 0
    BY <2>3 DEF Mem
  <2> HIDE DEF r, s
  <2> QED
    BY <2>1, <2>2, <2>4, <2>5, <2>6
<1> HIDE DEF r, s
<1> QED
  BY <1>1, <1>2, <1>8, <1>9, <1>10, <1>11, <1>12, <1>13, <1>14, <1>15, <1>16, Flushed DEF r, s

\* A call with one inode left, which it has locked.
LEMMA LastLock ==
  ASSUME DInv, NEW p \in Process, t[p].pc \in {"unlinked", "grow"},
         NEW j, j = IF t[p].pc = "grow" THEN file[p] ELSE t[p].ip
  PROVE  /\ IInv /\ CallSound(p) /\ Label(t[p]) = t[p].pc /\ j \in Inum /\ cwd[p] \in Inum
         /\ t[p].at = None /\ t[p].dp = None /\ First(t[p]) = None /\ Second(t[p]) = None
         /\ t[p].pc = "grow" => t[p].ip = None
         /\ Mem(j) /\ icache[j].busy = p /\ Addr(j) = icache[j].addr
         /\ icache[j].type = dinode[j].type /\ icache[j].nlink = dinode[j].nlink
         /\ Uses(cwd[p], file[p], t[p], j)
         /\ \A i \in Inum : /\ Keeps(file[p], t[p], i) <=> i = j
                            /\ ~Freed(t[p], i) /\ (i # j => ~Ahead(file[p], t[p], i))
                            /\ ~Unbuilt(t[p], i) /\ ~Building(t[p], i)
                            /\ PendIp(t[p], i) <=> i = j /\ t[p].pc = "unlinked"
                            /\ ~PendDp(t[p], i)
<1> DEFINE r == t[p]
<1>1. IInv /\ Sound(r, file[p]) /\ CallSound(p) /\ cwd[p] \in Inum
  BY Before
<1>2. /\ r.pc \notin PutPc \cup AtPc \cup DpPc \cup FreshPc \cup {"idle", "walk"} /\ Label(r) = r.pc
      /\ (r.pc = "unlinked" => r.pc \in IpPc) /\ (r.pc = "grow" => r.pc \notin IpPc)
  BY DEF DpPc, AtPc, PutPc, IpPc, Label, FreshPc
<1>3. /\ r.dp = None /\ r.at = None
      /\ r.pc = "unlinked" => r.ip \in Inum
      /\ r.pc = "grow" => r.ip = None
  BY <1>1, <1>2 DEF Sound, PointersSet
<1>4. First(r) = None /\ Second(r) = None /\ (r.pc = "grow" => file[p] \in Inum)
  BY <1>1, <1>2, PointersTyped DEF FilePc
<1>5. j \in Inum
  BY <1>3, <1>4
<1>6. ASSUME NEW i \in Inum
      PROVE  /\ Keeps(file[p], r, i) <=> i = j
             /\ ~Freed(r, i) /\ (i # j => ~Ahead(file[p], r, i))
             /\ ~Unbuilt(r, i) /\ ~Building(r, i)
             /\ PendIp(r, i) <=> i = j /\ r.pc = "unlinked"
             /\ ~PendDp(r, i)
  BY <1>2, <1>3 DEF Keeps, OwnPc, EndPc, DpPc, Freed, Ahead, Unbuilt, Building, FreshPc, PendIp,
       PendDp, DueIp, Inum, None
<1>7. /\ Mem(j) /\ icache[j].busy = p /\ Addr(j) = icache[j].addr
      /\ icache[j].type = dinode[j].type /\ icache[j].nlink = dinode[j].nlink
  BY <1>5, <1>6, Counted1
<1>8. Uses(cwd[p], file[p], r, j)
  BY DEF Uses, Else
<1> QED
  BY <1>1, <1>2, <1>3, <1>4, <1>5, <1>6, <1>7, <1>8

\* unlink takes the name from the count.
LEMMA UnlinkedDInv ==
  ASSUME DInv, NEW p \in Process, IInv', Unlinked(p)
  PROVE  DInv' /\ SameTree
<1> DEFINE r == t[p]
           s == t'[p]
           j == r.ip
           n == icache[j].nlink - 1
<1>1. /\ r.pc = "unlinked"
      /\ icache' = [icache EXCEPT ![j].nlink = @ - 1, ![j].busy = NoProcess]
      /\ iupdate(j, icache'[j])
      /\ Puts(p, <<j>>, "ret", [ip |-> None, ok |-> TRUE])
      /\ UNCHANGED <<bitmap, dirent, cwd, file, calls, programs>>
  BY DEF Unlinked, Still
<1>2. /\ IInv /\ CallSound(p) /\ Label(r) = r.pc /\ j \in Inum /\ cwd[p] \in Inum
      /\ r.at = None /\ r.dp = None /\ First(r) = None /\ Second(r) = None
      /\ Mem(j) /\ icache[j].busy = p /\ Addr(j) = icache[j].addr
      /\ icache[j].type = dinode[j].type /\ icache[j].nlink = dinode[j].nlink
      /\ Uses(cwd[p], file[p], r, j)
      /\ \A i \in Inum : /\ Keeps(file[p], r, i) <=> i = j
                         /\ ~Freed(r, i) /\ (i # j => ~Ahead(file[p], r, i))
                         /\ ~Unbuilt(r, i) /\ ~Building(r, i)
                         /\ PendIp(r, i) <=> i = j
                         /\ ~PendDp(r, i)
  BY <1>1, LastLock
<1> HIDE DEF j
<1>5. ASSUME NEW i \in Inum
      PROVE  /\ icache'[i].ref = icache[i].ref
             /\ icache'[i].busy = IF j = i THEN NoProcess ELSE icache[i].busy
             /\ icache'[i].valid = icache[i].valid
             /\ icache'[i].type = icache[i].type /\ icache'[i].addr = icache[i].addr
             /\ icache'[i].nlink = IF j = i THEN n ELSE icache[i].nlink
  <2>1. CacheTyped(icache) /\ icache[j].nlink \in Int
    BY <1>2 DEF IInv, CacheTyped, SlotTyped
  <2>2. icache' = Drop(icache, j)
    BY <1>1 DEF Drop
  <2> QED
    BY <1>2, <2>1, <2>2, DropIs

<1>6. /\ \A q \in Process \ {p} : t'[q] = t[q]
      /\ s.pc = "iput" /\ Label(s) = "ret"
      /\ First(s) = j /\ Second(s) = None
      /\ s.at = None /\ s.dp = None /\ s.ip = None
  BY <1>1, <1>2, GivesOne DEF PutPc, ThenPc
<1>7. ASSUME NEW i \in Inum
      PROVE  /\ i = j => SameCopy(dinode'[i], icache'[j])
             /\ i # j => SameCopy(dinode'[i], dinode[i])
  BY <1>1, <1>2, UpdateIs
<1>8. ASSUME NEW i \in Inum
      PROVE  Uses(cwd'[p], file'[p], s, i) <=> Uses(cwd[p], file[p], r, i)
  <2>1. Uses(cwd[p], file[p], r, i) <=>
            \/ cwd[p] = i \/ file[p] = i \/ r.at = i \/ r.dp = i \/ r.ip = i
            \/ First(r) = i \/ Second(r) = i
    BY <1>1, PlainUses DEF FreshPc
  <2>2. Uses(cwd'[p], file'[p], s, i) <=>
            \/ cwd'[p] = i \/ file'[p] = i \/ s.at = i \/ s.dp = i \/ s.ip = i
            \/ First(s) = i \/ Second(s) = i
    BY <1>6, PlainUses DEF FreshPc
  <2>3. i # None
    BY DEF Inum, None
  <2> HIDE DEF r, s
  <2> QED
    BY <1>1, <1>2, <1>6, <2>1, <2>2, <2>3 DEF j
<1>9. ASSUME NEW i \in Inum
      PROVE  /\ ~Keeps(file'[p], s, i) /\ ~Sole(s, i) /\ ~PendIp(s, i) /\ ~PendDp(s, i)
  BY <1>6 DEF Keeps, OwnPc, EndPc, DpPc, Sole, FreshPc, PendIp, PendDp, DueIp
<1>10. ASSUME NEW i \in Inum PROVE Held(p, i)
  <2>1. icache'[i].busy # NoProcess => icache'[i].valid
    BY <1>2, <1>5 DEF DInv, LockInv
  <2> QED
    BY <1>2, <1>5, <1>9, <2>1 DEF Held
<1>11. ASSUME NEW i \in Inum \ {j}
       PROVE  /\ Kept(i) /\ (Mem(i) => icache'[i].ref > 0 /\ icache'[i].valid)
              /\ ~Freed(r, i) /\ ~Ahead(file[p], r, i)
  BY <1>2, <1>5 DEF Kept, Mem, SameCopy
<1>12. ASSUME NEW i \in Inum PROVE Loaded(p, i) /\ Owned(p, i)
  <2>1. Loaded(p, i)
    <3>1. CASE i = j
      BY <1>2, <1>5, <3>1 DEF Loaded, Mem
    <3>2. CASE i # j
      BY <1>1, <1>5, <1>7, <3>2 DEF Loaded
    <3> QED
      BY <3>1, <3>2
  <2> QED
    BY <1>9, <2>1 DEF Owned
<1>13. ASSUME NEW i \in Inum PROVE Counting(p, i)
  <2>1. dinode[i].nlink \in Int
    BY <1>2 DEF IInv, TypeOK
  <2>2. i = j => dinode'[i].nlink = dinode[i].nlink - 1
    BY <1>2, <1>5, <1>7 DEF SameCopy
  <2>3. i # j => dinode'[i].nlink = dinode[i].nlink
    BY <1>7 DEF SameCopy
  <2>4. PendIp(r, i) <=> i = j
    BY <1>2
  <2>5. ~PendDp(r, i)
    BY <1>2
  <2> QED
    BY <1>9, <2>1, <2>2, <2>3, <2>4, <2>5 DEF Counting, One
<1>14. CallSound(p)'
  <2>1. dinode'[cwd[p]].type = dinode[cwd[p]].type
    BY <1>2, <1>5, <1>7 DEF SameCopy
  <2>2. dinode'[cwd'[p]].type = "dir"
    BY <1>1, <1>2, <2>1 DEF CallSound, Typing
  <2> QED
    BY <1>6, <2>2, EndingCall
<1>15. Others(p)
  BY <1>1, <1>6 DEF Others
<1>16. /\ SameCopy(icache'[j], icache'[j]) /\ icache'[j].ref > 0 /\ icache'[j].valid
       /\ icache'[j].addr = Addr(j) /\ icache'[j].type = dinode[j].type
       /\ s.pc \notin {"uplink", "balloc", "dots", "name", "downlink"}
       /\ r.pc \notin {"iget", "fresh"}
  <2>1. /\ icache'[j].ref > 0 /\ icache'[j].valid
        /\ icache'[j].addr = Addr(j) /\ icache'[j].type = dinode[j].type
    BY <1>2, <1>5 DEF Mem
  <2>2. /\ s.pc \notin {"uplink", "balloc", "dots", "name", "downlink"}
        /\ r.pc \notin {"iget", "fresh"}
    BY <1>1, <1>6
  <2> QED
    BY <2>1, <2>2 DEF SameCopy
<1>17. \A i \in Inum : ~Unbuilt(r, i) /\ ~Building(r, i)
  BY <1>2
<1> HIDE DEF r, s
<1> QED
  BY <1>1, <1>2, <1>8, <1>10, <1>11, <1>12, <1>13, <1>14, <1>15, <1>16, <1>17, Flushed DEF r, s

\* write gives its file the block.
LEMMA GrowDInv ==
  ASSUME DInv, NEW p \in Process, IInv', Grow(p)
  PROVE  DInv' /\ SameTree
<1> DEFINE r == t[p]
           s == t'[p]
           j == file[p]
<1>1. /\ r.pc = "grow"
      /\ icache' = iunlock(icache, j)
      /\ iupdate(j, icache[j])
      /\ Set(p, [pc |-> "ret", ok |-> TRUE])
      /\ UNCHANGED <<bitmap, dirent, cwd, file, calls, programs>>
  BY DEF Grow, Still
<1>2. /\ IInv /\ CallSound(p) /\ Label(r) = r.pc /\ j \in Inum /\ cwd[p] \in Inum
      /\ r.at = None /\ r.dp = None /\ r.ip = None /\ First(r) = None /\ Second(r) = None
      /\ Mem(j) /\ icache[j].busy = p /\ Addr(j) = icache[j].addr
      /\ icache[j].type = dinode[j].type /\ icache[j].nlink = dinode[j].nlink
      /\ Uses(cwd[p], file[p], r, j)
      /\ \A i \in Inum : /\ Keeps(file[p], r, i) <=> i = j
                         /\ ~Freed(r, i) /\ (i # j => ~Ahead(file[p], r, i))
                         /\ ~Unbuilt(r, i) /\ ~Building(r, i)
                         /\ ~PendIp(r, i)
                         /\ ~PendDp(r, i)
  BY <1>1, LastLock
<1> HIDE DEF j
<1>5. ASSUME NEW i \in Inum
      PROVE  /\ icache'[i].ref = icache[i].ref
             /\ icache'[i].busy = IF j = i THEN NoProcess ELSE icache[i].busy
             /\ icache'[i].valid = icache[i].valid
             /\ SameCopy(icache'[i], icache[i])
  <2>1. CacheTyped(icache)
    BY <1>2 DEF IInv
  <2> QED
    BY <1>1, <1>2, <2>1, UnlockIs
<1>6. /\ \A q \in Process \ {p} : t'[q] = t[q]
      /\ s.pc = "ret" /\ Label(s) = "ret"
      /\ First(s) = None /\ Second(s) = None
      /\ s.at = None /\ s.dp = None /\ s.ip = None
  BY <1>1, <1>2, Goes DEF PutPc
<1>7. ASSUME NEW i \in Inum
      PROVE  /\ i = j => SameCopy(dinode'[i], icache[j])
             /\ i # j => SameCopy(dinode'[i], dinode[i])
  BY <1>1, <1>2, UpdateIs
<1>8. ASSUME NEW i \in Inum
      PROVE  Uses(cwd'[p], file'[p], s, i) <=> Uses(cwd[p], file[p], r, i)
  <2>1. Uses(cwd[p], file[p], r, i) <=>
            \/ cwd[p] = i \/ file[p] = i \/ r.at = i \/ r.dp = i \/ r.ip = i
            \/ First(r) = i \/ Second(r) = i
    BY <1>1, PlainUses DEF FreshPc
  <2>2. Uses(cwd'[p], file'[p], s, i) <=>
            \/ cwd'[p] = i \/ file'[p] = i \/ s.at = i \/ s.dp = i \/ s.ip = i
            \/ First(s) = i \/ Second(s) = i
    BY <1>6, PlainUses DEF FreshPc
  <2> HIDE DEF r, s
  <2> QED
    BY <1>1, <1>2, <1>6, <2>1, <2>2 DEF j
<1>17. Calm(s)
  BY <1>6 DEF Calm, CalmPc, OwnPc
<1>9. ASSUME NEW i \in Inum
      PROVE  /\ ~Keeps(file'[p], s, i) /\ ~Sole(s, i) /\ ~PendIp(s, i) /\ ~PendDp(s, i)
  BY <1>6 DEF Keeps, OwnPc, EndPc, DpPc, Sole, FreshPc, PendIp, PendDp, DueIp
<1>10. ASSUME NEW i \in Inum PROVE Held(p, i)
  <2>1. icache'[i].busy # NoProcess => icache'[i].valid
    BY <1>2, <1>5 DEF DInv, LockInv
  <2> QED
    BY <1>2, <1>5, <1>9, <2>1 DEF Held
<1>11. ASSUME NEW i \in Inum \ {j}
       PROVE  /\ Kept(i) /\ (Mem(i) => icache'[i].ref > 0 /\ icache'[i].valid)
              /\ ~Freed(r, i) /\ ~Ahead(file[p], r, i)
  BY <1>2, <1>5 DEF Kept, Mem, SameCopy
<1>12. ASSUME NEW i \in Inum PROVE Loaded(p, i) /\ Owned(p, i)
  <2>1. Loaded(p, i)
    <3>1. CASE i = j
      BY <1>2, <1>5, <3>1 DEF Loaded, Mem
    <3>2. CASE i # j
      BY <1>1, <1>5, <1>7, <3>2 DEF Loaded
    <3> QED
      BY <3>1, <3>2
  <2> QED
    BY <1>9, <2>1 DEF Owned
<1>13. ASSUME NEW i \in Inum PROVE Counting(p, i)
  <2>1. dinode[i].nlink \in Int
    BY <1>2 DEF IInv, TypeOK
  <2>2. dinode'[i].nlink = dinode[i].nlink
    BY <1>2, <1>7 DEF SameCopy
  <2>3. ~PendIp(r, i) /\ ~PendDp(r, i)
    BY <1>2
  <2> QED
    BY <1>9, <2>1, <2>2, <2>3 DEF Counting, One
<1>14. CallSound(p)'
  <2>1. dinode'[cwd[p]].type = dinode[cwd[p]].type
    BY <1>2, <1>5, <1>7 DEF SameCopy
  <2>2. Known(cwd[p], t[p])'
    BY <1>1, <1>2, <1>6, <2>1 DEF Known, CallSound, Typing
  <2>3. Path(s)
    BY <1>6 DEF Path, LookPc, FreshPc
  <2> QED
    BY <1>1, <1>6, <1>17, <2>2, <2>3, CalmCall
<1>15. Others(p)
  BY <1>1, <1>6 DEF Others
<1>16. /\ SameCopy(icache[j], icache'[j]) /\ icache'[j].ref > 0 /\ icache'[j].valid
       /\ icache'[j].addr = Addr(j) /\ icache'[j].type = dinode[j].type
       /\ s.pc \notin {"uplink", "balloc", "dots", "name", "downlink"}
       /\ r.pc \notin {"iget", "fresh"}
  BY <1>1, <1>2, <1>5, <1>6 DEF SameCopy, Mem
<1>18. \A i \in Inum : ~Unbuilt(r, i) /\ ~Building(r, i)
  BY <1>2
<1> HIDE DEF r, s
<1> QED
  BY <1>1, <1>2, <1>8, <1>10, <1>11, <1>12, <1>13, <1>14, <1>15, <1>16, <1>18, Flushed DEF r, s

-----------------------------------------------------------------------------
(* Steps that change the directories or the blocks: what they leave *)

LinksKnown ==
    /\ \A d \in Inum, n \in Name : \A x :
          <<d, n, x>> \in Links <=> /\ dinode[d].type = "dir" /\ Addr(d) # None
                                    /\ dirent[Addr(d)][n] = x /\ x # None
    /\ \A l \in Links : /\ l[1] \in Inum /\ l[2] \in Name /\ l[3] \in Inum
                        /\ l = <<l[1], l[2], l[3]>>
\* What is known of the links ...
LEMMA LinksNow == IInv => LinksKnown
BY LinksAre DEF LinksKnown
\* ... and of those after a step.
LEMMA LinksNext == IInv' => LinksKnown'
BY LinksNow, PTL

\* The links after a step are S.
LEMMA LinksBecome ==
  ASSUME IInv', NEW S,
         \A l \in S : l[1] \in Inum /\ l[2] \in Name /\ l[3] \in Inum /\ l = <<l[1], l[2], l[3]>>,
         \A d \in Inum, n \in Name, x \in Inum :
            <<d, n, x>> \in S <=> dinode'[d].type = "dir" /\ Addr(d)' # None /\ dirent'[Addr(d)'][n] = x
  PROVE  Links' = S
<1>1. LinksKnown'
  BY LinksNext
<1>2. \A d \in Inum, n \in Name : \A x :
          <<d, n, x>> \in Links' <=> /\ dinode'[d].type = "dir" /\ Addr(d)' # None
                                     /\ dirent'[Addr(d)'][n] = x /\ x # None
  BY <1>1 DEF LinksKnown
<1>3. \A l \in Links' : /\ l[1] \in Inum /\ l[2] \in Name /\ l[3] \in Inum
                        /\ l = <<l[1], l[2], l[3]>>
  BY <1>1 DEF LinksKnown
<1>4. None \notin Inum
  BY DEF None, Inum
<1>5. ASSUME NEW l \in Links' PROVE l \in S
  <2>1. /\ l[1] \in Inum /\ l[2] \in Name /\ l[3] \in Inum /\ l = <<l[1], l[2], l[3]>>
    BY <1>3
  <2>2. <<l[1], l[2], l[3]>> \in Links'
    BY <2>1
  <2>3. /\ dinode'[l[1]].type = "dir" /\ Addr(l[1])' # None
        /\ dirent'[Addr(l[1])'][l[2]] = l[3]
    BY <1>2, <2>1, <2>2
  <2>4. <<l[1], l[2], l[3]>> \in S
    BY <2>1, <2>3
  <2> QED
    BY <2>1, <2>4
<1>6. ASSUME NEW l \in S PROVE l \in Links'
  <2>1. /\ l[1] \in Inum /\ l[2] \in Name /\ l[3] \in Inum /\ l = <<l[1], l[2], l[3]>>
    OBVIOUS
  <2>2. <<l[1], l[2], l[3]>> \in S
    BY <2>1
  <2>3. /\ dinode'[l[1]].type = "dir" /\ Addr(l[1])' # None
        /\ dirent'[Addr(l[1])'][l[2]] = l[3]
    BY <2>1, <2>2
  <2>4. <<l[1], l[2], l[3]>> \in Links'
    BY <1>2, <1>4, <2>1, <2>3
  <2> QED
    BY <2>1, <2>4
<1> QED
  BY <1>5, <1>6

\* They stay when directories with a block keep its names.
LEMMA LinksStay ==
  ASSUME IInv, IInv', 
         \A d \in Inum : /\ dinode[d].type = "dir" /\ Addr(d) # None =>
                              /\ dinode'[d].type = "dir" /\ Addr(d)' # None
                              /\ \A n \in Name : dirent'[Addr(d)'][n] = dirent[Addr(d)][n]
                         /\ dinode'[d].type = "dir" /\ Addr(d)' # None =>
                              \/ dinode[d].type = "dir" /\ Addr(d) # None
                              \/ \A n \in Name : dirent'[Addr(d)'][n] = None
  PROVE  Links' = Links
<1>1. \A d \in Inum, n \in Name : \A x :
          <<d, n, x>> \in Links <=> /\ dinode[d].type = "dir" /\ Addr(d) # None
                                    /\ dirent[Addr(d)][n] = x /\ x # None
  BY LinksAre
<1>2. \A l \in Links : l[1] \in Inum /\ l[2] \in Name /\ l[3] \in Inum /\ l = <<l[1], l[2], l[3]>>
  BY LinksAre
<1>3. ASSUME NEW d \in Inum, NEW n \in Name, NEW x \in Inum
      PROVE  <<d, n, x>> \in Links <=>
                dinode'[d].type = "dir" /\ Addr(d)' # None /\ dirent'[Addr(d)'][n] = x
  <2>1. x # None
    BY DEF None, Inum
  <2>2. <<d, n, x>> \in Links <=> /\ dinode[d].type = "dir" /\ Addr(d) # None
                                  /\ dirent[Addr(d)][n] = x
    BY <1>1, <2>1
  <2> QED
    BY <2>1, <2>2

<1> QED
  BY <1>2, <1>3, LinksBecome

-----------------------------------------------------------------------------
\* A step that reads inodes in and drops no reference.
LEMMA FreeKept ==
  ASSUME DInv, NEW p \in Process, Others(p), t[p].pc # "fresh",
         \A i \in Inum : icache'[i].ref = icache[i].ref /\ (icache[i].valid => icache'[i].valid),
         \A i \in Inum : dinode'[i].type = "free" => dinode'[i].nlink = 0 /\ dinode'[i].addr = None,
         \A i \in Inum : dinode'[i].type # "free" =>
            \/ /\ dinode[i].type # "free" /\ dinode'[i].nlink = dinode[i].nlink
               /\ Uses(cwd[p], file[p], t[p], i) => Uses(cwd'[p], file'[p], t'[p], i)
            \/ /\ Uses(cwd'[p], file'[p], t'[p], i)
               /\ icache[i].ref > 0 => icache[i].valid
  PROVE  FreeInv'
<1>1. FreeInv
  BY DEF DInv
<1>2. ASSUME NEW i \in Inum, dinode'[i].type # "free", dinode'[i].nlink = 0
      PROVE  \E q \in Process : Uses(cwd'[q], file'[q], t'[q], i)
  <2>1. CASE Uses(cwd'[p], file'[p], t'[p], i)
    BY <2>1
  <2>2. CASE ~Uses(cwd'[p], file'[p], t'[p], i)
    <3>1. /\ dinode[i].type # "free" /\ dinode[i].nlink = 0
          /\ ~Uses(cwd[p], file[p], t[p], i)
      BY <1>2, <2>2
    <3>2. PICK q \in Process : Uses(cwd[q], file[q], t[q], i)
      BY <1>1, <3>1 DEF FreeInv
    <3>3. q \in Process \ {p}
      BY <3>1, <3>2
    <3>4. t'[q] = t[q] /\ cwd'[q] = cwd[q] /\ file'[q] = file[q]
      BY <3>3 DEF Others
    <3> QED
      BY <3>2, <3>4
  <2> QED
    BY <2>1, <2>2
<1>3. ASSUME NEW i \in Inum, dinode'[i].type # "free", dinode'[i].nlink = 0,
             icache'[i].ref > 0, ~icache'[i].valid
      PROVE  \E q \in Process : t'[q].pc = "fresh" /\ t'[q].ip = i
  <2>1. icache[i].ref > 0 /\ ~icache[i].valid
    BY <1>3
  <2>2. dinode[i].type # "free" /\ dinode[i].nlink = 0
    BY <1>3, <2>1
  <2>3. PICK q \in Process : t[q].pc = "fresh" /\ t[q].ip = i
    BY <1>1, <2>1, <2>2 DEF FreeInv
  <2>4. t'[q] = t[q]
    BY <2>3 DEF Others
  <2> QED
    BY <2>3, <2>4
<1> QED
  BY <1>2, <1>3 DEF FreeInv

\* Directories have their blocks, or a call p makes them or takes them apart.
LEMMA DirKept ==
  ASSUME DInv, NEW p \in Process, Others(p),
         \A i \in Inum : dinode'[i].type = "dir" =>
            \/ Addr(i)' # None
            \/ Unbuilt(t'[p], i)
            \/ dinode[i].type = "dir" /\ Addr(i) = None /\ ~Unbuilt(t[p], i),
         \A i \in Inum : i = Root =>
            /\ dinode'[i].type = dinode[i].type /\ Addr(i)' = Addr(i)
            /\ dirent'[Addr(i)][".."] = dirent[Addr(i)][".."]
  PROVE  DirInv'
<1>1. DirInv
  BY DEF DInv
<1>2. ASSUME NEW i \in Inum, dinode'[i].type = "dir", Addr(i)' = None, ~Unbuilt(t'[p], i)
      PROVE  \E q \in Process : Unbuilt(t'[q], i)
  <2>1. dinode[i].type = "dir" /\ Addr(i) = None /\ ~Unbuilt(t[p], i)
    BY <1>2
  <2>2. PICK q \in Process : Unbuilt(t[q], i)
    BY <1>1, <2>1 DEF DirInv
  <2>3. t'[q] = t[q]
    BY <2>1, <2>2 DEF Others
  <2> QED
    BY <2>2, <2>3
<1>3. Root \in Inum
  BY FsAssumption DEF Root, Inum
<1>4. /\ dinode'[Root].type = "dir" /\ Addr(Root)' # None
      /\ dirent'[Addr(Root)'][".."] = Root
  BY <1>1, <1>3 DEF DirInv
<1> QED
  BY <1>2, <1>4 DEF DirInv

\* What is in a directory keeps its place.
InPlace(x) ==
    /\ dinode'[x].type = dinode[x].type
    /\ dinode[x].type = "dir" => Addr(x)' = Addr(x) /\ dirent'[Addr(x)][".."] = dirent[Addr(x)][".."]

\* The tree stays one when links go.
LEMMA TreeKept ==
  ASSUME DInv, Links' \in SUBSET Links, 
         \A i \in Inum : (\E l \in Links : l[3] = i) => InPlace(i)
  PROVE  TreeInv'
<1>1. TreeInv /\ IInv
  BY DEF DInv
<1>2. IsFiniteSet(Links')
  BY <1>1, FS_Subset DEF TreeInv
<1>3. ASSUME NEW l \in Links'
      PROVE  /\ dinode'[l[3]].type # "free" /\ l[3] # Root
             /\ dinode'[l[3]].type = "dir" =>
                   Addr(l[3])' # None /\ dirent'[Addr(l[3])'][".."] = l[1]
  <2>1. l \in Links /\ l[3] \in Inum
    BY <1>1, LinksAre
  <2> DEFINE x == l[3]
  <2>2. InPlace(x)
    BY <2>1
  <2>3. /\ dinode[x].type # "free" /\ x # Root
        /\ dinode[x].type = "dir" => Addr(x) # None /\ dirent[Addr(x)][".."] = l[1]
    BY <1>1, <2>1 DEF TreeInv
  <2> QED
    BY <2>2, <2>3 DEF InPlace
<1> QED
  BY <1>1, <1>2, <1>3 DEF TreeInv

\* Directories that stay still do.
LEMMA StayKept ==
  ASSUME DInv, NEW p \in Process, Others(p), programs' = programs,
         Stay => Links' = Links,
         \A i \in Inum : (\E l \in Links : l[3] = i) => InPlace(i),
         \A i \in Inum : dinode'[i].type = "dir" =>
            \/ Building(t'[p], i)
            \/ dinode[i].type = "dir" /\ ~Building(t[p], i),
         t'[p].pc # "downlink"
  PROVE  StayInv'
<1> SUFFICES ASSUME NEW D \in SUBSET Name, DirsStay(programs, D)
             PROVE  /\ \A l \in Links' : dinode'[l[3]].type = "dir" => l[2] \in D
                    /\ \A i \in Inum : dinode'[i].type = "dir" =>
                         \/ i = Root \/ \E l \in Links' : l[3] = i
                         \/ \E q \in Process : Building(t'[q], i)
                    /\ \A q \in Process : t'[q].pc # "downlink"
  BY DEF StayInv, DirsStay
<1>1. /\ \A l \in Links : dinode[l[3]].type = "dir" => l[2] \in D
      /\ \A i \in Inum : dinode[i].type = "dir" =>
           i = Root \/ (\E l \in Links : l[3] = i) \/ \E q \in Process : Building(t[q], i)
      /\ \A q \in Process : t[q].pc # "downlink"
  BY DEF DInv, StayInv
<1>2. Links' = Links
  BY DEF Stay
<1>3. ASSUME NEW l \in Links' PROVE dinode'[l[3]].type = "dir" => l[2] \in D
  <2>1. l \in Links /\ l[3] \in Inum
    BY <1>2, LinksAre DEF DInv
  <2> DEFINE x == l[3]
  <2>2. InPlace(x)
    BY <2>1
  <2> QED
    BY <1>1, <2>1, <2>2 DEF InPlace
<1>4. ASSUME NEW i \in Inum, dinode'[i].type = "dir", ~Building(t'[p], i)
      PROVE  \/ i = Root \/ \E l \in Links : l[3] = i
             \/ \E q \in Process : Building(t'[q], i)
  <2>1. dinode[i].type = "dir" /\ ~Building(t[p], i)
    BY <1>4
  <2>2. ASSUME NEW q \in Process, Building(t[q], i) PROVE Building(t'[q], i)
    BY <2>1, <2>2 DEF Others
  <2> QED
    BY <1>1, <2>1, <2>2
<1>5. \A q \in Process : t'[q].pc # "downlink"
  BY <1>1 DEF Others
<1> QED
  BY <1>2, <1>3, <1>4, <1>5

\* The counts stay when p's own links on the way do.
LEMMA CountKept ==
  ASSUME DInv, NEW p \in Process, Others(p), programs' = programs,
         Links' \in SUBSET Links, Stay => Links' = Links,
         \A i \in Inum : (\E l \in Links : l[3] = i) => InPlace(i),
         \A i \in Inum : /\ PendIp(t'[p], i) <=> PendIp(t[p], i)
                         /\ PendDp(t'[p], i) <=> PendDp(t[p], i),
         \A i \in Inum : dinode'[i].type # "free" =>
            \/ dinode[i].type # "free" /\ dinode'[i].nlink = dinode[i].nlink
            \/ dinode'[i].nlink = 0 /\ Due(i) = 0
  PROVE  CountInv'
<1>1. TreeInv /\ IInv /\ CountInv
  BY DEF DInv
<1> SUFFICES ASSUME NEW i \in Inum, dinode'[i].type # "free"
             PROVE  dinode'[i].nlink >= Due(i)' /\ (Stay' => dinode'[i].nlink = Due(i)')
  BY DEF CountInv
<1>2. /\ IsFiniteSet(To(i)) /\ IsFiniteSet(Under(i))
      /\ Cardinality(To(i)) \in Nat /\ Cardinality(Under(i)) \in Nat
      /\ Cardinality(ForIp(i)) \in Nat /\ Cardinality(ForDp(i)) \in Nat
  BY <1>1, DueTyped DEF TreeInv
<1>3. /\ Cardinality(ForIp(i))' = Cardinality(ForIp(i)) + One(PendIp(t'[p], i)) - One(PendIp(t[p], i))
      /\ Cardinality(ForDp(i))' = Cardinality(ForDp(i)) + One(PendDp(t'[p], i)) - One(PendDp(t[p], i))
  BY CallsDue
<1>4. ASSUME NEW l \in Links PROVE dinode'[l[3]].type = dinode[l[3]].type
  <2> DEFINE x == l[3]
  <2>1. x \in Inum
    BY <1>1, LinksAre
  <2>2. InPlace(x)
    BY <2>1
  <2> QED
    BY <2>2 DEF InPlace
<1>5. To(i)' \in SUBSET To(i) /\ Under(i)' \in SUBSET Under(i)
  BY <1>4 DEF To, Under
<1>6. /\ Cardinality(To(i)') \in Nat /\ Cardinality(Under(i)') \in Nat
      /\ Cardinality(To(i)') <= Cardinality(To(i)) /\ Cardinality(Under(i)') <= Cardinality(Under(i))
  BY <1>2, <1>5, FS_Subset, FS_CardinalityType
<1>7. Stay => To(i)' = To(i) /\ Under(i)' = Under(i)
  BY <1>4 DEF To, Under
<1>8. Stay' = Stay
  BY DEF Stay, DirsStay
<1>9. /\ Cardinality(ForIp(i))' = Cardinality(ForIp(i))
      /\ Cardinality(ForDp(i))' = Cardinality(ForDp(i))
  BY <1>2, <1>3 DEF One
<1>10. Due(i)' <= Due(i) /\ Due(i) \in Nat /\ Due(i)' \in Nat /\ (Stay => Due(i)' = Due(i))
  BY <1>2, <1>6, <1>7, <1>9 DEF Due, One
<1>11. CASE dinode[i].type # "free" /\ dinode'[i].nlink = dinode[i].nlink
  <2>1. dinode[i].nlink >= Due(i) /\ (Stay => dinode[i].nlink = Due(i)) /\ dinode[i].nlink \in Int
    BY <1>1, <1>11 DEF CountInv, IInv, TypeOK
  <2> QED
    BY <1>8, <1>10, <1>11, <2>1
<1>12. CASE dinode'[i].nlink = 0 /\ Due(i) = 0
  BY <1>8, <1>10, <1>12
<1> QED
  BY <1>11, <1>12

\* An inode that nobody uses is counted for nothing.
LEMMA NothingDue ==
  ASSUME DInv, NEW p \in Process, NEW i \in Inum, dinode[i].type = "free"
  PROVE  /\ \A q \in Process : ~Uses(cwd[q], file[q], t[q], i) /\ ~Sole(t[q], i)
         /\ i # Root /\ \A l \in Links : l[1] # i /\ l[3] # i
         /\ Due(i) = 0 /\ Addr(i) = None
         /\ \A q \in Process : Keeps(file[q], t[q], i) => Freed(t[q], i)
         /\ icache[i].ref > 0 => \E q \in Process : Freed(t[q], i)
<1>1. IInv /\ PointInv /\ DirInv /\ TreeInv /\ BlockInv /\ LockInv
  BY DEF DInv
<1>2. \A q \in Process : ~Uses(cwd[q], file[q], t[q], i)
  BY <1>1 DEF PointInv
<1>3. \A q \in Process : ~Sole(t[q], i)
  BY <1>2, SoleUses
<1>4. i # Root
  BY <1>1 DEF DirInv
<1>5. \A l \in Links : l[1] # i /\ l[3] # i
  BY <1>1, LinksAre DEF TreeInv
<1>6. \A q \in Process : t[q].ip # i /\ t[q].dp # i
  BY <1>2 DEF Uses, Else
<1>7. Due(i) = 0
  <2>1. To(i) = {} /\ Under(i) = {}
    BY <1>5 DEF To, Under
  <2>2. ForIp(i) = {} /\ ForDp(i) = {}
    BY <1>6 DEF ForIp, ForDp, PendIp, PendDp
  <2> QED
    BY <1>4, <2>1, <2>2, FS_EmptySet DEF Due, One
<1>8. Addr(i) = None
  BY <1>1 DEF BlockInv
<1>9. ASSUME NEW q \in Process, Keeps(file[q], t[q], i) PROVE Freed(t[q], i)
  <2>1. Share(q, i) >= 1
    BY <1>1, <1>9, InUse
  <2> QED
    BY <1>1, <1>2, <2>1, InUse
<1>10. ASSUME icache[i].ref > 0 PROVE \E q \in Process : Freed(t[q], i)
  <2>2. /\ icache[i].ref \in Nat
        /\ icache[i].ref > Share(p, i) => \E q \in Process \ {p} : Share(q, i) >= 1
    BY <1>1, Shared
  <2>3. Share(p, i) \in 0..7
    BY ShareIs DEF Share
  <2>4. \E q \in Process : Share(q, i) >= 1
    BY <1>10, <2>2, <2>3
  <2> QED
    BY <1>1, <1>2, <2>4, InUse
<1> QED
  BY <1>2, <1>3, <1>4, <1>5, <1>7, <1>8, <1>9, <1>10

-----------------------------------------------------------------------------
(* An inode of the disk is taken, or given up *)

\* ialloc() takes a free inode.
LEMMA MinIsFree ==
  ASSUME TypeOK, FreeInums # {}
  PROVE  Min(FreeInums) \in Inum /\ dinode[Min(FreeInums)].type = "free"
<1>1. FreeInums \subseteq Inum /\ Inum \subseteq Nat
  BY FsAssumption DEF FreeInums, Inum
<1>2. Min(FreeInums) \in FreeInums
  BY <1>1, MinIsIn
<1> QED
  BY <1>2 DEF FreeInums

\* ialloc() marks an inode as in use on the disk.
LEMMA IallocDInv ==
  ASSUME DInv, NEW p \in Process, IInv', Ialloc(p)
  PROVE  DInv' /\ Links' = Links
<1> DEFINE r == t[p]
           s == t'[p]
           k == Min(FreeInums)
           m == IF r.job.op = "mkdir" THEN "dir" ELSE "file"
<1>1. /\ r.pc = "ialloc" /\ FreeInums # {}
      /\ dinode' = [dinode EXCEPT ![k] = [type |-> m, nlink |-> 0, addr |-> None]]
      /\ Set(p, [ip |-> k, pc |-> "iget"])
      /\ UNCHANGED <<bitmap, dirent, icache, cwd, file, calls, programs>>
  BY DEF Ialloc, Still
<1>2. r.pc \in DpPc
  BY <1>1 DEF DpPc
<1>3. /\ IInv /\ CallSound(p) /\ Label(r) = r.pc /\ r.dp \in Inum /\ r.ip = None /\ r.at = None
      /\ First(r) = None /\ Second(r) = None /\ cwd[p] \in Inum
      /\ Mem(r.dp) /\ dinode[r.dp].type = "dir" /\ Addr(r.dp) # None
      /\ Uses(cwd[p], file[p], r, r.dp)
  BY <1>1, <1>2, Holds
<1>4. k \in Inum /\ dinode[k].type = "free"
  BY <1>1, <1>3, MinIsFree DEF IInv
<1> HIDE DEF k
<1>5. /\ \A q \in Process : ~Uses(cwd[q], file[q], t[q], k) /\ ~Sole(t[q], k)
      /\ k # Root /\ \A l \in Links : l[1] # k /\ l[3] # k
      /\ Due(k) = 0 /\ Addr(k) = None
      /\ \A q \in Process : Keeps(file[q], t[q], k) => Freed(t[q], k)
      /\ icache[k].ref > 0 => \E q \in Process : Freed(t[q], k)
  BY <1>4, NothingDue
<1>6. /\ dinode'[k].type = m /\ dinode'[k].nlink = 0 /\ dinode'[k].addr = None
      /\ m \in {"dir", "file"}
      /\ \A i \in Inum \ {k} : dinode'[i] = dinode[i]
  BY <1>1, <1>3, <1>4 DEF IInv, TypeOK
<1>7. /\ \A q \in Process \ {p} : t'[q] = t[q]
      /\ s.pc = "iget" /\ Label(s) = "iget" /\ First(s) = None /\ Second(s) = None
      /\ s.at = None /\ s.dp = r.dp /\ s.ip = k /\ s.job = r.job /\ s.path = r.path
  BY <1>1, <1>3, Goes DEF PutPc
<1>8. Others(p)
  BY <1>1, <1>7 DEF Others
<1>9. m = IF s.job.op = "mkdir" THEN "dir" ELSE "file"
  BY <1>7
<1> HIDE DEF m
<1>10. /\ IInv /\ LockInv /\ CopyInv /\ PointInv /\ SoleInv /\ CallInv /\ FreeInv
       /\ BlockInv /\ DirInv /\ TreeInv /\ StayInv /\ CountInv
  BY DEF DInv
<1>11. ASSUME NEW q \in Process, Freed(t[q], k)
       PROVE  /\ dinode[k].nlink = 0 /\ dinode[k].addr = None /\ icache[k].addr = None /\ Mem(k)
  <2>1. t[q].pc = "iputend" /\ First(t[q]) = k
    BY <1>11 DEF Freed
  <2>2. Keeps(file[q], t[q], k) /\ dinode[k].nlink = 0
        /\ icache[k].addr = None /\ dinode[k].addr = None
    BY <2>1, EndUnused
  <2> QED
    BY <1>4, <1>10, <2>2, OneKeeper
<1>12. ASSUME NEW i \in Inum PROVE Addr(i)' = Addr(i)
  <2>1. CASE i # k
    BY <1>1, <1>6, <2>1 DEF Addr
  <2>2. CASE i = k
    <3>1. dinode[k].addr = None
      BY <1>4, <1>10 DEF FreeInv
    <3> QED
      BY <1>1, <1>6, <2>2, <3>1 DEF Addr
  <2> QED
    BY <2>1, <2>2
<1>13. Links' = Links
  <2>1. ASSUME NEW d \in Inum
        PROVE  /\ dinode[d].type = "dir" /\ Addr(d) # None =>
                              /\ dinode'[d].type = "dir" /\ Addr(d)' # None
                              /\ \A n \in Name : dirent'[Addr(d)'][n] = dirent[Addr(d)][n]
               /\ dinode'[d].type = "dir" /\ Addr(d)' # None =>
                              \/ dinode[d].type = "dir" /\ Addr(d) # None
                              \/ \A n \in Name : dirent'[Addr(d)'][n] = None
    BY <1>1, <1>5, <1>6, <1>12
  <2> QED
    BY <1>3, <2>1, LinksStay
<1>14. ASSUME NEW i \in Inum
       PROVE  /\ Keeps(file'[p], s, i) <=> Keeps(file[p], r, i)
              /\ ~Freed(r, i) /\ ~Ahead(file[p], r, i) /\ ~Unbuilt(r, i) /\ ~Building(r, i)
              /\ Unbuilt(s, i) <=> i = k
              /\ Building(s, i) <=> i = k
              /\ Sole(s, i) <=> i = k
              /\ ~PendIp(r, i) /\ ~PendIp(s, i) /\ ~PendDp(r, i) /\ ~PendDp(s, i)
              /\ Uses(cwd'[p], file'[p], s, i) <=> Uses(cwd[p], file[p], r, i) \/ i = k
              /\ ~Else(cwd'[p], file'[p], s, k)
  <2>1. Keeps(file'[p], s, i) <=> Keeps(file[p], r, i)
    BY <1>1, <1>2, <1>3, <1>7 DEF Keeps, DpPc, OwnPc, EndPc
  <2>2. /\ ~Freed(r, i) /\ ~Ahead(file[p], r, i) /\ ~Unbuilt(r, i) /\ ~Building(r, i)
        /\ Unbuilt(s, i) <=> i = k
        /\ Building(s, i) <=> i = k
        /\ Sole(s, i) <=> i = k
    BY <1>1, <1>7 DEF Freed, Ahead, Unbuilt, Building, FreshPc, Sole
  <2>3. /\ ~PendIp(r, i) /\ ~PendIp(s, i) /\ ~PendDp(r, i) /\ ~PendDp(s, i)
    BY <1>1, <1>3, <1>7 DEF PendIp, PendDp, DueIp
  <2>4. /\ Else(cwd'[p], file'[p], s, i) <=> Else(cwd[p], file[p], r, i)
    BY <1>1, <1>3, <1>7 DEF Else, FreshPc, Inum, None
  <2>5. Uses(cwd'[p], file'[p], s, i) <=> Uses(cwd[p], file[p], r, i) \/ i = k
    BY <1>3, <1>7, <2>4 DEF Uses, Inum, None
  <2>6. ~Else(cwd'[p], file'[p], s, k)
    <3>1. ~Else(cwd[p], file[p], r, k)
      BY <1>5 DEF Uses
    <3>2. Second(s) # k /\ s.at # k
      BY <1>4, <1>7 DEF Inum, None
    <3> QED
      BY <1>1, <1>3, <1>7, <3>1, <3>2 DEF Else, FreshPc
  <2> QED
    BY <2>1, <2>2, <2>3, <2>5, <2>6
<1>15. LockInv'
  <2>1. s.pc \notin {"uplink", "balloc", "dots", "name", "downlink"}
    BY <1>7
  <2>2. \A i \in Inum : icache'[i].busy # NoProcess => icache'[i].valid
    BY <1>1, <1>10 DEF LockInv
  <2>3. \A i \in Inum : icache'[i].busy = icache[i].busy
    BY <1>1
  <2> QED
    BY <1>3, <1>8, <1>10, <1>14, <2>1, <2>2, <2>3, LocksKept
<1>16. CopyInv'
  <2>1. ASSUME NEW i \in Inum, i # k PROVE CopyAt(i)'
    <3>1. CopyAt(i) /\ Kept(i) /\ SameCopy(dinode'[i], dinode[i])
          /\ ~Freed(r, i) /\ ~Ahead(file[p], r, i)
      BY <1>1, <1>6, <1>10, <1>14, <2>1 DEF CopyInv, Kept, SameCopy, Mem
    <3> QED
      BY <1>8, <3>1, CopySame
  <2>2. ASSUME NEW i \in Inum, i = k PROVE CopyAt(i)'
    <3>1. SUFFICES ASSUME Mem(k)
                   PROVE  /\ icache[k].nlink = 0 /\ icache[k].addr = None
                          /\ \E q \in Process : Freed(t'[q], k)
      BY <1>1, <1>6, <2>2 DEF CopyAt, Mem
    <3>2. PICK q \in Process : Freed(t[q], k)
      BY <1>5, <3>1 DEF Mem
    <3>3. q # p
      BY <1>4, <1>14, <3>2
    <3>4. Freed(t'[q], k)
      BY <1>7, <3>2, <3>3
    <3>5. icache[k].addr = None /\ dinode[k].nlink = 0
      BY <1>11, <3>2
    <3>6. icache[k].nlink = dinode[k].nlink
      BY <1>4, <1>10, <3>1 DEF CopyInv, CopyAt
    <3> QED
      BY <3>4, <3>5, <3>6
  <2> QED
    BY <2>1, <2>2 DEF CopyInv
<1>17. PointInv'
  <2>1. \A i \in Inum : dinode'[i].type = "free" => dinode[i].type = "free"
    BY <1>6
  <2>2. \A i \in Inum : Uses(cwd'[p], file'[p], t'[p], i) =>
            Uses(cwd[p], file[p], t[p], i) \/ dinode'[i].type # "free"
    BY <1>6, <1>14
  <2> QED
    BY <1>8, <2>1, <2>2, PointsKept
<1>18. SoleInv'
  <2>1. \A i \in Inum : Uses(cwd'[p], file'[p], t'[p], i) =>
            Uses(cwd[p], file[p], t[p], i) \/ \A q \in Process \ {p} : ~Sole(t[q], i)
    BY <1>5, <1>14
  <2>2. ASSUME NEW i \in Inum, Sole(t'[p], i)
        PROVE  /\ i # Root /\ ~Else(cwd'[p], file'[p], t'[p], i)
               /\ \A q \in Process \ {p} : ~Uses(cwd[q], file[q], t[q], i)
               /\ \A l \in Links' : l[3] # i /\ (t'[p].pc \in FreshPc => l[1] # i)
    <3>1. i = k
      BY <1>14, <2>2
    <3> QED
      BY <1>5, <1>13, <1>14, <3>1
  <2> QED
    BY <1>8, <1>13, <2>1, <2>2, SolesKept
<1>19. CallInv'
  <2>1. ASSUME NEW q \in Process \ {p} PROVE CallSound(q)'
    <3>1. ASSUME NEW i \in Inum, Uses(cwd[q], file[q], t[q], i)
          PROVE  i # k /\ SameCopy(dinode'[i], dinode[i])
      BY <1>5, <1>6, <3>1 DEF SameCopy
    <3>2. ASSUME NEW i \in Inum, Keeps(file[q], t[q], i)
          PROVE  /\ icache'[i].addr = icache[i].addr /\ Addr(i)' = Addr(i)
                 /\ dinode[i].type # "free" => SameCopy(dinode'[i], dinode[i])
                 /\ Addr(i) # None => dirent'[Addr(i)] = dirent[Addr(i)]
      BY <1>1, <1>4, <1>6, <1>12 DEF SameCopy
    <3>3. ASSUME NEW i \in Inum, t[q].pc \in {"iget", "fresh"}, t[q].ip = i
          PROVE  SameCopy(dinode'[i], dinode[i])
      <4>1. Uses(cwd[q], file[q], t[q], i)
        BY <3>3 DEF Uses
      <4> QED
        BY <3>1, <4>1
    <3>4. ASSUME NEW i \in Inum, Freed(t[q], i)
          PROVE  /\ dinode'[i].nlink = 0 /\ dinode'[i].addr = None
                 /\ \/ dinode'[i].type = "free"
                    \/ \E x \in Process : t'[x].pc \in {"iget", "fresh"} /\ t'[x].ip = i
      <4>1. CASE i = k
        BY <1>6, <1>7, <4>1
      <4>2. CASE i # k
        <5>1. Ending(q) /\ t[q].pc = "iputend" /\ First(t[q]) = i
          BY <1>10, <3>4 DEF CallInv, CallSound, Freed
        <5>2. /\ dinode[i].nlink = 0 /\ dinode[i].addr = None
              /\ \/ dinode[i].type = "free"
                 \/ \E x \in Process : t[x].pc \in {"iget", "fresh"} /\ t[x].ip = i
          BY <5>1 DEF Ending, EndPc
        <5>3. ASSUME NEW x \in Process, t[x].pc \in {"iget", "fresh"}, t[x].ip = i
              PROVE  t'[x].pc \in {"iget", "fresh"} /\ t'[x].ip = i
          BY <1>1, <1>7, <5>3
        <5> QED
          BY <1>6, <4>2, <5>2, <5>3
      <4> QED
        BY <4>1, <4>2
    <3> QED
      BY <1>1, <1>8, <3>1, <3>2, <3>3, <3>4, OthersCalls DEF SameCopy
  <2>2. CallSound(p)'
    <3>1. Typing(p)
      BY <1>3 DEF CallSound
    <3>2. cwd[p] # k /\ r.dp # k
      BY <1>5 DEF Uses, Else
    <3>3. dinode'[cwd[p]].type = "dir" /\ dinode'[r.dp].type = "dir"
      BY <1>3, <1>6, <3>1, <3>2 DEF Typing
    <3>4. Typing(p)'
      BY <1>1, <1>6, <1>7, <1>9, <3>3 DEF Typing, FreshPc
    <3>5. Ending(p)'
      BY <1>7 DEF Ending, EndPc
    <3>6. Making(p)'
      BY <1>6, <1>7 DEF Making, FreshPc, Made
    <3>7. Going(p)'
      BY <1>1, <1>7, <1>12, GoingOn DEF FreshPc
    <3> QED
      BY <3>4, <3>5, <3>6, <3>7 DEF CallSound
  <2> QED
    BY <2>1, <2>2 DEF CallInv
<1>20. FreeInv'
  <2>1. \A i \in Inum : icache'[i].ref = icache[i].ref /\ (icache[i].valid => icache'[i].valid)
    BY <1>1
  <2>2. \A i \in Inum : dinode'[i].type = "free" => dinode'[i].nlink = 0 /\ dinode'[i].addr = None
    BY <1>6, <1>10 DEF FreeInv
  <2>3. ASSUME NEW i \in Inum, dinode'[i].type # "free"
        PROVE  \/ /\ dinode[i].type # "free" /\ dinode'[i].nlink = dinode[i].nlink
                  /\ Uses(cwd[p], file[p], t[p], i) => Uses(cwd'[p], file'[p], t'[p], i)
               \/ /\ Uses(cwd'[p], file'[p], t'[p], i)
                  /\ icache[i].ref > 0 => icache[i].valid
    <3>1. CASE i = k
      <4>1. icache[k].ref > 0 => icache[k].valid
        BY <1>5, <1>11 DEF Mem
      <4> QED
        BY <1>14, <3>1, <4>1
    <3>2. CASE i # k
      BY <1>6, <1>14, <2>3, <3>2
    <3> QED
      BY <3>1, <3>2
  <2>4. t[p].pc # "fresh"
    BY <1>1
  <2> QED
    BY <1>8, <2>1, <2>2, <2>3, <2>4, FreeKept
<1>21. BlockInv'
  <2>1. \A i \in Inum : Addr(i) # None => i # k
    BY <1>5
  <2> QED
    BY <1>1, <1>6, <1>10, <1>12, <2>1 DEF BlockInv
<1>22. DirInv'
  <2>1. \A i \in Inum : dinode'[i].type = "dir" =>
            \/ Addr(i)' # None
            \/ Unbuilt(t'[p], i)
            \/ dinode[i].type = "dir" /\ Addr(i) = None /\ ~Unbuilt(t[p], i)
    BY <1>6, <1>12, <1>14
  <2>2. \A i \in Inum : i = Root =>
            /\ dinode'[i].type = dinode[i].type /\ Addr(i)' = Addr(i)
            /\ dirent'[Addr(i)][".."] = dirent[Addr(i)][".."]
    BY <1>1, <1>5, <1>6, <1>12
  <2> QED
    BY <1>8, <2>1, <2>2, DirKept
<1>23. \A i \in Inum : (\E l \in Links : l[3] = i) => InPlace(i)
  <2> SUFFICES ASSUME NEW i \in Inum, \E l \in Links : l[3] = i PROVE InPlace(i)
    OBVIOUS
  <2>1. i # k
    BY <1>5
  <2> QED
    BY <1>1, <1>6, <1>12, <2>1 DEF InPlace
<1>24. TreeInv'
  BY <1>13, <1>23, TreeKept
<1>25. StayInv'
  <2>1. \A i \in Inum : dinode'[i].type = "dir" =>
            \/ Building(t'[p], i)
            \/ dinode[i].type = "dir" /\ ~Building(t[p], i)
    BY <1>6, <1>14
  <2>2. t'[p].pc # "downlink"
    BY <1>7
  <2> QED
    BY <1>1, <1>8, <1>13, <1>23, <2>1, <2>2, StayKept
<1>26. CountInv'
  <2>1. \A i \in Inum : dinode'[i].type # "free" =>
            \/ dinode[i].type # "free" /\ dinode'[i].nlink = dinode[i].nlink
            \/ dinode'[i].nlink = 0 /\ Due(i) = 0
    BY <1>5, <1>6
  <2> QED
    BY <1>1, <1>8, <1>13, <1>14, <1>23, <2>1, CountKept
<1> QED
  BY <1>13, <1>15, <1>16, <1>17, <1>18, <1>19, <1>20, <1>21, <1>22, <1>24, <1>25, <1>26 DEF DInv

-----------------------------------------------------------------------------
\* The inode whose last reference p puts.
LEMMA LastUse ==
  ASSUME DInv, NEW p \in Process, t[p].pc \in {"itrunc", "ifree"}
  PROVE  /\ First(t[p]) = Put(p) /\ Put(p) \in Inum /\ Label(t[p]) \in ThenPc /\ t[p].dp = None
         /\ Keeps(file[p], t[p], Put(p)) /\ Mem(Put(p)) /\ icache[Put(p)].busy = p
         /\ Addr(Put(p)) = icache[Put(p)].addr
         /\ icache[Put(p)].nlink = 0 /\ dinode[Put(p)].nlink = 0
         /\ t[p].pc = "ifree" => icache[Put(p)].addr = None
         /\ Sole(t[p], Put(p)) /\ Uses(cwd[p], file[p], t[p], Put(p))
         /\ dinode[Put(p)].type # "free" /\ Put(p) # Root
         /\ ~Else(cwd[p], file[p], t[p], Put(p)) /\ t[p].ip # Put(p)
         /\ \A q \in Process \ {p} : ~Uses(cwd[q], file[q], t[q], Put(p))
         /\ \A l \in Links : l[3] # Put(p)
<1> DEFINE r == t[p]
           k == Put(p)
<1>1. /\ First(r) = k /\ k \in Inum /\ Label(r) \in ThenPc /\ r.dp = None
  BY PutDp DEF PutPc
<1>2. r.pc \in EndPc /\ r.pc \notin FreshPc
  BY DEF EndPc, FreshPc
<1>3. IInv /\ CallSound(p) /\ SoleInv /\ PointInv
  BY Before DEF DInv
<1> HIDE DEF k
<1>4. Keeps(file[p], r, k) /\ ~Freed(r, k) /\ Sole(r, k)
  BY <1>1, <1>2 DEF Keeps, Freed, Sole
<1>5. /\ Mem(k) /\ Addr(k) = icache[k].addr /\ icache[k].busy = p
      /\ icache[k].nlink = dinode[k].nlink
  BY <1>1, <1>4, Counted1
<1>6. dinode[k].nlink = 0 /\ (r.pc = "ifree" => icache[k].addr = None)
  BY <1>1, <1>2, <1>3 DEF CallSound, Ending
<1>7. /\ k # Root /\ ~Else(cwd[p], file[p], r, k)
      /\ \A q \in Process \ {p} : ~Uses(cwd[q], file[q], t[q], k)
      /\ \A l \in Links : l[3] # k
  BY <1>1, <1>3, <1>4 DEF SoleInv
<1>8. Uses(cwd[p], file[p], r, k)
  BY <1>4, SoleUses
<1>9. dinode[k].type # "free"
  BY <1>1, <1>3, <1>8 DEF PointInv
<1>10. r.ip # k
  BY <1>2, <1>7 DEF Else
<1> QED
  BY <1>1, <1>4, <1>5, <1>6, <1>7, <1>8, <1>9, <1>10 DEF k

\* The call that puts it goes on with it.
LEMMA LastCall ==
  ASSUME DInv, NEW p \in Process, t[p].pc \in {"itrunc", "ifree"}, programs' = programs, cwd' = cwd,
         t'[p].pc \in {"ifree", "iputend"}, Label(t'[p]) = Label(t[p]), First(t'[p]) = First(t[p]),
         t'[p].dp = t[p].dp, t'[p].ip = t[p].ip, t'[p].job = t[p].job, t'[p].path = t[p].path,
         \A i \in Inum : i # Put(p) => dinode'[i].type = dinode[i].type,
         \A i \in Inum : i = Put(p) =>
            /\ dinode'[i].nlink = 0 /\ icache'[i].addr = None
            /\ t'[p].pc = "iputend" => dinode'[i].addr = None /\ dinode'[i].type = "free"
  PROVE  CallSound(p)'
<1> DEFINE r == t[p]
           s == t'[p]
           k == Put(p)
<1>1. /\ First(r) = k /\ k \in Inum /\ Label(r) \in ThenPc /\ r.dp = None
      /\ ~Else(cwd[p], file[p], r, k) /\ r.ip # k
  BY LastUse
<1>2. CallSound(p) /\ cwd[p] \in Inum /\ (r.ip # None => r.ip \in Inum)
  BY Before, PointersTyped DEF DInv
<1>3. cwd[p] # k
  BY <1>1 DEF Else
<1>4. s.pc \notin FreshPc \cup {"create", "unlink", "enter", "downlink", "grow",
                                 "ialloc", "victim", "dots", "name"}
  BY DEF FreshPc
<1>5. dinode'[cwd[p]].type = "dir" /\ (r.ip # None => dinode'[r.ip].type = dinode[r.ip].type)
  BY <1>1, <1>2, <1>3 DEF CallSound, Typing
<1>6. Typing(p)'
  BY <1>1, <1>2, <1>4, <1>5 DEF CallSound, Typing
<1>7. Ending(p)'
  <2>1. First(s) = k
    BY <1>1
  <2> HIDE DEF k
  <2>2. /\ dinode'[k].nlink = 0 /\ icache'[k].addr = None
        /\ s.pc = "iputend" => dinode'[k].addr = None /\ dinode'[k].type = "free"
    BY <1>1 DEF k
  <2> HIDE DEF s
  <2> QED
    BY <2>1, <2>2 DEF Ending, s
<1>8. Making(p)'
  BY <1>4 DEF Making, Made
<1>9. Going(p)'
  <2>1. Going(p)
    BY <1>2 DEF CallSound
  <2> QED
    BY <1>4, <2>1 DEF Going, NoDots
<1> QED
  BY <1>6, <1>7, <1>8, <1>9 DEF CallSound

\* iput() marks an inode as free.
LEMMA IfreeDInv ==
  ASSUME DInv, NEW p \in Process, IInv', Ifree(p)
  PROVE  DInv' /\ Links' = Links
<1> DEFINE r == t[p]
           s == t'[p]
           k == Put(p)
<1>1. /\ r.pc = "ifree"
      /\ icache' = SetType(icache, k, "free")
      /\ iupdate(k, icache'[k])
      /\ Set(p, [pc |-> "iputend"])
      /\ UNCHANGED <<bitmap, dirent, cwd, file, calls, programs>>
  BY DEF Ifree, Still, SetType
<1>2. /\ First(r) = k /\ k \in Inum /\ Label(r) \in ThenPc /\ r.dp = None
      /\ Keeps(file[p], r, k) /\ Mem(k) /\ icache[k].busy = p
      /\ Addr(k) = icache[k].addr
      /\ icache[k].nlink = 0 /\ dinode[k].nlink = 0 /\ icache[k].addr = None
      /\ Sole(r, k) /\ Uses(cwd[p], file[p], r, k)
      /\ dinode[k].type # "free" /\ k # Root
      /\ ~Else(cwd[p], file[p], r, k) /\ r.ip # k
      /\ \A q \in Process \ {p} : ~Uses(cwd[q], file[q], t[q], k)
      /\ \A l \in Links : l[3] # k
  BY <1>1, LastUse
<1>3. /\ IInv /\ LockInv /\ CopyInv /\ PointInv /\ SoleInv /\ CallInv /\ FreeInv
      /\ BlockInv /\ DirInv /\ TreeInv /\ StayInv /\ CountInv
  BY DEF DInv
<1>4. /\ \A q \in Process \ {p} : t'[q] = t[q]
      /\ s.pc = "iputend" /\ Label(s) = Label(r)
      /\ s.at = r.at /\ s.dp = r.dp /\ s.ip = r.ip /\ s.job = r.job /\ s.path = r.path
      /\ First(s) = First(r) /\ Second(s) = Second(r)
  BY <1>1, <1>3, Putting DEF PutPc
<1>5. Others(p)
  BY <1>1, <1>4 DEF Others
<1> HIDE DEF k
<1>6. ASSUME NEW i \in Inum
      PROVE  /\ icache'[i].nlink = icache[i].nlink /\ icache'[i].addr = icache[i].addr
             /\ icache'[i].ref = icache[i].ref
             /\ icache'[i].valid = icache[i].valid /\ icache'[i].busy = icache[i].busy
             /\ icache'[i].type = IF k = i THEN "free" ELSE icache[i].type
  BY <1>1, <1>2, <1>3, TypeIs DEF IInv
<1>7. ASSUME NEW i \in Inum
      PROVE  /\ i = k => /\ dinode'[i].type = "free" /\ dinode'[i].nlink = 0
                         /\ dinode'[i].addr = None
             /\ i # k => SameCopy(dinode'[i], dinode[i])
  <2>1. /\ i = k => SameCopy(dinode'[i], icache'[k])
        /\ i # k => SameCopy(dinode'[i], dinode[i])
    BY <1>1, <1>2, <1>3, UpdateIs
  <2> QED
    BY <1>2, <1>6, <2>1 DEF SameCopy
<1>8. ASSUME NEW i \in Inum
      PROVE  Uses(cwd'[p], file'[p], s, i) <=> Uses(cwd[p], file[p], r, i) /\ i # k
  <2>1. Uses(cwd[p], file[p], r, i) <=>
            \/ cwd[p] = i \/ file[p] = i \/ r.at = i \/ r.ip = i \/ Second(r) = i
            \/ First(r) = i
    BY <1>1, <1>2, PutUses DEF PutPc
  <2>2. Uses(cwd'[p], file'[p], s, i) <=>
            \/ cwd'[p] = i \/ file'[p] = i \/ s.at = i \/ s.ip = i \/ Second(s) = i
    BY <1>2, <1>4, PutUses DEF PutPc
  <2>3. cwd[p] # k /\ file[p] # k /\ r.at # k /\ r.ip # k /\ Second(r) # k
    BY <1>2 DEF Else
  <2> HIDE DEF r, s
  <2> QED
    BY <1>1, <1>2, <1>4, <2>1, <2>2, <2>3
<1>9. ASSUME NEW i \in Inum
      PROVE  /\ Keeps(file'[p], s, i) <=> Keeps(file[p], r, i)
             /\ ~Freed(r, i) /\ (Ahead(file[p], r, i) => i = k)
             /\ Freed(s, i) <=> i = k
             /\ ~Sole(s, i)
             /\ Unbuilt(r, i) => i = k
             /\ ~Building(r, i)
             /\ PendIp(s, i) <=> PendIp(r, i)
             /\ PendDp(s, i) <=> PendDp(r, i)
  BY <1>1, <1>2, <1>4 DEF Keeps, DpPc, EndPc, Freed, Ahead, Sole, FreshPc, Unbuilt, Building,
     PendIp, PendDp
<1>10. LockInv'
  <2>1. s.pc \notin {"uplink", "balloc", "dots", "name", "downlink"}
    BY <1>4
  <2>2. \A i \in Inum : icache'[i].busy # NoProcess => icache'[i].valid
    BY <1>3, <1>6 DEF LockInv
  <2> QED
    BY <1>3, <1>5, <1>6, <1>9, <2>1, <2>2, LocksKept
<1>11. ASSUME NEW i \in Inum, i # k
       PROVE  /\ Kept(i) /\ SameCopy(dinode'[i], dinode[i]) /\ Addr(i)' = Addr(i)
  <2>1. Kept(i) /\ (Mem(i) => icache'[i].ref > 0 /\ icache'[i].valid)
    BY <1>6, <1>11 DEF Kept, SameCopy, Mem
  <2>2. SameCopy(dinode'[i], dinode[i])
    BY <1>7, <1>11
  <2> QED
    BY <2>1, <2>2, AddrSame
<1>12. ASSUME NEW i \in Inum, i = k PROVE Addr(i)' = Addr(i)
  BY <1>2, <1>6, <1>12 DEF Addr, Mem
<1>13. CopyInv'
  <2>1. ASSUME NEW i \in Inum, i # k PROVE CopyAt(i)'
    <3>1. CopyAt(i) /\ ~Freed(r, i) /\ ~Ahead(file[p], r, i)
      BY <1>3, <1>9, <2>1 DEF CopyInv
    <3> QED
      BY <1>5, <1>11, <2>1, <3>1, CopySame
  <2>2. ASSUME NEW i \in Inum, i = k PROVE CopyAt(i)'
    <3>1. Freed(t'[p], i)
      BY <1>9, <2>2
    <3> QED
      BY <1>2, <1>6, <1>7, <2>2, <3>1 DEF CopyAt
  <2> QED
    BY <2>1, <2>2 DEF CopyInv
<1>14. Links' = Links
  <2>1. ASSUME NEW d \in Inum
        PROVE  /\ dinode[d].type = "dir" /\ Addr(d) # None =>
                              /\ dinode'[d].type = "dir" /\ Addr(d)' # None
                              /\ \A n \in Name : dirent'[Addr(d)'][n] = dirent[Addr(d)][n]
               /\ dinode'[d].type = "dir" /\ Addr(d)' # None =>
                              \/ dinode[d].type = "dir" /\ Addr(d) # None
                              \/ \A n \in Name : dirent'[Addr(d)'][n] = None
    <3>1. CASE d = k
      BY <1>2, <1>7, <1>12, <3>1
    <3>2. CASE d # k
      BY <1>1, <1>11, <3>2 DEF SameCopy
    <3> QED
      BY <3>1, <3>2
  <2> QED
    BY <1>3, <2>1, LinksStay
<1>15. PointInv'
  <2>1. \A i \in Inum : dinode[i].type # "free" /\ dinode'[i].type = "free" =>
            Sole(t[p], i) /\ ~Uses(cwd'[p], file'[p], t'[p], i)
    BY <1>2, <1>8, <1>11 DEF SameCopy
  <2>2. \A i \in Inum : Uses(cwd'[p], file'[p], t'[p], i) => Uses(cwd[p], file[p], t[p], i)
    BY <1>8
  <2> QED
    BY <1>5, <2>1, <2>2, PointsKept
<1>16. SoleInv'
  <2>1. \A i \in Inum : Uses(cwd'[p], file'[p], t'[p], i) => Uses(cwd[p], file[p], t[p], i)
    BY <1>8
  <2> QED
    BY <1>5, <1>9, <1>14, <2>1, SolesKept
<1>17. CallInv'
  <2>1. ASSUME NEW q \in Process \ {p} PROVE CallSound(q)'
    <3>0. ASSUME NEW i \in Inum, Keeps(file[q], t[q], i) PROVE i # k
      BY <1>2, <1>3, <3>0, OneKeeper
    <3>1. ASSUME NEW i \in Inum, Uses(cwd[q], file[q], t[q], i)
          PROVE  i # k /\ SameCopy(dinode'[i], dinode[i])
      BY <1>2, <1>7, <3>1
    <3>2. ASSUME NEW i \in Inum, Keeps(file[q], t[q], i)
          PROVE  /\ icache'[i].addr = icache[i].addr /\ Addr(i)' = Addr(i)
                 /\ dinode[i].type # "free" => SameCopy(dinode'[i], dinode[i])
                 /\ Addr(i) # None => dirent'[Addr(i)] = dirent[Addr(i)]
      BY <1>1, <1>6, <1>11, <3>0, <3>2
    <3>3. ASSUME NEW i \in Inum, t[q].pc \in {"iget", "fresh"}, t[q].ip = i
          PROVE  SameCopy(dinode'[i], dinode[i])
      <4>1. Uses(cwd[q], file[q], t[q], i)
        BY <3>3 DEF Uses
      <4> QED
        BY <3>1, <4>1
    <3>4. ASSUME NEW i \in Inum, Freed(t[q], i)
          PROVE  /\ dinode'[i].nlink = 0 /\ dinode'[i].addr = None
                 /\ \/ dinode'[i].type = "free"
                    \/ \E x \in Process : t'[x].pc \in {"iget", "fresh"} /\ t'[x].ip = i
      <4>1. i # k
        BY <1>3, <3>0, <3>4, OneKeeper
      <4>2. Ending(q) /\ t[q].pc = "iputend" /\ First(t[q]) = i
        BY <1>3, <3>4 DEF CallInv, CallSound, Freed
      <4>3. /\ dinode[i].nlink = 0 /\ dinode[i].addr = None
            /\ \/ dinode[i].type = "free"
               \/ \E x \in Process : t[x].pc \in {"iget", "fresh"} /\ t[x].ip = i
        BY <4>2 DEF Ending, EndPc
      <4>4. ASSUME NEW x \in Process, t[x].pc \in {"iget", "fresh"}, t[x].ip = i
            PROVE  t'[x].pc \in {"iget", "fresh"} /\ t'[x].ip = i
        BY <1>1, <1>4, <4>4
      <4> QED
        BY <1>11, <4>1, <4>3, <4>4 DEF SameCopy
    <3> QED
      BY <1>1, <1>5, <3>1, <3>2, <3>3, <3>4, OthersCalls DEF SameCopy
  <2>2. CallSound(p)'
    <3>1. \A i \in Inum : i # Put(p) => dinode'[i].type = dinode[i].type
      BY <1>11 DEF SameCopy, k
    <3>2. \A i \in Inum : i = Put(p) =>
            /\ dinode'[i].nlink = 0 /\ icache'[i].addr = None
            /\ t'[p].pc = "iputend" => dinode'[i].addr = None /\ dinode'[i].type = "free"
      BY <1>2, <1>6, <1>7 DEF k
    <3> QED
      BY <1>1, <1>4, <3>1, <3>2, LastCall
  <2> QED
    BY <2>1, <2>2 DEF CallInv
<1>18. FreeInv'
  <2>1. \A i \in Inum : icache'[i].ref = icache[i].ref /\ (icache[i].valid => icache'[i].valid)
    BY <1>6
  <2>2. \A i \in Inum : dinode'[i].type = "free" => dinode'[i].nlink = 0 /\ dinode'[i].addr = None
    BY <1>3, <1>7 DEF FreeInv, SameCopy
  <2>3. ASSUME NEW i \in Inum, dinode'[i].type # "free"
        PROVE  /\ dinode[i].type # "free" /\ dinode'[i].nlink = dinode[i].nlink
               /\ Uses(cwd[p], file[p], t[p], i) => Uses(cwd'[p], file'[p], t'[p], i)
    <3>1. i # k
      BY <1>7, <2>3
    <3> QED
      BY <1>7, <1>8, <2>3, <3>1 DEF SameCopy
  <2>4. t[p].pc # "fresh"
    BY <1>1
  <2> QED
    BY <1>5, <2>1, <2>2, <2>3, <2>4, FreeKept
<1>19. BlockInv'
  <2>1. \A i \in Inum : Addr(i)' = Addr(i) /\ (Addr(i) # None => i # k)
    BY <1>2, <1>11, <1>12
  <2>2. \A i \in Inum : i # k => dinode'[i].type = dinode[i].type
    BY <1>11 DEF SameCopy
  <2> QED
    BY <1>1, <1>3, <2>1, <2>2 DEF BlockInv
<1>20. DirInv'
  <2>1. \A i \in Inum : dinode'[i].type = "dir" =>
            \/ Addr(i)' # None
            \/ Unbuilt(t'[p], i)
            \/ dinode[i].type = "dir" /\ Addr(i) = None /\ ~Unbuilt(t[p], i)
    BY <1>7, <1>9, <1>11 DEF SameCopy
  <2>2. \A i \in Inum : i = Root =>
            /\ dinode'[i].type = dinode[i].type /\ Addr(i)' = Addr(i)
            /\ dirent'[Addr(i)][".."] = dirent[Addr(i)][".."]
    BY <1>1, <1>2, <1>11 DEF SameCopy
  <2> QED
    BY <1>5, <2>1, <2>2, DirKept
<1>21. \A i \in Inum : (\E l \in Links : l[3] = i) => InPlace(i)
  <2> SUFFICES ASSUME NEW i \in Inum, \E l \in Links : l[3] = i PROVE InPlace(i)
    OBVIOUS
  <2>1. i # k
    BY <1>2
  <2> QED
    BY <1>1, <1>11, <2>1 DEF InPlace, SameCopy
<1>22. TreeInv'
  BY <1>14, <1>21, TreeKept
<1>23. StayInv'
  <2>1. \A i \in Inum : dinode'[i].type = "dir" => dinode[i].type = "dir" /\ ~Building(t[p], i)
    BY <1>7, <1>9 DEF SameCopy
  <2>2. t'[p].pc # "downlink"
    BY <1>4
  <2> QED
    BY <1>1, <1>5, <1>14, <1>21, <2>1, <2>2, StayKept
<1>24. CountInv'
  <2>1. \A i \in Inum : dinode'[i].type # "free" =>
            dinode[i].type # "free" /\ dinode'[i].nlink = dinode[i].nlink
    BY <1>7 DEF SameCopy
  <2> QED
    BY <1>1, <1>5, <1>9, <1>14, <1>21, <2>1, CountKept
<1> QED
  BY <1>10, <1>13, <1>14, <1>15, <1>16, <1>17, <1>18, <1>19, <1>20, <1>22, <1>23, <1>24 DEF DInv

-----------------------------------------------------------------------------
\* Nothing but the address of the inode k in memory and what its block holds
\* changes; p has k to itself or locked, and it may be ahead of the disk after.
LEMMA Readdressed ==
  ASSUME DInv, IInv', NEW p \in Process, Others(p),
         UNCHANGED <<dinode, cwd, file, programs>>, t[p].pc # "fresh",
         NEW k \in Inum, Uses(cwd[p], file[p], t[p], k), icache[k].busy \in {p, NoProcess},
         k # Root, \A l \in Links : l[3] = k => dinode[k].type # "dir",
         \A i \in Inum \ {k} : Kept(i),
         \A i \in Inum \ {k} : Addr(i) # None => dirent'[Addr(i)] = dirent[Addr(i)],
         icache'[k].type = Locked(k).type, icache'[k].nlink = Locked(k).nlink,
         dinode[k].type = "dir" => Addr(k)' # None \/ Unbuilt(t'[p], k),
         \A i \in Inum : icache'[i].ref = icache[i].ref /\ (icache[i].valid => icache'[i].valid),
         \A i \in Inum : Held(p, i),
         t'[p].pc \in {"uplink", "balloc", "dots", "name", "downlink"} => t'[p].ip # t'[p].dp,
         Ahead(file[p], t'[p], k), \A i \in Inum : ~Freed(t[p], i) /\ (Ahead(file[p], t[p], i) => i = k),
         \A i \in Inum : /\ Uses(cwd[p], file[p], t'[p], i) <=> Uses(cwd[p], file[p], t[p], i)
                         /\ Unbuilt(t[p], i) => i = k
                         /\ Building(t'[p], i) <=> Building(t[p], i)
                         /\ PendIp(t'[p], i) <=> PendIp(t[p], i)
                         /\ PendDp(t'[p], i) <=> PendDp(t[p], i)
                         /\ Sole(t'[p], i) => Sole(t[p], i) 
                                /\ (Else(cwd[p], file[p], t'[p], i) <=> Else(cwd[p], file[p], t[p], i))
                                /\ (t'[p].pc \in FreshPc => t[p].pc \in FreshPc),
         t'[p].pc # "downlink",
         Links' \in SUBSET Links, Stay => Links' = Links,
         BlockInv',
         CallSound(p)',
         t[p].pc \in {"iget", "fresh"} =>
            t[p].ip \in {k} \/ (t'[p].pc \in {"iget", "fresh"} /\ t'[p].ip = t[p].ip)
  PROVE  DInv'
<1>3. /\ IInv /\ LockInv /\ CopyInv /\ PointInv /\ SoleInv /\ CallInv /\ FreeInv
      /\ BlockInv /\ DirInv /\ TreeInv /\ StayInv /\ CountInv
  BY DEF DInv
<1>4. LockInv'
  BY <1>3, LocksKept DEF Held
<1>5. ASSUME NEW i \in Inum \ {k}
      PROVE  /\ Kept(i) /\ SameCopy(dinode'[i], dinode[i]) /\ Addr(i)' = Addr(i)
  <2>1. Kept(i) /\ SameCopy(dinode'[i], dinode[i])
    BY DEF SameCopy
  <2>2. Mem(i) => icache'[i].ref > 0 /\ icache'[i].valid
    BY DEF Mem
  <2> QED
    BY <2>1, <2>2, AddrSame
<1>6. CopyInv'
  <2>1. ASSUME NEW i \in Inum \ {k} PROVE CopyAt(i)'
    <3>1. CopyAt(i) /\ ~Freed(t[p], i) /\ ~Ahead(file[p], t[p], i)
      BY <1>3 DEF CopyInv
    <3> QED
      BY <1>5, <3>1, CopySame
  <2>2. CopyAt(k)'
    <3>1. SUFFICES ASSUME Mem(k)'
                   PROVE  /\ icache'[k].nlink = dinode[k].nlink
                          /\ icache'[k].type = dinode[k].type
      BY DEF CopyAt
    <3>2. icache[k].ref > 0
      BY <3>1 DEF Mem
    <3>3. ASSUME Mem(k), NEW q \in Process, Freed(t[q], k) PROVE FALSE
      <4>1. icache[k].busy = q
        BY <1>3, <3>3, OneKeeper
      <4>2. q = p
        BY <4>1, FsAssumption
      <4> QED
        BY <3>3, <4>2
    <3>4. SameCopy(Locked(k), IF icache[k].valid THEN icache[k] ELSE dinode[k])
      BY <1>3, <3>2, LockedIs DEF IInv
    <3>5. CASE icache[k].valid
      <4>1. Mem(k)
        BY <3>2, <3>5 DEF Mem
      <4>2. icache[k].nlink = dinode[k].nlink /\ icache[k].type = dinode[k].type
        BY <1>3, <3>3, <4>1 DEF CopyInv, CopyAt
      <4> QED
        BY <3>4, <3>5, <4>2 DEF SameCopy
    <3>6. CASE ~icache[k].valid
      BY <3>4, <3>6 DEF SameCopy
    <3> QED
      BY <3>5, <3>6
  <2> QED
    BY <2>1, <2>2 DEF CopyInv
<1>7. PointInv'
  BY PointsKept
<1>8. SoleInv'
  <2>1. ASSUME NEW i \in Inum, Sole(t'[p], i)
        PROVE  /\ i # Root /\ ~Else(cwd'[p], file'[p], t'[p], i)
               /\ \A q \in Process \ {p} : ~Uses(cwd[q], file[q], t[q], i)
               /\ \A l \in Links' : l[3] # i /\ (t'[p].pc \in FreshPc => l[1] # i)
    <3>1. /\ Sole(t[p], i)
          /\ (Else(cwd[p], file[p], t'[p], i) <=> Else(cwd[p], file[p], t[p], i))
          /\ (t'[p].pc \in FreshPc => t[p].pc \in FreshPc)
      BY <2>1
    <3>2. /\ i # Root /\ ~Else(cwd[p], file[p], t[p], i)
          /\ \A q \in Process \ {p} : ~Uses(cwd[q], file[q], t[q], i)
          /\ \A l \in Links : l[3] # i /\ (t[p].pc \in FreshPc => l[1] # i)
      BY <1>3, <3>1 DEF SoleInv
    <3> QED
      BY <3>1, <3>2
  <2> QED
    BY <2>1, SolesKept
<1>9. CallInv'
  <2> DEFINE J == {k}
  <2>1. /\ J \in SUBSET Inum
        /\ \A j \in J : Uses(cwd[p], file[p], t[p], j) /\ icache[j].busy \in {p, NoProcess}
        /\ \A i \in Inum \ J : SameCopy(dinode'[i], dinode[i]) /\ Kept(i) /\ Addr(i)' = Addr(i)
        /\ \A j \in J : dinode'[j].type = dinode[j].type
        /\ \A i \in Inum \ J : Addr(i) # None => dirent'[Addr(i)] = dirent[Addr(i)]
        /\ t[p].pc \in {"iget", "fresh"} =>
            t[p].ip \in J \/ (t'[p].pc \in {"iget", "fresh"} /\ t'[p].ip = t[p].ip)
    BY <1>5
  <2> HIDE DEF J
  <2>2. \A q \in Process \ {p} : CallSound(q)'
    BY <2>1, OthersKept
  <2> QED
    BY <2>2 DEF CallInv
<1>10. FreeInv'
  <2>1. \A i \in Inum : dinode'[i].type = "free" => dinode'[i].nlink = 0 /\ dinode'[i].addr = None
    BY <1>3 DEF FreeInv
  <2> QED
    BY <2>1, FreeKept
<1>11. DirInv'
  <2>1. \A i \in Inum : dinode'[i].type = "dir" =>
            \/ Addr(i)' # None
            \/ Unbuilt(t'[p], i)
            \/ dinode[i].type = "dir" /\ Addr(i) = None /\ ~Unbuilt(t[p], i)
    BY <1>5
  <2>2. Addr(Root) # None
    BY <1>3 DEF DirInv
  <2>3. \A i \in Inum : i = Root =>
            /\ dinode'[i].type = dinode[i].type /\ Addr(i)' = Addr(i)
            /\ dirent'[Addr(i)][".."] = dirent[Addr(i)][".."]
    BY <1>5, <2>2
  <2> QED
    BY <2>1, <2>3, DirKept
<1>12. ASSUME NEW i \in Inum, NEW l \in Links, l[3] = i PROVE InPlace(i)
  <2>1. CASE i = k
    BY <1>12, <2>1 DEF InPlace
  <2>2. CASE i # k
    <3>1. dinode[i].type = "dir" => Addr(i) # None
      BY <1>3, <1>12 DEF TreeInv
    <3> QED
      BY <1>5, <2>2, <3>1 DEF InPlace
  <2> QED
    BY <2>1, <2>2
<1>13. \A i \in Inum : (\E l \in Links : l[3] = i) => InPlace(i)
  BY <1>12
<1>14. TreeInv'
  BY <1>13, TreeKept
<1>15. StayInv'
  <2>1. \A i \in Inum : dinode'[i].type = "dir" =>
            Building(t'[p], i) \/ (dinode[i].type = "dir" /\ ~Building(t[p], i))
    OBVIOUS
  <2> QED
    BY <1>13, <2>1, StayKept
<1>16. CountInv'
  <2>1. ASSUME NEW i \in Inum, dinode'[i].type # "free"
        PROVE  dinode[i].type # "free" /\ dinode'[i].nlink = dinode[i].nlink
    BY <2>1
  <2> QED
    BY <1>13, <2>1, CountKept
<1> QED
  BY <1>4, <1>6, <1>7, <1>8, <1>9, <1>10, <1>11, <1>14, <1>15, <1>16 DEF DInv

-----------------------------------------------------------------------------
\* itrunc() frees the block of an inode.
LEMMA ItruncDInv ==
  ASSUME DInv, NEW p \in Process, IInv', Itrunc(p)
  PROVE  DInv' /\ Links' = {l \in Links : l[1] # Put(p)}
<1> DEFINE r == t[p]
           s == t'[p]
           k == Put(p)
           a == icache[k].addr
<1>1. /\ r.pc = "itrunc"
      /\ icache' = SetAddr(icache, k, None)
      /\ Set(p, [pc |-> "ifree"])
      /\ UNCHANGED <<dinode, cwd, file, calls, programs>>
  BY DEF Itrunc, Still, SetAddr
<1>0. /\ a = None => UNCHANGED <<bitmap, dirent>>
      /\ a # None => /\ a \in bitmap
                     /\ dirent' = [dirent EXCEPT ![a] = NoEntries]
                     /\ bitmap' = bitmap \ {a}
  BY DEF Itrunc, bfree
<1>2. /\ First(r) = k /\ k \in Inum /\ Label(r) \in ThenPc /\ r.dp = None
      /\ Keeps(file[p], r, k) /\ Mem(k) /\ icache[k].busy = p
      /\ Addr(k) = a
      /\ icache[k].nlink = 0 /\ dinode[k].nlink = 0
      /\ Sole(r, k) /\ Uses(cwd[p], file[p], r, k)
      /\ dinode[k].type # "free" /\ k # Root
      /\ ~Else(cwd[p], file[p], r, k) /\ r.ip # k
      /\ \A q \in Process \ {p} : ~Uses(cwd[q], file[q], t[q], k)
      /\ \A l \in Links : l[3] # k
  BY <1>1, LastUse
<1>3. /\ IInv /\ LockInv /\ CopyInv /\ PointInv /\ SoleInv /\ CallInv /\ FreeInv
      /\ BlockInv /\ DirInv /\ TreeInv /\ StayInv /\ CountInv
  BY DEF DInv
<1>4. /\ \A q \in Process \ {p} : t'[q] = t[q]
      /\ s.pc = "ifree" /\ Label(s) = Label(r)
      /\ s.at = r.at /\ s.dp = r.dp /\ s.ip = r.ip /\ s.job = r.job /\ s.path = r.path
      /\ First(s) = First(r) /\ Second(s) = Second(r)
  BY <1>1, <1>3, Putting DEF PutPc
<1>5. Others(p)
  BY <1>1, <1>4 DEF Others
<1> HIDE DEF k
<1>6. ASSUME NEW i \in Inum
      PROVE  /\ icache'[i].type = icache[i].type /\ icache'[i].nlink = icache[i].nlink
             /\ icache'[i].ref = icache[i].ref
             /\ icache'[i].valid = icache[i].valid /\ icache'[i].busy = icache[i].busy
             /\ icache'[i].addr = IF k = i THEN None ELSE icache[i].addr
  BY <1>1, <1>2, <1>3, AddrIs DEF IInv
<1> HIDE DEF a
<1>7. a \in Block \cup {None} /\ None \notin Block
  BY <1>2, <1>3, AddrTyped DEF Block, None
<1>8. /\ \A b \in Block : b # a => dirent'[b] = dirent[b]
      /\ \A b \in Block : b = a => dirent'[b] = NoEntries
  BY <1>0, <1>3, <1>7 DEF IInv, TypeOK
<1>9. ASSUME NEW i \in Inum, i # k
      PROVE  /\ Kept(i) /\ Addr(i)' = Addr(i) /\ (Addr(i) # None => Addr(i) # a)
             /\ Addr(i) \in Block \cup {None}
  <2>1. Kept(i) /\ (Mem(i) => icache'[i].ref > 0 /\ icache'[i].valid)
    BY <1>6, <1>9 DEF Kept, SameCopy, Mem
  <2>2. SameCopy(dinode'[i], dinode[i])
    BY <1>1 DEF SameCopy
  <2>3. Addr(i)' = Addr(i)
    BY <2>1, <2>2, AddrSame
  <2>4. Addr(i) # None => Addr(i) # a
    BY <1>2, <1>3, <1>9 DEF BlockInv
  <2> QED
    BY <1>3, <2>1, <2>3, <2>4, AddrTyped
<1>10. ASSUME NEW i \in Inum, i = k PROVE Addr(i)' = None
  BY <1>2, <1>6, <1>10 DEF Addr, Mem
<1>11. ASSUME NEW i \in Inum
       PROVE  /\ Uses(cwd[p], file[p], s, i) <=> Uses(cwd[p], file[p], r, i)
              /\ Keeps(file[p], s, i) <=> Keeps(file[p], r, i)
              /\ ~Freed(r, i) /\ ~Ahead(file[p], r, i)
              /\ Ahead(file[p], s, i) <=> i = k
              /\ Sole(s, i) <=> Sole(r, i)
              /\ Else(cwd[p], file[p], s, i) <=> Else(cwd[p], file[p], r, i)
              /\ ~Unbuilt(r, i) /\ (Unbuilt(s, i) <=> i = k)
              /\ ~Building(r, i) /\ ~Building(s, i)
              /\ PendIp(s, i) <=> PendIp(r, i)
              /\ PendDp(s, i) <=> PendDp(r, i)
  <2>1. /\ Uses(cwd[p], file[p], s, i) <=> Uses(cwd[p], file[p], r, i)
        /\ Else(cwd[p], file[p], s, i) <=> Else(cwd[p], file[p], r, i)
    BY <1>1, <1>4 DEF Uses, Else, FreshPc
  <2>2. /\ Keeps(file[p], s, i) <=> Keeps(file[p], r, i)
        /\ ~Freed(r, i) /\ ~Ahead(file[p], r, i)
        /\ Ahead(file[p], s, i) <=> i = k
        /\ Sole(s, i) <=> Sole(r, i)
    BY <1>1, <1>2, <1>4 DEF Keeps, DpPc, EndPc, Freed, Ahead, Sole, FreshPc
  <2>3. /\ ~Unbuilt(r, i) /\ (Unbuilt(s, i) <=> i = k)
        /\ ~Building(r, i) /\ ~Building(s, i)
    BY <1>1, <1>2, <1>4 DEF Unbuilt, Building, FreshPc
  <2>4. /\ PendIp(s, i) <=> PendIp(r, i)
        /\ PendDp(s, i) <=> PendDp(r, i)
    BY <1>1, <1>4 DEF PendIp, PendDp
  <2> QED
    BY <2>1, <2>2, <2>3, <2>4
<1>12. ASSUME NEW i \in Inum PROVE Held(p, i)
  <2>1. icache'[i].busy # NoProcess => icache'[i].valid
    BY <1>3, <1>6 DEF LockInv
  <2> QED
    BY <1>1, <1>6, <1>11, <2>1 DEF Held
<1> DEFINE S == {l \in Links : l[1] # k}
<1>13. Links' = S
  <2>1. /\ \A d \in Inum, n \in Name : \A x :
          <<d, n, x>> \in Links <=> /\ dinode[d].type = "dir" /\ Addr(d) # None
                                    /\ dirent[Addr(d)][n] = x /\ x # None
        /\ \A l \in Links : /\ l[1] \in Inum /\ l[2] \in Name /\ l[3] \in Inum
                            /\ l = <<l[1], l[2], l[3]>>
    BY <1>3, LinksAre
  <2>2. ASSUME NEW d \in Inum, NEW n \in Name, NEW x \in Inum
        PROVE  <<d, n, x>> \in S <=>
                 dinode'[d].type = "dir" /\ Addr(d)' # None /\ dirent'[Addr(d)'][n] = x
    <3>0. <<d, n, x>> \in S <=> <<d, n, x>> \in Links /\ d # k
      OBVIOUS
    <3>1. x # None
      BY DEF None, Inum
    <3>2. CASE d = k
      BY <1>10, <3>0, <3>2
    <3>3. CASE d # k
      <4>1. Addr(d)' = Addr(d) /\ (Addr(d) # None => Addr(d) # a /\ Addr(d) \in Block)
        BY <1>9, <3>3
      <4>2. Addr(d) # None => dirent'[Addr(d)] = dirent[Addr(d)]
        BY <1>8, <4>1
      <4> QED
        BY <1>1, <2>1, <3>0, <3>1, <3>3, <4>1, <4>2
    <3> QED
      BY <3>2, <3>3
  <2>3. \A l \in S : l[1] \in Inum /\ l[2] \in Name /\ l[3] \in Inum /\ l = <<l[1], l[2], l[3]>>
    BY <2>1
  <2> HIDE DEF S
  <2> QED
    BY <2>2, <2>3, LinksBecome
<1>14. Stay => Links' = Links
  <2> SUFFICES ASSUME Stay, NEW l \in Links PROVE l[1] # k
    BY <1>13
  <2>1. PICK D \in SUBSET Name : DirsStay(programs, D)
    BY DEF Stay
  <2>2. SUFFICES ASSUME dinode[k].type = "dir" PROVE FALSE
    BY <1>3, LinksAre
  <2>3. k = Root \/ (\E m \in Links : m[3] = k) \/ \E q \in Process : Building(t[q], k)
    BY <1>2, <1>3, <2>1, <2>2 DEF StayInv
  <2>4. PICK q \in Process : Building(t[q], k)
    BY <1>2, <2>3
  <2>5. Uses(cwd[q], file[q], t[q], k)
    BY <2>4 DEF Building, Uses
  <2> QED
    BY <1>2, <1>11, <2>4, <2>5
<1>15. BlockInv'
  <2>1. ASSUME NEW i \in Inum, Addr(i)' # None
        PROVE  /\ Addr(i)' \in bitmap' /\ dinode'[i].type # "free"
               /\ Addr(i)' = Addr(i) /\ i # k
    <3>1. i # k /\ Addr(i)' = Addr(i) /\ Addr(i) # a
      BY <1>9, <1>10, <2>1
    <3>2. Addr(i) \in bitmap /\ dinode[i].type # "free"
      BY <1>3, <2>1, <3>1 DEF BlockInv
    <3> QED
      BY <1>0, <1>1, <3>1, <3>2
  <2>2. \A i, j \in Inum : Addr(i)' # None /\ Addr(i)' = Addr(j)' => i = j
    BY <1>3, <2>1 DEF BlockInv
  <2>3. ASSUME NEW b \in bitmap' PROVE \E i \in Inum : Addr(i)' = b
    <3>1. b \in bitmap /\ b # a
      BY <1>0, <1>3, <1>7, <2>3 DEF IInv, TypeOK
    <3>2. PICK i \in Inum : Addr(i) = b
      BY <1>3, <3>1 DEF BlockInv
    <3> QED
      BY <1>2, <1>9, <3>1, <3>2
  <2>4. ASSUME NEW b \in Block \ bitmap', NEW n \in Name PROVE dirent'[b][n] = None
    <3>1. CASE b = a
      BY <1>8, <3>1 DEF NoEntries, Entry
    <3>2. CASE b # a
      <4>1. b \in Block \ bitmap
        BY <1>0, <3>2
      <4> QED
        BY <1>3, <1>8, <3>2, <4>1 DEF BlockInv
    <3> QED
      BY <3>1, <3>2
  <2> QED
    BY <2>1, <2>2, <2>3, <2>4 DEF BlockInv
<1>16. CallSound(p)'
  <2>1. \A i \in Inum : i # Put(p) => dinode'[i].type = dinode[i].type
    BY <1>1
  <2>2. \A i \in Inum : i = Put(p) =>
            /\ dinode'[i].nlink = 0 /\ icache'[i].addr = None
            /\ t'[p].pc = "iputend" => dinode'[i].addr = None /\ dinode'[i].type = "free"
    BY <1>1, <1>2, <1>4, <1>6 DEF k
  <2> QED
    BY <1>1, <1>4, <2>1, <2>2, LastCall
<1>17. icache'[k].type = Locked(k).type /\ icache'[k].nlink = Locked(k).nlink
  <2>1. SameCopy(Locked(k), icache[k])
    BY <1>2, <1>3, LockedIs DEF IInv, Mem
  <2> QED
    BY <1>2, <1>6, <2>1 DEF SameCopy
<1>18. Links' \in SUBSET Links
  BY <1>13
<1>19. \A i \in Inum \ {k} : Addr(i) # None => dirent'[Addr(i)] = dirent[Addr(i)]
  BY <1>8, <1>9
<1>20. /\ Unbuilt(s, k) /\ Ahead(file[p], s, k)
       /\ s.pc \notin {"uplink", "balloc", "dots", "name", "downlink"} /\ s.pc # "downlink"
       /\ s.pc \notin FreshPc
  BY <1>2, <1>4, <1>11 DEF FreshPc
<1> HIDE DEF r, s, S
<1>21. DInv'
  BY <1>1, <1>2, <1>5, <1>6, <1>9, <1>11, <1>12, <1>14, <1>15, <1>16, <1>17, <1>18, <1>19, <1>20,
     Readdressed DEF r, s
<1> QED
  BY <1>13, <1>21 DEF S, k, r

-----------------------------------------------------------------------------
\* balloc() of a block for the inode k.
LEMMA BlockTaken ==
  ASSUME DInv, NEW k \in Inum, NEW b \in Block \ bitmap, bitmap' = bitmap \cup {b},
         UNCHANGED <<dinode, dirent>>, dinode[k].type # "free",
         Addr(k) = None, \A i \in Inum : Addr(i)' = IF i = k THEN b ELSE Addr(i)
  PROVE  BlockInv'
<1>1. BlockInv /\ IInv
  BY DEF DInv
<1>2. b # None
  BY DEF Block, None
<1>3. ASSUME NEW i \in Inum, Addr(i)' # None
      PROVE  Addr(i)' \in bitmap' /\ dinode'[i].type # "free" /\ (i # k => Addr(i)' \in bitmap)
  BY <1>1, <1>3 DEF BlockInv
<1>4. ASSUME NEW i \in Inum, NEW j \in Inum, Addr(i)' # None, Addr(i)' = Addr(j)' PROVE i = j
  <2>1. CASE i # k /\ j # k
    BY <1>1, <1>4, <2>1 DEF BlockInv
  <2>2. CASE i = k /\ j # k
    BY <1>3, <1>4, <2>2
  <2>3. CASE i # k /\ j = k
    BY <1>3, <1>4, <2>3
  <2> QED
    BY <2>1, <2>2, <2>3
<1>6. ASSUME NEW c \in bitmap' PROVE \E i \in Inum : Addr(i)' = c
  <2>1. CASE c = b
    BY <2>1
  <2>2. CASE c # b
    <3>1. PICK i \in Inum : Addr(i) = c
      BY <1>1, <1>6, <2>2 DEF BlockInv
    <3>2. c # None
      BY <1>1, <1>6, <2>2 DEF Block, None, IInv, TypeOK
    <3> QED
      BY <3>1, <3>2
  <2> QED
    BY <2>1, <2>2
<1>7. ASSUME NEW c \in Block \ bitmap', NEW n \in Name PROVE dirent'[c][n] = None
  BY <1>1, <1>7 DEF BlockInv
<1> QED
  BY <1>3, <1>4, <1>6, <1>7 DEF BlockInv

\* mkdir takes a block for the new directory.
LEMMA DotsBlockDInv ==
  ASSUME DInv, NEW p \in Process, IInv', DotsBlock(p)
  PROVE  DInv' /\ SameTree
<1> DEFINE r == t[p]
           s == t'[p]
           k == r.ip
           b == Min(Block \ bitmap)
<1>1. /\ r.pc = "balloc" /\ r.pc \in FreshPc /\ Block \ bitmap # {}
      /\ bitmap' = bitmap \cup {b}
      /\ icache' = SetAddr(icache, k, b)
      /\ Set(p, [pc |-> "dots"])
      /\ UNCHANGED <<dinode, dirent, cwd, file, calls, programs>>
  BY DEF DotsBlock, Balloc, Still, SetAddr, FreshPc
<1>2. /\ r.pc \in DpPc /\ k \in Inum /\ Sole(r, k) /\ k # r.dp /\ k # Root
      /\ Uses(cwd[p], file[p], r, k)
  BY <1>1, Makes
<1>3. /\ IInv /\ LockInv /\ CopyInv /\ PointInv /\ SoleInv /\ CallInv /\ FreeInv
      /\ BlockInv /\ DirInv /\ TreeInv /\ StayInv /\ CountInv
  BY DEF DInv
<1>4. /\ CallSound(p) /\ Label(r) = r.pc /\ r.dp \in Inum
      /\ First(r) = None /\ Second(r) = None /\ cwd[p] \in Inum
      /\ dinode[r.dp].type = "dir"
  BY <1>2, Holds
<1>5. /\ dinode[k].nlink = 1 /\ dinode[k].addr = None /\ r.job.op = "mkdir"
      /\ dinode[k].type = "dir"
  BY <1>1, <1>4 DEF CallSound, Making, Typing, FreshPc
<1>6. b \in Block \ bitmap
  <2>1. Block \ bitmap \subseteq Nat
    BY DEF Block
  <2> QED
    BY <1>1, <2>1, MinIsIn
<1>7. Keeps(file[p], r, k) /\ ~Freed(r, k) /\ ~Ahead(file[p], r, k)
  BY <1>1, <1>4 DEF Keeps, OwnPc, Freed, Ahead
<1>8. SameCopy(icache[k], dinode[k]) /\ Mem(k) /\ icache[k].busy = p /\ Addr(k) = None
      /\ SameCopy(Locked(k), icache[k])
  <2>1. SameCopy(icache[k], dinode[k]) /\ Mem(k) /\ Addr(k) = icache[k].addr
    BY <1>2, <1>7, Exact
  <2>2. icache[k].busy = p
    BY <1>2, <1>3, <1>7 DEF LockInv
  <2>3. SameCopy(Locked(k), icache[k])
    BY <1>2, <1>3, <2>1, LockedIs DEF IInv, Mem
  <2> QED
    BY <1>5, <2>1, <2>2, <2>3 DEF SameCopy
<1> HIDE DEF k, b
<1>9. /\ \A q \in Process \ {p} : t'[q] = t[q]
      /\ s.pc = "dots" /\ Label(s) = "dots" /\ First(s) = None /\ Second(s) = None
      /\ s.at = r.at /\ s.dp = r.dp /\ s.ip = r.ip /\ s.job = r.job /\ s.path = r.path
  BY <1>1, <1>3, <1>4, Goes DEF PutPc
<1>10. Others(p)
  BY <1>1, <1>9 DEF Others
<1>11. ASSUME NEW i \in Inum
       PROVE  /\ icache'[i].type = icache[i].type /\ icache'[i].nlink = icache[i].nlink
              /\ icache'[i].ref = icache[i].ref
              /\ icache'[i].valid = icache[i].valid /\ icache'[i].busy = icache[i].busy
              /\ icache'[i].addr = IF k = i THEN b ELSE icache[i].addr
  BY <1>1, <1>2, <1>3, AddrIs DEF IInv
<1>12. ASSUME NEW i \in Inum, i # k PROVE Kept(i) /\ Addr(i)' = Addr(i)
  <2>1. Kept(i) /\ (Mem(i) => icache'[i].ref > 0 /\ icache'[i].valid)
    BY <1>11, <1>12 DEF Kept, SameCopy, Mem
  <2>2. SameCopy(dinode'[i], dinode[i])
    BY <1>1 DEF SameCopy
  <2> QED
    BY <2>1, <2>2, AddrSame
<1>13. ASSUME NEW i \in Inum, i = k PROVE Addr(i)' = b
  BY <1>8, <1>11, <1>13 DEF Addr, Mem
<1>14. BlockInv'
  <2>1. \A i \in Inum : Addr(i)' = IF i = k THEN b ELSE Addr(i)
    BY <1>12, <1>13
  <2> QED
    BY <1>1, <1>2, <1>5, <1>6, <1>8, <2>1, BlockTaken
<1>15. \A n \in Name : dirent[b][n] = None
  BY <1>3, <1>6 DEF BlockInv
<1>16. Links' = Links
  <2>1. ASSUME NEW d \in Inum
        PROVE  /\ dinode[d].type = "dir" /\ Addr(d) # None =>
                              /\ dinode'[d].type = "dir" /\ Addr(d)' # None
                              /\ \A n \in Name : dirent'[Addr(d)'][n] = dirent[Addr(d)][n]
               /\ dinode'[d].type = "dir" /\ Addr(d)' # None =>
                              \/ dinode[d].type = "dir" /\ Addr(d) # None
                              \/ \A n \in Name : dirent'[Addr(d)'][n] = None
    <3>1. CASE d = k
      BY <1>1, <1>8, <1>13, <1>15, <3>1
    <3>2. CASE d # k
      BY <1>1, <1>12, <3>2
    <3> QED
      BY <3>1, <3>2
  <2> QED
    BY <1>3, <2>1, LinksStay
<1>17. ASSUME NEW i \in Inum
       PROVE  /\ Uses(cwd[p], file[p], s, i) <=> Uses(cwd[p], file[p], r, i)
              /\ Keeps(file[p], s, i) <=> Keeps(file[p], r, i)
              /\ ~Freed(r, i) /\ ~Ahead(file[p], r, i)
              /\ Ahead(file[p], s, i) <=> i = k
              /\ Sole(s, i) <=> Sole(r, i)
              /\ Else(cwd[p], file[p], s, i) <=> Else(cwd[p], file[p], r, i)
              /\ Unbuilt(r, i) => i = k
              /\ Building(r, i) <=> Building(s, i)
              /\ PendIp(s, i) <=> PendIp(r, i)
              /\ PendDp(s, i) <=> PendDp(r, i)
  <2>1. /\ Uses(cwd[p], file[p], s, i) <=> Uses(cwd[p], file[p], r, i)
        /\ Else(cwd[p], file[p], s, i) <=> Else(cwd[p], file[p], r, i)
    BY <1>1, <1>4, <1>9 DEF Uses, Else, FreshPc
  <2>2. /\ Keeps(file[p], s, i) <=> Keeps(file[p], r, i)
    BY <1>1, <1>4, <1>9 DEF Keeps, DpPc, EndPc, OwnPc
  <2>3. /\ ~Freed(r, i) /\ ~Ahead(file[p], r, i)
        /\ Ahead(file[p], s, i) <=> i = k
        /\ Sole(s, i) <=> Sole(r, i)
        /\ Unbuilt(r, i) => i = k
        /\ Building(r, i) <=> Building(s, i)
    BY <1>1, <1>9 DEF Unbuilt, Building, FreshPc, Freed, Ahead, Sole, k
  <2>4. /\ PendIp(s, i) <=> PendIp(r, i)
        /\ PendDp(s, i) <=> PendDp(r, i)
    BY <1>1, <1>4, <1>9 DEF PendIp, PendDp, DueIp
  <2> QED
    BY <2>1, <2>2, <2>3, <2>4
<1>18. ASSUME NEW i \in Inum PROVE Held(p, i)
  <2>1. icache'[i].busy # NoProcess => icache'[i].valid
    BY <1>3, <1>11 DEF LockInv
  <2> QED
    BY <1>1, <1>11, <1>17, <2>1 DEF Held
<1>19. CallSound(p)'
  <2>1. Typing(p)
    BY <1>4 DEF CallSound
  <2>2. Typing(p)'
    BY <1>1, <1>9, <2>1 DEF Typing, FreshPc
  <2>3. Ending(p)'
    BY <1>9 DEF Ending, EndPc
  <2>4. Making(p)'
    <3>1. s.ip = k
      BY <1>9 DEF k
    <3>2. ASSUME NEW i \in Inum, i = s.ip
          PROVE  /\ dinode'[i].nlink = 1 /\ dinode'[i].addr = None
                 /\ Addr(i)' # None /\ \A n \in Name : dirent'[Addr(i)'][n] = None
      <4>1. b # None
        BY <1>6 DEF Block, None
      <4> QED
        BY <1>1, <1>5, <1>13, <1>15, <3>1, <3>2, <4>1
    <3>3. t'[p].ip \in Inum
      BY <1>2, <3>1
    <3> QED
      BY <1>5, <1>9, <3>2, <3>3 DEF Making, FreshPc, Made
  <2>5. Going(p)'
    <3>1. ASSUME NEW i \in Inum, i = r.dp PROVE Addr(i)' = Addr(i)
      BY <1>2, <1>12, <3>1
    <3> QED
      BY <1>1, <1>9, <3>1, GoingOn DEF FreshPc
  <2> QED
    BY <2>2, <2>3, <2>4, <2>5 DEF CallSound
<1>20. /\ icache'[k].type = Locked(k).type /\ icache'[k].nlink = Locked(k).nlink
       /\ \A l \in Links : l[3] # k
       /\ s.ip # s.dp /\ s.pc # "downlink"
  BY <1>2, <1>3, <1>8, <1>9, <1>11 DEF SameCopy, SoleInv, k
<1>21. ASSUME NEW i \in Inum, i = k, dinode[i].type = "dir"
       PROVE  Addr(i)' # None \/ Unbuilt(t'[p], i)
  <2>1. b # None
    BY <1>6 DEF Block, None
  <2> QED
    BY <1>13, <1>21, <2>1
<1> HIDE DEF r, s
<1>22. DInv'
  BY <1>1, <1>2, <1>10, <1>11, <1>12, <1>14, <1>16, <1>17, <1>18, <1>19, <1>20, <1>21, <1>8,
     Readdressed DEF r, s
<1>23. SameTree
  BY <1>1, <1>16 DEF SameTree
<1> QED
  BY <1>22, <1>23

-----------------------------------------------------------------------------
\* write takes a block for its file.
LEMMA WriteBlockDInv ==
  ASSUME DInv, NEW p \in Process, IInv', WriteBlock(p)
  PROVE  DInv' /\ SameTree
<1> DEFINE r == t[p]
           s == t'[p]
           k == file[p]
           b == Min(Block \ bitmap)
           c == ilock(icache, k, p)
<1>1. /\ r.pc = "write" /\ At(p, "write") /\ Block \ bitmap # {}
      /\ Locked(k).type = "file" /\ Locked(k).addr = None
      /\ bitmap' = bitmap \cup {b}
      /\ icache' = SetAddr(c, k, b)
      /\ Set(p, [pc |-> "grow"])
      /\ UNCHANGED <<dinode, dirent, cwd, file, calls, programs>>
  BY DEF WriteBlock, Balloc, Still, SetAddr, At
<1>2. /\ IInv /\ LockInv /\ CopyInv /\ PointInv /\ SoleInv /\ CallInv /\ FreeInv
      /\ BlockInv /\ DirInv /\ TreeInv /\ StayInv /\ CountInv
  BY DEF DInv
<1>3. /\ cwd[p] \in Inum /\ CallSound(p)
      /\ r.at = None /\ r.dp = None /\ r.ip = None
      /\ Calm(r) /\ Label(r) = r.pc
      /\ First(r) = None /\ Second(r) = None /\ k \in Inum
  BY <1>1, Bare
<1>4. Uses(cwd[p], file[p], r, k) /\ icache[k].ref > 0 /\ icache[k].busy = NoProcess
  <2>1. Uses(cwd[p], file[p], r, k)
    BY DEF Uses, Else
  <2>2. icache[k].ref > 0
    BY <1>1, <1>2, <1>3, <2>1, InUse
  <2>3. Wanted(p) = k /\ k # None
    BY <1>1, <1>3 DEF Wanted, Waits, Inum, None
  <2> QED
    BY <1>1, <2>1, <2>2, <2>3 DEF At
<1>5. dinode[k].type = "file" /\ Addr(k) = None /\ dinode[k].addr = None
      /\ Locked(k).nlink = dinode[k].nlink
  BY <1>1, <1>2, <1>3, <1>4, Seen
<1>6. b \in Block \ bitmap
  <2>1. Block \ bitmap \subseteq Nat
    BY DEF Block
  <2> QED
    BY <1>1, <2>1, MinIsIn
<1>7. k # Root
  BY <1>2, <1>5 DEF DirInv
<1>8. CacheTyped(c)
  BY <1>2, <1>3, CacheLock DEF IInv
<1> HIDE DEF k, b
<1>9. /\ \A q \in Process \ {p} : t'[q] = t[q]
      /\ s.pc = "grow" /\ Label(s) = "grow" /\ First(s) = None /\ Second(s) = None
      /\ s.at = None /\ s.dp = None /\ s.ip = None
  BY <1>1, <1>2, <1>3, Goes DEF PutPc
<1>10. Others(p)
  BY <1>1, <1>9 DEF Others
<1>11. ASSUME NEW i \in Inum
       PROVE  /\ icache'[i].ref = icache[i].ref
              /\ icache'[i].busy = IF k = i THEN p ELSE icache[i].busy
              /\ icache[i].valid => icache'[i].valid
              /\ k = i => /\ icache'[i].valid /\ icache'[i].addr = b
                          /\ icache'[i].type = Locked(k).type
                          /\ icache'[i].nlink = Locked(k).nlink
              /\ k # i => icache'[i].valid = icache[i].valid /\ SameCopy(icache'[i], icache[i])
  <2>1. /\ icache'[i].type = c[i].type /\ icache'[i].nlink = c[i].nlink
        /\ icache'[i].ref = c[i].ref
        /\ icache'[i].valid = c[i].valid /\ icache'[i].busy = c[i].busy
        /\ icache'[i].addr = IF k = i THEN b ELSE c[i].addr
    BY <1>1, <1>3, <1>8, AddrIs
  <2>2. /\ c[i].ref = icache[i].ref /\ c[i].busy = IF k = i THEN p ELSE icache[i].busy
        /\ k = i => c[i].valid
        /\ icache[i].valid => c[i].valid
        /\ k # i => c[i].valid = icache[i].valid
        /\ icache[i].valid \/ k # i => SameCopy(c[i], icache[i])
        /\ k = i /\ ~icache[i].valid => SameCopy(c[i], dinode[i])
    BY <1>2, <1>3, LockIs DEF IInv
  <2>3. SameCopy(Locked(k), IF icache[k].valid THEN icache[k] ELSE dinode[k])
    BY <1>2, <1>3, <1>4, LockedIs DEF IInv
  <2> HIDE DEF c
  <2> QED
    BY <2>1, <2>2, <2>3 DEF SameCopy
<1>12. ASSUME NEW i \in Inum, i # k PROVE Kept(i) /\ Addr(i)' = Addr(i)
  <2>1. Kept(i) /\ (Mem(i) => icache'[i].ref > 0 /\ icache'[i].valid)
    BY <1>11, <1>12 DEF Kept, SameCopy, Mem
  <2>2. SameCopy(dinode'[i], dinode[i])
    BY <1>1 DEF SameCopy
  <2> QED
    BY <2>1, <2>2, AddrSame
<1>13. ASSUME NEW i \in Inum, i = k PROVE Addr(i)' = b
  BY <1>4, <1>11, <1>13 DEF Addr
<1>14. BlockInv'
  <2>1. \A i \in Inum : Addr(i)' = IF i = k THEN b ELSE Addr(i)
    BY <1>12, <1>13
  <2> QED
    BY <1>1, <1>3, <1>5, <1>6, <2>1, BlockTaken
<1>16. Links' = Links
  <2>1. ASSUME NEW d \in Inum
        PROVE  /\ dinode[d].type = "dir" /\ Addr(d) # None =>
                              /\ dinode'[d].type = "dir" /\ Addr(d)' # None
                              /\ \A n \in Name : dirent'[Addr(d)'][n] = dirent[Addr(d)][n]
               /\ dinode'[d].type = "dir" /\ Addr(d)' # None =>
                              \/ dinode[d].type = "dir" /\ Addr(d) # None
                              \/ \A n \in Name : dirent'[Addr(d)'][n] = None
    <3>1. CASE d = k
      BY <1>1, <1>5, <3>1
    <3>2. CASE d # k
      BY <1>1, <1>12, <3>2
    <3> QED
      BY <3>1, <3>2
  <2> QED
    BY <1>2, <2>1, LinksStay
<1>17. ASSUME NEW i \in Inum
       PROVE  /\ Uses(cwd[p], file[p], s, i) <=> Uses(cwd[p], file[p], r, i)
              /\ ~Keeps(file[p], r, i) /\ (Keeps(file[p], s, i) <=> i = k)
              /\ ~Freed(r, i) /\ ~Ahead(file[p], r, i)
              /\ Ahead(file[p], s, i) <=> i = k
              /\ ~Sole(s, i) /\ ~Unbuilt(r, i)
              /\ Building(r, i) <=> Building(s, i)
              /\ PendIp(s, i) <=> PendIp(r, i)
              /\ PendDp(s, i) <=> PendDp(r, i)
  <2>1. Uses(cwd[p], file[p], s, i) <=> Uses(cwd[p], file[p], r, i)
    <3>1. Uses(cwd[p], file[p], r, i) <=>
            \/ cwd[p] = i \/ file[p] = i \/ r.at = i \/ r.dp = i \/ r.ip = i
            \/ First(r) = i \/ Second(r) = i
      BY <1>1, PlainUses DEF FreshPc
    <3>2. Uses(cwd[p], file[p], s, i) <=>
            \/ cwd[p] = i \/ file[p] = i \/ s.at = i \/ s.dp = i \/ s.ip = i
            \/ First(s) = i \/ Second(s) = i
      BY <1>9, PlainUses DEF FreshPc
    <3> HIDE DEF r, s
    <3> QED
      BY <1>3, <1>9, <3>1, <3>2
  <2>2. /\ ~Keeps(file[p], r, i) /\ (Keeps(file[p], s, i) <=> i = k)
    BY <1>1, <1>3, <1>9 DEF Keeps, DpPc, EndPc, OwnPc, k
  <2>3. /\ ~Freed(r, i) /\ ~Ahead(file[p], r, i)
        /\ Ahead(file[p], s, i) <=> i = k
        /\ ~Sole(s, i) /\ ~Unbuilt(r, i)
        /\ Building(r, i) <=> Building(s, i)
    BY <1>1, <1>9 DEF Unbuilt, Building, FreshPc, Freed, Ahead, Sole, k
  <2>4. /\ PendIp(s, i) <=> PendIp(r, i)
        /\ PendDp(s, i) <=> PendDp(r, i)
    BY <1>1, <1>3, <1>9 DEF PendIp, PendDp, DueIp
  <2> QED
    BY <2>1, <2>2, <2>3, <2>4
<1>18. ASSUME NEW i \in Inum PROVE Held(p, i)
  <2>1. icache'[i].busy # NoProcess => icache'[i].valid
    BY <1>2, <1>11 DEF LockInv
  <2> QED
    BY <1>1, <1>4, <1>11, <1>17, <2>1 DEF Held, k
<1>19. CallSound(p)'
  <2>1. dinode[cwd[p]].type = "dir"
    BY <1>3 DEF CallSound, Typing
  <2>2. Typing(p)'
    BY <1>1, <1>5, <1>9, <2>1 DEF Typing, FreshPc, k
  <2>3. Ending(p)'
    BY <1>9 DEF Ending, EndPc
  <2>4. Making(p)'
    BY <1>1, <1>5, <1>9 DEF Making, FreshPc, Made, k
  <2>5. Going(p)'
    BY <1>9 DEF Going, LookPc, FreshPc
  <2> QED
    BY <2>2, <2>3, <2>4, <2>5 DEF CallSound
<1>20. /\ icache'[k].type = Locked(k).type /\ icache'[k].nlink = Locked(k).nlink
       /\ r.pc \notin {"fresh", "iget"} /\ dinode[k].type # "dir"
       /\ s.pc \notin {"uplink", "balloc", "dots", "name", "downlink"}
       /\ icache[k].busy \in {p, NoProcess}
  BY <1>1, <1>3, <1>4, <1>5, <1>9, <1>11
<1> HIDE DEF r, s, c
<1>21. DInv'
  BY <1>1, <1>2, <1>3, <1>4, <1>7, <1>10, <1>11, <1>12, <1>14, <1>16, <1>17, <1>18, <1>19, <1>20,
     Readdressed DEF r, s
<1>22. SameTree
  BY <1>1, <1>16 DEF SameTree
<1> QED
  BY <1>21, <1>22

-----------------------------------------------------------------------------
\* mkdir writes . and .. to the new directory's block.
LEMMA DotsDInv ==
  ASSUME DInv, Orderly, NEW p \in Process, IInv', Dots(p)
  PROVE  DInv' /\ SameTree
<1> DEFINE r == t[p]
           s == t'[p]
           k == r.ip
           a == icache[k].addr
<1>1. /\ r.pc = "dots" /\ r.pc \in FreshPc
      /\ dirent' = [dirent EXCEPT ![a][".."] = r.dp]
      /\ iupdate(k, icache[k])
      /\ Set(p, [pc |-> "name"])
      /\ UNCHANGED <<bitmap, icache, cwd, file, calls, programs>>
  BY DEF Dots, Still, FreshPc
<1>2. /\ r.pc \in DpPc /\ k \in Inum /\ Sole(r, k) /\ k # r.dp /\ k # Root
      /\ Uses(cwd[p], file[p], r, k)
  BY <1>1, Makes
<1>3. /\ IInv /\ LockInv /\ CopyInv /\ PointInv /\ SoleInv /\ CallInv /\ FreeInv
      /\ BlockInv /\ DirInv /\ TreeInv /\ StayInv /\ CountInv
  BY DEF DInv
<1>4. /\ CallSound(p) /\ Label(r) = r.pc /\ r.dp \in Inum
      /\ First(r) = None /\ Second(r) = None /\ cwd[p] \in Inum
      /\ dinode[r.dp].type = "dir" /\ Addr(r.dp) # None
  BY <1>2, Holds
<1>5. /\ dinode[k].nlink = 1 /\ r.job.op = "mkdir"
      /\ dinode[k].type = "dir" /\ Addr(k) # None
      /\ \A n \in Name : dirent[Addr(k)][n] = None
  BY <1>1, <1>4 DEF CallSound, Making, Typing, FreshPc, Made
<1>6. Keeps(file[p], r, k) /\ ~Freed(r, k)
  BY <1>1, <1>4 DEF Keeps, OwnPc, Freed
<1>7. /\ Mem(k) /\ Addr(k) = a /\ icache[k].busy = p
      /\ icache[k].type = dinode[k].type /\ icache[k].nlink = dinode[k].nlink
  BY <1>2, <1>6, Counted1
<1> HIDE DEF k, a
<1>8. a \in Block
  BY <1>2, <1>3, <1>5, <1>7, AddrTyped
<1>9. ASSUME NEW b \in Block
      PROVE  /\ b # a => dirent'[b] = dirent[b]
             /\ \A n \in Name : dirent'[b][n] = dirent[b][n]
             /\ b = a => dirent'[b][".."] = r.dp
  <2>1. dirent \in [Block -> [Entry -> Inum \cup {None}]]
    BY <1>3 DEF IInv, TypeOK
  <2>2. \A n \in Name : n # ".." /\ n \in Entry
    BY DEF Orderly, Entry
  <2>3. ".." \in Entry
    BY DEF Entry
  <2> QED
    BY <1>1, <1>8, <2>1, <2>2, <2>3
<1>10. /\ \A q \in Process \ {p} : t'[q] = t[q]
      /\ s.pc = "name" /\ Label(s) = "name" /\ First(s) = None /\ Second(s) = None
      /\ s.at = r.at /\ s.dp = r.dp /\ s.ip = r.ip /\ s.job = r.job /\ s.path = r.path
  BY <1>1, <1>3, <1>4, Goes DEF PutPc
<1>11. Others(p)
  BY <1>1, <1>10 DEF Others
<1>12. ASSUME NEW i \in Inum
       PROVE  /\ Kept(i) /\ (Mem(i) => icache'[i].ref > 0 /\ icache'[i].valid)
              /\ dinode'[i].type = dinode[i].type /\ dinode'[i].nlink = dinode[i].nlink
              /\ i # k => SameCopy(dinode'[i], dinode[i])
              /\ i = k => dinode'[i].addr = a
              /\ Addr(i)' = Addr(i)
  <2>1. Kept(i) /\ (Mem(i) => icache'[i].ref > 0 /\ icache'[i].valid)
    BY <1>1 DEF Kept, SameCopy, Mem
  <2>2. /\ k = i => SameCopy(dinode'[i], icache[k])
        /\ k # i => SameCopy(dinode'[i], dinode[i])
    BY <1>1, <1>2, <1>3, UpdateIs
  <2>3. i # k => Addr(i)' = Addr(i)
    BY <2>1, <2>2, AddrSame
  <2>4. i = k => Addr(i)' = Addr(i)
    BY <1>1, <1>7 DEF Addr, Mem
  <2> QED
    BY <1>7, <2>1, <2>2, <2>3, <2>4 DEF SameCopy, a
<1>13. ASSUME NEW i \in Inum, i # k, Addr(i) # None PROVE dirent'[Addr(i)] = dirent[Addr(i)]
  <2>1. Addr(i) \in Block
    BY <1>3, <1>13, AddrTyped
  <2>2. Addr(i) # a
    BY <1>2, <1>3, <1>7, <1>13 DEF BlockInv
  <2> QED
    BY <1>9, <2>1, <2>2
<1>14. ASSUME NEW i \in Inum, Addr(i) # None, NEW n \in Name
       PROVE  dirent'[Addr(i)][n] = dirent[Addr(i)][n]
  <2>1. Addr(i) \in Block
    BY <1>3, <1>14, AddrTyped
  <2> QED
    BY <1>9, <2>1
<1>15. Links' = Links
  <2>1. ASSUME NEW d \in Inum
        PROVE  /\ dinode[d].type = "dir" /\ Addr(d) # None =>
                              /\ dinode'[d].type = "dir" /\ Addr(d)' # None
                              /\ \A n \in Name : dirent'[Addr(d)'][n] = dirent[Addr(d)][n]
               /\ dinode'[d].type = "dir" /\ Addr(d)' # None =>
                              \/ dinode[d].type = "dir" /\ Addr(d) # None
                              \/ \A n \in Name : dirent'[Addr(d)'][n] = None
    BY <1>12, <1>14
  <2> QED
    BY <1>3, <2>1, LinksStay
<1>16. ASSUME NEW i \in Inum
       PROVE  /\ Uses(cwd[p], file[p], s, i) <=> Uses(cwd[p], file[p], r, i)
              /\ Keeps(file[p], s, i) <=> Keeps(file[p], r, i)
              /\ ~Freed(r, i)
              /\ ~Ahead(file[p], s, i) /\ (Ahead(file[p], r, i) => i = k)
              /\ Sole(s, i) <=> Sole(r, i)
              /\ Else(cwd[p], file[p], s, i) <=> Else(cwd[p], file[p], r, i)
              /\ ~Unbuilt(r, i)
              /\ Building(r, i) <=> Building(s, i)
              /\ PendIp(s, i) <=> PendIp(r, i)
              /\ PendDp(s, i) <=> PendDp(r, i)
  <2>1. /\ Uses(cwd[p], file[p], s, i) <=> Uses(cwd[p], file[p], r, i)
        /\ Else(cwd[p], file[p], s, i) <=> Else(cwd[p], file[p], r, i)
    BY <1>1, <1>4, <1>10 DEF Uses, Else, FreshPc
  <2>2. /\ Keeps(file[p], s, i) <=> Keeps(file[p], r, i)
    BY <1>1, <1>4, <1>10 DEF Keeps, DpPc, EndPc, OwnPc
  <2>3. /\ ~Freed(r, i)
        /\ ~Ahead(file[p], s, i) /\ (Ahead(file[p], r, i) => i = k)
        /\ Sole(s, i) <=> Sole(r, i)
        /\ ~Unbuilt(r, i)
        /\ Building(r, i) <=> Building(s, i)
    BY <1>1, <1>10 DEF Unbuilt, Building, FreshPc, Freed, Ahead, Sole, k
  <2>4. /\ PendIp(s, i) <=> PendIp(r, i)
        /\ PendDp(s, i) <=> PendDp(r, i)
    BY <1>1, <1>4, <1>10 DEF PendIp, PendDp, DueIp
  <2> QED
    BY <2>1, <2>2, <2>3, <2>4
<1>17. LockInv'
  <2>1. \A i \in Inum : icache'[i].busy = icache[i].busy
           /\ (icache'[i].busy # NoProcess => icache'[i].valid)
    BY <1>1, <1>3 DEF LockInv
  <2>2. s.ip # s.dp
    BY <1>2, <1>10 DEF k
  <2> HIDE DEF r, s
  <2> QED
    BY <1>1, <1>3, <1>11, <1>16, <2>1, <2>2, LocksKept DEF r, s
<1>18. CopyInv'
  <2>1. ASSUME NEW i \in Inum, i # k PROVE CopyAt(i)'
    BY <1>1, <1>3, <1>11, <1>12, <1>16, <2>1, CopySame DEF CopyInv
  <2>2. ASSUME NEW i \in Inum, i = k PROVE CopyAt(i)'
    BY <1>1, <1>7, <1>12, <2>2 DEF CopyAt, a
  <2> QED
    BY <2>1, <2>2 DEF CopyInv
<1>19. PointInv'
  <2> HIDE DEF r, s
  <2> QED
    BY <1>1, <1>11, <1>12, <1>16, PointsKept DEF r, s
<1>20. SoleInv'
  <2>1. ASSUME NEW i \in Inum, Sole(s, i)
        PROVE  /\ i # Root /\ ~Else(cwd'[p], file'[p], s, i)
               /\ \A q \in Process \ {p} : ~Uses(cwd[q], file[q], t[q], i)
               /\ \A l \in Links' : l[3] # i /\ (s.pc \in FreshPc => l[1] # i)
    <3>1. Sole(r, i)
      BY <1>16, <2>1
    <3> HIDE DEF s
    <3> QED
      BY <1>1, <1>3, <1>15, <1>16, <3>1 DEF SoleInv
  <2> HIDE DEF r, s
  <2> QED
    BY <1>1, <1>11, <1>15, <1>16, <2>1, SolesKept DEF r, s
<1>21. CallSound(p)'
  <2>1. Typing(p)
    BY <1>4 DEF CallSound
  <2>2. Typing(p)'
    <3>1. s.ip \in Inum /\ s.dp \in Inum /\ cwd'[p] \in Inum
      BY <1>1, <1>2, <1>4, <1>10 DEF k
    <3> QED
      BY <1>1, <1>10, <1>12, <2>1, <3>1 DEF Typing, FreshPc
  <2>3. Ending(p)'
    BY <1>10 DEF Ending, EndPc
  <2>4. Making(p)'
    <3>1. s.ip = k
      BY <1>10 DEF k
    <3>2. ASSUME NEW i \in Inum, i = s.ip
          PROVE  /\ dinode'[i].nlink = 1
                 /\ Addr(i)' # None /\ \A n \in Name : dirent'[Addr(i)'][n] = None
                 /\ dirent'[Addr(i)'][".."] = s.dp
      <4>1. i = k
        BY <3>1, <3>2
      <4>2. Addr(i)' = a
        BY <1>7, <1>12, <4>1
      <4> QED
        BY <1>5, <1>7, <1>8, <1>9, <1>10, <1>12, <4>1, <4>2
    <3>3. t'[p].ip \in Inum
      BY <1>2, <3>1
    <3> QED
      BY <1>5, <1>10, <3>2, <3>3 DEF Making, FreshPc, Made
  <2>5. Going(p)'
    <3>1. ASSUME NEW i \in Inum, i = r.dp
          PROVE  Addr(i)' = Addr(i) /\ dirent'[Addr(i)] = dirent[Addr(i)]
      BY <1>2, <1>4, <1>12, <1>13, <3>1
    <3> QED
      BY <1>1, <1>10, <3>1, GoingOn DEF FreshPc
  <2> QED
    BY <2>2, <2>3, <2>4, <2>5 DEF CallSound
<1>22. CallInv'
  <2>1. \A q \in Process \ {p} : CallSound(q)'
    <3> DEFINE J == {k}
    <3>1. \A j \in J : Uses(cwd[p], file[p], t[p], j) /\ icache[j].busy \in {p, NoProcess}
      BY <1>2, <1>7
    <3>2. J \in SUBSET Inum
      BY <1>2
    <3>3. \A i \in Inum \ J : SameCopy(dinode'[i], dinode[i]) /\ Kept(i) /\ Addr(i)' = Addr(i)
      BY <1>12
    <3>4. \A i \in Inum \ J : Addr(i) # None => dirent'[Addr(i)] = dirent[Addr(i)]
      BY <1>13
    <3>5. t[p].pc \notin {"iget", "fresh"}
      BY <1>1
    <3>6. \A j \in J : dinode'[j].type = dinode[j].type \/ Sole(t[p], j)
      BY <1>2, <1>12
    <3>7. programs' = programs
      BY <1>1
    <3> HIDE DEF r, s, J
    <3> QED
      BY <1>11, <3>1, <3>2, <3>3, <3>4, <3>5, <3>6, <3>7, OthersKept
  <2> QED
    BY <1>21, <2>1 DEF CallInv
<1>23. FreeInv'
  <2>1. ASSUME NEW i \in Inum, dinode'[i].type = "free"
        PROVE  dinode'[i].nlink = 0 /\ dinode'[i].addr = None
    BY <1>3, <1>5, <1>12, <2>1 DEF FreeInv, SameCopy
  <2> HIDE DEF r, s
  <2> QED
    BY <1>1, <1>11, <1>12, <1>16, <2>1, FreeKept DEF r, s
<1>24. BlockInv'
  <2>1. \A b \in Block \ bitmap' : \A n \in Name : dirent'[b][n] = None
    BY <1>1, <1>3, <1>9 DEF BlockInv
  <2> QED
    BY <1>1, <1>3, <1>12, <2>1 DEF BlockInv
<1>25. ASSUME NEW i \in Inum, dinode[i].type = "dir", i # k, Addr(i) # None
       PROVE  dirent'[Addr(i)][".."] = dirent[Addr(i)][".."]
  BY <1>13, <1>25
<1>26. DirInv'
  <2>1. dinode[Root].type = "dir" /\ Addr(Root) # None
    BY <1>3 DEF DirInv
  <2> HIDE DEF r, s
  <2> QED
    BY <1>2, <1>11, <1>12, <1>16, <1>25, <2>1, DirKept DEF r, s
<1>27. ASSUME NEW i \in Inum, \E l \in Links : l[3] = i PROVE InPlace(i)
  <2>1. PICK l \in Links : l[3] = i
    BY <1>27
  <2>2. i # k
    BY <1>2, <1>3, <2>1 DEF SoleInv
  <2>3. dinode[i].type = "dir" => Addr(i) # None
    BY <1>3, <2>1 DEF TreeInv
  <2> QED
    BY <1>12, <1>25, <2>2, <2>3 DEF InPlace
<1>28. TreeInv'
  BY <1>15, <1>27, TreeKept
<1>29. StayInv'
  <2>1. s.pc # "downlink"
    BY <1>10
  <2> HIDE DEF r, s
  <2> QED
    BY <1>1, <1>11, <1>12, <1>15, <1>16, <1>27, <2>1, StayKept DEF r, s
<1>30. CountInv'
  <2> HIDE DEF r, s
  <2> QED
    BY <1>1, <1>11, <1>12, <1>15, <1>16, <1>27, CountKept DEF r, s
<1>31. SameTree
  BY <1>12, <1>15 DEF SameTree
<1> QED
  BY <1>17, <1>18, <1>19, <1>20, <1>22, <1>23, <1>24, <1>26, <1>28, <1>29, <1>30, <1>31 DEF DInv

-----------------------------------------------------------------------------
(* Steps that set an entry of a directory *)

\* p sets the entry n of the directory d to e.
Enters(p, d, n, e) ==
    /\ dinode[d].type = "dir" /\ Addr(d) # None
    /\ Uses(cwd[p], file[p], t[p], d) /\ icache[d].busy \in {p, NoProcess}
    /\ e # None => Uses(cwd[p], file[p], t[p], e)
    /\ dirent' = [dirent EXCEPT ![Addr(d)][n] = e]

\* dirlink() makes a link: the parts of the invariant that create and link share.
LEMMA Linking ==
  ASSUME DInv, Orderly, NEW p \in Process, IInv', Others(p),
         NEW d \in Inum, NEW n \in Name, NEW e \in Inum \cup {None}, Enters(p, d, n, e),
         UNCHANGED <<dinode, bitmap, cwd, file, programs>>,
         \A i \in Inum : /\ Kept(i) /\ icache'[i].ref = icache[i].ref
                         /\ icache[i].valid => icache'[i].valid,
         \A i \in Inum : Held(p, i),
         t'[p].pc \in {"uplink", "balloc", "dots", "name", "downlink"} => t'[p].ip # t'[p].dp,
         \A i \in Inum : /\ ~Freed(t[p], i) /\ ~Ahead(file[p], t[p], i)
                         /\ ~Sole(t'[p], i) /\ ~Unbuilt(t[p], i)
                         /\ Uses(cwd[p], file[p], t'[p], i) <=> Uses(cwd[p], file[p], t[p], i),
         t[p].pc \notin {"iget", "fresh"},
         CallSound(p)'
  PROVE  /\ LockInv' /\ CopyInv' /\ PointInv' /\ SoleInv' /\ CallInv' /\ FreeInv' /\ BlockInv'
         /\ DirInv'
         /\ \A i \in Inum : Addr(i)' = Addr(i)
         /\ \A i \in Inum : Addr(i) # None => dirent'[Addr(i)][".."] = dirent[Addr(i)][".."]
         /\ Links' = {l \in Links : ~(l[1] = d /\ l[2] = n)}
                        \cup (IF e = None THEN {} ELSE {<<d, n, e>>})
<1>0. Enters(p, d, n, e)
  OBVIOUS
<1> USE <1>0 DEF Enters
<1>1. /\ IInv /\ LockInv /\ CopyInv /\ PointInv /\ SoleInv /\ CallInv /\ FreeInv
      /\ BlockInv /\ DirInv /\ TreeInv /\ StayInv /\ CountInv
  BY DEF DInv
<1>2. ASSUME NEW i \in Inum PROVE Addr(i)' = Addr(i) /\ SameCopy(dinode'[i], dinode[i])
  <2>1. SameCopy(dinode'[i], dinode[i])
    BY DEF SameCopy
  <2>2. Mem(i) => icache'[i].ref > 0 /\ icache'[i].valid
    BY DEF Mem
  <2> QED
    BY <2>1, <2>2, AddrSame
<1>3. Addr(d) \in bitmap /\ Addr(d) \in Block
  BY <1>1, AddrTyped DEF BlockInv
<1>4. ASSUME NEW b \in Block
      PROVE  /\ b # Addr(d) => dirent'[b] = dirent[b]
             /\ dirent'[b][".."] = dirent[b][".."]
             /\ \A m \in Name : dirent'[b][m] = IF b = Addr(d) /\ m = n THEN e ELSE dirent[b][m]
  <2>1. dirent \in [Block -> [Entry -> Inum \cup {None}]]
    BY <1>1 DEF IInv, TypeOK
  <2>2. \A m \in Name : m # ".." /\ m \in Entry
    BY DEF Orderly, Entry
  <2>3. ".." \in Entry
    BY DEF Entry
  <2> QED
    BY <1>3, <2>1, <2>2, <2>3
<1>5. ASSUME NEW i \in Inum, i # d, Addr(i) # None PROVE dirent'[Addr(i)] = dirent[Addr(i)]
  <2>1. Addr(i) \in Block
    BY <1>1, <1>5, AddrTyped
  <2>2. Addr(i) # Addr(d)
    BY <1>1, <1>5 DEF BlockInv
  <2> QED
    BY <1>4, <2>1, <2>2
<1>6. ASSUME NEW i \in Inum, Addr(i) # None
      PROVE  dirent'[Addr(i)][".."] = dirent[Addr(i)][".."]
  <2>1. Addr(i) \in Block
    BY <1>1, <1>6, AddrTyped
  <2> QED
    BY <1>4, <2>1
<1>7. LockInv'
  BY <1>1, LocksKept DEF Held
<1>8. CopyInv'
  BY <1>1, <1>2, CopySame DEF CopyInv
<1>9. PointInv'
  BY PointsKept
<1> DEFINE S == {l \in Links : ~(l[1] = d /\ l[2] = n)}
                        \cup (IF e = None THEN {} ELSE {<<d, n, e>>})
<1>10. Links' = S
  <2>1. ASSUME NEW l \in S
        PROVE  l[1] \in Inum /\ l[2] \in Name /\ l[3] \in Inum /\ l = <<l[1], l[2], l[3]>>
    BY <1>1, LinksAre
  <2>2. ASSUME NEW f \in Inum, NEW m \in Name, NEW x \in Inum
        PROVE  <<f, m, x>> \in S <=> dinode'[f].type = "dir" /\ Addr(f)' # None /\ dirent'[Addr(f)'][m] = x
    <3>1. <<f, m, x>> \in Links <=>
            dinode[f].type = "dir" /\ Addr(f) # None /\ dirent[Addr(f)][m] = x
      BY <1>1, LinksAre DEF Inum, None
    <3>2. CASE f = d /\ m = n
      <4>1. <<f, m, x>> \in S <=> e = x
        BY <3>2 DEF Inum, None
      <4>2. dirent'[Addr(d)][n] = e
        BY <1>3, <1>4
      <4> QED
        BY <1>2, <3>2, <4>1, <4>2
    <3>3. CASE ~(f = d /\ m = n)
      <4>1. <<f, m, x>> \in S <=> <<f, m, x>> \in Links
        BY <3>3
      <4>2. Addr(f) # None => dirent'[Addr(f)][m] = dirent[Addr(f)][m]
        <5>1. CASE f = d
          BY <1>3, <1>4, <3>3, <5>1
        <5>2. CASE f # d
          BY <1>5, <5>2
        <5> QED
          BY <5>1, <5>2
      <4> QED
        BY <1>2, <3>1, <4>1, <4>2
    <3> QED
      BY <3>2, <3>3
  <2> HIDE DEF S
  <2> QED
    BY <2>1, <2>2, LinksBecome
<1>11. SoleInv'
  <2>1. ASSUME NEW l \in Links', l \notin Links, NEW q \in Process \ {p}
        PROVE  ~Sole(t[q], l[1]) /\ ~Sole(t[q], l[3])
    <3>1. l[1] = d /\ l[3] = e /\ e # None
      BY <1>10, <2>1
    <3> QED
      BY <3>1, SoleUser
  <2> QED
    BY <2>1, SolesKept
<1>12. CallInv'
  <2> DEFINE J == {d}
  <2>1. /\ J \in SUBSET Inum
        /\ \A j \in J : Uses(cwd[p], file[p], t[p], j) /\ icache[j].busy \in {p, NoProcess}
        /\ \A j \in J : dinode'[j].type = dinode[j].type
    OBVIOUS
  <2>2. \A i \in Inum \ J : SameCopy(dinode'[i], dinode[i]) /\ Kept(i) /\ Addr(i)' = Addr(i)
    BY <1>2
  <2>3. \A i \in Inum \ J : Addr(i) # None => dirent'[Addr(i)] = dirent[Addr(i)]
    BY <1>5
  <2> HIDE DEF J
  <2>4. \A q \in Process \ {p} : CallSound(q)'
    BY <2>1, <2>2, <2>3, OthersKept
  <2> QED
    BY <2>4 DEF CallInv
<1>13. FreeInv'
  <2>1. ASSUME NEW i \in Inum, dinode'[i].type = "free"
        PROVE  dinode'[i].nlink = 0 /\ dinode'[i].addr = None
    BY <1>1, <2>1 DEF FreeInv
  <2>2. t[p].pc # "fresh" /\ cwd' = cwd /\ file' = file
    OBVIOUS
  <2>3. ASSUME NEW i \in Inum, dinode'[i].type # "free"
        PROVE  /\ dinode[i].type # "free" /\ dinode'[i].nlink = dinode[i].nlink
               /\ Uses(cwd[p], file[p], t[p], i) => Uses(cwd'[p], file'[p], t'[p], i)
    BY <2>2, <2>3
  <2> QED
    BY <2>1, <2>2, <2>3, FreeKept
<1>14. BlockInv'
  <2>1. \A b \in Block \ bitmap' : \A m \in Name : dirent'[b][m] = None
    BY <1>1, <1>3, <1>4 DEF BlockInv
  <2> QED
    BY <1>1, <1>2, <2>1 DEF BlockInv
<1>15. DirInv'
  <2>1. dinode[Root].type = "dir" /\ Addr(Root) # None
    BY <1>1 DEF DirInv
  <2> QED
    BY <1>2, <1>6, <2>1, DirKept
<1> QED
  BY <1>2, <1>6, <1>7, <1>8, <1>9, <1>10, <1>11, <1>12, <1>13, <1>14, <1>15

\* A new link, to an inode that holds none.
LEMMA TreeGrows ==
  ASSUME DInv, NEW d \in Inum, NEW n \in Name, NEW i \in Inum, dinode' = dinode,
         Links' = Links \cup {<<d, n, i>>},
         \A x \in Inum : Addr(x)' = Addr(x),
         \A x \in Inum : Addr(x) # None => dirent'[Addr(x)][".."] = dirent[Addr(x)][".."],
         dinode[i].type # "free", i # Root, i # d,
         dinode[i].type = "dir" => Addr(i) # None /\ dirent[Addr(i)][".."] = d,
         \A m \in Links : m[1] # i
  PROVE  TreeInv'
<1> DEFINE L == <<d, n, i>>
<1>1. IInv /\ TreeInv
  BY DEF DInv
<1>2. IsFiniteSet(Links')
  BY <1>1, FS_AddElement DEF TreeInv
<1>3. ASSUME NEW l \in Links'
      PROVE  /\ dinode'[l[3]].type # "free" /\ l[3] # Root
             /\ dinode'[l[3]].type = "dir" =>
                   Addr(l[3])' # None /\ dirent'[Addr(l[3])'][".."] = l[1]
  <2>1. CASE l \in Links
    <3>1. l[3] \in Inum
      BY <1>1, <2>1, LinksAre
    <3> QED
      BY <1>1, <2>1, <3>1 DEF TreeInv
  <2>2. CASE l = L
    <3>1. l[3] = i /\ l[1] = d
      BY <2>2
    <3> QED
      BY <3>1
  <2> QED
    BY <1>3, <2>1, <2>2
<1>4. ASSUME NEW l \in Links', NEW m \in Links', l[3] = m[1], m[3] = l[1] PROVE FALSE
  <2>1. \A k \in Links' : k \in Links \/ (k[1] = d /\ k[3] = i)
    OBVIOUS
  <2>2. ~(l \in Links /\ m \in Links)
    BY <1>1, <1>4 DEF TreeInv
  <2> QED
    BY <1>4, <2>1, <2>2
<1>5. ASSUME NEW l \in Links'
      PROVE  (dinode[l[3]].type = "dir" => Addr(l[3]) # None /\ dirent[Addr(l[3])][".."] = l[1])'
  BY <1>3, <1>5
<1>6. \A l \in Links' : dinode'[l[3]].type # "free" /\ l[3] # Root
  BY <1>3
<1> QED
  BY <1>2, <1>4, <1>5, <1>6 DEF TreeInv

-----------------------------------------------------------------------------
\* The counts stay when the link L comes or goes and p takes note of it.
LEMMA CountBalanced ==
  ASSUME DInv, NEW p \in Process, Others(p), dinode' = dinode, programs' = programs,
         NEW L, Links \ {L} = Links' \ {L},
         \A x \in Inum : dinode[x].type # "free" =>
            /\ One(L \in Links' /\ L[3] = x) - One(L \in Links /\ L[3] = x)
                  + One(PendIp(t'[p], x)) - One(PendIp(t[p], x)) = 0
            /\ One(L \in Links' /\ L[1] = x /\ dinode[L[3]].type = "dir")
                  - One(L \in Links /\ L[1] = x /\ dinode[L[3]].type = "dir")
                  + One(PendDp(t'[p], x)) - One(PendDp(t[p], x)) = 0
  PROVE  CountInv'
<1>1. IsFiniteSet(Links) /\ CountInv
  BY DEF DInv, TreeInv
<1>2. ASSUME NEW x \in Inum, dinode[x].type # "free" PROVE Due(x)' = Due(x)
  <2>1. /\ IsFiniteSet(To(x)) /\ IsFiniteSet(Under(x))
        /\ Cardinality(To(x)) \in Nat /\ Cardinality(Under(x)) \in Nat
        /\ Cardinality(ForIp(x)) \in Nat /\ Cardinality(ForDp(x)) \in Nat
    BY <1>1, DueTyped
  <2>2. /\ Cardinality(ForIp(x))' = Cardinality(ForIp(x)) + One(PendIp(t'[p], x)) - One(PendIp(t[p], x))
        /\ Cardinality(ForDp(x))' = Cardinality(ForDp(x)) + One(PendDp(t'[p], x)) - One(PendDp(t[p], x))
    BY CallsDue
  <2>3. Cardinality(To(x)') = Cardinality(To(x)) + One(L \in To(x)') - One(L \in To(x))
    <3>1. To(x) \ {L} = To(x)' \ {L}
      BY DEF To
    <3> QED
      BY <2>1, <3>1, TallyIs
  <2>4. Cardinality(Under(x)') = Cardinality(Under(x)) + One(L \in Under(x)') - One(L \in Under(x))
    <3>1. Under(x) \ {L} = Under(x)' \ {L}
      BY DEF Under
    <3> QED
      BY <2>1, <3>1, TallyIs
  <2>5. /\ L \in To(x)' <=> L \in Links' /\ L[3] = x
        /\ L \in To(x) <=> L \in Links /\ L[3] = x
        /\ L \in Under(x)' <=> L \in Links' /\ L[1] = x /\ dinode[L[3]].type = "dir"
        /\ L \in Under(x) <=> L \in Links /\ L[1] = x /\ dinode[L[3]].type = "dir"
    BY DEF To, Under
  <2>6. \A b : One(b) \in Nat
    BY DEF One
  <2> DEFINE a1 == One(L \in Links' /\ L[3] = x)
             a2 == One(L \in Links /\ L[3] = x)
             a3 == One(PendIp(t'[p], x))
             a4 == One(PendIp(t[p], x))
             b1 == One(L \in Links' /\ L[1] = x /\ dinode[L[3]].type = "dir")
             b2 == One(L \in Links /\ L[1] = x /\ dinode[L[3]].type = "dir")
             b3 == One(PendDp(t'[p], x))
             b4 == One(PendDp(t[p], x))
  <2>7. /\ a1 \in Nat /\ a2 \in Nat /\ a3 \in Nat /\ a4 \in Nat
        /\ b1 \in Nat /\ b2 \in Nat /\ b3 \in Nat /\ b4 \in Nat
    BY <2>6
  <2>8. a1 - a2 + a3 - a4 = 0 /\ b1 - b2 + b3 - b4 = 0
    BY <1>2
  <2>9. /\ Cardinality(To(x)') = Cardinality(To(x)) + a1 - a2
        /\ Cardinality(Under(x)') = Cardinality(Under(x)) + b1 - b2
        /\ Cardinality(ForIp(x)') = Cardinality(ForIp(x)) + a3 - a4
        /\ Cardinality(ForDp(x)') = Cardinality(ForDp(x)) + b3 - b4
    <3>1. One(L \in To(x)') = a1 /\ One(L \in To(x)) = a2
      BY <2>5 DEF One
    <3>2. One(L \in Under(x)') = b1 /\ One(L \in Under(x)) = b2
      BY <2>5 DEF One
    <3> QED
      BY <2>2, <2>3, <2>4, <3>1, <3>2
  <2> HIDE DEF a1, a2, a3, a4, b1, b2, b3, b4
  <2> DEFINE T == Cardinality(To(x))
             U == Cardinality(Under(x))
             I == Cardinality(ForIp(x))
             D == Cardinality(ForDp(x))
             T1 == Cardinality(To(x)')
             U1 == Cardinality(Under(x)')
             I1 == Cardinality(ForIp(x)')
             D1 == Cardinality(ForDp(x)')
             z == One(x = Root)
  <2>12. z \in Nat
    BY <2>6
  <2>13. Due(x) = z + T + U + I + D /\ Due(x)' = z + T1 + U1 + I1 + D1
    BY DEF Due
  <2>14. T \in Nat /\ U \in Nat /\ I \in Nat /\ D \in Nat
    BY <2>1
  <2>15. T1 = T + a1 - a2 /\ U1 = U + b1 - b2 /\ I1 = I + a3 - a4 /\ D1 = D + b3 - b4
    BY <2>9
  <2> HIDE DEF T, U, I, D, T1, U1, I1, D1, z
  <2> QED
    BY <2>7, <2>8, <2>12, <2>13, <2>14, <2>15
<1>3. Stay' <=> Stay
  BY DEF Stay
<1> QED
  BY <1>1, <1>2, <1>3 DEF CountInv

\* The name of the file or directory that a call makes or removes.
LEMMA ItsName ==
  ASSUME DInv, NEW p \in Process, t[p].pc \in {"name", "victim"},
         t[p].job.op \in {"mkdir", "unlink"}, NEW D, DirsStay(programs, D)
  PROVE  /\ t[p].job.op = "mkdir" /\ Elem(p) # ".." => Elem(p) \in D
         /\ t[p].job.op = "unlink" => Elem(p) \notin D
<1>1. /\ CallSound(p) /\ t[p].job \in Jobs[programs] /\ Label(t[p]) = t[p].pc
      /\ t[p].path \in Seq(Entry)
  BY Holds DEF DpPc
<1>2. /\ Len(t[p].path) = 1
      /\ t[p].path # <<>> => End(t[p].path) = End(t[p].job.path)
      /\ t[p].path # <<>> => t[p].job.path # <<>>
  <2>1. Going(p) /\ Label(t[p]) \in LookPc /\ Label(t[p]) # "walk"
    BY <1>1 DEF CallSound, LookPc, FreshPc
  <2>2. t[p].job.op \in {"mkdir", "unlink"}
    OBVIOUS
  <2>3. Len(t[p].path) = 1
    BY <2>1 DEF Going
  <2>4. t[p].path # <<>> => /\ t[p].job.path # <<>>
                            /\ End(t[p].path) = End(t[p].job.path)
    BY <2>1, <2>2 DEF Going
  <2> QED
    BY <2>3, <2>4
<1>3. t[p].path # <<>>
  <2>1. ASSUME t[p].path = <<>> PROVE FALSE
    <3>1. Len(t[p].path) = Len(<<>>)
      BY <2>1, Zenon
    <3>2. Len(<<>>) = 0
      OBVIOUS
    <3>3. Len(t[p].path) = 1
      BY <1>2
    <3> QED
      BY <3>1, <3>2, <3>3
  <2> QED
    BY <2>1
<1>4. End(t[p].path) = Elem(p)
  BY <1>2 DEF End, Elem
<1> QED
  BY <1>1, <1>2, <1>3, <1>4 DEF DirsStay

\* unlink clears the entry.
LEMMA UnlinkEntryDInv ==
  ASSUME DInv, Orderly, NEW p \in Process, IInv', UnlinkEntry(p)
  PROVE  /\ DInv' /\ Links' = Links \ {<<t[p].dp, Elem(p), t[p].ip>>}
         /\ <<t[p].dp, Elem(p), t[p].ip>> \in Links
         /\ t[p].ip \in Inum /\ icache[t[p].ip].busy = NoProcess /\ icache[t[p].ip].ref > 0
<1> DEFINE r == t[p]
           s == t'[p]
           i == r.ip
           d == r.dp
           n == Elem(p)
           c == ilock(icache, i, p)
           L == <<d, n, i>>
<1>1. /\ r.pc = "victim" /\ At(p, "victim") /\ Locked(i).nlink >= 1
      /\ dirent' = [dirent EXCEPT ![icache[d].addr][n] = None]
      /\ \/ /\ Locked(i).type = "dir"
            /\ icache' = c
            /\ Set(p, [done |-> TRUE, pc |-> "downlink"])
         \/ /\ Locked(i).type # "dir"
            /\ icache' = iunlock(c, d)
            /\ Puts(p, <<d>>, "unlinked", [done |-> TRUE, dp |-> None])
      /\ UNCHANGED <<dinode, bitmap, cwd, file, calls, programs>>
  BY DEF UnlinkEntry, Still, At
<1>2. /\ IInv /\ LockInv /\ CopyInv /\ PointInv /\ SoleInv /\ CallInv /\ FreeInv
      /\ BlockInv /\ DirInv /\ TreeInv /\ StayInv /\ CountInv
  BY DEF DInv
<1>3. /\ CallSound(p) /\ Label(r) = r.pc /\ d \in Inum /\ r.at = None
      /\ First(r) = None /\ Second(r) = None /\ cwd[p] \in Inum /\ i \in Inum
      /\ dinode[d].type = "dir" /\ Addr(d) # None
      /\ Keeps(file[p], r, d) /\ Mem(d) /\ icache[d].busy = p
      /\ Uses(cwd[p], file[p], r, d)
  BY <1>1, Holds DEF DpPc
<1>4. Addr(d) = icache[d].addr
  BY <1>3 DEF Addr, Mem
<1>5. /\ r.job.op = "unlink" /\ n # ".." /\ dirent[Addr(d)][n] = i
  BY <1>1, <1>3 DEF CallSound, Going
<1>6. n \in Name
  <2>1. n \in Entry
    BY <1>1, LastName
  <2> QED
    BY <1>5, <2>1 DEF Entry
<1>7. L \in Links /\ L[1] = d /\ L[2] = n /\ L[3] = i
  BY <1>2, <1>3, <1>5, <1>6, LinksAre DEF Inum, None
<1>8. icache[i].busy = NoProcess /\ icache[i].ref > 0 /\ i # d
  <2>1. Wanted(p) = i /\ i # None
    BY <1>1, <1>3 DEF Wanted, Waits, Inum, None
  <2>2. icache[i].busy = NoProcess
    BY <1>1, <2>1 DEF At
  <2>3. Uses(cwd[p], file[p], r, i)
    BY DEF Uses
  <2>4. icache[i].ref > 0
    BY <1>1, <1>2, <1>3, <2>3, InUse
  <2>5. p # NoProcess
    BY FsAssumption
  <2> QED
    BY <1>3, <2>2, <2>4, <2>5
<1>9. Locked(i).type = dinode[i].type
  BY <1>2, <1>3, <1>8, Seen
<1>10. CacheTyped(c)
  BY <1>2, <1>3, CacheLock DEF IInv
<1> HIDE DEF i, d, n, L
<1>11. ASSUME NEW x \in Inum
       PROVE  /\ icache'[x].ref = icache[x].ref
              /\ icache'[x].busy = IF x = i THEN p
                                   ELSE IF x = d /\ dinode[i].type # "dir" THEN NoProcess
                                   ELSE icache[x].busy
              /\ icache[x].valid => icache'[x].valid
              /\ x = i => icache'[x].valid
              /\ x # i => icache'[x].valid = icache[x].valid
              /\ Kept(x)
  <2>1. /\ c[x].ref = icache[x].ref /\ c[x].busy = IF i = x THEN p ELSE icache[x].busy
        /\ i = x => c[x].valid
        /\ icache[x].valid => c[x].valid
        /\ i # x => c[x].valid = icache[x].valid
        /\ icache[x].valid \/ i # x => SameCopy(c[x], icache[x])
        /\ i = x /\ ~icache[x].valid => SameCopy(c[x], dinode[x])
    BY <1>2, <1>3, LockIs DEF IInv
  <2>2. LET e == iunlock(c, d) IN
        /\ e[x].ref = c[x].ref /\ e[x].busy = IF d = x THEN NoProcess ELSE c[x].busy
        /\ e[x].valid = c[x].valid /\ SameCopy(e[x], c[x])
    BY <1>3, <1>10, UnlockIs
  <2> HIDE DEF c
  <2>3. CASE dinode[i].type = "dir"
    <3>1. icache' = c
      BY <1>1, <1>9, <2>3 DEF i
    <3> QED
      BY <2>1, <2>3, <3>1 DEF Kept, Mem, SameCopy
  <2>4. CASE dinode[i].type # "dir"
    <3>1. icache' = iunlock(c, d)
      BY <1>1, <1>9, <2>4 DEF i, d
    <3> QED
      BY <1>8, <2>1, <2>2, <2>4, <3>1 DEF Kept, Mem, SameCopy
  <2> QED
    BY <2>3, <2>4
<1>12. /\ \A q \in Process \ {p} : t'[q] = t[q]
       /\ s.at = None /\ s.ip = i /\ Second(s) = None
       /\ dinode[i].type = "dir" => /\ s.pc = "downlink" /\ Label(s) = "downlink"
                                    /\ s.dp = d /\ First(s) = None
       /\ dinode[i].type # "dir" => /\ s.pc = "iput" /\ Label(s) = "unlinked"
                                    /\ s.dp = None /\ First(s) = d
  <2>1. CASE dinode[i].type = "dir"
    <3>1. Set(p, [done |-> TRUE, pc |-> "downlink"])
      BY <1>1, <1>9, <2>1 DEF i
    <3> QED
      BY <1>1, <1>2, <1>3, <2>1, <3>1, Goes DEF PutPc, i, d
  <2>2. CASE dinode[i].type # "dir"
    <3>1. Puts(p, <<d>>, "unlinked", [done |-> TRUE, dp |-> None])
      BY <1>1, <1>9, <2>2 DEF i, d
    <3> QED
      <4>1. "unlinked" \in ThenPc /\ t[p].pc \notin PutPc
        BY <1>1 DEF ThenPc, PutPc
      <4>2. /\ \A q \in Process \ {p} : t'[q] = t[q]
            /\ s.pc = "iput" /\ Label(s) = "unlinked"
            /\ s.at = r.at /\ s.dp = None /\ s.ip = r.ip
            /\ First(s) = d /\ Second(s) = None
        BY <1>2, <1>3, <3>1, <4>1, GivesOne
      <4> QED
        BY <1>3, <2>2, <4>2 DEF i
  <2> QED
    BY <2>1, <2>2
<1>13. Others(p)
  BY <1>1, <1>12 DEF Others
<1>14. ASSUME NEW x \in Inum
       PROVE  /\ Uses(cwd[p], file[p], s, x) <=> Uses(cwd[p], file[p], r, x)
              /\ Keeps(file[p], r, x) <=> x = d
              /\ Keeps(file[p], s, x) <=> x = i \/ (x = d /\ dinode[i].type = "dir")
              /\ ~Freed(r, x) /\ ~Ahead(file[p], r, x)
              /\ ~Sole(s, x) /\ ~Unbuilt(r, x) /\ ~Building(r, x)
              /\ ~PendIp(r, x) /\ ~PendDp(r, x)
              /\ PendIp(s, x) <=> x = i
              /\ PendDp(s, x) <=> x = d /\ dinode[i].type = "dir"
  <2>1. Uses(cwd[p], file[p], s, x) <=> Uses(cwd[p], file[p], r, x)
    <3>1. Uses(cwd[p], file[p], r, x) <=>
            \/ cwd[p] = x \/ file[p] = x \/ r.at = x \/ r.dp = x \/ r.ip = x
            \/ First(r) = x \/ Second(r) = x
      BY <1>1, PlainUses DEF FreshPc
    <3>2. s.pc \notin FreshPc \cup {"iputend"}
      BY <1>12 DEF FreshPc
    <3>3. Uses(cwd[p], file[p], s, x) <=>
            \/ cwd[p] = x \/ file[p] = x \/ s.at = x \/ s.dp = x \/ s.ip = x
            \/ First(s) = x \/ Second(s) = x
      BY <3>2, PlainUses
    <3>4. r.ip = i /\ r.dp = d /\ x # None
      BY DEF i, d, Inum, None
    <3> HIDE DEF r, s
    <3> QED
      BY <1>3, <1>12, <3>1, <3>3, <3>4
  <2>2. Keeps(file[p], r, x) <=> x = d
    BY <1>1, <1>3 DEF Keeps, DpPc, EndPc, OwnPc, d
  <2>3. Keeps(file[p], s, x) <=> x = i \/ (x = d /\ dinode[i].type = "dir")
    BY <1>12 DEF Keeps, DpPc, EndPc, OwnPc
  <2>4. /\ ~Freed(r, x) /\ ~Ahead(file[p], r, x)
        /\ ~Sole(s, x) /\ ~Unbuilt(r, x) /\ ~Building(r, x)
    BY <1>1, <1>12 DEF Unbuilt, Building, FreshPc, Freed, Ahead, Sole
  <2>5. /\ ~PendIp(r, x) /\ ~PendDp(r, x)
        /\ PendIp(s, x) <=> x = i
        /\ PendDp(s, x) <=> x = d /\ dinode[i].type = "dir"
    BY <1>1, <1>3, <1>12 DEF PendIp, PendDp, DueIp, Inum, None
  <2> QED
    BY <2>1, <2>2, <2>3, <2>4, <2>5
<1>15. ASSUME NEW x \in Inum PROVE Held(p, x)
  <2>1. icache'[x].busy # NoProcess => icache'[x].valid
    BY <1>2, <1>11 DEF LockInv
  <2>2. \/ /\ icache'[x].busy = icache[x].busy
           /\ Keeps(file'[p], s, x) <=> Keeps(file[p], r, x)
        \/ icache[x].busy = NoProcess /\ icache'[x].busy = p /\ Keeps(file'[p], s, x)
        \/ icache[x].busy = p /\ icache'[x].busy = NoProcess /\ ~Keeps(file'[p], s, x)
    <3>1. file' = file /\ icache[d].busy = p /\ icache[i].busy = NoProcess /\ i # d
      BY <1>1, <1>3, <1>8
    <3> HIDE DEF r, s
    <3> QED
      BY <1>11, <1>14, <3>1
  <2> QED
    BY <2>1, <2>2 DEF Held
<1>16. CallSound(p)'
  <2>1. dinode[cwd[p]].type = "dir"
    BY <1>3 DEF CallSound, Typing
  <2>2. CASE dinode[i].type # "dir"
    <3>1. t'[p].pc = "iput" /\ Label(t'[p]) = "unlinked" /\ t'[p].dp = None
          /\ dinode'[cwd'[p]].type = "dir"
      BY <1>1, <1>12, <2>1, <2>2
    <3> QED
      BY <3>1, EndingCall
  <2>3. CASE dinode[i].type = "dir"
    <3>1. Typing(p)'
      BY <1>1, <1>3, <1>12, <2>1, <2>3 DEF Typing, FreshPc
    <3>2. Ending(p)' /\ Making(p)' /\ Going(p)'
      BY <1>12, <2>3 DEF Ending, EndPc, Making, FreshPc, Made, Going, LookPc
    <3> QED
      BY <3>1, <3>2 DEF CallSound
  <2> QED
    BY <2>2, <2>3
<1>17. s.pc \in {"uplink", "balloc", "dots", "name", "downlink"} => s.ip # s.dp
  BY <1>8, <1>12
<1>18. /\ LockInv' /\ CopyInv' /\ PointInv' /\ SoleInv' /\ CallInv' /\ FreeInv' /\ BlockInv'
       /\ DirInv'
       /\ \A x \in Inum : Addr(x)' = Addr(x)
       /\ \A x \in Inum : Addr(x) # None => dirent'[Addr(x)][".."] = dirent[Addr(x)][".."]
       /\ Links' = {l \in Links : ~(l[1] = d /\ l[2] = n)}
  <2>e. PICK e \in Inum \cup {None} : e = None
    OBVIOUS
  <2>1. dirent' = [dirent EXCEPT ![Addr(d)][n] = e]
    BY <1>1, <1>4, <2>e DEF d, n
  <2>2.  icache[d].busy \in {p, NoProcess} /\ t[p].pc \notin {"iget", "fresh"}
    BY <1>1, <1>3
  <2> HIDE DEF r, s
  <2>3. \A x \in Inum : /\ ~Freed(t[p], x) /\ ~Ahead(file[p], t[p], x)
                        /\ ~Sole(t'[p], x) /\ ~Unbuilt(t[p], x)
                        /\ Uses(cwd[p], file[p], t'[p], x) <=> Uses(cwd[p], file[p], t[p], x)
    BY <1>14 DEF r, s
  <2>4. Uses(cwd[p], file[p], t[p], d)
    BY <1>3 DEF r
  <2>5. UNCHANGED <<dinode, bitmap, cwd, file, programs>>
    BY <1>1
  <2>6. \A x \in Inum : /\ Kept(x) /\ icache'[x].ref = icache[x].ref
                        /\ icache[x].valid => icache'[x].valid
    BY <1>11
  <2>7. t'[p].pc \in {"uplink", "balloc", "dots", "name", "downlink"} => t'[p].ip # t'[p].dp
    BY <1>17 DEF s
  <2>8. dinode[d].type = "dir" /\ Addr(d) # None /\ d \in Inum
    BY <1>3
  <2>9. \A x \in Inum : Held(p, x)
    BY <1>15
  <2> HIDE DEF c
  <2>10. /\ LockInv' /\ CopyInv' /\ PointInv' /\ SoleInv' /\ CallInv' /\ FreeInv' /\ BlockInv'
         /\ DirInv'
         /\ \A x \in Inum : Addr(x)' = Addr(x)
         /\ \A x \in Inum : Addr(x) # None => dirent'[Addr(x)][".."] = dirent[Addr(x)][".."]
         /\ Links' = {l \in Links : ~(l[1] = d /\ l[2] = n)}
                        \cup (IF e = None THEN {} ELSE {<<d, n, e>>})
    <3>1. Enters(p, d, n, e)
      BY <2>e, <2>1, <2>2, <2>4, <2>8 DEF Enters
    <3> QED
      BY <1>6, <1>13, <1>16, <2>2, <2>3, <2>5, <2>6, <2>7, <2>8, <2>9, <3>1, Linking
  <2> QED
    BY <2>e, <2>10
<1>19. Links' = Links \ {L}
  <2>1. \A l \in Links : l[1] = d /\ l[2] = n => l = L
    <3>1. ASSUME NEW l \in Links, l[1] = d, l[2] = n PROVE l = L
      <4>1. l = <<l[1], l[2], l[3]>> /\ dirent[Addr(l[1])][l[2]] = l[3]
        BY <1>2, LinksAre
      <4> QED
        BY <1>5, <3>1, <4>1 DEF L
    <3> QED
      BY <3>1
  <2> QED
    BY <1>7, <1>18, <2>1
<1>20. \A x \in Inum : (\E l \in Links : l[3] = x) => InPlace(x)
  <2>1. ASSUME NEW x \in Inum, NEW l \in Links, l[3] = x PROVE InPlace(x)
    <3>1. dinode[x].type = "dir" => Addr(x) # None
      BY <1>2, <2>1 DEF TreeInv
    <3> QED
      BY <1>1, <1>18, <3>1 DEF InPlace
  <2> QED
    BY <2>1
<1>21. TreeInv'
  BY <1>19, <1>20, TreeKept
<1>22. StayInv'
  <2>1. SUFFICES ASSUME NEW D \in SUBSET Name, DirsStay(programs, D)
                 PROVE  /\ \A l \in Links' : dinode'[l[3]].type = "dir" => l[2] \in D
                        /\ \A x \in Inum : dinode'[x].type = "dir" =>
                             x = Root \/ (\E l \in Links' : l[3] = x)
                                \/ \E q \in Process : Building(t'[q], x)
                        /\ \A q \in Process : t'[q].pc # "downlink"
    BY <1>1 DEF StayInv
  <2>2. /\ \A l \in Links : dinode[l[3]].type = "dir" => l[2] \in D
        /\ \A x \in Inum : dinode[x].type = "dir" =>
             x = Root \/ (\E l \in Links : l[3] = x) \/ \E q \in Process : Building(t[q], x)
        /\ \A q \in Process : t[q].pc # "downlink"
    BY <1>2, <2>1 DEF StayInv
  <2>3. n \notin D
    BY <1>1, <1>5, <2>1, ItsName DEF n
  <2>4. dinode[i].type # "dir"
    BY <1>7, <2>2, <2>3
  <2>5. \A q \in Process : t'[q].pc # "downlink"
    BY <1>12, <2>2, <2>4
  <2>6. ASSUME NEW x \in Inum, dinode'[x].type = "dir"
        PROVE  \/ x = Root \/ (\E l \in Links' : l[3] = x)
               \/ \E q \in Process : Building(t'[q], x)
    <3>1. CASE \E l \in Links : l[3] = x
      BY <1>1, <1>7, <1>19, <2>4, <2>6, <3>1
    <3>2. ASSUME NEW q \in Process, Building(t[q], x) PROVE \E y \in Process : Building(t'[y], x)
      BY <1>12, <1>14, <3>2
    <3> QED
      BY <1>1, <2>2, <2>6, <3>1, <3>2
  <2> QED
    BY <1>1, <1>19, <2>2, <2>5, <2>6
<1>23. CountInv'
  <2>1. Links \ {L} = Links' \ {L} /\ L \notin Links' /\ L \in Links
    BY <1>7, <1>19
  <2>2. ASSUME NEW x \in Inum
        PROVE  /\ One(L \in Links' /\ L[3] = x) - One(L \in Links /\ L[3] = x)
                    + One(PendIp(t'[p], x)) - One(PendIp(t[p], x)) = 0
               /\ One(L \in Links' /\ L[1] = x /\ dinode[L[3]].type = "dir")
                    - One(L \in Links /\ L[1] = x /\ dinode[L[3]].type = "dir")
                    + One(PendDp(t'[p], x)) - One(PendDp(t[p], x)) = 0
    <3> HIDE DEF s, r
    <3>1. /\ ~PendIp(t[p], x) /\ ~PendDp(t[p], x)
          /\ PendIp(t'[p], x) <=> x = i
          /\ PendDp(t'[p], x) <=> x = d /\ dinode[i].type = "dir"
      BY <1>14 DEF r, s
    <3> QED
      BY <1>7, <2>1, <3>1 DEF One
  <2>3. dinode' = dinode /\ programs' = programs
    BY <1>1
  <2> QED
    BY <1>13, <2>1, <2>2, <2>3, CountBalanced
<1>24. DInv'
  BY <1>18, <1>21, <1>22, <1>23 DEF DInv
<1> QED
  BY <1>3, <1>7, <1>8, <1>19, <1>24 DEF L, d, n, i, r

-----------------------------------------------------------------------------
\* create() makes the name.
LEMMA CreateNameDInv ==
  ASSUME DInv, Orderly, NEW p \in Process, IInv', CreateName(p)
  PROVE  /\ DInv' /\ Links' = Links \cup {<<t[p].dp, Elem(p), t[p].ip>>}
         /\ \A l \in Links : ~(l[1] = t[p].dp /\ l[2] = Elem(p))
         /\ t[p].dp \in Inum /\ Elem(p) \in Name /\ t[p].ip \in Inum
         /\ dinode[t[p].dp].type = "dir"
         /\ \A l \in Links : l[3] # t[p].ip
         /\ dinode[t[p].ip].type = IF t[p].job.op = "mkdir" THEN "dir" ELSE "file"
<1> DEFINE r == t[p]
           s == t'[p]
           i == r.ip
           d == r.dp
           n == Elem(p)
           L == <<d, n, i>>
           mk == r.job.op = "mkdir"
<1>1. /\ r.pc = "name" /\ r.pc \in FreshPc
      /\ dirent' = [dirent EXCEPT ![icache[d].addr][n] = i]
      /\ icache' = iunlock(icache, d)
      /\ Puts(p, <<d>>, "created", [dp |-> None, done |-> TRUE])
      /\ UNCHANGED <<dinode, bitmap, cwd, file, calls, programs>>
  BY DEF CreateName, Still, FreshPc
<1>2. /\ IInv /\ LockInv /\ CopyInv /\ PointInv /\ SoleInv /\ CallInv /\ FreeInv
      /\ BlockInv /\ DirInv /\ TreeInv /\ StayInv /\ CountInv
  BY DEF DInv
<1>3. /\ CallSound(p) /\ Label(r) = r.pc /\ d \in Inum /\ r.at = None
      /\ First(r) = None /\ Second(r) = None /\ cwd[p] \in Inum
      /\ dinode[d].type = "dir" /\ Addr(d) # None
      /\ Keeps(file[p], r, d) /\ Mem(d) /\ icache[d].busy = p
      /\ Uses(cwd[p], file[p], r, d)
  BY <1>1, Holds DEF DpPc
<1>4. Addr(d) = icache[d].addr
  BY <1>3 DEF Addr, Mem
<1>5. /\ r.job.op \in {"create", "mkdir"} /\ n # ".." /\ dirent[Addr(d)][n] = None
  BY <1>1, <1>3 DEF CallSound, Going
<1>6. n \in Name
  <2>1. n \in Entry
    BY <1>1, LastName
  <2> QED
    BY <1>5, <2>1 DEF Entry
<1>7. /\ i \in Inum /\ i # d /\ i # Root /\ Sole(r, i) /\ Uses(cwd[p], file[p], r, i)
      /\ dinode[i].type = IF mk THEN "dir" ELSE "file"
  BY <1>1, Makes
<1>8. mk => Addr(i) # None /\ dirent[Addr(i)][".."] = d
  BY <1>1, <1>3 DEF CallSound, Making, Made
<1>9. L \notin Links /\ L[1] = d /\ L[2] = n /\ L[3] = i
  BY <1>2, <1>3, <1>5, <1>6, <1>7, LinksAre DEF Inum, None
<1>10. \A m \in Links : m[3] # i /\ m[1] # i
  BY <1>1, <1>2, <1>7 DEF SoleInv
<1> HIDE DEF i, d, n, L, mk
<1>11. ASSUME NEW x \in Inum
       PROVE  /\ icache'[x].ref = icache[x].ref
              /\ icache'[x].busy = IF x = d THEN NoProcess ELSE icache[x].busy
              /\ icache'[x].valid = icache[x].valid
              /\ Kept(x)
  <2>1. /\ icache'[x].ref = icache[x].ref
        /\ icache'[x].busy = IF d = x THEN NoProcess ELSE icache[x].busy
        /\ icache'[x].valid = icache[x].valid /\ SameCopy(icache'[x], icache[x])
    <3>1. CacheTyped(icache)
      BY <1>2 DEF IInv
    <3> QED
      BY <1>1, <1>3, <3>1, UnlockIs
  <2> QED
    BY <2>1 DEF Kept, Mem
<1>12. /\ \A q \in Process \ {p} : t'[q] = t[q]
       /\ s.pc = "iput" /\ Label(s) = "created"
       /\ s.at = None /\ s.ip = i /\ Second(s) = None
       /\ s.dp = None /\ First(s) = d
  <2>1. "created" \in ThenPc /\ t[p].pc \notin PutPc
    BY <1>1 DEF ThenPc, PutPc
  <2>2. /\ \A q \in Process \ {p} : t'[q] = t[q]
        /\ s.pc = "iput" /\ Label(s) = "created"
        /\ s.at = r.at /\ s.dp = None /\ s.ip = r.ip
        /\ First(s) = d /\ Second(s) = None
    BY <1>1, <1>2, <1>3, <2>1, GivesOne
  <2> QED
    BY <1>3, <2>2 DEF i
<1>13. Others(p)
  BY <1>1, <1>12 DEF Others
<1>14. ASSUME NEW x \in Inum
       PROVE  /\ Uses(cwd[p], file[p], s, x) <=> Uses(cwd[p], file[p], r, x)
              /\ Keeps(file[p], r, x) <=> x = d \/ x = i
              /\ Keeps(file[p], s, x) <=> x = i
              /\ ~Freed(r, x) /\ ~Ahead(file[p], r, x)
              /\ ~Sole(s, x) /\ ~Unbuilt(r, x)
              /\ Building(r, x) <=> x = i
              /\ PendIp(r, x) <=> x = i
              /\ PendDp(r, x) <=> x = d /\ mk
              /\ ~PendIp(s, x) /\ ~PendDp(s, x)
  <2>1. Uses(cwd[p], file[p], s, x) <=> Uses(cwd[p], file[p], r, x)
    BY <1>1, <1>3, <1>12 DEF Uses, Else, FreshPc, i, d
  <2>2. Keeps(file[p], r, x) <=> x = d \/ x = i
    BY <1>1, <1>3 DEF Keeps, DpPc, EndPc, OwnPc, d, i
  <2>3. Keeps(file[p], s, x) <=> x = i
    BY <1>12 DEF Keeps, DpPc, EndPc, OwnPc
  <2>4. /\ ~Freed(r, x) /\ ~Ahead(file[p], r, x)
        /\ ~Sole(s, x) /\ ~Unbuilt(r, x)
        /\ Building(r, x) <=> x = i
    BY <1>1, <1>12 DEF Unbuilt, Building, FreshPc, Freed, Ahead, Sole, i
  <2>5. /\ PendIp(r, x) <=> x = i
        /\ PendDp(r, x) <=> x = d /\ mk
        /\ ~PendIp(s, x) /\ ~PendDp(s, x)
    BY <1>1, <1>3, <1>12 DEF PendIp, PendDp, DueIp, i, d, mk
  <2> QED
    BY <2>1, <2>2, <2>3, <2>4, <2>5
<1>15. ASSUME NEW x \in Inum PROVE Held(p, x)
  <2>1. icache'[x].busy # NoProcess => icache'[x].valid
    BY <1>2, <1>11 DEF LockInv
  <2>2. \/ /\ icache'[x].busy = icache[x].busy
           /\ Keeps(file'[p], s, x) <=> Keeps(file[p], r, x)
        \/ icache[x].busy = NoProcess /\ icache'[x].busy = p /\ Keeps(file'[p], s, x)
        \/ icache[x].busy = p /\ icache'[x].busy = NoProcess /\ ~Keeps(file'[p], s, x)
    <3>1. file' = file /\ icache[d].busy = p /\ i # d
      BY <1>1, <1>3, <1>7
    <3> HIDE DEF r, s
    <3> QED
      BY <1>11, <1>14, <3>1
  <2> QED
    BY <2>1, <2>2 DEF Held
<1>16. CallSound(p)'
  <2>1. dinode[cwd[p]].type = "dir"
    BY <1>3 DEF CallSound, Typing
  <2>2. t'[p].pc = "iput" /\ Label(t'[p]) = "created" /\ t'[p].dp = None
          /\ dinode'[cwd'[p]].type = "dir"
    BY <1>1, <1>12, <2>1
  <2> QED
    BY <2>2, EndingCall
<1>18. /\ LockInv' /\ CopyInv' /\ PointInv' /\ SoleInv' /\ CallInv' /\ FreeInv' /\ BlockInv'
       /\ DirInv'
       /\ \A x \in Inum : Addr(x)' = Addr(x)
       /\ \A x \in Inum : Addr(x) # None => dirent'[Addr(x)][".."] = dirent[Addr(x)][".."]
       /\ Links' = {l \in Links : ~(l[1] = d /\ l[2] = n)} \cup {<<d, n, i>>}
  <2>2. icache[d].busy \in {p, NoProcess} /\ t[p].pc \notin {"iget", "fresh"}
    BY <1>1, <1>3
  <2>1. Enters(p, d, n, i)
    BY <1>1, <1>3, <1>4, <1>7, <2>2 DEF Enters
  <2>7. t'[p].pc \notin {"uplink", "balloc", "dots", "name", "downlink"}
    BY <1>12
  <2> HIDE DEF r, s
  <2>3. \A x \in Inum : /\ ~Freed(t[p], x) /\ ~Ahead(file[p], t[p], x)
                        /\ ~Sole(t'[p], x) /\ ~Unbuilt(t[p], x)
                        /\ Uses(cwd[p], file[p], t'[p], x) <=> Uses(cwd[p], file[p], t[p], x)
    BY <1>14 DEF r, s
  <2>5. UNCHANGED <<dinode, bitmap, cwd, file, programs>>
    BY <1>1
  <2>6. \A x \in Inum : /\ Kept(x) /\ icache'[x].ref = icache[x].ref
                        /\ icache[x].valid => icache'[x].valid
    BY <1>11
  <2>9. \A x \in Inum : Held(p, x)
    BY <1>15
  <2>10. /\ LockInv' /\ CopyInv' /\ PointInv' /\ SoleInv' /\ CallInv' /\ FreeInv' /\ BlockInv'
         /\ DirInv'
         /\ \A x \in Inum : Addr(x)' = Addr(x)
         /\ \A x \in Inum : Addr(x) # None => dirent'[Addr(x)][".."] = dirent[Addr(x)][".."]
         /\ Links' = {l \in Links : ~(l[1] = d /\ l[2] = n)}
                        \cup (IF i = None THEN {} ELSE {<<d, n, i>>})
    BY <1>3, <1>6, <1>7, <1>13, <1>16, <2>1, <2>2, <2>3, <2>5, <2>6, <2>7, <2>9, Linking
  <2>11. i # None
    BY <1>7 DEF Inum, None
  <2> QED
    BY <2>10, <2>11
<1>19. Links' = Links \cup {L} /\ \A l \in Links : ~(l[1] = d /\ l[2] = n)
  <2>1. \A l \in Links : ~(l[1] = d /\ l[2] = n)
    <3>1. ASSUME NEW l \in Links, l[1] = d, l[2] = n PROVE FALSE
      <4>1. l[3] \in Inum /\ dirent[Addr(l[1])][l[2]] = l[3]
        BY <1>2, LinksAre
      <4> QED
        BY <1>5, <3>1, <4>1 DEF Inum, None
    <3> QED
      BY <3>1
  <2> QED
    BY <1>18, <2>1 DEF L
<1>21. TreeInv'
  <2>1. dinode[i].type # "free"
    BY <1>7
  <2>2. dinode[i].type = "dir" => Addr(i) # None /\ dirent[Addr(i)][".."] = d
    BY <1>7, <1>8
  <2>3. Links' = Links \cup {<<d, n, i>>}
    BY <1>19 DEF L
  <2> QED
    BY <1>1, <1>3, <1>6, <1>7, <1>10, <1>18, <2>1, <2>2, <2>3, TreeGrows
<1>22. StayInv'
  <2>1. SUFFICES ASSUME NEW D \in SUBSET Name, DirsStay(programs, D)
                 PROVE  /\ \A l \in Links' : dinode'[l[3]].type = "dir" => l[2] \in D
                        /\ \A x \in Inum : dinode'[x].type = "dir" =>
                             x = Root \/ (\E l \in Links' : l[3] = x)
                                \/ \E q \in Process : Building(t'[q], x)
                        /\ \A q \in Process : t'[q].pc # "downlink"
    BY <1>1 DEF StayInv
  <2>2. /\ \A l \in Links : dinode[l[3]].type = "dir" => l[2] \in D
        /\ \A x \in Inum : dinode[x].type = "dir" =>
             x = Root \/ (\E l \in Links : l[3] = x) \/ \E q \in Process : Building(t[q], x)
        /\ \A q \in Process : t[q].pc # "downlink"
    BY <1>2, <2>1 DEF StayInv
  <2>3. mk => n \in D
    BY <1>1, <1>5, <2>1, ItsName DEF n, mk
  <2>4. \A l \in Links' : dinode'[l[3]].type = "dir" => l[2] \in D
    BY <1>1, <1>7, <1>9, <1>19, <2>2, <2>3
  <2>5. \A q \in Process : t'[q].pc # "downlink"
    BY <1>12, <2>2
  <2>6. ASSUME NEW x \in Inum, dinode'[x].type = "dir"
        PROVE  \/ x = Root \/ (\E l \in Links' : l[3] = x)
               \/ \E q \in Process : Building(t'[q], x)
    <3>1. CASE \E l \in Links : l[3] = x
      BY <1>19, <3>1
    <3>2. ASSUME NEW q \in Process, Building(t[q], x), q # p
          PROVE  \E y \in Process : Building(t'[y], x)
      BY <1>12, <3>2
    <3>3. ASSUME Building(t[p], x) PROVE \E l \in Links' : l[3] = x
      BY <1>9, <1>14, <1>19, <3>3
    <3> QED
      BY <1>1, <2>2, <2>6, <3>1, <3>2, <3>3
  <2> QED
    BY <2>4, <2>5, <2>6
<1>23. CountInv'
  <2>1. Links \ {L} = Links' \ {L} /\ L \in Links' /\ L \notin Links
    BY <1>9, <1>19
  <2>2. ASSUME NEW x \in Inum
        PROVE  /\ One(L \in Links' /\ L[3] = x) - One(L \in Links /\ L[3] = x)
                    + One(PendIp(t'[p], x)) - One(PendIp(t[p], x)) = 0
               /\ One(L \in Links' /\ L[1] = x /\ dinode[L[3]].type = "dir")
                    - One(L \in Links /\ L[1] = x /\ dinode[L[3]].type = "dir")
                    + One(PendDp(t'[p], x)) - One(PendDp(t[p], x)) = 0
    <3> HIDE DEF s, r
    <3>1. /\ ~PendIp(t'[p], x) /\ ~PendDp(t'[p], x)
          /\ PendIp(t[p], x) <=> x = i
          /\ PendDp(t[p], x) <=> x = d /\ dinode[i].type = "dir"
      BY <1>7, <1>14 DEF r, s
    <3> QED
      BY <1>9, <2>1, <3>1 DEF One
  <2>3. dinode' = dinode /\ programs' = programs
    BY <1>1
  <2> QED
    BY <1>13, <2>1, <2>2, <2>3, CountBalanced
<1>24. DInv'
  BY <1>18, <1>21, <1>22, <1>23 DEF DInv
<1> QED
  BY <1>3, <1>6, <1>7, <1>10, <1>19, <1>24 DEF L, d, n, i, r, mk

-----------------------------------------------------------------------------
\* link makes the name.
LEMMA LinkNameDInv ==
  ASSUME DInv, Orderly, NEW p \in Process, IInv', LinkName(p)
  PROVE  /\ DInv' /\ Links' = Links \cup {<<t[p].at, Elem(p), t[p].ip>>}
         /\ \A l \in Links : ~(l[1] = t[p].at /\ l[2] = Elem(p))
         /\ t[p].at \in Inum /\ Elem(p) \in Name /\ t[p].ip \in Inum
         /\ dinode[t[p].at].type = "dir"
         /\ dinode[t[p].ip].type = "file"
<1> DEFINE r == t[p]
           s == t'[p]
           i == r.ip
           d == r.at
           n == Elem(p)
           L == <<d, n, i>>
<1>1. /\ r.pc = "enter" /\ At(p, "enter") /\ r.pc \in AtPc /\ r.pc \in IpPc
      /\ Locked(d).type = "dir" /\ lookup(d, n) = None
      /\ dirent' = [dirent EXCEPT ![Locked(d).addr][n] = i]
      /\ icache' = Read(icache, d)
      /\ Puts(p, <<d, i>>, "ret", [at |-> None, ip |-> None, done |-> TRUE, ok |-> TRUE])
      /\ UNCHANGED <<dinode, bitmap, cwd, file, calls, programs>>
  BY DEF LinkName, Still, At, AtPc, IpPc, Dir
<1>2. /\ IInv /\ LockInv /\ CopyInv /\ PointInv /\ SoleInv /\ CallInv /\ FreeInv
      /\ BlockInv /\ DirInv /\ TreeInv /\ StayInv /\ CountInv
  BY DEF DInv
<1>3. /\ CallSound(p) /\ cwd[p] \in Inum /\ d \in Inum /\ r.dp = None /\ i \in Inum
      /\ Calm(r) /\ Label(r) = r.pc /\ First(r) = None /\ Second(r) = None
      /\ icache[d].ref > 0 /\ Uses(cwd[p], file[p], r, d) /\ ~Sole(r, d)
  BY <1>1, <1>2, Before, PointersTyped
<1>4. icache[d].busy = NoProcess
  <2>1. Wanted(p) = d /\ d # None
    BY <1>1, <1>3 DEF Wanted, Waits, Inum, None
  <2> QED
    BY <1>1, <2>1 DEF At
<1>5. Locked(d).type = dinode[d].type /\ Locked(d).addr = Addr(d) /\ dinode[d].type = "dir"
  BY <1>1, <1>2, <1>3, <1>4, Seen
<1>6. n \in Entry /\ (n = ".." => ~NoDots(programs))
  BY <1>1, LastName
<1>7. n \in Name /\ Addr(d) # None /\ dirent[Addr(d)][n] = None
  <2>1. /\ n = ".." => lookup(d, n) # None
        /\ Addr(d) # None /\ lookup(d, n) = dirent[Addr(d)][n]
    <3> HIDE DEF n
    <3> QED
      BY <1>3, <1>4, <1>5, <1>6, Finds
  <2> QED
    BY <1>1, <1>6, <2>1 DEF Entry
<1>8. dinode[i].type = "file" /\ i # d /\ i # Root
  <2>1. dinode[i].type = "file"
    BY <1>1, <1>3 DEF CallSound, Typing, Inum, None
  <2> QED
    BY <1>2, <1>5, <2>1 DEF DirInv
<1>9. L \notin Links /\ L[1] = d /\ L[2] = n /\ L[3] = i
  BY <1>2, <1>3, <1>7, LinksAre DEF Inum, None
<1>10. \A m \in Links : m[1] # i
  BY <1>2, <1>8, LinksAre
<1> HIDE DEF i, d, n, L
<1>11. ASSUME NEW x \in Inum
       PROVE  /\ icache'[x].ref = icache[x].ref /\ icache'[x].busy = icache[x].busy
              /\ icache[x].valid => icache'[x].valid
              /\ Kept(x)
  <2>1. /\ icache'[x].ref = icache[x].ref /\ icache'[x].busy = icache[x].busy
        /\ icache[x].valid => icache'[x].valid
    <3>1. CacheTyped(icache)
      BY <1>2 DEF IInv
    <3> QED
      BY <1>1, <1>3, <3>1, ReadIs
  <2>2. Kept(x)
    BY <1>1, <1>2, <1>3, ReadKept
  <2> QED
    BY <2>1, <2>2
<1>12. /\ \A q \in Process \ {p} : t'[q] = t[q]
       /\ s.pc = "iput" /\ Label(s) = "ret"
       /\ s.at = None /\ s.ip = None /\ s.dp = None /\ First(s) = d /\ Second(s) = i
  <2>1. "ret" \in ThenPc /\ t[p].pc \notin PutPc
    BY <1>1 DEF ThenPc, PutPc
  <2>2. /\ \A q \in Process \ {p} : t'[q] = t[q]
        /\ s.pc = "iput" /\ Label(s) = "ret"
        /\ s.at = None /\ s.dp = r.dp /\ s.ip = None
        /\ First(s) = d /\ Second(s) = i
    BY <1>1, <1>2, <1>3, <2>1, GivesTwo
  <2> QED
    BY <1>3, <2>2
<1>13. Others(p)
  BY <1>1, <1>12 DEF Others
<1>14. ASSUME NEW x \in Inum
       PROVE  /\ Uses(cwd[p], file[p], s, x) <=> Uses(cwd[p], file[p], r, x)
              /\ ~Keeps(file[p], r, x) /\ ~Keeps(file[p], s, x)
              /\ ~Freed(r, x) /\ ~Ahead(file[p], r, x)
              /\ ~Sole(s, x) /\ ~Unbuilt(r, x) /\ ~Building(r, x)
              /\ PendIp(r, x) <=> x = i
              /\ ~PendDp(r, x)
              /\ ~PendIp(s, x) /\ ~PendDp(s, x)
  <2>1. Uses(cwd[p], file[p], s, x) <=> Uses(cwd[p], file[p], r, x)
    <3>1. Uses(cwd[p], file[p], r, x) <=>
            \/ cwd[p] = x \/ file[p] = x \/ r.at = x \/ r.dp = x \/ r.ip = x
            \/ First(r) = x \/ Second(r) = x
      BY <1>1, PlainUses DEF FreshPc
    <3>2. Uses(cwd[p], file[p], s, x) <=>
            \/ cwd[p] = x \/ file[p] = x \/ s.at = x \/ s.dp = x \/ s.ip = x
            \/ First(s) = x \/ Second(s) = x
      BY <1>12, PlainUses DEF FreshPc
    <3>3. r.ip = i /\ r.at = d /\ x # None
      BY DEF i, d, Inum, None
    <3> HIDE DEF r, s
    <3> QED
      BY <1>3, <1>12, <3>1, <3>2, <3>3
  <2>2. ~Keeps(file[p], r, x) /\ ~Keeps(file[p], s, x)
    BY <1>1, <1>3, <1>12 DEF Keeps, DpPc, EndPc, OwnPc
  <2>4. /\ ~Freed(r, x) /\ ~Ahead(file[p], r, x)
        /\ ~Sole(s, x) /\ ~Unbuilt(r, x) /\ ~Building(r, x)
    BY <1>1, <1>12 DEF Unbuilt, Building, FreshPc, Freed, Ahead, Sole
  <2>5. /\ PendIp(r, x) <=> x = i
        /\ ~PendDp(r, x) /\ ~PendIp(s, x) /\ ~PendDp(s, x)
    BY <1>1, <1>3, <1>12 DEF PendIp, PendDp, DueIp, i
  <2> QED
    BY <2>1, <2>2, <2>4, <2>5
<1>15. ASSUME NEW x \in Inum PROVE Held(p, x)
  <2>1. icache'[x].busy # NoProcess => icache'[x].valid
    BY <1>2, <1>11 DEF LockInv
  <2> QED
    BY <1>1, <1>11, <1>14, <2>1 DEF Held
<1>16. CallSound(p)'
  <2>1. dinode[cwd[p]].type = "dir"
    BY <1>3 DEF CallSound, Typing
  <2>2. t'[p].pc = "iput" /\ Label(t'[p]) = "ret" /\ t'[p].dp = None
          /\ dinode'[cwd'[p]].type = "dir"
    BY <1>1, <1>12, <2>1
  <2> QED
    BY <2>2, EndingCall
<1>18. /\ LockInv' /\ CopyInv' /\ PointInv' /\ SoleInv' /\ CallInv' /\ FreeInv' /\ BlockInv'
       /\ DirInv'
       /\ \A x \in Inum : Addr(x)' = Addr(x)
       /\ \A x \in Inum : Addr(x) # None => dirent'[Addr(x)][".."] = dirent[Addr(x)][".."]
       /\ Links' = {l \in Links : ~(l[1] = d /\ l[2] = n)} \cup {<<d, n, i>>}
  <2>2. t[p].pc \notin {"iget", "fresh"}
    BY <1>1
  <2>1. Enters(p, d, n, i)
    <3>1. Uses(cwd[p], file[p], t[p], i)
      BY DEF Uses, i
    <3> QED
      BY <1>1, <1>3, <1>4, <1>5, <1>7, <3>1 DEF Enters, i, d, n
  <2>7. t'[p].pc \notin {"uplink", "balloc", "dots", "name", "downlink"}
    BY <1>12
  <2> HIDE DEF r, s
  <2>3. \A x \in Inum : /\ ~Freed(t[p], x) /\ ~Ahead(file[p], t[p], x)
                        /\ ~Sole(t'[p], x) /\ ~Unbuilt(t[p], x)
                        /\ Uses(cwd[p], file[p], t'[p], x) <=> Uses(cwd[p], file[p], t[p], x)
    BY <1>14 DEF r, s
  <2>5. UNCHANGED <<dinode, bitmap, cwd, file, programs>>
    BY <1>1
  <2>6. \A x \in Inum : /\ Kept(x) /\ icache'[x].ref = icache[x].ref
                        /\ icache[x].valid => icache'[x].valid
    BY <1>11
  <2>9. \A x \in Inum : Held(p, x)
    BY <1>15
  <2>10. /\ LockInv' /\ CopyInv' /\ PointInv' /\ SoleInv' /\ CallInv' /\ FreeInv' /\ BlockInv'
         /\ DirInv'
         /\ \A x \in Inum : Addr(x)' = Addr(x)
         /\ \A x \in Inum : Addr(x) # None => dirent'[Addr(x)][".."] = dirent[Addr(x)][".."]
         /\ Links' = {l \in Links : ~(l[1] = d /\ l[2] = n)}
                        \cup (IF i = None THEN {} ELSE {<<d, n, i>>})
    BY <1>3, <1>7, <1>13, <1>16, <2>1, <2>2, <2>3, <2>5, <2>6, <2>7, <2>9, Linking
  <2>11. i # None
    BY <1>3 DEF Inum, None
  <2> QED
    BY <2>10, <2>11
<1>19. Links' = Links \cup {L} /\ \A l \in Links : ~(l[1] = d /\ l[2] = n)
  <2>1. \A l \in Links : ~(l[1] = d /\ l[2] = n)
    <3>1. ASSUME NEW l \in Links, l[1] = d, l[2] = n PROVE FALSE
      <4>1. l[3] \in Inum /\ dirent[Addr(l[1])][l[2]] = l[3]
        BY <1>2, LinksAre
      <4> QED
        BY <1>7, <3>1, <4>1 DEF Inum, None
    <3> QED
      BY <3>1
  <2> QED
    BY <1>18, <2>1 DEF L
<1>21. TreeInv'
  <2>1. dinode[i].type # "free" /\ dinode[i].type # "dir"
    BY <1>8
  <2>3. Links' = Links \cup {<<d, n, i>>}
    BY <1>19 DEF L
  <2> QED
    BY <1>1, <1>3, <1>7, <1>8, <1>10, <1>18, <2>1, <2>3, TreeGrows
<1>22. StayInv'
  <2>1. SUFFICES ASSUME NEW D \in SUBSET Name, DirsStay(programs, D)
                 PROVE  /\ \A l \in Links' : dinode'[l[3]].type = "dir" => l[2] \in D
                        /\ \A x \in Inum : dinode'[x].type = "dir" =>
                             x = Root \/ (\E l \in Links' : l[3] = x)
                                \/ \E q \in Process : Building(t'[q], x)
                        /\ \A q \in Process : t'[q].pc # "downlink"
    BY <1>1 DEF StayInv
  <2>2. /\ \A l \in Links : dinode[l[3]].type = "dir" => l[2] \in D
        /\ \A x \in Inum : dinode[x].type = "dir" =>
             x = Root \/ (\E l \in Links : l[3] = x) \/ \E q \in Process : Building(t[q], x)
        /\ \A q \in Process : t[q].pc # "downlink"
    BY <1>2, <2>1 DEF StayInv
  <2>4. \A l \in Links' : dinode'[l[3]].type = "dir" => l[2] \in D
    BY <1>1, <1>8, <1>9, <1>19, <2>2
  <2>5. \A q \in Process : t'[q].pc # "downlink"
    BY <1>12, <2>2
  <2>6. ASSUME NEW x \in Inum, dinode'[x].type = "dir"
        PROVE  \/ x = Root \/ (\E l \in Links' : l[3] = x)
               \/ \E q \in Process : Building(t'[q], x)
    <3>1. CASE \E l \in Links : l[3] = x
      BY <1>19, <3>1
    <3>2. ASSUME NEW q \in Process, Building(t[q], x)
          PROVE  \E y \in Process : Building(t'[y], x)
      BY <1>12, <1>14, <3>2
    <3> QED
      BY <1>1, <2>2, <2>6, <3>1, <3>2
  <2> QED
    BY <2>4, <2>5, <2>6
<1>23. CountInv'
  <2>1. Links \ {L} = Links' \ {L} /\ L \in Links' /\ L \notin Links
    BY <1>9, <1>19
  <2>2. ASSUME NEW x \in Inum
        PROVE  /\ One(L \in Links' /\ L[3] = x) - One(L \in Links /\ L[3] = x)
                    + One(PendIp(t'[p], x)) - One(PendIp(t[p], x)) = 0
               /\ One(L \in Links' /\ L[1] = x /\ dinode[L[3]].type = "dir")
                    - One(L \in Links /\ L[1] = x /\ dinode[L[3]].type = "dir")
                    + One(PendDp(t'[p], x)) - One(PendDp(t[p], x)) = 0
    <3> HIDE DEF s, r
    <3>1. /\ ~PendIp(t'[p], x) /\ ~PendDp(t'[p], x)
          /\ PendIp(t[p], x) <=> x = i
          /\ ~PendDp(t[p], x)
      BY <1>14 DEF r, s
    <3> QED
      BY <1>8, <1>9, <2>1, <3>1 DEF One
  <2>3. dinode' = dinode /\ programs' = programs
    BY <1>1
  <2> QED
    BY <1>13, <2>1, <2>2, <2>3, CountBalanced
<1>24. DInv'
  BY <1>18, <1>21, <1>22, <1>23 DEF DInv
<1> QED
  BY <1>3, <1>5, <1>7, <1>8, <1>19, <1>24 DEF L, d, n, i, r

-----------------------------------------------------------------------------
\* Every step keeps the invariant.
LEMMA StepDInv ==
  ASSUME DInv, Orderly, NEW p \in Process, Step(p)
  PROVE  DInv'
<1>1. IInv'
  BY StepIInv DEF DInv
<1>2. CASE \/ Begin(p) \/ Walk(p) \/ WalkFails(p) \/ WalkParent(p) \/ WalkEnds(p)
           \/ Iput(p) \/ IputLast(p) \/ Itrunc(p) \/ Ifree(p) \/ IputEnd(p)
  BY <1>1, <1>2, BeginDInv, WalkDInv, FailsDInv, WalkParentDInv, WalkEndsDInv, IputDInv,
     IputLastDInv, ItruncDInv, IfreeDInv, IputEndDInv
<1>3. CASE \/ Open(p) \/ OpenFails(p) \/ Chdir(p) \/ CreateFound(p) \/ Exists(p)
           \/ CreateNew(p) \/ Ialloc(p) \/ IallocGet(p) \/ Fresh(p) \/ Uplink(p)
  BY <1>1, <1>3, OpenDInv, FailsDInv, ChdirDInv, CreateFoundDInv, CreateNewDInv, IallocDInv,
     IallocGetDInv, FreshDInv, UplinkDInv
<1>4. CASE \/ DotsBlock(p) \/ Dots(p) \/ CreateName(p) \/ Created(p) \/ UnlinkMiss(p)
           \/ Unlink(p) \/ UnlinkFull(p) \/ UnlinkEntry(p) \/ Downlink(p) \/ Unlinked(p)
  BY <1>1, <1>4, DotsBlockDInv, DotsDInv, CreateNameDInv, CreatedDInv, FailsDInv, UnlinkDInv,
     UnlinkFullDInv, UnlinkEntryDInv, DownlinkDInv, UnlinkedDInv
<1>5. CASE \/ LinkDir(p) \/ Link(p) \/ LinkTaken(p) \/ LinkName(p) \/ LinkBad(p)
           \/ Write(p) \/ WriteBlock(p) \/ Grow(p) \/ Return(p) \/ Exhausts(p)
  BY <1>1, <1>5, FailsDInv, LinkDInv, LinkNameDInv, LinkBadDInv, WriteDInv, WriteBlockDInv,
     GrowDInv, ReturnDInv, ExhaustsDInv
<1> QED
  BY <1>2, <1>3, <1>4, <1>5 DEF Step

\* The invariant is inductive.
LEMMA NextDInv == Orderly /\ DInv /\ [Next]_vars => DInv'
<1> SUFFICES ASSUME Orderly, DInv, [Next]_vars PROVE DInv'
  OBVIOUS
<1>1. CASE \E p \in Process : Step(p)
  BY <1>1, StepDInv
<1>2. CASE UNCHANGED vars
  <2>1. IInv'
    BY <1>2, NextIInv DEF DInv
  <2> QED
    BY <1>2, <2>1, DUnmoved DEF vars, disk
<1> QED
  BY <1>1, <1>2 DEF Next

(* The disk of mkfs *)

\* A function that is one to one on a finite set keeps its size.
LEMMA SameSize ==
  ASSUME NEW S, IsFiniteSet(S), NEW T, NEW f \in [S -> T],
         \A x, y \in S : f[x] = f[y] => x = y, \A z \in T : \E x \in S : f[x] = z
  PROVE  IsFiniteSet(T) /\ Cardinality(T) = Cardinality(S)
<1>1. f \in Bijection(S, T)
  BY DEF Bijection, Injection, Surjection, IsInjective
<1>2. ExistsBijection(S, T)
  BY <1>1 DEF ExistsBijection
<1> QED
  BY <1>2, FS_Bijection

Into(tree, i) == {l \in tree : l[3] = i}
Subs(tree, i) == {l \in tree : l[1] = i /\ l[4] = "dir"}
\* The disk holds the tree, and nothing else.
DiskOf(tree) ==
    /\ TreeSound(tree) /\ IsFiniteSet(tree)
    /\ \A l \in tree : /\ l[1] \in Inum /\ l[2] \in Name /\ l[3] \in Inum
                       /\ l[4] \in {"file", "dir"}
                       /\ dinode[l[3]].type = l[4] /\ dinode[l[1]].type = "dir"
                       /\ l[4] = "dir" => dirent[l[3]][".."] = l[1]
    /\ dinode[Root].type = "dir" /\ dirent[Root][".."] = Root
    /\ \A i \in Inum :
         /\ dinode[i].type # "free" => i = Root \/ \E l \in tree : l[3] = i
         /\ dinode[i].nlink = One(i = Root) + Cardinality(Into(tree, i))
                                            + Cardinality(Subs(tree, i))
         /\ dinode[i].addr = IF dinode[i].type = "dir" THEN i ELSE None
    /\ bitmap = {i \in Inum : dinode[i].type = "dir"}
    /\ \A b \in Block, n \in Name, x \in Inum :
         dirent[b][n] = x <=> \E l \in tree : l[1] = b /\ l[2] = n /\ l[3] = x
    /\ \A b \in Block, n \in Name :
         dirent[b][n] # None => \E l \in tree : l[1] = b /\ l[2] = n

\* The disk of mkfs holds one of the trees.
LEMMA InitDisk ==
  ASSUME Init, Orderly
  PROVE  \E tree \in Trees[programs] : DiskOf(tree)
<1>1. PICK tree \in Trees[programs] :
        LET into(i)    == {l \in tree : l[3] = i}
            subdirs(i) == {l \in tree : l[1] = i /\ l[4] = "dir"}
            kind(i)    == IF i = Root THEN "dir"
                          ELSE IF into(i) = {} THEN "free"
                          ELSE (CHOOSE l \in into(i) : TRUE)[4]
            one(i)     == IF i = Root THEN 1 ELSE Cardinality(into(i))
        IN
        /\ dinode = [i \in Inum |->
               [type |-> kind(i), nlink |-> one(i) + Cardinality(subdirs(i)),
                addr |-> IF kind(i) = "dir" THEN i ELSE None]]
        /\ bitmap = {i \in Inum : kind(i) = "dir"}
        /\ dirent = [b \in Block |-> [n \in Entry |->
               IF b = Root /\ n = ".." THEN Root
               ELSE IF n = ".." /\ b \in Inum /\ kind(b) = "dir"
                 THEN (CHOOSE l \in into(b) : TRUE)[1]
               ELSE LET named == {l \in tree : l[1] = b /\ l[2] = n} IN
                    IF named = {} THEN None ELSE (CHOOSE l \in named : TRUE)[3]]]
  BY DEF Init
<1> DEFINE into(i) == {l \in tree : l[3] = i}
           subdirs(i) == {l \in tree : l[1] = i /\ l[4] = "dir"}
           named(b, n) == {l \in tree : l[1] = b /\ l[2] = n}
           into1(i) == CHOOSE l \in into(i) : TRUE
           named1(b, n) == CHOOSE l \in named(b, n) : TRUE
           kind(i) == IF i = Root THEN "dir"
                      ELSE IF into(i) = {} THEN "free" ELSE into1(i)[4]
           one(i) == IF i = Root THEN 1 ELSE Cardinality(into(i))
           from(b, n) == IF b = Root /\ n = ".." THEN Root
                         ELSE IF n = ".." /\ b \in Inum /\ kind(b) = "dir" THEN into1(b)[1]
                         ELSE IF named(b, n) = {} THEN None ELSE named1(b, n)[3]
<1>2. /\ dinode = [i \in Inum |->
               [type |-> kind(i), nlink |-> one(i) + Cardinality(subdirs(i)),
                addr |-> IF kind(i) = "dir" THEN i ELSE None]]
      /\ bitmap = {i \in Inum : kind(i) = "dir"}
      /\ dirent = [b \in Block |-> [n \in Entry |-> from(b, n)]]
  BY <1>1
<1>3. programs \in DOMAIN Jobs
  BY DEF Init
<1>4. /\ IsFiniteSet(tree) /\ TreeSound(tree)
      /\ \A l \in tree : l[1] \in Inum /\ l[2] \in Name /\ l[3] \in Inum /\ l[4] \in {"file", "dir"}
  BY <1>3, FsAssumption DEF Orderly
<1>5. Root \in Inum /\ Inum \subseteq Block /\ ".." \in Entry /\ \A n \in Name : n \in Entry /\ n # ".."
  BY FsAssumption DEF Root, Inum, Block, Orderly, Entry
<1>6. /\ \A i : into(i) # {} => into1(i) \in into(i)
      /\ \A b, n : named(b, n) # {} => named1(b, n) \in named(b, n)
  OBVIOUS
<1>7. /\ \A i, l : l \in into(i) <=> l \in tree /\ l[3] = i
      /\ \A b, n, l : l \in named(b, n) <=> l \in tree /\ l[1] = b /\ l[2] = n
      /\ \A i : into(i) = Into(tree, i) /\ subdirs(i) = Subs(tree, i)
  BY DEF Into, Subs
<1> HIDE DEF into, named, into1, named1, subdirs
<1>8. ASSUME NEW l \in tree
      PROVE  /\ kind(l[3]) = l[4] /\ l[3] # Root
             /\ l[4] = "dir" => into1(l[3]) = l
  <2>1. l \in into(l[3]) /\ into(l[3]) # {}
    BY <1>7
  <2>2. into1(l[3]) \in tree /\ into1(l[3])[3] = l[3]
    BY <1>6, <1>7, <2>1
  <2> QED
    BY <1>4, <2>1, <2>2 DEF TreeSound
<1>9. ASSUME NEW l \in tree PROVE kind(l[1]) = "dir"
  <2>1. CASE l[1] = Root
    BY <2>1
  <2>2. CASE l[1] # Root
    <3>1. PICK m \in tree : m[3] = l[1] /\ m[4] = "dir"
      BY <1>4, <2>2 DEF TreeSound
    <3> QED
      BY <1>8, <3>1
  <2> QED
    BY <2>1, <2>2
<1>10. ASSUME NEW i \in Inum
       PROVE  /\ kind(i) # "free" => i = Root \/ \E l \in tree : l[3] = i
              /\ one(i) = One(i = Root) + Cardinality(Into(tree, i))
  <2>1. kind(i) # "free" => i = Root \/ \E l \in tree : l[3] = i
    BY <1>6, <1>7
  <2>2. CASE i = Root
    <3>1. Into(tree, i) = {}
      BY <1>4, <2>2 DEF TreeSound, Into
    <3> QED
      BY <2>1, <2>2, <3>1, FS_EmptySet DEF One
  <2>3. CASE i # Root
    <3>1. Cardinality(Into(tree, i)) \in Nat
      <4>1. Into(tree, i) \in SUBSET tree
        BY DEF Into
      <4> QED
        BY <1>4, <4>1, FS_Subset, FS_CardinalityType
    <3> QED
      BY <1>7, <2>1, <2>3, <3>1 DEF One
  <2> QED
    BY <2>2, <2>3
<1>11. ASSUME NEW b \in Block, NEW n \in Name
       PROVE  /\ dirent[b][n] # None => \E l \in tree : l[1] = b /\ l[2] = n
              /\ \A x \in Inum : dirent[b][n] = x <=> \E l \in tree : l[1] = b /\ l[2] = n /\ l[3] = x
  <2>1. dirent[b][n] = IF named(b, n) = {} THEN None ELSE named1(b, n)[3]
    <3>1. dirent[b][n] = from(b, n)
      BY <1>2, <1>5
    <3> QED
      BY <1>5, <3>1
  <2>2. CASE named(b, n) = {}
    BY <1>7, <2>1, <2>2 DEF Inum, None
  <2>3. CASE named(b, n) # {}
    <3>1. named1(b, n) \in tree /\ named1(b, n)[1] = b /\ named1(b, n)[2] = n
      BY <1>6, <1>7, <2>3
    <3>2. \A l \in tree : l[1] = b /\ l[2] = n => l = named1(b, n)
      BY <1>4, <3>1 DEF TreeSound
    <3> QED
      BY <2>1, <2>3, <3>1, <3>2
  <2> QED
    BY <2>2, <2>3
<1>12. dirent[Root][".."] = Root
  <2>1. dirent[Root][".."] = from(Root, "..")
    BY <1>2, <1>5
  <2> QED
    BY <2>1
<1>13. ASSUME NEW l \in tree, l[4] = "dir" PROVE dirent[l[3]][".."] = l[1]
  <2>1. dirent[l[3]][".."] = from(l[3], "..")
    BY <1>2, <1>4, <1>5
  <2>2. l[3] \in Inum /\ l[3] # Root /\ kind(l[3]) = "dir" /\ into1(l[3]) = l
    BY <1>4, <1>8, <1>13
  <2> QED
    BY <2>1, <2>2
<1>14. ASSUME NEW i \in Inum
       PROVE  /\ dinode[i].type = kind(i)
              /\ dinode[i].nlink = one(i) + Cardinality(Subs(tree, i))
              /\ dinode[i].addr = IF kind(i) = "dir" THEN i ELSE None
  <2> HIDE DEF kind, one
  <2> QED
    BY <1>2, <1>7
<1>15. kind(Root) = "dir"
  OBVIOUS
<1> HIDE DEF kind, one, from
<1>16. bitmap = {i \in Inum : dinode[i].type = "dir"}
  BY <1>2, <1>14
<1>17. ASSUME NEW l \in tree
       PROVE  /\ l[1] \in Inum /\ l[2] \in Name /\ l[3] \in Inum /\ l[4] \in {"file", "dir"}
              /\ dinode[l[3]].type = l[4] /\ dinode[l[1]].type = "dir"
              /\ l[4] = "dir" => dirent[l[3]][".."] = l[1]
  BY <1>4, <1>8, <1>9, <1>13, <1>14
<1>18. ASSUME NEW i \in Inum
       PROVE  /\ dinode[i].type # "free" => i = Root \/ \E l \in tree : l[3] = i
              /\ dinode[i].nlink = One(i = Root) + Cardinality(Into(tree, i))
                                            + Cardinality(Subs(tree, i))
              /\ dinode[i].addr = IF dinode[i].type = "dir" THEN i ELSE None
  BY <1>10, <1>14
<1>19. DiskOf(tree)
  BY <1>4, <1>5, <1>11, <1>12, <1>14, <1>15, <1>16, <1>17, <1>18 DEF DiskOf
<1> QED
  BY <1>19

-----------------------------------------------------------------------------
\* The link of a name in a tree.
LinkOf(l) == <<l[1], l[2], l[3]>>

\* The links of a part of the tree are as many as its members.
LEMMA LinksOf ==
  ASSUME NEW tree, IsFiniteSet(tree), TreeSound(tree), NEW S \in SUBSET tree, NEW T,
         \A l \in S : LinkOf(l) \in T, \A z \in T : \E l \in S : LinkOf(l) = z
  PROVE  IsFiniteSet(T) /\ Cardinality(T) = Cardinality(S)
<1> DEFINE f == [l \in S |-> LinkOf(l)]
<1>1. IsFiniteSet(S)
  BY FS_Subset
<1>2. f \in [S -> T] /\ \A l \in S : f[l] = LinkOf(l)
  OBVIOUS
<1>3. \A l, m \in S : f[l] = f[m] => l = m
  <2> SUFFICES ASSUME NEW l \in S, NEW m \in S, LinkOf(l) = LinkOf(m) PROVE l = m
    BY <1>2
  <2>1. l[1] = m[1] /\ l[2] = m[2]
    BY DEF LinkOf
  <2> QED
    BY <2>1 DEF TreeSound
<1> HIDE DEF f
<1> QED
  BY <1>1, <1>2, <1>3, SameSize

\* The links on the disk of mkfs are those of the tree.
LEMMA InitLinks ==
  ASSUME Init, IInv, NEW tree, DiskOf(tree)
  PROVE  /\ \A i \in Inum : /\ Addr(i) # None <=> dinode[i].type = "dir"
                            /\ dinode[i].type = "dir" => Addr(i) = i
         /\ \A z \in Links : \E l \in tree : LinkOf(l) = z
<1>1. \A i \in Inum : Addr(i) = dinode[i].addr
  BY FsAssumption DEF Init, Addr
<1>2. None \notin Inum /\ Inum \subseteq Block
  BY FsAssumption DEF Inum, Block, None
<1>3. \A i \in Inum : /\ Addr(i) # None <=> dinode[i].type = "dir"
                      /\ dinode[i].type = "dir" => Addr(i) = i
  BY <1>1, <1>2 DEF DiskOf
<1>4. ASSUME NEW z \in Links PROVE \E l \in tree : LinkOf(l) = z
  <2>1. /\ z[1] \in Inum /\ z[2] \in Name /\ z[3] \in Inum /\ z = <<z[1], z[2], z[3]>>
        /\ dirent[z[1]][z[2]] = z[3]
    BY <1>3, <1>4, LinksAre
  <2>2. PICK l \in tree : l[1] = z[1] /\ l[2] = z[2] /\ l[3] = z[3]
    BY <1>2, <2>1 DEF DiskOf
  <2> QED
    BY <2>1, <2>2 DEF LinkOf
<1> QED
  BY <1>3, <1>4

\* The disk of mkfs satisfies the invariant.
LEMMA InitDInv == Init /\ Orderly => DInv
<1> SUFFICES ASSUME Init, Orderly PROVE DInv
  OBVIOUS
<1>1. PICK tree \in Trees[programs] : DiskOf(tree)
  BY InitDisk
<1>2. IInv
  BY InitIInv
<1>3. /\ \A p \in Process : cwd[p] = Root /\ file[p] = None /\ t[p] = Idle
      /\ \A i \in Inum : icache[i].busy = NoProcess /\ icache[i].valid = FALSE
      /\ \A i \in Inum : i # Root => icache[i].ref = 0
      /\ NoProcess \notin Process
  BY FsAssumption DEF Init
<1>4. \A p \in Process : /\ t[p].pc = "idle" /\ t[p].at = None /\ t[p].ip = None /\ t[p].dp = None
                         /\ First(t[p]) = None /\ Second(t[p]) = None /\ Label(t[p]) = "idle"
  BY <1>3 DEF Idle, First, Second, Label, PutPc
<1>5. \A i \in Inum : Addr(i) = dinode[i].addr /\ ~Mem(i)
  BY <1>3 DEF Addr, Mem
<1>6. Root \in Inum /\ None \notin Inum /\ Inum \subseteq Block /\ None \notin Block
  BY FsAssumption DEF Root, Inum, Block, None
<1>7. /\ TreeSound(tree) /\ IsFiniteSet(tree)
      /\ \A l \in tree : /\ l[1] \in Inum /\ l[2] \in Name /\ l[3] \in Inum
                         /\ dinode[l[3]].type = l[4] /\ dinode[l[1]].type = "dir"
                         /\ l[4] = "dir" => dirent[l[3]][".."] = l[1]
      /\ dinode[Root].type = "dir" /\ dirent[Root][".."] = Root
  BY <1>1 DEF DiskOf
<1>8. \A i \in Inum : /\ Addr(i) # None <=> dinode[i].type = "dir"
                      /\ dinode[i].type = "dir" => Addr(i) = i
  BY <1>1, <1>2, InitLinks
<1>9. /\ \A l \in tree : LinkOf(l) \in Links
      /\ \A z \in Links : \E l \in tree : LinkOf(l) = z
  <2>1. ASSUME NEW l \in tree PROVE LinkOf(l) \in Links
    <3>1. dirent[l[1]][l[2]] = l[3]
      BY <1>1, <1>6, <1>7 DEF DiskOf
    <3> QED
      BY <1>2, <1>6, <1>7, <1>8, <3>1, LinksAre DEF LinkOf
  <2>2. \A z \in Links : \E l \in tree : LinkOf(l) = z
    BY <1>1, <1>2, InitLinks
  <2> QED
    BY <2>1, <2>2
<1>10. \A z \in Links : \E l \in tree : l[1] = z[1] /\ l[2] = z[2] /\ l[3] = z[3]
  BY <1>9 DEF LinkOf
<1>11. IsFiniteSet(Links)
  BY <1>7, <1>9, LinksOf
<1>12. ASSUME NEW i \in Inum
       PROVE  /\ Cardinality(To(i)) = Cardinality(Into(tree, i))
              /\ Cardinality(Under(i)) = Cardinality(Subs(tree, i))
              /\ ForIp(i) = {} /\ ForDp(i) = {}
  <2>1. Into(tree, i) \in SUBSET tree /\ Subs(tree, i) \in SUBSET tree
    BY DEF Into, Subs
  <2>2. /\ \A l \in Into(tree, i) : LinkOf(l) \in To(i)
        /\ \A z \in To(i) : \E l \in Into(tree, i) : LinkOf(l) = z
    BY <1>9, <1>10 DEF Into, To, LinkOf
  <2>3. /\ \A l \in Subs(tree, i) : LinkOf(l) \in Under(i)
        /\ \A z \in Under(i) : \E l \in Subs(tree, i) : LinkOf(l) = z
    BY <1>7, <1>9, <1>10 DEF Subs, Under, LinkOf
  <2>4. ForIp(i) = {} /\ ForDp(i) = {}
    BY <1>4 DEF ForIp, ForDp, PendIp, PendDp, DueIp
  <2>5. Cardinality(To(i)) = Cardinality(Into(tree, i))
    BY <1>7, <2>1, <2>2, LinksOf
  <2>6. Cardinality(Under(i)) = Cardinality(Subs(tree, i))
    BY <1>7, <2>1, <2>3, LinksOf
  <2> QED
    BY <2>4, <2>5, <2>6
<1>13. ASSUME NEW i \in Inum PROVE dinode[i].nlink = Due(i)
  <2>1. dinode[i].nlink = One(i = Root) + Cardinality(Into(tree, i)) + Cardinality(Subs(tree, i))
    BY <1>1 DEF DiskOf
  <2>2. /\ Cardinality(To(i)) \in Nat /\ Cardinality(Under(i)) \in Nat
        /\ One(i = Root) \in Nat
    BY <1>11, DueTyped DEF One
  <2> HIDE DEF One
  <2>3. Cardinality(ForIp(i)) = 0 /\ Cardinality(ForDp(i)) = 0
    BY <1>12, FS_EmptySet
  <2> QED
    BY <1>12, <2>1, <2>2, <2>3 DEF Due
<1>14. CountInv
  <2>1. \A i \in Inum : Due(i) \in Nat
    BY <1>11, DueTyped
  <2> QED
    BY <1>13, <2>1 DEF CountInv
<1>15. TreeInv
  <2>1. ASSUME NEW z \in Links
        PROVE  /\ dinode[z[3]].type # "free" /\ z[3] # Root
               /\ dinode[z[3]].type = "dir" =>
                     Addr(z[3]) # None /\ dirent[Addr(z[3])][".."] = z[1]
    <3>1. PICK l \in tree : l[1] = z[1] /\ l[2] = z[2] /\ l[3] = z[3]
      BY <1>10
    <3>2. l[4] \in {"file", "dir"}
      BY <1>1 DEF DiskOf
    <3> QED
      BY <1>7, <1>8, <3>1, <3>2 DEF TreeSound
  <2>2. ASSUME NEW y \in Links, NEW z \in Links PROVE ~(y[3] = z[1] /\ z[3] = y[1])
    <3>1. PICK l \in tree : l[1] = y[1] /\ l[2] = y[2] /\ l[3] = y[3]
      BY <1>10
    <3>2. PICK m \in tree : m[1] = z[1] /\ m[2] = z[2] /\ m[3] = z[3]
      BY <1>10
    <3> QED
      BY <1>7, <3>1, <3>2 DEF TreeSound
  <2> QED
    BY <1>11, <2>1, <2>2 DEF TreeInv
<1>16. \A l \in tree : \E z \in Links : z[1] = l[1] /\ z[2] = l[2] /\ z[3] = l[3]
  BY <1>9 DEF LinkOf
<1>17. StayInv
  <2> SUFFICES ASSUME NEW D \in SUBSET Name, DirsStay(programs, D)
               PROVE  /\ \A l \in Links : dinode[l[3]].type = "dir" => l[2] \in D
                      /\ \A i \in Inum : dinode[i].type = "dir" =>
                           \/ i = Root \/ (\E l \in Links : l[3] = i)
                           \/ \E p \in Process : Building(t[p], i)
                      /\ \A p \in Process : t[p].pc # "downlink"
    BY DEF StayInv
  <2>1. \A l \in Links : dinode[l[3]].type = "dir" => l[2] \in D
    BY <1>7, <1>10 DEF DirsStay
  <2>2. ASSUME NEW i \in Inum, dinode[i].type = "dir" PROVE i = Root \/ \E l \in Links : l[3] = i
    <3>1. i = Root \/ \E l \in tree : l[3] = i
      BY <1>1, <2>2 DEF DiskOf
    <3> QED
      BY <1>16, <3>1
  <2> QED
    BY <1>4, <2>1, <2>2
<1>18. BlockInv
  <2>1. bitmap = {i \in Inum : dinode[i].type = "dir"}
    BY <1>1 DEF DiskOf
  <2>2. ASSUME NEW b \in Block \ bitmap, NEW n \in Name PROVE dirent[b][n] = None
    <3>1. dirent[b][n] # None => \E l \in tree : l[1] = b
      BY <1>1 DEF DiskOf
    <3> QED
      BY <1>7, <2>1, <3>1
  <2> QED
    BY <1>8, <2>1, <2>2 DEF BlockInv
<1>19. DirInv
  BY <1>6, <1>7, <1>8 DEF DirInv
<1>20. FreeInv
  <2>1. ASSUME NEW i \in Inum, dinode[i].type = "free"
        PROVE  dinode[i].nlink = 0 /\ dinode[i].addr = None
    <3>1. Into(tree, i) = {} /\ Subs(tree, i) = {} /\ i # Root
      <4>1. \A l \in tree : l[4] # "free" /\ l[3] # i /\ l[1] # i
        BY <1>1, <1>7, <2>1 DEF DiskOf
      <4>2. Into(tree, i) = {}
        BY <4>1 DEF Into
      <4>3. Subs(tree, i) = {}
        BY <4>1 DEF Subs
      <4>4. dinode[Root].type # "free"
        BY <1>7
      <4> QED
        BY <2>1, <4>2, <4>3, <4>4
    <3>4. dinode[i].nlink = One(i = Root) + Cardinality(Into(tree, i))
                                          + Cardinality(Subs(tree, i))
      BY <1>1 DEF DiskOf
    <3>2. dinode[i].nlink = One(i = Root) + Cardinality({}) + Cardinality({})
      BY <3>1, <3>4
    <3>3. dinode[i].addr = None
      BY <1>5, <1>8, <2>1
    <3> QED
      BY <3>1, <3>2, <3>3, FS_EmptySet DEF One
  <2>2. ASSUME NEW i \in Inum, dinode[i].type # "free" PROVE dinode[i].nlink # 0
    <3>1. i = Root \/ \E l \in Links : l[3] = i
      BY <1>1, <1>16, <2>2 DEF DiskOf
    <3> QED
      BY <1>2, <1>14, <1>15, <2>2, <3>1, Dues
  <2> QED
    BY <2>1, <2>2 DEF FreeInv
<1>21. CallInv
  <2> SUFFICES ASSUME NEW p \in Process PROVE Typing(p) /\ Ending(p) /\ Making(p) /\ Going(p)
    BY DEF CallInv, CallSound
  <2>1. Typing(p)
    BY <1>3, <1>4, <1>7 DEF Typing, FreshPc
  <2>2. Ending(p)
    BY <1>4 DEF Ending, EndPc
  <2>3. Making(p)
    BY <1>4 DEF Making, FreshPc, Made
  <2>4. Going(p)
    BY <1>4 DEF Going, FreshPc, LookPc
  <2> QED
    BY <2>1, <2>2, <2>3, <2>4
<1>22. SoleInv
  BY <1>4 DEF SoleInv, Sole, FreshPc
<1>23. PointInv
  BY <1>3, <1>4, <1>6, <1>7 DEF PointInv, Uses, Else
<1>24. CopyInv
  BY <1>5 DEF CopyInv, CopyAt
<1>25. LockInv
  BY <1>3, <1>4, <1>6 DEF LockInv, Keeps, DpPc, OwnPc, EndPc
<1> QED
  BY <1>2, <1>14, <1>15, <1>17, <1>18, <1>19, <1>20, <1>21, <1>22, <1>23, <1>24, <1>25 DEF DInv

\* The invariant that the properties rest on, for orderly programs.
THEOREM DiskInvariant == ASSUME Orderly PROVE Spec => []DInv
<1>1. Init => DInv
  BY InitDInv
<1>2. DInv /\ [Next]_vars => DInv'
  BY NextDInv
<1> QED
  BY <1>1, <1>2, PTL DEF Spec

-----------------------------------------------------------------------------
(* What the invariant says of the four properties *)

\* The entry that an unlink has found is still there.
LEMMA VictimLinked ==
  ASSUME DInv, NEW p \in Process, t[p].pc = "victim"
  PROVE  <<t[p].dp, Elem(p), t[p].ip>> \in Links
<1>1. IInv /\ Typing(p) /\ Going(p)
  BY DEF DInv, CallInv, CallSound
<1>2. t[p].dp \in Inum /\ t[p].ip \in Inum
  BY <1>1, PointersTyped DEF DpPc, IpPc
<1>3. Label(t[p]) = "victim"
  BY DEF Label, PutPc
<1>4. Len(t[p].path) = 1 /\ Elem(p) # ".." /\ dirent[Addr(t[p].dp)][Elem(p)] = t[p].ip
  BY <1>1, <1>3 DEF Going, LookPc
<1>5. Elem(p) \in Name
  <2>1. t[p].path \in Seq(Entry)
    BY <1>1 DEF IInv, Sound, CallTyped
  <2>2. t[p].path[1] \in Entry
    BY <1>4, <2>1
  <2> QED
    BY <1>4, <2>2 DEF Elem, Entry
<1>6. dinode[t[p].dp].type = "dir"
  BY <1>1, <1>2 DEF Typing, Inum, None
<1>7. Addr(t[p].dp) # None
  <2>1. Uses(cwd[p], file[p], t[p], t[p].dp)
    BY DEF Uses, Else
  <2>2. ~Sole(t[p], t[p].dp)
    BY DEF Sole, FreshPc
  <2> QED
    BY <1>2, <1>6, <2>1, <2>2, DirBlock
<1>8. t[p].ip # None
  BY <1>2 DEF Inum, None
<1> QED
  BY <1>1, <1>2, <1>4, <1>5, <1>6, <1>7, <1>8, LinksAre

\* What a call waits for, and what it may hold then.
LEMMA WantedIs ==
  ASSUME DInv, NEW p \in Process, Wanted(p) # None
  PROVE  /\ Wanted(p) \in Inum /\ t[p].pc \in Waits
         /\ Uses(cwd[p], file[p], t[p], Wanted(p)) /\ icache[Wanted(p)].ref > 0
         /\ t[p].pc \in {"fresh", "victim", "bad"} => Wanted(p) = t[p].ip
         /\ t[p].pc \in {"create", "unlink", "enter"} => Wanted(p) = t[p].at
<1>1. t[p].pc \in Waits
  BY DEF Wanted, Waits
<1>2. IInv
  BY DEF DInv
<1>3. CASE t[p].pc \in {"fresh", "victim", "bad"}
  <2>1. Wanted(p) = t[p].ip
    BY <1>1, <1>3 DEF Wanted
  <2> QED
    BY <1>1, <1>2, <1>3, <2>1, PointersTyped, InUse DEF Uses
<1>4. CASE t[p].pc = "write"
  <2>1. Wanted(p) = file[p]
    BY <1>1, <1>4 DEF Wanted
  <2> QED
    BY <1>1, <1>2, <1>4, <2>1, PointersTyped, InUse DEF Uses, Else
<1>5. CASE t[p].pc \notin {"fresh", "victim", "bad", "write"}
  <2>1. Wanted(p) = t[p].at
    BY <1>1, <1>5 DEF Wanted
  <2>2. t[p].pc # "iget"
    BY <1>1 DEF Waits
  <2> QED
    BY <1>1, <1>2, <1>5, <2>1, <2>2, PointersTyped, InUse DEF Uses, Else
<1> QED
  BY <1>3, <1>4, <1>5

\* The invariant excludes the panics.
LEMMA DInvNeverPanics == DInv => FsNeverPanics
<1> SUFFICES ASSUME DInv, NEW p \in Process, AboutToPanic(p) PROVE FALSE
  BY DEF FsNeverPanics
<1>1. IInv /\ LockInv /\ CopyInv /\ PointInv /\ SoleInv /\ BlockInv /\ TreeInv /\ CountInv
  BY DEF DInv
<1>0. CacheTyped(icache) /\ TypeOK
  BY <1>1 DEF IInv
<1> DEFINE w == Wanted(p)
<1>2. CASE w # None /\ ~Typed(w)
  <2>1. w \in Inum /\ Uses(cwd[p], file[p], t[p], w)
    BY <1>2, WantedIs
  <2> QED
    BY <1>1, <1>2, <2>1 DEF PointInv, Typed
<1>3. CASE t[p].pc = "iput" /\ LastRef(Put(p)) /\ icache[Put(p)].busy # NoProcess
  <2>1. Put(p) \in Inum /\ First(t[p]) = Put(p)
    BY <1>1, <1>3, PointersTyped DEF PutPc
  <2>2. PICK q \in Process : icache[Put(p)].busy = q
    BY <1>0, <1>3, <2>1 DEF TypeOK
  <2>3. Keeps(file[q], t[q], Put(p))
    BY <1>1, <2>1, <2>2 DEF LockInv
  <2>4. icache[Put(p)].ref = 1 /\ Put(p) # None
    BY <1>3, <2>1 DEF LastRef, Inum, None
  <2>5. Share(p, Put(p)) >= 1 /\ Share(q, Put(p)) >= 1
    BY <1>1, <2>1, <2>3, InUse
  <2>6. Share(p, Put(p)) \in 0..7 /\ Share(q, Put(p)) \in 0..7
    BY ShareIs DEF Share
  <2>7. q = p
    BY <1>1, <2>1, <2>4, <2>5, <2>6, Shared
  <2>8. Share(p, Put(p)) = 1
    BY <1>1, <2>1, <2>4, <2>5, <2>6, Shared
  <2>9. t[p].ip # Put(p)
    BY <1>3, <2>1, <2>4, <2>8, ShareIs DEF Share
  <2> QED
    BY <1>3, <2>3, <2>7, <2>9 DEF Keeps, DpPc, EndPc
<1>4. CASE t[p].pc = "itrunc" /\ icache[Put(p)].addr \notin bitmap \cup {None}
  <2>1. Put(p) \in Inum /\ First(t[p]) = Put(p)
    BY <1>1, <1>4, PointersTyped DEF PutPc
  <2>2. Keeps(file[p], t[p], Put(p))
    BY <1>4, <2>1 DEF Keeps, EndPc
  <2>3. Addr(Put(p)) = icache[Put(p)].addr
    BY <1>1, <2>1, <2>2, OneKeeper DEF Mem, Addr
  <2> QED
    BY <1>1, <1>4, <2>1, <2>3 DEF BlockInv
<1>5. CASE t[p].pc = "victim" /\ Locked(w).nlink < 1
  <2>1. <<t[p].dp, Elem(p), t[p].ip>> \in Links
    BY <1>5, VictimLinked
  <2>2. t[p].ip \in Inum /\ t[p].ip # None
    BY <1>1, <1>5, PointersTyped DEF IpPc, Inum, None
  <2>3. w = t[p].ip
    BY <1>5 DEF Wanted, Waits
  <2>4. icache[w].ref > 0
    BY <2>2, <2>3, WantedIs
  <2>5. Locked(w).nlink = dinode[w].nlink
    <3> HIDE DEF w
    <3>1. SameCopy(Locked(w), IF icache[w].valid THEN icache[w] ELSE dinode[w])
      BY <1>0, <2>2, <2>3, <2>4, LockedIs
    <3>2. icache[w].valid => icache[w].nlink = dinode[w].nlink
      BY <1>1, <2>2, <2>3, <2>4 DEF CopyInv, CopyAt, Mem
    <3> QED
      BY <3>1, <3>2 DEF SameCopy
  <2>6. dinode[t[p].ip].type # "free"
    BY <1>1, <2>1 DEF TreeInv
  <2>7. dinode[t[p].ip].nlink \in Nat /\ dinode[t[p].ip].nlink >= 1
    BY <1>1, <2>1, <2>2, <2>6, Dues
  <2> HIDE DEF w
  <2> QED
    BY <1>5, <2>3, <2>5, <2>7
<1>6. CASE t[p].pc \in {"create", "unlink", "enter"} /\ Locked(w).type # "dir"
  <2>1. t[p].at \in Inum /\ t[p].at # None
    BY <1>1, <1>6, PointersTyped DEF AtPc, Inum, None
  <2>2. w = t[p].at
    BY <1>6 DEF Wanted, Waits
  <2>3. icache[w].ref > 0 /\ Uses(cwd[p], file[p], t[p], w)
    BY <2>1, <2>2, WantedIs
  <2>4. dinode[w].type = "dir"
    BY <1>6, <2>2 DEF DInv, CallInv, CallSound, Typing
  <2> HIDE DEF w
  <2>5. ASSUME NEW q \in Process, Freed(t[q], w) PROVE FALSE
    <3>1. PICK x \in Process : t[x].pc \in {"iget", "fresh"} /\ t[x].ip = w
      BY <2>4, <2>5 DEF DInv, CallInv, CallSound, Ending, Freed
    <3>2. Sole(t[x], w)
      BY <3>1 DEF Sole, FreshPc
    <3>3. x = p
      BY <2>1, <2>2, <2>3, <3>2, SoleUser
    <3> QED
      BY <1>6, <3>1, <3>3
  <2>6. icache[w].valid => icache[w].type = dinode[w].type
    BY <1>1, <2>1, <2>2, <2>3, <2>5 DEF CopyInv, CopyAt, Mem
  <2>7. SameCopy(Locked(w), IF icache[w].valid THEN icache[w] ELSE dinode[w])
    BY <1>0, <2>1, <2>2, <2>3, LockedIs
  <2> QED
    BY <1>6, <2>4, <2>6, <2>7 DEF SameCopy
<1> QED
  BY <1>2, <1>3, <1>4, <1>5, <1>6 DEF AboutToPanic

\* The invariant excludes that two wait for each other: children are locked last.
LEMMA DInvNoEmbrace == DInv => NoEmbrace
<1> SUFFICES ASSUME DInv, NEW p \in Process, NEW q \in Process,
                    Wanted(p) \in HasLocked(q), Wanted(q) \in HasLocked(p)
             PROVE  FALSE
  BY DEF NoEmbrace
<1>1. IInv /\ LockInv /\ TreeInv
  BY DEF DInv
<1>2. /\ Wanted(p) \in Inum /\ Keeps(file[q], t[q], Wanted(p))
      /\ Wanted(q) \in Inum /\ Keeps(file[p], t[p], Wanted(q))
  BY <1>1 DEF HasLocked, LockInv
<1>3. Wanted(p) # None /\ Wanted(q) # None
  BY <1>2 DEF Inum, None
\* A call that waits holds the directory of what it waits for, or nothing.
<1>4. ASSUME NEW x \in Process, Wanted(x) # None, NEW i, Keeps(file[x], t[x], i)
      PROVE  t[x].pc \in {"fresh", "victim"} /\ t[x].dp = i /\ Wanted(x) = t[x].ip
  <2>1. t[x].pc \in Waits
    BY <1>4, WantedIs
  <2>2. t[x].pc \notin PutPc /\ t[x].pc \notin OwnPc /\ t[x].pc \notin EndPc /\ t[x].pc # "grow"
    BY <2>1 DEF Waits, PutPc, OwnPc, EndPc
  <2>3. t[x].pc \in DpPc /\ t[x].dp = i
    BY <1>4, <2>2 DEF Keeps, Label
  <2>4. t[x].pc \in {"fresh", "victim"}
    BY <2>1, <2>3 DEF Waits, DpPc
  <2> QED
    BY <1>4, <2>3, <2>4, WantedIs
<1>5. /\ t[p].pc \in {"fresh", "victim"} /\ t[q].pc \in {"fresh", "victim"}
      /\ t[p].ip = t[q].dp /\ t[q].ip = t[p].dp /\ t[p].ip \in Inum /\ t[q].ip \in Inum
  BY <1>2, <1>3, <1>4
\* An inode that is being made is nobody else's, nor its own directory.
<1>6. ASSUME NEW x \in Process, NEW y \in Process, t[x].pc = "fresh", t[x].ip = t[y].dp,
             t[x].ip \in Inum
      PROVE  FALSE
  <2>1. Sole(t[x], t[x].ip) /\ Uses(cwd[y], file[y], t[y], t[x].ip)
    BY <1>6 DEF Sole, FreshPc, Uses, Else
  <2>2. x = y
    BY <1>6, <2>1, SoleUser
  <2>3. ~Else(cwd[x], file[x], t[x], t[x].ip)
    BY <1>6, <2>1 DEF DInv, SoleInv
  <2> QED
    BY <1>6, <2>2, <2>3 DEF Else
<1>7. t[p].pc = "victim" /\ t[q].pc = "victim"
  BY <1>5, <1>6
<1> DEFINE l == <<t[p].dp, Elem(p), t[p].ip>>
           m == <<t[q].dp, Elem(q), t[q].ip>>
<1>8. l \in Links /\ m \in Links
  BY <1>7, VictimLinked
<1>9. l[3] = m[1] /\ m[3] = l[1]
  BY <1>5
<1> HIDE DEF l, m
<1> QED
  BY <1>1, <1>8, <1>9 DEF TreeInv

-----------------------------------------------------------------------------
\* The links that are on the disk.
LEMMA OnDiskIs ==
  ASSUME IInv
  PROVE  /\ \A d \in Inum, n \in Name : \A x :
              <<d, n, x>> \in OnDisk <=> /\ dinode[d].type = "dir" /\ dinode[d].nlink > 0
                                         /\ dinode[d].addr # None
                                         /\ dirent[dinode[d].addr][n] = x /\ x # None
         /\ \A l \in OnDisk : /\ l[1] \in Inum /\ l[2] \in Name
                              /\ l = <<l[1], l[2], l[3]>>
<1> DEFINE Ds == {e \in Live : dinode[e].addr # None}
           Of(d) == {<<d, l[1], l[2]>> : l \in Names(dinode[d].addr)}
<1>1. OnDisk = UNION {Of(d) : d \in Ds}
  BY DEF OnDisk
<1>2. \A z : z \in OnDisk <=> \E d \in Ds : z \in Of(d)
  BY <1>1
<1>3. ASSUME NEW d, NEW z
      PROVE  z \in Of(d) <=> \E n \in Name : /\ z = <<d, n, dirent[dinode[d].addr][n]>>
                                             /\ dirent[dinode[d].addr][n] # None
  <2>1. ASSUME NEW n \in Name, z = <<d, n, dirent[dinode[d].addr][n]>>,
               dirent[dinode[d].addr][n] # None
        PROVE  z \in Of(d)
    <3> DEFINE m == <<n, dirent[dinode[d].addr][n]>>
    <3>1. m \in Names(dinode[d].addr)
      BY <2>1 DEF Names
    <3>2. <<d, m[1], m[2]>> \in Of(d)
      BY <3>1
    <3> QED
      BY <2>1, <3>2
  <2>2. ASSUME z \in Of(d)
        PROVE  \E n \in Name : /\ z = <<d, n, dirent[dinode[d].addr][n]>>
                               /\ dirent[dinode[d].addr][n] # None
    <3>1. PICK m \in Names(dinode[d].addr) : z = <<d, m[1], m[2]>>
      BY <2>2
    <3>2. PICK n \in Name : m = <<n, dirent[dinode[d].addr][n]>> /\ dirent[dinode[d].addr][n] # None
      BY <3>1 DEF Names
    <3> QED
      BY <3>1, <3>2
  <2> QED
    BY <2>1, <2>2
<1>4. \A d : d \in Ds <=> /\ d \in Inum /\ dinode[d].type = "dir" /\ dinode[d].nlink > 0
                          /\ dinode[d].addr # None
  BY DEF Live
<1> HIDE DEF Ds, Of
<1>5. ASSUME NEW d \in Inum, NEW n \in Name, NEW x
      PROVE  <<d, n, x>> \in OnDisk <=> /\ dinode[d].type = "dir" /\ dinode[d].nlink > 0
                                        /\ dinode[d].addr # None
                                        /\ dirent[dinode[d].addr][n] = x /\ x # None
  <2>1. ASSUME <<d, n, x>> \in OnDisk
        PROVE  d \in Ds /\ dirent[dinode[d].addr][n] = x /\ x # None
    <3>1. PICK e \in Ds : <<d, n, x>> \in Of(e)
      BY <1>2, <2>1
    <3>2. PICK m \in Name : /\ <<d, n, x>> = <<e, m, dirent[dinode[e].addr][m]>>
                            /\ dirent[dinode[e].addr][m] # None
      BY <1>3, <3>1
    <3> QED
      BY <3>1, <3>2
  <2>2. ASSUME d \in Ds, dirent[dinode[d].addr][n] = x, x # None
        PROVE  <<d, n, x>> \in OnDisk
    <3>1. <<d, n, x>> \in Of(d)
      BY <1>3, <2>2
    <3> QED
      BY <1>2, <2>2, <3>1
  <2> QED
    BY <1>4, <2>1, <2>2
<1>6. ASSUME NEW z \in OnDisk
      PROVE  z[1] \in Inum /\ z[2] \in Name /\ z = <<z[1], z[2], z[3]>>
  <2>1. PICK d \in Ds : z \in Of(d)
    BY <1>2
  <2>2. PICK n \in Name : z = <<d, n, dirent[dinode[d].addr][n]>>
    BY <1>3, <2>1
  <2> QED
    BY <1>4, <2>1, <2>2
<1> QED
  BY <1>5, <1>6

\* A block on the disk is the one in use, but for an inode that is given up; the
\* disk has the block of a directory that has a name.
LEMMA DiskAddr ==
  ASSUME DInv, NEW i \in Inum
  PROVE  /\ dinode[i].nlink # 0 /\ dinode[i].addr # None => Addr(i) = dinode[i].addr
         /\ \A l \in Links : l[3] = i /\ dinode[i].type = "dir" => Addr(i) = dinode[i].addr
<1>1. IInv /\ CopyInv /\ TreeInv /\ CountInv /\ CallInv
  BY DEF DInv
<1>2. (\A q \in Process : ~Ahead(file[q], t[q], i)) => Addr(i) = dinode[i].addr
  BY <1>1 DEF CopyInv, CopyAt, Mem, Addr
<1>3. ASSUME NEW q \in Process, Ahead(file[q], t[q], i)
      PROVE  /\ dinode[i].nlink = 0 \/ dinode[i].addr = None
             /\ \A l \in Links : l[3] = i => dinode[i].type # "dir"
  <2>1. Typing(q) /\ Ending(q) /\ Making(q)
    BY <1>1 DEF CallInv, CallSound
  <2>2. CASE t[q].pc = "dots" /\ t[q].ip = i
    <3>1. dinode[i].addr = None
      BY <2>1, <2>2 DEF Making, FreshPc
    <3>2. Sole(t[q], i)
      BY <2>2 DEF Sole, FreshPc
    <3> QED
      BY <3>1, <3>2 DEF DInv, SoleInv
  <2>3. CASE t[q].pc = "grow" /\ file[q] = i
    BY <2>1, <2>3 DEF Typing, Making
  <2>4. CASE t[q].pc = "ifree" /\ First(t[q]) = i
    <3>1. dinode[i].nlink = 0
      BY <2>1, <2>4 DEF Ending, EndPc
    <3>2. Sole(t[q], i)
      BY <2>4 DEF Sole
    <3> QED
      BY <3>1, <3>2 DEF DInv, SoleInv
  <2> QED
    BY <1>3, <2>2, <2>3, <2>4 DEF Ahead
<1> QED
  BY <1>2, <1>3

\* Below the root they are the links of the tree.
LEMMA OnDiskLinks ==
  ASSUME DInv
  PROVE  OnDisk \subseteq Links
<1> SUFFICES ASSUME NEW l \in OnDisk PROVE l \in Links
  OBVIOUS
<1>1. IInv
  BY DEF DInv
<1>2. l[1] \in Inum /\ l[2] \in Name /\ l = <<l[1], l[2], l[3]>>
  BY <1>1, OnDiskIs
<1>3. <<l[1], l[2], l[3]>> \in OnDisk
  BY <1>2
<1>4. /\ dinode[l[1]].type = "dir" /\ dinode[l[1]].nlink > 0 /\ dinode[l[1]].addr # None
      /\ dirent[dinode[l[1]].addr][l[2]] = l[3] /\ l[3] # None
  BY <1>1, <1>2, <1>3, OnDiskIs
<1>5. Addr(l[1]) = dinode[l[1]].addr
  BY <1>2, <1>4, DiskAddr
<1>6. <<l[1], l[2], l[3]>> \in Links
  BY <1>1, <1>2, <1>4, <1>5, LinksAre
<1> QED
  BY <1>2, <1>6

\* The invariant makes the disk sound.
LEMMA DInvDiskSound == DInv => DiskSound
<1> SUFFICES ASSUME DInv PROVE DiskSound
  OBVIOUS
<1>1. IInv /\ TreeInv /\ CountInv /\ FreeInv /\ BlockInv
  BY DEF DInv
<1>2. OnDisk \subseteq Links
  BY OnDiskLinks
<1>3. \A l \in OnDisk : dinode[l[3]].type # "free"
  BY <1>1, <1>2 DEF TreeInv
<1>4. ASSUME NEW i \in Inum
      PROVE  /\ dinode[i].nlink >= 0
             /\ dinode[i].type # "free" => dinode[i].nlink = 0 \/ dinode[i].nlink >= Counted(i)
  <2>1. CASE dinode[i].type = "free"
    BY <1>1, <2>1 DEF FreeInv
  <2>2. CASE dinode[i].type # "free"
    <3>1. IsFiniteSet(To(i)) /\ IsFiniteSet(Under(i))
      BY <1>1, DueTyped DEF TreeInv
    <3>2. LinksTo(i) \in SUBSET To(i) /\ Subdirs(i) \in SUBSET Under(i)
      BY <1>2 DEF LinksTo, To, Subdirs, Under
    <3> DEFINE a == Cardinality(LinksTo(i)) b == Cardinality(Subdirs(i))
               c == Cardinality(To(i)) d == Cardinality(Under(i))
               e == Cardinality(ForIp(i)) f == Cardinality(ForDp(i)) r == One(i = Root)
    <3>3. a \in Nat /\ b \in Nat /\ a <= c /\ b <= d
      BY <3>1, <3>2, FS_Subset, FS_CardinalityType
    <3>4. c \in Nat /\ d \in Nat /\ e \in Nat /\ f \in Nat /\ Due(i) \in Nat
      BY <1>1, DueTyped DEF TreeInv
    <3>5. Counted(i) = r + a + b /\ Due(i) = r + c + d + e + f
      BY DEF Counted, Due
    <3>6. r \in Nat
      BY DEF One
    <3>7. dinode[i].nlink >= Due(i) /\ dinode[i].nlink \in Nat
      BY <1>1, <2>2, Dues DEF CountInv
    <3> HIDE DEF a, b, c, d, e, f, r
    <3>8. Counted(i) \in Nat /\ Counted(i) <= Due(i)
      BY <3>3, <3>4, <3>5, <3>6
    <3> QED
      BY <3>4, <3>7, <3>8
  <2> QED
    BY <2>1, <2>2
<1>5. ASSUME NEW l \in OnDisk
      PROVE  /\ dinode[l[3]].nlink > 0
             /\ dinode[l[3]].type = "dir" => dirent[dinode[l[3]].addr][".."] = l[1]
  <2>1. l \in Links /\ l[3] \in Inum
    BY <1>1, <1>2, LinksAre
  <2>2. dinode[l[3]].nlink \in Nat /\ dinode[l[3]].nlink >= 1
    BY <1>1, <1>3, <2>1, Dues
  <2>3. dinode[l[3]].type = "dir" =>
          Addr(l[3]) = dinode[l[3]].addr /\ dirent[Addr(l[3])][".."] = l[1]
    BY <1>1, <2>1, DiskAddr DEF TreeInv
  <2> QED
    BY <2>2, <2>3
<1>6. ASSUME NEW i \in Inum, NEW j \in Inum, dinode[i].nlink > 0, dinode[i].addr # None
      PROVE  /\ dinode[i].addr \in bitmap
             /\ dinode[j].nlink > 0 /\ dinode[j].addr = dinode[i].addr => i = j
  <2>1. Addr(i) = dinode[i].addr
    BY <1>6, DiskAddr
  <2>2. dinode[j].nlink > 0 /\ dinode[j].addr = dinode[i].addr => Addr(j) = dinode[j].addr
    BY <1>6, DiskAddr
  <2> QED
    BY <1>1, <1>6, <2>1, <2>2 DEF BlockInv
<1> QED
  BY <1>3, <1>4, <1>5, <1>6 DEF DiskSound

\* The invariant keeps inodes and blocks from being lost when all is quiet.
LEMMA DInvNothingLost == DInv => NothingLost
<1> SUFFICES ASSUME DInv, Stay, \A p \in Process : t[p].pc = "idle"
             PROVE  /\ \A i \in Inum : dinode[i].type # "free" =>
                         /\ dinode[i].nlink = Counted(i)
                         /\ Counted(i) > 0 \/ icache[i].ref > 0
                    /\ bitmap = {dinode[i].addr : i \in Inum} \ {None}
  BY DEF NothingLost
<1>1. IInv /\ CopyInv /\ TreeInv /\ CountInv /\ FreeInv /\ BlockInv /\ StayInv
  BY DEF DInv
<1>2. \A p \in Process : Label(t[p]) = "idle"
  BY DEF Label, PutPc
<1>3. ASSUME NEW i \in Inum PROVE Addr(i) = dinode[i].addr
  <2>1. \A q \in Process : ~Ahead(file[q], t[q], i)
    BY DEF Ahead
  <2> QED
    BY <1>1, <2>1 DEF CopyInv, CopyAt, Mem, Addr
<1>4. ASSUME NEW i \in Inum, dinode[i].type = "dir" PROVE dinode[i].nlink > 0
  <2>1. PICK D \in SUBSET Name : DirsStay(programs, D)
    BY DEF Stay
  <2>2. i = Root \/ (\E l \in Links : l[3] = i) \/ \E p \in Process : Building(t[p], i)
    BY <1>1, <1>4, <2>1 DEF StayInv
  <2>3. \A p \in Process : ~Building(t[p], i)
    BY DEF Building, FreshPc
  <2>4. dinode[i].nlink \in Nat /\ dinode[i].nlink >= 1
    BY <1>1, <1>4, <2>2, <2>3, Dues
  <2> QED
    BY <2>4
<1>5. OnDisk = Links
  <2>1. ASSUME NEW l \in Links PROVE l \in OnDisk
    <3>1. /\ l[1] \in Inum /\ l[2] \in Name /\ l = <<l[1], l[2], l[3]>>
          /\ dinode[l[1]].type = "dir" /\ Addr(l[1]) # None
          /\ dirent[Addr(l[1])][l[2]] = l[3] /\ l[3] # None
      BY <1>1, LinksAre
    <3>2. <<l[1], l[2], l[3]>> \in OnDisk
      BY <1>1, <1>3, <1>4, <3>1, OnDiskIs
    <3> QED
      BY <3>1, <3>2
  <2> QED
    BY <2>1, OnDiskLinks
<1>6. ASSUME NEW i \in Inum, dinode[i].type # "free"
      PROVE  dinode[i].nlink = Counted(i) /\ (Counted(i) > 0 \/ icache[i].ref > 0)
  <2>1. LinksTo(i) = To(i) /\ Subdirs(i) = Under(i)
    BY <1>5 DEF LinksTo, To, Subdirs, Under
  <2>2. ForIp(i) = {} /\ ForDp(i) = {}
    BY <1>2 DEF ForIp, ForDp, PendIp, PendDp, DueIp
  <2>3. Cardinality(ForIp(i)) = 0 /\ Cardinality(ForDp(i)) = 0
    BY <2>2, FS_EmptySet
  <2>4. Cardinality(To(i)) \in Nat /\ Cardinality(Under(i)) \in Nat /\ One(i = Root) \in Nat
    BY <1>1, DueTyped DEF TreeInv, One
  <2>5. dinode[i].nlink = Due(i)
    BY <1>1, <1>6 DEF CountInv
  <2> HIDE DEF One
  <2>6. dinode[i].nlink = Counted(i) /\ Counted(i) \in Nat
    BY <2>1, <2>3, <2>4, <2>5 DEF Due, Counted
  <2>7. ASSUME dinode[i].nlink = 0 PROVE icache[i].ref > 0
    <3>1. PICK p \in Process : Uses(cwd[p], file[p], t[p], i)
      BY <1>1, <1>6, <2>7 DEF FreeInv
    <3>2. t[p].pc # "iget"
      OBVIOUS
    <3> QED
      BY <1>1, <3>1, <3>2, InUse
  <2> QED
    BY <2>6, <2>7
<1>7. bitmap = {dinode[i].addr : i \in Inum} \ {None}
  <2>1. None \notin bitmap
    BY <1>1 DEF IInv, TypeOK, Block, None
  <2> QED
    BY <1>1, <1>3, <2>1 DEF BlockInv
<1> QED
  BY <1>6, <1>7

-----------------------------------------------------------------------------
(* What holds of the file system for orderly programs *)

\* None of the panics of fs.c and sysfile.c is reached, but for a full disk.
THEOREM NeverPanics == ASSUME Orderly PROVE Spec => []FsNeverPanics
<1>1. DInv => FsNeverPanics
  BY DInvNeverPanics
<1> QED
  BY <1>1, DiskInvariant, PTL

\* No two processes wait for each other's inodes.
THEOREM NoProcessesEmbrace == ASSUME Orderly PROVE Spec => []NoEmbrace
<1>1. DInv => NoEmbrace
  BY DInvNoEmbrace
<1> QED
  BY <1>1, DiskInvariant, PTL

\* What a crash finds on the disk is sound at every moment.
THEOREM DiskIsSound == ASSUME Orderly PROVE Spec => []DiskSound
<1>1. DInv => DiskSound
  BY DInvDiskSound
<1> QED
  BY <1>1, DiskInvariant, PTL

\* Between the calls of programs that remove no directory every count is exact,
\* every inode in use is reachable and every marked block is an inode's.
THEOREM NothingIsLost == ASSUME Orderly PROVE Spec => []NothingLost
<1>1. DInv => NothingLost
  BY DInvNothingLost
<1> QED
  BY <1>1, DiskInvariant, PTL

-----------------------------------------------------------------------------
(* What a call has done and answers *)

\* Label by label: its change is made or not, and the answer agrees with it.
UndonePc == {"idle", "walk", "open", "chdir", "create", "unlink", "link", "enter", "bad",
             "ialloc", "victim", "write", "grow"} \cup FreshPc
Told(r) ==
    /\ r.done \in BOOLEAN /\ r.ok \in BOOLEAN
    /\ Label(r) # "ret" => ~r.ok
    /\ Label(r) \in UndonePc => ~r.done
    /\ Label(r) \in {"open", "chdir", "link", "write"} => r.job.op = Label(r)
    /\ Label(r) = "grow" => r.job.op = "write"
    /\ Label(r) \in {"enter", "bad"} => r.job.op = "link"
    /\ Label(r) \in {"exists", "created"} => r.job.op \in {"create", "mkdir"}
    /\ Label(r) = "exists" => r.done = (r.job.op = "create")
    /\ Label(r) = "created" => r.done
    /\ Label(r) \in {"downlink", "unlinked"} => r.done /\ r.job.op = "unlink"
    /\ Label(r) = "ret" => /\ r.job.op \in {"mkdir", "unlink", "link"} => r.ok = r.done
                           /\ r.job.op = "create" /\ r.ok => r.done
ToldInv == \A p \in Process : Told(t[p])

\* p's call goes on towards label l, its change made or not as before.
GoesOn(p) ==
    /\ t[p].pc \notin {"idle", "ret"} /\ t'[p].pc # "idle"
    /\ t'[p].job = t[p].job /\ t'[p].done = t[p].done

\* The flags of a call that goes on as in d ...
LEMMA Flags ==
  ASSUME IInv, NEW p \in Process, NEW d, Set(p, d)
  PROVE  /\ t'[p].done = IF "done" \in DOMAIN d THEN d.done ELSE t[p].done
         /\ t'[p].ok = IF "ok" \in DOMAIN d THEN d.ok ELSE t[p].ok
<1>1. /\ t = [q \in Process |-> t[q]] /\ t[p] = [f \in Fields |-> t[p][f]]
  BY DEF IInv, Sound, CallTyped
<1>2. t'[p] = [f \in Fields |-> IF f \in DOMAIN d THEN d[f] ELSE t[p][f]]
  BY <1>1 DEF Set, With
<1> QED
  BY <1>2 DEF Fields

\* ... or puts references first.
LEMMA FlagsPut ==
  ASSUME IInv, NEW p \in Process, NEW s, NEW l, NEW d, Puts(p, s, l, d)
  PROVE  /\ t'[p].done = IF "done" \in DOMAIN d THEN d.done ELSE t[p].done
         /\ t'[p].ok = IF "ok" \in DOMAIN d THEN d.ok ELSE t[p].ok
<1>1. /\ t = [q \in Process |-> t[q]] /\ t[p] = [f \in Fields |-> t[p][f]]
  BY DEF IInv, Sound, CallTyped
<1> DEFINE w == With(t[p], d)
           u == With(w, [pc |-> "iput", puts |-> s, then |-> l])
<1>2. w = [f \in Fields |-> IF f \in DOMAIN d THEN d[f] ELSE t[p][f]]
  BY <1>1 DEF With
<1>3. t' = [t EXCEPT ![p] = u]
  BY DEF Puts
<1> HIDE DEF w
<1>4. u = [f \in Fields |->
             IF f = "pc" THEN "iput" ELSE IF f = "puts" THEN s ELSE IF f = "then" THEN l
             ELSE w[f]]
  BY <1>2 DEF With, Fields
<1> HIDE DEF u
<1>5. t'[p] = u
  BY <1>1, <1>3
<1> QED
  BY <1>2, <1>4, <1>5 DEF Fields

\* A call that puts references.
LEMMA PutsTold ==
  ASSUME DInv, ToldInv, NEW p \in Process,
         Iput(p) \/ IputLast(p) \/ Itrunc(p) \/ Ifree(p) \/ IputEnd(p)
  PROVE  Told(t'[p]) /\ GoesOn(p)
<1>1. IInv /\ Told(t[p]) /\ CallTyped(t[p])
  BY DEF DInv, IInv, Sound, ToldInv
<1>2. t[p].pc \in PutPc
  BY DEF Iput, IputLast, Itrunc, Ifree, IputEnd, PutPc
<1>3. /\ Label(t'[p]) = Label(t[p]) /\ t'[p].pc \in ThenPc \cup PutPc
      /\ t'[p].job = t[p].job /\ t'[p].done = t[p].done /\ t'[p].ok = t[p].ok
  <2>1. CASE Iput(p) \/ IputEnd(p)
    <3>1. Set(p, Next1(p)) /\ t[p].pc \in {"iput", "iputend"}
      BY <2>1 DEF Iput, IputEnd
    <3>2. "done" \notin DOMAIN Next1(p) /\ "ok" \notin DOMAIN Next1(p)
      BY DEF Next1
    <3>3. t'[p].done = t[p].done /\ t'[p].ok = t[p].ok
      BY <1>1, <3>1, <3>2, Flags
    <3> QED
      BY <1>1, <3>1, <3>3, PutDone DEF PutPc
  <2>2. CASE IputLast(p) \/ Itrunc(p) \/ Ifree(p)
    <3>1. PICK x \in PutPc : Set(p, [pc |-> x])
      BY <2>2 DEF IputLast, Itrunc, Ifree, PutPc
    <3>2. t'[p].done = t[p].done /\ t'[p].ok = t[p].ok
      BY <1>1, <3>1, Flags
    <3> QED
      BY <1>1, <1>2, <3>1, <3>2, Putting
  <2> QED
    BY <2>1, <2>2
<1>4. Told(t'[p])
  BY <1>1, <1>3 DEF Told
<1> QED
  BY <1>2, <1>3, <1>4 DEF GoesOn, PutPc, ThenPc

-----------------------------------------------------------------------------
\* What a call comes to that is not putting references.
LEMMA SetTold ==
  ASSUME IInv, NEW p \in Process, t[p].pc \notin PutPc, NEW d, Set(p, d),
         "pc" \in DOMAIN d, d.pc \notin PutPc, "puts" \notin DOMAIN d
  PROVE  /\ t'[p].pc = d.pc /\ Label(t'[p]) = d.pc /\ Label(t[p]) = t[p].pc
         /\ t'[p].job = IF "job" \in DOMAIN d THEN d.job ELSE t[p].job
         /\ t'[p].done = IF "done" \in DOMAIN d THEN d.done ELSE t[p].done
         /\ t'[p].ok = IF "ok" \in DOMAIN d THEN d.ok ELSE t[p].ok
<1>1. /\ t'[p].pc = d.pc /\ Label(t'[p]) = d.pc /\ Label(t[p]) = t[p].pc
      /\ t'[p].job = IF "job" \in DOMAIN d THEN d.job ELSE t[p].job
  BY Goes
<1>2. /\ t'[p].done = IF "done" \in DOMAIN d THEN d.done ELSE t[p].done
      /\ t'[p].ok = IF "ok" \in DOMAIN d THEN d.ok ELSE t[p].ok
  BY Flags
<1> QED
  BY <1>1, <1>2

\* A call that puts a reference.
LEMMA PutTold ==
  ASSUME IInv, NEW p \in Process, t[p].pc \notin PutPc, NEW i \in Inum, NEW l, NEW d,
         Puts(p, <<i>>, l, d), l \in ThenPc
  PROVE  /\ t'[p].pc = "iput" /\ Label(t'[p]) = l /\ Label(t[p]) = t[p].pc
         /\ t'[p].job = IF "job" \in DOMAIN d THEN d.job ELSE t[p].job
         /\ t'[p].done = IF "done" \in DOMAIN d THEN d.done ELSE t[p].done
         /\ t'[p].ok = IF "ok" \in DOMAIN d THEN d.ok ELSE t[p].ok
<1>1. /\ t'[p].pc = "iput" /\ Label(t'[p]) = l /\ Label(t[p]) = t[p].pc
      /\ t'[p].job = IF "job" \in DOMAIN d THEN d.job ELSE t[p].job
  BY GivesOne
<1>2. /\ t'[p].done = IF "done" \in DOMAIN d THEN d.done ELSE t[p].done
      /\ t'[p].ok = IF "ok" \in DOMAIN d THEN d.ok ELSE t[p].ok
  BY FlagsPut
<1> QED
  BY <1>1, <1>2

\* The walk of a path.
LEMMA WalkTold ==
  ASSUME DInv, ToldInv, NEW p \in Process,
         Walk(p) \/ WalkFails(p) \/ WalkParent(p) \/ WalkEnds(p)
  PROVE  Told(t'[p]) /\ GoesOn(p)
<1>1. IInv /\ Told(t[p]) /\ Sound(t[p], file[p]) /\ programs \in DOMAIN Jobs
  BY DEF DInv, IInv, ToldInv
<1>2. t[p].pc = "walk" /\ t[p].pc \notin PutPc /\ Label(t[p]) = "walk"
  BY DEF Walk, WalkFails, WalkParent, WalkEnds, At, PutPc, Label
<1>3. t[p].at \in Inum /\ t[p].job \in Jobs[programs]
  BY <1>1, <1>2 DEF Sound, PointersSet, CallTyped, AtPc
<1>4. ~t[p].done /\ ~t[p].ok /\ t[p].done \in BOOLEAN /\ t[p].ok \in BOOLEAN
  BY <1>1, <1>2 DEF Told, UndonePc
<1>5. /\ t[p].job.op \in {"open", "create", "mkdir", "unlink", "link", "chdir"}
      /\ t[p].ip # None => t[p].job.op = "link"
  BY <1>1, <1>2, <1>3, FsAssumption DEF Sound, CallFits
<1>6. Failed(p) \in {"bad", "ret"} /\ (Failed(p) = "bad" => t[p].job.op = "link")
  BY DEF Failed
<1>7. CASE Walk(p) \/ WalkFails(p) \/ (WalkEnds(p) /\ Parent(p))
  <2>1. PICK l, d :
             /\ l \in {"walk", "bad", "ret"}
             /\ Puts(p, <<t[p].at>>, l, d) /\ (l = "bad" => t[p].job.op = "link")
             /\ "job" \notin DOMAIN d /\ "done" \notin DOMAIN d /\ "ok" \notin DOMAIN d
    <3>1. CASE Walk(p)
      <4>1. PICK next : Puts(p, <<t[p].at>>, "walk", [at |-> next, path |-> Tail(t[p].path)])
        BY <3>1 DEF Walk
      <4> DEFINE d == [at |-> next, path |-> Tail(t[p].path)]
      <4>2. "job" \notin DOMAIN d /\ "done" \notin DOMAIN d /\ "ok" \notin DOMAIN d
        OBVIOUS
      <4>3. Puts(p, <<t[p].at>>, "walk", d)
        BY <4>1
      <4> HIDE DEF d
      <4> QED
        BY <4>2, <4>3
    <3>2. CASE WalkFails(p) \/ (WalkEnds(p) /\ Parent(p))
      <4> DEFINE d == [at |-> None]
      <4>1. Puts(p, <<t[p].at>>, Failed(p), d)
        BY <3>2 DEF WalkFails, WalkEnds
      <4>2. "job" \notin DOMAIN d /\ "done" \notin DOMAIN d /\ "ok" \notin DOMAIN d
        OBVIOUS
      <4> HIDE DEF d
      <4> QED
        BY <1>6, <4>1, <4>2
    <3> QED
      BY <1>7, <3>1, <3>2
  <2>2. l \in ThenPc
    BY <2>1 DEF ThenPc
  <2>3. /\ t'[p].pc = "iput" /\ Label(t'[p]) = l /\ t'[p].job = t[p].job
        /\ t'[p].done = t[p].done /\ t'[p].ok = t[p].ok
    BY <1>1, <1>2, <1>3, <2>1, <2>2, PutTold
  <2> QED
    BY <1>2, <1>4, <2>1, <2>3 DEF Told, GoesOn
<1>8. CASE WalkParent(p) \/ (WalkEnds(p) /\ ~Parent(p))
  <2>1. Set(p, [pc |-> Stage(p)])
    BY <1>8 DEF WalkParent, WalkEnds
  <2>2. /\ Stage(p) \in {"create", "enter", "open", "unlink", "link", "chdir"}
        /\ Stage(p) = "enter" => t[p].job.op = "link"
        /\ Stage(p) \in {"open", "chdir", "link"} => t[p].job.op = Stage(p)
    BY <1>5 DEF Stage
  <2>3. Stage(p) \notin PutPc
    BY <2>2 DEF PutPc
  <2>4. /\ t'[p].pc = Stage(p) /\ Label(t'[p]) = Stage(p) /\ t'[p].job = t[p].job
        /\ t'[p].done = t[p].done /\ t'[p].ok = t[p].ok
    BY <1>1, <1>2, <2>1, <2>3, SetTold
  <2> QED
    BY <1>2, <1>4, <2>2, <2>4 DEF Told, GoesOn
<1> QED
  BY <1>7, <1>8

-----------------------------------------------------------------------------
\* open and chdir at the end of their path.
LEMMA OpenTold ==
  ASSUME DInv, ToldInv, NEW p \in Process, Open(p) \/ OpenFails(p) \/ Chdir(p)
  PROVE  Told(t'[p]) /\ GoesOn(p)
<1>1. IInv /\ Told(t[p]) /\ Sound(t[p], file[p]) /\ cwd[p] \in Inum
  BY DEF DInv, IInv, TypeOK, ToldInv
<1>2. t[p].pc \in {"open", "chdir"} /\ t[p].pc \notin PutPc /\ Label(t[p]) = t[p].pc
  BY DEF Open, OpenFails, Chdir, At, PutPc, Label
<1>3. t[p].at \in Inum /\ "ret" \in ThenPc /\ "ret" \notin PutPc
  BY <1>1, <1>2 DEF Sound, PointersSet, AtPc, ThenPc, PutPc
<1>4. /\ ~t[p].done /\ ~t[p].ok /\ t[p].done \in BOOLEAN /\ t[p].ok \in BOOLEAN
      /\ t[p].job.op \in {"open", "chdir"}
  BY <1>1, <1>2 DEF Told, UndonePc
<1>5. CASE Open(p)
  <2>1. Set(p, [at |-> None, pc |-> "ret", ok |-> TRUE])
    BY <1>5 DEF Open
  <2>2. /\ t'[p].pc = "ret" /\ Label(t'[p]) = "ret" /\ t'[p].job = t[p].job
        /\ t'[p].done = t[p].done /\ t'[p].ok = TRUE
    BY <1>1, <1>2, <1>3, <2>1, SetTold
  <2> QED
    BY <1>2, <1>4, <2>2 DEF Told, UndonePc, FreshPc, GoesOn
<1>6. CASE OpenFails(p) \/ (Chdir(p) /\ Locked(t[p].at).type # "dir")
  <2>1. Puts(p, <<t[p].at>>, "ret", [at |-> None])
    BY <1>6 DEF OpenFails, Chdir
  <2>2. /\ t'[p].pc = "iput" /\ Label(t'[p]) = "ret" /\ t'[p].job = t[p].job
        /\ t'[p].done = t[p].done /\ t'[p].ok = t[p].ok
    BY <1>1, <1>2, <1>3, <2>1, PutTold
  <2> QED
    BY <1>2, <1>4, <2>2 DEF Told, UndonePc, FreshPc, GoesOn
<1>7. CASE Chdir(p) /\ Locked(t[p].at).type = "dir"
  <2>1. Puts(p, <<cwd[p]>>, "ret", [at |-> None, ok |-> TRUE])
    BY <1>7 DEF Chdir
  <2>2. /\ t'[p].pc = "iput" /\ Label(t'[p]) = "ret" /\ t'[p].job = t[p].job
        /\ t'[p].done = t[p].done /\ t'[p].ok = TRUE
    BY <1>1, <1>2, <1>3, <2>1, PutTold
  <2> QED
    BY <1>2, <1>4, <2>2 DEF Told, UndonePc, FreshPc, GoesOn
<1> QED
  BY <1>5, <1>6, <1>7

\* write.
LEMMA WriteTold ==
  ASSUME DInv, ToldInv, NEW p \in Process, Write(p) \/ WriteBlock(p) \/ Grow(p)
  PROVE  Told(t'[p]) /\ GoesOn(p)
<1>1. IInv /\ Told(t[p])
  BY DEF DInv, ToldInv
<1>2. t[p].pc \in {"write", "grow"} /\ t[p].pc \notin PutPc /\ Label(t[p]) = t[p].pc
  BY DEF Write, WriteBlock, Grow, At, PutPc, Label
<1>3. /\ ~t[p].done /\ ~t[p].ok /\ t[p].done \in BOOLEAN /\ t[p].ok \in BOOLEAN
      /\ t[p].job.op = "write"
  BY <1>1, <1>2 DEF Told, UndonePc
<1>4. "ret" \notin PutPc /\ "grow" \notin PutPc
  BY DEF PutPc
<1>5. CASE Write(p)
  <2> DEFINE o == Locked(file[p]).type = "file"
  <2>1. Set(p, [pc |-> "ret", ok |-> o]) /\ o \in BOOLEAN
    BY <1>5 DEF Write
  <2> HIDE DEF o
  <2>2. /\ t'[p].pc = "ret" /\ Label(t'[p]) = "ret" /\ t'[p].job = t[p].job
        /\ t'[p].done = t[p].done /\ t'[p].ok = o
    BY <1>1, <1>2, <1>4, <2>1, SetTold
  <2> QED
    BY <1>2, <1>3, <2>1, <2>2 DEF Told, UndonePc, FreshPc, GoesOn
<1>6. CASE WriteBlock(p)
  <2>1. Set(p, [pc |-> "grow"])
    BY <1>6 DEF WriteBlock
  <2>2. /\ t'[p].pc = "grow" /\ Label(t'[p]) = "grow" /\ t'[p].job = t[p].job
        /\ t'[p].done = t[p].done /\ t'[p].ok = t[p].ok
    BY <1>1, <1>2, <1>4, <2>1, SetTold
  <2> QED
    BY <1>2, <1>3, <2>2 DEF Told, UndonePc, FreshPc, GoesOn
<1>7. CASE Grow(p)
  <2>1. Set(p, [pc |-> "ret", ok |-> TRUE])
    BY <1>7 DEF Grow
  <2>2. /\ t'[p].pc = "ret" /\ Label(t'[p]) = "ret" /\ t'[p].job = t[p].job
        /\ t'[p].done = t[p].done /\ t'[p].ok = TRUE
    BY <1>1, <1>2, <1>4, <2>1, SetTold
  <2> QED
    BY <1>2, <1>3, <2>2 DEF Told, UndonePc, FreshPc, GoesOn
<1> QED
  BY <1>5, <1>6, <1>7

\* link, but for the step that makes the name.
LEMMA LinkTold ==
  ASSUME DInv, ToldInv, NEW p \in Process,
         LinkDir(p) \/ Link(p) \/ LinkTaken(p) \/ LinkBad(p)
  PROVE  Told(t'[p]) /\ GoesOn(p)
<1>1. IInv /\ Told(t[p]) /\ Sound(t[p], file[p])
  BY DEF DInv, IInv, ToldInv
<1>2. t[p].pc \in {"link", "enter", "bad"} /\ t[p].pc \notin PutPc /\ Label(t[p]) = t[p].pc
  BY DEF LinkDir, Link, LinkTaken, LinkBad, At, PutPc, Label
<1>3. /\ t[p].pc # "bad" => t[p].at \in Inum
      /\ t[p].pc = "bad" => t[p].ip \in Inum
      /\ "ret" \in ThenPc /\ "bad" \in ThenPc /\ "walk" \notin PutPc
  BY <1>1, <1>2 DEF Sound, PointersSet, AtPc, IpPc, ThenPc, PutPc
<1>4. /\ ~t[p].done /\ ~t[p].ok /\ t[p].done \in BOOLEAN /\ t[p].ok \in BOOLEAN
      /\ t[p].job.op = "link"
  BY <1>1, <1>2 DEF Told, UndonePc
<1>5. CASE LinkDir(p) \/ LinkTaken(p)
  <2>1. PICK l \in {"ret", "bad"} : Puts(p, <<t[p].at>>, l, [at |-> None])
    <3>1. Puts(p, <<t[p].at>>, "ret", [at |-> None]) \/ Puts(p, <<t[p].at>>, "bad", [at |-> None])
      BY <1>5 DEF LinkDir, LinkTaken, Dir
    <3> QED
      BY <3>1
  <2>2. /\ t'[p].pc = "iput" /\ Label(t'[p]) = l /\ t'[p].job = t[p].job
        /\ t'[p].done = t[p].done /\ t'[p].ok = t[p].ok
    <3>1. t[p].pc # "bad"
      BY <1>5 DEF LinkDir, LinkTaken, At
    <3>2. t[p].at \in Inum /\ l \in ThenPc
      BY <1>3, <3>1
    <3> QED
      BY <1>1, <1>2, <2>1, <3>2, PutTold
  <2> QED
    BY <1>2, <1>4, <2>2 DEF Told, UndonePc, FreshPc, GoesOn
<1>6. CASE Link(p)
  <2> DEFINE s == Start(p, t[p].job)
             n == t[p].job.new
             i == t[p].at
  <2>1. Set(p, [ip |-> i, at |-> s, path |-> n, pc |-> "walk"])
    BY <1>6 DEF Link
  <2> HIDE DEF s, n, i
  <2>2. /\ t'[p].pc = "walk" /\ Label(t'[p]) = "walk" /\ t'[p].job = t[p].job
        /\ t'[p].done = t[p].done /\ t'[p].ok = t[p].ok
    BY <1>1, <1>2, <1>3, <2>1, SetTold
  <2> QED
    BY <1>2, <1>4, <2>2 DEF Told, UndonePc, FreshPc, GoesOn
<1>7. CASE LinkBad(p)
  <2>1. Puts(p, <<t[p].ip>>, "ret", [ip |-> None]) /\ t[p].ip \in Inum
    BY <1>3, <1>7 DEF LinkBad, At
  <2>2. /\ t'[p].pc = "iput" /\ Label(t'[p]) = "ret" /\ t'[p].job = t[p].job
        /\ t'[p].done = t[p].done /\ t'[p].ok = t[p].ok
    BY <1>1, <1>2, <1>3, <2>1, PutTold
  <2> QED
    BY <1>2, <1>4, <2>2 DEF Told, UndonePc, FreshPc, GoesOn
<1> QED
  BY <1>5, <1>6, <1>7

-----------------------------------------------------------------------------
\* create, but for the step that makes the name.
MakePc == {"create", "exists", "ialloc", "created"} \cup FreshPc
\* create and mkdir, but for the step that makes the name.
LEMMA CreateTold ==
  ASSUME DInv, ToldInv, NEW p \in Process,
         \/ CreateFound(p) \/ Exists(p) \/ CreateNew(p) \/ Ialloc(p) \/ IallocGet(p)
         \/ Fresh(p) \/ Uplink(p) \/ DotsBlock(p) \/ Dots(p) \/ Created(p)
  PROVE  /\ Told(t'[p])
         /\ ~CreateFound(p) => GoesOn(p)
         /\ CreateFound(p) => /\ t[p].pc = "create" /\ ~t[p].done /\ t'[p].pc = "iput"
                              /\ t'[p].job = t[p].job /\ t[p].job.op \in {"create", "mkdir"}
                              /\ t'[p].done = (t[p].job.op = "create")
<1>1. IInv /\ Told(t[p]) /\ Sound(t[p], file[p]) /\ CallSound(p)
  BY DEF DInv, IInv, ToldInv, CallInv
<1>2. t[p].pc \in MakePc /\ t[p].pc \notin PutPc /\ Label(t[p]) = t[p].pc
  BY DEF CreateFound, Exists, CreateNew, Ialloc, IallocGet, Fresh, Uplink, DotsBlock, Dots,
         Created, At, PutPc, Label, MakePc, FreshPc
<1>3. /\ t[p].pc \in {"create", "exists"} => t[p].at \in Inum
      /\ t[p].pc = "created" => t[p].ip \in Inum
      /\ "ret" \in ThenPc /\ "exists" \in ThenPc /\ "ret" \notin PutPc
  BY <1>1, <1>2 DEF Sound, PointersSet, AtPc, IpPc, ThenPc, PutPc
<1>4. /\ ~t[p].ok /\ t[p].done \in BOOLEAN /\ t[p].ok \in BOOLEAN
      /\ t[p].pc \notin {"exists", "created"} => ~t[p].done
      /\ t[p].pc = "exists" => t[p].done = (t[p].job.op = "create")
      /\ t[p].pc = "created" => t[p].done = TRUE
      /\ t[p].pc \in {"exists", "created"} => t[p].job.op \in {"create", "mkdir"}
  BY <1>1, <1>2 DEF Told, UndonePc, MakePc, FreshPc
<1>5. t[p].pc \in MakePc \ {"exists", "created"} => t[p].job.op \in {"create", "mkdir"}
  BY <1>1, <1>2 DEF CallSound, Going, MakePc, LookPc
<1>6. CASE CreateFound(p)
  <2> DEFINE f == lookup(Dir(p), Elem(p))
             b == t[p].job.op = "create"
  <2>1. /\ Puts(p, <<Dir(p)>>, "exists", [at |-> f, done |-> b]) /\ b \in BOOLEAN
        /\ t[p].pc = "create" /\ Dir(p) \in Inum
    BY <1>3, <1>6 DEF CreateFound, At, Dir
  <2>2. b = (t[p].job.op = "create")
    OBVIOUS
  <2> HIDE DEF f, b
  <2>3. /\ t'[p].pc = "iput" /\ Label(t'[p]) = "exists" /\ t'[p].job = t[p].job
        /\ t'[p].done = b /\ t'[p].ok = t[p].ok
    BY <1>1, <1>2, <1>3, <2>1, PutTold
  <2>4. t[p].job.op \in {"create", "mkdir"} /\ ~t[p].done
    BY <1>4, <1>5, <2>1 DEF MakePc
  <2>5. Told(t'[p])
    <3>1. t'[p].done = (t'[p].job.op = "create") /\ t'[p].done \in BOOLEAN
      BY <2>1, <2>2, <2>3
    <3>2. t'[p].job.op \in {"create", "mkdir"} /\ ~t'[p].ok /\ t'[p].ok \in BOOLEAN
      BY <1>4, <2>3, <2>4
    <3> QED
      BY <2>3, <3>1, <3>2 DEF Told, UndonePc, FreshPc
  <2>6. t'[p].done = (t[p].job.op = "create")
    BY <2>2, <2>3
  <2> QED
    BY <1>6, <2>1, <2>3, <2>4, <2>5, <2>6
<1>7. CASE Exists(p)
  <2>1. t[p].pc = "exists" /\ ~CreateFound(p)
    BY <1>7 DEF Exists, CreateFound, At
  <2>2. CASE t[p].job.op = "create" /\ Set(p, [at |-> None, pc |-> "ret", ok |-> TRUE])
    <3>1. /\ t'[p].pc = "ret" /\ Label(t'[p]) = "ret" /\ t'[p].job = t[p].job
          /\ t'[p].done = t[p].done /\ t'[p].ok = TRUE
      BY <1>1, <1>2, <1>3, <2>2, SetTold
    <3> QED
      BY <1>4, <2>1, <2>2, <3>1 DEF Told, UndonePc, FreshPc, GoesOn
  <2>3. CASE Puts(p, <<t[p].at>>, "ret", [at |-> None])
    <3>1. /\ t'[p].pc = "iput" /\ Label(t'[p]) = "ret" /\ t'[p].job = t[p].job
          /\ t'[p].done = t[p].done /\ t'[p].ok = t[p].ok
      BY <1>1, <1>2, <1>3, <2>1, <2>3, PutTold
    <3> QED
      BY <1>4, <2>1, <3>1 DEF Told, UndonePc, FreshPc, GoesOn
  <2> QED
    BY <1>7, <2>2, <2>3 DEF Exists
<1>8. CASE Created(p)
  <2>1. t[p].pc = "created" /\ ~CreateFound(p)
    BY <1>8 DEF Created, CreateFound, At
  <2> DEFINE b == t[p].job.op = "mkdir"
  <2>2. CASE t[p].job.op = "create" /\ Set(p, [ip |-> None, pc |-> "ret", ok |-> TRUE])
    <3>1. /\ t'[p].pc = "ret" /\ Label(t'[p]) = "ret" /\ t'[p].job = t[p].job
          /\ t'[p].done = t[p].done /\ t'[p].ok = TRUE
      BY <1>1, <1>2, <1>3, <2>2, SetTold
    <3> QED
      BY <1>4, <2>1, <2>2, <3>1 DEF Told, UndonePc, FreshPc, GoesOn
  <2>3. CASE Puts(p, <<t[p].ip>>, "ret", [ip |-> None, ok |-> b])
    <3>1. b \in BOOLEAN /\ (b <=> t[p].job.op = "mkdir")
      OBVIOUS
    <3> HIDE DEF b
    <3>2. /\ t'[p].pc = "iput" /\ Label(t'[p]) = "ret" /\ t'[p].job = t[p].job
          /\ t'[p].done = t[p].done /\ t'[p].ok = b
      BY <1>1, <1>2, <1>3, <2>1, <2>3, PutTold
    <3> QED
      BY <1>4, <2>1, <3>1, <3>2 DEF Told, UndonePc, FreshPc, GoesOn
  <2> QED
    BY <1>8, <2>2, <2>3 DEF Created
<1>9. CASE \/ CreateNew(p) \/ Ialloc(p) \/ IallocGet(p)
           \/ Fresh(p) \/ Uplink(p) \/ DotsBlock(p) \/ Dots(p)
  <2>1. t[p].pc \in MakePc \ {"exists", "created"}
    BY <1>2, <1>9 DEF CreateNew, Ialloc, IallocGet, Fresh, Uplink, DotsBlock, Dots, At
  <2>2. PICK l, d :
             /\ l \in {"ialloc"} \cup FreshPc
             /\ Set(p, d) /\ "pc" \in DOMAIN d /\ d.pc = l
             /\ {"puts", "job", "done", "ok"} \cap DOMAIN d = {}
    <3>1. CASE CreateNew(p)
      <4> DEFINE d == [at |-> None, dp |-> Dir(p), pc |-> "ialloc"]
      <4>1. Set(p, d) /\ "pc" \in DOMAIN d /\ d.pc = "ialloc"
        BY <3>1 DEF CreateNew
      <4>2. {"puts", "job", "done", "ok"} \cap DOMAIN d = {}
        OBVIOUS
      <4> HIDE DEF d
      <4> QED
        BY <4>1, <4>2
    <3>2. CASE Ialloc(p)
      <4> DEFINE d == [ip |-> Min(FreeInums), pc |-> "iget"]
      <4>1. Set(p, d) /\ "pc" \in DOMAIN d /\ d.pc = "iget"
        BY <3>2 DEF Ialloc
      <4>2. {"puts", "job", "done", "ok"} \cap DOMAIN d = {}
        OBVIOUS
      <4> HIDE DEF d
      <4> QED
        BY <4>1, <4>2 DEF FreshPc
    <3>3. CASE IallocGet(p) \/ Fresh(p) \/ Uplink(p) \/ DotsBlock(p) \/ Dots(p)
      <4>1. PICK l \in FreshPc : Set(p, [pc |-> l])
        <5>1. \/ Set(p, [pc |-> "fresh"]) \/ Set(p, [pc |-> "balloc"])
              \/ Set(p, [pc |-> "dots"]) \/ Set(p, [pc |-> "name"])
              \/ Set(p, [pc |-> IF t[p].job.op = "mkdir" THEN "uplink" ELSE "name"])
          BY <3>3 DEF IallocGet, Fresh, Uplink, DotsBlock, Dots
        <5> QED
          BY <5>1 DEF FreshPc
      <4> DEFINE d == [pc |-> l]
      <4>2. Set(p, d) /\ "pc" \in DOMAIN d /\ d.pc = l
        BY <4>1
      <4>3. {"puts", "job", "done", "ok"} \cap DOMAIN d = {}
        OBVIOUS
      <4> HIDE DEF d
      <4> QED
        BY <4>2, <4>3
    <3> QED
      BY <1>9, <3>1, <3>2, <3>3
  <2>3. l \notin PutPc /\ "puts" \notin DOMAIN d
    BY <2>2 DEF PutPc, FreshPc
  <2>4. /\ t'[p].pc = l /\ Label(t'[p]) = l /\ t'[p].job = t[p].job
        /\ t'[p].done = t[p].done /\ t'[p].ok = t[p].ok
    BY <1>1, <1>2, <2>2, <2>3, SetTold
  <2>5. t[p].job.op \in {"create", "mkdir"} /\ ~t[p].done
    BY <1>4, <1>5, <2>1
  <2>6. Told(t'[p])
    BY <1>4, <2>2, <2>4, <2>5 DEF Told, UndonePc, FreshPc
  <2>7. GoesOn(p)
    BY <2>1, <2>2, <2>4 DEF MakePc, FreshPc, GoesOn
  <2>8. CreateFound(p) => FALSE
    BY <1>9 DEF CreateFound, CreateNew, Ialloc, IallocGet, Fresh, Uplink, DotsBlock, Dots, At
  <2> QED
    BY <2>6, <2>7, <2>8
<1> QED
  BY <1>6, <1>7, <1>8, <1>9

-----------------------------------------------------------------------------
\* unlink, but for the step that clears the entry.
LEMMA UnlinkTold ==
  ASSUME DInv, ToldInv, NEW p \in Process,
         UnlinkMiss(p) \/ Unlink(p) \/ UnlinkFull(p) \/ Downlink(p) \/ Unlinked(p)
  PROVE  Told(t'[p]) /\ GoesOn(p)
<1>1. IInv /\ Told(t[p]) /\ Sound(t[p], file[p])
  BY DEF DInv, IInv, ToldInv
<1>2. /\ t[p].pc \in {"unlink", "victim", "downlink", "unlinked"}
      /\ t[p].pc \notin PutPc /\ Label(t[p]) = t[p].pc
  BY DEF UnlinkMiss, Unlink, UnlinkFull, Downlink, Unlinked, At, PutPc, Label
<1>3. /\ t[p].pc = "unlink" => t[p].at \in Inum
      /\ t[p].pc \in {"victim", "downlink"} => t[p].dp \in Inum
      /\ t[p].pc # "unlink" => t[p].ip \in Inum
      /\ "ret" \in ThenPc /\ "unlinked" \in ThenPc /\ "victim" \notin PutPc
  BY <1>1, <1>2 DEF Sound, PointersSet, AtPc, DpPc, IpPc, ThenPc, PutPc
<1>4. /\ ~t[p].ok /\ t[p].done \in BOOLEAN /\ t[p].ok \in BOOLEAN
      /\ t[p].pc \in {"unlink", "victim"} => ~t[p].done
      /\ t[p].pc \in {"downlink", "unlinked"} => t[p].done /\ t[p].job.op = "unlink"
  BY <1>1, <1>2 DEF Told, UndonePc
<1>5. CASE UnlinkMiss(p)
  <2>1. Puts(p, <<t[p].at>>, "ret", [at |-> None]) /\ t[p].pc = "unlink"
    BY <1>5 DEF UnlinkMiss, At, Dir
  <2>2. /\ t'[p].pc = "iput" /\ Label(t'[p]) = "ret" /\ t'[p].job = t[p].job
        /\ t'[p].done = t[p].done /\ t'[p].ok = t[p].ok
    BY <1>1, <1>2, <1>3, <2>1, PutTold
  <2> QED
    BY <1>4, <2>1, <2>2 DEF Told, UndonePc, FreshPc, GoesOn
<1>6. CASE Unlink(p)
  <2> DEFINE f == lookup(Dir(p), Elem(p))
             k == Dir(p)
  <2>1. Set(p, [at |-> None, dp |-> k, ip |-> f, pc |-> "victim"]) /\ t[p].pc = "unlink"
    BY <1>6 DEF Unlink, At
  <2> HIDE DEF f, k
  <2>2. /\ t'[p].pc = "victim" /\ Label(t'[p]) = "victim" /\ t'[p].job = t[p].job
        /\ t'[p].done = t[p].done /\ t'[p].ok = t[p].ok
    BY <1>1, <1>2, <1>3, <2>1, SetTold
  <2> QED
    BY <1>4, <2>1, <2>2 DEF Told, UndonePc, FreshPc, GoesOn
<1>7. CASE UnlinkFull(p)
  <2> DEFINE d == [ip |-> None, dp |-> None]
  <2>1. Puts(p, <<t[p].ip, t[p].dp>>, "ret", d) /\ t[p].pc = "victim"
    BY <1>7 DEF UnlinkFull, At
  <2>2. {"job", "done", "ok"} \cap DOMAIN d = {}
    OBVIOUS
  <2> HIDE DEF d
  <2>3. t'[p].pc = "iput" /\ Label(t'[p]) = "ret" /\ t'[p].job = t[p].job
    BY <1>1, <1>2, <1>3, <2>1, <2>2, GivesTwo
  <2>4. t'[p].done = t[p].done /\ t'[p].ok = t[p].ok
    BY <1>1, <2>1, <2>2, FlagsPut
  <2> QED
    BY <1>4, <2>1, <2>3, <2>4 DEF Told, UndonePc, FreshPc, GoesOn
<1>8. CASE Downlink(p)
  <2>1. Puts(p, <<t[p].dp>>, "unlinked", [dp |-> None]) /\ t[p].pc = "downlink"
    BY <1>8 DEF Downlink
  <2>2. /\ t'[p].pc = "iput" /\ Label(t'[p]) = "unlinked" /\ t'[p].job = t[p].job
        /\ t'[p].done = t[p].done /\ t'[p].ok = t[p].ok
    BY <1>1, <1>2, <1>3, <2>1, PutTold
  <2> QED
    BY <1>4, <2>1, <2>2 DEF Told, UndonePc, FreshPc, GoesOn
<1>9. CASE Unlinked(p)
  <2>1. Puts(p, <<t[p].ip>>, "ret", [ip |-> None, ok |-> TRUE]) /\ t[p].pc = "unlinked"
    BY <1>9 DEF Unlinked
  <2>2. /\ t'[p].pc = "iput" /\ Label(t'[p]) = "ret" /\ t'[p].job = t[p].job
        /\ t'[p].done = t[p].done /\ t'[p].ok = TRUE
    BY <1>1, <1>2, <1>3, <2>1, PutTold
  <2>3. t'[p].done = TRUE
    BY <1>4, <2>1, <2>2
  <2> QED
    BY <1>4, <2>1, <2>2, <2>3 DEF Told, UndonePc, FreshPc, GoesOn
<1> QED
  BY <1>5, <1>6, <1>7, <1>8, <1>9

\* The steps that make or remove a name.
Does(p) ==
    /\ t[p].pc \notin {"idle", "ret"} /\ ~t[p].done /\ t'[p].job = t[p].job
    /\ t'[p].done = TRUE /\ t'[p].pc \notin {"idle", "ret"}
\* The step that makes or clears a name.
LEMMA NameTold ==
  ASSUME DInv, ToldInv, NEW p \in Process,
         CreateName(p) \/ UnlinkEntry(p) \/ LinkName(p)
  PROVE  /\ Told(t'[p]) /\ Does(p)
         /\ CreateName(p) => t[p].job.op \in {"create", "mkdir"}
         /\ UnlinkEntry(p) => t[p].job.op = "unlink"
         /\ LinkName(p) => t[p].job.op = "link"
<1>1. IInv /\ Told(t[p]) /\ Sound(t[p], file[p]) /\ CallSound(p)
  BY DEF DInv, IInv, ToldInv, CallInv
<1>2. /\ t[p].pc \in {"name", "victim", "enter"}
      /\ t[p].pc \notin PutPc /\ Label(t[p]) = t[p].pc
      /\ CreateName(p) => t[p].pc = "name"
      /\ UnlinkEntry(p) => t[p].pc = "victim"
      /\ LinkName(p) => t[p].pc = "enter"
  BY DEF CreateName, UnlinkEntry, LinkName, At, PutPc, Label
<1>3. /\ t[p].pc = "enter" => t[p].at \in Inum
      /\ t[p].pc \in {"name", "victim"} => t[p].dp \in Inum
      /\ t[p].ip \in Inum
      /\ {"ret", "created", "unlinked"} \subseteq ThenPc /\ "downlink" \notin PutPc
  BY <1>1, <1>2 DEF Sound, PointersSet, AtPc, DpPc, IpPc, ThenPc, PutPc
<1>4. ~t[p].ok /\ t[p].ok \in BOOLEAN /\ ~t[p].done
  BY <1>1, <1>2 DEF Told, UndonePc, FreshPc
<1>5. /\ t[p].pc = "name" => t[p].job.op \in {"create", "mkdir"}
      /\ t[p].pc = "victim" => t[p].job.op = "unlink"
      /\ t[p].pc = "enter" => t[p].job.op = "link"
  BY <1>1, <1>2 DEF CallSound, Going, FreshPc, Told
<1>6. CASE CreateName(p)
  <2>1. Puts(p, <<t[p].dp>>, "created", [dp |-> None, done |-> TRUE])
    BY <1>6 DEF CreateName
  <2>2. /\ t'[p].pc = "iput" /\ Label(t'[p]) = "created" /\ t'[p].job = t[p].job
        /\ t'[p].done = TRUE /\ t'[p].ok = t[p].ok
    BY <1>1, <1>2, <1>3, <1>6, <2>1, PutTold
  <2>3. Told(t'[p])
    BY <1>2, <1>4, <1>5, <1>6, <2>2 DEF Told, UndonePc, FreshPc
  <2> QED
    BY <1>2, <1>4, <1>5, <2>2, <2>3 DEF Does
<1>7. CASE UnlinkEntry(p)
  <2>1. \/ Set(p, [done |-> TRUE, pc |-> "downlink"])
        \/ Puts(p, <<t[p].dp>>, "unlinked", [done |-> TRUE, dp |-> None])
    BY <1>7 DEF UnlinkEntry
  <2>2. PICK l \in {"downlink", "unlinked"} :
             /\ t'[p].pc \in {l, "iput"} /\ Label(t'[p]) = l /\ t'[p].job = t[p].job
             /\ t'[p].done = TRUE /\ t'[p].ok = t[p].ok
    <3>1. CASE Set(p, [done |-> TRUE, pc |-> "downlink"])
      <4>1. /\ t'[p].pc = "downlink" /\ Label(t'[p]) = "downlink" /\ t'[p].job = t[p].job
            /\ t'[p].done = TRUE /\ t'[p].ok = t[p].ok
        BY <1>1, <1>2, <1>3, <3>1, SetTold
      <4> QED
        BY <4>1
    <3>2. CASE Puts(p, <<t[p].dp>>, "unlinked", [done |-> TRUE, dp |-> None])
      <4>1. /\ t'[p].pc = "iput" /\ Label(t'[p]) = "unlinked" /\ t'[p].job = t[p].job
            /\ t'[p].done = TRUE /\ t'[p].ok = t[p].ok
        BY <1>1, <1>2, <1>3, <1>7, <3>2, PutTold
      <4> QED
        BY <4>1
    <3> QED
      BY <2>1, <3>1, <3>2
  <2>3. Told(t'[p])
    BY <1>2, <1>4, <1>5, <1>7, <2>2 DEF Told, UndonePc, FreshPc
  <2> QED
    BY <1>2, <1>4, <1>5, <2>2, <2>3 DEF Does
<1>8. CASE LinkName(p)
  <2> DEFINE d == [at |-> None, ip |-> None, done |-> TRUE, ok |-> TRUE]
  <2>1. Puts(p, <<t[p].at, t[p].ip>>, "ret", d)
    BY <1>8 DEF LinkName, Dir
  <2>2. "job" \notin DOMAIN d /\ d.done = TRUE /\ d.ok = TRUE /\ {"done", "ok"} \subseteq DOMAIN d
    OBVIOUS
  <2> HIDE DEF d
  <2>3. t'[p].pc = "iput" /\ Label(t'[p]) = "ret" /\ t'[p].job = t[p].job
    BY <1>1, <1>2, <1>3, <1>8, <2>1, <2>2, GivesTwo
  <2>4. t'[p].done = TRUE /\ t'[p].ok = TRUE
    BY <1>1, <2>1, <2>2, FlagsPut
  <2>5. Told(t'[p])
    BY <1>2, <1>5, <1>8, <2>3, <2>4 DEF Told, UndonePc, FreshPc
  <2> QED
    BY <1>2, <1>4, <1>5, <2>3, <2>4, <2>5 DEF Does
<1> QED
  BY <1>6, <1>7, <1>8

-----------------------------------------------------------------------------
\* A call begins, and returns.
LEMMA BeginTold ==
  ASSUME DInv, ToldInv, NEW p \in Process, Begin(p)
  PROVE  /\ Told(t'[p]) /\ t[p].pc = "idle" /\ t'[p].pc \notin {"idle", "ret"}
         /\ t'[p].done = t[p].done
         /\ t'[p].job.op \in {"open", "create", "mkdir", "unlink", "link", "chdir",
                              "write", "close"}
<1>1. IInv /\ Told(t[p]) /\ programs \in DOMAIN Jobs /\ file[p] \in Inum \cup {None}
  BY DEF DInv, IInv, TypeOK, ToldInv
<1>2. t[p].pc = "idle" /\ t[p].pc \notin PutPc /\ Label(t[p]) = "idle"
  BY DEF Begin, PutPc, Label
<1>3. /\ ~t[p].done /\ ~t[p].ok /\ t[p].done \in BOOLEAN /\ t[p].ok \in BOOLEAN
      /\ "ret" \in ThenPc /\ "write" \notin PutPc /\ "walk" \notin PutPc
  BY <1>1, <1>2 DEF Told, UndonePc, ThenPc, PutPc
<1>4. PICK job \in Jobs[programs] :
         /\ job.op \in {"close", "write"} => file[p] # None
         /\ CASE job.op = "close" -> Puts(p, <<file[p]>>, "ret", [job |-> job, ok |-> TRUE])
              [] job.op = "write" -> Set(p, [job |-> job, pc |-> "write"])
              [] OTHER -> Set(p, [job |-> job, path |-> job.path, at |-> Start(p, job),
                                  pc |-> "walk"])
  <2>1. PICK job \in Jobs[programs] :
          /\ job.op \in {"close", "write"} => file[p] # None
          /\ CASE job.op = "close" ->
                    /\ Puts(p, <<file[p]>>, "ret", [job |-> job, ok |-> TRUE])
                    /\ file' = [file EXCEPT ![p] = None]
                    /\ UNCHANGED icache
              [] job.op = "write" ->
                    /\ Set(p, [job |-> job, pc |-> "write"])
                    /\ UNCHANGED <<file, icache>>
              [] OTHER ->
                    /\ icache' = started(icache, p, job)
                    /\ Set(p, [job |-> job, path |-> job.path, at |-> Start(p, job),
                               pc |-> "walk"])
                    /\ UNCHANGED file
    BY DEF Begin
  <2>2. CASE job.op = "close"
    BY <2>1, <2>2
  <2>3. CASE job.op = "write"
    BY <2>1, <2>3
  <2>4. CASE job.op \notin {"close", "write"}
    BY <2>1, <2>4
  <2> QED
    BY <2>2, <2>3, <2>4
<1>5. job.op \in {"open", "create", "mkdir", "unlink", "link", "chdir", "write", "close"}
  BY <1>1, <1>4, FsAssumption
<1>6. CASE job.op = "close"
  <2>1. Puts(p, <<file[p]>>, "ret", [job |-> job, ok |-> TRUE]) /\ file[p] \in Inum
    BY <1>1, <1>4, <1>6
  <2>2. /\ t'[p].pc = "iput" /\ Label(t'[p]) = "ret" /\ t'[p].job = job
        /\ t'[p].done = t[p].done /\ t'[p].ok = TRUE
    BY <1>1, <1>2, <1>3, <2>1, PutTold
  <2>3. Told(t'[p])
    BY <1>3, <1>6, <2>2 DEF Told, UndonePc, FreshPc
  <2> QED
    BY <1>2, <1>5, <2>2, <2>3
<1>7. CASE job.op = "write"
  <2>1. Set(p, [job |-> job, pc |-> "write"])
    BY <1>4, <1>7
  <2>2. /\ t'[p].pc = "write" /\ Label(t'[p]) = "write" /\ t'[p].job = job
        /\ t'[p].done = t[p].done /\ t'[p].ok = t[p].ok
    BY <1>1, <1>2, <1>3, <2>1, SetTold
  <2>3. Told(t'[p])
    BY <1>3, <1>7, <2>2 DEF Told, UndonePc, FreshPc
  <2> QED
    BY <1>2, <1>5, <2>2, <2>3
<1>8. CASE job.op \notin {"close", "write"}
  <2> DEFINE s == Start(p, job)
             n == job.path
  <2>1. Set(p, [job |-> job, path |-> n, at |-> s, pc |-> "walk"])
    BY <1>4, <1>8
  <2> HIDE DEF s, n
  <2>2. /\ t'[p].pc = "walk" /\ Label(t'[p]) = "walk" /\ t'[p].job = job
        /\ t'[p].done = t[p].done /\ t'[p].ok = t[p].ok
    BY <1>1, <1>2, <1>3, <2>1, SetTold
  <2>3. Told(t'[p])
    BY <1>3, <2>2 DEF Told, UndonePc, FreshPc
  <2> QED
    BY <1>2, <1>5, <2>2, <2>3
<1> QED
  BY <1>6, <1>7, <1>8

\* A call returns.
LEMMA ReturnTold ==
  ASSUME DInv, NEW p \in Process, Return(p)
  PROVE  Told(t'[p]) /\ t[p].pc = "ret" /\ t'[p].pc = "idle" /\ t'[p].done = FALSE
<1>1. t = [q \in Process |-> t[q]]
  BY DEF DInv, IInv
<1>2. t'[p] = Idle /\ t[p].pc = "ret"
  BY <1>1 DEF Return
<1> QED
  BY <1>2 DEF Idle, Told, UndonePc, FreshPc, Label, PutPc

-----------------------------------------------------------------------------
(* Each step is one of the name space, or none *)

\* How the name space sees the calls of the other processes.
LEMMA OthersSeen ==
  ASSUME NEW p \in Process, Others(p), NEW q \in Process \ {p}
  PROVE  Op(q)' = Op(q) /\ Result(q)' = Result(q) /\ t'[q].done = t[q].done
BY DEF Others, Op, Result

\* A step of p leaves the calls of the others alone.
LEMMA StepOthers ==
  ASSUME IInv, NEW p \in Process, Step(p)
  PROVE  Others(p)
<1>1. /\ t = [q \in Process |-> t[q]] /\ cwd \in [Process -> Inum]
      /\ file \in [Process -> Inum \cup {None}]
  BY DEF IInv, TypeOK
<1>2. ASSUME NEW d, Set(p, d) PROVE \A q \in Process \ {p} : t'[q] = t[q]
  BY <1>1, <1>2 DEF Set
<1>3. ASSUME NEW s, NEW l, NEW d, Puts(p, s, l, d) PROVE \A q \in Process \ {p} : t'[q] = t[q]
  BY <1>1, <1>3 DEF Puts
<1>4. CASE \/ Begin(p) \/ Walk(p) \/ WalkFails(p) \/ WalkParent(p) \/ WalkEnds(p)
  <2>1. \A q \in Process \ {p} : t'[q] = t[q]
    <3>1. CASE Begin(p)
      <4>1. PICK job \in Jobs[programs] :
          /\ CASE job.op = "close" ->
                    /\ Puts(p, <<file[p]>>, "ret", [job |-> job, ok |-> TRUE])
                    /\ file' = [file EXCEPT ![p] = None]
                    /\ UNCHANGED icache
              [] job.op = "write" ->
                    /\ Set(p, [job |-> job, pc |-> "write"])
                    /\ UNCHANGED <<file, icache>>
              [] OTHER ->
                    /\ icache' = started(icache, p, job)
                    /\ Set(p, [job |-> job, path |-> job.path, at |-> Start(p, job),
                               pc |-> "walk"])
                    /\ UNCHANGED file
        BY <3>1 DEF Begin
      <4>2. CASE job.op = "close"
        BY <1>3, <4>1, <4>2
      <4>3. CASE job.op = "write"
        BY <1>2, <4>1, <4>3
      <4>4. CASE job.op \notin {"close", "write"}
        BY <1>2, <4>1, <4>4
      <4> QED
        BY <4>2, <4>3, <4>4
    <3>2. CASE Walk(p) \/ WalkFails(p) \/ WalkParent(p) \/ WalkEnds(p)
      BY <1>2, <1>3, <3>2 DEF Walk, WalkFails, WalkParent, WalkEnds
    <3> QED
      BY <1>4, <3>1, <3>2
  <2>2. cwd' = cwd /\ (file' = file \/ file' = [file EXCEPT ![p] = None])
    BY <1>4 DEF Begin, Walk, WalkFails, WalkParent, WalkEnds
  <2> QED
    BY <1>1, <2>1, <2>2 DEF Others
<1>5. CASE Iput(p) \/ IputLast(p) \/ Itrunc(p) \/ Ifree(p) \/ IputEnd(p)
  BY <1>2, <1>5 DEF Iput, IputLast, Itrunc, Ifree, IputEnd, Others
<1>6. CASE \/ Open(p) \/ OpenFails(p) \/ Chdir(p) \/ CreateFound(p) \/ Exists(p)
  BY <1>1, <1>2, <1>3, <1>6 DEF Open, OpenFails, Chdir, CreateFound, Exists, Others
<1>7. CASE \/ CreateNew(p) \/ Ialloc(p) \/ IallocGet(p) \/ Fresh(p) \/ Uplink(p)
           \/ DotsBlock(p) \/ Dots(p) \/ CreateName(p) \/ Created(p)
  BY <1>1, <1>2, <1>3, <1>7 DEF CreateNew, Ialloc, IallocGet, Fresh, Uplink, DotsBlock, Dots,
     CreateName, Created, Others
<1>8. CASE \/ UnlinkMiss(p) \/ Unlink(p) \/ UnlinkFull(p) \/ UnlinkEntry(p)
           \/ Downlink(p) \/ Unlinked(p)
  BY <1>2, <1>3, <1>8 DEF UnlinkMiss, Unlink, UnlinkFull, UnlinkEntry, Downlink, Unlinked, Others
<1>9. CASE LinkDir(p) \/ Link(p) \/ LinkTaken(p) \/ LinkName(p) \/ LinkBad(p)
  BY <1>2, <1>3, <1>9 DEF LinkDir, Link, LinkTaken, LinkName, LinkBad, Others
<1>10. CASE Write(p) \/ WriteBlock(p) \/ Grow(p) \/ Return(p) \/ Exhausts(p)
  BY <1>1, <1>2, <1>10 DEF Write, WriteBlock, Grow, Return, Exhausts, Others
<1> QED
  BY <1>4, <1>5, <1>6, <1>7, <1>8, <1>9, <1>10 DEF Step

-----------------------------------------------------------------------------
\* A call that goes on without a change of the tree: silently, or it knows its answer.
LEMMA GoesOnSpace ==
  ASSUME DInv, NEW p \in Process, Others(p), SameTree, Told(t'[p]), GoesOn(p)
  PROVE  [Space!Next]_(Space!vars)
<1>1. t[p].job \in Jobs[programs] /\ programs \in DOMAIN Jobs
  BY DEF DInv, IInv, Sound, CallTyped, GoesOn
<1>2. t[p].job.op # "none"
  BY <1>1, FsAssumption
<1>3. /\ \A q \in Process \ {p} : Op(q)' = Op(q) /\ Result(q)' = Result(q)
                                   /\ t'[q].done = t[q].done
      /\ Op(p)' = Op(p) /\ Op(p) # "none" /\ Result(p) = "none" /\ t'[p].done = t[p].done
  <2>1. Op(p)' = Op(p) /\ Op(p) # "none" /\ Result(p) = "none" /\ t'[p].done = t[p].done
    BY <1>2 DEF GoesOn, Op, Result
  <2> QED
    BY <2>1, OthersSeen
<1>4. /\ Links' = Links
      /\ [i \in Inum |-> dinode[i].type]' = [i \in Inum |-> dinode[i].type]
      /\ [q \in Process |-> Op(q)]' = [q \in Process |-> Op(q)]
      /\ [q \in Process |-> t[q].done]' = [q \in Process |-> t[q].done]
  BY <1>3 DEF SameTree
<1>5. CASE t'[p].pc # "ret"
  <2>1. Result(p)' = "none"
    BY <1>5 DEF Result
  <2>2. [q \in Process |-> Result(q)]' = [q \in Process |-> Result(q)]
    BY <1>3, <2>1
  <2> QED
    BY <1>4, <2>2 DEF Space!vars
<1>6. CASE t'[p].pc = "ret"
  <2> DEFINE ok == t'[p].ok
  <2>1. /\ ok \in BOOLEAN
        /\ t[p].job.op \in {"mkdir", "unlink", "link"} => ok = t[p].done
        /\ t[p].job.op = "create" /\ ok => t[p].done
    <3>1. Label(t'[p]) = "ret"
      BY <1>6 DEF Label, PutPc
    <3> QED
      BY <1>6, <3>1 DEF Told, GoesOn
  <2>2. Result(p)' = IF ok THEN "ok" ELSE "fail"
    BY <1>6 DEF Result
  <2>3. /\ Op(p) \in {"mkdir", "unlink", "link"} => ok = t[p].done
        /\ Op(p) = "create" /\ ok => t[p].done
    BY <2>1 DEF Op
  <2> HIDE DEF ok
  <2>4. [q \in Process |-> Result(q)]'
           = [[q \in Process |-> Result(q)] EXCEPT ![p] = IF ok THEN "ok" ELSE "fail"]
    BY <1>3, <2>2
  <2>5. Space!Answer(p, ok)
    BY <1>3, <1>4, <2>3, <2>4 DEF Space!Answer
  <2>6. Space!Next
    BY <2>1, <2>5 DEF Space!Next
  <2> QED
    BY <2>6
<1> QED
  BY <1>5, <1>6

-----------------------------------------------------------------------------
\* The types of the inodes are the kinds of the name space.
LEMMA SameKinds ==
  ASSUME \A i \in Inum : dinode'[i].type = dinode[i].type
  PROVE  [i \in Inum |-> dinode[i].type]' = [i \in Inum |-> dinode[i].type]
OBVIOUS

\* A call begins in the name space.
LEMMA BeginSpace ==
  ASSUME DInv, ToldInv, NEW p \in Process, Others(p), SameTree, Begin(p)
  PROVE  Space!Next
<1>1. /\ \A q \in Process \ {p} : Op(q)' = Op(q) /\ Result(q)' = Result(q)
                                   /\ t'[q].done = t[q].done
      /\ Op(p) = "none" /\ Result(p)' = Result(p) /\ t'[p].done = t[p].done
      /\ Op(p)' \in {"open", "create", "mkdir", "unlink", "link", "other"}
  <2>1. /\ t[p].pc = "idle" /\ t'[p].pc \notin {"idle", "ret"} /\ t'[p].done = t[p].done
        /\ t'[p].job.op \in {"open", "create", "mkdir", "unlink", "link", "chdir",
                              "write", "close"}
    BY BeginTold
  <2>2. Op(p) = "none" /\ Result(p)' = Result(p)
    BY <2>1 DEF Op, Result
  <2>3. Op(p)' \in {"open", "create", "mkdir", "unlink", "link", "other"}
    BY <2>1 DEF Op
  <2> QED
    BY <2>1, <2>2, <2>3, OthersSeen
<1>2. /\ Links' = Links
      /\ [i \in Inum |-> dinode[i].type]' = [i \in Inum |-> dinode[i].type]
      /\ [q \in Process |-> Result(q)]' = [q \in Process |-> Result(q)]
      /\ [q \in Process |-> t[q].done]' = [q \in Process |-> t[q].done]
      /\ [q \in Process |-> Op(q)]' = [[q \in Process |-> Op(q)] EXCEPT ![p] = Op(p)']
  BY <1>1 DEF SameTree
<1>3. Space!Begin(p)
  BY <1>1, <1>2 DEF Space!Begin
<1> QED
  BY <1>3 DEF Space!Next

\* A call returns in the name space.
LEMMA ReturnSpace ==
  ASSUME DInv, NEW p \in Process, Others(p), SameTree, Return(p)
  PROVE  Space!Next
<1>1. /\ \A q \in Process \ {p} : Op(q)' = Op(q) /\ Result(q)' = Result(q)
                                   /\ t'[q].done = t[q].done
      /\ Result(p) # "none" /\ Op(p)' = "none" /\ Result(p)' = "none" /\ t'[p].done = FALSE
  <2>1. t[p].pc = "ret" /\ t'[p].pc = "idle" /\ t'[p].done = FALSE
    BY ReturnTold
  <2>2. Result(p) # "none" /\ Op(p)' = "none" /\ Result(p)' = "none"
    BY <2>1 DEF Op, Result
  <2> QED
    BY <2>1, <2>2, OthersSeen
<1>2. /\ Links' = Links
      /\ [i \in Inum |-> dinode[i].type]' = [i \in Inum |-> dinode[i].type]
      /\ [q \in Process |-> Result(q)]' = [[q \in Process |-> Result(q)] EXCEPT ![p] = "none"]
      /\ [q \in Process |-> t[q].done]' = [[q \in Process |-> t[q].done] EXCEPT ![p] = FALSE]
      /\ [q \in Process |-> Op(q)]' = [[q \in Process |-> Op(q)] EXCEPT ![p] = "none"]
  BY <1>1 DEF SameTree
<1>3. Space!Return(p)
  BY <1>1, <1>2 DEF Space!Return
<1> QED
  BY <1>3 DEF Space!Next

\* A call that makes its change.
LEMMA DoesSeen ==
  ASSUME NEW p \in Process, Others(p), Does(p)
  PROVE  /\ \A ops : t[p].job.op \in ops \cap {"create", "mkdir", "unlink", "link"} =>
                        Space!Working(p, ops)
         /\ Space!Does(p)
<1>1. /\ \A q \in Process \ {p} : Op(q)' = Op(q) /\ Result(q)' = Result(q)
                                   /\ t'[q].done = t[q].done
      /\ Op(p)' = Op(p) /\ Result(p)' = "none" /\ Result(p) = "none"
      /\ ~t[p].done /\ t'[p].done = TRUE
      /\ t[p].job.op \in {"create", "mkdir", "unlink", "link"} => Op(p) = t[p].job.op
  <2>1. /\ Op(p)' = Op(p) /\ Result(p)' = "none" /\ Result(p) = "none"
        /\ ~t[p].done /\ t'[p].done = TRUE
        /\ t[p].job.op \in {"create", "mkdir", "unlink", "link"} => Op(p) = t[p].job.op
    BY DEF Does, Op, Result
  <2> QED
    BY <2>1, OthersSeen
<1>2. ASSUME NEW ops, t[p].job.op \in ops \cap {"create", "mkdir", "unlink", "link"}
      PROVE  Space!Working(p, ops)
  BY <1>1, <1>2 DEF Space!Working
<1>3. /\ [q \in Process |-> Op(q)]' = [q \in Process |-> Op(q)]
      /\ [q \in Process |-> Result(q)]' = [q \in Process |-> Result(q)]
      /\ [q \in Process |-> t[q].done]' = [[q \in Process |-> t[q].done] EXCEPT ![p] = TRUE]
  BY <1>1
<1>4. Space!Does(p)
  BY <1>3 DEF Space!Does
<1> QED
  BY <1>2, <1>4

\* create() comes upon a name that is taken.
LEMMA FindSpace ==
  ASSUME DInv, ToldInv, NEW p \in Process, Others(p), SameTree, CreateFound(p)
  PROVE  [Space!Next]_(Space!vars)
<1>1. /\ Told(t'[p]) /\ t[p].pc = "create" /\ ~t[p].done /\ t'[p].pc = "iput"
      /\ t'[p].job = t[p].job /\ t[p].job.op \in {"create", "mkdir"}
      /\ t'[p].done = (t[p].job.op = "create")
  BY CreateTold
<1>2. CASE t[p].job.op = "create"
  <2>1. Does(p)
    <3>1. t'[p].done = TRUE
      BY <1>1, <1>2
    <3> QED
      BY <1>1, <3>1 DEF Does
  <2>2. Space!Working(p, {"create"}) /\ Space!Does(p)
    BY <1>2, <2>1, DoesSeen
  <2>3. Links' = Links /\ [i \in Inum |-> dinode[i].type]' = [i \in Inum |-> dinode[i].type]
    BY SameKinds DEF SameTree
  <2>4. Space!Find(p)
    BY <2>2, <2>3 DEF Space!Find
  <2> QED
    BY <2>4 DEF Space!Next
<1>3. CASE t[p].job.op = "mkdir"
  <2>1. t'[p].done = t[p].done
    <3>1. t'[p].done = FALSE
      BY <1>1, <1>3
    <3>2. t[p].done = FALSE
      BY <1>1 DEF ToldInv, Told
    <3> QED
      BY <3>1, <3>2
  <2>2. GoesOn(p)
    BY <1>1, <2>1 DEF GoesOn
  <2> QED
    BY <1>1, <2>2, GoesOnSpace
<1> QED
  BY <1>1, <1>2, <1>3

-----------------------------------------------------------------------------
\* create and link make a name, unlink removes one.
LEMMA EnterSpace ==
  ASSUME DInv, ToldInv, Orderly, NEW p \in Process, IInv', Others(p),
         CreateName(p) \/ LinkName(p)
  PROVE  Space!Next
<1> DEFINE mk == t[p].pc = "name" /\ t[p].job.op = "mkdir"
           n == Elem(p)
           i == t[p].ip
<1>1. /\ Does(p) /\ dinode' = dinode
      /\ CreateName(p) => t[p].job.op \in {"create", "mkdir"}
      /\ LinkName(p) => t[p].job.op = "link"
  BY NameTold DEF CreateName, LinkName
<1>2. PICK d \in Inum :
         /\ n \in Name /\ i \in Inum /\ dinode[d].type = "dir"
         /\ Links' = Links \cup {<<d, n, i>>}
         /\ \A l \in Links : ~(l[1] = d /\ l[2] = n)
         /\ \/ dinode[i].type = "dir" /\ t[p].job.op = "mkdir" /\ \A l \in Links : l[3] # i
            \/ dinode[i].type = "file" /\ t[p].job.op \in {"create", "link"}
  <2>1. CASE CreateName(p)
    BY <1>1, <2>1, CreateNameDInv
  <2>2. CASE LinkName(p)
    BY <1>1, <2>2, LinkNameDInv
  <2> QED
    BY <2>1, <2>2
<1> HIDE DEF n, i
<1> DEFINE K == [x \in Inum |-> dinode[x].type]
           ops == CASE K[i] = "dir" -> {"mkdir"} [] K[i] = "file" -> {"create", "link"}
                    [] K[i] = "free" -> {}
<1>3. /\ K[d] = "dir" /\ K' = K
      /\ K[i] = "dir" => {l \in Links : l[3] = i} = {}
      /\ t[p].job.op \in ops \cap {"create", "mkdir", "unlink", "link"}
  BY <1>1, <1>2
<1>4. Space!Working(p, ops) /\ Space!Does(p)
  <2> HIDE DEF ops, K
  <2> QED
    BY <1>1, <1>3, DoesSeen
<1>5. ~ \E l \in {m \in Links : m[1] = d} : l[2] = n
  BY <1>2
<1>6. Space!Enter(p, d, n, i)
  BY <1>2, <1>3, <1>4, <1>5 DEF Space!Enter, Space!Into, Space!From
<1> QED
  BY <1>2, <1>6 DEF Space!Next

\* unlink removes a link.
LEMMA RemoveSpace ==
  ASSUME DInv, ToldInv, Orderly, NEW p \in Process, IInv', Others(p), UnlinkEntry(p)
  PROVE  Space!Next
<1> DEFINE L == <<t[p].dp, Elem(p), t[p].ip>>
           i == t[p].ip
<1>1. /\ Does(p) /\ dinode' = dinode /\ t[p].job.op = "unlink" /\ ~Full(i)
  BY NameTold DEF UnlinkEntry
<1>2. /\ Links' = Links \ {L} /\ L \in Links /\ i \in Inum /\ L[3] = i
      /\ icache[i].busy = NoProcess /\ icache[i].ref > 0
  BY UnlinkEntryDInv
<1> HIDE DEF L
<1>3. ASSUME NEW l \in Links, l[1] = i PROVE FALSE
  <2>1. /\ l[2] \in Name /\ dinode[i].type = "dir" /\ Addr(i) # None
        /\ dirent[Addr(i)][l[2]] # None
    BY <1>3, LinksAre DEF DInv
  <2>2. Locked(i).type = dinode[i].type /\ Locked(i).addr = Addr(i)
    BY <1>2, Seen DEF DInv
  <2> QED
    BY <1>1, <2>1, <2>2 DEF Full, HasName
<1>4. Space!Working(p, {"unlink"}) /\ Space!Does(p)
  BY <1>1, DoesSeen
<1>5. [x \in Inum |-> dinode[x].type]' = [x \in Inum |-> dinode[x].type]
  BY <1>1
<1>6. {l \in Links : l[1] = L[3]} = {}
  BY <1>2, <1>3
<1>7. Space!Remove(p, L)
  BY <1>2, <1>4, <1>5, <1>6 DEF Space!Remove, Space!From
<1> QED
  BY <1>2, <1>7 DEF Space!Next

-----------------------------------------------------------------------------
\* ialloc() takes an inode into use, iput() gives one back and what is in it.
LEMMA SilentSeen ==
  ASSUME NEW p \in Process, Others(p), GoesOn(p), t'[p].pc # "ret"
  PROVE  /\ [q \in Process |-> Op(q)]' = [q \in Process |-> Op(q)]
         /\ [q \in Process |-> Result(q)]' = [q \in Process |-> Result(q)]
         /\ [q \in Process |-> t[q].done]' = [q \in Process |-> t[q].done]
<1>1. Op(p)' = Op(p) /\ Result(p)' = Result(p) /\ t'[p].done = t[p].done
  BY DEF GoesOn, Op, Result
<1>2. \A q \in Process : Op(q)' = Op(q) /\ Result(q)' = Result(q) /\ t'[q].done = t[q].done
  BY <1>1, OthersSeen
<1> QED
  BY <1>2

\* ialloc() takes an inode into use.
LEMMA TakeSpace ==
  ASSUME DInv, ToldInv, NEW p \in Process, IInv', Others(p), Ialloc(p)
  PROVE  Space!Next
<1> DEFINE i == Min(FreeInums)
           k == IF t[p].job.op = "mkdir" THEN "dir" ELSE "file"
<1>1. /\ t[p].pc = "ialloc" /\ FreeInums # {}
      /\ dinode' = [dinode EXCEPT ![i] = [type |-> k, nlink |-> 0, addr |-> None]]
      /\ Set(p, [ip |-> i, pc |-> "iget"])
  BY DEF Ialloc
<1>2. i \in Inum /\ dinode[i].type = "free"
  BY <1>1, MinIsFree DEF DInv, IInv
<1>3. k \in {"file", "dir"}
  OBVIOUS
<1> HIDE DEF i, k
<1>4. t'[p].pc = "iget"
  BY <1>1, SetTold DEF DInv, PutPc
<1>5. GoesOn(p)
  <2>1. CreateFound(p) => FALSE
    BY <1>1 DEF CreateFound, At
  <2> QED
    BY <2>1, CreateTold
<1>6. [x \in Inum |-> dinode[x].type]' = [[x \in Inum |-> dinode[x].type] EXCEPT ![i] = k]
  BY <1>1, <1>2 DEF DInv, IInv, TypeOK
<1>7. Links' = Links
  BY IallocDInv
<1>8. /\ [q \in Process |-> Op(q)]' = [q \in Process |-> Op(q)]
      /\ [q \in Process |-> Result(q)]' = [q \in Process |-> Result(q)]
      /\ [q \in Process |-> t[q].done]' = [q \in Process |-> t[q].done]
  BY <1>4, <1>5, SilentSeen
<1>9. PICK j \in Inum : j = i
  BY <1>2
<1>10. Space!Take(j)
  BY <1>2, <1>3, <1>6, <1>7, <1>8, <1>9 DEF Space!Take
<1> QED
  BY <1>10 DEF Space!Next

\* iput() discards what an unnamed directory holds and gives the inode back.
LEMMA FreeSpace ==
  ASSUME DInv, ToldInv, NEW p \in Process, IInv', Others(p), Itrunc(p) \/ Ifree(p)
  PROVE  Space!Next
<1> DEFINE i == Put(p)
<1>1. t[p].pc \in {"itrunc", "ifree"} /\ (Ifree(p) => t[p].pc = "ifree")
  BY DEF Itrunc, Ifree
<1>2. /\ i \in Inum /\ i # Root
      /\ {l \in Links : l[3] = i} = {}
      /\ t[p].pc = "ifree" => Addr(i) = None
  BY <1>1, LastUse
<1>3. GoesOn(p) /\ t'[p].pc \in {"ifree", "iputend"}
  <2>1. t'[p].pc \in {"ifree", "iputend"}
    <3>1. PICK x \in {"ifree", "iputend"} : Set(p, [pc |-> x])
      BY DEF Itrunc, Ifree
    <3>2. x \in PutPc /\ t[p].pc \in PutPc
      BY <1>1 DEF PutPc
    <3> QED
      BY <3>1, <3>2, Putting DEF DInv
  <2> QED
    BY <2>1, PutsTold
<1>4. /\ [q \in Process |-> Op(q)]' = [q \in Process |-> Op(q)]
      /\ [q \in Process |-> Result(q)]' = [q \in Process |-> Result(q)]
      /\ [q \in Process |-> t[q].done]' = [q \in Process |-> t[q].done]
  BY <1>3, SilentSeen
<1>5. CASE Itrunc(p)
  <2>1. Links' = {l \in Links : l[1] # i} /\ dinode' = dinode
    BY <1>5, ItruncDInv DEF Itrunc
  <2>2. Links' = Links \ {l \in Links : l[1] = i}
    BY <2>1
  <2>3. [x \in Inum |-> dinode[x].type]' = [x \in Inum |-> dinode[x].type]
    BY <2>1
  <2> HIDE DEF i
  <2>4. Space!Discard(i)
    BY <1>2, <1>4, <2>2, <2>3 DEF Space!Discard, Space!Into, Space!From
  <2> QED
    BY <1>2, <2>4 DEF Space!Next
<1>6. CASE Ifree(p)
  <2>1. Links' = Links
    BY <1>6, IfreeDInv
  <2>2. {l \in Links : l[1] = i} = {}
    BY <1>1, <1>2, <1>6, LinksAre DEF DInv
  <2>3. [x \in Inum |-> dinode[x].type]' = [[x \in Inum |-> dinode[x].type] EXCEPT ![i] = "free"]
    <3>1. icache'[i].type = "free"
      <4>1. icache' = [icache EXCEPT ![i].type = "free"] /\ icache = [x \in Inum |-> icache[x]]
            /\ icache[i] = [f \in SlotFields |-> icache[i][f]]
        BY <1>2, <1>6 DEF Ifree, DInv, IInv, CacheTyped, SlotTyped
      <4> HIDE DEF i
      <4> QED
        BY <1>2, <4>1 DEF SlotFields
    <3>2. dinode' = [dinode EXCEPT ![i] = [type |-> icache'[i].type, nlink |-> icache'[i].nlink,
                                           addr |-> icache'[i].addr]]
      BY <1>6 DEF Ifree, iupdate
    <3> HIDE DEF i
    <3> QED
      BY <1>2, <3>1, <3>2 DEF DInv, IInv, TypeOK
  <2> HIDE DEF i
  <2>4. PICK j \in Inum : j = i
    BY <1>2
  <2>5. Space!GiveBack(j)
    BY <1>2, <1>4, <2>1, <2>2, <2>3, <2>4 DEF Space!GiveBack, Space!Into, Space!From
  <2> QED
    BY <2>5 DEF Space!Next
<1> QED
  BY <1>5, <1>6

\* Every step is one of the name space, or none.
LEMMA StepSpace ==
  ASSUME DInv, ToldInv, Orderly, NEW p \in Process, Step(p)
  PROVE  ToldInv' /\ [Space!Next]_(Space!vars)
<1>1. IInv' /\ Others(p)
  BY StepIInv, StepOthers DEF DInv
<1>2. SUFFICES Told(t'[p]) /\ [Space!Next]_(Space!vars)
  BY <1>1 DEF ToldInv, Others
<1>3. CASE Begin(p) \/ Return(p)
  BY <1>1, <1>3, BeginDInv, ReturnDInv, BeginTold, ReturnTold, BeginSpace, ReturnSpace
<1>4. CASE Walk(p) \/ WalkFails(p) \/ WalkParent(p) \/ WalkEnds(p)
  <2>1. SameTree
    BY <1>1, <1>4, WalkDInv, FailsDInv, WalkParentDInv, WalkEndsDInv
  <2> QED
    BY <1>1, <1>4, <2>1, WalkTold, GoesOnSpace
<1>5. CASE Iput(p) \/ IputLast(p) \/ IputEnd(p)
  <2>1. SameTree
    BY <1>1, <1>5, IputDInv, IputLastDInv, IputEndDInv
  <2> QED
    BY <1>1, <1>5, <2>1, PutsTold, GoesOnSpace
<1>6. CASE Itrunc(p) \/ Ifree(p)
  BY <1>1, <1>6, PutsTold, FreeSpace
<1>7. CASE Open(p) \/ OpenFails(p) \/ Chdir(p)
  <2>1. SameTree
    BY <1>1, <1>7, OpenDInv, FailsDInv, ChdirDInv
  <2> QED
    BY <1>1, <1>7, <2>1, OpenTold, GoesOnSpace
<1>8. CASE CreateFound(p)
  <2>1. SameTree
    BY <1>1, <1>8, CreateFoundDInv
  <2> QED
    BY <1>1, <1>8, <2>1, CreateTold, FindSpace
<1>9. CASE Ialloc(p)
  BY <1>1, <1>9, CreateTold, TakeSpace
<1>10. CASE /\ \/ Exists(p) \/ CreateNew(p) \/ IallocGet(p) \/ Fresh(p) \/ Uplink(p)
               \/ DotsBlock(p) \/ Dots(p) \/ Created(p)
            /\ ~CreateFound(p)
  <2>1. SameTree
    BY <1>1, <1>10, OpenDInv, FailsDInv, CreateNewDInv, IallocGetDInv, FreshDInv, UplinkDInv,
       DotsBlockDInv, DotsDInv, CreatedDInv
  <2>2. Told(t'[p]) /\ GoesOn(p)
    BY <1>10, CreateTold
  <2> QED
    BY <1>1, <2>1, <2>2, GoesOnSpace
<1>11. CASE UnlinkMiss(p) \/ Unlink(p) \/ UnlinkFull(p) \/ Downlink(p) \/ Unlinked(p)
  <2>1. SameTree
    BY <1>1, <1>11, FailsDInv, UnlinkDInv, UnlinkFullDInv, DownlinkDInv, UnlinkedDInv
  <2> QED
    BY <1>1, <1>11, <2>1, UnlinkTold, GoesOnSpace
<1>12. CASE LinkDir(p) \/ Link(p) \/ LinkTaken(p) \/ LinkBad(p)
  <2>1. SameTree
    BY <1>1, <1>12, FailsDInv, LinkDInv, LinkBadDInv
  <2> QED
    BY <1>1, <1>12, <2>1, LinkTold, GoesOnSpace
<1>13. CASE Write(p) \/ WriteBlock(p) \/ Grow(p)
  <2>1. SameTree
    BY <1>1, <1>13, WriteDInv, WriteBlockDInv, GrowDInv
  <2> QED
    BY <1>1, <1>13, <2>1, WriteTold, GoesOnSpace
<1>14. CASE CreateName(p) \/ LinkName(p) \/ UnlinkEntry(p)
  BY <1>1, <1>14, NameTold, EnterSpace, RemoveSpace
<1>15. CASE Exhausts(p)
  <2>1. SameTree /\ t' = t
    BY <1>1, <1>15, ExhaustsDInv DEF Exhausts
  <2>2. \A q \in Process : Op(q)' = Op(q) /\ Result(q)' = Result(q)
    BY <2>1 DEF Op, Result
  <2>3. [i \in Inum |-> dinode[i].type]' = [i \in Inum |-> dinode[i].type]
    BY <2>1, SameKinds DEF SameTree
  <2> QED
    BY <2>1, <2>2, <2>3 DEF ToldInv, SameTree, Space!vars
<1> QED
  BY <1>3, <1>4, <1>5, <1>6, <1>7, <1>8, <1>9, <1>10, <1>11, <1>12, <1>13, <1>14, <1>15 DEF Step

-----------------------------------------------------------------------------
\* The disk of mkfs is a name space.
LEMMA InitSpace == Init /\ Orderly => Space!Init /\ ToldInv
<1> SUFFICES ASSUME Init, Orderly PROVE Space!Init /\ ToldInv
  OBVIOUS
<1>1. PICK tree \in Trees[programs] : DiskOf(tree)
  BY InitDisk
<1>2. DInv /\ IInv /\ \A p \in Process : t[p] = Idle
  BY InitDInv, InitIInv DEF Init
<1>3. /\ [p \in Process |-> Op(p)] = [p \in Process |-> "none"]
      /\ [p \in Process |-> t[p].done] = [p \in Process |-> FALSE]
      /\ [p \in Process |-> Result(p)] = [p \in Process |-> "none"]
  <2>1. ASSUME NEW p \in Process PROVE Op(p) = "none" /\ t[p].done = FALSE /\ Result(p) = "none"
    <3>1. t[p] = Idle
      BY <1>2
    <3>2. t[p].pc = "idle" /\ t[p].done = FALSE
      BY <3>1 DEF Idle
    <3> QED
      BY <3>2 DEF Op, Result
  <2> QED
    BY <2>1
<1>4. [i \in Inum |-> dinode[i].type] \in [Inum -> {"free", "file", "dir"}]
  BY <1>2 DEF IInv, TypeOK, Type
<1>5. \A l, m \in Links : l[3] = m[3] /\ dinode[l[3]].type = "dir" => l = m
  <2> SUFFICES ASSUME NEW y \in Links, NEW z \in Links, y[3] = z[3], dinode[y[3]].type = "dir"
               PROVE  y = z
    OBVIOUS
  <2>1. PICK l \in tree : LinkOf(l) = y
    BY <1>1, <1>2, InitLinks
  <2>2. PICK m \in tree : LinkOf(m) = z
    BY <1>1, <1>2, InitLinks
  <2>3. l[3] = m[3] /\ l[4] = "dir"
    BY <1>1, <2>1, <2>2 DEF LinkOf, DiskOf
  <2>4. l = m
    BY <1>1, <2>3 DEF DiskOf, TreeSound
  <2> QED
    BY <2>1, <2>2, <2>4
<1>6. /\ Links \subseteq Inum \X Name \X Inum
      /\ \A l, m \in Links : l[1] = m[1] /\ l[2] = m[2] => l = m
      /\ \A l \in Links : /\ l[1] \in Inum /\ l[3] \in Inum
                          /\ dinode[l[1]].type = "dir" /\ dinode[l[3]].type # "free"
  <2>1. \A l \in Links : /\ l[1] \in Inum /\ l[2] \in Name /\ l[3] \in Inum
                         /\ l = <<l[1], l[2], l[3]>> /\ dinode[l[1]].type = "dir"
                         /\ dirent[Addr(l[1])][l[2]] = l[3]
    BY <1>2, LinksAre
  <2>2. \A l \in Links : dinode[l[3]].type # "free"
    BY <1>2 DEF DInv, TreeInv
  <2>3. \A l, m \in Links : l[1] = m[1] /\ l[2] = m[2] => l[3] = m[3]
    BY <2>1
  <2>4. \A l, m \in Links : l[1] = m[1] /\ l[2] = m[2] => l = m
    BY <2>1, <2>3
  <2> QED
    BY <2>1, <2>2, <2>4
<1>7. Space!Sound
  <2> DEFINE K == [i \in Inum |-> dinode[i].type]
  <2>1. \A i \in Inum : K[i] = dinode[i].type
    OBVIOUS
  <2> HIDE DEF K
  <2>2. \A l \in Links : K[l[1]] = "dir" /\ K[l[3]] # "free"
    BY <2>1, <1>6
  <2>3. \A l, m \in Links : l[3] = m[3] /\ K[l[3]] = "dir" => l = m
    BY <2>1, <1>5, <1>6
  <2>4. Space!Sound
    BY <2>2, <2>3, <1>6 DEF Space!Sound, K
  <2> QED
    BY <2>4
<1>8. Space!Init
  BY <1>3, <1>4, <1>7 DEF Space!Init
<1>9. ToldInv
  <2>1. Idle.pc = "idle" /\ Idle.done = FALSE /\ Idle.ok = FALSE
    BY DEF Idle
  <2>2. Label(Idle) = "idle"
    BY <2>1 DEF Label, PutPc
  <2>3. Told(Idle)
    BY <2>1, <2>2 DEF Told, UndonePc
  <2> QED
    BY <1>2, <2>3 DEF ToldInv
<1> QED
  BY <1>8, <1>9

\* The refinement, step by step.
LEMMA NextSpace ==
  Orderly /\ DInv /\ ToldInv /\ [Next]_vars => ToldInv' /\ [Space!Next]_(Space!vars)
<1> SUFFICES ASSUME Orderly, DInv, ToldInv, [Next]_vars
             PROVE  ToldInv' /\ [Space!Next]_(Space!vars)
  OBVIOUS
<1>1. CASE \E p \in Process : Step(p)
  BY <1>1, StepSpace
<1>2. CASE UNCHANGED vars
  <2>1. t' = t /\ dinode' = dinode /\ Links' = Links
    BY <1>2 DEF vars, disk, Links, Names, Addr
  <2>2. \A q \in Process : Op(q)' = Op(q) /\ Result(q)' = Result(q)
    BY <2>1 DEF Op, Result
  <2>3. [i \in Inum |-> dinode[i].type]' = [i \in Inum |-> dinode[i].type]
    BY <2>1
  <2> QED
    BY <2>1, <2>2, <2>3 DEF ToldInv, Space!vars
<1> QED
  BY <1>1, <1>2 DEF Next

\* fs.c and sysfile.c keep the promise of module NameSpace: a tree of names that
\* changes one link at a time, and calls that answer whether they changed it.
THEOREM NamesAreKept == ASSUME Orderly PROVE Spec => ImplementsNames
<1>1. Init => Space!Init /\ ToldInv
  BY InitSpace
<1>2. DInv /\ ToldInv /\ [Next]_vars => ToldInv' /\ [Space!Next]_(Space!vars)
  BY NextSpace
<1>3. Spec => []DInv
  BY DiskInvariant
<1> QED
  BY <1>1, <1>2, <1>3, PTL DEF Spec, ImplementsNames, Space!Spec
=============================================================================
