------------------------------- MODULE FsDisk -------------------------------
(***************************************************************************)
(* The invariants of the inode layer.  The first counts references: what   *)
(* each call has, label by label, and how many pointers there are to an    *)
(* inode.  The second makes the file system sound: who holds I_BUSY of     *)
(* what, how an in-memory inode relates to the one on the disk, what each  *)
(* call knows at each of its labels, and what the disk holds.  Their       *)
(* proofs are in FsInodeProofs and FsDiskProofs.                           *)
(***************************************************************************)
EXTENDS FsInode

-----------------------------------------------------------------------------
(* Counting references *)

Fields  == {"pc", "job", "path", "at", "ip", "dp", "puts", "then", "ok", "done"}
SlotFields == {"ref", "busy", "valid", "type", "nlink", "addr"}
PutPc   == {"iput", "itrunc", "ifree", "iputend"}
\* The labels at which a call holds each of its pointers.
AtPc    == {"walk", "open", "chdir", "create", "exists", "unlink", "link", "enter"}
DpPc    == {"ialloc", "iget", "fresh", "uplink", "balloc", "dots", "name",
            "victim", "downlink"}
IpPc    == {"iget", "fresh", "uplink", "balloc", "dots", "name", "created",
            "victim", "downlink", "unlinked", "enter", "bad"}
FilePc  == {"write", "grow"}
\* Where a call goes on after iputs.
ThenPc  == {"walk", "exists", "created", "unlinked", "bad", "ret"}
Pc      == {"idle", "ret"} \cup PutPc \cup AtPc \cup DpPc \cup IpPc \cup FilePc
\* Where a call r is, or will be once its iputs are done.
Label(r) == IF r.pc \in PutPc THEN r.then ELSE r.pc

\* The iputs a call r owes.
First(r) == IF Len(r.puts) >= 1 THEN r.puts[1] ELSE None
Second(r) == IF Len(r.puts) = 2 THEN r.puts[2] ELSE None

\* A cache c whose counts may be anything.
SlotTyped(r) ==
    /\ r = [f \in SlotFields |-> r[f]]
    /\ r.busy \in Process \cup {NoProcess} /\ r.valid \in BOOLEAN
    /\ r.type \in Type /\ r.nlink \in Int /\ r.addr \in Block \cup {None}
    /\ r.ref \in Int
CacheTyped(c) == c = [i \in Inum |-> c[i]] /\ \A i \in Inum : SlotTyped(c[i])

\* The fields of a call r.
CallTyped(r) ==
    /\ r = [f \in Fields |-> r[f]]
    /\ r.pc \in Pc
    /\ r.pc # "idle" => r.job \in Jobs[programs]
    /\ r.path \in Seq(Entry)
    /\ r.puts \in Seq(Inum)
    /\ IF r.pc \in PutPc THEN Len(r.puts) \in {1, 2} /\ r.then \in ThenPc ELSE r.puts = <<>>

\* The pointers of a call are set where they are used, and only there.
PointersSet(r) ==
    /\ IF Label(r) \in AtPc THEN r.at \in Inum ELSE r.at = None
    /\ IF Label(r) \in DpPc THEN r.dp \in Inum ELSE r.dp = None
    /\ IF Label(r) \in IpPc THEN r.ip \in Inum
       ELSE r.ip = None \/ (Label(r) = "walk" /\ r.ip \in Inum)

\* What a call is about, label by label, when its process has file f.
CallFits(r, f) ==
    /\ Label(r) = "walk" => r.job.op \notin {"write", "close"}
    /\ Label(r) = "walk" /\ r.ip # None => r.job.op = "link"
    /\ Label(r) \in {"open", "link"} => r.job.op = Label(r)
    /\ Label(r) \in {"create", "unlink"} => r.path # <<>>
    /\ Label(r) \in FilePc => f # None
    /\ Label(r) \notin {"idle", "ret"} /\ r.job.op \in {"open", "create"} => f = None

Sound(r, f) == CallTyped(r) /\ PointersSet(r) /\ CallFits(r, f)

IInv == /\ TypeOK /\ CacheTyped(icache)
        /\ programs \in DOMAIN Jobs /\ t = [p \in Process |-> t[p]]
        /\ \A p \in Process : Sound(t[p], file[p])
        /\ RefsCounted

-----------------------------------------------------------------------------
\* The inode is in memory, read in.
Mem(i) == icache[i].ref > 0 /\ icache[i].valid

-----------------------------------------------------------------------------
(* Who holds I_BUSY of what. *)
OwnPc == {"uplink", "balloc", "dots", "name", "created", "downlink", "unlinked"}
EndPc == {"itrunc", "ifree", "iputend"}
Keeps(f, r, i) ==
    \/ r.pc \in DpPc /\ r.dp = i
    \/ Label(r) \in OwnPc /\ r.ip = i
    \/ r.pc \in EndPc /\ First(r) = i
    \/ r.pc = "grow" /\ f = i
LockInv ==
    /\ \A i \in Inum, p \in Process : icache[i].busy = p <=> Keeps(file[p], t[p], i)
    /\ \A i \in Inum : icache[i].busy # NoProcess => icache[i].valid
    /\ \A p \in Process :
          t[p].pc \in {"uplink", "balloc", "dots", "name", "downlink"} => t[p].ip # t[p].dp

-----------------------------------------------------------------------------
(* The in-memory inode is that on the disk, but where a call is ahead. *)
Ahead(f, r, i) == \/ r.pc = "dots" /\ r.ip = i
                  \/ r.pc = "grow" /\ f = i
                  \/ r.pc = "ifree" /\ First(r) = i
Freed(r, i) == r.pc = "iputend" /\ First(r) = i
CopyAt(i) == Mem(i) =>
    /\ icache[i].nlink = dinode[i].nlink
    /\ (\A p \in Process : ~Freed(t[p], i)) => icache[i].type = dinode[i].type
    /\ (\A p \in Process : ~Ahead(file[p], t[p], i)) => icache[i].addr = dinode[i].addr
CopyInv == \A i \in Inum : CopyAt(i)

-----------------------------------------------------------------------------
(* The pointers of a process, and an inode that a call has to itself. *)
FreshPc == {"iget", "fresh", "uplink", "balloc", "dots", "name"}
Else(c, f, r, i) == \/ c = i \/ f = i \/ r.at = i \/ r.dp = i \/ Second(r) = i
                    \/ r.ip = i /\ r.pc \notin FreshPc
Uses(c, f, r, i) == \/ Else(c, f, r, i)
                    \/ r.ip = i
                    \/ First(r) = i /\ r.pc # "iputend"
Sole(r, i) == \/ r.pc \in FreshPc /\ r.ip = i
              \/ r.pc \in {"itrunc", "ifree"} /\ First(r) = i
PointInv == \A p \in Process, i \in Inum :
    Uses(cwd[p], file[p], t[p], i) => dinode[i].type # "free"
SoleInv == \A p \in Process, i \in Inum : Sole(t[p], i) =>
    /\ i # Root /\ ~Else(cwd[p], file[p], t[p], i)
    /\ \A q \in Process \ {p} : ~Uses(cwd[q], file[q], t[q], i)
    /\ \A l \in Links : l[3] # i /\ (t[p].pc \in FreshPc => l[1] # i)

-----------------------------------------------------------------------------
(* Calls *)
Typing(p) ==
    /\ dinode[cwd[p]].type = "dir"
    /\ t[p].dp # None => dinode[t[p].dp].type = "dir"
    /\ t[p].pc \in {"create", "unlink", "enter"} => dinode[t[p].at].type = "dir"
    /\ Label(t[p]) \in {"walk", "enter", "bad"} /\ t[p].ip # None => dinode[t[p].ip].type = "file"
    /\ t[p].pc \in FreshPc =>
          dinode[t[p].ip].type = IF t[p].job.op = "mkdir" THEN "dir" ELSE "file"
    /\ t[p].pc = "downlink" => dinode[t[p].ip].type = "dir"
    /\ t[p].pc = "grow" => dinode[file[p]].type = "file"
\* iput() of the last reference.
Ending(p) == LET i == First(t[p]) IN
    /\ t[p].pc \in EndPc => dinode[i].nlink = 0
    /\ t[p].pc \in {"ifree", "iputend"} => icache[i].addr = None
    /\ t[p].pc = "iputend" =>
         /\ dinode[i].addr = None
         /\ \/ dinode[i].type = "free"
            \/ \E q \in Process : t[q].pc \in {"iget", "fresh"} /\ t[q].ip = i
\* What a call makes.
Made(r) == r.pc = "dots" \/ (r.pc = "name" /\ r.job.op = "mkdir")
Making(p) == LET i == t[p].ip IN
    /\ t[p].pc \in {"iget", "fresh"} => dinode[i].nlink = 0
    /\ t[p].pc \in FreshPc \ {"iget", "fresh"} => dinode[i].nlink = 1
    /\ t[p].pc \in FreshPc /\ ~(t[p].pc = "name" /\ t[p].job.op = "mkdir") => dinode[i].addr = None
    /\ t[p].pc \in {"uplink", "balloc", "dots"} => t[p].job.op = "mkdir"
    /\ t[p].pc = "grow" => dinode[file[p]].addr = None
    /\ Made(t[p]) => Addr(i) # None /\ \A n \in Name : dirent[Addr(i)][n] = None
    /\ Made(t[p]) /\ t[p].pc = "name" => dirent[Addr(i)][".."] = t[p].dp
\* Where a call goes.
LookPc == {"walk", "create", "unlink", "enter", "ialloc", "victim"} \cup FreshPc
Going(p) == LET r == t[p] IN
    /\ Label(r) \in LookPc =>
         /\ NoDots(programs) => \A n \in 1..Len(r.path) : r.path[n] # ".."
         /\ r.job.op \in {"mkdir", "unlink"} /\ r.path # <<>> =>
               r.job.path # <<>> /\ End(r.path) = End(r.job.path)
         /\ Label(r) # "walk" => Len(r.path) = 1
         /\ Label(r) = "create" => r.job.op \in {"create", "mkdir"}
         /\ Label(r) = "unlink" => r.job.op = "unlink"
    /\ r.pc \in {"ialloc"} \cup FreshPc =>
         /\ r.job.op \in {"create", "mkdir"}
         /\ Elem(p) # ".." /\ dirent[Addr(r.dp)][Elem(p)] = None
    /\ r.pc = "victim" =>
         /\ r.job.op = "unlink"
         /\ Elem(p) # ".." /\ dirent[Addr(r.dp)][Elem(p)] = r.ip
CallSound(p) == Typing(p) /\ Ending(p) /\ Making(p) /\ Going(p)
CallInv == \A p \in Process : CallSound(p)

-----------------------------------------------------------------------------
(* The disk *)
FreeInv == \A i \in Inum :
    /\ dinode[i].type = "free" => dinode[i].nlink = 0 /\ dinode[i].addr = None
    /\ dinode[i].type # "free" /\ dinode[i].nlink = 0 =>
         /\ \E p \in Process : Uses(cwd[p], file[p], t[p], i)
         /\ icache[i].ref > 0 =>
               icache[i].valid \/ \E p \in Process : t[p].pc = "fresh" /\ t[p].ip = i
BlockInv ==
    /\ \A i \in Inum : Addr(i) # None => Addr(i) \in bitmap /\ dinode[i].type # "free"
    /\ \A i, j \in Inum : Addr(i) # None /\ Addr(i) = Addr(j) => i = j
    /\ \A b \in bitmap : \E i \in Inum : Addr(i) = b
    /\ \A b \in Block \ bitmap : \A n \in Name : dirent[b][n] = None
Unbuilt(r, i) == \/ r.pc \in {"iget", "fresh", "uplink", "balloc"} /\ r.ip = i
                 \/ r.pc = "ifree" /\ First(r) = i
Building(r, i) == r.pc \in FreshPc /\ r.ip = i
DirInv ==
    /\ \A i \in Inum : dinode[i].type = "dir" =>
           Addr(i) # None \/ \E p \in Process : Unbuilt(t[p], i)
    /\ dinode[Root].type = "dir" /\ Addr(Root) # None /\ dirent[Addr(Root)][".."] = Root
TreeInv ==
    /\ IsFiniteSet(Links)
    /\ \A l \in Links : /\ dinode[l[3]].type # "free" /\ l[3] # Root
                        /\ dinode[l[3]].type = "dir" =>
                             Addr(l[3]) # None /\ dirent[Addr(l[3])][".."] = l[1]
    /\ \A l, m \in Links : ~(l[3] = m[1] /\ m[3] = l[1])
StayInv == \A D \in SUBSET Name : DirsStay(programs, D) =>
    /\ \A l \in Links : dinode[l[3]].type = "dir" => l[2] \in D
    /\ \A i \in Inum : dinode[i].type = "dir" =>
         i = Root \/ (\E l \in Links : l[3] = i) \/ \E p \in Process : Building(t[p], i)
    /\ \A p \in Process : t[p].pc # "downlink"

To(i) == {l \in Links : l[3] = i}
Under(d) == {l \in Links : l[1] = d /\ dinode[l[3]].type = "dir"}
\* Links a call has counted and not made, or removed and still counts.
DueIp == {"uplink", "balloc", "dots", "name", "walk", "enter", "bad", "downlink", "unlinked"}
PendIp(r, i) == Label(r) \in DueIp /\ r.ip = i
PendDp(r, i) == r.dp = i /\ (r.pc = "downlink" \/ (r.pc \in {"balloc", "dots", "name"} /\ r.job.op = "mkdir"))
ForIp(i) == {p \in Process : PendIp(t[p], i)}
ForDp(i) == {p \in Process : PendDp(t[p], i)}
Due(i) == One(i = Root) + Cardinality(To(i)) + Cardinality(Under(i))
            + Cardinality(ForIp(i)) + Cardinality(ForDp(i))
CountInv == \A i \in Inum : dinode[i].type # "free" =>
    /\ dinode[i].nlink >= Due(i)
    /\ Stay => dinode[i].nlink = Due(i)

DInv == /\ IInv /\ LockInv /\ CopyInv /\ PointInv /\ SoleInv /\ CallInv /\ FreeInv
        /\ BlockInv /\ DirInv /\ TreeInv /\ StayInv /\ CountInv
=============================================================================
