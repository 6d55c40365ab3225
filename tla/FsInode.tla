------------------------------ MODULE FsInode ------------------------------
(***************************************************************************)
(* Inodes, directories and paths of p4b/xv6_submitted_ver: the inode cache *)
(* with its reference counts and I_BUSY (fs.c), the walk of namex, and the *)
(* calls open, mkdir, unlink, link, chdir, write and close of sysfile.c.   *)
(*                                                                         *)
(* A step starts where a process locks an inode or where its last step     *)
(* ended, and goes up to its next write to the disk or to a reference      *)
(* count: what lies between is covered by the inode's I_BUSY.  Every step  *)
(* leaves on the disk what a crash at that moment would find; there is no  *)
(* log.  The blocks of the disk are those of module BlockStore: a bread,   *)
(* bwrite, brelse in a row is part of a step.                              *)
(***************************************************************************)
EXTENDS Integers, FiniteSets, FiniteSetsExt, Sequences

CONSTANTS
    Process,
    NoProcess,
    NInum,      \* inode numbers are 1..NInum; ROOTINO is 1
    NBlock,     \* data blocks are 1..NBlock; a file or directory has one
    Name,       \* names of directory entries other than "." and ".."
    Trees,      \* for each kind of programs, the trees the disk starts with
    Jobs,       \* for each kind of programs, the calls they make
    MaxCalls    \* bound: calls made in all

Inum   == 1..NInum
Root   == 1
Block  == 1..NBlock
None   == 0                 \* no inode, no block, no entry
Entry  == Name \cup {".."}  \* "." is the directory itself

ASSUME FsAssumption ==
    /\ IsFiniteSet(Process) /\ NoProcess \notin Process
    /\ NInum \in Nat \ {0} /\ NBlock \in Nat /\ NBlock >= NInum
    /\ MaxCalls \in Nat
    /\ DOMAIN Trees = DOMAIN Jobs
    /\ \A k \in DOMAIN Jobs :
        /\ \A tree \in Trees[k] : /\ IsFiniteSet(tree)
                                  /\ tree \subseteq Inum \X Name \X Inum \X {"file", "dir"}
        /\ \A job \in Jobs[k] :
             /\ job.op \in {"open", "create", "mkdir", "unlink", "link", "chdir",
                             "write", "close"}
             /\ job.path \in Seq(Entry)
             /\ job.op = "link" => job.new \in Seq(Entry)

\* What the disk of mkfs holds is a tree: a name for one inode, a directory
\* under one name, nothing over the root and no directory under itself.
TreeSound(tree) ==
    /\ \A l \in tree : /\ l[3] # Root
                       /\ l[1] = Root \/ \E m \in tree : m[3] = l[1] /\ m[4] = "dir"
    /\ \A l, m \in tree :
         /\ l[1] = m[1] /\ l[2] = m[2] => l = m
         /\ l[3] = m[3] => l[4] = m[4] /\ (l[4] = "dir" => l = m)
         /\ ~(l[1] = m[3] /\ l[3] = m[1])
\* Programs of kind k name no "..", or leave alone the names D of directories.
End(path) == path[Len(path)]
NoDots(k) ==
    \A job \in Jobs[k] : /\ \A n \in 1..Len(job.path) : job.path[n] # ".."
                         /\ job.op = "link" => \A n \in 1..Len(job.new) : job.new[n] # ".."
DirsStay(k, D) ==
    /\ \A tree \in Trees[k] : \A l \in tree : l[4] = "dir" => l[2] \in D
    /\ \A job \in Jobs[k] : job.path # <<>> =>
         /\ job.op = "mkdir" => End(job.path) \in D \cup {".."}
         /\ job.op = "unlink" => End(job.path) \notin D
\* The programs under which the file system is sound.  With both ".." and the
\* removal of directories one is left in a directory whose parent is gone.
Orderly ==
    /\ ".." \notin Name
    /\ \A k \in DOMAIN Jobs : /\ NoDots(k) \/ \E D \in SUBSET Name : DirsStay(k, D)
                              /\ \A tree \in Trees[k] : TreeSound(tree)

Type   == {"free", "file", "dir"}
NoEntries == [n \in Entry |-> None]
\* The labels of a process that is about to call ilock().
Waits  == {"walk", "open", "chdir", "create", "exists", "unlink", "link", "enter",
           "fresh", "victim", "bad", "write"}

VARIABLES
    dinode,     \* disk: type, nlink and block address of each inode
    bitmap,     \* disk: the data blocks that are marked in use
    dirent,     \* disk: what the blocks hold, read as directory entries
    icache,     \* the in-memory inode of each number: ref, flags, the copy
    cwd, file,  \* proc->cwd; the file a process has open
    t,          \* the call a process is in: label, locals, iputs to do
    exhausted,  \* the kernel has died for want of an inode or a block
    calls,      \* how many calls were made
    programs    \* never changes: which calls programs make

disk == <<dinode, bitmap, dirent>>
vars == <<disk, icache, cwd, file, t, exhausted, calls, programs>>

Idle == [pc |-> "idle", job |-> [op |-> "none"], path |-> <<>>, at |-> None,
         ip |-> None, dp |-> None, puts |-> <<>>, then |-> "idle",
         ok |-> FALSE, done |-> FALSE]

\* The disk of mkfs with the links <<directory, name, inode, type>> made.
Init ==
    /\ programs \in DOMAIN Jobs
    /\ \E tree \in Trees[programs] :
         LET into(i)    == {l \in tree : l[3] = i}
             subdirs(i) == {l \in tree : l[1] = i /\ l[4] = "dir"}
             kind(i)    == IF i = Root THEN "dir"
                           ELSE IF into(i) = {} THEN "free"
                           ELSE (CHOOSE l \in into(i) : TRUE)[4]
             one(i)     == IF i = Root THEN 1 ELSE Cardinality(into(i))
         IN
         /\ dinode = [i \in Inum |->
                [type |-> kind(i), nlink |-> one(i) + Cardinality(subdirs(i)),
                 addr |-> IF kind(i) = "dir" THEN i ELSE None]]
         /\ bitmap = {i \in Inum : kind(i) = "dir"}
         /\ dirent = [b \in Block |-> [n \in Entry |->
                IF b = Root /\ n = ".." THEN Root
                ELSE IF n = ".." /\ b \in Inum /\ kind(b) = "dir"
                  THEN (CHOOSE l \in into(b) : TRUE)[1]
                ELSE LET named == {l \in tree : l[1] = b /\ l[2] = n} IN
                     IF named = {} THEN None ELSE (CHOOSE l \in named : TRUE)[3]]]
    /\ icache = [i \in Inum |->
            [ref |-> IF i = Root THEN Cardinality(Process) ELSE 0,
             busy |-> NoProcess, valid |-> FALSE,
             type |-> "free", nlink |-> 0, addr |-> None]]
    /\ cwd = [p \in Process |-> Root]
    /\ file = [p \in Process |-> None]
    /\ t = [p \in Process |-> Idle]
    /\ exhausted = FALSE
    /\ calls = 0

-----------------------------------------------------------------------------
(* The inode cache: what becomes of the cache c *)

\* iget(): a cached inode gets a reference, else a slot is filled, not read.
iget(c, i) ==
    IF c[i].ref > 0
      THEN [c EXCEPT ![i].ref = @ + 1]
      ELSE [c EXCEPT ![i].ref = 1, ![i].valid = FALSE]

idup(c, i) == [c EXCEPT ![i].ref = @ + 1]

\* The copy ilock() makes when the cached inode is not valid.
Read(c, i) ==
    IF c[i].valid THEN c
    ELSE [c EXCEPT ![i] = [ref |-> c[i].ref, busy |-> c[i].busy, valid |-> TRUE,
            type |-> dinode[i].type, nlink |-> dinode[i].nlink,
            addr |-> dinode[i].addr]]

\* ilock() by p; the wait for I_BUSY is a guard (Free).
ilock(c, i, p) == [Read(c, i) EXCEPT ![i].busy = p]
iunlock(c, i)  == [c EXCEPT ![i].busy = NoProcess]

\* iupdate(): the in-memory inode r goes to the disk.
iupdate(i, r) ==
    dinode' = [dinode EXCEPT ![i] =
                   [type |-> r.type, nlink |-> r.nlink, addr |-> r.addr]]

\* The inode whose lock p's next step takes.
Wanted(p) ==
    CASE t[p].pc \notin Waits                     -> None
      [] t[p].pc \in {"fresh", "victim", "bad"} -> t[p].ip
      [] t[p].pc = "write"                      -> file[p]
      [] OTHER                                  -> t[p].at

\* "ilock: no type" does not come up for i.
Typed(i) == icache[i].valid \/ dinode[i].type # "free"
\* p stands at label l, and ilock() will return.
At(p, l) ==
    /\ t[p].pc = l
    /\ Wanted(p) # None =>
          icache[Wanted(p)].busy = NoProcess /\ Typed(Wanted(p))
\* The in-memory inode once it is locked.
Locked(i) == Read(icache, i)[i]

\* Record r, changed as d says.
With(r, d) == [f \in DOMAIN r |-> IF f \in DOMAIN d THEN d[f] ELSE r[f]]
\* p goes on as in d ...
Set(p, d) == t' = [t EXCEPT ![p] = With(@, d)]
\* ... and goes on at l once it has put the references in s.
Puts(p, s, l, d) ==
    t' = [t EXCEPT ![p] = With(With(@, d), [pc |-> "iput", puts |-> s, then |-> l])]

\* A directory without a block has no entries.
lookup(i, n) == IF Locked(i).addr = None THEN None ELSE dirent[Locked(i).addr][n]
HasName(d) == d # None /\ \E n \in Name : dirent[d][n] # None
Still == UNCHANGED <<exhausted, calls, programs>>

-----------------------------------------------------------------------------
(* namex *)

Parent(p) == \/ t[p].job.op \in {"create", "mkdir", "unlink"}
             \/ t[p].job.op = "link" /\ t[p].ip # None
\* What a call does with the inode that namei or nameiparent returns.
Stage(p) ==
    IF t[p].job.op = "mkdir" THEN "create"
    ELSE IF t[p].job.op = "link" /\ t[p].ip # None THEN "enter"
    ELSE t[p].job.op
\* Where a call goes when the path leads nowhere: link has its count to undo.
Failed(p) == IF t[p].job.op = "link" /\ t[p].ip # None THEN "bad" ELSE "ret"
\* Where namex() starts, and the reference it takes.
Start(p, job) == IF job.from = "root" THEN Root ELSE cwd[p]
started(c, p, job) == IF job.from = "root" THEN iget(c, Root) ELSE idup(c, cwd[p])

\* A system call begins: iget(ROOTINO), or idup(proc->cwd).
Begin(p) ==
    /\ t[p].pc = "idle" /\ calls < MaxCalls
    /\ calls' = calls + 1
    /\ \E job \in Jobs[programs] :
         /\ job.op \in {"open", "create"} => file[p] = None
         /\ job.op \in {"close", "write"} => file[p] # None
         /\ CASE job.op = "close" ->
                    /\ Puts(p, <<file[p]>>, "ret", [job |-> job, ok |-> TRUE])
                    /\ file' = [file EXCEPT ![p] = None]
                    /\ UNCHANGED icache
              [] job.op = "write" ->
                    /\ Set(p, [job |-> job, pc |-> "write"])
                    /\ UNCHANGED <<file, icache>>
              [] OTHER ->
                    /\ icache' = started(icache, p, job)
                    /\ Set(p, [job |-> job, path |-> job.path, at |-> Start(p, job),
                               pc |-> "walk"])
                    /\ UNCHANGED file
    /\ UNCHANGED <<disk, cwd, exhausted, programs>>

\* One path element: ilock, dirlookup, iunlock, then iput of the directory.
Walk(p) ==
    /\ At(p, "walk") /\ t[p].path # <<>> /\ ~(Parent(p) /\ Len(t[p].path) = 1)
    /\ Locked(t[p].at).type = "dir"
    /\ LET i == t[p].at
           next == lookup(i, Head(t[p].path)) IN
       /\ next # None
       /\ icache' = iget(Read(icache, i), next)
       /\ Puts(p, <<i>>, "walk", [at |-> next, path |-> Tail(t[p].path)])
    /\ UNCHANGED <<disk, cwd, file>> /\ Still

\* Not a directory, or no such name in it.
WalkFails(p) ==
    /\ At(p, "walk") /\ t[p].path # <<>>
    /\ LET i == t[p].at IN
       /\ \/ Locked(i).type # "dir"
          \/ /\ ~(Parent(p) /\ Len(t[p].path) = 1)
             /\ lookup(i, Head(t[p].path)) = None
       /\ icache' = Read(icache, i)
       /\ Puts(p, <<i>>, Failed(p), [at |-> None])
    /\ UNCHANGED <<disk, cwd, file>> /\ Still

\* nameiparent stops one level early, with the last name in path.
WalkParent(p) ==
    /\ At(p, "walk") /\ Parent(p) /\ Len(t[p].path) = 1
    /\ Locked(t[p].at).type = "dir"
    /\ icache' = Read(icache, t[p].at)
    /\ Set(p, [pc |-> Stage(p)])
    /\ UNCHANGED <<disk, cwd, file>> /\ Still

\* No name is left: namei returns the inode, nameiparent has nothing to return.
WalkEnds(p) ==
    /\ t[p].pc = "walk" /\ t[p].path = <<>>
    /\ IF Parent(p) THEN Puts(p, <<t[p].at>>, Failed(p), [at |-> None])
                    ELSE Set(p, [pc |-> Stage(p)])
    /\ UNCHANGED <<disk, icache, cwd, file>> /\ Still

-----------------------------------------------------------------------------
(* iput *)

LastRef(i) == icache[i].ref = 1 /\ icache[i].valid /\ icache[i].nlink = 0
Next1(p) == IF Len(t[p].puts) = 1 THEN [pc |-> t[p].then, puts |-> <<>>]
                                  ELSE [pc |-> "iput", puts |-> Tail(t[p].puts)]
Put(p) == Head(t[p].puts)

\* A reference that was not the last one to an unlinked inode.
Iput(p) ==
    /\ t[p].pc = "iput" /\ ~LastRef(Put(p))
    /\ icache' = [icache EXCEPT ![Put(p)].ref = @ - 1]
    /\ Set(p, Next1(p))
    /\ UNCHANGED <<disk, cwd, file>> /\ Still

\* The last one: the inode is locked while it is truncated and freed.
IputLast(p) ==
    /\ t[p].pc = "iput" /\ LastRef(Put(p)) /\ icache[Put(p)].busy = NoProcess
    /\ icache' = [icache EXCEPT ![Put(p)].busy = p]
    /\ Set(p, [pc |-> "itrunc"])
    /\ UNCHANGED <<disk, cwd, file>> /\ Still

\* bfree(): bzero(), then the bit.
bfree(a) ==
    /\ a \in bitmap
    /\ dirent' = [dirent EXCEPT ![a] = NoEntries]
    /\ bitmap' = bitmap \ {a}

\* itrunc() of the block, if there is one.
Itrunc(p) ==
    /\ t[p].pc = "itrunc"
    /\ LET a == icache[Put(p)].addr IN
         IF a = None THEN UNCHANGED <<bitmap, dirent>> ELSE bfree(a)
    /\ icache' = [icache EXCEPT ![Put(p)].addr = None]
    /\ Set(p, [pc |-> "ifree"])
    /\ UNCHANGED <<dinode, cwd, file>> /\ Still

\* The iupdate() of itrunc(), type = 0 and the iupdate() of iput().
Ifree(p) ==
    /\ t[p].pc = "ifree"
    /\ icache' = [icache EXCEPT ![Put(p)].type = "free"]
    /\ iupdate(Put(p), icache'[Put(p)])
    /\ Set(p, [pc |-> "iputend"])
    /\ UNCHANGED <<bitmap, dirent, cwd, file>> /\ Still

\* Mutant: iput() clears only I_BUSY.
IputEndValid(p) ==
    /\ t[p].pc = "iputend"
    /\ icache' = [icache EXCEPT ![Put(p)].ref = @ - 1, ![Put(p)].busy = NoProcess]
    /\ Set(p, Next1(p))
    /\ UNCHANGED <<disk, cwd, file>> /\ Still

\* flags = 0, then the reference goes.
IputEnd(p) ==
    /\ t[p].pc = "iputend"
    /\ icache' = [icache EXCEPT ![Put(p)].ref = @ - 1, ![Put(p)].busy = NoProcess,
                                ![Put(p)].valid = FALSE]
    /\ Set(p, Next1(p))
    /\ UNCHANGED <<disk, cwd, file>> /\ Still

-----------------------------------------------------------------------------
(* open, chdir *)

\* sys_open without O_CREATE: the file keeps the reference.
Open(p) ==
    /\ At(p, "open")
    /\ icache' = Read(icache, t[p].at)
    /\ file' = [file EXCEPT ![p] = t[p].at]
    /\ Set(p, [at |-> None, pc |-> "ret", ok |-> TRUE])
    /\ UNCHANGED <<disk, cwd>> /\ Still

\* No file structure or no descriptor is free, or a directory is opened for
\* writing.
OpenFails(p) ==
    /\ At(p, "open")
    /\ icache' = Read(icache, t[p].at)
    /\ Puts(p, <<t[p].at>>, "ret", [at |-> None])
    /\ UNCHANGED <<disk, cwd, file>> /\ Still

\* Mutant: the new directory is put instead of the old one.
ChdirPutsNew(p) ==
    /\ At(p, "chdir")
    /\ icache' = Read(icache, t[p].at)
    /\ Puts(p, <<t[p].at>>, "ret", [at |-> None, ok |-> TRUE])
    /\ cwd' = IF Locked(t[p].at).type = "dir" THEN [cwd EXCEPT ![p] = t[p].at] ELSE cwd
    /\ UNCHANGED <<disk, file>> /\ Still

\* sys_chdir: the old directory is put, the new one kept.
Chdir(p) ==
    /\ At(p, "chdir")
    /\ icache' = Read(icache, t[p].at)
    /\ IF Locked(t[p].at).type = "dir"
         THEN /\ Puts(p, <<cwd[p]>>, "ret", [at |-> None, ok |-> TRUE])
              /\ cwd' = [cwd EXCEPT ![p] = t[p].at]
         ELSE /\ Puts(p, <<t[p].at>>, "ret", [at |-> None])
              /\ UNCHANGED cwd
    /\ UNCHANGED <<disk, file>> /\ Still

-----------------------------------------------------------------------------
(* create, for open with O_CREATE and for mkdir *)

Dir(p) == t[p].at           \* what nameiparent returned
Elem(p) == t[p].path[1]     \* and the name it copied

\* Mutant: the directory stays locked until the existing file is.
CreateHoldsParent(p) ==
    /\ At(p, "create") /\ lookup(Dir(p), Elem(p)) # None
    /\ LET f == lookup(Dir(p), Elem(p)) IN
       /\ icache' = iget(ilock(icache, Dir(p), p), f)
       /\ Set(p, [at |-> f, done |-> t[p].job.op = "create", dp |-> Dir(p), pc |-> "exists"])
    /\ UNCHANGED <<disk, cwd, file>> /\ Still

\* The name is there already: let go of the directory, then lock the file.
CreateFound(p) ==
    /\ At(p, "create") /\ lookup(Dir(p), Elem(p)) # None
    /\ LET f == lookup(Dir(p), Elem(p)) IN
       /\ icache' = iget(Read(icache, Dir(p)), f)
       /\ Puts(p, <<Dir(p)>>, "exists", [at |-> f, done |-> t[p].job.op = "create"])
    /\ UNCHANGED <<disk, cwd, file>> /\ Still

\* An existing file is opened unless mkdir was called, it is no plain file, or
\* no file structure is free.
Exists(p) ==
    /\ At(p, "exists")
    /\ icache' = Read(icache, t[p].at)
    /\ \/ /\ t[p].job.op = "create" /\ Locked(t[p].at).type = "file"
          /\ file' = [file EXCEPT ![p] = t[p].at]
          /\ Set(p, [at |-> None, pc |-> "ret", ok |-> TRUE])
       \/ /\ Puts(p, <<t[p].at>>, "ret", [at |-> None])
          /\ UNCHANGED file
    /\ UNCHANGED <<disk, cwd>> /\ Still

\* The name is free: the directory stays locked until it is entered.
CreateNew(p) ==
    /\ At(p, "create") /\ Locked(Dir(p)).type = "dir"
    /\ lookup(Dir(p), Elem(p)) = None
    /\ icache' = ilock(icache, Dir(p), p)
    /\ Set(p, [at |-> None, dp |-> Dir(p), pc |-> "ialloc"])
    /\ UNCHANGED <<disk, cwd, file>> /\ Still

FreeInums == {i \in Inum : dinode[i].type = "free"}

\* ialloc(): the first inode that is free on the disk is marked there ...
Ialloc(p) ==
    /\ t[p].pc = "ialloc" /\ FreeInums # {}
    /\ LET i == Min(FreeInums) IN
       /\ dinode' = [dinode EXCEPT ![i] =
            [type |-> IF t[p].job.op = "mkdir" THEN "dir" ELSE "file",
             nlink |-> 0, addr |-> None]]
       /\ Set(p, [ip |-> i, pc |-> "iget"])
    /\ UNCHANGED <<bitmap, dirent, icache, cwd, file>> /\ Still

\* ... and only then looked up in the cache.
IallocGet(p) ==
    /\ t[p].pc = "iget"
    /\ icache' = iget(icache, t[p].ip)
    /\ Set(p, [pc |-> "fresh"])
    /\ UNCHANGED <<disk, cwd, file>> /\ Still

\* ilock(ip), nlink = 1, iupdate.
Fresh(p) ==
    /\ At(p, "fresh")
    /\ icache' = [ilock(icache, t[p].ip, p) EXCEPT ![t[p].ip].nlink = 1]
    /\ iupdate(t[p].ip, icache'[t[p].ip])
    /\ Set(p, [pc |-> IF t[p].job.op = "mkdir" THEN "uplink" ELSE "name"])
    /\ UNCHANGED <<bitmap, dirent, cwd, file>> /\ Still

\* mkdir: dp->nlink++ for "..".
Uplink(p) ==
    /\ t[p].pc = "uplink"
    /\ icache' = [icache EXCEPT ![t[p].dp].nlink = @ + 1]
    /\ iupdate(t[p].dp, icache'[t[p].dp])
    /\ Set(p, [pc |-> "balloc"])
    /\ UNCHANGED <<bitmap, dirent, cwd, file>> /\ Still

\* bmap() of an inode without a block: balloc() marks the first free one (which
\* bfree() or mkfs left clear).  The address is in the in-memory inode only.
Balloc(i, c) ==
    /\ Block \ bitmap # {}
    /\ LET b == Min(Block \ bitmap) IN
       /\ bitmap' = bitmap \cup {b}
       /\ icache' = [c EXCEPT ![i].addr = b]

\* The first dirlink() into the new directory needs a block.
DotsBlock(p) ==
    /\ t[p].pc = "balloc"
    /\ Balloc(t[p].ip, icache)
    /\ Set(p, [pc |-> "dots"])
    /\ UNCHANGED <<dinode, dirent, cwd, file>> /\ Still

\* dirlink() of "." and "..", and the iupdate() of writei().
Dots(p) ==
    /\ t[p].pc = "dots"
    /\ dirent' = [dirent EXCEPT ![icache[t[p].ip].addr][".."] = t[p].dp]
    /\ iupdate(t[p].ip, icache[t[p].ip])
    /\ Set(p, [pc |-> "name"])
    /\ UNCHANGED <<bitmap, icache, cwd, file>> /\ Still

\* dirlink(dp, name, ip->inum), last of all; iunlockput(dp).
CreateName(p) ==
    /\ t[p].pc = "name"
    /\ dirent' = [dirent EXCEPT ![icache[t[p].dp].addr][Elem(p)] = t[p].ip]
    /\ icache' = iunlock(icache, t[p].dp)
    /\ Puts(p, <<t[p].dp>>, "created", [dp |-> None, done |-> TRUE])
    /\ UNCHANGED <<dinode, bitmap, cwd, file>> /\ Still

\* mkdir puts the new inode; open keeps it, unless no file structure is free.
Created(p) ==
    /\ t[p].pc = "created"
    /\ icache' = iunlock(icache, t[p].ip)
    /\ \/ /\ t[p].job.op = "create"
          /\ file' = [file EXCEPT ![p] = t[p].ip]
          /\ Set(p, [ip |-> None, pc |-> "ret", ok |-> TRUE])
       \/ /\ Puts(p, <<t[p].ip>>, "ret", [ip |-> None, ok |-> t[p].job.op = "mkdir"])
          /\ UNCHANGED file
    /\ UNCHANGED <<disk, cwd>> /\ Still

-----------------------------------------------------------------------------
(* unlink *)

\* ".." cannot be unlinked, nor what is not there.
UnlinkMiss(p) ==
    /\ At(p, "unlink") /\ Locked(Dir(p)).type = "dir"
    /\ Elem(p) = ".." \/ lookup(Dir(p), Elem(p)) = None
    /\ icache' = Read(icache, Dir(p))
    /\ Puts(p, <<Dir(p)>>, "ret", [at |-> None])
    /\ UNCHANGED <<disk, cwd, file>> /\ Still

\* The directory stays locked while its entry is looked at.
Unlink(p) ==
    /\ At(p, "unlink") /\ Elem(p) # ".." /\ lookup(Dir(p), Elem(p)) # None
    /\ LET f == lookup(Dir(p), Elem(p)) IN
       /\ icache' = iget(ilock(icache, Dir(p), p), f)
       /\ Set(p, [at |-> None, dp |-> Dir(p), ip |-> f, pc |-> "victim"])
    /\ UNCHANGED <<disk, cwd, file>> /\ Still

\* Mutant: the directory is not looked through.
FullNever(i) == FALSE

\* isdirempty() says no.
Full(i) == Locked(i).type = "dir" /\ HasName(Locked(i).addr)

\* A directory with names in it stays.
UnlinkFull(p) ==
    /\ At(p, "victim") /\ Locked(t[p].ip).nlink >= 1 /\ Full(t[p].ip)
    /\ icache' = iunlock(Read(icache, t[p].ip), t[p].dp)
    /\ Puts(p, <<t[p].ip, t[p].dp>>, "ret", [ip |-> None, dp |-> None])
    /\ UNCHANGED <<disk, cwd, file>> /\ Still

\* The entry is cleared first.  A plain file's directory is let go at once.
UnlinkEntry(p) ==
    /\ At(p, "victim") /\ Locked(t[p].ip).nlink >= 1 /\ ~Full(t[p].ip)
    /\ dirent' = [dirent EXCEPT ![icache[t[p].dp].addr][Elem(p)] = None]
    /\ IF Locked(t[p].ip).type = "dir"
         THEN /\ icache' = ilock(icache, t[p].ip, p)
              /\ Set(p, [done |-> TRUE, pc |-> "downlink"])
         ELSE /\ icache' = iunlock(ilock(icache, t[p].ip, p), t[p].dp)
              /\ Puts(p, <<t[p].dp>>, "unlinked", [done |-> TRUE, dp |-> None])
    /\ UNCHANGED <<dinode, bitmap, cwd, file>> /\ Still

\* dp->nlink-- when a directory goes, for its "..".
Downlink(p) ==
    /\ t[p].pc = "downlink"
    /\ icache' = [icache EXCEPT ![t[p].dp].nlink = @ - 1,
                                ![t[p].dp].busy = NoProcess]
    /\ iupdate(t[p].dp, icache'[t[p].dp])
    /\ Puts(p, <<t[p].dp>>, "unlinked", [dp |-> None])
    /\ UNCHANGED <<bitmap, dirent, cwd, file>> /\ Still

\* ip->nlink--, iupdate, iunlockput.
Unlinked(p) ==
    /\ t[p].pc = "unlinked"
    /\ icache' = [icache EXCEPT ![t[p].ip].nlink = @ - 1,
                                ![t[p].ip].busy = NoProcess]
    /\ iupdate(t[p].ip, icache'[t[p].ip])
    /\ Puts(p, <<t[p].ip>>, "ret", [ip |-> None, ok |-> TRUE])
    /\ UNCHANGED <<bitmap, dirent, cwd, file>> /\ Still

-----------------------------------------------------------------------------
(* link *)

LinkDir(p) ==
    /\ At(p, "link") /\ Locked(t[p].at).type = "dir"
    /\ icache' = Read(icache, t[p].at)
    /\ Puts(p, <<t[p].at>>, "ret", [at |-> None])
    /\ UNCHANGED <<disk, cwd, file>> /\ Still

\* nlink++ on the disk before the new name is made; then nameiparent(new).
Link(p) ==
    /\ At(p, "link") /\ Locked(t[p].at).type # "dir"
    /\ LET i == t[p].at
           c == [Read(icache, i) EXCEPT ![i].nlink = @ + 1] IN
       /\ iupdate(i, c[i])
       /\ icache' = started(c, p, t[p].job)
       /\ Set(p, [ip |-> i, at |-> Start(p, t[p].job), path |-> t[p].job.new, pc |-> "walk"])
    /\ UNCHANGED <<bitmap, dirent, cwd, file>> /\ Still

\* dirlink() finds the name taken (what it gets it puts again).
LinkTaken(p) ==
    /\ At(p, "enter") /\ lookup(Dir(p), Elem(p)) # None
    /\ icache' = Read(icache, Dir(p))
    /\ Puts(p, <<Dir(p)>>, "bad", [at |-> None])
    /\ UNCHANGED <<disk, cwd, file>> /\ Still

LinkName(p) ==
    /\ At(p, "enter") /\ Locked(Dir(p)).type = "dir"
    /\ lookup(Dir(p), Elem(p)) = None
    /\ dirent' = [dirent EXCEPT ![Locked(Dir(p)).addr][Elem(p)] = t[p].ip]
    /\ icache' = Read(icache, Dir(p))
    /\ Puts(p, <<Dir(p), t[p].ip>>, "ret",
            [at |-> None, ip |-> None, done |-> TRUE, ok |-> TRUE])
    /\ UNCHANGED <<dinode, bitmap, cwd, file>> /\ Still

\* Mutant: the count is not taken back.
LinkBadKept(p) ==
    /\ At(p, "bad")
    /\ icache' = Read(icache, t[p].ip)
    /\ Puts(p, <<t[p].ip>>, "ret", [ip |-> None])
    /\ UNCHANGED <<disk, cwd, file>> /\ Still

\* bad: nlink--, iupdate, iunlockput.
LinkBad(p) ==
    /\ At(p, "bad")
    /\ icache' = [Read(icache, t[p].ip) EXCEPT ![t[p].ip].nlink = @ - 1]
    /\ iupdate(t[p].ip, icache'[t[p].ip])
    /\ Puts(p, <<t[p].ip>>, "ret", [ip |-> None])
    /\ UNCHANGED <<bitmap, dirent, cwd, file>> /\ Still

-----------------------------------------------------------------------------
(* write *)

\* filewrite() into a block the file has, or of a directory, which is never
\* open for writing.
Write(p) ==
    /\ At(p, "write")
    /\ Locked(file[p]).type = "dir" \/ Locked(file[p]).addr # None
    /\ icache' = Read(icache, file[p])
    /\ Set(p, [pc |-> "ret", ok |-> Locked(file[p]).type = "file"])
    /\ UNCHANGED <<disk, cwd, file>> /\ Still

\* Into a file without a block: bmap() allocates, writei() calls iupdate().
WriteBlock(p) ==
    /\ At(p, "write")
    /\ Locked(file[p]).type = "file" /\ Locked(file[p]).addr = None
    /\ Balloc(file[p], ilock(icache, file[p], p))
    /\ Set(p, [pc |-> "grow"])
    /\ UNCHANGED <<dinode, dirent, cwd, file>> /\ Still

Grow(p) ==
    /\ t[p].pc = "grow"
    /\ iupdate(file[p], icache[file[p]])
    /\ icache' = iunlock(icache, file[p])
    /\ Set(p, [pc |-> "ret", ok |-> TRUE])
    /\ UNCHANGED <<bitmap, dirent, cwd, file>> /\ Still

Return(p) ==
    /\ t[p].pc = "ret"
    /\ t' = [t EXCEPT ![p] = Idle]
    /\ UNCHANGED <<disk, icache, cwd, file>> /\ Still

-----------------------------------------------------------------------------
\* No inode or block is left: ialloc() and balloc() panic.
Exhausts(p) ==
    /\ \/ t[p].pc = "ialloc" /\ FreeInums = {}
       \/ t[p].pc = "balloc" /\ bitmap = Block
       \/ /\ At(p, "write") /\ bitmap = Block
          /\ Locked(file[p]).type = "file" /\ Locked(file[p]).addr = None
    /\ exhausted' = TRUE
    /\ UNCHANGED <<disk, icache, cwd, file, t, calls, programs>>

Step(p) ==
    \/ Begin(p) \/ Walk(p) \/ WalkFails(p) \/ WalkParent(p) \/ WalkEnds(p)
    \/ Iput(p) \/ IputLast(p) \/ Itrunc(p) \/ Ifree(p) \/ IputEnd(p)
    \/ Open(p) \/ OpenFails(p) \/ Chdir(p)
    \/ CreateFound(p) \/ Exists(p) \/ CreateNew(p) \/ Ialloc(p) \/ IallocGet(p)
    \/ Fresh(p) \/ Uplink(p) \/ DotsBlock(p) \/ Dots(p) \/ CreateName(p) \/ Created(p)
    \/ UnlinkMiss(p) \/ Unlink(p) \/ UnlinkFull(p) \/ UnlinkEntry(p)
    \/ Downlink(p) \/ Unlinked(p)
    \/ LinkDir(p) \/ Link(p) \/ LinkTaken(p) \/ LinkName(p) \/ LinkBad(p)
    \/ Write(p) \/ WriteBlock(p) \/ Grow(p) \/ Return(p)
    \/ Exhausts(p)

\* The kernel has panicked, or all calls of the model are made.
Over ==
    \/ exhausted
    \/ calls = MaxCalls /\ \A p \in Process : t[p].pc = "idle"

Next == \/ ~exhausted /\ \E p \in Process : Step(p)
        \/ Over /\ UNCHANGED vars

Spec == Init /\ [][Next]_vars

-----------------------------------------------------------------------------
TypeOK ==
    /\ dinode \in [Inum -> [type : Type, nlink : Int,
                           addr : Block \cup {None}]]
    /\ bitmap \subseteq Block
    /\ dirent \in [Block -> [Entry -> Inum \cup {None}]]
    /\ \A i \in Inum : /\ icache[i].ref \in Nat /\ icache[i].valid \in BOOLEAN
                       /\ icache[i].busy \in Process \cup {NoProcess}
    /\ cwd \in [Process -> Inum] /\ file \in [Process -> Inum \cup {None}]
    /\ calls \in 0..MaxCalls

\* Every reference is somebody's: the count of an inode is the number of
\* directories processes stand in, files they have open, pointers that calls
\* hold and iputs they still owe.  Too few, and an inode is freed in use.
One(b) == IF b THEN 1 ELSE 0
Pointers(p, i) ==
    One(cwd[p] = i) + One(file[p] = i) + One(t[p].at = i) + One(t[p].dp = i)
    + One(t[p].ip = i /\ t[p].pc # "iget")
    + One(Len(t[p].puts) >= 1 /\ t[p].puts[1] = i)
    + One(Len(t[p].puts) = 2 /\ t[p].puts[2] = i)
Holders(i) == {x \in Process \X (1..7) : x[2] <= Pointers(x[1], i)}
RefsCounted ==
    /\ TypeOK
    /\ \A i \in Inum : icache[i].ref = Cardinality(Holders(i))

\* None of the panics of fs.c and sysfile.c is reached ("ilock: no type",
\* "iput busy", "unlink: nlink < 1", "dirlookup not DIR", "freeing free
\* block"), but for an exhausted disk.
AboutToPanic(p) ==
    LET w == Wanted(p) IN
    \/ w # None /\ icache[w].busy = NoProcess /\ ~Typed(w)
    \/ t[p].pc = "iput" /\ LastRef(Put(p)) /\ icache[Put(p)].busy # NoProcess
    \/ t[p].pc = "itrunc" /\ icache[Put(p)].addr \notin bitmap \cup {None}
    \/ t[p].pc = "victim" /\ Typed(w) /\ Locked(w).nlink < 1
    \/ t[p].pc \in {"create", "unlink", "enter"} /\ Typed(w) /\ Locked(w).type # "dir"
FsNeverPanics == \A p \in Process : ~AboutToPanic(p)

\* No processes wait for each other's inodes: directories are locked before
\* what is in them, and a path with ".." in it never locks upwards.
HasLocked(p) == {i \in Inum : icache[i].busy = p}
NoEmbrace ==
    \A p, q \in Process :
        ~(Wanted(p) \in HasLocked(q) /\ Wanted(q) \in HasLocked(p))

\* The links on the disk, of directories that are not given up.
Live == {d \in Inum : dinode[d].type = "dir" /\ dinode[d].nlink > 0}
Names(addr) == {<<n, dirent[addr][n]>> : n \in {m \in Name : dirent[addr][m] # None}}
OnDisk == UNION {{<<d, l[1], l[2]>> : l \in Names(dinode[d].addr)} :
                    d \in {e \in Live : dinode[e].addr # None}}
LinksTo(i) == {l \in OnDisk : l[3] = i}
Subdirs(d) == {l \in OnDisk : l[1] = d /\ dinode[l[3]].type = "dir"}
Counted(i) == One(i = Root) + Cardinality(LinksTo(i)) + Cardinality(Subdirs(i))

\* A crash at any moment leaves no name for an inode that is free or shares a
\* block, no count that an unlink could bring to 0 too early, and no directory
\* whose ".." leads elsewhere than to its parent: the order in which create,
\* link, unlink and iput write.
DiskSound ==
    /\ \A l \in OnDisk : dinode[l[3]].type # "free"
    /\ \A i \in Inum :
          /\ dinode[i].nlink >= 0
          /\ dinode[i].type # "free" => dinode[i].nlink = 0 \/ dinode[i].nlink >= Counted(i)
    /\ \A l \in OnDisk : /\ dinode[l[3]].nlink > 0
                         /\ dinode[l[3]].type = "dir" =>
                               dirent[dinode[l[3]].addr][".."] = l[1]
    /\ \A i, j \in Inum : dinode[i].nlink > 0 /\ dinode[i].addr # None =>
          /\ dinode[i].addr \in bitmap
          /\ dinode[j].nlink > 0 /\ dinode[j].addr = dinode[i].addr => i = j

\* Programs of this kind remove no directory.
Stay == \E D \in SUBSET Name : DirsStay(programs, D)

\* Between calls nothing is lost, as long as no directory is removed (a process
\* may stand in it or be creating something there): an inode in use has a name or
\* a holder, the counts are exact, and so are the marked blocks.
NothingLost ==
    Stay /\ (\A p \in Process : t[p].pc = "idle") =>
        /\ \A i \in Inum : dinode[i].type # "free" =>
              /\ dinode[i].nlink = Counted(i)
              /\ Counted(i) > 0 \/ icache[i].ref > 0
        /\ bitmap = {dinode[i].addr : i \in Inum} \ {None}

\* The calls change and follow a tree of names: module NameSpace.
Addr(d) == IF icache[d].ref > 0 /\ icache[d].valid THEN icache[d].addr ELSE dinode[d].addr
Links == UNION {{<<d, l[1], l[2]>> : l \in Names(Addr(d))} :
                   d \in {e \in Inum : dinode[e].type = "dir" /\ Addr(e) # None}}
Op(p) == IF t[p].pc = "idle" THEN "none"
         ELSE IF t[p].job.op \in {"chdir", "write", "close"} THEN "other"
         ELSE t[p].job.op
Result(p) == IF t[p].pc # "ret" THEN "none" ELSE IF t[p].ok THEN "ok" ELSE "fail"
Space == INSTANCE NameSpace WITH
    kind <- [i \in Inum |-> dinode[i].type],
    tree <- Links,
    op <- [p \in Process |-> Op(p)],
    done <- [p \in Process |-> t[p].done],
    result <- [p \in Process |-> Result(p)]
ImplementsNames == Space!Spec
=============================================================================
