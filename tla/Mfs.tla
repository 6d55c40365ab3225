-------------------------------- MODULE Mfs --------------------------------
(***************************************************************************)
(* The file server of p5a (server.c), its client library (mfs.c) and the   *)
(* UDP network between them.                                               *)
(*                                                                         *)
(* The server is one thread.  A request makes it compute new metadata and  *)
(* a list of pwrites, one step each; it may crash between any two of them  *)
(* and is then started again on what the image holds.  The client sends,   *)
(* waits in select() and sends again when 5 seconds have passed.           *)
(***************************************************************************)
EXTENDS Integers, Sequences, FiniteSets, FiniteSetsExt, SequencesExt

CONSTANTS
    NINODE,     \* sb->ninodes
    NBLOCK,     \* sb->nblocks
    NADDR,      \* NDIRECT + 1: blocks of a file
    Name,       \* file names, other than "." and ".."
    Value,      \* contents of a block; Zero is what the image starts with
    Zero,
    Hole,       \* no contents
    NoCall,     \* "no request"
    Free,       \* an inode that is not in use, in the abstract tree
    CrashIn,    \* the requests the server may crash in; not UNLINK, which
                \* leaves an entry naming a free inode behind
    MaxCrash,   \* bound: how often it crashes
    MaxFlight,  \* bound: copies of a request under way at once; with 1, what
                \* has not arrived 5 seconds after it was sent never does
    AnyUnlink   \* requests may also unlink what set_bit() cannot free

Inum  == 0..NINODE - 1
Block == 0..NBLOCK - 1
Addr  == 0..NADDR - 1
NoInum  == -1
NoBlock == -1       \* address 0xFFFFFFFF
Header  == -2       \* address 0, in an inode that was never filled in
Directory   == 2
RegularFile == 1
Unknown     == 3    \* any other type
Dirs == [Name -> Inum \cup {NoInum}]

Request ==
    [cmd : {"LOOKUP", "UNLINK"}, inum : Inum, name : Name]
    \cup [cmd : {"CREAT"}, inum : Inum, name : Name,
          type : {RegularFile, Directory, Unknown}]
    \cup [cmd : {"WRITE"}, inum : Inum, blk : Addr, val : Value]
    \cup [cmd : {"READ"}, inum : Inum, blk : Addr]
    \cup [cmd : {"STAT"}, inum : Inum]
    \cup {[cmd |-> "SHUTDOWN"]}

ASSUME MfsAssumption ==
    /\ NINODE \in Nat \ {0} /\ NBLOCK \in Nat \ {0} /\ NADDR \in Nat \ {0}
    /\ Zero \in Value /\ Hole \notin Value \cup Dirs
    /\ CrashIn \subseteq {"CREAT", "WRITE"}
    /\ NoCall \notin Request
    /\ Free \notin [type : {Directory, RegularFile}, has : Dirs \cup [Addr -> Value \cup Dirs \cup {Hole}]]
    /\ MaxCrash \in Nat /\ MaxFlight \in Nat \ {0} /\ AnyUnlink \in BOOLEAN

VARIABLES
    bitmap, inodes, block,  \* the image: blocks marked, inodes, data blocks
    up,         \* the server: "up", "down" (it crashed) or "off" (shut down)
    cur,        \* the request it is serving
    todo,       \* the pwrites it still has to do for it
    reply,      \* what it will answer
    crashes,    \* how often it has crashed
    reqs, reps, \* datagrams under way
    call,       \* the client: the request it is waiting for
    answer      \* what its last call returned, until it calls again

image == <<bitmap, inodes, block>>
server == <<up, cur, todo, reply, crashes>>
vars == <<image, server, reqs, reps, call, answer>>

Inode == [type : {0, RegularFile, Directory}, size : 0..NADDR,
          addrs : [Addr -> Block \cup {NoBlock, Header}]]
Reply(rc, size, val) == [rc |-> rc, size |-> size, val |-> val]      \* response
EmptyDir == [n \in Name |-> NoInum]
NoReply == Reply(-1, 0, Hole)

TypeOK ==
    /\ bitmap \subseteq Block
    /\ inodes \in [Inum -> Inode]
    /\ \A b \in Block : block[b] \in Value \/ block[b] \in Dirs
    /\ up \in {"up", "down", "off"}
    /\ cur \in Request \cup {NoCall} /\ call \in Request \cup {NoCall}
    /\ Len(todo) <= 3 * NADDR + 2
    /\ crashes \in 0..MaxCrash
    /\ Len(reqs) + Len(reps) <= MaxFlight

\* init() on a new image: the root directory has the first block.
Init ==
    /\ bitmap = {0}
    /\ inodes = [i \in Inum |->
            IF i = 0 THEN [type |-> Directory, size |-> 1,
                           addrs |-> [k \in Addr |-> IF k = 0 THEN 0 ELSE NoBlock]]
            ELSE [type |-> 0, size |-> 0, addrs |-> [k \in Addr |-> Header]]]
    /\ block = [b \in Block |-> IF b = 0 THEN EmptyDir ELSE Zero]
    /\ up = "up" /\ cur = NoCall /\ todo = <<>> /\ reply = NoReply
    /\ crashes = 0
    /\ reqs = <<>> /\ reps = <<>>
    /\ call = NoCall
    /\ answer = [call |-> NoCall, res |-> NoReply]

-----------------------------------------------------------------------------
(* The blocks of the image *)

IsType(i, t) == inodes[i].type = t
Entries(d) == block[inodes[d].addrs[0]]
FreeInodes == {i \in Inum : IsType(i, 0)}
Ascending(S) ==
    CHOOSE seq \in [1..Cardinality(S) -> S] :
        \A m, n \in 1..Cardinality(S) : m < n => seq[m] < seq[n]
\* The first n blocks whose bit is 0.
FreeBlocks(n) == SubSeq(Ascending(Block \ bitmap), 1, n)
\* The blocks an inode that is in use has.
Owned(i) ==
    CASE IsType(i, RegularFile) -> {inodes[i].addrs[k] : k \in Addr} \ {NoBlock}
      [] IsType(i, Directory)   -> {inodes[i].addrs[0]}
      [] IsType(i, 0)           -> {}

\* Math_Pow() multiplies by exp, not by base.
Math_Pow(base, exp) == exp ^ exp

\* set_bit(b, 0) keeps bit c of its byte where this mask has a 1.
KeepsBit(b, c) ==
    ((Math_Pow(2, 8) - 1 - Math_Pow(2, 8 - (b % 8) + 1)) \div 2 ^ (7 - (c % 8))) % 2 = 1

ClearBits(map, B) == {c \in map : \A b \in B : c \div 8 = b \div 8 => KeepsBit(b, c)}

\* The pwrites.
PushBitmap(map)    == [where |-> "bitmap", to |-> map]
PushInodes(ino)    == [where |-> "inodes", to |-> ino]
PushBlock(b, data) == [where |-> "block", block |-> b, to |-> data]

-----------------------------------------------------------------------------
(* The handlers: what they push and what they answer *)

Quick(rc, val) == [push |-> <<>>, reply |-> Reply(rc, 0, val)]
Pushes(seq) == [push |-> seq, reply |-> Reply(0, 0, Hole)]

mfs_lookup(p, n) ==
    IF IsType(p, Directory) THEN Quick(Entries(p)[n], Hole) ELSE Quick(-1, Hole)

mfs_stat(i) == IF IsType(i, 0) THEN Quick(-1, Hole) 
    ELSE [push |-> <<>>, reply |-> Reply(0, inodes[i].size, Hole)]

mfs_read(i, k) ==
    IF IsType(i, 0) \/ inodes[i].addrs[k] = NoBlock THEN Quick(-1, Hole)
    ELSE Quick(0, IF inodes[i].addrs[k] = Header THEN Zero
                  ELSE block[inodes[i].addrs[k]])

\* The first block a write to block k has to allocate: k itself, or the start
\* of the gap below it.
FirstNew(i, k) ==
    IF k # 0 /\ inodes[i].addrs[k - 1] = NoBlock
      THEN Min({m \in Addr : inodes[i].addrs[m] = NoBlock}) ELSE k

\* Mutant: the inode is pushed before the bitmap.
GrowthInodeFirst(i, k) ==
    LET g == FirstNew(i, k)
        new == FreeBlocks(k - g + 1)
        Marked(n) == bitmap \cup {new[m] : m \in 1..n}
        Longer(n) == [inodes EXCEPT ![i].size = @ + n,
                        ![i].addrs = [a \in Addr |->
                            IF a \in g..g + n - 1 THEN new[a - g + 1] ELSE @[a]]] IN
    [x \in 1..2 * Len(new) |->
        IF x % 2 = 0 THEN PushBitmap(Marked(x \div 2))
                     ELSE PushInodes(Longer((x + 1) \div 2))]

\* Every block from there to k is marked in the bitmap, then put into the
\* inode.  (The zeros for the gap are written at address 0xFFFFFFFF.)
Growth(i, k) ==
    LET g == FirstNew(i, k)
        new == FreeBlocks(k - g + 1)
        Marked(n) == bitmap \cup {new[m] : m \in 1..n}
        Longer(n) == [inodes EXCEPT ![i].size = @ + n,
                        ![i].addrs = [a \in Addr |->
                            IF a \in g..g + n - 1 THEN new[a - g + 1] ELSE @[a]]] IN
    [x \in 1..2 * Len(new) |->
        IF x % 2 = 1 THEN PushBitmap(Marked((x + 1) \div 2))
                     ELSE PushInodes(Longer(x \div 2))]

mfs_write(i, k, v) ==
    IF ~IsType(i, RegularFile) THEN Quick(-1, Hole)
    ELSE IF inodes[i].addrs[k] # NoBlock
      THEN Pushes(<<PushBlock(inodes[i].addrs[k], v)>>)
    ELSE LET new == FreeBlocks(k - FirstNew(i, k) + 1) IN
         Pushes(Growth(i, k) \o <<PushBlock(Last(new), v)>>)

\* A new file: its inode, then the entry in the parent.
NewFile(p, n, i) ==
    <<PushInodes([inodes EXCEPT ![i] =
        [type |-> RegularFile, size |-> 0, addrs |-> [k \in Addr |-> NoBlock]]]),
      PushBlock(inodes[p].addrs[0], [Entries(p) EXCEPT ![n] = i])>>

\* A new directory: bitmap, inode, its own block, the entry in the parent.  It
\* is the addresses of inode 0, not of the new one, that are set to none.
NewDir(p, n, i) ==
    LET b == FreeBlocks(1)[1]
        ino == [inodes EXCEPT ![i].type = Directory, ![i].size = 1, ![i].addrs[0] = b] IN
    <<PushBitmap(bitmap \cup {b}),
      PushInodes([ino EXCEPT ![0].addrs =
                    [k \in Addr |-> IF k = 0 THEN @[0] ELSE NoBlock]]),
      PushBlock(b, EmptyDir),
      PushBlock(inodes[p].addrs[0], [Entries(p) EXCEPT ![n] = i])>>

\* Mutant: no look at whether the name is there already.
mfs_creatAgain(p, t, n) ==
    IF ~IsType(p, Directory) THEN Quick(-1, Hole)
    ELSE Pushes(IF t = Directory THEN NewDir(p, n, Min(FreeInodes))
                                 ELSE NewFile(p, n, Min(FreeInodes)))

mfs_creat(p, t, n) ==
    IF ~IsType(p, Directory) THEN Quick(-1, Hole)
    ELSE IF Entries(p)[n] # NoInum THEN Quick(0, Hole)
    ELSE Pushes(IF t = Directory THEN NewDir(p, n, Min(FreeInodes))
                                 ELSE NewFile(p, n, Min(FreeInodes)))

\* set_bit(b, 0) for the blocks of an inode, one after the other.
Freeing(i) ==
    LET own == Ascending(Owned(i)) IN
    [n \in 1..Len(own) |-> PushBitmap(ClearBits(bitmap, {own[m] : m \in 1..n}))]

\* Bitmap, inode, and the entry, which is looked for by its inum.
Unlinked(p, i) ==
    Freeing(i) \o
    <<PushInodes([inodes EXCEPT ![i].type = 0]),
      PushBlock(inodes[p].addrs[0],
                [m \in Name |-> IF Entries(p)[m] = i THEN NoInum ELSE Entries(p)[m]])>>

mfs_unlink(p, n) ==
    IF ~IsType(p, Directory) THEN Quick(-1, Hole)
    ELSE IF Entries(p)[n] = NoInum THEN Quick(0, Hole)
    ELSE IF IsType(Entries(p)[n], Directory) /\ Entries(Entries(p)[n]) # EmptyDir
      THEN Quick(-1, Hole)
    ELSE Pushes(Unlinked(p, Entries(p)[n]))

\* The switch of worker().
Handle(r) ==
    CASE r.cmd = "LOOKUP" -> mfs_lookup(r.inum, r.name)
      [] r.cmd = "STAT"   -> mfs_stat(r.inum)
      [] r.cmd = "READ"   -> mfs_read(r.inum, r.blk)
      [] r.cmd = "WRITE"  -> mfs_write(r.inum, r.blk, r.val)
      [] r.cmd = "CREAT"  -> mfs_creat(r.inum, r.type, r.name)
      [] r.cmd = "UNLINK" -> mfs_unlink(r.inum, r.name)
      [] r.cmd = "SHUTDOWN" -> Quick(0, Hole)

\* The handlers that return -1 and make worker() fail its assertion: creation
\* of something of an unknown type, removal of an entry without an inode.
Asserts(r) ==
    \/ r.cmd = "CREAT" /\ r.type = Unknown /\ IsType(r.inum, Directory)
         /\ Entries(r.inum)[r.name] = NoInum
    \/ r.cmd = "UNLINK" /\ IsType(r.inum, Directory)
         /\ Entries(r.inum)[r.name] # NoInum /\ IsType(Entries(r.inum)[r.name], 0)

-----------------------------------------------------------------------------
(* The client: the program calls, send_request() sends until it is answered *)

Linked(i) ==
    \/ i = 0
    \/ \E d \in Inum : /\ IsType(d, Directory) /\ Entries(d) \in Dirs
                      /\ \E n \in Name : Entries(d)[n] = i

\* The program uses inode numbers MFS_Lookup() gave it, or bad ones.
Knows(r) == r.cmd # "SHUTDOWN" => Linked(r.inum) \/ IsType(r.inum, 0)

\* Bound: the image has room, also if all remaining crashes hit this call.
Needs(r) ==
    CASE r.cmd = "CREAT" -> 1
      [] r.cmd = "WRITE" -> IF r.blk > 0 THEN r.blk - FirstNew(r.inum, r.blk) + 1 ELSE 1
      [] OTHER -> 0
Fits(r) ==
    LET spare == MaxCrash - crashes IN
    /\ Needs(r) > 0 => Cardinality(Block \ bitmap) >= Needs(r) + spare
    /\ r.cmd = "CREAT" => Cardinality(FreeInodes) > spare

\* Unlinking unmarks no block that another inode has.
Safe(r) ==
    (~AnyUnlink /\ r.cmd = "UNLINK") =>
       LET h == mfs_unlink(r.inum, r.name) IN
       \A x \in 1..Len(h.push) : h.push[x].where = "bitmap" =>
         \A j \in Inum : Entries(r.inum)[r.name] # j => Owned(j) \subseteq h.push[x].to

Call(r) ==
    /\ call = NoCall /\ up # "off"
    /\ Knows(r) /\ Fits(r) /\ Safe(r)
    /\ call' = r
    /\ reqs' = Append(reqs, r)
    /\ answer' = [call |-> NoCall, res |-> NoReply]
    /\ UNCHANGED <<image, server, reps>>

InFlight == Len(reqs) + Len(reps) + (IF cur # NoCall THEN 1 ELSE 0)

\* Mutant: select() has timed out and nothing is sent.
TimeoutSilent ==
    /\ call # NoCall /\ InFlight < MaxFlight
    /\ UNCHANGED vars

Timeout ==
    /\ call # NoCall /\ InFlight < MaxFlight
    /\ reqs' = Append(reqs, call)
    /\ UNCHANGED <<image, server, reps, call, answer>>

\* Any datagram that arrives is taken for the answer.
Take ==
    /\ call # NoCall
    /\ \E x \in 1..Len(reps) :
         /\ answer' = [call |-> call, res |-> reps[x]]
         /\ reps' = RemoveAt(reps, x)
    /\ call' = NoCall
    /\ UNCHANGED <<image, server, reqs>>

Lose ==
    /\ \/ \E x \in 1..Len(reqs) : reqs' = RemoveAt(reqs, x) /\ UNCHANGED reps
       \/ \E x \in 1..Len(reps) : reps' = RemoveAt(reps, x) /\ UNCHANGED reqs
    /\ UNCHANGED <<image, server, call, answer>>

-----------------------------------------------------------------------------
(* The server *)

Receive ==
    /\ up = "up" /\ cur = NoCall
    /\ \E x \in 1..Len(reqs) :
         /\ reqs' = RemoveAt(reqs, x)
         /\ IF Asserts(reqs[x])
              THEN up' = "down" /\ UNCHANGED <<cur, todo, reply>>
              ELSE LET h == Handle(reqs[x]) IN
                   cur' = reqs[x] /\ todo' = h.push /\ reply' = h.reply /\ UNCHANGED up
    /\ UNCHANGED <<image, crashes, reps, call, answer>>

Push ==
    /\ todo # <<>>
    /\ LET w == Head(todo) IN
       /\ bitmap' = IF w.where = "bitmap" THEN w.to ELSE bitmap
       /\ inodes' = IF w.where = "inodes" THEN w.to ELSE inodes
       /\ block'  = IF w.where = "block" THEN [block EXCEPT ![w.block] = w.to] ELSE block
    /\ todo' = Tail(todo)
    /\ UNCHANGED <<up, cur, reply, crashes, reqs, reps, call, answer>>

Respond ==
    /\ cur # NoCall /\ todo = <<>>
    /\ reps' = Append(reps, reply)
    /\ cur' = NoCall /\ reply' = NoReply
    /\ up' = IF cur.cmd = "SHUTDOWN" THEN "off" ELSE up
    /\ UNCHANGED <<image, todo, crashes, reqs, call, answer>>

Crash ==
    /\ up = "up" /\ crashes < MaxCrash
    /\ cur # NoCall => cur.cmd \in CrashIn
    /\ up' = "down" /\ cur' = NoCall /\ todo' = <<>> /\ reply' = NoReply
    /\ crashes' = crashes + 1
    /\ UNCHANGED <<image, reqs, reps, call, answer>>

\* init() finds the image and reads its metadata.
Restart ==
    /\ up = "down"
    /\ up' = "up"
    /\ UNCHANGED <<image, cur, todo, reply, crashes, reqs, reps, call, answer>>

Next ==
    \/ \E r \in Request : Call(r)
    \/ Timeout \/ Take \/ Lose
    \/ Receive \/ Push \/ Respond \/ Crash \/ Restart

\* The server runs, somebody starts it again when it has died, select() times
\* out, and a network asked often enough delivers.
Fairness ==
    /\ WF_vars(Push) /\ WF_vars(Respond) /\ WF_vars(Restart)
    /\ WF_vars(Timeout)
    /\ SF_vars(Receive) /\ SF_vars(Take)

Spec == Init /\ [][Next]_vars /\ Fairness

-----------------------------------------------------------------------------
(* Properties *)

\* What the invariant supposes: no answer is late, no unlink unmarks blocks of
\* others, and the data of a file are not taken for a directory.
Modest == MaxFlight = 1 /\ ~AnyUnlink /\ Value \cap Dirs = {}

\* The inode that is being unlinked.
Doomed == IF cur # NoCall /\ cur.cmd = "UNLINK" /\ todo # <<>>
            THEN {Entries(cur.inum)[cur.name]} ELSE {}

\* At every instant, so also after a crash between any two pwrites of a creation
\* or a write, the image makes sense: the blocks of an inode are marked in the
\* bitmap and belong to it only, a file's size is what its addresses say, and no
\* entry names a free inode.  Not so of the inode whose unlink is being served,
\* and no crash falls into an unlink: one after the inode is freed (server.c:492)
\* leaves a name of a free inode.
ImageSound ==
    /\ TypeOK
    /\ \A i \in Inum \ Doomed : Owned(i) \subseteq bitmap
    /\ \A i, j \in Inum : i # j => Owned(i) \cap Owned(j) = {}
    /\ \A i \in Inum : IsType(i, RegularFile) =>
         inodes[i].size = Cardinality(Owned(i))
    /\ \A d \in Inum, n \in Name : Linked(d) /\ IsType(d, Directory) =>
         Entries(d)[n] \in Doomed \cup {NoInum} \/ ~IsType(Entries(d)[n], 0)

\* The tree a client sees: inodes in use that can be reached by a name.
tree == [i \in Inum |->
    IF IsType(i, 0) \/ ~Linked(i) THEN Free
    ELSE [type |-> inodes[i].type,
          has |-> IF IsType(i, Directory)
            THEN [n \in Name |-> IF Entries(i)[n] # NoInum /\ IsType(Entries(i)[n], 0)
                                   THEN NoInum ELSE Entries(i)[n]]
            ELSE [k \in Addr |-> IF inodes[i].addrs[k] = NoBlock THEN Hole
                                  ELSE block[inodes[i].addrs[k]]]]]

Store == INSTANCE FileStore

\* Whatever is lost, retried or cut off by a crash, a call takes effect at most
\* once and its answer is true: LOOKUP, STAT and READ of the tree as it is,
\* CREAT, WRITE and UNLINK of what they have left.
ImplementsStore == Store!Spec

\* MFS_Shutdown() may call a server that is gone, and creation of an unknown
\* type kills it each time; every other call of the library returns.
CallReturns ==
    (call # NoCall /\ call.cmd # "SHUTDOWN" /\ (call.cmd = "CREAT" => call.type # Unknown))
        ~> (call = NoCall)

\* "mark the corresponding bit to 0": unlinking a directory or a file unmarks
\* the blocks it had and no other (server.c, mfs_unlink).
UnmarksItsOwn ==
    [][\A b \in bitmap \ bitmap' :
         cur # NoCall /\ cur.cmd = "UNLINK" /\ b \in Owned(Entries(cur.inum)[cur.name])]_vars
=============================================================================
