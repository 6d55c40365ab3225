------------------------------ MODULE BufCache ------------------------------
(***************************************************************************)
(* The buffer cache (kernel/bio.c) and the disk driver under it            *)
(* (kernel/ide.c) of p4b/xv6_submitted_ver, used by processes that bread,  *)
(* bwrite and brelse one block at a time.                                  *)
(*                                                                         *)
(* bcache.lock makes a step of each scan of bget() and of brelse(), idelock*)
(* of each pass of iderw() and of ideintr(); a process sleeps on a buffer  *)
(* in either loop, and kill() may wake it there.                           *)
(***************************************************************************)
EXTENDS Integers, FiniteSets, SequencesExt

CONSTANTS
    Proc, NoProc,
    Buf, NoBuf, \* the NBUF buffers
    Sector, NoSector,
    Value,      \* contents of a block; Blank is what the disk starts with
    Blank,
    Killable    \* the processes kill() is aimed at

ASSUME BufCacheAssumption ==
    /\ NoProc \notin Proc /\ NoSector \notin Sector /\ NoBuf \notin Buf
    /\ Blank \in Value
    /\ IsFiniteSet(Buf) /\ Buf # {}
    /\ Killable \subseteq Proc

VARIABLES
    sector, busy, valid, dirty, data,   \* struct buf
    lru,        \* the list of bcache: most recently used first
    queue,      \* idequeue
    current,    \* the buffer the disk works for: the last idestart()
    platter,       \* the sectors of the disk (external)
    at,         \* where a process stands
    want,       \* the sector it asked bread() for
    buf,        \* the buffer it has, or sleeps on in bget()
    view        \* what it reads in the buffer bread() gave it

bufs == <<sector, busy, valid, dirty, data>>
cachevars == <<sector, busy, valid, dirty, data, lru, queue, current, platter,
          at, want, buf, view>>

\* "scan": in bget(), also when it is woken; "wait": asleep in bget();
\* "got": bget() returned; "io": in the loop of iderw(); "sleep": asleep in it;
\* "use": between bread() and brelse().
Place == {"out", "scan", "wait", "got", "io", "sleep", "use", "panic"}

CacheTypeOK ==
    /\ sector \in [Buf -> Sector \cup {NoSector}]
    /\ busy \in [Buf -> BOOLEAN] /\ valid \in [Buf -> BOOLEAN] /\ dirty \in [Buf -> BOOLEAN]
    /\ data \in [Buf -> Value]
    /\ lru \in Seq(Buf) /\ IsInjective(lru) /\ ToSet(lru) = Buf
    /\ queue \in Seq(Buf) /\ IsInjective(queue)
    /\ current \in Buf \cup {NoBuf}
    /\ platter \in [Sector -> Value]
    /\ at \in [Proc -> Place]
    /\ want \in [Proc -> Sector \cup {NoSector}]
    /\ buf \in [Proc -> Buf \cup {NoBuf}]
    /\ view \in [Proc -> Value]

\* binit, ideinit.
CacheInit ==
    /\ sector = [b \in Buf |-> NoSector]
    /\ busy = [b \in Buf |-> FALSE]
    /\ valid = [b \in Buf |-> FALSE]
    /\ dirty = [b \in Buf |-> FALSE]
    /\ data = [b \in Buf |-> Blank]
    /\ lru = SetToSeq(Buf)
    /\ queue = <<>>
    /\ current = NoBuf
    /\ platter = [s \in Sector |-> Blank]
    /\ at = [p \in Proc |-> "out"]
    /\ want = [p \in Proc |-> NoSector]
    /\ buf = [p \in Proc |-> NoBuf]
    /\ view = [p \in Proc |-> Blank]

-----------------------------------------------------------------------------
Cached(s) == {b \in Buf : sector[b] = s}
Free == {b \in Buf : ~busy[b]}
\* The least recently used buffer of those that are not in use: the scan of
\* bget() from the tail of the list stops there.
LeastRecent(b) ==
    /\ ~busy[b]
    /\ \E i \in DOMAIN lru :
        /\ lru[i] = b
        /\ \A j \in DOMAIN lru : j > i => busy[lru[j]]
\* The list with its k-th buffer at the front.
ToFront(k) ==
    [i \in DOMAIN lru |->
        IF i = 1 THEN lru[k] ELSE IF i <= k THEN lru[i - 1] ELSE lru[i]]
Up == \A p \in Proc : at[p] # "panic"
Goto(p, l) == at' = [at EXCEPT ![p] = l]
\* wakeup(b): the sleepers on b, in bget() and in iderw(); p goes to l.
WakeAnd(b, p, l) ==
    at' = [q \in Proc |->
        IF q = p THEN l
        ELSE IF buf[q] = b /\ at[q] = "wait" THEN "scan"
        ELSE IF buf[q] = b /\ at[q] = "sleep" THEN "io" ELSE at[q]]

\* bread(s) is called.
Bread(p, s) ==
    /\ Up /\ at[p] = "out"
    /\ want' = [want EXCEPT ![p] = s]
    /\ Goto(p, "scan")
    /\ UNCHANGED <<bufs, lru, queue, current, platter, buf, view>>

\* bget(): the block is cached and not in use.
Hit(p, b) ==
    /\ Up /\ at[p] = "scan"
    /\ b \in Cached(want[p]) /\ ~busy[b]
    /\ busy' = [busy EXCEPT ![b] = TRUE]
    /\ buf' = [buf EXCEPT ![p] = b]
    /\ Goto(p, "got")
    /\ UNCHANGED <<sector, valid, dirty, data, lru, queue, current, platter, want, view>>

\* Somebody uses it: sleep on the buffer, then scan again.
HitBusy(p, b) ==
    /\ Up /\ at[p] = "scan"
    /\ b \in Cached(want[p]) /\ busy[b]
    /\ buf' = [buf EXCEPT ![p] = b]
    /\ Goto(p, "wait")
    /\ UNCHANGED <<bufs, lru, queue, current, platter, want, view>>

\* Mutant: a cached block that is in use is fetched into another buffer.
MissBusy(p) ==
    /\ Up /\ at[p] = "scan"
    /\ Cached(want[p]) \cap Free = {}
    /\ \E b \in Buf :
       /\ LeastRecent(b)
       /\ sector' = [sector EXCEPT ![b] = want[p]]
       /\ busy' = [busy EXCEPT ![b] = TRUE]
       /\ valid' = [valid EXCEPT ![b] = FALSE]
       /\ dirty' = [dirty EXCEPT ![b] = FALSE]
       /\ buf' = [buf EXCEPT ![p] = b]
    /\ Goto(p, "got")
    /\ UNCHANGED <<data, lru, queue, current, platter, want, view>>

\* It is not cached: the least recently used buffer that is not in use.
Miss(p) ==
    /\ Up /\ at[p] = "scan"
    /\ Cached(want[p]) = {}
    /\ \E b \in Buf :
       /\ LeastRecent(b)
       /\ sector' = [sector EXCEPT ![b] = want[p]]
       /\ busy' = [busy EXCEPT ![b] = TRUE]
       /\ valid' = [valid EXCEPT ![b] = FALSE]
       /\ dirty' = [dirty EXCEPT ![b] = FALSE]
       /\ buf' = [buf EXCEPT ![p] = b]
    /\ Goto(p, "got")
    /\ UNCHANGED <<data, lru, queue, current, platter, want, view>>

\* panic("bget: no buffers"): the machine stops.
NoBuffers(p) ==
    /\ Up /\ at[p] = "scan"
    /\ Cached(want[p]) = {} /\ Free = {}
    /\ Goto(p, "panic")
    /\ UNCHANGED <<bufs, lru, queue, current, platter, want, buf, view>>

\* bread() returns the buffer.
See(p) ==
    /\ view' = [view EXCEPT ![p] = data[buf[p]]]
    /\ Goto(p, "use")

\* A valid buffer needs no disk.
BreadCached(p) ==
    /\ Up /\ at[p] = "got" /\ valid[buf[p]]
    /\ See(p)
    /\ UNCHANGED <<bufs, lru, queue, current, platter, want, buf>>

\* iderw(): append to the queue, start the disk if it was idle, and go into
\* the loop; the process sleeps at once since its request is not done.
Enqueue(p) ==
    /\ queue' = Append(queue, buf[p])
    /\ current' = IF queue = <<>> THEN buf[p] ELSE current
    /\ Goto(p, "sleep")

BreadDisk(p) ==
    /\ Up /\ at[p] = "got" /\ ~valid[buf[p]]
    /\ Enqueue(p)
    /\ UNCHANGED <<bufs, lru, platter, want, buf, view>>

\* The process changes the block and calls bwrite().
Bwrite(p, v) ==
    /\ Up /\ at[p] = "use"
    /\ data' = [data EXCEPT ![buf[p]] = v]
    /\ dirty' = [dirty EXCEPT ![buf[p]] = TRUE]
    /\ view' = [view EXCEPT ![p] = v]
    /\ Enqueue(p)
    /\ UNCHANGED <<sector, busy, valid, lru, platter, want, buf>>

\* Mutant: sleep() once, without the loop around it.
IoDoneOnce(p) ==
    /\ Up /\ at[p] = "io"
    /\ See(p)
    /\ UNCHANGED <<bufs, lru, queue, current, platter, want, buf>>

\* The loop of iderw() looks at the flags: done.
IoDone(p) ==
    /\ Up /\ at[p] = "io" /\ valid[buf[p]] /\ ~dirty[buf[p]]
    /\ See(p)
    /\ UNCHANGED <<bufs, lru, queue, current, platter, want, buf>>

\* Woken by somebody else: sleep again.
IoWait(p) ==
    /\ Up /\ at[p] = "io" /\ ~(valid[buf[p]] /\ ~dirty[buf[p]])
    /\ Goto(p, "sleep")
    /\ UNCHANGED <<bufs, lru, queue, current, platter, want, buf, view>>

\* brelse(): to the front of the list, not in use, and the waiters wake up.
Brelse(p) ==
    /\ Up /\ at[p] = "use"
    /\ \E k \in DOMAIN lru : lru[k] = buf[p] /\ lru' = ToFront(k)
    /\ busy' = [busy EXCEPT ![buf[p]] = FALSE]
    /\ WakeAnd(buf[p], p, "out")
    /\ buf' = [buf EXCEPT ![p] = NoBuf]
    /\ want' = [want EXCEPT ![p] = NoSector]
    /\ view' = [view EXCEPT ![p] = Blank]
    /\ UNCHANGED <<sector, valid, dirty, data, queue, current, platter>>

-----------------------------------------------------------------------------
(* The disk and its interrupt *)

\* What the disk has done when it interrupts, and what ideintr() copies: a
\* dirty buffer was written, any other is filled.  The disk is taken not to
\* fail: after a failed read ideintr() sets B_VALID all the same (ide.c:98-104).
Transfer(b) ==
    \/ /\ dirty[b]
       /\ platter' = [platter EXCEPT ![sector[b]] = data[b]]
       /\ UNCHANGED data
    \/ /\ ~dirty[b]
       /\ data' = [data EXCEPT ![b] = platter[sector[b]]]
       /\ UNCHANGED platter

\* Mutant: ideintr() does not start the next request.
IdeintrNoStart ==
    /\ Up /\ current # NoBuf /\ queue # <<>>
    /\ LET b == Head(queue) IN
       /\ Transfer(b)
       /\ valid' = [valid EXCEPT ![b] = TRUE]
       /\ dirty' = [dirty EXCEPT ![b] = FALSE]
       /\ queue' = Tail(queue)
       /\ current' = NoBuf
       /\ WakeAnd(b, NoProc, "out")
    /\ UNCHANGED <<sector, busy, lru, want, buf, view>>

\* ideintr(): the head of the queue is done; start the next one.
Ideintr ==
    /\ Up /\ current # NoBuf /\ queue # <<>>
    /\ LET b == Head(queue) IN
       /\ Transfer(b)
       /\ valid' = [valid EXCEPT ![b] = TRUE]
       /\ dirty' = [dirty EXCEPT ![b] = FALSE]
       /\ queue' = Tail(queue)
       /\ current' = IF Len(queue) = 1 THEN NoBuf ELSE queue[2]
       /\ WakeAnd(b, NoProc, "out")
    /\ UNCHANGED <<sector, busy, lru, want, buf, view>>

\* kill() wakes a sleeper, whatever it sleeps on; iderw() ignores killed.
Kill(p) ==
    /\ Up /\ p \in Killable /\ at[p] \in {"wait", "sleep"}
    /\ Goto(p, IF at[p] = "wait" THEN "scan" ELSE "io")
    /\ UNCHANGED <<bufs, lru, queue, current, platter, want, buf, view>>

\* The steps inside bread, bwrite.
Work(p) ==
    \/ \E b \in Buf : Hit(p, b) \/ HitBusy(p, b)
    \/ Miss(p) \/ NoBuffers(p)
    \/ BreadCached(p) \/ BreadDisk(p) \/ IoDone(p) \/ IoWait(p)

CacheNext ==
    \/ \E p \in Proc :
        \/ \E s \in Sector : Bread(p, s)
        \/ \E v \in Value : Bwrite(p, v)
        \/ Work(p) \/ Brelse(p) \/ Kill(p)
    \/ Ideintr

CacheSpec == CacheInit /\ [][CacheNext]_cachevars

-----------------------------------------------------------------------------
Using(p, b) == buf[p] = b /\ at[p] \in {"got", "io", "sleep", "use"}

\* What a sector holds: what its valid buffer does, or else the disk.
BlockOf(s) ==
    IF \E b \in Cached(s) : valid[b]
      THEN data[CHOOSE b \in Cached(s) : valid[b]] ELSE platter[s]
Blocks == [s \in Sector |-> BlockOf(s)]
\* The process that has it.
User(s) ==
    IF \E p \in Proc, b \in Cached(s) : Using(p, b)
      THEN CHOOSE p \in Proc : \E b \in Cached(s) : Using(p, b)
      ELSE NoProc
Users == [s \in Sector |-> User(s)]

\* "Only one process at a time can use a buffer" (bio.c:13), a process that
\* has a block sees what was last written to it, whichever buffer held it and
\* however often it was recycled: the cache implements the block store.
S == INSTANCE BlockStore WITH block <- Blocks, user <- Users
ImplementsBlockStore == S!Spec

\* Each sector is in one buffer at most, and a busy buffer has one user: no
\* buffer is lost, so bget() panics only when every buffer is in use.
NoAlias ==
    /\ \A s \in Sector : \A b, c \in Cached(s) : b = c
    /\ \A b \in Buf : busy[b] <=> \E p \in Proc : {q \in Proc : Using(q, b)} = {p}

\* A buffer that is valid and not on its way to the disk agrees with the disk,
\* so recycling it loses nothing.
CleanMatchesDisk ==
    \A b \in Buf : valid[b] /\ ~dirty[b] => data[b] = platter[sector[b]]

\* The cache is sound: no sector in two buffers, no buffer lost, none stale.
BuffersSound == CacheTypeOK /\ NoAlias /\ CleanMatchesDisk

\* Whoever sleeps will be woken: in bget() only on a buffer that is in use and
\* still has the sector asked for, in iderw() only with the buffer in the queue;
\* and the disk works for the head of the queue.
SleepersServed ==
    /\ \A p \in Proc : at[p] = "wait" => busy[buf[p]] /\ sector[buf[p]] = want[p]
    /\ \A p \in Proc : at[p] = "sleep" => buf[p] \in ToSet(queue)
    /\ current = (IF queue = <<>> THEN NoBuf ELSE Head(queue))
=============================================================================
