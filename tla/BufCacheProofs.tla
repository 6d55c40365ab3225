--------------------------- MODULE BufCacheProofs ---------------------------
(***************************************************************************)
(* The buffer cache is sound, its sleepers will be woken, and it           *)
(* implements the block store, whatever the number of processes, buffers   *)
(* and sectors.                                                            *)
(***************************************************************************)
EXTENDS BufCache, FiniteSetTheorems, TLAPS

Has(p) == at[p] \in {"got", "io", "sleep", "use"}
Queued(b) == \E i \in DOMAIN queue : queue[i] = b

\* A process that asked for a sector sleeps, in bget(), on the buffer that has
\* it and is in use; or has a buffer with that sector, to itself: in the queue
\* while it sleeps in iderw(), out of it, valid and clean once bread() returned.
ProcessInv ==
    \A p \in Proc :
        /\ at[p] \notin {"out", "panic"} => want[p] \in Sector
        /\ at[p] = "wait" \/ Has(p) =>
            buf[p] \in Buf /\ busy[buf[p]] /\ sector[buf[p]] = want[p]
        /\ at[p] = "got" => ~Queued(buf[p]) /\ ~dirty[buf[p]]
        /\ at[p] = "io" => Queued(buf[p]) \/ (valid[buf[p]] /\ ~dirty[buf[p]])
        /\ at[p] = "sleep" => Queued(buf[p])
        /\ at[p] = "use" =>
            /\ ~Queued(buf[p]) /\ valid[buf[p]] /\ ~dirty[buf[p]]
            /\ view[p] = data[buf[p]]

OneUser ==
    \A p, q \in Proc : Has(p) /\ Has(q) /\ buf[p] = buf[q] => p = q

OneBuffer ==
    \A b, c \in Buf : sector[b] = sector[c] /\ sector[b] # NoSector => b = c

\* A buffer in use has a user, one in the queue is in use and has something to
\* read or write; a dirty one is valid and in the queue; a clean one agrees
\* with the disk.
BufferInv ==
    \A b \in Buf :
        /\ busy[b] => \E p \in Proc : Using(p, b)
        /\ Queued(b) => busy[b] /\ (valid[b] => dirty[b])
        /\ dirty[b] => valid[b] /\ Queued(b)
        /\ valid[b] => sector[b] \in Sector
        /\ valid[b] /\ ~dirty[b] => data[b] = platter[sector[b]]

DiskInv == current = (IF queue = <<>> THEN NoBuf ELSE Head(queue))

IInv ==
    /\ CacheTypeOK
    /\ ProcessInv /\ OneUser /\ OneBuffer /\ BufferInv /\ DiskInv

-----------------------------------------------------------------------------
\* Appending a new element keeps a sequence free of duplicates.
LEMMA AppendNew ==
    ASSUME NEW T, NEW q \in Seq(T), NEW e \in T,
           IsInjective(q), \A i \in DOMAIN q : q[i] # e
    PROVE  /\ Append(q, e) \in Seq(T) /\ IsInjective(Append(q, e))
           /\ \A x : (\E i \in DOMAIN Append(q, e) : Append(q, e)[i] = x)
                        <=> (\E i \in DOMAIN q : q[i] = x) \/ x = e
           /\ Append(q, e) # <<>>
           /\ Head(Append(q, e)) = (IF q = <<>> THEN e ELSE Head(q))
<1> DEFINE r == Append(q, e)
<1>1. /\ r \in Seq(T) /\ Len(r) = Len(q) + 1 /\ DOMAIN q = 1..Len(q)
      /\ DOMAIN r = 1..(Len(q) + 1) /\ r[Len(q) + 1] = e
      /\ \A i \in 1..Len(q) : r[i] = q[i]
  OBVIOUS
<1>2. IsInjective(r)
  BY <1>1 DEF IsInjective
<1>3. \A x : (\E i \in DOMAIN r : r[i] = x)
                <=> (\E i \in DOMAIN q : q[i] = x) \/ x = e
  <2> TAKE x
  <2>1. ASSUME NEW i \in DOMAIN q, q[i] = x PROVE \E j \in DOMAIN r : r[j] = x
    BY <1>1, <2>1
  <2>2. x = e => \E j \in DOMAIN r : r[j] = x
    BY <1>1
  <2>3. ASSUME NEW j \in DOMAIN r, r[j] = x
        PROVE  (\E i \in DOMAIN q : q[i] = x) \/ x = e
    BY <1>1, <2>3
  <2> QED
    BY <2>1, <2>2, <2>3
<1>4. r # <<>> /\ Head(r) = (IF q = <<>> THEN e ELSE Head(q))
  <2>1. r # <<>> /\ Head(r) = r[1]
    BY <1>1
  <2>2. q = <<>> => Len(q) = 0
    OBVIOUS
  <2>3. q # <<>> => Len(q) >= 1 /\ Head(q) = q[1]
    OBVIOUS
  <2> QED
    BY <1>1, <2>1, <2>2, <2>3
<1> QED
  BY <1>1, <1>2, <1>3, <1>4

\* The rest of a queue without duplicates has all its elements but the head.
LEMMA TailRest ==
    ASSUME NEW T, NEW q \in Seq(T), q # <<>>, IsInjective(q)
    PROVE  /\ Head(q) \in T
           /\ Tail(q) \in Seq(T) /\ IsInjective(Tail(q))
           /\ \A x : (\E i \in DOMAIN Tail(q) : Tail(q)[i] = x)
                        <=> (\E i \in DOMAIN q : q[i] = x) /\ x # Head(q)
           /\ (IF Len(q) = 1 THEN Tail(q) = <<>>
                 ELSE Tail(q) # <<>> /\ Head(Tail(q)) = q[2])
<1> DEFINE r == Tail(q)
<1>1. /\ r \in Seq(T) /\ Len(r) = Len(q) - 1 /\ DOMAIN q = 1..Len(q)
      /\ DOMAIN r = 1..(Len(q) - 1) /\ Len(q) \in Nat /\ Len(q) >= 1
      /\ Head(q) = q[1] /\ Head(q) \in T
      /\ \A i \in 1..(Len(q) - 1) : r[i] = q[i + 1]
  OBVIOUS
<1>2. IsInjective(r)
  BY <1>1 DEF IsInjective
<1>3. \A x : (\E i \in DOMAIN r : r[i] = x)
                <=> (\E i \in DOMAIN q : q[i] = x) /\ x # Head(q)
  <2> TAKE x
  <2>1. ASSUME NEW i \in DOMAIN q, q[i] = x, x # Head(q)
        PROVE  \E j \in DOMAIN r : r[j] = x
    <3>1. i - 1 \in DOMAIN r /\ r[i - 1] = q[i]
      BY <1>1, <2>1
    <3> QED
      BY <3>1, <2>1
  <2>2. ASSUME NEW j \in DOMAIN r, r[j] = x
        PROVE  (\E i \in DOMAIN q : q[i] = x) /\ x # Head(q)
    <3>1. j + 1 \in DOMAIN q /\ q[j + 1] = x /\ 1 \in DOMAIN q /\ j + 1 # 1
      BY <1>1, <2>2
    <3> QED
      BY <1>1, <3>1 DEF IsInjective
  <2> QED
    BY <2>1, <2>2
<1>4. IF Len(q) = 1 THEN r = <<>> ELSE r # <<>> /\ Head(r) = q[2]
  <2> HIDE DEF r
  <2>1. CASE Len(q) = 1
    BY <1>1, <2>1
  <2>2. CASE Len(q) # 1
    <3>1. Len(r) >= 1 /\ r[1] = q[2]
      BY <1>1, <2>2
    <3>2. r # <<>> /\ Head(r) = r[1]
      BY <1>1, <3>1
    <3> QED
      BY <2>2, <3>1, <3>2
  <2> QED
    BY <2>1, <2>2
<1> QED
  BY <1>1, <1>2, <1>3, <1>4

\* brelse() moves a buffer to the front and loses none.
LEMMA FrontPermutes ==
    ASSUME NEW k \in DOMAIN lru,
           lru \in Seq(Buf), IsInjective(lru), ToSet(lru) = Buf
    PROVE  /\ ToFront(k) \in Seq(Buf) /\ IsInjective(ToFront(k))
           /\ ToSet(ToFront(k)) = Buf
<1> DEFINE f == ToFront(k)
           n == Len(lru)
<1>1. /\ n \in Nat /\ DOMAIN lru = 1..n /\ k \in 1..n /\ DOMAIN f = 1..n
      /\ \A i \in 1..n : lru[i] \in Buf
      /\ f \in [1..n -> Buf]
  BY DEF ToFront
<1>2. f \in Seq(Buf)
  BY <1>1
<1>3. /\ f[1] = lru[k]
      /\ \A i \in 2..n : f[i] = IF i <= k THEN lru[i - 1] ELSE lru[i]
  BY <1>1 DEF ToFront
<1>4. IsInjective(f)
  <2> SUFFICES ASSUME NEW i \in 1..n, NEW j \in 1..n, i < j, f[i] = f[j]
               PROVE  FALSE
    BY <1>1 DEF IsInjective
  <2>0. \A x, y \in 1..n : lru[x] = lru[y] => x = y
    BY <1>1 DEF IsInjective
  <2>1. CASE i = 1
    BY <1>1, <1>3, <2>0, <2>1
  <2>2. CASE i # 1
    BY <1>1, <1>3, <2>0, <2>2
  <2> QED
    BY <2>1, <2>2
<1>5. ASSUME NEW b \in Buf PROVE \E i \in 1..n : f[i] = b
  <2>1. PICK j \in 1..n : lru[j] = b
    BY <1>1 DEF ToSet
  <2>2. CASE j = k
    BY <1>1, <1>3, <2>1, <2>2
  <2>3. CASE j < k
    <3>1. j + 1 \in 2..n /\ f[j + 1] = lru[j]
      BY <1>1, <1>3, <2>3
    <3> QED
      BY <2>1, <3>1
  <2>4. CASE j > k
    BY <1>1, <1>3, <2>1, <2>4
  <2> QED
    BY <1>1, <2>2, <2>3, <2>4
<1>6. ToSet(f) = Buf
  BY <1>1, <1>5 DEF ToSet
<1> QED
  BY <1>2, <1>4, <1>6

\* The list of a set has each of its elements once.
LEMMA ListOfBuf ==
    ASSUME BufCacheAssumption
    PROVE  /\ SetToSeq(Buf) \in Seq(Buf) /\ IsInjective(SetToSeq(Buf))
           /\ ToSet(SetToSeq(Buf)) = Buf
<1> DEFINE n == Cardinality(Buf)
           l == SetToSeq(Buf)
<1>1. n \in Nat /\ ExistsBijection(1..n, Buf)
  BY FS_CardinalityType DEF BufCacheAssumption
<1>2. \E f \in [1..n -> Buf] : IsInjective(f)
  BY <1>1 DEF ExistsBijection, Bijection, Injection
<1>3. l \in [1..n -> Buf] /\ IsInjective(l)
  BY <1>2 DEF SetToSeq
<1>4. l \in Seq(Buf)
  BY <1>1, <1>3
<1>5. IsFiniteSet(1..n) /\ Cardinality(1..n) = n
  BY <1>1, FS_Interval
<1>6. l \in Injection(1..n, Buf)
  BY <1>3 DEF Injection
<1>7. l \in Surjection(1..n, Buf)
  BY <1>5, <1>6, FS_Injection DEF BufCacheAssumption
<1>8. ToSet(l) = Buf
  BY <1>3, <1>7 DEF ToSet, Surjection
<1> QED
  BY <1>3, <1>4, <1>8

LEMMA InitInv == CacheInit => IInv
<1> SUFFICES ASSUME CacheInit PROVE IInv
  OBVIOUS
<1>1. CacheTypeOK
  <2>1. lru \in Seq(Buf) /\ IsInjective(lru) /\ ToSet(lru) = Buf
    BY ListOfBuf, BufCacheAssumption DEF CacheInit
  <2>2. queue \in Seq(Buf) /\ IsInjective(queue)
    BY DEF CacheInit, IsInjective
  <2> QED
    BY <2>1, <2>2, BufCacheAssumption DEF CacheInit, CacheTypeOK, Place
<1>2. ProcessInv /\ OneUser
  BY DEF CacheInit, ProcessInv, OneUser, Has
<1>3. OneBuffer /\ BufferInv /\ DiskInv
  BY DEF CacheInit, OneBuffer, BufferInv, DiskInv, Queued
<1> QED
  BY <1>1, <1>2, <1>3 DEF IInv

LEMMA NextInv == IInv /\ [CacheNext]_cachevars => IInv'
<1> SUFFICES ASSUME IInv, [CacheNext]_cachevars PROVE IInv'
  OBVIOUS
<1> USE BufCacheAssumption DEF IInv
<1>1. ASSUME NEW p \in Proc, NEW s \in Sector, Bread(p, s) PROVE IInv'
  <2>1. CacheTypeOK'
    BY <1>1 DEF Bread, CacheTypeOK, Place, Goto, bufs
  <2>2. ProcessInv'
    BY <1>1 DEF Bread, CacheTypeOK, Place, Goto, bufs, ProcessInv, BufferInv, OneUser, Has, Queued
  <2>3. OneUser'
    BY <1>1 DEF Bread, CacheTypeOK, Goto, bufs, ProcessInv, BufferInv, OneUser, Has
  <2>4. OneBuffer'
    BY <1>1 DEF Bread, CacheTypeOK, bufs, OneBuffer
  <2>5. BufferInv'
    BY <1>1 DEF Bread, CacheTypeOK, Goto, bufs, ProcessInv, BufferInv, Queued, Using, Has
  <2>6. DiskInv'
    BY <1>1 DEF Bread, DiskInv
  <2> QED
    BY <2>1, <2>2, <2>3, <2>4, <2>5, <2>6
<1>2. ASSUME NEW p \in Proc, NEW b \in Buf, Hit(p, b) PROVE IInv'
  <2>1. CacheTypeOK'
    BY <1>2 DEF Hit, CacheTypeOK, Place, Goto, bufs, Cached
  <2>2. ProcessInv'
    BY <1>2 DEF Hit, CacheTypeOK, Place, Goto, bufs, ProcessInv, BufferInv, OneUser, Has, Queued, Cached
  <2>3. OneUser'
    BY <1>2 DEF Hit, CacheTypeOK, Goto, bufs, ProcessInv, BufferInv, OneUser, Has, Cached
  <2>4. OneBuffer'
    BY <1>2 DEF Hit, CacheTypeOK, bufs, OneBuffer, Cached
  <2>5. BufferInv'
    BY <1>2 DEF Hit, CacheTypeOK, Goto, bufs, ProcessInv, BufferInv, Queued, Using, Has, Cached
  <2>6. DiskInv'
    BY <1>2 DEF Hit, DiskInv, Cached
  <2> QED
    BY <2>1, <2>2, <2>3, <2>4, <2>5, <2>6
<1>3. ASSUME NEW p \in Proc, NEW b \in Buf, HitBusy(p, b) PROVE IInv'
  <2>1. CacheTypeOK'
    BY <1>3 DEF HitBusy, CacheTypeOK, Place, Goto, bufs, Cached
  <2>2. ProcessInv'
    BY <1>3 DEF HitBusy, CacheTypeOK, Place, Goto, bufs, ProcessInv, BufferInv, OneUser, Has, Queued, Cached
  <2>3. OneUser'
    BY <1>3 DEF HitBusy, CacheTypeOK, Goto, bufs, ProcessInv, BufferInv, OneUser, Has, Cached
  <2>4. OneBuffer'
    BY <1>3 DEF HitBusy, CacheTypeOK, bufs, OneBuffer, Cached
  <2>5. BufferInv'
    BY <1>3 DEF HitBusy, CacheTypeOK, Goto, bufs, ProcessInv, BufferInv, Queued, Using, Has, Cached
  <2>6. DiskInv'
    BY <1>3 DEF HitBusy, DiskInv, Cached
  <2> QED
    BY <2>1, <2>2, <2>3, <2>4, <2>5, <2>6
<1>4. ASSUME NEW p \in Proc, Miss(p) PROVE IInv'
  <2>0. PICK b \in Buf :
           /\ ~busy[b]
           /\ sector' = [sector EXCEPT ![b] = want[p]]
           /\ busy' = [busy EXCEPT ![b] = TRUE]
           /\ valid' = [valid EXCEPT ![b] = FALSE]
           /\ dirty' = [dirty EXCEPT ![b] = FALSE]
           /\ buf' = [buf EXCEPT ![p] = b]
    BY <1>4 DEF Miss, LeastRecent
  <2>a. /\ at[p] = "scan" /\ at' = [at EXCEPT ![p] = "got"]
        /\ \A c \in Buf : sector[c] # want[p]
        /\ UNCHANGED <<data, lru, queue, current, platter, want, view>>
    BY <1>4 DEF Miss, Goto, Cached
  <2>b. want[p] \in Sector
    BY <2>a DEF ProcessInv
  \* Nobody stands at a buffer that is not in use.
  <2>c. ~Queued(b) /\ \A q \in Proc : at[q] = "wait" \/ Has(q) => buf[q] # b
    BY <2>0 DEF ProcessInv, BufferInv
  <2>1. CacheTypeOK'
    BY <2>0, <2>a, <2>b DEF CacheTypeOK, Place
  <2>2. ProcessInv'
    <3> SUFFICES ASSUME NEW q \in Proc
                 PROVE  ProcessInv!(q)'
      BY DEF ProcessInv
    <3>1. CASE q = p
      BY <2>0, <2>a, <2>b, <2>c, <3>1 DEF CacheTypeOK, Has, Queued
    <3>2. CASE q # p
      BY <2>0, <2>a, <2>c, <3>2 DEF CacheTypeOK, Has, Queued, ProcessInv
    <3> QED
      BY <3>1, <3>2
  <2>3. OneUser'
    <3>1. \A q \in Proc \ {p} : Has(q)' => Has(q) /\ buf'[q] = buf[q] /\ buf[q] # b
      BY <2>0, <2>a, <2>c DEF CacheTypeOK, Has
    <3>2. buf'[p] = b
      BY <2>0 DEF CacheTypeOK
    <3> QED
      BY <3>1, <3>2 DEF OneUser
  <2>4. OneBuffer'
    BY <2>0, <2>a DEF CacheTypeOK, OneBuffer
  <2>5. BufferInv'
    BY <2>0, <2>a, <2>b, <2>c DEF CacheTypeOK, BufferInv, Queued, Using, Has
  <2>6. DiskInv'
    BY <2>a DEF DiskInv
  <2> QED
    BY <2>1, <2>2, <2>3, <2>4, <2>5, <2>6
<1>5. ASSUME NEW p \in Proc, NoBuffers(p) PROVE IInv'
  <2>1. CacheTypeOK'
    BY <1>5 DEF NoBuffers, CacheTypeOK, Place, Goto, bufs
  <2>2. ProcessInv'
    BY <1>5 DEF NoBuffers, CacheTypeOK, Place, Goto, bufs, ProcessInv, BufferInv, OneUser, Has, Queued
  <2>3. OneUser'
    BY <1>5 DEF NoBuffers, CacheTypeOK, Goto, bufs, ProcessInv, BufferInv, OneUser, Has
  <2>4. OneBuffer'
    BY <1>5 DEF NoBuffers, CacheTypeOK, bufs, OneBuffer
  <2>5. BufferInv'
    BY <1>5 DEF NoBuffers, CacheTypeOK, Goto, bufs, ProcessInv, BufferInv, Queued, Using, Has
  <2>6. DiskInv'
    BY <1>5 DEF NoBuffers, DiskInv
  <2> QED
    BY <2>1, <2>2, <2>3, <2>4, <2>5, <2>6
<1>6. ASSUME NEW p \in Proc, BreadCached(p) PROVE IInv'
  <2>1. CacheTypeOK'
    BY <1>6 DEF BreadCached, CacheTypeOK, Place, Goto, bufs, ProcessInv, Has, See
  <2>2. ProcessInv'
    BY <1>6 DEF BreadCached, CacheTypeOK, Place, Goto, bufs, ProcessInv, BufferInv, OneUser, Has, Queued, See
  <2>3. OneUser'
    BY <1>6 DEF BreadCached, CacheTypeOK, Goto, bufs, ProcessInv, BufferInv, OneUser, Has, See
  <2>4. OneBuffer'
    BY <1>6 DEF BreadCached, CacheTypeOK, bufs, OneBuffer, See
  <2>5. BufferInv'
    BY <1>6 DEF BreadCached, CacheTypeOK, Goto, bufs, ProcessInv, BufferInv, Queued, Using, Has, See
  <2>6. DiskInv'
    BY <1>6 DEF BreadCached, DiskInv, See
  <2> QED
    BY <2>1, <2>2, <2>3, <2>4, <2>5, <2>6
<1>7. ASSUME NEW p \in Proc, BreadDisk(p) PROVE IInv'
  \* The buffer was not in the queue: now it is, at the end of it.
  <2>a. /\ buf[p] \in Buf /\ ~Queued(buf[p])
        /\ queue' = Append(queue, buf[p]) /\ at' = [at EXCEPT ![p] = "sleep"]
        /\ current' = IF queue = <<>> THEN buf[p] ELSE current
    BY <1>7 DEF BreadDisk, Enqueue, Goto, ProcessInv, Has
  <2>b. /\ queue' \in Seq(Buf) /\ IsInjective(queue')
        /\ \A b : Queued(b)' <=> Queued(b) \/ b = buf[p]
        /\ queue' # <<>> /\ Head(queue') = (IF queue = <<>> THEN buf[p] ELSE Head(queue))
    <3>1. queue \in Seq(Buf) /\ IsInjective(queue) /\ \A i \in DOMAIN queue : queue[i] # buf[p]
      BY <2>a DEF CacheTypeOK, Queued
    <3> QED
      BY <2>a, <3>1, AppendNew DEF Queued
  <2>1. CacheTypeOK'
    BY <1>7, <2>a, <2>b DEF BreadDisk, CacheTypeOK, Place, bufs
  <2>c. at[p] = "got" /\ ~valid[buf[p]] /\ UNCHANGED <<bufs, lru, platter, want, buf, view>>
    BY <1>7 DEF BreadDisk
  <2>2. ProcessInv'
    BY <2>a, <2>b, <2>c DEF CacheTypeOK, bufs, ProcessInv, OneUser, Has
  <2>3. OneUser'
    BY <2>a, <2>c DEF CacheTypeOK, OneUser, Has
  <2>4. OneBuffer'
    BY <2>c DEF bufs, OneBuffer
  <2>5. BufferInv'
    BY <2>a, <2>b, <2>c DEF CacheTypeOK, bufs, ProcessInv, BufferInv, Using, Has
  <2>6. DiskInv'
    BY <2>a, <2>b DEF DiskInv
  <2> QED
    BY <2>1, <2>2, <2>3, <2>4, <2>5, <2>6
<1>8. ASSUME NEW p \in Proc, NEW v \in Value, Bwrite(p, v) PROVE IInv'
  \* The buffer was not in the queue: now it is, at the end of it.
  <2>a. /\ buf[p] \in Buf /\ ~Queued(buf[p])
        /\ queue' = Append(queue, buf[p]) /\ at' = [at EXCEPT ![p] = "sleep"]
        /\ current' = IF queue = <<>> THEN buf[p] ELSE current
    BY <1>8 DEF Bwrite, Enqueue, Goto, ProcessInv, Has
  <2>b. /\ queue' \in Seq(Buf) /\ IsInjective(queue')
        /\ \A b : Queued(b)' <=> Queued(b) \/ b = buf[p]
        /\ queue' # <<>> /\ Head(queue') = (IF queue = <<>> THEN buf[p] ELSE Head(queue))
    <3>1. queue \in Seq(Buf) /\ IsInjective(queue) /\ \A i \in DOMAIN queue : queue[i] # buf[p]
      BY <2>a DEF CacheTypeOK, Queued
    <3> QED
      BY <2>a, <3>1, AppendNew DEF Queued
  <2>1. CacheTypeOK'
    BY <1>8, <2>a, <2>b DEF Bwrite, CacheTypeOK, Place, bufs
  <2>c. /\ at[p] = "use" /\ UNCHANGED <<sector, busy, valid, lru, platter, want, buf>>
        /\ data' = [data EXCEPT ![buf[p]] = v]
        /\ dirty' = [dirty EXCEPT ![buf[p]] = TRUE]
        /\ view' = [view EXCEPT ![p] = v]
    BY <1>8 DEF Bwrite
  <2>d. valid[buf[p]] /\ busy[buf[p]] /\ \A q \in Proc \ {p} : Has(q) => buf[q] # buf[p]
    BY <2>c DEF ProcessInv, OneUser, Has
  <2>2. ProcessInv'
    <3> SUFFICES ASSUME NEW q \in Proc
                 PROVE  ProcessInv!(q)'
      BY DEF ProcessInv
    <3>1. CASE q = p
      <4>1. at'[p] = "sleep" /\ Queued(buf[p])'
        BY <2>a, <2>b, <2>c DEF CacheTypeOK
      <4>2. want[p] \in Sector /\ sector[buf[p]] = want[p]
        BY <2>c DEF ProcessInv, Has
      <4> QED
        BY <2>a, <2>c, <2>d, <3>1, <4>1, <4>2
    <3>2. CASE q # p
      BY <2>a, <2>b, <2>c, <2>d, <3>2 DEF CacheTypeOK, Has, ProcessInv
    <3> QED
      BY <3>1, <3>2
  <2>3. OneUser'
    BY <2>a, <2>c DEF CacheTypeOK, OneUser, Has
  <2>4. OneBuffer'
    BY <2>c DEF OneBuffer
  <2>5. BufferInv'
    <3>1. \A b \in Buf : busy[b] => \E q \in Proc : Using(q, b)'
      BY <2>a, <2>c DEF CacheTypeOK, BufferInv, Using
    <3> QED
      BY <2>a, <2>b, <2>c, <2>d, <3>1 DEF CacheTypeOK, BufferInv
  <2>6. DiskInv'
    BY <2>a, <2>b DEF DiskInv
  <2> QED
    BY <2>1, <2>2, <2>3, <2>4, <2>5, <2>6
<1>9. ASSUME NEW p \in Proc, IoDone(p) PROVE IInv'
  <2>1. CacheTypeOK'
    BY <1>9 DEF IoDone, CacheTypeOK, Place, Goto, bufs, ProcessInv, Has, See
  <2>2. ProcessInv'
    BY <1>9 DEF IoDone, CacheTypeOK, Place, Goto, bufs, ProcessInv, BufferInv, OneUser, Has, Queued, See
  <2>3. OneUser'
    BY <1>9 DEF IoDone, CacheTypeOK, Goto, bufs, ProcessInv, BufferInv, OneUser, Has, See
  <2>4. OneBuffer'
    BY <1>9 DEF IoDone, CacheTypeOK, bufs, OneBuffer, See
  <2>5. BufferInv'
    BY <1>9 DEF IoDone, CacheTypeOK, Goto, bufs, ProcessInv, BufferInv, Queued, Using, Has, See
  <2>6. DiskInv'
    BY <1>9 DEF IoDone, DiskInv, See
  <2> QED
    BY <2>1, <2>2, <2>3, <2>4, <2>5, <2>6
<1>10. ASSUME NEW p \in Proc, IoWait(p) PROVE IInv'
  <2>1. CacheTypeOK'
    BY <1>10 DEF IoWait, CacheTypeOK, Place, Goto, bufs
  <2>2. ProcessInv'
    BY <1>10 DEF IoWait, CacheTypeOK, Place, Goto, bufs, ProcessInv, BufferInv, OneUser, Has, Queued
  <2>3. OneUser'
    BY <1>10 DEF IoWait, CacheTypeOK, Goto, bufs, ProcessInv, BufferInv, OneUser, Has
  <2>4. OneBuffer'
    BY <1>10 DEF IoWait, CacheTypeOK, bufs, OneBuffer
  <2>5. BufferInv'
    BY <1>10 DEF IoWait, CacheTypeOK, Goto, bufs, ProcessInv, BufferInv, Queued, Using, Has
  <2>6. DiskInv'
    BY <1>10 DEF IoWait, DiskInv
  <2> QED
    BY <2>1, <2>2, <2>3, <2>4, <2>5, <2>6
<1>11. ASSUME NEW p \in Proc, Brelse(p) PROVE IInv'
  <2>a. /\ at[p] = "use" /\ buf[p] \in Buf
        /\ \E k \in DOMAIN lru : lru' = ToFront(k)
        /\ busy' = [busy EXCEPT ![buf[p]] = FALSE]
        /\ buf' = [buf EXCEPT ![p] = NoBuf] /\ want' = [want EXCEPT ![p] = NoSector]
        /\ view' = [view EXCEPT ![p] = Blank]
        /\ at' = [q \in Proc |->
                    IF q = p THEN "out"
                    ELSE IF buf[q] = buf[p] /\ at[q] = "wait" THEN "scan"
                    ELSE IF buf[q] = buf[p] /\ at[q] = "sleep" THEN "io" ELSE at[q]]
        /\ UNCHANGED <<sector, valid, dirty, data, queue, current, platter>>
    BY <1>11 DEF Brelse, WakeAnd, ProcessInv, Has
  \* Nobody else has the buffer.
  <2>b. ~Queued(buf[p]) /\ \A q \in Proc \ {p} : Has(q) => buf[q] # buf[p]
    BY <2>a DEF ProcessInv, OneUser, Has
  <2>1. CacheTypeOK'
    <3>1. lru' \in Seq(Buf) /\ IsInjective(lru') /\ ToSet(lru') = Buf
      BY <2>a, FrontPermutes DEF CacheTypeOK
    <3> QED
      BY <2>a, <3>1 DEF CacheTypeOK, Place
  <2>2. ProcessInv'
    <3> SUFFICES ASSUME NEW q \in Proc
                 PROVE  ProcessInv!(q)'
      BY DEF ProcessInv
    <3>1. CASE q = p
      BY <2>a, <3>1 DEF CacheTypeOK, Has
    <3>2. CASE q # p
      BY <2>a, <2>b, <3>2 DEF CacheTypeOK, Has, ProcessInv, Queued
    <3> QED
      BY <3>1, <3>2
  <2>3. OneUser'
    BY <2>a, <2>b DEF CacheTypeOK, OneUser, Has
  <2>4. OneBuffer'
    BY <2>a DEF OneBuffer
  <2>5. BufferInv'
    <3>1. ASSUME NEW b \in Buf, busy'[b] PROVE \E q \in Proc : Using(q, b)'
      <4>1. b # buf[p] /\ busy[b]
        BY <2>a, <3>1 DEF CacheTypeOK
      <4>2. PICK q \in Proc : Using(q, b)
        BY <4>1 DEF BufferInv
      <4>3. q # p /\ at[q] # "sleep" => at'[q] = at[q]
        BY <2>a, <4>1, <4>2 DEF CacheTypeOK, Using
      <4>4. q # p /\ buf'[q] = b
        BY <2>a, <4>1, <4>2 DEF CacheTypeOK, Using
      <4>5. at'[q] \in {"got", "io", "sleep", "use"}
        BY <2>a, <4>1, <4>2, <4>4 DEF CacheTypeOK, Using
      <4> QED
        BY <4>4, <4>5 DEF Using
    <3> QED
      BY <2>a, <2>b, <3>1 DEF CacheTypeOK, BufferInv, Queued
  <2>6. DiskInv'
    BY <2>a DEF DiskInv
  <2> QED
    BY <2>1, <2>2, <2>3, <2>4, <2>5, <2>6
<1>12. ASSUME NEW p \in Proc, Kill(p) PROVE IInv'
  <2>1. CacheTypeOK'
    BY <1>12 DEF Kill, CacheTypeOK, Place, Goto, bufs
  <2>2. ProcessInv'
    BY <1>12 DEF Kill, CacheTypeOK, Place, Goto, bufs, ProcessInv, BufferInv, OneUser, Has, Queued
  <2>3. OneUser'
    BY <1>12 DEF Kill, CacheTypeOK, Goto, bufs, ProcessInv, BufferInv, OneUser, Has
  <2>4. OneBuffer'
    BY <1>12 DEF Kill, CacheTypeOK, bufs, OneBuffer
  <2>5. BufferInv'
    BY <1>12 DEF Kill, CacheTypeOK, Goto, bufs, ProcessInv, BufferInv, Queued, Using, Has
  <2>6. DiskInv'
    BY <1>12 DEF Kill, DiskInv
  <2> QED
    BY <2>1, <2>2, <2>3, <2>4, <2>5, <2>6
<1>13. ASSUME Ideintr PROVE IInv'
  <2> DEFINE b == Head(queue)
  <2>a. /\ queue # <<>> /\ Transfer(b)
        /\ valid' = [valid EXCEPT ![b] = TRUE] /\ dirty' = [dirty EXCEPT ![b] = FALSE]
        /\ queue' = Tail(queue)
        /\ current' = IF Len(queue) = 1 THEN NoBuf ELSE queue[2]
        /\ at' = [q \in Proc |->
                    IF buf[q] = b /\ at[q] = "wait" THEN "scan"
                    ELSE IF buf[q] = b /\ at[q] = "sleep" THEN "io" ELSE at[q]]
        /\ UNCHANGED <<sector, busy, lru, want, buf, view>>
    BY <1>13 DEF Ideintr, WakeAnd
  <2>b. /\ b \in Buf /\ Queued(b)
        /\ queue' \in Seq(Buf) /\ IsInjective(queue')
        /\ \A c : Queued(c)' <=> Queued(c) /\ c # b
        /\ IF Len(queue) = 1 THEN queue' = <<>>
             ELSE queue' # <<>> /\ Head(queue') = queue[2]
    <3>1. queue \in Seq(Buf) /\ IsInjective(queue) /\ queue # <<>>
      BY <2>a DEF CacheTypeOK
    <3>2. Queued(b)
      BY <3>1 DEF Queued
    <3>3. /\ Tail(queue) \in Seq(Buf) /\ IsInjective(Tail(queue)) /\ b \in Buf
          /\ \A c : (\E i \in DOMAIN Tail(queue) : Tail(queue)[i] = c)
                       <=> (\E i \in DOMAIN queue : queue[i] = c) /\ c # b
          /\ IF Len(queue) = 1 THEN Tail(queue) = <<>>
                ELSE Tail(queue) # <<>> /\ Head(Tail(queue)) = queue[2]
      BY <3>1, TailRest
    <3>4. \A c : Queued(c)' <=> Queued(c) /\ c # b
      BY <2>a, <3>3 DEF Queued
    <3> QED
      BY <2>a, <3>2, <3>3, <3>4
  <2> HIDE DEF b
  \* It is in use: it has a sector, and no other buffer has that sector.
  <2>c. /\ busy[b] /\ sector[b] \in Sector
        /\ \A c \in Buf \ {b} : sector[c] # sector[b]
    <3>1. PICK q \in Proc : Using(q, b)
      BY <2>b DEF BufferInv
    <3>2. sector[b] \in Sector
      BY <3>1 DEF ProcessInv, Using, Has
    <3> QED
      BY <2>b, <3>2 DEF BufferInv, OneBuffer
  \* Afterwards it agrees with the disk; nothing else changed.
  <2> DEFINE Agrees ==
        /\ data' \in [Buf -> Value] /\ platter' \in [Sector -> Value]
        /\ data'[b] = platter'[sector[b]]
        /\ \A c \in Buf \ {b} : data'[c] = data[c]
        /\ \A s \in Sector : s # sector[b] => platter'[s] = platter[s]
  <2>d. Agrees
    <3>0. data \in [Buf -> Value] /\ platter \in [Sector -> Value]
      BY DEF CacheTypeOK
    <3>1. ASSUME platter' = [platter EXCEPT ![sector[b]] = data[b]], UNCHANGED data
          PROVE  Agrees
      BY <2>b, <2>c, <3>0, <3>1
    <3>2. ASSUME data' = [data EXCEPT ![b] = platter[sector[b]]], UNCHANGED platter
          PROVE  Agrees
      BY <2>b, <2>c, <3>0, <3>2
    <3> QED
      BY <2>a, <3>1, <3>2 DEF Transfer
  <2>1. CacheTypeOK'
    <3>1. current' \in Buf \cup {NoBuf}
      BY <2>a, <2>b DEF CacheTypeOK
    <3> QED
      BY <2>a, <2>b, <2>d, <3>1 DEF CacheTypeOK, Place
  <2>2. ProcessInv'
    <3> SUFFICES ASSUME NEW q \in Proc
                 PROVE  ProcessInv!(q)'
      BY DEF ProcessInv
    <3>1. CASE buf[q] = b
      BY <2>a, <2>b, <2>d, <3>1 DEF CacheTypeOK, Has, ProcessInv
    <3>2. CASE buf[q] # b
      BY <2>a, <2>b, <2>d, <3>2 DEF CacheTypeOK, Has, ProcessInv
    <3> QED
      BY <3>1, <3>2
  <2>3. OneUser'
    BY <2>a DEF CacheTypeOK, OneUser, Has
  <2>4. OneBuffer'
    BY <2>a DEF OneBuffer
  <2>5. BufferInv'
    <3>0. \A q \in Proc, c \in Buf : Using(q, c) => Using(q, c)'
      BY <2>a DEF CacheTypeOK, Using
    <3>1. \A c \in Buf : busy[c] => \E q \in Proc : Using(q, c)'
      BY <3>0 DEF BufferInv
    <3> SUFFICES ASSUME NEW c \in Buf
                 PROVE  BufferInv!(c)'
      BY DEF BufferInv
    <3>2. CASE c = b
      BY <2>a, <2>b, <2>c, <2>d, <3>1, <3>2 DEF CacheTypeOK
    <3>3. CASE c # b
      BY <2>a, <2>b, <2>c, <2>d, <3>1, <3>3 DEF CacheTypeOK, BufferInv
    <3> QED
      BY <3>2, <3>3
  <2>6. DiskInv'
    BY <2>a, <2>b DEF DiskInv
  <2> QED
    BY <2>1, <2>2, <2>3, <2>4, <2>5, <2>6
<1>14. ASSUME UNCHANGED cachevars PROVE IInv'
  BY <1>14 DEF cachevars, CacheTypeOK, ProcessInv, OneUser, OneBuffer, BufferInv, DiskInv,
     Has, Queued, Using
<1> QED
  <2>1. CASE Ideintr
    BY <1>13, <2>1
  <2>2. ASSUME NEW p \in Proc, Work(p) PROVE IInv'
    BY <1>2, <1>3, <1>4, <1>5, <1>6, <1>7, <1>9, <1>10, <2>2 DEF Work
  <2> QED
    BY <1>1, <1>8, <1>11, <1>12, <1>14, <2>1, <2>2 DEF CacheNext

-----------------------------------------------------------------------------
THEOREM Invariant == CacheSpec => []IInv
BY InitInv, NextInv, PTL DEF CacheSpec

\* Every state of the cache is a record of buffers, a list of all of them in
\* some order, a queue without duplicates and a label for each process.
THEOREM TypeCorrect == CacheSpec => []CacheTypeOK
<1>1. IInv => CacheTypeOK
  BY DEF IInv
<1> QED
  BY <1>1, Invariant, PTL

\* No sector is ever in two buffers, a buffer is in use exactly when one
\* process has it, and a buffer that is valid and clean agrees with the disk:
\* bget() may recycle any buffer that is not in use, and panics only when each
\* buffer has a process that will release it (bio.c:53-90).
THEOREM BuffersAreSound == CacheSpec => []BuffersSound
<1>1. IInv => BuffersSound
  <2> SUFFICES ASSUME IInv PROVE BuffersSound
    OBVIOUS
  <2> USE DEF IInv
  <2>1. \A s \in Sector : \A b, c \in Cached(s) : b = c
    BY BufCacheAssumption DEF OneBuffer, Cached
  <2>2. ASSUME NEW b \in Buf, busy[b]
        PROVE  \E p \in Proc : {q \in Proc : Using(q, b)} = {p}
    <3>1. PICK p \in Proc : Using(p, b)
      BY <2>2 DEF BufferInv
    <3>2. \A q \in Proc : Using(q, b) => q = p
      BY <3>1 DEF OneUser, Using, Has
    <3> QED
      BY <3>1, <3>2
  <2>3. ASSUME NEW b \in Buf, NEW p \in Proc,
               {q \in Proc : Using(q, b)} = {p}
        PROVE  busy[b]
    <3>1. Using(p, b)
      BY <2>3
    <3> QED
      BY <3>1 DEF ProcessInv, Using, Has
  <2>4. busy \in [Buf -> BOOLEAN]
    BY DEF CacheTypeOK
  <2>5. NoAlias
    BY <2>1, <2>2, <2>3, <2>4 DEF NoAlias
  <2>6. CleanMatchesDisk
    BY DEF BufferInv, CleanMatchesDisk
  <2> QED
    BY <2>5, <2>6 DEF BuffersSound
<1> QED
  BY <1>1, Invariant, PTL

\* A process asleep in bget() sleeps on a buffer somebody will release, and one
\* asleep in iderw() has its buffer in the queue the disk works through: no
\* wakeup is missed (bio.c:62-70, ide.c:140-153).
THEOREM SleepersAreServed == CacheSpec => []SleepersServed
<1>1. IInv => SleepersServed
  <2> SUFFICES ASSUME IInv PROVE SleepersServed
    OBVIOUS
  <2>1. \A p \in Proc : at[p] = "sleep" => buf[p] \in ToSet(queue)
    BY DEF IInv, ProcessInv, Queued, ToSet
  <2> QED
    BY <2>1 DEF IInv, ProcessInv, DiskInv, SleepersServed
<1> QED
  BY <1>1, Invariant, PTL

-----------------------------------------------------------------------------
(* The refinement *)

\* What the mapping shows: a sector holds what its valid buffer holds, or what
\* the disk holds when it has none, and belongs to the process that has its
\* buffer.
Mapped ==
    /\ Blocks \in [Sector -> Value]
    /\ \A b \in Buf : sector[b] \in Sector =>
        Blocks[sector[b]] = IF valid[b] THEN data[b] ELSE platter[sector[b]]
    /\ \A s \in Sector : (\A b \in Buf : sector[b] # s) => Blocks[s] = platter[s]
    /\ Users \in [Sector -> Proc \cup {NoProc}]
    /\ \A s \in Sector, p \in Proc : Users[s] = p <=> Has(p) /\ want[p] = s

LEMMA Mapping == IInv => Mapped
<1> SUFFICES ASSUME IInv PROVE Mapped
  OBVIOUS
<1> USE BufCacheAssumption DEF IInv
<1>1. ASSUME NEW b \in Buf, sector[b] \in Sector
      PROVE  BlockOf(sector[b]) = IF valid[b] THEN data[b] ELSE platter[sector[b]]
  <2>1. Cached(sector[b]) = {b}
    BY <1>1 DEF OneBuffer, Cached
  <2> QED
    BY <2>1 DEF BlockOf
<1>2. ASSUME NEW s \in Sector, \A b \in Buf : sector[b] # s
      PROVE  BlockOf(s) = platter[s]
  BY <1>2 DEF BlockOf, Cached
<1>3. ASSUME NEW s \in Sector, NEW p \in Proc
      PROVE  (\E b \in Cached(s) : Using(p, b)) <=> Has(p) /\ want[p] = s
  BY DEF ProcessInv, Using, Has, Cached
<1>4. ASSUME NEW s \in Sector, NEW p \in Proc, NEW q \in Proc,
             Has(p) /\ want[p] = s, Has(q) /\ want[q] = s
      PROVE  p = q
  BY <1>4 DEF ProcessInv, OneUser, OneBuffer
<1>5. ASSUME NEW s \in Sector
      PROVE  /\ \A p \in Proc : User(s) = p <=> Has(p) /\ want[p] = s
             /\ User(s) \in Proc \cup {NoProc}
  <2> DEFINE P(p) == \E b \in Cached(s) : Using(p, b)
  <2>1. User(s) = IF \E p \in Proc : P(p) THEN CHOOSE p \in Proc : P(p) ELSE NoProc
    BY DEF User
  <2>2. \A p \in Proc : P(p) <=> Has(p) /\ want[p] = s
    BY <1>3
  <2>3. \A p, q \in Proc : P(p) /\ P(q) => p = q
    BY <1>4, <2>2
  <2> HIDE DEF P
  <2> QED
    BY <2>1, <2>2, <2>3
<1>6. ASSUME NEW s \in Sector PROVE BlockOf(s) \in Value
  <2>1. CASE \E b \in Buf : sector[b] = s
    BY <1>1, <2>1 DEF CacheTypeOK
  <2>2. CASE \A b \in Buf : sector[b] # s
    BY <1>2, <2>2 DEF CacheTypeOK
  <2> QED
    BY <2>1, <2>2
<1> QED
  BY <1>1, <1>2, <1>5, <1>6 DEF Mapped, Blocks, Users

\* The cache implements the block store: each step of bget(), iderw(),
\* brelse() and of the disk's interrupt is a step of the store, or none that
\* it shows; "only one process at a time can use a buffer" (bio.c:13), and it
\* sees what was last written to its block, whichever buffers held it since.
THEOREM BlockStoreImplemented == CacheSpec => ImplementsBlockStore
<1> USE BufCacheAssumption
<1>1. CacheInit => S!Init
  BY DEF CacheInit, S!Init, Blocks, Users, BlockOf, User, Cached, Using
<1>2. IInv /\ Mapped /\ Mapped' /\ [CacheNext]_cachevars => [S!Next]_<<Blocks, Users, view>>
  <2> SUFFICES ASSUME IInv, Mapped, Mapped', [CacheNext]_cachevars
               PROVE  S!Next \/ UNCHANGED <<Blocks, Users, view>>
    OBVIOUS
  <2> USE DEF IInv
  \* A step that moves no process to or from a buffer leaves the users alone.
  <2>k. ASSUME \A p \in Proc, s \in Sector :
                  Has(p) /\ want[p] = s <=> Has(p)' /\ want'[p] = s
        PROVE  UNCHANGED Users
    <3>1. ASSUME NEW s \in Sector PROVE Users'[s] = Users[s]
      <4>1. \A p \in Proc : Users[s] = p <=> Users'[s] = p
        BY <2>k DEF Mapped
      <4>2. Users[s] \in Proc \cup {NoProc} /\ Users'[s] \in Proc \cup {NoProc}
        BY DEF Mapped
      <4> QED
        BY <4>1, <4>2
    <3> QED
      BY <3>1 DEF Mapped
  \* One that changes no buffer leaves the blocks alone.
  <2>l. ASSUME UNCHANGED <<sector, valid, data, platter>> PROVE UNCHANGED Blocks
    BY <2>l DEF Blocks, BlockOf, Cached
  \* bget() gives p a buffer that was not in use.
  <2>m. ASSUME NEW p \in Proc, at[p] = "scan", Has(p)', want' = want,
               \A q \in Proc \ {p} : Has(q)' <=> Has(q),
               \A b \in Buf : sector[b] = want[p] => ~busy[b]
        PROVE  /\ want[p] \in Sector /\ Users[want[p]] = NoProc
               /\ Users' = [Users EXCEPT ![want[p]] = p]
    <3>1. want[p] \in Sector
      BY <2>m DEF ProcessInv
    <3>2. Users[want[p]] = NoProc
      <4>1. \A q \in Proc : Has(q) => want[q] # want[p]
        BY <2>m DEF ProcessInv
      <4> QED
        BY <3>1, <4>1 DEF Mapped
    <3>3. Users'[want[p]] = p
      BY <2>m, <3>1 DEF Mapped
    <3>4. ASSUME NEW s \in Sector, s # want[p] PROVE Users'[s] = Users[s]
      <4>1. \A q \in Proc : Has(q) /\ want[q] = s <=> Has(q)' /\ want'[q] = s
        BY <2>m, <3>4
      <4>2. \A q \in Proc : Users[s] = q <=> Users'[s] = q
        BY <4>1 DEF Mapped
      <4> QED
        BY <4>2 DEF Mapped
    <3> QED
      BY <3>1, <3>2, <3>3, <3>4 DEF Mapped
  \* bread() has read the block: it sees what the store holds.
  <2>n. ASSUME NEW p \in Proc, Has(p), valid[buf[p]], Has(p)', See(p),
               \A q \in Proc \ {p} : Has(q)' <=> Has(q),
               UNCHANGED <<sector, valid, data, platter, want, buf>>
        PROVE  S!Next
    <3>1. /\ buf[p] \in Buf /\ sector[buf[p]] = want[p] /\ want[p] \in Sector
      BY <2>n DEF ProcessInv, Has
    <3>2. Users[want[p]] = p /\ Blocks[want[p]] = data[buf[p]]
      BY <2>n, <3>1 DEF Mapped
    <3>3. UNCHANGED Users
      BY <2>k, <2>n
    <3>4. UNCHANGED Blocks
      BY <2>l, <2>n
    <3>5. S!Fetch(p, want[p])
      BY <2>n, <3>2, <3>3, <3>4 DEF S!Fetch, See
    <3> QED
      BY <3>1, <3>5 DEF S!Next
  <2>1. ASSUME NEW p \in Proc, NEW s \in Sector, Bread(p, s)
        PROVE  UNCHANGED <<Blocks, Users, view>>
    <3>1. UNCHANGED Users
      BY <2>1, <2>k DEF Bread, Goto, CacheTypeOK, Has
    <3> QED
      BY <2>1, <2>l, <3>1 DEF Bread, bufs
  <2>2. ASSUME NEW p \in Proc, NEW b \in Buf, Hit(p, b) PROVE S!Next
    <3>1. UNCHANGED Blocks /\ view' = view
      BY <2>2, <2>l DEF Hit
    <3>2. \A c \in Buf : sector[c] = want[p] => ~busy[c]
      BY <2>2 DEF Hit, Cached, OneBuffer, ProcessInv
    <3>3. want[p] \in Sector /\ Users[want[p]] = NoProc
          /\ Users' = [Users EXCEPT ![want[p]] = p]
      BY <2>2, <2>m, <3>2 DEF Hit, Goto, CacheTypeOK, Has
    <3> QED
      BY <3>1, <3>3 DEF S!Next, S!Claim
  <2>3. ASSUME NEW p \in Proc, NEW b \in Buf, HitBusy(p, b)
        PROVE  UNCHANGED <<Blocks, Users, view>>
    <3>1. UNCHANGED Users
      BY <2>3, <2>k DEF HitBusy, Goto, CacheTypeOK, Has
    <3> QED
      BY <2>3, <2>l, <3>1 DEF HitBusy, bufs
  \* The recycled buffer is not in use, so it is clean: the disk has what it
  \* held, and has the block asked for, which no buffer had.
  <2>4. ASSUME NEW p \in Proc, Miss(p) PROVE S!Next
    <3>1. PICK b \in Buf : /\ ~busy[b]
                           /\ sector' = [sector EXCEPT ![b] = want[p]]
                           /\ valid' = [valid EXCEPT ![b] = FALSE]
      BY <2>4 DEF Miss, LeastRecent
    <3>2. /\ \A c \in Buf : sector[c] # want[p]
          /\ UNCHANGED <<data, platter, want, view>>
          /\ at[p] = "scan" /\ at' = [at EXCEPT ![p] = "got"]
      BY <2>4 DEF Miss, Cached, Goto
    <3>3. want[p] \in Sector /\ Users[want[p]] = NoProc
          /\ Users' = [Users EXCEPT ![want[p]] = p]
      BY <2>m, <3>2 DEF CacheTypeOK, Has
    <3>4. ASSUME NEW s \in Sector PROVE Blocks'[s] = Blocks[s]
      <4>1. CASE s = want[p]
        <5>1. Blocks[s] = platter[s]
          BY <3>2, <3>3, <4>1 DEF Mapped
        <5>2. sector'[b] = s /\ ~valid'[b]
          BY <3>1, <4>1 DEF CacheTypeOK
        <5>3. Blocks'[s] = platter'[s]
          BY <5>2 DEF Mapped
        <5> QED
          BY <3>2, <5>1, <5>3
      <4>2. CASE s # want[p] /\ sector[b] = s
        <5>1. Blocks[s] = platter[s]
          BY <3>1, <4>2 DEF Mapped, BufferInv
        <5>2. \A c \in Buf : sector'[c] # s
          BY <3>1, <4>2 DEF CacheTypeOK, OneBuffer
        <5>3. Blocks'[s] = platter'[s]
          BY <5>2 DEF Mapped
        <5> QED
          BY <3>2, <5>1, <5>3
      <4>3. CASE s # want[p] /\ sector[b] # s /\ \E c \in Buf : sector[c] = s
        <5>1. PICK c \in Buf : sector[c] = s
          BY <4>3
        <5>2. sector'[c] = s /\ valid'[c] = valid[c] /\ UNCHANGED <<data, platter>>
          BY <3>1, <3>2, <4>3, <5>1 DEF CacheTypeOK
        <5>3. Blocks[s] = IF valid[c] THEN data[c] ELSE platter[s]
          BY <5>1 DEF Mapped
        <5>4. Blocks'[s] = IF valid'[c] THEN data'[c] ELSE platter'[s]
          BY <5>2 DEF Mapped
        <5> QED
          BY <5>2, <5>3, <5>4
      <4>4. CASE s # want[p] /\ \A c \in Buf : sector[c] # s
        <5>1. \A c \in Buf : sector'[c] # s
          BY <3>1, <4>4 DEF CacheTypeOK
        <5> QED
          BY <3>2, <4>4, <5>1 DEF Mapped
      <4> QED
        BY <4>1, <4>2, <4>3, <4>4
    <3>5. UNCHANGED Blocks
      BY <3>4 DEF Mapped
    <3> QED
      BY <3>2, <3>3, <3>5 DEF S!Next, S!Claim
  <2>5. ASSUME NEW p \in Proc, NoBuffers(p)
        PROVE  UNCHANGED <<Blocks, Users, view>>
    <3>1. UNCHANGED Users
      BY <2>5, <2>k DEF NoBuffers, Goto, CacheTypeOK, Has
    <3> QED
      BY <2>5, <2>l, <3>1 DEF NoBuffers, bufs
  <2>6. ASSUME NEW p \in Proc, BreadCached(p) PROVE S!Next
    BY <2>6, <2>n DEF BreadCached, See, Goto, CacheTypeOK, Has, bufs
  <2>7. ASSUME NEW p \in Proc, BreadDisk(p)
        PROVE  UNCHANGED <<Blocks, Users, view>>
    <3>1. UNCHANGED Users
      BY <2>7, <2>k DEF BreadDisk, Enqueue, Goto, CacheTypeOK, Has
    <3> QED
      BY <2>7, <2>l, <3>1 DEF BreadDisk, bufs
  <2>8. ASSUME NEW p \in Proc, NEW v \in Value, Bwrite(p, v) PROVE S!Next
    <3> DEFINE s == want[p]
    <3>1. /\ at[p] = "use" /\ at' = [at EXCEPT ![p] = "sleep"]
          /\ data' = [data EXCEPT ![buf[p]] = v] /\ view' = [view EXCEPT ![p] = v]
          /\ UNCHANGED <<sector, valid, platter, want>>
      BY <2>8 DEF Bwrite, Enqueue, Goto
    <3>2. s \in Sector /\ buf[p] \in Buf /\ sector[buf[p]] = s /\ valid[buf[p]]
      BY <3>1 DEF ProcessInv, Has
    <3>3. Users[s] = p
      BY <3>1, <3>2 DEF Mapped, Has
    <3>4. UNCHANGED Users
      BY <2>k, <3>1 DEF CacheTypeOK, Has
    <3>5. Blocks'[s] = v
      BY <3>1, <3>2 DEF Mapped, CacheTypeOK
    <3>6. ASSUME NEW t \in Sector, t # s PROVE Blocks'[t] = Blocks[t]
      <4>1. CASE \E c \in Buf : sector[c] = t
        <5>1. PICK c \in Buf : sector[c] = t
          BY <4>1
        <5>2. data'[c] = data[c]
          BY <3>1, <3>2, <3>6, <5>1 DEF CacheTypeOK
        <5> QED
          BY <3>1, <5>1, <5>2 DEF Mapped
      <4>2. CASE \A c \in Buf : sector[c] # t
        BY <3>1, <4>2 DEF Mapped
      <4> QED
        BY <4>1, <4>2
    <3>7. Blocks' = [Blocks EXCEPT ![s] = v]
      BY <3>2, <3>5, <3>6 DEF Mapped
    <3>8. S!Change(p, s, v)
      BY <3>1, <3>3, <3>4, <3>7 DEF S!Change
    <3> QED
      BY <3>2, <3>8 DEF S!Next
  <2>9. ASSUME NEW p \in Proc, IoDone(p) PROVE S!Next
    BY <2>9, <2>n DEF IoDone, See, Goto, CacheTypeOK, Has, bufs
  <2>10. ASSUME NEW p \in Proc, IoWait(p)
         PROVE  UNCHANGED <<Blocks, Users, view>>
    <3>1. UNCHANGED Users
      BY <2>10, <2>k DEF IoWait, Goto, CacheTypeOK, Has
    <3> QED
      BY <2>10, <2>l, <3>1 DEF IoWait, bufs
  <2>11. ASSUME NEW p \in Proc, Brelse(p) PROVE S!Next
    <3> DEFINE s == want[p]
    <3>1. /\ at[p] = "use" /\ at'[p] = "out"
          /\ \A q \in Proc \ {p} : Has(q)' <=> Has(q)
          /\ want' = [want EXCEPT ![p] = NoSector] /\ view' = [view EXCEPT ![p] = Blank]
          /\ UNCHANGED <<sector, valid, data, platter>>
      BY <2>11 DEF Brelse, WakeAnd, CacheTypeOK, Has
    <3>2. s \in Sector /\ Users[s] = p
      BY <3>1 DEF ProcessInv, Has, Mapped
    <3>3. Users'[s] = NoProc
      <4>1. \A q \in Proc : Users'[s] # q
        BY <3>1, <3>2 DEF Mapped, CacheTypeOK, Has
      <4> QED
        BY <3>2, <4>1 DEF Mapped
    <3>4. ASSUME NEW t \in Sector, t # s PROVE Users'[t] = Users[t]
      <4>1. \A q \in Proc : Has(q) /\ want[q] = t <=> Has(q)' /\ want'[q] = t
        BY <3>1, <3>4 DEF CacheTypeOK, Has
      <4>2. \A q \in Proc : Users[t] = q <=> Users'[t] = q
        BY <4>1 DEF Mapped
      <4> QED
        BY <4>2 DEF Mapped
    <3>5. Users' = [Users EXCEPT ![s] = NoProc]
      BY <3>2, <3>3, <3>4 DEF Mapped
    <3>6. UNCHANGED Blocks
      BY <2>l, <3>1
    <3>7. S!Release(p, s)
      BY <3>1, <3>2, <3>5, <3>6 DEF S!Release
    <3> QED
      BY <3>2, <3>7 DEF S!Next
  \* A buffer that was written held the block already, and one that is filled
  \* gets what the disk has.
  <2>12. ASSUME Ideintr PROVE UNCHANGED <<Blocks, Users, view>>
    <3> DEFINE b == Head(queue)
    <3>1. /\ queue # <<>> /\ Transfer(b) /\ valid' = [valid EXCEPT ![b] = TRUE]
          /\ \A q \in Proc : Has(q)' <=> Has(q)
          /\ UNCHANGED <<sector, want, view>>
      BY <2>12 DEF Ideintr, WakeAnd, CacheTypeOK, Has
    <3>2. b \in Buf /\ Queued(b)
      <4>1. queue \in Seq(Buf) /\ queue # <<>>
        BY <3>1 DEF CacheTypeOK
      <4> QED
        BY <4>1 DEF Queued
    <3> HIDE DEF b
    <3>3. sector[b] \in Sector /\ (dirty[b] <=> valid[b])
      <4>1. PICK q \in Proc : Using(q, b)
        BY <3>2 DEF BufferInv
      <4> QED
        BY <3>2, <4>1 DEF ProcessInv, BufferInv, Using, Has, CacheTypeOK
    <3>4. UNCHANGED Users
      BY <2>k, <3>1
    <3>5. Blocks'[sector[b]] = Blocks[sector[b]]
      <4>1. Blocks'[sector[b]] = data'[b]
        BY <3>1, <3>2, <3>3 DEF Mapped, CacheTypeOK
      <4>2. CASE dirty[b]
        <5>1. data' = data /\ valid[b]
          BY <3>1, <3>3, <4>2 DEF Transfer
        <5> QED
          BY <3>2, <3>3, <4>1, <5>1 DEF Mapped
      <4>3. CASE ~dirty[b]
        <5>1. data'[b] = platter[sector[b]] /\ ~valid[b]
          BY <3>1, <3>2, <3>3, <4>3 DEF Transfer, CacheTypeOK
        <5> QED
          BY <3>2, <3>3, <4>1, <5>1 DEF Mapped
      <4> QED
        BY <4>2, <4>3
    <3>6. ASSUME NEW t \in Sector, t # sector[b] PROVE Blocks'[t] = Blocks[t]
      <4>1. platter'[t] = platter[t]
        BY <3>1, <3>3, <3>6 DEF Transfer, CacheTypeOK
      <4>2. CASE \E c \in Buf : sector[c] = t
        <5>1. PICK c \in Buf : sector[c] = t
          BY <4>2
        <5>2. data'[c] = data[c] /\ valid'[c] = valid[c] /\ sector'[c] = t
          BY <3>1, <3>2, <3>6, <5>1 DEF Transfer, CacheTypeOK
        <5>3. Blocks[t] = IF valid[c] THEN data[c] ELSE platter[t]
          BY <5>1 DEF Mapped
        <5>4. Blocks'[t] = IF valid'[c] THEN data'[c] ELSE platter'[t]
          BY <5>2 DEF Mapped
        <5> QED
          BY <4>1, <5>2, <5>3, <5>4
      <4>3. CASE \A c \in Buf : sector[c] # t
        BY <3>1, <4>1, <4>3 DEF Mapped
      <4> QED
        BY <4>2, <4>3
    <3>7. UNCHANGED Blocks
      BY <3>5, <3>6 DEF Mapped
    <3> QED
      BY <3>1, <3>4, <3>7
  <2>13. ASSUME NEW p \in Proc, Kill(p)
         PROVE  UNCHANGED <<Blocks, Users, view>>
    <3>1. UNCHANGED Users
      BY <2>13, <2>k DEF Kill, Goto, CacheTypeOK, Has
    <3> QED
      BY <2>13, <2>l, <3>1 DEF Kill, bufs
  <2>14. CASE UNCHANGED cachevars
    BY <2>14, <2>k, <2>l DEF cachevars, Has
  <2>15. ASSUME NEW p \in Proc, Work(p)
         PROVE  S!Next \/ UNCHANGED <<Blocks, Users, view>>
    BY <2>2, <2>3, <2>4, <2>5, <2>6, <2>7, <2>9, <2>10, <2>15 DEF Work
  <2> QED
    BY <2>1, <2>8, <2>11, <2>12, <2>13, <2>14, <2>15 DEF CacheNext
<1> QED
  BY <1>1, <1>2, Invariant, Mapping, PTL DEF CacheSpec, ImplementsBlockStore, S!Spec
=============================================================================
