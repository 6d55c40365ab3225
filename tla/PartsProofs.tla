---------------------------- MODULE PartsProofs ----------------------------
(***************************************************************************)
(* Three of the smaller parts, for all their constants: the web server,    *)
(* any number of consumers and connections and any size of the ring;       *)
(* sbrk(), any number of threads, pages and changes of the size; and       *)
(* lock() and unlock(), any number of threads and rounds on one CPU.       *)
(***************************************************************************)
EXTENDS WebServer, Sbrk, UserLock, FiniteSetTheorems, WellFoundedInduction, TLAPS

\* The k-th request in the ring, counted from the one to be taken next.
InRing(k) == buffer[(use_index + k) % real_size]

\* The number of the last connection that was put into the ring.
Given == IF where[Producer] = "accept" THEN accepted ELSE accepted - 1

\* The types of the server's variables.
WebTypeOK ==
    /\ buffer \in [Index -> [id : Nat, filesize : Nat]]
    /\ use_index \in Index /\ fill_index \in Index /\ count \in 0..real_size
    /\ mutex \in Threads \cup {Nobody} /\ fill \subseteq Consumer
    /\ empty \subseteq {Producer}
    /\ where \in [Threads -> {"accept", "lock", "wait", "read", "handle"}]
    /\ request \in [Threads -> [id : Nat, filesize : Nat]]
    /\ accepted \in 0..MaxConns

\* A thread has the mutex, or waits, exactly where its label says.
PlaceInv ==
    /\ where[Producer] # "handle"
    /\ \A t \in Consumer : where[t] \in {"lock", "wait", "handle"}
    /\ where[Producer] = "read" <=> mutex = Producer
    /\ \A t \in Consumer : where[t] = "handle" <=> mutex = t
    /\ \A t \in Consumer : where[t] = "wait" <=> t \in fill
    /\ where[Producer] = "wait" <=> Producer \in empty
    /\ where[Producer] = "read" => count < real_size

\* The consumers that answer a request: one at most, as they keep the mutex.
Handling == {t \in Consumer : where[t] = "handle"}

\* SignalsKept also while the producer has the mutex, for its next signal: a
\* consumer that was woken may be overtaken, but is up.
UpInv ==
    /\ fill = {} \/ Cardinality(Consumer \ fill) >= count + Cardinality(Handling)
    /\ empty # {} => count = real_size \/ mutex \in Consumer

\* r is to be taken before s.
Ordered(r, s) == Sff!Before(r, s) /\ r.id # s.id

\* The ring is in order, and holds only connections that have been put.
RingInv ==
    /\ fill_index = (use_index + count) % real_size
    /\ \A k \in 0..count-1 : InRing(k).filesize \in Size /\ InRing(k).id \in 1..Given
    /\ \A j, k \in 0..count-1 : j < k => Ordered(InRing(j), InRing(k))

\* What a thread has in hand, what the ring holds and what is answered already
\* are different connections.
OnceInv ==
    /\ where[Producer] # "accept" =>
         request[Producer].id = accepted /\ request[Producer].filesize \in Size
    /\ where[Producer] # "accept" => accepted > 0
    /\ closed \subseteq 1..Given
    /\ \A t \in Consumer : where[t] = "handle" => request[t].id \in 1..Given
    /\ \A k \in 0..count-1 : InRing(k).id \notin closed
    /\ \A k \in 0..count-1, t \in Consumer : where[t] = "handle" => InRing(k).id # request[t].id

\* The inductive invariant of the server.
IInv == WebTypeOK /\ PlaceInv /\ UpInv /\ RingInv /\ OnceInv

-----------------------------------------------------------------------------
\* %, under a name that the provers do not look through.
Mod(a, n) == a % n

\* One turn around a ring of n in either direction is undone by n.
LEMMA Wrap ==
  ASSUME NEW n \in Nat \ {0}, NEW a \in Int, -n <= a, a < n + n
  PROVE  Mod(a, n) = IF a < 0 THEN a + n ELSE IF a < n THEN a ELSE a - n
<1> DEFINE q == a \div n
           r == a % n
<1>1. a = q * n + r /\ q \in Int /\ r \in 0..n-1
  OBVIOUS
<1> HIDE DEF q, r
<1>2. q >= 2 => (q - 2) * n >= 0
  BY <1>1
<1>3. q <= -2 => (-2 - q) * n >= 0
  BY <1>1
<1>4. (q - 2) * n = q * n - (n + n) /\ (-2 - q) * n = -(n + n) - q * n
  BY <1>1
<1>5. q \in {-1, 0, 1}
  BY <1>1, <1>2, <1>3, <1>4
<1>6. a = (IF q = -1 THEN -n ELSE IF q = 0 THEN 0 ELSE n) + r
  BY <1>1, <1>5
<1>7. r = IF a < 0 THEN a + n ELSE IF a < n THEN a ELSE a - n
  BY <1>1, <1>5, <1>6
<1> QED
  BY <1>7 DEF r, Mod

\* The invariant of the server holds when it starts.
LEMMA InitInv == ASSUME WebAssumption PROVE WebInit => IInv
<1> SUFFICES ASSUME WebInit PROVE IInv
  OBVIOUS
<1> USE DEF WebAssumption, WebInit
<1>1. 0 \in Index /\ real_size \in Nat \ {0}
  BY DEF Index
<1>2. WebTypeOK
  BY <1>1 DEF WebTypeOK, Threads, NoRequest
<1>3. PlaceInv
  BY DEF PlaceInv, Threads
<1>4. UpInv
  BY DEF UpInv, Handling
<1>5. RingInv
  <2>1. Mod(0, real_size) = 0
    BY <1>1, Wrap
  <2>2. fill_index = (use_index + count) % real_size /\ 0..count-1 = {}
    BY <2>1 DEF Mod
  <2> QED
    BY <2>2 DEF RingInv
<1>6. OnceInv
  BY DEF OnceInv, Given, Threads
<1> QED
  BY <1>2, <1>3, <1>4, <1>5, <1>6 DEF IInv

\* A set of naturals that is not empty has a least element.
LEMMA Least ==
  ASSUME NEW T, T \subseteq Nat, T # {}
  PROVE  \E m \in T : \A x \in T : m <= x
<1> DEFINE Below(m) == 0..m
           U == {Below(m) : m \in T}
<1>1. U \subseteq FiniteSubsetsOf(Nat)
  <2>1. \A m \in T : Below(m) \subseteq Nat /\ IsFiniteSet(Below(m))
    BY FS_Interval
  <2> QED
    BY <2>1 DEF FiniteSubsetsOf
<1>2. PICK A \in U : \A B \in U : ~ <<B, A>> \in StrictSubsetOrdering(Nat)
  <2>1. U # {}
    OBVIOUS
  <2> HIDE DEF U
  <2> QED
    BY <1>1, <2>1, WFMin, FS_StrictSubsetOrderingWellFounded
<1>3. PICK m \in T : A = Below(m)
  OBVIOUS
<1>4. ASSUME NEW x \in T, x < m PROVE FALSE
  <2>1. Below(x) \in U /\ Below(x) \subseteq Below(m) /\ m \in Below(m) /\ m \notin Below(x)
    BY <1>4
  <2>2. Below(x) \in SUBSET Nat /\ Below(m) \in SUBSET Nat
    OBVIOUS
  <2> HIDE DEF Below
  <2>3. <<Below(x), Below(m)>> \in StrictSubsetOrdering(Nat)
    BY <2>1, <2>2 DEF StrictSubsetOrdering
  <2> QED
    BY <1>2, <1>3, <2>1, <2>3
<1>5. \A x \in T : m <= x
  BY <1>4
<1> QED
  BY <1>5

\* The places of a ring that starts at u.
LEMMA Slots ==
  ASSUME WebAssumption, NEW u \in Index, NEW k \in 0..real_size
  PROVE  /\ (u + k) % real_size \in Index
         /\ (u + k) % real_size = IF u + k < real_size THEN u + k ELSE u + k - real_size
<1> DEFINE a == u + k
<1>1. a \in Nat /\ -real_size <= a /\ a < real_size + real_size
  BY DEF WebAssumption, Index
<1>2. real_size \in Nat \ {0}
  BY DEF WebAssumption
<1> HIDE DEF a
<1>3. Mod(a, real_size) = IF a < 0 THEN a + real_size
                      ELSE IF a < real_size THEN a ELSE a - real_size
  BY <1>1, <1>2, Wrap
<1>4. Mod(a, real_size) = IF a < real_size THEN a ELSE a - real_size
  BY <1>1, <1>3
<1> QED
  BY <1>1, <1>2, <1>4 DEF Index, a, Mod

\* Backwards from the end of the ring: the j-th is the one at count - j.
LEMMA Backwards ==
  ASSUME WebAssumption, WebTypeOK, RingInv, NEW j \in 1..count
  PROVE  buffer[back(fill_index, j)] = InRing(count - j)
<1>1. fill_index = IF use_index + count < real_size THEN use_index + count
                                                    ELSE use_index + count - real_size
  BY Slots DEF WebTypeOK, RingInv
<1>2. count - j \in 0..real_size /\ use_index \in Index
  BY DEF WebTypeOK, WebAssumption
<1>3. (use_index + (count - j)) % real_size =
        IF use_index + (count - j) < real_size THEN use_index + (count - j)
                                               ELSE use_index + (count - j) - real_size
  BY <1>2, Slots
<1>4. fill_index - j \in Int /\ -real_size <= fill_index - j
        /\ fill_index - j < real_size + real_size
  BY <1>1 DEF WebTypeOK, Index, WebAssumption
<1>5. Mod(fill_index - j, real_size) = IF fill_index - j < 0 THEN fill_index - j + real_size
                                     ELSE IF fill_index - j < real_size THEN fill_index - j
                                     ELSE fill_index - j - real_size
  BY <1>4, Wrap DEF WebAssumption
<1>6. (fill_index - j) % real_size = (use_index + (count - j)) % real_size
  <2>1. Mod(fill_index - j, real_size) = IF use_index + (count - j) < real_size
                                         THEN use_index + (count - j)
                                         ELSE use_index + (count - j) - real_size
    BY <1>1, <1>5 DEF WebTypeOK, Index, WebAssumption
  <2> QED
    BY <1>3, <2>1 DEF Mod
<1> QED
  BY <1>6 DEF back, InRing

\* What the ring holds are requests.
LEMMA Element ==
  ASSUME WebAssumption, WebTypeOK, NEW k \in 0..count-1
  PROVE  InRing(k) \in [id : Nat, filesize : Nat]
<1>1. k \in 0..real_size /\ use_index \in Index
  BY DEF WebTypeOK, WebAssumption
<1>2. (use_index + k) % real_size \in Index
  BY <1>1, Slots
<1> QED
  BY <1>2 DEF InRing, WebTypeOK

\* How far the loop of put() goes.
LEMMA Larger ==
  ASSUME WebAssumption, WebTypeOK, RingInv, NEW r, r.filesize \in Nat
  PROVE  /\ larger(r) \in 0..count
         /\ \A j \in 1..larger(r) : InRing(count - j).filesize > r.filesize
         /\ larger(r) = count \/ InRing(count - larger(r) - 1).filesize <= r.filesize
<1> DEFINE P(k) ==
        /\ \A j \in 1..k : buffer[back(fill_index, j)].filesize > r.filesize
        /\ k = count \/ buffer[back(fill_index, k + 1)].filesize <= r.filesize
           T == {k \in 0..count : k = count \/ InRing(count - (k + 1)).filesize <= r.filesize}
<1>1. count \in Nat
  BY DEF WebTypeOK, WebAssumption
<1>2. PICK m \in T : \A x \in T : m <= x
  <2>1. count \in T /\ T \subseteq Nat
    BY <1>1
  <2> HIDE DEF T
  <2> QED
    BY <2>1, Least
<1>3. ASSUME NEW j \in 1..m PROVE InRing(count - j).filesize > r.filesize
  <2>1. j - 1 \in 0..count /\ j - 1 < m /\ j - 1 # count /\ count - j \in 0..count-1
    BY <1>1, <1>2
  <2>2. j - 1 \notin T
    BY <1>1, <1>2, <2>1
  <2>3. ~ InRing(count - (j - 1 + 1)).filesize <= r.filesize
    BY <2>1, <2>2
  <2>4. j - 1 + 1 = j
    BY <2>1
  <2>5. InRing(count - j) \in [id : Nat, filesize : Nat]
    BY <2>1, Element
  <2> QED
    BY <2>3, <2>4, <2>5
<1>4. P(m)
  <2>1. \A j \in 1..m : buffer[back(fill_index, j)].filesize > r.filesize
    BY <1>1, <1>2, <1>3, Backwards
  <2>2. m = count \/ buffer[back(fill_index, m + 1)].filesize <= r.filesize
    <3>1. m # count => m + 1 \in 1..count
      BY <1>1, <1>2
    <3> QED
      BY <1>2, <3>1, Backwards
  <2> QED
    BY <2>1, <2>2
<1>5. larger(r) = CHOOSE k \in 0..count : P(k)
  BY DEF larger
<1>6. larger(r) \in 0..count /\ P(larger(r))
  <2>1. m \in 0..count
    BY <1>2
  <2> HIDE DEF P
  <2> QED
    BY <1>4, <1>5, <2>1
<1> DEFINE L == larger(r)
<1>7. L \in 0..count /\ P(L)
  BY <1>6
<1> HIDE DEF L
<1>8. \A j \in 1..L : InRing(count - j).filesize > r.filesize
  BY <1>1, <1>7, Backwards
<1>9. L = count \/ InRing(count - L - 1).filesize <= r.filesize
  <2>1. L # count => L + 1 \in 1..count /\ count - (L + 1) = count - L - 1
    BY <1>1, <1>7
  <2> QED
    BY <1>7, <2>1, Backwards
<1> QED
  BY <1>7, <1>8, <1>9 DEF L

\* put() makes room for r among the others and leaves their order.
LEMMA PutRing ==
  ASSUME WebAssumption, WebTypeOK, RingInv, NEW r \in [id : Nat, filesize : Nat],
         count < real_size, put(r)
  PROVE  /\ \A k \in 0..count :
              InRing(k)' = IF k < count - larger(r) THEN InRing(k)
                       ELSE IF k = count - larger(r) THEN r ELSE InRing(k - 1)
         /\ buffer' \in [Index -> [id : Nat, filesize : Nat]]
<1> DEFINE L == larger(r)
<1>1. L \in 0..count /\ count \in Nat
  BY Larger DEF WebTypeOK, WebAssumption
<1>2. buffer' = [i \in Index |-> LET k == (fill_index - i) % real_size IN
         IF k < L THEN buffer[back(i, 1)]
         ELSE IF k = L THEN r
         ELSE buffer[i]]
  BY DEF put
<1> HIDE DEF L
<1> DEFINE slot(k) == (use_index + k) % real_size
<1>3. ASSUME NEW k \in 0..count
      PROVE  /\ slot(k) \in Index
             /\ slot(k) = IF use_index + k < real_size THEN use_index + k
                                                       ELSE use_index + k - real_size
             /\ use_index \in Index /\ real_size \in Nat \ {0}
  <2>1. k \in 0..real_size /\ use_index \in Index
    BY <1>1 DEF WebTypeOK, WebAssumption
  <2> QED
    BY <2>1, Slots DEF WebAssumption
<1>4. ASSUME NEW k \in 0..count
      PROVE  (fill_index - slot(k)) % real_size = count - k
  <2> DEFINE s == slot(k)
             e == slot(count)
  <2>1. /\ s \in Index /\ e \in Index /\ use_index \in Index
        /\ s = IF use_index + k < real_size THEN use_index + k ELSE use_index + k - real_size
        /\ e = IF use_index + count < real_size THEN use_index + count
                                                ELSE use_index + count - real_size
    BY <1>1, <1>3
  <2>2. fill_index = e
    BY DEF RingInv
  <2> HIDE DEF s, e
  <2> DEFINE a == e - s
  <2>3. a \in Int /\ -real_size <= a /\ a < real_size + real_size
        /\ (a < 0 => a + real_size = count - k) /\ (a >= 0 => a = count - k) /\ a < real_size
    BY <1>1, <2>1 DEF Index, WebAssumption
  <2> HIDE DEF a
  <2>4. Mod(a, real_size) = count - k
    BY <2>3, Wrap DEF WebAssumption
  <2> QED
    BY <2>2, <2>4 DEF a, s, Mod
<1>5. ASSUME NEW k \in 1..count PROVE back(slot(k), 1) = slot(k - 1)
  <2> DEFINE s == slot(k)
             e == slot(k - 1)
  <2>1. /\ s \in Index /\ e \in Index /\ use_index \in Index /\ real_size \in Nat \ {0}
        /\ s = IF use_index + k < real_size THEN use_index + k ELSE use_index + k - real_size
        /\ e = IF use_index + (k - 1) < real_size THEN use_index + (k - 1)
                                                ELSE use_index + (k - 1) - real_size
    BY <1>1, <1>3
  <2> HIDE DEF s, e
  <2> DEFINE a == s - 1
  <2>3. a \in Int /\ -real_size <= a /\ a < real_size + real_size
        /\ (a < 0 => a + real_size = e) /\ (a >= 0 => a = e) /\ a < real_size
    BY <1>1, <2>1 DEF Index
  <2> HIDE DEF a
  <2>4. Mod(a, real_size) = e
    BY <2>1, <2>3, Wrap
  <2> QED
    BY <2>4 DEF a, s, e, back, Mod
<1>6. ASSUME NEW k \in 0..count
      PROVE  InRing(k)' = IF count - k < L THEN buffer[back(slot(k), 1)]
                      ELSE IF count - k = L THEN r ELSE buffer[slot(k)]
  <2>1. InRing(k)' = buffer'[slot(k)]
    BY DEF InRing, put
  <2>2. slot(k) \in Index /\ (fill_index - slot(k)) % real_size = count - k
    BY <1>3, <1>4
  <2> HIDE DEF slot
  <2> QED
    BY <1>2, <2>1, <2>2
<1> HIDE DEF slot
<1>7. ASSUME NEW k \in 0..count
      PROVE  InRing(k)' = IF k < count - L THEN InRing(k)
                      ELSE IF k = count - L THEN r ELSE InRing(k - 1)
  <2>1. CASE k < count - L
    <3>1. ~ count - k < L /\ count - k # L
      BY <1>1, <2>1
    <3> QED
      BY <1>6, <2>1, <3>1 DEF InRing, slot
  <2>2. CASE k = count - L
    <3>1. ~ count - k < L /\ count - k = L /\ ~ k < count - L
      BY <1>1, <2>2
    <3> QED
      BY <1>6, <2>2, <3>1
  <2>3. CASE k > count - L
    <3>1. k \in 1..count /\ count - k < L /\ ~ k < count - L /\ k # count - L
      BY <1>1, <2>3
    <3> QED
      BY <1>5, <1>6, <3>1 DEF InRing, slot
  <2> QED
    BY <1>1, <2>1, <2>2, <2>3
<1>10. buffer' \in [Index -> [id : Nat, filesize : Nat]]
  <2>1. ASSUME NEW i \in Index PROVE back(i, 1) \in Index
    <3>1. i - 1 \in Int /\ real_size \in Nat \ {0}
      BY DEF Index, WebAssumption
    <3> QED
      BY <3>1 DEF back, Index
  <2> QED
    BY <1>2, <2>1 DEF WebTypeOK
<1> QED
  BY <1>7, <1>10 DEF L

-----------------------------------------------------------------------------
\* What stays of the ring when a step leaves it alone.
LEMMA SameRing == UNCHANGED ring => \A k : InRing(k)' = InRing(k)
BY DEF ring, InRing

\* The consumers that handle a request: the one with the mutex.
LEMMA Counted ==
  ASSUME WebAssumption, WebTypeOK, PlaceInv
  PROVE  /\ Cardinality(Handling) \in Nat
         /\ Cardinality(Consumer \ fill) \in Nat
         /\ mutex \notin Consumer => Cardinality(Handling) = 0
         /\ mutex \in Consumer => Cardinality(Handling) = 1
<1>1. IsFiniteSet(Consumer)
  BY DEF WebAssumption
<1>2. Cardinality(Consumer \ fill) \in Nat
  BY <1>1, FS_Difference, FS_CardinalityType
<1>3. CASE mutex \in Consumer
  <2>1. Handling = {mutex}
    BY <1>3 DEF Handling, PlaceInv
  <2>2. Cardinality({mutex}) = 1
    BY FS_Singleton
  <2> QED
    BY <1>2, <1>3, <2>1, <2>2
<1>4. CASE mutex \notin Consumer
  <2>1. Handling = {}
    BY <1>4 DEF Handling, PlaceInv
  <2> QED
    BY <1>2, <1>4, <2>1, FS_EmptySet
<1> QED
  BY <1>3, <1>4

\* The invariant is kept when a connection is accepted,
LEMMA AcceptConnInv == ASSUME WebAssumption, IInv, AcceptConn PROVE IInv'
<1> USE DEF IInv, AcceptConn, ring
<1>1. PICK s \in Size : request' = [request EXCEPT ![Producer] = [id |-> accepted + 1,
         filesize |-> s]]
  OBVIOUS
<1>2. accepted + 1 \in 1..MaxConns /\ s \in Nat /\ Producer \in Threads
        /\ Producer \notin Consumer
  BY DEF WebTypeOK, WebAssumption, Threads
<1>3. Given' = Given /\ Given = accepted /\ where'[Producer] = "lock"
        /\ request'[Producer].id = accepted'
      /\ request'[Producer].filesize \in Size
  BY <1>1, <1>2 DEF Given, WebTypeOK
<1>4. \A t \in Consumer : where'[t] = where[t] /\ request'[t] = request[t]
  BY <1>1, <1>2 DEF WebTypeOK, Threads
<1>5. \A k : InRing(k)' = InRing(k)
  BY SameRing
<1>6. WebTypeOK'
  BY <1>1, <1>2 DEF WebTypeOK
<1>7. PlaceInv'
  BY <1>2, <1>3, <1>4 DEF PlaceInv
<1>8. UpInv'
  <2>1. Handling' = Handling
    BY <1>4 DEF Handling
  <2> QED
    BY <2>1 DEF UpInv
<1>9. RingInv'
  BY <1>3, <1>5 DEF RingInv, Ordered, Sff!Before
<1>10. OnceInv'
  BY <1>2, <1>3, <1>4, <1>5 DEF OnceInv
<1> QED
  BY <1>6, <1>7, <1>8, <1>9, <1>10

\* when the producer waits for a free place,
LEMMA ProducerWaitInv == ASSUME WebAssumption, IInv, ProducerWait PROVE IInv'
<1> USE DEF IInv, ProducerWait, ring
<1>1. Producer \in Threads /\ Producer \notin Consumer
  BY DEF WebAssumption, Threads
<1>2. Given' = Given /\ where'[Producer] = "wait"
  BY <1>1 DEF Given, WebTypeOK
<1>3. \A t \in Consumer : where'[t] = where[t]
  BY <1>1 DEF WebTypeOK, Threads
<1>4. \A k : InRing(k)' = InRing(k)
  BY SameRing
<1>5. WebTypeOK'
  BY <1>1 DEF WebTypeOK
<1>6. PlaceInv'
  BY <1>1, <1>2, <1>3 DEF PlaceInv, WebAssumption
<1>7. UpInv'
  <2>1. Handling' = Handling
    BY <1>3 DEF Handling
  <2> QED
    BY <2>1 DEF UpInv
<1>8. RingInv'
  BY <1>2, <1>4 DEF RingInv, Ordered, Sff!Before
<1>9. OnceInv'
  BY <1>1, <1>2, <1>3, <1>4 DEF OnceInv
<1> QED
  BY <1>5, <1>6, <1>7, <1>8, <1>9

\* when it has the mutex and finds one,
LEMMA ProducerLockInv == ASSUME WebAssumption, IInv, ProducerLock PROVE IInv'
<1> USE DEF IInv, ProducerLock, ring
<1>1. Producer \in Threads /\ Producer \notin Consumer /\ Nobody \notin Consumer
  BY DEF WebAssumption, Threads
<1>2. Given' = Given /\ where'[Producer] = "read"
  BY <1>1 DEF Given, WebTypeOK
<1>3. \A t \in Consumer : where'[t] = where[t]
  BY <1>1 DEF WebTypeOK, Threads
<1>4. \A k : InRing(k)' = InRing(k)
  BY SameRing
<1>5. WebTypeOK'
  BY <1>1 DEF WebTypeOK
<1>6. PlaceInv'
  <2>1. count < real_size
    BY DEF WebTypeOK, WebAssumption
  <2> QED
    BY <1>1, <1>2, <1>3, <2>1 DEF PlaceInv, WebTypeOK
<1>7. UpInv'
  <2>1. Handling' = Handling
    BY <1>3 DEF Handling
  <2>2. empty = {}
    BY DEF PlaceInv, WebTypeOK
  <2> QED
    BY <2>1, <2>2 DEF UpInv
<1>8. RingInv'
  BY <1>2, <1>4 DEF RingInv, Ordered, Sff!Before
<1>9. OnceInv'
  BY <1>1, <1>2, <1>3, <1>4 DEF OnceInv
<1> QED
  BY <1>5, <1>6, <1>7, <1>8, <1>9

\* and when a consumer waits for a request.
LEMMA ConsumerWaitInv ==
  ASSUME WebAssumption, IInv, NEW t \in Consumer, ConsumerWait(t) PROVE IInv'
<1> USE DEF IInv, ConsumerWait, ring
<1>1. /\ t \in Threads /\ t # Producer /\ Nobody # t /\ Producer \in Threads
      /\ Nobody \notin Consumer
  BY DEF WebAssumption, Threads
<1>2. Given' = Given /\ where'[Producer] = where[Producer] /\ where'[t] = "wait"
  BY <1>1 DEF Given, WebTypeOK
<1>3. \A c \in Consumer \ {t} : where'[c] = where[c]
  BY <1>1 DEF WebTypeOK, Threads
<1>4. \A k : InRing(k)' = InRing(k)
  BY SameRing
<1>5. WebTypeOK'
  BY <1>1 DEF WebTypeOK
<1>6. PlaceInv'
  BY <1>1, <1>2, <1>3 DEF PlaceInv
<1>7. UpInv'
  <2>1. Handling' = Handling /\ Cardinality(Handling) = 0
    BY <1>1, <1>2, <1>3, Counted DEF Handling
  <2>2. Cardinality(Consumer \ fill') \in Nat
    BY FS_Difference, FS_CardinalityType DEF WebAssumption
  <2> QED
    BY <2>1, <2>2 DEF UpInv
<1>8. RingInv'
  BY <1>2, <1>4 DEF RingInv, Ordered, Sff!Before
<1>9. OnceInv'
  BY <1>1, <1>2, <1>3, <1>4 DEF OnceInv
<1> QED
  BY <1>5, <1>6, <1>7, <1>8, <1>9

\* A ring with one more request keeps its order, and no number comes twice.
LEMMA PutRequestRing ==
  ASSUME WebAssumption, IInv, PutRequest
  PROVE  /\ RingInv' /\ Given' = accepted /\ Given = accepted - 1 /\ accepted \in 1..MaxConns
         /\ \A k \in 0..count :
              InRing(k)' = request[Producer] \/ \E j \in 0..count-1 : InRing(k)' = InRing(j)
         /\ \E k \in 0..count : InRing(k)' = request[Producer]
         /\ \A j \in 0..count-1 : \E k \in 0..count : InRing(k)' = InRing(j)
<1> DEFINE r == request[Producer]
           L == larger(r)
<1>1. /\ Producer \in Threads /\ Producer \notin Consumer /\ where[Producer] = "read"
      /\ count \in Nat /\ count' = count + 1 /\ count < real_size
      /\ put(r) /\ use_index' = use_index /\ real_size \in Nat \ {0}
      /\ fill_index' = (fill_index + 1) % real_size
  BY DEF IInv, PutRequest, put, PlaceInv, WebTypeOK, WebAssumption, Threads
<1>2. r \in [id : Nat, filesize : Nat] /\ r.id = accepted /\ r.filesize \in Size
      /\ accepted \in 1..MaxConns
  BY <1>1 DEF IInv, WebTypeOK, OnceInv
<1>3. where'[Producer] = "accept" /\ accepted' = accepted
  <2>1. Producer \notin fill
    BY <1>1 DEF IInv, WebTypeOK
  <2> QED
    BY <1>1, <2>1 DEF PutRequest, signalFill, IInv, WebTypeOK, Threads
<1>4. Given' = accepted /\ Given = accepted - 1
  BY <1>1, <1>3 DEF Given
<1> HIDE DEF r
<1>5. \A k \in 0..count : InRing(k)' = IF k < count - L THEN InRing(k)
                                  ELSE IF k = count - L THEN r ELSE InRing(k - 1)
  BY <1>1, <1>2, PutRing DEF IInv
<1>6. /\ L \in 0..count
      /\ \A j \in 1..L : InRing(count - j).filesize > r.filesize
      /\ L = count \/ InRing(count - L - 1).filesize <= r.filesize
  BY <1>2, Larger DEF IInv
<1> HIDE DEF L
<1>7. \A k \in 0..count-1 : /\ InRing(k) \in [id : Nat, filesize : Nat]
                           /\ InRing(k).id < accepted /\ InRing(k).id \in 1..accepted
                           /\ InRing(k).filesize \in Size
  BY <1>2, <1>4, Element DEF IInv, RingInv
<1>8. \A j, k \in 0..count-1 : j < k => Ordered(InRing(j), InRing(k))
  BY DEF IInv, RingInv
<1>9. ASSUME NEW k \in 0..count, k < count - L
      PROVE  k \in 0..count-1 /\ Ordered(InRing(k), r)
  <2> DEFINE m == count - L - 1
  <2>1. k \in 0..count-1 /\ m \in 0..count-1 /\ L # count /\ k <= m
    BY <1>1, <1>6, <1>9
  <2>2. InRing(m).filesize <= r.filesize
    BY <1>6, <2>1
  <2> HIDE DEF m
  <2>3. k = m \/ Ordered(InRing(k), InRing(m))
    BY <1>8, <2>1
  <2>4. InRing(k).filesize <= InRing(m).filesize
    BY <1>7, <2>1, <2>3 DEF Ordered, Sff!Before
  <2>5. InRing(k).filesize <= r.filesize /\ InRing(k).id < r.id
    BY <1>2, <1>7, <2>1, <2>2, <2>4
  <2> QED
    BY <1>2, <1>7, <2>1, <2>5 DEF Ordered, Sff!Before
<1>10. ASSUME NEW k \in 0..count, k > count - L
       PROVE  k - 1 \in 0..count-1 /\ Ordered(r, InRing(k - 1))
  <2>1. k - 1 \in 0..count-1 /\ count - (k - 1) \in 1..L /\ count - (count - (k - 1)) = k - 1
    BY <1>1, <1>6, <1>10
  <2>2. InRing(k - 1).filesize > r.filesize
    BY <1>6, <2>1
  <2> QED
    BY <1>2, <1>7, <2>1, <2>2 DEF Ordered, Sff!Before
<1>11. \A k \in 0..count : InRing(k)' = r \/ \E j \in 0..count-1 : InRing(k)' = InRing(j)
  BY <1>1, <1>5, <1>6, <1>9, <1>10
<1>12. \A k \in 0..count : InRing(k)'.filesize \in Size /\ InRing(k)'.id \in 1..accepted
  BY <1>2, <1>7, <1>11
<1>13. ASSUME NEW j \in 0..count, NEW k \in 0..count, j < k PROVE Ordered(InRing(j)', InRing(k)')
  <2>1. CASE k < count - L
    <3>1. InRing(j)' = InRing(j) /\ InRing(k)' = InRing(k) /\ j \in 0..count-1 /\ k \in 0..count-1
      BY <1>1, <1>5, <1>6, <1>13, <2>1
    <3> QED
      BY <1>8, <1>13, <3>1
  <2>2. CASE k = count - L
    <3>1. InRing(j)' = InRing(j) /\ InRing(k)' = r /\ j < count - L
      BY <1>1, <1>5, <1>6, <1>13, <2>2
    <3> QED
      BY <1>9, <3>1
  <2>3. CASE k > count - L /\ j < count - L
    <3>1. InRing(j)' = InRing(j) /\ InRing(k)' = InRing(k - 1)
      BY <1>1, <1>5, <1>6, <1>13, <2>3
    <3>2. j \in 0..count-1 /\ k - 1 \in 0..count-1 /\ j < k - 1
      BY <1>1, <1>6, <2>3
    <3> QED
      BY <1>8, <3>1, <3>2
  <2>4. CASE k > count - L /\ j = count - L
    <3>1. InRing(j)' = r /\ InRing(k)' = InRing(k - 1)
      BY <1>1, <1>5, <1>6, <1>13, <2>4
    <3> QED
      BY <1>10, <2>4, <3>1
  <2>5. CASE k > count - L /\ j > count - L
    <3>1. InRing(j)' = InRing(j - 1) /\ InRing(k)' = InRing(k - 1)
      BY <1>1, <1>5, <1>6, <1>13, <2>5
    <3>2. j - 1 \in 0..count-1 /\ k - 1 \in 0..count-1 /\ j - 1 < k - 1
      BY <1>1, <1>6, <1>13, <2>5
    <3> QED
      BY <1>8, <3>1, <3>2
  <2> QED
    BY <1>1, <1>6, <2>1, <2>2, <2>3, <2>4, <2>5
<1>14. fill_index' = (use_index' + count') % real_size
  <2> DEFINE u == use_index + count
             v == use_index + (count + 1)
             x == fill_index + 1
  <2>1. use_index \in Index /\ count \in 0..real_size /\ count + 1 \in 0..real_size
    BY <1>1 DEF IInv, WebTypeOK
  <2>2. /\ u \in Int /\ v \in Int /\ ~ u < 0 /\ ~ v < 0 /\ v = u + 1
        /\ -real_size <= u /\ -real_size <= v
        /\ u < real_size + real_size /\ v < real_size + real_size
    BY <1>1, <2>1 DEF Index
  <2>3. fill_index = Mod(u, real_size)
    BY DEF Mod, IInv, RingInv
  <2>4. /\ fill_index = IF u < real_size THEN u ELSE u - real_size
        /\ v % real_size = IF v < real_size THEN v ELSE v - real_size
    <3> HIDE DEF u, v
    <3>1. /\ Mod(u, real_size) = IF u < 0 THEN u + real_size
                                ELSE IF u < real_size THEN u ELSE u - real_size
          /\ Mod(v, real_size) = IF v < 0 THEN v + real_size
                                ELSE IF v < real_size THEN v ELSE v - real_size
      BY <1>1, <2>2, Wrap
    <3>2. /\ Mod(u, real_size) = IF u < real_size THEN u ELSE u - real_size
          /\ Mod(v, real_size) = IF v < real_size THEN v ELSE v - real_size
      BY <2>2, <3>1
    <3> QED
      BY <2>3, <3>2 DEF Mod
  <2>5. x \in Int /\ -real_size <= x /\ x < real_size + real_size /\ ~ x < 0
        /\ u \in Int /\ v = u + 1 /\ x = fill_index + 1 /\ u >= 0
        /\ v < real_size + real_size
    BY <1>1, <2>1, <2>4 DEF Index
  <2>6. fill_index \in Index
    BY DEF IInv, WebTypeOK
  <2> HIDE DEF u, v, x
  <2>7. Mod(x, real_size) = IF x < 0 THEN x + real_size
                            ELSE IF x < real_size THEN x ELSE x - real_size
    BY <1>1, <2>5, Wrap
  <2>8. (IF x < 0 THEN x + real_size ELSE IF x < real_size THEN x ELSE x - real_size)
          = (IF v < real_size THEN v ELSE v - real_size)
    <3> DEFINE f == fill_index
    <3>1. f = (IF u < real_size THEN u ELSE u - real_size) /\ f \in 0..real_size-1
            /\ x = f + 1
      BY <2>4, <2>5, <2>6 DEF Index
    <3> HIDE DEF f
    <3>2. CASE u < real_size
      <4>1. x = v
        BY <2>5, <3>1, <3>2
      <4> QED
        BY <2>5, <4>1
    <3>3. CASE u >= real_size
      <4>1. x = v - real_size /\ x < real_size /\ ~ v < real_size
        BY <1>1, <2>5, <3>1, <3>3
      <4> QED
        BY <2>5, <4>1
    <3> QED
      BY <1>1, <2>5, <3>2, <3>3
  <2>9. x % real_size = v % real_size
    BY <2>4, <2>7, <2>8 DEF Mod
  <2> QED
    BY <1>1, <2>9 DEF x, v
<1>15. RingInv'
  <2>1. \A k \in 0..count'-1 : InRing(k)'.filesize \in Size /\ InRing(k)'.id \in 1..Given'
    BY <1>1, <1>4, <1>12
  <2>2. \A j, k \in 0..count'-1 : j < k => Ordered(InRing(j)', InRing(k)')
    BY <1>1, <1>13
  <2> QED
    BY <1>14, <2>1, <2>2 DEF RingInv, Ordered, Sff!Before
<1>16. \E k \in 0..count : InRing(k)' = r
  <2>1. PICK k \in 0..count : k = count - L
    BY <1>1, <1>6
  <2>2. ~ k < count - L
    BY <1>1, <1>6, <2>1
  <2> QED
    BY <1>5, <2>1, <2>2
<1>17. ASSUME NEW j \in 0..count-1 PROVE \E k \in 0..count : InRing(k)' = InRing(j)
  <2>1. CASE j < count - L
    BY <1>1, <1>5, <2>1
  <2>2. CASE j >= count - L
    <3> DEFINE k == j + 1
    <3>1. k \in 0..count /\ ~ k < count - L /\ k # count - L /\ k - 1 = j
      BY <1>1, <1>6, <2>2
    <3> HIDE DEF k
    <3>2. InRing(k)' = InRing(j)
      BY <1>5, <3>1
    <3> QED
      BY <3>1, <3>2
  <2> QED
    BY <1>1, <1>6, <2>1, <2>2
<1> QED
  BY <1>2, <1>4, <1>11, <1>15, <1>16, <1>17 DEF r

\* The invariant is kept when a request is put: the signal gets another consumer
\* up, or there is none left that waits.
LEMMA PutRequestInv == ASSUME WebAssumption, IInv, PutRequest PROVE IInv'
<1>1. /\ Producer \in Threads /\ Producer \notin Consumer /\ where[Producer] = "read"
      /\ count \in Nat /\ count' = count + 1 /\ count < real_size /\ mutex = Producer
      /\ put(request[Producer]) /\ use_index' = use_index /\ real_size \in Nat \ {0}
      /\ mutex' = Nobody /\ Nobody \notin Consumer /\ Nobody # Producer
      /\ UNCHANGED <<empty, request, accepted, closed>>
  BY DEF IInv, PutRequest, put, PlaceInv, WebTypeOK, WebAssumption, Threads
<1>2. /\ RingInv' /\ Given' = accepted /\ Given = accepted - 1 /\ accepted \in 1..MaxConns
      /\ \A k \in 0..count :
           InRing(k)' = request[Producer] \/ \E j \in 0..count-1 : InRing(k)' = InRing(j)
  BY PutRequestRing
<1>3. Producer \notin fill /\ fill \subseteq Consumer /\ empty = {}
  BY <1>1 DEF IInv, WebTypeOK, PlaceInv
<1>4. /\ where' \in [Threads -> {"accept", "lock", "wait", "read", "handle"}]
      /\ where'[Producer] = "accept"
      /\ fill' \subseteq fill
      /\ \A c \in Consumer : where'[c] = IF c \in fill \ fill' THEN "lock" ELSE where[c]
  <2>1. where \in [Threads -> {"accept", "lock", "wait", "read", "handle"}]
          /\ Consumer \subseteq Threads
    BY DEF IInv, WebTypeOK, Threads
  <2>2. CASE fill = {}
    BY <1>1, <2>1, <2>2 DEF PutRequest, signalFill
  <2>3. CASE fill # {}
    <3>1. PICK c \in fill : /\ fill' = fill \ {c}
                            /\ where' = [where EXCEPT ![c] = "lock", ![Producer] = "accept"]
      BY <2>3 DEF PutRequest, signalFill
    <3> QED
      BY <1>1, <1>3, <2>1, <3>1
  <2> QED
    BY <2>2, <2>3
<1>5. WebTypeOK'
  <2>1. request[Producer] \in [id : Nat, filesize : Nat]
    BY <1>1 DEF IInv, WebTypeOK
  <2>2. buffer' \in [Index -> [id : Nat, filesize : Nat]]
    BY <1>1, <2>1, PutRing DEF IInv
  <2>3. fill_index' \in Index
    <3>1. fill_index + 1 \in Int
      BY DEF IInv, WebTypeOK, Index
    <3> QED
      BY <1>1, <3>1 DEF put, Index
  <2>4. count' \in 0..real_size
    BY <1>1
  <2> QED
    BY <1>1, <1>3, <1>4, <2>2, <2>3, <2>4 DEF IInv, WebTypeOK
<1>6. PlaceInv'
  BY <1>1, <1>3, <1>4 DEF IInv, PlaceInv
<1>7. UpInv'
  <2>1. Handling' = Handling
    BY <1>1, <1>3, <1>4 DEF Handling, IInv, PlaceInv
  <2>2. CASE fill = {}
    BY <1>1, <1>3, <1>4, <2>2 DEF UpInv
  <2>3. CASE fill # {}
    <3>1. PICK c \in fill : fill' = fill \ {c}
      BY <2>3 DEF PutRequest, signalFill
    <3>2. Consumer \ fill' = (Consumer \ fill) \cup {c} /\ c \notin Consumer \ fill
      BY <1>3, <3>1
    <3>3. IsFiniteSet(Consumer \ fill)
      BY FS_Difference DEF WebAssumption
    <3>4. Cardinality(Consumer \ fill') = Cardinality(Consumer \ fill) + 1
      BY <3>2, <3>3, FS_AddElement
    <3>5. Cardinality(Handling) \in Nat /\ Cardinality(Consumer \ fill) \in Nat
      BY Counted DEF IInv
    <3>6. Cardinality(Consumer \ fill) >= count + Cardinality(Handling)
      BY <2>3 DEF IInv, UpInv
    <3> QED
      BY <1>1, <1>3, <2>1, <3>4, <3>5, <3>6 DEF UpInv
  <2> QED
    BY <2>2, <2>3
<1>8. OnceInv'
  <2>1. \A c \in Consumer : where[c] # "handle" /\ where'[c] # "handle"
    BY <1>1, <1>4, <1>6 DEF IInv, PlaceInv
  <2>2. closed \subseteq 1..accepted-1
    BY <1>2 DEF IInv, OnceInv
  <2>3. request[Producer].id = accepted
    BY <1>1 DEF IInv, OnceInv
  <2>4. ASSUME NEW k \in 0..count PROVE InRing(k)'.id \notin closed
    BY <1>2, <2>2, <2>3 DEF IInv, OnceInv
  <2>5. count' - 1 = count /\ closed' = closed /\ accepted' = accepted /\ Given' = accepted
        /\ where'[Producer] = "accept"
    BY <1>1, <1>2, <1>4
  <2>6. closed \subseteq 1..accepted
    BY <1>2, <2>2
  <2> QED
    BY <2>1, <2>4, <2>5, <2>6 DEF OnceInv
<1> QED
  BY <1>2, <1>5, <1>6, <1>7, <1>8 DEF IInv

\* The first request leaves the ring, the others move up.
LEMMA GetRing ==
  ASSUME WebAssumption, IInv, NEW t \in Consumer, GetRequest(t)
  PROVE  /\ use_index' \in Index /\ request'[t] = InRing(0)
         /\ \A k \in 0..count-2 : InRing(k)' = InRing(k + 1)
         /\ fill_index' = (use_index' + count') % real_size
<1>1. /\ use_index \in Index /\ count \in 1..real_size /\ real_size \in Nat \ {0}
      /\ buffer' = buffer /\ use_index' = (use_index + 1) % real_size /\ t \in Threads
      /\ count' = count - 1 /\ fill_index' = fill_index
      /\ request' = [request EXCEPT ![t] = buffer[use_index]]
      /\ fill_index = (use_index + count) % real_size
  BY DEF IInv, WebTypeOK, WebAssumption, GetRequest, get, Threads, RingInv
<1> DEFINE x == use_index + 1
<1>2. x \in Int /\ -real_size <= x /\ x < real_size + real_size /\ ~ x < 0
      /\ use_index \in 0..real_size-1 /\ x = use_index + 1
  BY <1>1 DEF Index
<1> HIDE DEF x
<1>3. use_index' = IF x < real_size THEN x ELSE x - real_size
  <2>1. Mod(x, real_size) = IF x < 0 THEN x + real_size
                            ELSE IF x < real_size THEN x ELSE x - real_size
    BY <1>1, <1>2, Wrap
  <2>2. use_index' = Mod(x, real_size)
    BY <1>1 DEF Mod, x
  <2> QED
    BY <1>2, <2>1, <2>2
<1>4. use_index' \in 0..real_size-1
  BY <1>1, <1>2, <1>3
<1>5. request'[t] = InRing(0)
  <2>1. Mod(use_index, real_size) = use_index
    BY <1>1, <1>2, Wrap
  <2>2. use_index + 0 = use_index
    BY <1>2
  <2> QED
    BY <1>1, <2>1, <2>2 DEF IInv, WebTypeOK, InRing, Mod
<1>6. ASSUME NEW k \in 0..count-1
      PROVE  (use_index' + k) % real_size = (use_index + (k + 1)) % real_size
  <2> DEFINE y == use_index' + k
             z == use_index + (k + 1)
  <2>1. /\ y \in Int /\ z \in Int /\ ~ y < 0 /\ ~ z < 0
        /\ -real_size <= y /\ y < real_size + real_size
        /\ -real_size <= z /\ z < real_size + real_size
        /\ y = (IF x < real_size THEN z ELSE z - real_size)
        /\ (x >= real_size => z >= real_size)
    BY <1>1, <1>2, <1>3, <1>4
  <2> HIDE DEF y, z
  <2>2. /\ Mod(y, real_size) = IF y < 0 THEN y + real_size
                               ELSE IF y < real_size THEN y ELSE y - real_size
        /\ Mod(z, real_size) = IF z < 0 THEN z + real_size
                               ELSE IF z < real_size THEN z ELSE z - real_size
    BY <1>1, <2>1, Wrap
  <2>3. Mod(y, real_size) = Mod(z, real_size)
    <3>1. CASE x < real_size
      BY <2>1, <2>2, <3>1
    <3>2. CASE x >= real_size
      <4>1. y = z - real_size /\ y < real_size /\ z >= real_size
        BY <1>1, <1>2, <2>1, <3>2
      <4> QED
        BY <1>1, <2>1, <2>2, <4>1
    <3> QED
      BY <1>1, <1>2, <3>1, <3>2
  <2> QED
    BY <2>3 DEF Mod, y, z
<1>7. ASSUME NEW k \in 0..count-2 PROVE InRing(k)' = InRing(k + 1)
  <2>1. k \in 0..count-1
    BY <1>1
  <2> QED
    BY <1>1, <1>6, <2>1 DEF InRing
<1>8. fill_index' = (use_index' + count') % real_size
  <2> DEFINE c == count - 1
  <2>1. c \in 0..count-1 /\ c + 1 = count
    BY <1>1
  <2> HIDE DEF c
  <2>2. (use_index' + c) % real_size = (use_index + (c + 1)) % real_size
    BY <1>6, <2>1
  <2>3. (use_index' + count') % real_size = (use_index' + c) % real_size
    BY <1>1 DEF c
  <2> QED
    BY <1>1, <2>1, <2>2, <2>3
<1> QED
  BY <1>4, <1>5, <1>7, <1>8 DEF Index

\* The invariant is kept when a consumer takes a request,
LEMMA GetRequestInv ==
  ASSUME WebAssumption, IInv, NEW t \in Consumer, GetRequest(t) PROVE IInv'
<1>1. /\ t \in Threads /\ t # Producer /\ Nobody # t /\ Producer \in Threads
      /\ Producer \notin Consumer /\ Nobody \notin Consumer /\ Nobody # Producer
      /\ count \in 1..real_size /\ count' = count - 1 /\ mutex = Nobody /\ mutex' = t
      /\ where[t] = "lock" /\ where' = [where EXCEPT ![t] = "handle"]
      /\ UNCHANGED <<buffer, fill_index, fill, empty, accepted, closed>> /\ real_size \in Nat
  BY DEF IInv, WebTypeOK, WebAssumption, Threads, GetRequest, get
<1>2. /\ use_index' \in Index /\ request'[t] = InRing(0)
      /\ \A k \in 0..count-2 : InRing(k)' = InRing(k + 1)
      /\ fill_index' = (use_index' + count') % real_size
  BY GetRing
<1>3. /\ where'[t] = "handle"
      /\ \A c \in Threads \ {t} : where'[c] = where[c] /\ request'[c] = request[c]
      /\ Consumer \subseteq Threads
  BY <1>1 DEF IInv, WebTypeOK, GetRequest, get, Threads
<1>4. Given' = Given
  BY <1>1, <1>3 DEF Given
<1>5. /\ InRing(0) \in [id : Nat, filesize : Nat] /\ InRing(0).id \in 1..Given
      /\ InRing(0).id \notin closed
      /\ 0 \in 0..count-1
  <2>1. 0 \in 0..count-1
    BY <1>1
  <2> QED
    BY <2>1, Element DEF IInv, RingInv, OnceInv
<1>6. WebTypeOK'
  <2>1. request' = [request EXCEPT ![t] = InRing(0)]
    <3> DEFINE v == buffer[use_index]
    <3>1. request' = [request EXCEPT ![t] = v] /\ t \in DOMAIN request
      BY <1>1 DEF GetRequest, get, IInv, WebTypeOK
    <3> HIDE DEF v
    <3>2. request'[t] = v
      BY <3>1
    <3>3. v = InRing(0)
      BY <1>2, <3>2
    <3> QED
      BY <3>1, <3>3
  <2>2. request' \in [Threads -> [id : Nat, filesize : Nat]]
    BY <1>5, <2>1 DEF IInv, WebTypeOK
  <2>3. count' \in 0..real_size
    BY <1>1
  <2> QED
    BY <1>1, <1>2, <2>2, <2>3 DEF IInv, WebTypeOK
<1>7. PlaceInv'
  <2>1. \A c \in Consumer \ {t} : where[c] # "handle"
    BY <1>1 DEF IInv, PlaceInv
  <2>2. t \notin fill
    BY <1>1 DEF IInv, PlaceInv
  <2>3. where'[Producer] = where[Producer] /\ where[Producer] # "read"
    BY <1>1, <1>3 DEF IInv, PlaceInv
  <2> QED
    BY <1>1, <1>3, <2>1, <2>2, <2>3 DEF IInv, PlaceInv
<1>8. UpInv'
  <2>1. Handling' = {t}
    BY <1>1, <1>3, <1>7 DEF Handling, PlaceInv
  <2>2. Cardinality({t}) = 1
    BY FS_Singleton
  <2>3. Cardinality(Handling) = 0 /\ Cardinality(Consumer \ fill) \in Nat
    BY <1>1, Counted DEF IInv
  <2>4. fill = {} \/ Cardinality(Consumer \ fill) >= count + Cardinality(Handling)
    BY DEF IInv, UpInv
  <2> QED
    BY <1>1, <2>1, <2>2, <2>3, <2>4 DEF UpInv
<1>9. \A j, k \in 0..count-1 : j < k => Ordered(InRing(j), InRing(k))
  BY DEF IInv, RingInv
<1>10. RingInv'
  <2>1. \A k \in 0..count'-1 : InRing(k)'.filesize \in Size /\ InRing(k)'.id \in 1..Given'
    <3> TAKE k \in 0..count'-1
    <3>1. k \in 0..count-2 /\ k + 1 \in 0..count-1
      BY <1>1
    <3> QED
      BY <1>2, <1>4, <3>1 DEF IInv, RingInv
  <2>2. \A j, k \in 0..count'-1 : j < k => Ordered(InRing(j)', InRing(k)')
    <3> TAKE j, k \in 0..count'-1
    <3>1. /\ k \in 0..count-2 /\ k + 1 \in 0..count-1
          /\ j \in 0..count-2 /\ j + 1 \in 0..count-1
          /\ (j < k => j + 1 < k + 1)
      BY <1>1
    <3> QED
      BY <1>2, <1>9, <3>1
  <2> QED
    BY <1>2, <2>1, <2>2 DEF RingInv, Ordered, Sff!Before
<1>11. OnceInv'
  <2>1. ASSUME NEW k \in 0..count'-1
        PROVE  InRing(k)'.id \notin closed /\ InRing(k)'.id # InRing(0).id
    <3>1. k \in 0..count-2 /\ k + 1 \in 0..count-1 /\ 0 < k + 1
      BY <1>1
    <3>2. /\ InRing(k)' = InRing(k + 1) /\ Ordered(InRing(0), InRing(k + 1))
          /\ InRing(k + 1).id \notin closed
      BY <1>2, <1>5, <1>9, <3>1 DEF IInv, OnceInv
    <3> QED
      BY <3>2 DEF Ordered
  <2>2. closed' = closed /\ closed \subseteq 1..Given /\ accepted' = accepted
    BY <1>1 DEF IInv, OnceInv
  <2>3. \A c \in Consumer : where'[c] = "handle" => c = t
    BY <1>1, <1>7 DEF PlaceInv
  <2>4. /\ where'[Producer] = where[Producer] /\ request'[Producer] = request[Producer]
        /\ where[Producer] # "accept" =>
             request[Producer].id = accepted /\ request[Producer].filesize \in Size
        /\ where[Producer] # "accept" => accepted > 0
    BY <1>1, <1>3 DEF IInv, OnceInv
  <2> QED
    BY <1>2, <1>4, <1>5, <2>1, <2>2, <2>3, <2>4 DEF OnceInv
<1> QED
  BY <1>6, <1>7, <1>8, <1>10, <1>11 DEF IInv

\* and when it has answered it and signals.
LEMMA HandledInv ==
  ASSUME WebAssumption, IInv, NEW t \in Consumer, Handled(t) PROVE IInv'
<1>1. /\ t \in Threads /\ t # Producer /\ Nobody # t /\ Producer \in Threads
      /\ Producer \notin Consumer /\ Nobody \notin Consumer /\ Nobody # Producer
      /\ where[t] = "handle" /\ mutex = t /\ mutex' = Nobody /\ empty' = {}
      /\ where' = [q \in Threads |-> IF q = t \/ q \in empty THEN "lock" ELSE where[q]]
      /\ closed' = closed \cup {request[t].id}
      /\ UNCHANGED <<ring, fill, request, accepted>>
  BY DEF IInv, PlaceInv, WebAssumption, Threads, Handled, signalEmpty
<1>2. /\ where'[t] = "lock" /\ \A c \in Consumer \ {t} : where'[c] = where[c]
      /\ where'[Producer] = IF Producer \in empty THEN "lock" ELSE where[Producer]
      /\ empty \subseteq {Producer}
  BY <1>1 DEF IInv, WebTypeOK, Threads
<1>3. Given' = Given
  BY <1>1, <1>2 DEF Given, IInv, PlaceInv
<1>4. \A k : InRing(k)' = InRing(k)
  BY <1>1, SameRing
<1>5. WebTypeOK'
  BY <1>1 DEF IInv, WebTypeOK, ring
<1>6. PlaceInv'
  <2>1. \A c \in Consumer \ {t} : where[c] # "handle"
    BY <1>1 DEF IInv, PlaceInv
  <2>2. t \notin fill
    BY <1>1 DEF IInv, PlaceInv
  <2>3. where[Producer] # "read"
    BY <1>1 DEF IInv, PlaceInv
  <2>4. where'[Producer] \notin {"read", "wait", "handle"}
    BY <1>2, <2>3 DEF IInv, PlaceInv
  <2> QED
    BY <1>1, <1>2, <2>1, <2>2, <2>4 DEF IInv, PlaceInv
<1>7. UpInv'
  <2>1. Handling' = {}
    BY <1>1, <1>6 DEF Handling, PlaceInv
  <2>2. Cardinality({}) = 0
    BY FS_EmptySet
  <2>3. Cardinality(Handling) = 1 /\ Cardinality(Consumer \ fill) \in Nat
    BY <1>1, Counted DEF IInv
  <2>4. fill = {} \/ Cardinality(Consumer \ fill) >= count + Cardinality(Handling)
    BY DEF IInv, UpInv
  <2>5. count \in Nat /\ count' = count /\ fill' = fill
    BY <1>1 DEF IInv, WebTypeOK, WebAssumption, ring
  <2> QED
    BY <1>1, <2>1, <2>2, <2>3, <2>4, <2>5 DEF UpInv
<1>8. RingInv'
  BY <1>1, <1>3, <1>4 DEF IInv, RingInv, Ordered, Sff!Before, ring
<1>9. OnceInv'
  <2>1. \A c \in Consumer : where'[c] # "handle"
    BY <1>1, <1>6 DEF PlaceInv
  <2>2. request[t].id \in 1..Given /\ \A k \in 0..count-1 : InRing(k).id # request[t].id
    BY <1>1 DEF IInv, OnceInv
  <2>3. where'[Producer] # "accept" => where[Producer] # "accept"
    BY <1>1, <1>2 DEF IInv, PlaceInv
  <2> QED
    BY <1>1, <1>3, <1>4, <2>1, <2>2, <2>3 DEF IInv, OnceInv, ring
<1> QED
  BY <1>5, <1>6, <1>7, <1>8, <1>9 DEF IInv

\* Every step of the server keeps the invariant.
LEMMA NextInv == ASSUME WebAssumption, IInv, [WebNext]_webvars PROVE IInv'
<1>1. CASE WebNext
  BY <1>1, AcceptConnInv, ProducerWaitInv, ProducerLockInv, PutRequestInv, ConsumerWaitInv,
     GetRequestInv, HandledInv DEF WebNext, Produce, Consume
<1>2. CASE UNCHANGED webvars
  <2>1. Given' = Given /\ Handling' = Handling /\ \A k : InRing(k)' = InRing(k)
    BY <1>2, SameRing DEF Given, Handling, webvars, ring
  <2>2. RingInv' /\ OnceInv'
    BY <1>2, <2>1 DEF IInv, RingInv, OnceInv, Ordered, Sff!Before, webvars, ring
  <2> QED
    BY <1>2, <2>1, <2>2 DEF IInv, WebTypeOK, PlaceInv, UpInv, webvars, ring
<1> QED
  BY <1>1, <1>2

\* The invariant holds throughout.
THEOREM Invariant == ASSUME WebAssumption PROVE WebSpec => []IInv
<1>1. WebInit => IInv
  BY InitInv
<1>2. IInv /\ [WebNext]_webvars => IInv'
  BY NextInv
<1> QED
  BY <1>1, <1>2, PTL DEF WebSpec

\* As many consumers are up as there are requests to take, or all of them, and
\* the producer waits only while the ring is full or somebody is about to
\* signal: pthread_cond_signal() of one thread, outside of any loop, is enough.
THEOREM SignalsAreKept == ASSUME WebAssumption PROVE WebSpec => []SignalsKept
<1>1. IInv => SignalsKept
  BY DEF IInv, UpInv, SignalsKept, Handling
<1> QED
  BY <1>1, Invariant, PTL

-----------------------------------------------------------------------------
\* The connections that a consumer has taken, as the queue sees them.
Answered == {id \in 1..accepted :
               id \in closed \/ \E t \in Consumer : where[t] = "handle" /\ request[t].id = id}

\* The queue's requests are those of the ring.
LEMMA WaitingIs ==
  ASSUME WebAssumption, WebTypeOK
  PROVE Waiting = {InRing(k) : k \in 0..count-1}
<1>1. ASSUME NEW k \in 0..count-1 PROVE buffer[back(use_index, -k)] = InRing(k)
  <2>1. use_index - (-k) = use_index + k
    BY DEF WebTypeOK, Index
  <2> QED
    BY <2>1 DEF back, InRing
<1> QED
  BY <1>1 DEF Waiting

\* The empty ring is an empty queue.
LEMMA InitQueue == ASSUME WebAssumption PROVE WebInit => Sff!Init
<1> SUFFICES ASSUME WebInit PROVE Sff!Init
  OBVIOUS
<1>1. IInv
  BY InitInv
<1>2. Waiting = {}
  BY <1>1, WaitingIs DEF WebInit, IInv
<1> QED
  BY <1>2 DEF WebInit, Sff!Init

\* Before anything happens to the ring it holds no more than it has places.
LEMMA FewWait ==
  ASSUME WebAssumption, WebTypeOK PROVE IsFiniteSet(Waiting) /\ Cardinality(Waiting) <= count
<1> DEFINE K == 0..count-1
           f == [k \in K |-> InRing(k)]
<1>1. count \in Nat
  BY DEF WebTypeOK, WebAssumption
<1>2. IsFiniteSet(K) /\ Cardinality(K) = count
  <2>1. 0 \in Int /\ count - 1 \in Int
    BY <1>1
  <2>2. IsFiniteSet(K) /\ Cardinality(K) = IF 0 > count - 1 THEN 0 ELSE (count - 1) - 0 + 1
    BY <2>1, FS_Interval
  <2> QED
    BY <1>1, <2>2
<1>3. f \in Surjection(K, Waiting)
  <2>1. Waiting = {InRing(k) : k \in K}
    BY WaitingIs
  <2> QED
    BY <2>1 DEF Surjection
<1> HIDE DEF K, f
<1> QED
  BY <1>2, <1>3, FS_Surjection

\* Cardinality is the same operator in both modules.
LEMMA SameCard == \A S : Sff!Cardinality(S) = Cardinality(S)
BY DEF Sff!Cardinality, Cardinality

\* A step that leaves the ring alone and answers nobody is a stutter.
LEMMA Stutters ==
  ASSUME WebAssumption, UNCHANGED Waiting, UNCHANGED Answered
  PROVE  UNCHANGED Sff!vars
BY DEF Sff!vars, Answered

\* put() adds a new connection to the queue, which has room for it.
LEMMA PutImplemented == ASSUME WebAssumption, IInv, PutRequest PROVE Sff!Put(accepted)
<1> DEFINE r == request[Producer]
<1>1. /\ Producer \in Threads /\ where[Producer] = "read" /\ count < real_size
      /\ count \in Nat /\ count' = count + 1 /\ mutex = Producer /\ mutex' = Nobody
      /\ Producer \notin Consumer /\ Nobody \notin Consumer
      /\ real_size \in Nat /\ UNCHANGED <<request, accepted, closed>>
  BY DEF IInv, PutRequest, put, PlaceInv, WebTypeOK, WebAssumption, Threads
<1>2. /\ Given = accepted - 1 /\ accepted \in 1..MaxConns
      /\ \A k \in 0..count : InRing(k)' = r \/ \E j \in 0..count-1 : InRing(k)' = InRing(j)
      /\ \E k \in 0..count : InRing(k)' = r
      /\ \A j \in 0..count-1 : \E k \in 0..count : InRing(k)' = InRing(j)
  BY PutRequestRing
<1>3. r \in [id : Nat, filesize : Nat] /\ r.id = accepted /\ r.filesize \in Size
  BY <1>1 DEF IInv, WebTypeOK, OnceInv
<1>4. IInv'
  BY PutRequestInv
<1>5. Waiting = {InRing(k) : k \in 0..count-1}
  BY WaitingIs DEF IInv
<1>6. Waiting' = {InRing(k)' : k \in 0..count}
  <2>1. ASSUME NEW k \in 0..count PROVE use_index' - (-k) = use_index' + k
    BY <1>4 DEF IInv, WebTypeOK, Index
  <2>2. count' - 1 = count
    BY <1>1
  <2>3. ASSUME NEW k \in 0..count PROVE buffer'[(use_index' - (-k)) % real_size] = InRing(k)'
    BY <2>1 DEF InRing
  <2> QED
    BY <2>2, <2>3 DEF Waiting, back
<1> HIDE DEF r
<1>7. Waiting' = Waiting \cup {r}
  BY <1>2, <1>5, <1>6
<1>8. r = [id |-> accepted, filesize |-> r.filesize]
  BY <1>3
<1>9. Cardinality(Waiting) < real_size
  <2>1. Cardinality(Waiting) <= count /\ Cardinality(Waiting) \in Nat
    BY FewWait, FS_CardinalityType DEF IInv
  <2> QED
    BY <1>1, <2>1
<1>10. \A s \in Waiting : s.id < accepted
  <2>1. \A k \in 0..count-1 : InRing(k).id \in 1..Given
    BY DEF IInv, RingInv
  <2> QED
    BY <1>2, <1>5, <2>1
<1>11. \A c \in Consumer : where[c] # "handle" /\ where'[c] # "handle"
  BY <1>1, <1>4 DEF IInv, PlaceInv
<1>12. accepted \notin Answered /\ Answered' = Answered
  <2>1. closed \subseteq 1..Given
    BY DEF IInv, OnceInv
  <2> QED
    BY <1>1, <1>2, <1>11, <2>1 DEF Answered
<1>13. \E s \in Size : Waiting' = Waiting \cup {[id |-> accepted, filesize |-> s]}
  BY <1>3, <1>7, <1>8
<1>14. Cardinality(Waiting) < real_size /\ accepted \notin Answered
  BY <1>9, <1>12
<1>15. UNCHANGED Answered
  BY <1>12
<1> QED
  BY <1>10, <1>13, <1>14, <1>15, SameCard DEF Sff!Put, Answered

\* get() takes the one that comes before all others.
LEMMA GetImplemented ==
  ASSUME WebAssumption, IInv, NEW t \in Consumer, GetRequest(t)
  PROVE  InRing(0) \in Waiting /\ Sff!Take(InRing(0))
<1>1. /\ t \in Threads /\ Nobody \notin Consumer
      /\ count \in 1..real_size /\ count' = count - 1 /\ mutex = Nobody /\ mutex' = t
      /\ where' = [where EXCEPT ![t] = "handle"] /\ UNCHANGED <<buffer, accepted, closed>>
      /\ real_size \in Nat
  BY DEF IInv, WebTypeOK, WebAssumption, Threads, GetRequest, get
<1>2. /\ request'[t] = InRing(0) /\ use_index' \in Index
      /\ \A k \in 0..count-2 : InRing(k)' = InRing(k + 1)
  BY GetRing
<1>3. IInv'
  BY GetRequestInv
<1>4. Waiting = {InRing(k) : k \in 0..count-1}
  BY WaitingIs DEF IInv
<1>5. Waiting' = {InRing(k + 1) : k \in 0..count-2}
  <2>1. ASSUME NEW k \in 0..count-2 PROVE use_index' - (-k) = use_index' + k
    BY <1>2 DEF Index
  <2>2. count' - 1 = count - 2
    BY <1>1
  <2>3. ASSUME NEW k \in 0..count-2 PROVE buffer'[(use_index' - (-k)) % real_size] = InRing(k + 1)
    BY <1>2, <2>1 DEF InRing
  <2> QED
    BY <2>2, <2>3 DEF Waiting, back
<1>6. \A k \in 0..count-1 : k > 0 => Ordered(InRing(0), InRing(k))
  <2>1. 0 \in 0..count-1
    BY <1>1
  <2> QED
    BY <2>1 DEF IInv, RingInv
<1>7. Waiting' = Waiting \ {InRing(0)} /\ InRing(0) \in Waiting
  <2>1. ASSUME NEW k \in 0..count-2 PROVE InRing(k + 1) \in Waiting \ {InRing(0)}
    <3>1. k + 1 \in 0..count-1 /\ k + 1 > 0
      BY <1>1
    <3> QED
      BY <1>4, <1>6, <3>1 DEF Ordered
  <2>2. ASSUME NEW k \in 0..count-1, InRing(k) # InRing(0) PROVE InRing(k) \in Waiting'
    <3> DEFINE m == k - 1
    <3>1. m \in 0..count-2 /\ m + 1 = k
      BY <1>1, <2>2
    <3> HIDE DEF m
    <3> QED
      BY <1>5, <3>1
  <2>3. 0 \in 0..count-1
    BY <1>1
  <2> QED
    BY <1>4, <1>5, <2>1, <2>2, <2>3
<1>8. \A s \in Waiting \ {InRing(0)} : Sff!Before(InRing(0), s)
  <2>1. ASSUME NEW k \in 0..count-1, InRing(k) # InRing(0) PROVE Sff!Before(InRing(0), InRing(k))
    BY <1>6, <2>1 DEF Ordered
  <2> QED
    BY <1>4, <2>1
<1>9. \A c \in Consumer : where[c] # "handle" /\ (where'[c] = "handle" <=> c = t)
  BY <1>1, <1>3 DEF IInv, PlaceInv
<1>10. Answered' = Answered \cup {InRing(0).id}
  <2>1. InRing(0).id \in 1..accepted
    <3>1. 0 \in 0..count-1
      BY <1>1
    <3> QED
      BY <3>1 DEF IInv, RingInv, Given, WebTypeOK
  <2> QED
    BY <1>1, <1>2, <1>9, <2>1 DEF Answered
<1> QED
  BY <1>7, <1>8, <1>10 DEF Sff!Take, Answered

\* A connection counts as answered from when it was taken.
LEMMA HandledImplemented ==
  ASSUME WebAssumption, IInv, NEW t \in Consumer, Handled(t) PROVE UNCHANGED Answered
<1>1. /\ where[t] = "handle" /\ closed' = closed \cup {request[t].id}
      /\ mutex' = Nobody /\ mutex = t
      /\ UNCHANGED <<request, accepted>> /\ Nobody \notin Consumer
  BY DEF Handled, IInv, PlaceInv, WebAssumption
<1>2. IInv'
  BY HandledInv
<1>3. \A c \in Consumer : where'[c] # "handle" /\ (where[c] = "handle" <=> c = t)
  BY <1>1, <1>2 DEF IInv, PlaceInv
<1> QED
  BY <1>1, <1>3 DEF Answered

\* Every step of the server is one of the queue, or changes nothing there.
LEMMA StepImplemented == ASSUME WebAssumption, IInv, [WebNext]_webvars PROVE [Sff!Next]_(Sff!vars)
<1>1. UNCHANGED ring => UNCHANGED Waiting
  BY DEF ring, Waiting
<1>2. CASE AcceptConn
  <2>1. UNCHANGED Answered
    <3>1. \A c \in Consumer : where'[c] = where[c] /\ request'[c] = request[c]
      BY <1>2 DEF AcceptConn, IInv, WebTypeOK, WebAssumption, Threads
    <3>2. closed \subseteq 1..accepted
          /\ \A c \in Consumer : where[c] = "handle" => request[c].id \in 1..accepted
      BY <1>2 DEF AcceptConn, IInv, OnceInv, Given
    <3>3. accepted \in Nat /\ accepted' = accepted + 1 /\ closed' = closed
      BY <1>2 DEF AcceptConn, IInv, WebTypeOK
    <3> QED
      BY <3>1, <3>2, <3>3 DEF Answered
  <2> QED
    BY <1>1, <1>2, <2>1, Stutters DEF AcceptConn
<1>3. CASE ProducerWait \/ ProducerLock
  <2>1. \A c \in Consumer : where'[c] = where[c]
    BY <1>3 DEF ProducerWait, ProducerLock, IInv, WebTypeOK, WebAssumption, Threads
  <2>2. UNCHANGED Answered
    BY <1>3, <2>1 DEF ProducerWait, ProducerLock, Answered
  <2> QED
    BY <1>1, <1>3, <2>2, Stutters DEF ProducerWait, ProducerLock
<1>4. CASE PutRequest
  <2>1. accepted \in 1..MaxConns
    BY <1>4, PutRequestRing
  <2> QED
    BY <1>4, <2>1, PutImplemented DEF Sff!Next
<1>5. ASSUME NEW t \in Consumer, ConsumerWait(t) PROVE [Sff!Next]_(Sff!vars)
  <2>1. \A c \in Consumer : where'[c] = "handle" <=> where[c] = "handle"
    BY <1>5 DEF ConsumerWait, IInv, WebTypeOK, Threads
  <2>2. UNCHANGED Answered
    BY <1>5, <2>1 DEF ConsumerWait, Answered
  <2> QED
    BY <1>1, <1>5, <2>2, Stutters DEF ConsumerWait
<1>6. ASSUME NEW t \in Consumer, GetRequest(t) PROVE [Sff!Next]_(Sff!vars)
  <2>1. InRing(0) \in Waiting /\ Sff!Take(InRing(0))
    BY <1>6, GetImplemented
  <2>2. \E r \in Waiting : Sff!Take(r)
    BY <2>1 DEF Sff!Take
  <2> QED
    BY <2>2 DEF Sff!Next
<1>7. ASSUME NEW t \in Consumer, Handled(t) PROVE [Sff!Next]_(Sff!vars)
  BY <1>1, <1>7, HandledImplemented, Stutters DEF Handled
<1>8. CASE UNCHANGED webvars
  BY <1>8 DEF webvars, Sff!vars, Waiting
<1> QED
  BY <1>2, <1>3, <1>4, <1>5, <1>6, <1>7, <1>8 DEF WebNext, Produce, Consume

\* The ring between producer and consumers is a queue that gives the smallest
\* file first.
THEOREM RingIsQueue == ASSUME WebAssumption PROVE WebSpec => ImplementsSff
<1>1. WebInit => Sff!Init
  BY InitQueue
<1>2. IInv /\ [WebNext]_webvars => [Sff!Next]_(Sff!vars)
  BY StepImplemented
<1> QED
  BY <1>1, <1>2, Invariant, PTL DEF WebSpec, Sff!Spec, ImplementsSff

-----------------------------------------------------------------------------
(* sbrk() *)

\* The types of sbrk()'s variables.
SpaceTypeOK ==
    /\ sz \in [Sharer -> Nat] /\ mem_lock_ptr \in [Sharer -> Sharer]
    /\ mapped \subseteq Nat /\ IsFiniteSet(mapped) /\ kfreelist \in Nat
    /\ emptied \in BOOLEAN
    /\ call \in [Sharer -> [pc : {"out", "alloc", "dealloc", "store", "tell"},
                            old : Nat, new : Nat, page : Nat]]

\* All threads take the lock of the first one, so one is inside at most.
LockInv ==
    /\ Alive(Leader) /\ mem_lock_ptr[Leader] = Leader
    /\ locked \subseteq {Leader}
    /\ \A p \in Sharer : Alive(p) => mem_lock_ptr[p] = Leader
    /\ \A p \in Sharer : call[p].pc # "out" => Alive(p) /\ Leader \in locked
    /\ \A p, q \in Sharer : call[p].pc # "out" /\ call[q].pc # "out" => p = q

\* The size they know is the one the thread inside has read, until it stores.
SizesInv ==
    /\ \A p \in Sharer : call[p].pc # "out" =>
         call[p].old > 0 /\ (call[p].new > 0 \/ (call[p].pc = "dealloc" /\ emptied))
    /\ \A p, q \in Sharer :
         Alive(p) /\ Alive(q) /\ call[p].pc # "tell" /\ call[q].pc # "tell"
            => sz[p] = sz[q]
    /\ \A p \in Sharer : call[p].pc \in {"alloc", "dealloc", "store"} => sz[p] = call[p].old
    /\ \A p \in Sharer : call[p].pc = "tell" => sz[p] = call[p].new

\* Pages are counted, so this is the number of those below address a.
Up(a) == PGROUNDUP(a)

\* What is mapped at each place of sbrk(): all pages below the size, and between
\* them and the old or the new size those that the loop has come to; no others,
\* and fewer when the process has once been emptied.  m are the mapped pages.
Filled(m, e, T) == m \subseteq T /\ (~e => m = T)

PagesInv ==
    /\ (\A p \in Sharer : call[p].pc = "out") => Filled(mapped, emptied, 0..Up(sz[Leader]) - 1)
    /\ \A p \in Sharer : call[p].pc = "alloc" =>
         /\ call[p].old < call[p].new
         /\ Up(call[p].old) <= call[p].page
         /\ \/ call[p].page = Up(call[p].old)
            \/ call[p].new <= USERTOP /\ call[p].page <= Up(call[p].new)
         /\ Filled(mapped, emptied, 0..call[p].page - 1)
    /\ \A p \in Sharer : call[p].pc = "dealloc" =>
         /\ call[p].new < call[p].old
         /\ Up(call[p].new) <= call[p].page
         /\ Filled(mapped, emptied,
                   (0..Up(call[p].new) - 1) \cup (call[p].page..Up(call[p].old) - 1))
    /\ \A p \in Sharer : call[p].pc \in {"store", "tell"} =>
         Filled(mapped, emptied, 0..Up(call[p].new) - 1)

\* No page is lost, none is counted twice.
CountInv == kfreelist + Cardinality(mapped) = FreePages + 1

\* The inductive invariant of sbrk().
SpaceInv == SpaceTypeOK /\ LockInv /\ SizesInv /\ PagesInv /\ CountInv

-----------------------------------------------------------------------------
\* Page k lies below address a when it begins below it.
LEMMA Pages ==
  ASSUME SbrkAssumption, NEW a \in Nat
  PROVE  /\ Up(a) \in Nat
         /\ a > 0 => Up(a) > 0
         /\ \A k \in Int : k * PGSIZE < a <=> k < Up(a)
<1> DEFINE b == a + PGSIZE - 1
           d == b \div PGSIZE
           r == b % PGSIZE
<1>1. PGSIZE \in Nat \ {0}
  BY DEF SbrkAssumption
<1>2. b \in Nat /\ b = a + PGSIZE - 1
  BY <1>1
<1> HIDE DEF b
<1>3. d \in Int /\ r \in 0..PGSIZE-1 /\ b = d * PGSIZE + r
  BY <1>1, <1>2
<1>4. Up(a) = d
  BY DEF Up, PGROUNDUP, b
<1> HIDE DEF d, r
<1>5. ASSUME NEW k \in Int PROVE k * PGSIZE < a <=> k < d
  <2>1. CASE k < d
    <3>1. (d - 1 - k) * PGSIZE >= 0
      BY <1>1, <1>3, <2>1
    <3>2. (d - 1 - k) * PGSIZE = d * PGSIZE - PGSIZE - k * PGSIZE
      BY <1>1, <1>3
    <3> QED
      BY <1>1, <1>2, <1>3, <2>1, <3>1, <3>2
  <2>2. CASE k >= d
    <3>1. (k - d) * PGSIZE >= 0
      BY <1>1, <1>3, <2>2
    <3>2. (k - d) * PGSIZE = k * PGSIZE - d * PGSIZE
      BY <1>1, <1>3
    <3> QED
      BY <1>1, <1>2, <1>3, <2>2, <3>1, <3>2
  <2> QED
    BY <1>3, <2>1, <2>2
<1>6. d >= 0 /\ (a > 0 => d > 0)
  <2>1. (-1) * PGSIZE < a /\ (a > 0 => 0 * PGSIZE < a)
    BY <1>1
  <2> QED
    BY <1>3, <1>5, <2>1
<1> QED
  BY <1>3, <1>4, <1>5, <1>6

\* A larger size has no fewer pages.
LEMMA PagesGrow ==
  ASSUME SbrkAssumption, NEW a \in Nat, NEW b \in Nat, a <= b PROVE Up(a) <= Up(b)
<1>1. Up(a) \in Nat /\ Up(b) \in Nat
  BY Pages
<1> DEFINE k == Up(b)
<1>2. k \in Int
  BY <1>1
<1> HIDE DEF k
<1>3. (k * PGSIZE < a <=> k < Up(a)) /\ (k * PGSIZE < b <=> k < Up(b)) /\ k * PGSIZE \in Int
  BY <1>2, Pages DEF SbrkAssumption
<1> QED
  BY <1>1, <1>3 DEF k

\* The invariant of sbrk() holds when the process starts.
LEMMA SpaceInit == ASSUME SbrkAssumption PROVE SbrkInit => SpaceInv
<1> SUFFICES ASSUME SbrkInit PROVE SpaceInv
  OBVIOUS
<1> USE DEF SbrkAssumption, SbrkInit, Out
<1>1. SpaceTypeOK
  <2>1. IsFiniteSet({0})
    BY FS_Singleton
  <2>2. emptied \in BOOLEAN
    OBVIOUS
  <2> QED
    BY <2>1, <2>2 DEF SpaceTypeOK
<1>2. LockInv
  BY DEF LockInv, Alive
<1>3. SizesInv
  BY DEF SizesInv, Alive
<1>4. Up(sz[Leader]) = 1
  <2>1. PGSIZE \in Nat /\ sz[Leader] = PGSIZE
    OBVIOUS
  <2>2. 0 * PGSIZE < PGSIZE /\ ~ 1 * PGSIZE < PGSIZE
    OBVIOUS
  <2>3. Up(PGSIZE) \in Nat /\ 0 < Up(PGSIZE) /\ ~ 1 < Up(PGSIZE)
    BY <2>1, <2>2, Pages
  <2> QED
    BY <2>1, <2>3
<1>5. PagesInv
  BY <1>4 DEF PagesInv, Filled
<1>6. CountInv
  <2>1. Cardinality({0}) = 1
    BY FS_Singleton
  <2> QED
    BY <2>1 DEF CountInv
<1> QED
  BY <1>1, <1>2, <1>3, <1>5, <1>6 DEF SpaceInv

\* A new thread knows the size and takes the lock of the first.
LEMMA CloneInv ==
  ASSUME SbrkAssumption, SpaceInv, NEW p \in Sharer, Clone(p) PROVE SpaceInv'
<1> USE DEF SpaceInv, Clone, SbrkAssumption
<1>1. /\ \A q \in Sharer : call[q].pc = "out" /\ call' = call
      /\ p # Leader
  BY DEF LockInv
<1>2. SpaceTypeOK'
  BY DEF SpaceTypeOK
<1>3. \A q \in Sharer : sz'[q] = (IF q = p THEN sz[Leader] ELSE sz[q])
                      /\ mem_lock_ptr'[q] = (IF q = p THEN Leader ELSE mem_lock_ptr[q])
  BY DEF SpaceTypeOK
<1>4. LockInv'
  BY <1>1, <1>3 DEF LockInv, Alive
<1>5. SizesInv'
  <2>1. \A q \in Sharer : Alive(q) => sz[q] = sz[Leader]
    BY <1>1 DEF SizesInv, LockInv
  <2>2. \A q \in Sharer : Alive(q)' => sz'[q] = sz[Leader]
    BY <1>3, <2>1 DEF Alive
  <2> QED
    BY <1>1, <2>2 DEF SizesInv
<1>6. PagesInv' /\ CountInv'
  BY <1>1, <1>3 DEF PagesInv, Filled, CountInv
<1> QED
  BY <1>2, <1>4, <1>5, <1>6

\* Who takes the lock finds nobody inside, and starts from the size all know.
LEMMA SbrkInv ==
  ASSUME SbrkAssumption, SpaceInv, NEW p \in Sharer, Sbrk(p) PROVE SpaceInv'
<1>1. /\ Alive(p) /\ call[p].pc = "out" /\ mem_lock_ptr[p] = Leader /\ Leader \notin locked
      /\ locked' = locked \cup {Leader} /\ Leader \in Sharer
      /\ UNCHANGED <<sz, mem_lock_ptr, mapped, kfreelist>>
  BY DEF SpaceInv, LockInv, Sbrk, SbrkAssumption
<1>2. \A q \in Sharer : call[q].pc = "out"
  BY <1>1 DEF SpaceInv, LockInv
<1>3. PICK n \in Change :
         LET m == IF sz[p] + n < 0 THEN sz[p] ELSE sz[p] + n IN
         /\ call' = [call EXCEPT ![p] =
              [pc |-> IF m > sz[p] THEN "alloc" ELSE IF m < sz[p] THEN "dealloc" ELSE "store",
               old |-> sz[p], new |-> m, page |-> Up(IF m > sz[p] THEN sz[p] ELSE m)]]
         /\ emptied' = (emptied \/ m = 0)
  BY DEF Sbrk, Up
<1> DEFINE old == sz[p]
           new == IF old + n < 0 THEN old ELSE old + n
           page == Up(IF new > old THEN old ELSE new)
<1>4. old \in Nat /\ new \in Nat /\ old > 0
  <2>1. n \in Int /\ old \in Nat /\ old > 0
    BY <1>1 DEF SpaceInv, SpaceTypeOK, Alive, SbrkAssumption
  <2> QED
    BY <2>1
<1>6. /\ call' = [call EXCEPT ![p] =
              [pc |-> IF new > old THEN "alloc" ELSE IF new < old THEN "dealloc" ELSE "store",
               old |-> old, new |-> new, page |-> page]]
      /\ emptied' = (emptied \/ new = 0)
  BY <1>3
<1> HIDE DEF new
<1>5. Up(old) \in Nat /\ Up(new) \in Nat /\ page = (IF new > old THEN Up(old) ELSE Up(new))
  <2>1. Up(old) \in Nat /\ Up(new) \in Nat
    BY <1>4, Pages
  <2>2. page = (IF new > old THEN Up(old) ELSE Up(new))
    OBVIOUS
  <2> QED
    BY <2>1, <2>2
<1> HIDE DEF old, page
<1>7. /\ call'[p] = [pc |-> IF new > old THEN "alloc" ELSE IF new < old THEN "dealloc" ELSE "store",
                     old |-> old, new |-> new, page |-> page]
      /\ \A q \in Sharer \ {p} : call'[q] = call[q]
  BY <1>6 DEF SpaceInv, SpaceTypeOK
<1>8. SpaceTypeOK'
  BY <1>1, <1>4, <1>5, <1>6 DEF SpaceInv, SpaceTypeOK
<1>9. LockInv'
  BY <1>1, <1>2, <1>7 DEF SpaceInv, LockInv, Alive
<1>10. SizesInv'
  <2>1. \A q \in Sharer : Alive(q) => sz[q] = old
    BY <1>1, <1>2 DEF SpaceInv, SizesInv, old
  <2>2. new > 0 \/ (call'[p].pc = "dealloc" /\ emptied')
    <3>1. CASE new = 0
      <4>1. emptied'
        BY <1>6, <3>1, Zenon
      <4>2. new < old /\ ~ new > old
        BY <1>1, <1>4, <3>1 DEF SpaceInv, SizesInv, Alive, old
      <4> QED
        BY <1>7, <4>1, <4>2
    <3> QED
      BY <1>4, <3>1
  <2> QED
    BY <1>1, <1>2, <1>4, <1>7, <2>1, <2>2 DEF SizesInv, Alive, old
<1>11. mapped \subseteq 0..Up(old) - 1 /\ (~emptied' => mapped = 0..Up(old) - 1)
  <2>1. sz[Leader] = old
    BY <1>1, <1>2 DEF SpaceInv, SizesInv, LockInv, old
  <2> QED
    BY <1>2, <1>6, <2>1 DEF SpaceInv, PagesInv, Filled
<1>12. PagesInv'
  <2>1. CASE new > old
    <3>1. old < new /\ page = Up(old)
      BY <1>4, <1>5, <2>1
    <3> QED
      BY <1>1, <1>2, <1>5, <1>7, <1>11, <2>1, <3>1, <1>4 DEF PagesInv, Filled
  <2>2. CASE new < old
    <3>1. ~ new > old /\ page = Up(new) /\ Up(new) <= Up(old)
      BY <1>4, <1>5, <2>2, PagesGrow
    <3>2. 0..Up(old) - 1 = (0..Up(new) - 1) \cup (Up(new)..Up(old) - 1)
      BY <1>5, <3>1
    <3> QED
      BY <1>1, <1>2, <1>5, <1>7, <1>11, <2>2, <3>1, <3>2, <1>4 DEF PagesInv, Filled
  <2>3. CASE new = old
    <3>1. call'[p].pc = "store" /\ call'[p].new = old
      BY <1>4, <1>7, <2>3
    <3> QED
      BY <1>1, <1>2, <1>7, <1>11, <3>1 DEF PagesInv, Filled
  <2> QED
    BY <1>4, <2>1, <2>2, <2>3
<1>13. CountInv'
  BY <1>1 DEF SpaceInv, CountInv
<1> QED
  BY <1>8, <1>9, <1>10, <1>12, <1>13 DEF SpaceInv

\* Who is inside sbrk() is alone there.
LEMMA Inside ==
  ASSUME SpaceInv, NEW p \in Sharer, call[p].pc # "out"
  PROVE  /\ \A q \in Sharer \ {p} : call[q].pc = "out"
         /\ Alive(p) /\ mem_lock_ptr[p] = Leader
         /\ call[p].old \in Nat /\ call[p].new \in Nat /\ call[p].page \in Nat
         /\ call[p].old > 0 /\ (call[p].pc # "dealloc" => call[p].new > 0)
BY DEF SpaceInv, LockInv, SizesInv, SpaceTypeOK

\* A step inside sbrk() that changes no size and keeps the lock.
LEMMA InsideInv ==
  ASSUME SpaceInv, NEW p \in Sharer, call[p].pc # "out",
         UNCHANGED <<sz, mem_lock_ptr, locked, emptied>>,
         \A q \in Sharer \ {p} : call'[q] = call[q],
         call'[p].old = call[p].old, call'[p].new = call[p].new,
         \/ call'[p].pc = call[p].pc
         \/ call[p].pc \in {"alloc", "dealloc"} /\ call'[p].pc = "store" /\ call[p].new # 0
  PROVE  LockInv' /\ SizesInv'
<1>1. LockInv'
  BY DEF SpaceInv, LockInv, Alive
<1>2. SizesInv'
  <2>1. \A q \in Sharer : call'[q].pc # "out" =>
          call'[q].old > 0 /\ (call'[q].new > 0 \/ (call'[q].pc = "dealloc" /\ emptied'))
    BY DEF SpaceInv, SpaceTypeOK, SizesInv
  <2>2. \A q, r \in Sharer :
          Alive(q)' /\ Alive(r)' /\ call'[q].pc # "tell" /\ call'[r].pc # "tell" =>
          sz'[q] = sz'[r]
    BY DEF SpaceInv, SizesInv, Alive
  <2>3. \A q \in Sharer :
          /\ call'[q].pc \in {"alloc", "dealloc", "store"} => sz'[q] = call'[q].old
          /\ call'[q].pc = "tell" => sz'[q] = call'[q].new
    BY DEF SpaceInv, SizesInv
  <2> QED
    BY <2>1, <2>2, <2>3 DEF SizesInv
<1> QED
  BY <1>1, <1>2

\* The next page is not mapped yet, and is there afterwards.
LEMMA AllocPageInv ==
  ASSUME SbrkAssumption, SpaceInv, NEW p \in Sharer, AllocPage(p) PROVE SpaceInv'
<1> DEFINE old == call[p].old
           new == call[p].new
           page == call[p].page
<1>1. /\ call[p].pc = "alloc" /\ new <= USERTOP /\ page * PGSIZE < new /\ kfreelist > 0
      /\ mapped' = mapped \cup {page} /\ kfreelist' = kfreelist - 1
      /\ call' = [call EXCEPT ![p].page = @ + 1]
      /\ UNCHANGED <<sz, mem_lock_ptr, locked, emptied>>
  BY DEF AllocPage
<1>2. /\ \A q \in Sharer \ {p} : call[q].pc = "out"
      /\ old \in Nat /\ new \in Nat /\ page \in Nat
  BY <1>1, Inside
<1>3. /\ call'[p].pc = "alloc" /\ call'[p].old = old /\ call'[p].new = new
      /\ call'[p].page = page + 1 /\ \A q \in Sharer \ {p} : call'[q] = call[q]
  BY <1>1 DEF SpaceInv, SpaceTypeOK
<1>4. old < new /\ Up(old) <= page /\ Filled(mapped, emptied, 0..page - 1)
  BY <1>1 DEF SpaceInv, PagesInv
<1>5. page < Up(new) /\ Up(new) \in Nat /\ Up(old) \in Nat
  BY <1>1, <1>2, Pages
<1> HIDE DEF old, new, page
<1>6. SpaceTypeOK'
  <2>1. call' \in [Sharer -> [pc : {"out", "alloc", "dealloc", "store", "tell"},
                             old : Nat, new : Nat, page : Nat]]
    BY <1>1, <1>2 DEF SpaceInv, SpaceTypeOK, page
  <2>2. IsFiniteSet(mapped')
    BY <1>1, FS_AddElement DEF SpaceInv, SpaceTypeOK
  <2> QED
    BY <1>1, <1>2, <2>1, <2>2 DEF SpaceInv, SpaceTypeOK
<1>7. LockInv' /\ SizesInv'
  BY <1>1, <1>3, InsideInv DEF old, new
<1>8. PagesInv'
  <2>1. Filled(mapped', emptied', 0..page + 1 - 1)
    BY <1>1, <1>2, <1>4 DEF Filled
  <2>2. Up(old) <= page + 1 /\ page + 1 <= Up(new)
    BY <1>2, <1>4, <1>5
  <2>3. page + 1 \in Int /\ \A q \in Sharer : call'[q].pc = "alloc" => q = p
    BY <1>2, <1>3
  <2>4. \A q \in Sharer : call'[q].pc \notin {"dealloc", "store", "tell"}
    BY <1>2, <1>3
  <2> QED
    BY <1>1, <1>3, <1>4, <2>1, <2>2, <2>3, <2>4 DEF PagesInv, Filled
<1>9. CountInv'
  <2>1. page \notin mapped
    BY <1>2, <1>4 DEF Filled
  <2>2. Cardinality(mapped') = Cardinality(mapped) + 1 /\ Cardinality(mapped) \in Nat
    BY <1>1, <2>1, FS_AddElement, FS_CardinalityType DEF SpaceInv, SpaceTypeOK
  <2> QED
    BY <1>1, <2>2 DEF SpaceInv, CountInv, SpaceTypeOK
<1> QED
  BY <1>6, <1>7, <1>8, <1>9 DEF SpaceInv

\* When allocuvm() is done, all pages below the new size are mapped.
LEMMA AllocatedInv ==
  ASSUME SbrkAssumption, SpaceInv, NEW p \in Sharer, Allocated(p) PROVE SpaceInv'
<1> DEFINE old == call[p].old
           new == call[p].new
           page == call[p].page
<1>1. /\ call[p].pc = "alloc" /\ new <= USERTOP /\ page * PGSIZE >= new
      /\ call' = [call EXCEPT ![p].pc = "store"]
      /\ UNCHANGED <<sz, mem_lock_ptr, locked, mapped, kfreelist, emptied>>
  BY DEF Allocated
<1>2. /\ \A q \in Sharer \ {p} : call[q].pc = "out"
      /\ old \in Nat /\ new \in Nat /\ page \in Nat /\ new # 0
  BY <1>1, Inside
<1>3. /\ call'[p].pc = "store" /\ call'[p].old = old /\ call'[p].new = new
      /\ \A q \in Sharer \ {p} : call'[q] = call[q]
  BY <1>1 DEF SpaceInv, SpaceTypeOK
<1>4. old < new /\ Filled(mapped, emptied, 0..page - 1) /\ (page = Up(old) \/ page <= Up(new))
  BY <1>1 DEF SpaceInv, PagesInv
<1>5. page = Up(new)
  <2>1. ~ page * PGSIZE < new
    <3>1. page * PGSIZE \in Int
      BY <1>2 DEF SbrkAssumption
    <3> QED
      BY <1>1, <1>2, <3>1
  <2>2. ~ page < Up(new) /\ Up(new) \in Nat /\ Up(old) \in Nat
    BY <1>2, <2>1, Pages
  <2>3. Up(old) <= Up(new)
    BY <1>2, <1>4, PagesGrow
  <2> QED
    BY <1>2, <1>4, <2>2, <2>3
<1> HIDE DEF old, new, page
<1>6. SpaceTypeOK'
  BY <1>1 DEF SpaceInv, SpaceTypeOK
<1>7. LockInv' /\ SizesInv'
  BY <1>1, <1>2, <1>3, InsideInv DEF old, new
<1>8. PagesInv'
  <2>1. Filled(mapped', emptied', 0..Up(new) - 1)
    BY <1>1, <1>4, <1>5 DEF Filled
  <2> QED
    BY <1>1, <1>2, <1>3, <2>1 DEF PagesInv
<1>9. CountInv'
  BY <1>1 DEF SpaceInv, CountInv
<1> QED
  BY <1>6, <1>7, <1>8, <1>9 DEF SpaceInv

\* The next page is given back.
LEMMA DeallocPageInv ==
  ASSUME SbrkAssumption, SpaceInv, NEW p \in Sharer, DeallocPage(p) PROVE SpaceInv'
<1> DEFINE old == call[p].old
           new == call[p].new
           page == call[p].page
<1>1. /\ call[p].pc = "dealloc" /\ page * PGSIZE < old
      /\ mapped' = mapped \ {page}
      /\ kfreelist' = IF page \in mapped THEN kfreelist + 1 ELSE kfreelist
      /\ call' = [call EXCEPT ![p].page = @ + 1]
      /\ UNCHANGED <<sz, mem_lock_ptr, locked, emptied>>
  BY DEF DeallocPage
<1>2. /\ \A q \in Sharer \ {p} : call[q].pc = "out"
      /\ old \in Nat /\ new \in Nat /\ page \in Nat
  BY <1>1, Inside
<1>3. /\ call'[p].pc = "dealloc" /\ call'[p].old = old /\ call'[p].new = new
      /\ call'[p].page = page + 1 /\ \A q \in Sharer \ {p} : call'[q] = call[q]
  BY <1>1 DEF SpaceInv, SpaceTypeOK
<1>4. new < old /\ Up(new) <= page /\ Filled(mapped, emptied, (0..Up(new) - 1) \cup (page..Up(old) - 1))
  BY <1>1 DEF SpaceInv, PagesInv
<1>5. page < Up(old) /\ Up(new) \in Nat /\ Up(old) \in Nat
  BY <1>1, <1>2, Pages
<1> HIDE DEF old, new, page
<1>6. SpaceTypeOK'
  <2>1. call' \in [Sharer -> [pc : {"out", "alloc", "dealloc", "store", "tell"},
                             old : Nat, new : Nat, page : Nat]]
    BY <1>1, <1>2 DEF SpaceInv, SpaceTypeOK, page
  <2>2. IsFiniteSet(mapped')
    BY <1>1, FS_RemoveElement DEF SpaceInv, SpaceTypeOK
  <2> QED
    BY <1>1, <1>2, <2>1, <2>2 DEF SpaceInv, SpaceTypeOK
<1>7. LockInv' /\ SizesInv'
  BY <1>1, <1>3, InsideInv DEF old, new
<1>8. PagesInv'
  <2>1. Filled(mapped', emptied', (0..Up(new) - 1) \cup (page + 1..Up(old) - 1))
    BY <1>1, <1>2, <1>4, <1>5 DEF Filled
  <2>2. Up(new) <= page + 1
    BY <1>2, <1>4, <1>5
  <2> QED
    BY <1>1, <1>2, <1>3, <1>4, <2>1, <2>2 DEF PagesInv
<1>9. CountInv'
  <2>1. CASE page \in mapped
    <3>1. Cardinality(mapped') = Cardinality(mapped) - 1 /\ Cardinality(mapped) \in Nat
      BY <1>1, <2>1, FS_RemoveElement, FS_CardinalityType DEF SpaceInv, SpaceTypeOK
    <3> QED
      BY <1>1, <2>1, <3>1 DEF SpaceInv, CountInv, SpaceTypeOK
  <2>2. CASE page \notin mapped
    <3>1. mapped' = mapped /\ kfreelist' = kfreelist
      BY <1>1, <2>2
    <3> QED
      BY <3>1 DEF SpaceInv, CountInv
  <2> QED
    BY <2>1, <2>2
<1> QED
  BY <1>6, <1>7, <1>8, <1>9 DEF SpaceInv

\* When deallocuvm() is done, none are mapped from the new size up.
LEMMA DeallocatedInv ==
  ASSUME SbrkAssumption, SpaceInv, NEW p \in Sharer, Deallocated(p) PROVE SpaceInv'
<1> DEFINE old == call[p].old
           new == call[p].new
           page == call[p].page
<1>1. /\ call[p].pc = "dealloc" /\ page * PGSIZE >= old /\ new # 0
      /\ call' = [call EXCEPT ![p].pc = "store"]
      /\ UNCHANGED <<sz, mem_lock_ptr, locked, mapped, kfreelist, emptied>>
  BY DEF Deallocated
<1>2. /\ \A q \in Sharer \ {p} : call[q].pc = "out"
      /\ old \in Nat /\ new \in Nat /\ page \in Nat /\ new # 0
  BY <1>1, Inside
<1>3. /\ call'[p].pc = "store" /\ call'[p].old = old /\ call'[p].new = new
      /\ \A q \in Sharer \ {p} : call'[q] = call[q]
  BY <1>1 DEF SpaceInv, SpaceTypeOK
<1>4. Filled(mapped, emptied, (0..Up(new) - 1) \cup (page..Up(old) - 1))
  BY <1>1 DEF SpaceInv, PagesInv
<1>5. (0..Up(new) - 1) \cup (page..Up(old) - 1) = 0..Up(new) - 1
  <2>1. ~ page * PGSIZE < old
    <3>1. page * PGSIZE \in Int
      BY <1>2 DEF SbrkAssumption
    <3> QED
      BY <1>1, <1>2, <3>1
  <2>2. ~ page < Up(old) /\ Up(old) \in Nat
    BY <1>2, <2>1, Pages
  <2> QED
    BY <1>2, <1>4, <2>2
<1> HIDE DEF old, new, page
<1>6. SpaceTypeOK'
  BY <1>1 DEF SpaceInv, SpaceTypeOK
<1>7. LockInv' /\ SizesInv'
  BY <1>1, <1>2, <1>3, InsideInv DEF old, new
<1>8. PagesInv'
  <2>1. Filled(mapped', emptied', 0..Up(new) - 1)
    BY <1>1, <1>4, <1>5 DEF Filled
  <2> QED
    BY <1>1, <1>2, <1>3, <2>1 DEF PagesInv
<1>9. CountInv'
  BY <1>1 DEF SpaceInv, CountInv
<1> QED
  BY <1>6, <1>7, <1>8, <1>9 DEF SpaceInv

\* When the whole size is given back nothing is mapped any more, and the call
\* fails.
LEMMA DeallocatedAllInv ==
  ASSUME SbrkAssumption, SpaceInv, NEW p \in Sharer, DeallocatedAll(p) PROVE SpaceInv'
<1>1. /\ call[p].pc = "dealloc" /\ call[p].page * PGSIZE >= call[p].old /\ call[p].new = 0
      /\ locked' = locked \ {mem_lock_ptr[p]}
      /\ call' = [call EXCEPT ![p] = Out]
      /\ UNCHANGED <<sz, mem_lock_ptr, mapped, kfreelist, emptied>>
  BY DEF DeallocatedAll
<1>2. /\ \A q \in Sharer \ {p} : call[q].pc = "out"
      /\ Alive(p) /\ mem_lock_ptr[p] = Leader
      /\ call[p].old \in Nat /\ call[p].page \in Nat
  BY <1>1, Inside
<1>3. call'[p] = Out /\ \A q \in Sharer : call'[q].pc = "out"
  BY <1>1, <1>2 DEF SpaceInv, SpaceTypeOK, Out
<1>4. emptied
  BY <1>1 DEF SpaceInv, SizesInv
<1>5. sz[Leader] = call[p].old
  BY <1>1, <1>2 DEF SpaceInv, SizesInv, LockInv, SbrkAssumption
<1>6. mapped \subseteq 0..Up(call[p].old) - 1
  <2>1. Up(0) \in Nat /\ Up(call[p].old) \in Nat /\ Up(0) <= Up(call[p].old)
    BY <1>2, Pages, PagesGrow
  <2>2. Filled(mapped, emptied, (0..Up(0) - 1) \cup (call[p].page..Up(call[p].old) - 1))
    BY <1>1 DEF SpaceInv, PagesInv
  <2> QED
    BY <1>2, <2>1, <2>2 DEF Filled
<1>7. SpaceTypeOK'
  BY <1>1 DEF SpaceInv, SpaceTypeOK, Out
<1>8. LockInv'
  BY <1>1, <1>2, <1>3 DEF SpaceInv, LockInv, Alive
<1>9. SizesInv'
  <2>1. \A q, s \in Sharer : Alive(q) /\ Alive(s) => sz[q] = sz[s]
    BY <1>1, <1>2 DEF SpaceInv, SizesInv
  <2> QED
    BY <1>1, <1>3, <2>1 DEF SizesInv, Alive
<1>10. PagesInv' /\ CountInv'
  BY <1>1, <1>3, <1>4, <1>5, <1>6 DEF SpaceInv, PagesInv, Filled, CountInv
<1> QED
  BY <1>7, <1>8, <1>9, <1>10 DEF SpaceInv

\* A growth that fails gives back all that it got.
LEMMA AllocFailsInv ==
  ASSUME SbrkAssumption, SpaceInv, NEW p \in Sharer, AllocFails(p) PROVE SpaceInv'
<1> DEFINE old == call[p].old
           new == call[p].new
           page == call[p].page
           spare == {a \in mapped : a >= Up(old) /\ a * PGSIZE < new}
<1>1. /\ call[p].pc = "alloc"
      /\ \/ new > USERTOP /\ UNCHANGED <<mapped, kfreelist>>
         \/ /\ new <= USERTOP /\ page * PGSIZE < new /\ kfreelist = 0
            /\ mapped' = mapped \ spare /\ kfreelist' = Cardinality(spare)
      /\ locked' = locked \ {mem_lock_ptr[p]}
      /\ call' = [call EXCEPT ![p] = Out]
      /\ UNCHANGED <<sz, mem_lock_ptr, emptied>>
  BY DEF AllocFails, Up
<1>2. /\ \A q \in Sharer \ {p} : call[q].pc = "out"
      /\ Alive(p) /\ mem_lock_ptr[p] = Leader
      /\ old \in Nat /\ new \in Nat /\ page \in Nat
  BY <1>1, Inside
<1>3. call'[p] = Out /\ \A q \in Sharer : call'[q].pc = "out"
  BY <1>1, <1>2 DEF SpaceInv, SpaceTypeOK, Out
<1>4. /\ old < new /\ Up(old) <= page
      /\ mapped \subseteq 0..page - 1 /\ (~emptied => mapped = 0..page - 1)
      /\ \/ page = Up(old)
         \/ new <= USERTOP /\ page <= Up(new)
  BY <1>1 DEF SpaceInv, PagesInv, Filled
<1>5. /\ Up(new) \in Nat /\ Up(old) \in Nat
      /\ \A k \in Int : k * PGSIZE < new <=> k < Up(new)
  BY <1>2, Pages
<1>6. sz[Leader] = old
  BY <1>1, <1>2 DEF SpaceInv, SizesInv, LockInv, SbrkAssumption
<1>7. /\ mapped' \subseteq 0..Up(old) - 1 /\ (~emptied => mapped' = 0..Up(old) - 1)
      /\ kfreelist' + Cardinality(mapped') = FreePages + 1
      /\ kfreelist' \in Nat
  <2>1. IsFiniteSet(mapped) /\ kfreelist \in Nat /\ Cardinality(mapped) \in Nat
    BY FS_CardinalityType DEF SpaceInv, SpaceTypeOK
  <2>2. CASE new > USERTOP /\ UNCHANGED <<mapped, kfreelist>>
    <3>1. ~ new <= USERTOP
      BY <1>2, <2>2 DEF SbrkAssumption
    <3> QED
      BY <1>4, <2>1, <2>2, <3>1 DEF SpaceInv, CountInv
  <2>3. CASE /\ new <= USERTOP /\ page * PGSIZE < new /\ kfreelist = 0
             /\ mapped' = mapped \ spare /\ kfreelist' = Cardinality(spare)
    <3>1. page < Up(new)
      <4>1. page \in Int /\ page * PGSIZE < new
        BY <1>2, <2>3
      <4> HIDE DEF page, new
      <4>2. page * PGSIZE < new <=> page < Up(new)
        BY <1>5, <4>1, Zenon
      <4> QED
        BY <4>1, <4>2
    <3>2. \A a \in mapped : a \in Int /\ a < Up(new)
      <4>1. page \in Nat /\ Up(new) \in Nat /\ mapped \subseteq 0..page - 1
        BY <1>2, <1>4, <1>5
      <4> HIDE DEF page, new
      <4> QED
        BY <3>1, <4>1
    <3>3. \A a \in mapped : a \in spare <=> a >= Up(old)
      BY <1>2, <1>4, <1>5, <3>2
    <3>4. mapped' \subseteq 0..Up(old) - 1 /\ (~emptied => mapped' = 0..Up(old) - 1)
      <4>1. mapped' \subseteq 0..Up(old) - 1
        <5>1. \A a \in mapped : a \in Int /\ a >= 0
          BY <1>4
        <5> QED
          BY <1>2, <1>5, <2>3, <3>3, <5>1
      <4>2. ASSUME ~emptied PROVE mapped' = 0..Up(old) - 1
        <5>1. mapped = 0..page - 1
          BY <1>4, <4>2
        <5>2. Up(old) <= page /\ page \in Nat
          BY <1>2, <1>4
        <5> HIDE DEF page, old
        <5> QED
          BY <1>5, <2>3, <3>3, <5>1, <5>2
      <4> QED
        BY <4>1, <4>2
    <3>5. spare \subseteq mapped /\ mapped \cap spare = spare
      OBVIOUS
    <3> HIDE DEF spare
    <3>6. Cardinality(mapped \ spare) = Cardinality(mapped) - Cardinality(spare)
          /\ Cardinality(spare) \in Nat
      <4>1. Cardinality(mapped \ spare) = Cardinality(mapped) - Cardinality(mapped \cap spare)
        BY <2>1, FS_Difference
      <4>2. IsFiniteSet(spare)
        BY <2>1, <3>5, FS_Subset
      <4> QED
        BY <3>5, <4>1, <4>2, FS_CardinalityType
    <3> QED
      BY <2>1, <2>3, <3>4, <3>6 DEF SpaceInv, CountInv
  <2> QED
    BY <1>1, <2>2, <2>3
<1> HIDE DEF old, new, page, spare
<1>8. SpaceTypeOK'
  <2>1. call' \in [Sharer -> [pc : {"out", "alloc", "dealloc", "store", "tell"},
                             old : Nat, new : Nat, page : Nat]]
    BY <1>1 DEF SpaceInv, SpaceTypeOK, Out
  <2>2. IsFiniteSet(0..Up(old) - 1)
    <3>1. 0 \in Int /\ Up(old) - 1 \in Int
      BY <1>5
    <3> QED
      BY <3>1, FS_Interval
  <2>3. mapped' \subseteq Nat /\ mapped' \subseteq 0..Up(old) - 1
    BY <1>5, <1>7
  <2>4. IsFiniteSet(mapped')
    BY <2>2, <2>3, FS_Subset
  <2> QED
    BY <1>1, <1>7, <2>1, <2>3, <2>4 DEF SpaceInv, SpaceTypeOK
<1>9. LockInv'
  BY <1>1, <1>2, <1>3 DEF SpaceInv, LockInv, Alive
<1>10. SizesInv'
  <2>1. \A q, s \in Sharer : Alive(q) /\ Alive(s) => sz[q] = sz[s]
    BY <1>1, <1>2 DEF SpaceInv, SizesInv
  <2> QED
    BY <1>1, <1>3, <2>1 DEF SizesInv, Alive
<1>11. PagesInv' /\ CountInv'
  BY <1>1, <1>3, <1>6, <1>7 DEF PagesInv, Filled, CountInv
<1> QED
  BY <1>8, <1>9, <1>10, <1>11 DEF SpaceInv

\* The thread inside has the new size before the others do,
LEMMA StoreInv ==
  ASSUME SbrkAssumption, SpaceInv, NEW p \in Sharer, Store(p) PROVE SpaceInv'
<1>1. /\ call[p].pc = "store" /\ sz' = [sz EXCEPT ![p] = call[p].new]
      /\ call' = [call EXCEPT ![p].pc = "tell"]
      /\ UNCHANGED <<mem_lock_ptr, locked, mapped, kfreelist, emptied>>
  BY DEF Store
<1>2. /\ \A q \in Sharer \ {p} : call[q].pc = "out"
      /\ Alive(p) /\ mem_lock_ptr[p] = Leader
      /\ call[p].old \in Nat /\ call[p].new \in Nat /\ call[p].old > 0 /\ call[p].new > 0
  BY <1>1, Inside
<1>3. /\ call'[p].pc = "tell" /\ call'[p].old = call[p].old /\ call'[p].new = call[p].new
      /\ \A q \in Sharer \ {p} : call'[q] = call[q]
      /\ sz'[p] = call[p].new /\ \A q \in Sharer \ {p} : sz'[q] = sz[q]
  BY <1>1 DEF SpaceInv, SpaceTypeOK
<1>4. SpaceTypeOK'
  BY <1>1, <1>2 DEF SpaceInv, SpaceTypeOK
<1>5. LockInv'
  BY <1>1, <1>2, <1>3 DEF SpaceInv, LockInv, Alive
<1>6. SizesInv'
  BY <1>1, <1>2, <1>3 DEF SpaceInv, SizesInv, Alive
<1>7. PagesInv' /\ CountInv'
  BY <1>1, <1>2, <1>3 DEF SpaceInv, PagesInv, Filled, CountInv
<1> QED
  BY <1>4, <1>5, <1>6, <1>7 DEF SpaceInv

\* and tells them before it lets go of the lock.
LEMMA TellInv ==
  ASSUME SbrkAssumption, SpaceInv, NEW p \in Sharer, Tell(p) PROVE SpaceInv'
<1>1. /\ call[p].pc = "tell"
      /\ sz' = [q \in Sharer |-> IF Alive(q) THEN sz[p] ELSE sz[q]]
      /\ locked' = locked \ {mem_lock_ptr[p]}
      /\ call' = [call EXCEPT ![p] = Out]
      /\ UNCHANGED <<mem_lock_ptr, mapped, kfreelist, emptied>>
  BY DEF Tell
<1>2. /\ \A q \in Sharer \ {p} : call[q].pc = "out"
      /\ Alive(p) /\ mem_lock_ptr[p] = Leader
      /\ call[p].old \in Nat /\ call[p].new \in Nat /\ call[p].old > 0 /\ call[p].new > 0
  BY <1>1, Inside
<1>3. call'[p] = Out /\ \A q \in Sharer : call'[q].pc = "out"
  BY <1>1, <1>2 DEF SpaceInv, SpaceTypeOK, Out
<1>4. sz[p] = call[p].new /\ Filled(mapped, emptied, 0..Up(call[p].new) - 1) /\ sz[p] \in Nat
  BY <1>1, <1>2 DEF SpaceInv, SizesInv, PagesInv
<1>5. /\ \A q \in Sharer : Alive(q)' <=> Alive(q)
      /\ \A q \in Sharer : Alive(q)' => sz'[q] = sz[p]
  BY <1>1, <1>2, <1>4 DEF Alive
<1>6. SpaceTypeOK'
  BY <1>1, <1>4 DEF SpaceInv, SpaceTypeOK, Out
<1>7. LockInv'
  BY <1>1, <1>2, <1>3, <1>5 DEF SpaceInv, LockInv, SbrkAssumption
<1>8. SizesInv'
  BY <1>3, <1>5 DEF SizesInv
<1>9. PagesInv' /\ CountInv'
  <2>1. sz'[Leader] = sz[p]
    BY <1>5 DEF SpaceInv, LockInv, SbrkAssumption
  <2> QED
    BY <1>1, <1>3, <1>4, <2>1 DEF SpaceInv, PagesInv, Filled, CountInv
<1> QED
  BY <1>6, <1>7, <1>8, <1>9 DEF SpaceInv

\* Every step keeps the invariant of sbrk().
LEMMA SpaceNext ==
  ASSUME SbrkAssumption, SpaceInv, [SbrkNext]_sbrkvars PROVE SpaceInv'
<1>1. CASE SbrkNext
  BY <1>1, CloneInv, SbrkInv, AllocPageInv, AllocatedInv, AllocFailsInv, DeallocPageInv,
     DeallocatedInv, DeallocatedAllInv, StoreInv, TellInv DEF SbrkNext
<1>2. CASE UNCHANGED sbrkvars
  BY <1>2 DEF SpaceInv, SpaceTypeOK, LockInv, SizesInv, PagesInv, Filled, CountInv,
     Alive, sbrkvars
<1> QED
  BY <1>1, <1>2

\* The invariant says that threads agree on their space.
LEMMA SpaceSafe ==
  ASSUME SbrkAssumption, SpaceInv PROVE SpaceAgreed
<1>1. ASSUME NEW p \in Sharer, call[p].pc = "alloc" PROVE call[p].page \notin mapped
  <2>1. mapped \subseteq 0..call[p].page - 1 /\ call[p].page \in Nat
    BY <1>1 DEF SpaceInv, PagesInv, Filled, SpaceTypeOK
  <2> QED
    BY <2>1
<1>2. kfreelist + Cardinality(mapped) = FreePages + 1
  BY DEF SpaceInv, CountInv
<1>3. ASSUME \A p \in Sharer : call[p].pc = "out", NEW p \in Sharer, Alive(p)
      PROVE  sz[p] = sz[Leader] /\ Filled(mapped, emptied, 0..Up(sz[p]) - 1)
  BY <1>3 DEF SpaceInv, SizesInv, LockInv, PagesInv, SbrkAssumption
<1> QED
  BY <1>1, <1>2, <1>3 DEF SpaceAgreed, Up, Filled

\* No page is mapped over another, none is lost, and when nobody is inside sbrk()
\* all threads know the same size, above which nothing is mapped, and below which
\* everything is unless a thread has asked to give back the whole size: growproc()
\* then unmaps all, fails and leaves the size (proc.c:113-115).
THEOREM SpaceIsAgreed == ASSUME SbrkAssumption PROVE SbrkSpec => []SpaceAgreed
<1>1. SbrkInit => SpaceInv
  BY SpaceInit
<1>2. SpaceInv /\ [SbrkNext]_sbrkvars => SpaceInv'
  BY SpaceNext
<1>3. SpaceInv => SpaceAgreed
  BY SpaceSafe
<1> QED
  BY <1>1, <1>2, <1>3, PTL DEF SbrkSpec

-----------------------------------------------------------------------------
(* lock() and unlock() on one CPU.  The guard of proc.c excludes nobody, so the *)
(* argument is about the CPU: a thread inside the guard is on a CPU, hence      *)
(* there is at most one such thread, and what it has read of the word is still  *)
(* true when it uses it.                                                        *)

OneCpu == \A c, d \in CPU : c = d

\* A thread that holds its guard has not left its CPU.
GuardedRuns == \A t \in Thread : pc[t] \in Guarded => OnCpu(t)

\* The word a thread has just tested under its guard is unchanged.
TestStands ==
    \A t \in Thread : /\ pc[t] = "set" => word = 0
                      /\ pc[t] = "nap" => word = 1

\* The word says that the lock is taken, and one thread has it.
OneHolder ==
    /\ \A t \in Holders : word = 1
    /\ \A t, u \in Holders : t = u

\* A worker that has not finished has a round to do.
RoundsLeft == \A t \in Thread : pc[t] # "done" => todo[t] > 0

OneCpuInv ==
    TypeOK /\ GuardedRuns /\ TestStands /\ OneHolder /\ RoundsLeft /\ WakeupsKept

\* With one CPU two threads that are on a CPU are the same thread.
LEMMA Alone ==
    ASSUME OneCpu, NEW t \in Thread, NEW u \in Thread, OnCpu(t), OnCpu(u)
    PROVE  t = u
BY DEF OneCpu, OnCpu

LEMMA LockInit == Init => OneCpuInv
<1> SUFFICES ASSUME Init PROVE OneCpuInv
    OBVIOUS
<1>1. TypeOK
    BY UserLockAssumption DEF Init, TypeOK, Pc, Open, Guarded
<1>2. GuardedRuns /\ TestStands /\ OneHolder /\ WakeupsKept
    BY DEF Init, GuardedRuns, TestStands, OneHolder, Holders, WakeupsKept, Guarded
<1>3. RoundsLeft
    BY UserLockAssumption DEF Init, RoundsLeft
<1> QED
    BY <1>1, <1>2, <1>3 DEF OneCpuInv

\* Dispatch and Preempt move threads between CPUs; a guarded one stays.
LEMMA LockSwitch ==
    ASSUME OneCpu, OneCpuInv, NEW c \in CPU, NEW t \in Thread,
           Dispatch(c, t) \/ Preempt(c, t)
    PROVE  OneCpuInv'
<1> USE DEF OneCpuInv
<1>1. UNCHANGED <<word, global, tmp, todo, pc>>
    BY DEF Dispatch, Preempt
<1>2. on' \in [CPU -> Thread \cup {NoThread}]
    BY DEF Dispatch, Preempt, Idle, TypeOK
<1>3. ASSUME NEW u \in Thread, pc[u] \in Guarded PROVE OnCpu(u)'
    <2>1. PICK d \in CPU : on[d] = u
        BY <1>3 DEF GuardedRuns, OnCpu
    <2>2. CASE Dispatch(c, t)
        BY <2>1, <2>2, UserLockAssumption DEF Dispatch, OnCpu, OneCpu
    <2>3. CASE Preempt(c, t)
        <3>1. t # u
            BY <1>3, <2>3 DEF Preempt, Open, Guarded
        <3>2. c # d
            BY <2>1, <2>3, <3>1 DEF Preempt
        <3> QED
            BY <2>1, <3>2 DEF OneCpu
    <2> QED
        BY <2>2, <2>3
<1>4. TypeOK' /\ TestStands' /\ OneHolder' /\ RoundsLeft' /\ WakeupsKept'
    BY <1>1, <1>2 DEF TypeOK, TestStands, OneHolder, Holders, RoundsLeft, WakeupsKept
<1>5. GuardedRuns'
    BY <1>1, <1>3 DEF GuardedRuns
<1> QED
    BY <1>4, <1>5

\* A step of the thread that is on the CPU.
LEMMA LockStep ==
    ASSUME OneCpu, OneCpuInv, NEW c \in CPU, NEW t \in Thread, Step(c, t)
    PROVE  OneCpuInv'
<1> USE DEF OneCpuInv
<1>0. on[c] = t /\ OnCpu(t)
    BY DEF Step, Guard, Test, Set, Nap, Read, Write, Reguard, Clear, Wake, At, OnCpu
<1>1. \A u \in Thread : pc[u] \in Guarded => u = t
    BY <1>0, Alone DEF GuardedRuns
<1>2. CASE Guard(c, t)
    <2>1. /\ pc[t] \in {"user", "woken"} /\ pc' = [pc EXCEPT ![t] = "test"]
          /\ UNCHANGED <<word, global, tmp, todo, on>>
        BY <1>2 DEF Guard, Goto
    <2>2. TypeOK' /\ RoundsLeft'
        BY <2>1 DEF TypeOK, RoundsLeft, Pc, Guarded
    <2>3. GuardedRuns'
        BY <1>0, <2>1 DEF TypeOK, GuardedRuns, OnCpu
    <2>4. TestStands' /\ OneHolder' /\ WakeupsKept'
        BY <2>1 DEF TypeOK, TestStands, OneHolder, Holders, WakeupsKept
    <2> QED BY <2>2, <2>3, <2>4
<1>3. CASE Test(c, t)
    <2>1. /\ pc[t] = "test"
          /\ pc' = [pc EXCEPT ![t] = IF word = 1 THEN "nap" ELSE "set"]
          /\ UNCHANGED <<word, global, tmp, todo, on>>
        BY <1>3 DEF Test, At, Goto
    <2>2. TypeOK' /\ RoundsLeft'
        BY <2>1 DEF TypeOK, RoundsLeft, Pc, Guarded
    <2>3. GuardedRuns'
        BY <1>0, <2>1 DEF TypeOK, GuardedRuns, OnCpu
    <2>4. TestStands' /\ OneHolder' /\ WakeupsKept'
        BY <2>1 DEF TypeOK, TestStands, OneHolder, Holders, WakeupsKept
    <2> QED BY <2>2, <2>3, <2>4
<1>4. CASE Set(c, t)
    <2>1. /\ pc[t] = "set" /\ pc' = [pc EXCEPT ![t] = "read"] /\ word' = 1
          /\ UNCHANGED <<global, tmp, todo, on>>
        BY <1>4 DEF Set, At, Goto
    <2>2. TypeOK' /\ RoundsLeft'
        BY <2>1 DEF TypeOK, RoundsLeft, Pc, Open
    <2>3. GuardedRuns'
        BY <2>1 DEF TypeOK, GuardedRuns, OnCpu, Guarded
    <2>4. Holders = {}
        BY <2>1 DEF TestStands, OneHolder
    <2>5. OneHolder'
        BY <2>1, <2>4 DEF TypeOK, OneHolder, Holders
    <2>6. TestStands' /\ WakeupsKept'
        BY <1>1, <2>1 DEF TypeOK, TestStands, WakeupsKept, Guarded
    <2> QED BY <2>2, <2>3, <2>5, <2>6
<1>5. CASE Nap(c, t)
    <2>1. /\ pc[t] = "nap" /\ pc' = [pc EXCEPT ![t] = "asleep"]
          /\ on' = [on EXCEPT ![c] = NoThread]
          /\ UNCHANGED <<word, global, tmp, todo>>
        BY <1>5 DEF Nap, At, Goto, Idle
    <2>2. TypeOK' /\ RoundsLeft'
        BY <2>1 DEF TypeOK, RoundsLeft, Pc
    <2>3. GuardedRuns'
        BY <1>1, <2>1 DEF TypeOK, GuardedRuns, Guarded
    <2>4. word = 1
        BY <2>1 DEF TestStands
    <2>5. TestStands' /\ OneHolder' /\ WakeupsKept'
        BY <2>1, <2>4 DEF TypeOK, TestStands, OneHolder, Holders, WakeupsKept
    <2> QED BY <2>2, <2>3, <2>5
<1>6. CASE Read(c, t) \/ Write(c, t)
    <2>1. \/ pc[t] = "read" /\ pc' = [pc EXCEPT ![t] = "write"]
          \/ pc[t] = "write" /\ pc' = [pc EXCEPT ![t] = "unlock"]
        BY <1>6 DEF Read, Write, At, Goto
    <2>2. UNCHANGED <<word, todo, on>> /\ global' \in Nat /\ tmp' \in [Thread -> Nat]
        BY <1>6 DEF Read, Write, TypeOK
    <2>3. TypeOK' /\ RoundsLeft'
        BY <2>1, <2>2 DEF TypeOK, RoundsLeft, Pc, Open
    <2>4. GuardedRuns'
        BY <2>1, <2>2 DEF TypeOK, GuardedRuns, OnCpu, Guarded
    <2>5. TestStands' /\ OneHolder' /\ WakeupsKept'
        BY <2>1, <2>2 DEF TypeOK, TestStands, OneHolder, Holders, WakeupsKept
    <2> QED BY <2>3, <2>4, <2>5
<1>7. CASE Reguard(c, t)
    <2>1. /\ pc[t] = "unlock" /\ pc' = [pc EXCEPT ![t] = "clear"]
          /\ UNCHANGED <<word, global, tmp, todo, on>>
        BY <1>7 DEF Reguard, At, Goto
    <2>2. TypeOK' /\ RoundsLeft'
        BY <2>1 DEF TypeOK, RoundsLeft, Pc, Guarded
    <2>3. GuardedRuns'
        BY <1>0, <2>1 DEF TypeOK, GuardedRuns, OnCpu
    <2>4. TestStands' /\ OneHolder' /\ WakeupsKept'
        BY <2>1 DEF TypeOK, TestStands, OneHolder, Holders, WakeupsKept
    <2> QED BY <2>2, <2>3, <2>4
<1>8. CASE Clear(c, t)
    <2>1. /\ pc[t] = "clear" /\ pc' = [pc EXCEPT ![t] = "wake"] /\ word' = 0
          /\ UNCHANGED <<global, tmp, todo, on>>
        BY <1>8 DEF Clear, At, Goto
    <2>2. TypeOK' /\ RoundsLeft'
        BY <2>1 DEF TypeOK, RoundsLeft, Pc, Guarded
    <2>3. GuardedRuns'
        BY <1>0, <2>1 DEF TypeOK, GuardedRuns, OnCpu
    <2>4. Holders' = {}
        BY <2>1 DEF TypeOK, OneHolder, Holders
    <2>5. TestStands' /\ OneHolder' /\ WakeupsKept'
        BY <1>1, <2>1, <2>4 DEF TypeOK, TestStands, OneHolder, WakeupsKept, Guarded
    <2> QED BY <2>2, <2>3, <2>5
<1>9. CASE Wake(c, t)
    <2>1. /\ pc[t] = "wake"
          /\ \A u \in Thread : /\ u # t /\ pc[u] = "asleep" => pc'[u] = "woken"
                               /\ u # t /\ pc[u] # "asleep" => pc'[u] = pc[u]
          /\ pc'[t] = IF todo[t] = 1 THEN "done" ELSE "user"
          /\ DOMAIN pc' = Thread /\ pc' = [u \in Thread |-> pc'[u]]
        BY <1>9 DEF Wake, At, TypeOK
    <2>2. /\ todo' = [todo EXCEPT ![t] = @ - 1]
          /\ on' \in {on, [on EXCEPT ![c] = NoThread]}
          /\ UNCHANGED <<word, global, tmp>>
        BY <1>9 DEF Wake, EndOfRound, Idle
    <2>3. todo[t] \in 1..Loops
        BY <2>1, UserLockAssumption DEF TypeOK, RoundsLeft
    <2>4. pc' \in [Thread -> Pc]
        BY <2>1 DEF TypeOK, Pc, Open
    <2>5. TypeOK'
        <3>1. todo' \in [Thread -> 0..Loops]
            BY <2>2, <2>3, UserLockAssumption DEF TypeOK
        <3>2. on' \in [CPU -> Thread \cup {NoThread}]
            BY <2>2 DEF TypeOK
        <3> QED
            BY <2>2, <2>4, <3>1, <3>2 DEF TypeOK
    <2>6. RoundsLeft'
        BY <2>1, <2>2, <2>3, UserLockAssumption DEF TypeOK, RoundsLeft
    <2>7. GuardedRuns'
        BY <1>1, <2>1 DEF GuardedRuns, Guarded
    <2>8. TestStands' /\ OneHolder' /\ WakeupsKept'
        BY <1>1, <2>1, <2>2 DEF TestStands, OneHolder, Holders, WakeupsKept, Guarded
    <2> QED BY <2>5, <2>6, <2>7, <2>8
<1> QED
    BY <1>2, <1>3, <1>4, <1>5, <1>6, <1>7, <1>8, <1>9 DEF Step

\* A stutter keeps everything the invariant speaks of.
LEMMA LockStutter == OneCpuInv /\ UNCHANGED vars => OneCpuInv'
BY DEF OneCpuInv, vars, TypeOK, GuardedRuns, OnCpu, TestStands, OneHolder, Holders,
       RoundsLeft, WakeupsKept

\* The inductive invariant of lock() and unlock() on one CPU.
THEOREM LockInvariance == ASSUME OneCpu PROVE Spec => []OneCpuInv
<1>1. OneCpuInv /\ [Next]_vars => OneCpuInv'
    <2> SUFFICES ASSUME OneCpuInv, [Next]_vars PROVE OneCpuInv'
        OBVIOUS
    <2>1. CASE UNCHANGED vars
        BY <2>1, LockStutter
    <2>2. ASSUME NEW c \in CPU, NEW t \in Thread, Dispatch(c, t) \/ Preempt(c, t)
          PROVE  OneCpuInv'
        BY <2>2, LockSwitch
    <2>3. ASSUME NEW c \in CPU, NEW t \in Thread, Step(c, t) PROVE OneCpuInv'
        BY <2>3, LockStep
    <2> QED
        BY <2>1, <2>2, <2>3 DEF Next, Finished
<1> QED
    BY <1>1, LockInit, PTL DEF Spec

\* Type correctness of the lock.
THEOREM TypeCorrect == ASSUME OneCpu PROVE Spec => []TypeOK
BY LockInvariance, PTL DEF OneCpuInv

\* On one CPU a thread sleeps on the lock only while a wakeup is due.
THEOREM NoWakeupLost == ASSUME OneCpu PROVE Spec => []WakeupsKept
BY LockInvariance, PTL DEF OneCpuInv

\* On one CPU lock() and unlock() of proc.c implement the mutex: the initial
\* state maps to the free mutex and every step to Lock, Unlock or a stutter.
THEOREM MutexOnOneCpu == ASSUME OneCpu PROVE Spec => ImplementsMutex
<1>1. Init => M!Init
    BY DEF Init, M!Init, Holders
<1>2. OneCpuInv /\ [Next]_vars => [M!Next]_Holders
    <2> SUFFICES ASSUME OneCpuInv, [Next]_vars PROVE [M!Next]_Holders
        OBVIOUS
    <2> USE DEF OneCpuInv
    <2>1. CASE UNCHANGED vars
        BY <2>1 DEF vars, Holders
    <2>2. ASSUME NEW c \in CPU, NEW t \in Thread, Dispatch(c, t) \/ Preempt(c, t)
          PROVE  UNCHANGED Holders
        BY <2>2 DEF Dispatch, Preempt, Holders
    <2>3. ASSUME NEW c \in CPU, NEW t \in Thread,
                 \/ Guard(c, t) \/ Test(c, t) \/ Nap(c, t) \/ Read(c, t)
                 \/ Write(c, t) \/ Reguard(c, t)
          PROVE  UNCHANGED Holders
        <3>1. PICK l, m :
                /\ pc[t] = l /\ pc' = [pc EXCEPT ![t] = m]
                /\ (l \in {"read", "write", "unlock", "clear"}
                        <=> m \in {"read", "write", "unlock", "clear"})
            BY <2>3 DEF Guard, Test, Nap, Read, Write, Reguard, At, Goto
        <3> QED
            BY <3>1 DEF TypeOK, Holders
    <2>4. ASSUME NEW c \in CPU, NEW t \in Thread, Set(c, t) PROVE M!Next
        <3>1. pc[t] = "set" /\ pc' = [pc EXCEPT ![t] = "read"]
            BY <2>4 DEF Set, At, Goto
        <3>2. Holders = {}
            BY <3>1 DEF TestStands, OneHolder
        <3>3. Holders' = {t}
            BY <3>1, <3>2 DEF TypeOK, Holders
        <3> QED
            BY <3>2, <3>3 DEF M!Next, M!Lock
    <2>5. ASSUME NEW c \in CPU, NEW t \in Thread, Clear(c, t) PROVE M!Next
        <3>1. pc[t] = "clear" /\ pc' = [pc EXCEPT ![t] = "wake"]
            BY <2>5 DEF Clear, At, Goto
        <3>2. t \in Holders /\ Holders' = Holders \ {t}
            BY <3>1 DEF TypeOK, Holders
        <3> QED
            BY <3>2 DEF M!Next, M!Unlock
    <2>6. ASSUME NEW c \in CPU, NEW t \in Thread, Wake(c, t)
          PROVE  UNCHANGED Holders
        BY <2>6 DEF Wake, At, TypeOK, Holders
    <2> QED
        BY <2>1, <2>2, <2>3, <2>4, <2>5, <2>6 DEF Next, Step, Finished
<1> QED
    BY <1>1, <1>2, LockInvariance, PTL DEF Spec, ImplementsMutex, M!Spec
=============================================================================
