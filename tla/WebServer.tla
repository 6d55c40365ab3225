----------------------------- MODULE WebServer -----------------------------
(***************************************************************************)
(* The web server p4a/server.c: a producer accepts connections and puts    *)
(* their requests into a ring that is kept sorted by file size; a fixed    *)
(* pool of consumers takes them out and answers them.  One mutex and two   *)
(* condition variables of pthreads (external).                             *)
(*                                                                         *)
(* pre_handle() reads the request from the network and requestHandle()     *)
(* answers it while the mutex is held, so both are steps of their own.     *)
(* Requests name files that are there: for any other one pre_handle()      *)
(* sends an error and returns a structure it never filled in.              *)
(***************************************************************************)
EXTENDS Integers, FiniteSets

CONSTANTS
    Consumer,
    Producer,
    Nobody,
    real_size,  \* slots of the ring that are used
    Size,       \* sizes of files
    MaxConns    \* bound: connections that come in all

\* What the results about the server suppose.
WebAssumption ==
    /\ IsFiniteSet(Consumer) /\ Producer \notin Consumer
    /\ Nobody \notin Consumer \cup {Producer}
    /\ real_size \in Nat \ {0} /\ Size \subseteq Nat /\ MaxConns \in Nat

VARIABLES
    buffer, fill_index, use_index, count,
    mutex,      \* who holds it
    fill,       \* the consumers that wait for &fill
    empty,      \* the producer, if it waits for &empty
    where,      \* where each thread is
    request,    \* the request a thread reads or answers
    accepted,   \* connections accepted so far
    closed      \* those answered and closed

webvars == <<buffer, fill_index, use_index, count, mutex, fill, empty, where, request,
             accepted, closed>>
ring == <<buffer, fill_index, use_index, count>>

Index  == 0..real_size - 1
Threads == Consumer \cup {Producer}
NoRequest == [id |-> 0, filesize |-> 0]

WebInit ==
    /\ buffer = [i \in Index |-> NoRequest]
    /\ fill_index = 0 /\ use_index = 0 /\ count = 0
    /\ mutex = Nobody /\ fill = {} /\ empty = {}
    /\ where = [t \in Threads |-> IF t = Producer THEN "accept" ELSE "lock"]
    /\ request = [t \in Threads |-> NoRequest]
    /\ accepted = 0 /\ closed = {}

-----------------------------------------------------------------------------

\* f_index_back_wrap(), k times.
back(i, k) == (i - k) % real_size

\* Mutant: the loop ends one element early.
largerShort(r) ==
    CHOOSE k \in 0..count :
        /\ \A j \in 1..k : buffer[back(fill_index, j)].filesize > r.filesize
        /\ k + 1 >= count \/ buffer[back(fill_index, k + 1)].filesize <= r.filesize

\* How many requests at the end of the ring are for larger files: those that
\* the loop of put() swaps with the new one.
larger(r) ==
    CHOOSE k \in 0..count :
        /\ \A j \in 1..k : buffer[back(fill_index, j)].filesize > r.filesize
        /\ k = count \/ buffer[back(fill_index, k + 1)].filesize <= r.filesize

put(r) ==
    /\ buffer' = [i \in Index |->
         LET k == (fill_index - i) % real_size IN
         IF k < larger(r) THEN buffer[back(i, 1)]
         ELSE IF k = larger(r) THEN r
         ELSE buffer[i]]
    /\ fill_index' = (fill_index + 1) % real_size
    /\ count' = count + 1
    /\ UNCHANGED use_index

get(t) ==
    /\ request' = [request EXCEPT ![t] = buffer[use_index]]
    /\ use_index' = (use_index + 1) % real_size
    /\ count' = count - 1
    /\ UNCHANGED <<buffer, fill_index>>

\* Mutant: a signal only for the first request in an empty buffer.
signalFirst ==
    IF count = 0 /\ fill # {}
      THEN \E c \in fill :
             /\ fill' = fill \ {c}
             /\ where' = [where EXCEPT ![c] = "lock", ![Producer] = "accept"]
      ELSE fill' = fill /\ where' = [where EXCEPT ![Producer] = "accept"]

\* pthread_cond_signal(&fill): one of the consumers that wait goes for the mutex.
signalFill ==
    IF fill # {}
      THEN \E c \in fill :
             /\ fill' = fill \ {c}
             /\ where' = [where EXCEPT ![c] = "lock", ![Producer] = "accept"]
      ELSE fill' = fill /\ where' = [where EXCEPT ![Producer] = "accept"]

\* Mutant: the producer is not told.
signalNobody(t) == empty' = empty /\ where' = [where EXCEPT ![t] = "lock"]

\* pthread_cond_signal(&empty) by t, which goes back to the top of its loop.
signalEmpty(t) ==
    /\ empty' = {}
    /\ where' = [q \in Threads |-> IF q = t \/ q \in empty THEN "lock" ELSE where[q]]

-----------------------------------------------------------------------------
\* Accept(): the next connection, for a file of any size.
AcceptConn ==
    /\ where[Producer] = "accept" /\ accepted < MaxConns
    /\ accepted' = accepted + 1
    /\ \E s \in Size :
         request' = [request EXCEPT ![Producer] = [id |-> accepted + 1, filesize |-> s]]
    /\ where' = [where EXCEPT ![Producer] = "lock"]
    /\ UNCHANGED <<ring, mutex, fill, empty, closed>>

\* The mutex is had, at first or after a wait, and the ring is full.
ProducerWait ==
    /\ where[Producer] = "lock" /\ mutex = Nobody /\ count = real_size
    /\ empty' = {Producer}
    /\ where' = [where EXCEPT ![Producer] = "wait"]
    /\ UNCHANGED <<ring, mutex, fill, request, accepted, closed>>

ProducerLock ==
    /\ where[Producer] = "lock" /\ mutex = Nobody /\ count # real_size
    /\ mutex' = Producer
    /\ where' = [where EXCEPT ![Producer] = "read"]
    /\ UNCHANGED <<ring, fill, empty, request, accepted, closed>>

\* pre_handle() has the request line: put, signal, unlock.
PutRequest ==
    /\ where[Producer] = "read"
    /\ put(request[Producer])
    /\ signalFill
    /\ mutex' = Nobody
    /\ UNCHANGED <<empty, request, accepted, closed>>

ConsumerWait(t) ==
    /\ where[t] = "lock" /\ mutex = Nobody /\ count = 0
    /\ fill' = fill \cup {t}
    /\ where' = [where EXCEPT ![t] = "wait"]
    /\ UNCHANGED <<ring, mutex, empty, request, accepted, closed>>

GetRequest(t) ==
    /\ where[t] = "lock" /\ mutex = Nobody /\ count # 0
    /\ get(t)
    /\ mutex' = t
    /\ where' = [where EXCEPT ![t] = "handle"]
    /\ UNCHANGED <<fill, empty, accepted, closed>>

\* requestHandle() and Close() are done: signal, unlock.
Handled(t) ==
    /\ where[t] = "handle"
    /\ closed' = closed \cup {request[t].id}
    /\ signalEmpty(t)
    /\ mutex' = Nobody
    /\ UNCHANGED <<ring, fill, request, accepted>>

Produce == AcceptConn \/ ProducerWait \/ ProducerLock \/ PutRequest
Consume(t) == ConsumerWait(t) \/ GetRequest(t) \/ Handled(t)

WebNext == Produce \/ \E t \in Consumer : Consume(t)

WebSpec == WebInit /\ [][WebNext]_webvars

\* Threads that can run do, connections keep coming, and whoever connects
\* sends a request and reads the answer.
Fairness == WF_webvars(Produce) /\ \A t \in Consumer : WF_webvars(Consume(t))

-----------------------------------------------------------------------------
\* No signal is lost: as many consumers are up as there are requests to take,
\* or all of them, and the producer waits only while the ring is full or
\* somebody is about to signal.
SignalsKept ==
    /\ mutex # Producer =>
         \/ fill = {}
         \/ Cardinality(Consumer \ fill) >=
               count + Cardinality({t \in Consumer : where[t] = "handle"})
    /\ empty # {} => count = real_size \/ mutex \in Consumer

\* The requests in the ring, as SffQueue sees them.
Waiting == {buffer[back(use_index, -k)] : k \in 0..count - 1}
Sff == INSTANCE SffQueue WITH
    Id <- 1..MaxConns, Capacity <- real_size,
    queue <- Waiting,
    answered <- {id \in 1..accepted :
                   id \in closed \/ \E t \in Consumer : where[t] = "handle" /\ request[t].id = id}
\* Each request is taken from the ring smallest file first, and answered once.
ImplementsSff == Sff!Spec

\* Whoever connects is answered, as connections do not come forever: again and
\* again nobody is left waiting.
EveryoneAnswered == []<>(closed = 1..accepted)
=============================================================================
