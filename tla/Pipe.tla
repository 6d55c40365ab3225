-------------------------------- MODULE Pipe --------------------------------
(***************************************************************************)
(* A pipe of p4b/xv6_submitted_ver/kernel/pipe.c shared by processes that  *)
(* hold its read end and processes that hold its write end.                *)
(*                                                                         *)
(* p->lock is held from the start of a call to its end or to its sleep, so *)
(* a call is a sequence of runs, one step each, between which the caller   *)
(* sleeps on &p->nread or &p->nwrite.  The counters are unsigned and wrap. *)
(***************************************************************************)
EXTENDS Integers, Sequences, FiniteSets

CONSTANTS
    Reader, Writer,     \* the processes that start with each end open, none
                        \* with both
    Byte,               \* the values a byte takes
    PIPESIZE,
    Word,               \* 2^32 in the code: where the counters wrap, a
                        \* multiple of PIPESIZE
    Strings,            \* bound: what is written
    MaxRead,            \* bound: the longest read
    Killable            \* the processes kill() is aimed at

\* What the configurations give them, and what the proofs start from.
PipeAssumption ==
    /\ Reader # {} /\ Writer # {} /\ Reader \cap Writer = {}
    /\ PIPESIZE \in Nat \ {0}
    /\ Word \in Nat /\ Word > PIPESIZE /\ Word % PIPESIZE = 0
    /\ Strings \subseteq Seq(Byte)
    /\ MaxRead \in Nat
    /\ Killable \subseteq Reader \cup Writer

User == Reader \cup Writer

VARIABLES
    data, nread, nwrite,    \* struct pipe
    readopen, writeopen,
    holds,      \* the processes that have their end open
    at,         \* "idle": outside; "run": in the call; "nap": has called
                \* sleep(), still RUNNING with p->lock; "asleep": SLEEPING
    rest,       \* what a write has left to put in: addr[i..n-1]
    want,       \* the n of a read
    killed,     \* proc->killed
    got,        \* what the last read returned
    gaveup      \* history: a killed writer has left a full pipe

pipevars == <<data, nread, nwrite, readopen, writeopen, holds, at, rest, want,
              killed, got, gaveup>>

PipeTypeOK ==
    /\ data \in [0..PIPESIZE - 1 -> Byte]
    /\ nread \in 0..Word - 1 /\ nwrite \in 0..Word - 1
    /\ readopen \in BOOLEAN /\ writeopen \in BOOLEAN
    /\ holds \subseteq User
    /\ at \in [User -> {"idle", "run", "nap", "asleep"}]
    /\ rest \in [Writer -> Seq(Byte)]
    /\ want \in [Reader -> 0..MaxRead]
    /\ killed \in [User -> BOOLEAN]
    /\ got \in Seq(Byte) /\ Len(got) <= PIPESIZE
    /\ gaveup \in BOOLEAN

\* pipealloc, and the forks that spread the two ends.
PipeInit ==
    /\ data \in [0..PIPESIZE - 1 -> Byte]       \* a page of kalloc()
    /\ nread = 0 /\ nwrite = 0
    /\ readopen = TRUE /\ writeopen = TRUE
    /\ holds = User
    /\ at = [p \in User |-> "idle"]
    /\ rest = [w \in Writer |-> <<>>]
    /\ want = [r \in Reader |-> 0]
    /\ killed = [p \in User |-> FALSE]
    /\ got = <<>>
    /\ gaveup = FALSE

-----------------------------------------------------------------------------
\* Unsigned subtraction: how many bytes are in the pipe.
Used == (nwrite - nread) % Word
Room == PIPESIZE - Used

\* The n bytes from the read counter on.
Front(n) == [i \in 1..n |-> data[(nread + i - 1) % PIPESIZE]]
Stream == Front(Used)

\* p->lock is free for p.
Locks(p) == \A q \in User \ {p} : at[q] # "nap"

\* wakeup: everybody of a set who is asleep; p itself goes to l.
WakeAnd(set, p, l) ==
    at' = [q \in User |-> IF q = p THEN l
                          ELSE IF q \in set /\ at[q] = "asleep" THEN "run"
                          ELSE at[q]]
PipeGoto(p, l) == at' = [at EXCEPT ![p] = l]

\* A write(fd, s, Len(s)) on the pipe is begun.
BeginWrite(w, s) ==
    /\ w \in holds /\ at[w] = "idle" /\ ~killed[w]
    /\ rest' = [rest EXCEPT ![w] = s]
    /\ PipeGoto(w, "run")
    /\ UNCHANGED <<data, nread, nwrite, readopen, writeopen, holds, want,
                   killed, got, gaveup>>

BeginRead(r, n) ==
    /\ r \in holds /\ at[r] = "idle" /\ ~killed[r]
    /\ want' = [want EXCEPT ![r] = n]
    /\ PipeGoto(r, "run")
    /\ UNCHANGED <<data, nread, nwrite, readopen, writeopen, holds, rest,
                   killed, got, gaveup>>

\* The body of the for loop of pipewrite: the next k bytes of the write go in.
Store(w, k) ==
    /\ data' = [j \in 0..PIPESIZE - 1 |->
            LET i == ((j - nwrite) % PIPESIZE) + 1 IN
            IF i <= k THEN rest[w][i] ELSE data[j]]
    /\ nwrite' = (nwrite + k) % Word
    /\ UNCHANGED <<nread, readopen, writeopen, holds, want, killed, got>>

\* pipewrite() gets all its bytes in and returns n.
WriteAll(w) ==
    /\ Locks(w) /\ at[w] = "run" /\ Len(rest[w]) <= Room
    /\ Store(w, Len(rest[w]))
    /\ rest' = [rest EXCEPT ![w] = <<>>]
    /\ WakeAnd(Reader, w, "idle")
    /\ UNCHANGED gaveup

\* It fills the pipe, wakes the readers and sleeps.
WriteSleep(w) ==
    /\ Locks(w) /\ at[w] = "run" /\ Len(rest[w]) > Room
    /\ readopen /\ ~killed[w]
    /\ Store(w, Room)
    /\ rest' = [rest EXCEPT ![w] = SubSeq(@, Room + 1, Len(@))]
    /\ WakeAnd(Reader, w, "nap")
    /\ UNCHANGED gaveup

\* It fills the pipe and finds no reader, or itself killed: -1.  What it has
\* put in stays, and nobody is woken.
WriteFails(w) ==
    /\ Locks(w) /\ at[w] = "run" /\ Len(rest[w]) > Room
    /\ ~readopen \/ killed[w]
    /\ Store(w, Room)
    /\ rest' = [rest EXCEPT ![w] = <<>>]
    /\ gaveup' = (gaveup \/ readopen)
    /\ PipeGoto(w, "idle")

\* Mutant: the counter runs ahead by n, not by what was there.
ReadAhead(r) ==
    /\ Locks(r) /\ at[r] = "run" /\ (Used > 0 \/ ~writeopen)
    /\ got' = Front(IF want[r] <= Used THEN want[r] ELSE Used)
    /\ nread' = (nread + want[r]) % Word
    /\ WakeAnd(Writer, r, "idle")
    /\ UNCHANGED <<data, nwrite, readopen, writeopen, holds, rest, want, killed, gaveup>>

\* piperead() with bytes in the pipe, or at the end of the stream: it takes
\* what there is, up to n.
Read(r) ==
    /\ Locks(r) /\ at[r] = "run" /\ (Used > 0 \/ ~writeopen)
    /\ LET k == IF want[r] <= Used THEN want[r] ELSE Used IN
       /\ got' = Front(k)
       /\ nread' = (nread + k) % Word
    /\ WakeAnd(Writer, r, "idle")
    /\ UNCHANGED <<data, nwrite, readopen, writeopen, holds, rest, want, killed, gaveup>>

\* The pipe is empty and may yet be written to: sleep, or -1 when killed.
ReadSleep(r) ==
    /\ Locks(r) /\ at[r] = "run" /\ Used = 0 /\ writeopen
    /\ PipeGoto(r, IF killed[r] THEN "idle" ELSE "nap")
    /\ UNCHANGED <<data, nread, nwrite, readopen, writeopen, holds, rest, want,
                   killed, got, gaveup>>

\* sleep() gets ptable.lock: SLEEPING, and p->lock is released.
Doze(p) ==
    /\ at[p] = "nap"
    /\ PipeGoto(p, "asleep")
    /\ UNCHANGED <<data, nread, nwrite, readopen, writeopen, holds, rest, want,
                   killed, got, gaveup>>

\* Mutant: the last writer leaves without waking the readers.
CloseQuiet(p) ==
    /\ Locks(p) /\ p \in holds /\ at[p] = "idle"
    /\ holds' = holds \ {p}
    /\ writeopen' = (holds' \cap Writer # {})
    /\ readopen' = (holds' \cap Reader # {})
    /\ UNCHANGED <<data, nread, nwrite, at, rest, want, killed, got, gaveup>>

\* close() or exit(): fileclose() calls pipeclose() when the last file of an
\* end goes, and that wakes the other end.
PipeClose(p) ==
    /\ Locks(p) /\ p \in holds /\ at[p] = "idle"
    /\ holds' = holds \ {p}
    /\ writeopen' = (holds' \cap Writer # {})
    /\ readopen' = (holds' \cap Reader # {})
    /\ WakeAnd((IF writeopen' THEN {} ELSE Reader) \cup (IF readopen' THEN {} ELSE Writer),
               p, "idle")
    /\ UNCHANGED <<data, nread, nwrite, rest, want, killed, got, gaveup>>

\* kill(): the mark, and a wakeup whatever the channel.  It takes ptable.lock,
\* not p->lock: it may come between the test of killed and the sleep.
Kill(p) ==
    /\ p \in Killable /\ ~killed[p]
    /\ killed' = [killed EXCEPT ![p] = TRUE]
    /\ at' = [at EXCEPT ![p] = IF @ = "asleep" THEN "run" ELSE @]
    /\ UNCHANGED <<data, nread, nwrite, readopen, writeopen, holds, rest, want,
                   got, gaveup>>

PipeNext ==
    \/ \E w \in Writer : \/ \E s \in Strings : BeginWrite(w, s)
                         \/ WriteAll(w) \/ WriteSleep(w) \/ WriteFails(w)
    \/ \E r \in Reader : \/ \E n \in 1..MaxRead : BeginRead(r, n)
                         \/ Read(r) \/ ReadSleep(r)
    \/ \E p \in User : Doze(p) \/ PipeClose(p) \/ Kill(p)

PipeSpec == PipeInit /\ [][PipeNext]_pipevars

-----------------------------------------------------------------------------
F == INSTANCE Fifo WITH Size <- PIPESIZE, stream <- Stream
\* The pipe is a bounded byte stream, through the wrap of the ring and of the
\* counters, with several readers and writers, sleeps and kills.
ImplementsFifo == F!Spec

\* A writer sleeps only on a full pipe somebody can still read from ...
WriterNotMissed ==
    \A w \in Writer : at[w] = "asleep" => Used = PIPESIZE /\ readopen

\* ... and a reader only on an empty pipe somebody can still write to; the
\* exception is the -1 of a killed writer, which fills the pipe and wakes
\* nobody (pipe.c:82-85).
ReaderNotMissed ==
    \A r \in Reader : at[r] = "asleep" => writeopen /\ (Used = 0 \/ gaveup)

\* Readers and writers never wait for each other.
NoStandoff ==
    ~ \E r \in Reader, w \in Writer : at[r] = "asleep" /\ at[w] = "asleep"

\* No wakeup of the pipe is missing, lost or used up by the wrong process, and
\* the counters stay in step with the ring.
NobodyMissed == PipeTypeOK /\ WriterNotMissed /\ ReaderNotMissed /\ NoStandoff
=============================================================================
