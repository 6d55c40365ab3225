------------------------------ MODULE Console ------------------------------
(***************************************************************************)
(* The keyboard side of the console, console.c: consoleintr() edits a line *)
(* in a ring of bytes, consoleread() takes what was entered.  Both run     *)
(* under input.lock; a reader gives it up only in sleep(), so a step of a  *)
(* reader goes from one sleep to the next, or to its return.               *)
(***************************************************************************)
EXTENDS Integers, FiniteSets, Sequences

CONSTANTS
    Reader,
    Killable,   \* the readers that kill() may name
    Char, Newline, Eof,
    INPUT_BUF,
    Word,       \* values of the unsigned counters r, w and e
    MaxRead     \* the most a reader asks for

\* The ring divides the range of the counters, as 128 divides 2^32.
ConsoleAssumption ==
    /\ INPUT_BUF \in Nat \ {0} /\ Word \in Nat
    /\ Word % INPUT_BUF = 0 /\ INPUT_BUF < Word
    /\ MaxRead \in Nat

VARIABLES
    buf, ri, wi, ei,    \* struct input
    state,              \* of a reader: "out", "ready", "asleep", "exited"
    left, target,       \* n, what it still wants, and what it wanted at first
    killed

consolevars == <<buf, ri, wi, ei, state, left, target, killed>>

Plus(i, k)  == (i + k) % Word
Minus(i, j) == (i - j) % Word
Slot(i)     == i % INPUT_BUF

ConsoleInit ==
    /\ buf = [i \in 0..INPUT_BUF - 1 |-> Newline]
    /\ ri = 0 /\ wi = 0 /\ ei = 0
    /\ state = [p \in Reader |-> "out"]
    /\ left = [p \in Reader |-> 0] /\ target = [p \in Reader |-> 0]
    /\ killed = {}

\* wakeup(&input.r)
wakeup == state' = [p \in Reader |-> IF state[p] = "asleep" THEN "ready" ELSE state[p]]

-----------------------------------------------------------------------------
\* Mutant: what is left of the ring is counted from w.
RoomFromW == Minus(ei, wi) < INPUT_BUF

\* There is room in the ring.
Room == Minus(ei, ri) < INPUT_BUF

\* A character comes (a return comes as a newline).
TypeChar(c) ==
    /\ Room
    /\ buf' = [buf EXCEPT ![Slot(ei)] = c]
    /\ ei' = Plus(ei, 1)
    /\ IF c \in {Newline, Eof} \/ ei' = Plus(ri, INPUT_BUF)
         THEN wi' = ei' /\ wakeup
         ELSE UNCHANGED <<wi, state>>
    /\ UNCHANGED <<ri, left, target, killed>>

Backspace ==
    /\ ei # wi
    /\ ei' = Minus(ei, 1)
    /\ UNCHANGED <<buf, ri, wi, state, left, target, killed>>

\* Control-U goes back to the end of what was entered, or of a line.
KillLine ==
    /\ \E k \in 0..Minus(ei, wi) :
         /\ \A j \in 1..k : buf[Slot(Minus(ei, j))] # Newline
         /\ k = Minus(ei, wi) \/ buf[Slot(Minus(ei, k + 1))] = Newline
         /\ ei' = Minus(ei, k)
    /\ UNCHANGED <<buf, ri, wi, state, left, target, killed>>

-----------------------------------------------------------------------------
Call(p) ==
    /\ state[p] = "out" /\ p \notin killed
    /\ \E m \in 1..MaxRead :
         left' = [left EXCEPT ![p] = m] /\ target' = [target EXCEPT ![p] = m]
    /\ state' = [state EXCEPT ![p] = "ready"]
    /\ UNCHANGED <<buf, ri, wi, ei, killed>>

\* How many of the bytes that can be read the loop takes before it sleeps or
\* returns: up to a newline, or before an end of file that is not the first.
There(k) == buf[Slot(Plus(ri, k))]     \* the k-th of them, from 0
Takes(p) ==
    LET most == IF Minus(wi, ri) < left[p] THEN Minus(wi, ri) ELSE left[p]
        Ends == {k \in 0..most - 1 : There(k) \in {Newline, Eof}}
        end  == CHOOSE k \in Ends : \A j \in Ends : k <= j
    IN  IF Ends = {} THEN most
        ELSE IF There(end) = Eof /\ left[p] - end < target[p] THEN end
        ELSE end + 1

\* All it wanted, or to the end of a line.
Return(p) ==
    /\ state[p] = "ready" /\ ri # wi
    /\ Takes(p) = left[p] \/ \E k \in 0..Minus(wi, ri) - 1 :
                             k <= Takes(p) /\ k < left[p] /\ There(k) \in {Newline, Eof}
    /\ ri' = Plus(ri, Takes(p))
    /\ state' = [state EXCEPT ![p] = "out"]
    /\ left' = [left EXCEPT ![p] = 0] /\ target' = [target EXCEPT ![p] = 0]
    /\ UNCHANGED <<buf, wi, ei, killed>>

\* The ring is empty before it has all: what there was is taken, and it sleeps.
Sleep(p) ==
    /\ state[p] = "ready" /\ p \notin killed
    /\ Minus(wi, ri) < left[p]
    /\ \A k \in 0..Minus(wi, ri) - 1 : There(k) \notin {Newline, Eof}
    /\ ri' = wi
    /\ left' = [left EXCEPT ![p] = @ - Minus(wi, ri)]
    /\ state' = [state EXCEPT ![p] = "asleep"]
    /\ UNCHANGED <<buf, wi, ei, target, killed>>

\* Where it would sleep it finds that it was killed: -1, and it exits.
Killed(p) ==
    /\ state[p] = "ready" /\ p \in killed
    /\ Minus(wi, ri) < left[p]
    /\ \A k \in 0..Minus(wi, ri) - 1 : There(k) \notin {Newline, Eof}
    /\ ri' = wi
    /\ state' = [state EXCEPT ![p] = "exited"]
    /\ left' = [left EXCEPT ![p] = 0] /\ target' = [target EXCEPT ![p] = 0]
    /\ UNCHANGED <<buf, wi, ei, killed>>

\* kill() of a reader wakes it.
Kill(p) ==
    /\ p \in Killable \ killed
    /\ killed' = killed \cup {p}
    /\ state' = [state EXCEPT ![p] = IF @ = "asleep" THEN "ready" ELSE @]
    /\ UNCHANGED <<buf, ri, wi, ei, left, target>>

Interrupt == (\E c \in Char : TypeChar(c)) \/ Backspace \/ KillLine
Reads(p) == Return(p) \/ Sleep(p) \/ Killed(p)

ConsoleNext == Interrupt \/ \E p \in Reader : Call(p) \/ Reads(p) \/ Kill(p)

ConsoleSpec == ConsoleInit /\ [][ConsoleNext]_consolevars

-----------------------------------------------------------------------------
\* The characters from i up to j.
Between(i, j) == [k \in 1..Minus(j, i) |-> buf[Slot(Plus(i, k - 1))]]
Screen == INSTANCE Terminal WITH
    Capacity <- INPUT_BUF, entered <- Between(ri, wi), line <- Between(wi, ei),
    waiting <- {p \in Reader : state[p] = "asleep"}

\* Through the wrap of the ring and of the counters, with several readers, the
\* console is module Terminal: nothing that was entered is edited, lost or read
\* twice, and nobody sleeps while there is something to read.
ImplementsTerminal == Screen!Spec
=============================================================================
