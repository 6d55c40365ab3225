------------------------------ MODULE Terminal ------------------------------
(***************************************************************************)
(* What the console promises to those who read from it: a line can be      *)
(* edited until it is entered, what was entered is read in order, each     *)
(* character once, and nobody waits while there is something to read.      *)
(***************************************************************************)
EXTENDS Integers, Sequences

CONSTANTS Reader, Char, Newline, Eof, Capacity

VARIABLES
    entered,    \* what can be read
    line,       \* what can still be edited
    waiting     \* the readers that wait for more

vars == <<entered, line, waiting>>

Init == entered = <<>> /\ line = <<>> /\ waiting = {}

\* The line is entered with its end, or when there is no room for more: then
\* those that wait are woken.
Type(c) ==
    /\ Len(entered) + Len(line) < Capacity
    /\ IF c \in {Newline, Eof} \/ Len(entered) + Len(line) + 1 = Capacity
         THEN entered' = entered \o Append(line, c) /\ line' = <<>> /\ waiting' = {}
         ELSE line' = Append(line, c) /\ UNCHANGED <<entered, waiting>>

Erase == /\ line # <<>>
         /\ line' = SubSeq(line, 1, Len(line) - 1)
         /\ UNCHANGED <<entered, waiting>>
Kill == line' = <<>> /\ UNCHANGED <<entered, waiting>>

\* A read takes some of what was entered, never past the end of a line; an end
\* of file that is not the first thing it meets stays for the next read.
Read ==
    /\ \E k \in 1..Len(entered) :
         /\ \A j \in 1..k - 1 : entered[j] \notin {Newline, Eof}
         /\ entered[k] = Eof => k = 1
         /\ entered' = SubSeq(entered, k + 1, Len(entered))
    /\ UNCHANGED <<line, waiting>>

\* A reader that wants more than there is takes it all and waits; a reader that
\* is killed waits no longer, and what it has taken is gone.
Wait(p) ==
    /\ \A j \in 1..Len(entered) : entered[j] \notin {Newline, Eof}
    /\ entered' = <<>> /\ waiting' = waiting \cup {p}
    /\ UNCHANGED line
GiveUp(p) ==
    /\ waiting' = waiting \ {p}
    /\ UNCHANGED <<entered, line>>

Next ==
    \/ (\E c \in Char : Type(c)) \/ Erase \/ Kill \/ Read
    \/ \E p \in Reader : Wait(p) \/ GiveUp(p)

Spec == Init /\ [][Next]_vars
=============================================================================
