-------------------------------- MODULE Fifo --------------------------------
(***************************************************************************)
(* What a pipe promises: a byte stream of bounded length.  Bytes come out  *)
(* in the order they went in, none is lost, invented or delivered twice.   *)
(***************************************************************************)
EXTENDS Integers, Sequences

CONSTANTS Byte, Size

VARIABLES
    stream,     \* the bytes in the pipe
    got         \* what the last read took out

Init == stream = <<>> /\ got = <<>>

Put ==
    /\ \E s \in UNION {[1..n -> Byte] : n \in 1..Size - Len(stream)} :
            stream' = stream \o s
    /\ UNCHANGED got

Take ==
    \E k \in 0..Len(stream) :
        /\ got' = SubSeq(stream, 1, k)
        /\ stream' = SubSeq(stream, k + 1, Len(stream))

Next == Put \/ Take

Spec == Init /\ [][Next]_<<stream, got>>
=============================================================================
