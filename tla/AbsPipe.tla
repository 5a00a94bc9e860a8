------------------------------ MODULE AbsPipe ------------------------------
(***************************************************************************)
(* What the buffer of a pipe promises: a bounded stream of bytes.  A write *)
(* stores the longest prefix that fits, a read returns the oldest bytes,   *)
(* and none is lost, repeated or reordered.  `out' is the last result.     *)
(***************************************************************************)
EXTENDS Integers, Sequences

CONSTANTS Bytes,     \* byte values
          MaxIo,     \* longest buffer a caller passes
          Size       \* PIPE_BUF_SIZE; one byte of the ring stays unused

VARIABLES stream, out

AbsVars == <<stream, out>>

Shorter(a, b) == IF a < b THEN a ELSE b

AbsInit == stream = <<>> /\ out = <<>>

AbsWrite(b) ==
    LET n == Shorter(Len(b), Size - 1 - Len(stream))
    IN  /\ stream' = stream \o SubSeq(b, 1, n)
        /\ out' = SubSeq(b, 1, n)

AbsRead(len) ==
    LET n == Shorter(len, Len(stream))
    IN  /\ out' = SubSeq(stream, 1, n)
        /\ stream' = SubSeq(stream, n + 1, Len(stream))

\* free_pipe and a later alloc empty the buffer.
AbsReset == stream' = <<>> /\ out' = <<>>

AbsNext ==
    \/ \E len \in 0..MaxIo, b \in UNION {[1..k -> Bytes] : k \in 0..MaxIo} :
          AbsWrite(b) \/ AbsRead(len)
    \/ AbsReset

AbsSpec == AbsInit /\ [][AbsNext]_AbsVars

=============================================================================
