------------------------------ MODULE PipeRing ------------------------------
(***************************************************************************)
(* PipeInner as it is coded (object/pipe.rs): a ring of PIPE_BUF_SIZE      *)
(* bytes between head and tail, where head = tail means empty.  Each       *)
(* operation runs under the pipe's mutex.                                  *)
(***************************************************************************)
EXTENDS Integers, Sequences

CONSTANTS Bytes, MaxIo, PIPE_BUF_SIZE

RingAssumption == PIPE_BUF_SIZE \in Nat \ {0} /\ MaxIo \in Nat /\ 0 \in Bytes

VARIABLES buf, head, tail, ringOut

ringVars == <<buf, head, tail, ringOut>>

Buffers == UNION {[1..k -> Bytes] : k \in 0..MaxIo}

RingInit ==
    /\ buf = [i \in 0..PIPE_BUF_SIZE - 1 |-> 0]
    /\ head = 0
    /\ tail = 0
    /\ ringOut = <<>>

\* Mutant: a full ring looks empty.
UsedIgnoresWrap == IF tail >= head THEN tail - head ELSE 0

used == IF tail >= head THEN tail - head ELSE PIPE_BUF_SIZE - head + tail

free == PIPE_BUF_SIZE - used - 1

Min2(a, b) == IF a < b THEN a ELSE b

read_into(len) ==
    LET to_read == Min2(used, len)
    IN  /\ ringOut' = [i \in 1..to_read |-> buf[(head + i - 1) % PIPE_BUF_SIZE]]
        /\ head' = (head + to_read) % PIPE_BUF_SIZE
        /\ UNCHANGED <<buf, tail>>

write_from(b) ==
    LET to_write == Min2(free, Len(b))
        Slot(i) == (tail + i - 1) % PIPE_BUF_SIZE
    IN  /\ buf' = [s \in DOMAIN buf |->
                     IF \E i \in 1..to_write : Slot(i) = s
                     THEN b[CHOOSE i \in 1..to_write : Slot(i) = s]
                     ELSE buf[s]]
        /\ tail' = (tail + to_write) % PIPE_BUF_SIZE
        /\ ringOut' = [i \in 1..to_write |-> b[i]]
        /\ UNCHANGED head

reset == head' = 0 /\ tail' = 0 /\ ringOut' = <<>> /\ UNCHANGED buf

RingNext ==
    \/ \E len \in 0..MaxIo : read_into(len)
    \/ \E b \in Buffers : write_from(b)
    \/ reset

RingSpec == RingInit /\ [][RingNext]_ringVars

-----------------------------------------------------------------------------
\* head and tail stay inside the ring.
RingTypeOK ==
    /\ buf \in [0..PIPE_BUF_SIZE - 1 -> Bytes]
    /\ head \in 0..PIPE_BUF_SIZE - 1
    /\ tail \in 0..PIPE_BUF_SIZE - 1

\* used() and free() share the ring without overlap: together they are one byte
\* less than its size, and neither underflows its usize.
Balanced == used \in 0..PIPE_BUF_SIZE - 1 /\ free \in 0..PIPE_BUF_SIZE - 1

Stream == [i \in 1..used |-> buf[(head + i - 1) % PIPE_BUF_SIZE]]

AbsStream == INSTANCE AbsPipe WITH stream <- Stream, out <- ringOut, Size <- PIPE_BUF_SIZE

\* The ring behaves as a bounded stream: bytes come out in the order written,
\* also when head and tail wrap.
ImplementsStream == AbsStream!AbsSpec

=============================================================================
