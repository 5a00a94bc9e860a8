--------------------------- MODULE HandleTableOps ---------------------------
(***************************************************************************)
(* The handle table of a process (infra/handle.rs) as a sequence of        *)
(* entries; file descriptor fd is at index fd + 1.                         *)
(***************************************************************************)
EXTENDS Integers, Sequences, SequencesExt

CONSTANT MaxHandles   \* entries a table can hold (256: descriptors are u8)

MaxHandlesAssumption == MaxHandles \in Nat /\ MaxHandles >= 4

HANDLE_CLOSED == 0
HANDLE_STDIO == -1    \* the sentinels of stdin, stdout and stderr

closed == [object_id |-> HANDLE_CLOSED, offset |-> 0]
stdio == [object_id |-> HANDLE_STDIO, offset |-> 0]

is_open(e) == e.object_id # HANDLE_CLOSED
has_ob_object(e) == e.object_id > 0

with_defaults == <<stdio, stdio, stdio>>

get(table, fd) == IF fd < Len(table) THEN table[fd + 1] ELSE closed

\* set() grows the table with closed entries up to fd.
set(table, fd, e) ==
    LET grown == [i \in 1..fd + 1 |-> IF i <= Len(table) THEN table[i] ELSE closed]
    IN  [IF fd < Len(table) THEN table ELSE grown EXCEPT ![fd + 1] = e]

\* Closed descriptors above the standard streams, in increasing order.
Reusable(table) == SetToSortSeq({fd \in 3..Len(table) - 1 : ~is_open(table[fd + 1])}, <)

Refused == [ok |-> FALSE, table |-> <<>>, fds |-> <<>>]

\* Takes two closed descriptors, or one and a new entry at the end.
alloc_two_handles(table, e1, e2) ==
    LET free == Reusable(table)
        second == IF Len(free) >= 2 THEN free[2] ELSE Len(table)
    IN  IF free = <<>> \/ (Len(free) = 1 /\ Len(table) >= MaxHandles)
        THEN Refused
        ELSE [ok |-> TRUE, table |-> set(set(table, second, e2), free[1], e1),
              fds |-> <<free[1], second>>]

=============================================================================
