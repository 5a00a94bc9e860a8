---------------------------- MODULE RunQueueOps ----------------------------
(***************************************************************************)
(* The per-CPU priority run queue of the NeoDOS kernel as a value: one     *)
(* FIFO of thread ids per priority level (arch/x64/cpu_local.rs,           *)
(* CpuRunQueue).  Level 0 is the most urgent.  RunQueue.tla shows that the *)
(* ring buffers, the bitmap and the counter of the code implement these    *)
(* operators; Scheduler.tla is written with them.                          *)
(***************************************************************************)
EXTENDS Integers, Sequences, FiniteSets

CONSTANT RUNQUEUE_PRIO_CAP      \* capacity of one priority level

ASSUME CapAssumption == RUNQUEUE_PRIO_CAP \in Nat \ {0}

\* PRIORITY_COUNT = 4: PRIORITY_HIGH .. PRIORITY_IDLE
Priorities == 0 .. 3

EmptyQueue == [p \in Priorities |-> << >>]

Elements(s) == {s[i] : i \in DOMAIN s}

\* The entries of s that are in T, in order.
Kept(s, T) ==
    LET kept[i \in 0 .. Len(s)] ==
          IF i = 0 THEN << >>
          ELSE IF s[i] \in T THEN Append(kept[i - 1], s[i]) ELSE kept[i - 1]
    IN  kept[Len(s)]

QueuedTids(Q) == UNION {Elements(Q[p]) : p \in Priorities}

\* The set bits of active_bitmap.
ActiveLevels(Q) == {p \in Priorities : Q[p] # << >>}

\* trailing_zeros(active_bitmap); 4 when the bitmap is 0.
HighestLevel(Q) ==
    IF ActiveLevels(Q) = {} THEN 4
    ELSE CHOOSE p \in ActiveLevels(Q) : \A r \in ActiveLevels(Q) : p <= r

LevelFull(Q, p) == Len(Q[p]) >= RUNQUEUE_PRIO_CAP

\* push_priority: refused when that one level is full.
PushPriority(Q, t, p) ==
    IF LevelFull(Q, p) THEN Q ELSE [Q EXCEPT ![p] = Append(@, t)]

\* peek_highest, and pop of a queue that is not empty.
PeekHighest(Q) == Head(Q[HighestLevel(Q)])

PopHighest(Q) == [Q EXCEPT ![HighestLevel(Q)] = Tail(@)]

\* CpuRunQueue::remove: the first occurrence, in the first level that has one.
LevelsWith(Q, t) == {p \in Priorities : t \in Elements(Q[p])}

FirstIndex(s, t) == CHOOSE i \in DOMAIN s : s[i] = t /\ \A j \in 1 .. i - 1 : s[j] # t

DropAt(s, i) == SubSeq(s, 1, i - 1) \o SubSeq(s, i + 1, Len(s))

RemoveTid(Q, t) ==
    IF LevelsWith(Q, t) = {} THEN Q
    ELSE LET p == CHOOSE p \in LevelsWith(Q, t) : \A r \in LevelsWith(Q, t) : p <= r
         IN  [Q EXCEPT ![p] = DropAt(@, FirstIndex(@, t))]

\* entries_vec: the levels one after the other.
Flat(Q) == Q[0] \o Q[1] \o Q[2] \o Q[3]
=============================================================================
