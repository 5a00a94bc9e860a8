----------------------------- MODULE RunQueue -----------------------------
(***************************************************************************)
(* CpuRunQueue as it is coded (arch/x64/cpu_local.rs): four ring buffers   *)
(* with wrapping 16-bit indices, a total count and a bitmap of the levels  *)
(* that are not empty.  Every operation runs under the queue's lock, so    *)
(* each is one step.                                                       *)
(***************************************************************************)
EXTENDS RunQueueOps

CONSTANTS Tids,          \* thread ids
          Prios,         \* the priorities callers use
          NoTid,         \* the None of Option<u32>, and the initial entry value
          IndexModulus   \* head_idx and tail_idx wrap at this value (2^16)

\* u16::wrapping_add agrees with `% RUNQUEUE_PRIO_CAP' only because the
\* capacity divides the modulus (64 divides 65536).
ASSUME ModulusAssumption ==
    /\ IndexModulus \in Nat \ {0}
    /\ IndexModulus % RUNQUEUE_PRIO_CAP = 0

ASSUME PriosAssumption == Prios \subseteq Priorities /\ NoTid \notin Tids

VARIABLES
    entries,        \* entries[p][i]: slot i of level p
    head_idx,       \* next slot to pop, per level
    tail_idx,       \* next slot to push, per level
    level_count,    \* PrioritySubQueue::count
    active_bitmap,  \* the set of levels whose bit is set
    count,          \* CpuRunQueue::count
    out             \* the last operation and the value it returned

vars == <<entries, head_idx, tail_idx, level_count, active_bitmap, count, out>>

Slots == 0 .. RUNQUEUE_PRIO_CAP - 1

Init ==
    /\ entries = [p \in Priorities |-> [i \in Slots |-> NoTid]]
    /\ head_idx = [p \in Priorities |-> 0]
    /\ tail_idx = [p \in Priorities |-> 0]
    /\ level_count = [p \in Priorities |-> 0]
    /\ active_bitmap = {}
    /\ count = 0
    /\ out = <<"new", NoTid>>

\* The entries of level p from head to tail: what the loops of contains,
\* remove and entries_vec walk.
Ring(p) ==
    [i \in 1 .. level_count[p] |-> entries[p][(head_idx[p] + i - 1) % RUNQUEUE_PRIO_CAP]]

Contains(t) == \E p \in Priorities : t \in Elements(Ring(p))

Wrap(i) == (i + 1) % IndexModulus

\* --- push_priority -------------------------------------------------------

PushAccepts(p) == level_count[p] < RUNQUEUE_PRIO_CAP

push_priority(t, p) ==
    /\ ~Contains(t)
    /\ out' = <<"push", PushAccepts(p)>>
    /\ IF PushAccepts(p)
       THEN /\ entries' = [entries EXCEPT ![p][tail_idx[p] % RUNQUEUE_PRIO_CAP] = t]
            /\ tail_idx' = [tail_idx EXCEPT ![p] = Wrap(@)]
            /\ level_count' = [level_count EXCEPT ![p] = @ + 1]
            /\ active_bitmap' = active_bitmap \cup {p}
            /\ count' = count + 1
            /\ UNCHANGED head_idx
       ELSE UNCHANGED <<entries, head_idx, tail_idx, level_count, active_bitmap, count>>

\* --- pop -----------------------------------------------------------------
LowestBit == CHOOSE p \in active_bitmap : \A r \in active_bitmap : p <= r

\* Mutant: the bit of a level that became empty stays set.
BitsKept(p, n) == active_bitmap

BitsAfter(p, n) == IF n = 0 THEN active_bitmap \ {p} ELSE active_bitmap

pop ==
    IF count = 0 \/ active_bitmap = {} \/ level_count[LowestBit] = 0
    THEN /\ out' = <<"pop", NoTid>>
         /\ UNCHANGED <<entries, head_idx, tail_idx, level_count, active_bitmap, count>>
    ELSE LET p == LowestBit IN
         /\ out' = <<"pop", entries[p][head_idx[p] % RUNQUEUE_PRIO_CAP]>>
         /\ head_idx' = [head_idx EXCEPT ![p] = Wrap(@)]
         /\ level_count' = [level_count EXCEPT ![p] = @ - 1]
         /\ active_bitmap' = BitsAfter(p, level_count[p] - 1)
         /\ count' = count - 1
         /\ UNCHANGED <<entries, tail_idx>>

\* --- remove --------------------------------------------------------------
\* PrioritySubQueue::remove rewrites the level from slot 0.
CompactedHead(n) == 0

\* Mutant: the tail is not moved back over the removed entry.
CompactedTailLate(n) == n + 1

CompactedTail(n) == n

Compact(p, s) ==
    /\ entries' = [entries EXCEPT ![p] =
                     [i \in Slots |-> IF i < Len(s) THEN s[i + 1] ELSE @[i]]]
    /\ head_idx' = [head_idx EXCEPT ![p] = CompactedHead(Len(s))]
    /\ tail_idx' = [tail_idx EXCEPT ![p] = CompactedTail(Len(s))]
    /\ level_count' = [level_count EXCEPT ![p] = Len(s)]

remove(t) ==
    IF count = 0 \/ ~Contains(t)
    THEN /\ out' = <<"remove", FALSE>>
         /\ UNCHANGED <<entries, head_idx, tail_idx, level_count, active_bitmap, count>>
    ELSE LET p == CHOOSE p \in Priorities :
                     /\ t \in Elements(Ring(p))
                     /\ \A r \in 0 .. p - 1 : t \notin Elements(Ring(r))
         IN  /\ Compact(p, DropAt(Ring(p), FirstIndex(Ring(p), t)))
             /\ active_bitmap' = BitsAfter(p, level_count[p] - 1)
             /\ count' = count - 1
             /\ out' = <<"remove", TRUE>>

\* --- clear ---------------------------------------------------------------
clear ==
    /\ head_idx' = [p \in Priorities |-> 0]
    /\ tail_idx' = [p \in Priorities |-> 0]
    /\ level_count' = [p \in Priorities |-> 0]
    /\ active_bitmap' = {}
    /\ count' = 0
    /\ out' = <<"clear", NoTid>>
    /\ UNCHANGED entries

Next ==
    \/ \E t \in Tids, p \in Prios : push_priority(t, p)
    \/ pop
    \/ \E t \in Tids : remove(t)
    \/ clear

Spec == Init /\ [][Next]_vars
-----------------------------------------------------------------------------
\* The state has the types of the Rust structures.
TypeOK ==
    /\ entries \in [Priorities -> [Slots -> Tids \cup {NoTid}]]
    /\ head_idx \in [Priorities -> 0 .. IndexModulus - 1]
    /\ tail_idx \in [Priorities -> 0 .. IndexModulus - 1]
    /\ level_count \in [Priorities -> 0 .. RUNQUEUE_PRIO_CAP]
    /\ active_bitmap \subseteq Priorities
    /\ count \in 0 .. 4 * RUNQUEUE_PRIO_CAP

\* The bitmap, the per-level counts and the total count describe the same
\* queue.  pop trusts the bitmap to find a level and the total to know whether
\* there is one; highest_ready_priority reads the bitmap alone.
BookkeepingAgrees ==
    /\ active_bitmap = {p \in Priorities : level_count[p] > 0}
    /\ count = level_count[0] + level_count[1] + level_count[2] + level_count[3]

\* The abstract queue, whose sequences are the contents of the rings.
Abs == INSTANCE AbsRunQueue WITH q <- [p \in Priorities |-> Ring(p)]

\* The ring buffers implement the FIFO-per-priority queue: every result and
\* every order of thread ids is the one the abstract queue gives, across index
\* wrap-around and the compaction done by remove.
ImplementsAbsRunQueue == Abs!AbsSpec
=============================================================================
