---------------------------- MODULE QueueProofs ----------------------------
(***************************************************************************)
(* Proofs about the two queues of the kernel.                              *)
(*                                                                         *)
(* RunQueue, for every capacity, index width and set of threads: the       *)
(* bookkeeping invariant is inductive together with the type invariant.    *)
(*                                                                         *)
(* PipeRing, for every buffer size, set of bytes and length of the         *)
(* callers' buffers: the ring of a pipe implements the bounded stream.     *)
(***************************************************************************)
EXTENDS RunQueue, PipeRing, NaturalFacts

\* What pop and remove rely on: the types and the agreement of the counters.
Bookkeeping == TypeOK /\ BookkeepingAgrees

\* Removing one entry of a sequence leaves a sequence one shorter.
LEMMA DropAtShortens ==
    ASSUME NEW S, NEW s \in Seq(S), NEW i \in 1 .. Len(s)
    PROVE  /\ DropAt(s, i) \in Seq(S)
           /\ Len(DropAt(s, i)) = Len(s) - 1
  <1> DEFINE a == SubSeq(s, 1, i - 1)
             b == SubSeq(s, i + 1, Len(s))
  <1>1. a \in Seq(S) /\ Len(a) = i - 1
    OBVIOUS
  <1>2. b \in Seq(S) /\ Len(b) = Len(s) - i
    OBVIOUS
  <1>3. a \o b \in Seq(S) /\ Len(a \o b) = Len(a) + Len(b)
    <2>1. a \in Seq(S) /\ b \in Seq(S)
      BY Zenon, <1>1, <1>2
    <2> HIDE DEF a, b
    <2> QED
      BY <2>1
  <1>4. DropAt(s, i) = a \o b
    BY DEF DropAt
  <1>5. Len(s) \in Nat
    OBVIOUS
  <1> HIDE DEF a, b
  <1>6. Len(a \o b) = Len(s) - 1
    BY <1>1, <1>2, <1>3, <1>5
  <1> QED
    BY <1>3, <1>4, <1>6, Zenon

\* The walk over a level yields level_count[p] thread ids or unused slots.
LEMMA RingIsSequence ==
    ASSUME TypeOK, NEW p \in Priorities
    PROVE  /\ Ring(p) \in Seq(Tids \cup {NoTid})
           /\ Len(Ring(p)) = level_count[p]
  <1>1. level_count[p] \in Nat /\ head_idx[p] \in Nat
    BY ModulusAssumption DEF TypeOK
  <1>2. \A i \in 1 .. level_count[p] : (head_idx[p] + i - 1) % RUNQUEUE_PRIO_CAP \in Slots
    BY <1>1, CapAssumption DEF Slots
  <1>3. entries[p] \in [Slots -> Tids \cup {NoTid}]
    BY DEF TypeOK
  <1> QED
    BY <1>1, <1>2, <1>3 DEF Ring

\* The initial queue is empty in every account of it.
LEMMA InitBookkeeping == Init => Bookkeeping
  BY CapAssumption, ModulusAssumption
     DEF Init, Bookkeeping, TypeOK, BookkeepingAgrees, Slots, Priorities

\* The wrapped index stays within the width of the field.
LEMMA WrapInRange ==
    ASSUME NEW i \in 0 .. IndexModulus - 1
    PROVE  Wrap(i) \in 0 .. IndexModulus - 1
  BY ModulusAssumption DEF Wrap

\* push_priority adds one to a level that had room, to its bit and to the total.
LEMMA PushBookkeeping ==
    ASSUME Bookkeeping, NEW t \in Tids, NEW p \in Priorities, push_priority(t, p)
    PROVE  Bookkeeping'
  <1>1. CASE ~PushAccepts(p)
    BY <1>1 DEF push_priority, Bookkeeping, TypeOK, BookkeepingAgrees
  <1>2. CASE PushAccepts(p)
    <2>1. level_count[p] \in 0 .. RUNQUEUE_PRIO_CAP - 1
      BY <1>2, CapAssumption DEF Bookkeeping, TypeOK, PushAccepts
    <2>2. tail_idx[p] % RUNQUEUE_PRIO_CAP \in Slots
      BY CapAssumption, ModulusAssumption DEF Bookkeeping, TypeOK, Slots
    <2>3. entries' \in [Priorities -> [Slots -> Tids \cup {NoTid}]]
      <3> DEFINE j == tail_idx[p] % RUNQUEUE_PRIO_CAP
                 row == [entries[p] EXCEPT ![j] = t]
      <3>1. row \in [Slots -> Tids \cup {NoTid}]
        BY <2>2 DEF Bookkeeping, TypeOK
      <3>2. entries' = [entries EXCEPT ![p] = row]
        BY <1>2 DEF push_priority
      <3> HIDE DEF row
      <3> QED
        BY <3>1, <3>2 DEF Bookkeeping, TypeOK
    <2>4. tail_idx' \in [Priorities -> 0 .. IndexModulus - 1]
      BY <1>2, WrapInRange DEF push_priority, Bookkeeping, TypeOK
    <2>5. level_count' \in [Priorities -> 0 .. RUNQUEUE_PRIO_CAP]
      BY <1>2, <2>1, CapAssumption DEF push_priority, Bookkeeping, TypeOK
    <2>6. BookkeepingAgrees'
      BY <1>2, <2>1, <2>5, CapAssumption
         DEF push_priority, Bookkeeping, TypeOK, BookkeepingAgrees, Priorities
    <2>7. count' \in 0 .. 4 * RUNQUEUE_PRIO_CAP
      BY <2>5, <2>6, CapAssumption DEF BookkeepingAgrees, Priorities
    <2> QED
      BY <1>2, <2>3, <2>4, <2>5, <2>6, <2>7 DEF push_priority, Bookkeeping, TypeOK
  <1> QED
    BY <1>1, <1>2

\* pop takes one from the lowest set bit; a level left empty loses its bit.
LEMMA PopBookkeeping ==
    ASSUME Bookkeeping, pop
    PROVE  Bookkeeping'
  <1> DEFINE nothing == count = 0 \/ active_bitmap = {} \/ level_count[LowestBit] = 0
             p == LowestBit
  <1>1. CASE nothing
    BY <1>1 DEF pop, Bookkeeping, TypeOK, BookkeepingAgrees
  <1>2. CASE ~nothing
    <2>1. p \in Priorities /\ p \in active_bitmap
      <3>1. active_bitmap \subseteq 0 .. 3 /\ active_bitmap # {}
        BY <1>2 DEF Bookkeeping, TypeOK, Priorities
      <3>2. \E q \in active_bitmap : \A r \in active_bitmap : q <= r
        <4>1. CASE 0 \in active_bitmap
          BY <3>1, <4>1
        <4>2. CASE 0 \notin active_bitmap /\ 1 \in active_bitmap
          BY <3>1, <4>2
        <4>3. CASE 0 \notin active_bitmap /\ 1 \notin active_bitmap /\ 2 \in active_bitmap
          BY <3>1, <4>3
        <4>4. CASE active_bitmap = {3}
          BY <4>4
        <4>5. \A q \in active_bitmap : q = 0 \/ q = 1 \/ q = 2 \/ q = 3
          BY <3>1
        <4> QED
          BY <3>1, <4>1, <4>2, <4>3, <4>4, <4>5, Zenon
      <3> QED
        BY ZenonT(60), <3>1, <3>2 DEF LowestBit, Priorities
    <2>2. level_count[p] \in 1 .. RUNQUEUE_PRIO_CAP /\ count \in Nat \ {0}
      BY <1>2, <2>1, CapAssumption DEF Bookkeeping, TypeOK
    <2>3. /\ head_idx' = [head_idx EXCEPT ![p] = Wrap(@)]
          /\ level_count' = [level_count EXCEPT ![p] = @ - 1]
          /\ active_bitmap' = BitsAfter(p, level_count[p] - 1)
          /\ count' = count - 1
          /\ UNCHANGED <<entries, tail_idx>>
      BY <1>2 DEF pop
    <2> HIDE DEF p, nothing
    <2>4. head_idx' \in [Priorities -> 0 .. IndexModulus - 1]
      BY <2>1, <2>3, WrapInRange DEF Bookkeeping, TypeOK
    <2>5. level_count' \in [Priorities -> 0 .. RUNQUEUE_PRIO_CAP]
      BY <2>1, <2>2, <2>3, CapAssumption DEF Bookkeeping, TypeOK
    <2>6. BookkeepingAgrees'
      BY <2>1, <2>2, <2>3, CapAssumption
         DEF Bookkeeping, TypeOK, BookkeepingAgrees, Priorities, BitsAfter
    <2>7. count' \in 0 .. 4 * RUNQUEUE_PRIO_CAP
      BY <2>5, <2>6, CapAssumption DEF BookkeepingAgrees, Priorities
    <2> QED
      BY <2>3, <2>4, <2>5, <2>6, <2>7 DEF Bookkeeping, TypeOK, BookkeepingAgrees
  <1> QED
    BY <1>1, <1>2

\* A thread of a sequence has a first position in it.
LEMMA FirstIndexExists ==
    ASSUME NEW S, NEW s \in Seq(S), NEW t \in Elements(s)
    PROVE  FirstIndex(s, t) \in 1 .. Len(s)
  <1> DEFINE P == {i \in 1 .. Len(s) : s[i] = t}
  <1>1. P # {} /\ P \subseteq Nat
    BY DEF Elements
  <1>2. PICK i \in P : \A j \in P : i <= j
    <2> HIDE DEF P
    <2> QED
      BY Zenon, <1>1, LeastNatural
  <1>3. i \in Nat /\ \A j \in P : ~(j < i)
    BY <1>1, <1>2
  <1>4. i \in DOMAIN s /\ s[i] = t /\ \A j \in 1 .. i - 1 : s[j] # t
    BY <1>3
  <1> QED
    BY <1>4 DEF FirstIndex

\* The capacity divides the modulus, so it is no larger.
LEMMA CapBelowModulus == RUNQUEUE_PRIO_CAP <= IndexModulus
  BY CapAssumption, ModulusAssumption

\* remove finds the level of the thread, rewrites it and gives back one entry.
LEMMA RemoveBookkeeping ==
    ASSUME Bookkeeping, NEW t \in Tids, remove(t)
    PROVE  Bookkeeping'
  <1> DEFINE nothing == count = 0 \/ ~Contains(t)
             p == CHOOSE p \in Priorities :
                     /\ t \in Elements(Ring(p))
                     /\ \A r \in 0 .. p - 1 : t \notin Elements(Ring(r))
             i == FirstIndex(Ring(p), t)
             s == DropAt(Ring(p), i)
  <1>1. CASE nothing
    BY ZenonT(60), <1>1 DEF remove, Bookkeeping, TypeOK, BookkeepingAgrees
  <1>2. CASE ~nothing
    <2>1. p \in Priorities /\ t \in Elements(Ring(p))
      <3>1. \E q \in Priorities : t \in Elements(Ring(q))
        BY <1>2 DEF Contains
      <3> DEFINE In(q) == t \in Elements(Ring(q))
      <3>2. \E q \in Priorities : In(q) /\ \A r \in 0 .. q - 1 : ~In(r)
        <4>1. In(0) \/ In(1) \/ In(2) \/ In(3)
          BY <3>1 DEF Priorities
        <4> HIDE DEF In
        <4>2. CASE In(0)
          BY <4>2 DEF Priorities
        <4>3. CASE ~In(0) /\ In(1)
          BY <4>3 DEF Priorities
        <4>4. CASE ~In(0) /\ ~In(1) /\ In(2)
          BY <4>4 DEF Priorities
        <4>5. CASE ~In(0) /\ ~In(1) /\ ~In(2) /\ In(3)
          BY <4>5 DEF Priorities
        <4> QED
          BY <4>1, <4>2, <4>3, <4>4, <4>5
      <3> QED
        BY <3>2
    <2>2. /\ Compact(p, s)
          /\ active_bitmap' = BitsAfter(p, level_count[p] - 1)
          /\ count' = count - 1
      BY <1>2 DEF remove
    <2> HIDE DEF p, nothing
    <2>3. Ring(p) \in Seq(Tids \cup {NoTid}) /\ Len(Ring(p)) = level_count[p]
      BY <2>1, RingIsSequence DEF Bookkeeping
    <2>4. i \in 1 .. Len(Ring(p))
      BY <2>1, <2>3, FirstIndexExists DEF FirstIndex
    <2>5. s \in Seq(Tids \cup {NoTid}) /\ Len(s) = level_count[p] - 1
      BY <2>3, <2>4, DropAtShortens
    <2>6. level_count[p] \in 1 .. RUNQUEUE_PRIO_CAP /\ count \in Nat \ {0}
      BY <1>2, <2>1, <2>3, <2>4, CapAssumption DEF Bookkeeping, TypeOK, nothing
    <2> HIDE DEF s, i
    <2>7. entries' \in [Priorities -> [Slots -> Tids \cup {NoTid}]]
      <3> DEFINE row == [j \in Slots |-> IF j < Len(s) THEN s[j + 1] ELSE entries[p][j]]
      <3>1. \A j \in Slots : j < Len(s) => s[j + 1] \in Tids \cup {NoTid}
        BY <2>5, CapAssumption DEF Slots
      <3>2. row \in [Slots -> Tids \cup {NoTid}]
        BY <2>1, <3>1 DEF Bookkeeping, TypeOK
      <3>3. entries' = [entries EXCEPT ![p] = row]
        BY <2>1, <2>2 DEF Compact, Bookkeeping, TypeOK
      <3> HIDE DEF row
      <3> QED
        BY ZenonT(60), <3>2, <3>3 DEF Bookkeeping, TypeOK
    <2>8. level_count' = [level_count EXCEPT ![p] = level_count[p] - 1]
      BY <2>2, <2>5 DEF Compact
    <2>9. level_count' \in [Priorities -> 0 .. RUNQUEUE_PRIO_CAP]
      BY <2>1, <2>6, <2>8, CapAssumption DEF Bookkeeping, TypeOK
    <2>10. /\ head_idx' \in [Priorities -> 0 .. IndexModulus - 1]
           /\ tail_idx' \in [Priorities -> 0 .. IndexModulus - 1]
      BY <2>1, <2>2, <2>5, <2>6, CapBelowModulus, CapAssumption, ModulusAssumption
         DEF Compact, CompactedHead, CompactedTail, Bookkeeping, TypeOK
    <2>11. BookkeepingAgrees'
      BY <2>1, <2>2, <2>6, <2>8, CapAssumption
         DEF Bookkeeping, TypeOK, BookkeepingAgrees, Priorities, BitsAfter
    <2>12. count' \in 0 .. 4 * RUNQUEUE_PRIO_CAP
      BY <2>9, <2>11, CapAssumption DEF BookkeepingAgrees, Priorities
    <2> QED
      BY <2>7, <2>9, <2>10, <2>11, <2>12 DEF Bookkeeping, TypeOK, BookkeepingAgrees
  <1> QED
    BY <1>1, <1>2

\* clear leaves lengths, indices and the bitmap in agreement.
LEMMA ClearBookkeeping ==
    ASSUME Bookkeeping, clear
    PROVE  Bookkeeping'
  BY CapAssumption, ModulusAssumption
     DEF clear, Bookkeeping, TypeOK, BookkeepingAgrees, Priorities

\* For every capacity, index width and set of threads, the bitmap, the counts of
\* the levels and the total of a CPU run queue never disagree: pop never misses a
\* queued thread and never decrements a counter that is 0.
THEOREM BookkeepingHolds == Spec => [](TypeOK /\ BookkeepingAgrees)
  <1>1. Init => Bookkeeping
    BY InitBookkeeping
  <1>2. Bookkeeping /\ [Next]_vars => Bookkeeping'
    <2> SUFFICES ASSUME Bookkeeping, [Next]_vars
                 PROVE  Bookkeeping'
      OBVIOUS
    <2>1. ASSUME NEW t \in Tids, NEW p \in Prios, push_priority(t, p)
          PROVE  Bookkeeping'
      BY <2>1, PushBookkeeping, PriosAssumption
    <2>2. CASE pop
      BY <2>2, PopBookkeeping
    <2>3. ASSUME NEW t \in Tids, remove(t)
          PROVE  Bookkeeping'
      BY <2>3, RemoveBookkeeping
    <2>4. CASE clear
      BY <2>4, ClearBookkeeping
    <2>5. CASE UNCHANGED vars
      BY <2>5 DEF vars, Bookkeeping, TypeOK, BookkeepingAgrees
    <2> QED
      BY <2>1, <2>2, <2>3, <2>4, <2>5 DEF Next
  <1> QED
    BY <1>1, <1>2, PTL DEF Spec, Bookkeeping

\* What a ring e shows from slot h on: its next n entries.
View(e, h, n) == [i \in 1 .. n |-> e[(h + i - 1) % RUNQUEUE_PRIO_CAP]]

\* A view is a sequence.
LEMMA ViewIsSequence ==
    ASSUME NEW S, NEW e \in [Slots -> S], NEW h \in Slots, NEW n \in Nat
    PROVE  View(e, h, n) \in Seq(S) /\ Len(View(e, h, n)) = n
  <1>1. \A i \in 1 .. n : (h + i - 1) % RUNQUEUE_PRIO_CAP \in Slots
    BY CapAssumption DEF Slots
  <1> QED
    BY <1>1 DEF View

\* Writing the slot behind the last entry of a ring with room appends to it.
LEMMA ViewPush ==
    ASSUME NEW S, NEW e \in [Slots -> S], NEW h \in Slots, NEW t \in S,
           NEW n \in 0 .. RUNQUEUE_PRIO_CAP - 1
    PROVE  View([e EXCEPT ![(h + n) % RUNQUEUE_PRIO_CAP] = t], h, n + 1)
             = Append(View(e, h, n), t)
  <1> DEFINE C == RUNQUEUE_PRIO_CAP
             s == (h + n) % C
             f == [e EXCEPT ![s] = t]
             a == View(e, h, n)
  <1>1. C \in Nat \ {0} /\ h \in 0 .. C - 1 /\ n \in 0 .. C - 1 /\ Slots = 0 .. C - 1
        /\ n \in 0 .. C
    BY CapAssumption DEF Slots
  <1>2. a \in Seq(S) /\ Len(a) = n
    BY <1>1, ViewIsSequence
  <1>3. a = [i \in 1 .. n |-> e[(h + i - 1) % C]]
    BY DEF View
  <1>4. View(f, h, n + 1) = [i \in 1 .. n + 1 |-> f[(h + i - 1) % C]]
    BY DEF View
  <1> HIDE DEF C
  <1>5. s = (IF h + n < C THEN h + n ELSE h + n - C) /\ s \in 0 .. C - 1
    <2>1. s = IF h + n < C THEN h + n ELSE h + n - C
      BY ZenonT(60), <1>1, Advance
    <2> QED
      BY <1>1, <2>1
  <1>6. ASSUME NEW i \in 1 .. n + 1
        PROVE  f[(h + i - 1) % C] = IF i = n + 1 THEN t ELSE a[i]
    <2>1. i \in 1 .. C
      BY <1>1
    <2>2. (h + i - 1) % C = IF h + i - 1 < C THEN h + i - 1 ELSE h + i - 1 - C
      BY <1>1, <2>1, Position
    <2> HIDE DEF s, a
    <2>3. CASE i = n + 1
      <3>1. (h + i - 1) % C = s
        BY <1>1, <1>5, <2>2, <2>3
      <3> QED
        BY <1>1, <1>5, <2>3, <3>1
    <2>4. CASE i # n + 1
      <3>1. (h + i - 1) % C # s /\ (h + i - 1) % C \in 0 .. C - 1 /\ i \in 1 .. n
        BY <1>1, <1>5, <2>2, <2>4
      <3> QED
        BY <1>1, <1>3, <2>4, <3>1
    <2> QED
      BY <2>3, <2>4
  <1>7. Append(a, t) = [i \in 1 .. n + 1 |-> IF i = n + 1 THEN t ELSE a[i]]
    <2> HIDE DEF a
    <2> QED
      BY <1>1, <1>2
  <1> HIDE DEF a, f
  <1>8. View(f, h, n + 1) = Append(a, t)
    BY <1>4, <1>6, <1>7
  <1> QED
    BY ZenonT(60), <1>8 DEF a, f, s, C

\* Moving the head over the first entry returns it and leaves the others.
LEMMA ViewPop ==
    ASSUME NEW S, NEW e \in [Slots -> S], NEW h \in Slots,
           NEW n \in 1 .. RUNQUEUE_PRIO_CAP
    PROVE  /\ View(e, (h + 1) % RUNQUEUE_PRIO_CAP, n - 1) = Tail(View(e, h, n))
           /\ e[h] = Head(View(e, h, n))
           /\ View(e, h, n) # << >>
  <1> DEFINE C == RUNQUEUE_PRIO_CAP
             g == (h + 1) % C
             a == View(e, h, n)
  <1>1. C \in Nat \ {0} /\ h \in 0 .. C - 1 /\ n \in 1 .. C /\ Slots = 0 .. C - 1
        /\ 1 \in 0 .. C /\ n \in Nat
    BY CapAssumption DEF Slots
  <1>2. a \in Seq(S) /\ Len(a) = n
    BY <1>1, ViewIsSequence
  <1>3. a = [i \in 1 .. n |-> e[(h + i - 1) % C]]
    BY DEF View
  <1>4. View(e, g, n - 1) = [i \in 1 .. n - 1 |-> e[(g + i - 1) % C]]
    BY DEF View
  <1> HIDE DEF C
  <1>5. g = (IF h + 1 < C THEN h + 1 ELSE h + 1 - C) /\ g \in 0 .. C - 1
    <2>1. g = IF h + 1 < C THEN h + 1 ELSE h + 1 - C
      BY ZenonT(60), <1>1, Advance
    <2> QED
      BY <1>1, <2>1
  <1> HIDE DEF a, g
  <1>6. ASSUME NEW i \in 1 .. n - 1
        PROVE  e[(g + i - 1) % C] = a[i + 1]
    <2> DEFINE j == i + 1
    <2>1. i \in 1 .. C /\ j \in 1 .. n /\ j \in 1 .. C /\ j = i + 1
      BY <1>1
    <2> HIDE DEF j
    <2>2. (g + i - 1) % C = IF g + i - 1 < C THEN g + i - 1 ELSE g + i - 1 - C
      BY <1>1, <1>5, <2>1, Position
    <2>3. (h + j - 1) % C = IF h + j - 1 < C THEN h + j - 1 ELSE h + j - 1 - C
      BY <1>1, <2>1, Position
    <2>4. (g + i - 1) % C = (h + j - 1) % C
      BY <1>1, <1>5, <2>1, <2>2, <2>3
    <2> QED
      BY <1>3, <2>1, <2>4
  <1>10. a # << >>
    BY <1>1, <1>2
  <1>7. Tail(a) = [i \in 1 .. n - 1 |-> a[i + 1]]
    BY <1>1, <1>2, <1>10
  <1>8. View(e, g, n - 1) = Tail(a)
    BY ZenonT(60), <1>4, <1>6, <1>7
  <1>9. e[h] = Head(a)
    <2>1. (h + 1 - 1) % C = h
      BY <1>1
    <2>2. a[1] = e[h]
      BY <1>1, <1>3, <2>1
    <2> QED
      BY <1>1, <1>2, <2>2
  <1> QED
    BY <1>8, <1>9, <1>10 DEF a, g, C

\* Rewriting a level from slot 0 shows the sequence that was written.
LEMMA ViewCompact ==
    ASSUME NEW S, NEW e \in [Slots -> S], NEW s \in Seq(S), Len(s) <= RUNQUEUE_PRIO_CAP
    PROVE  View([i \in Slots |-> IF i < Len(s) THEN s[i + 1] ELSE e[i]], 0, Len(s)) = s
  <1> DEFINE C == RUNQUEUE_PRIO_CAP
             f == [i \in Slots |-> IF i < Len(s) THEN s[i + 1] ELSE e[i]]
  <1>1. C \in Nat \ {0} /\ Slots = 0 .. C - 1 /\ Len(s) \in 0 .. C
    BY CapAssumption DEF Slots
  <1>2. ASSUME NEW i \in 1 .. Len(s)
        PROVE  f[(0 + i - 1) % C] = s[i]
    <2>1. (0 + i - 1) % C = i - 1 /\ i - 1 \in Slots
      BY <1>1
    <2>2. f[i - 1] = s[i]
      BY <1>1, <2>1
    <2> QED
      BY <2>1, <2>2
  <1>3. View(f, 0, Len(s)) = [i \in 1 .. Len(s) |-> f[(0 + i - 1) % C]]
    BY DEF View
  <1>4. s = [i \in 1 .. Len(s) |-> s[i]]
    OBVIOUS
  <1> HIDE DEF f
  <1>5. View(f, 0, Len(s)) = s
    BY <1>2, <1>3, <1>4
  <1> QED
    BY <1>5 DEF f

\* The tail of a level is level_count[p] entries behind its head, modulo the
\* capacity; the two fields wrap at another modulus, and separately.
TailFollows ==
    \A p \in Priorities :
        tail_idx[p] % RUNQUEUE_PRIO_CAP = (head_idx[p] + level_count[p]) % RUNQUEUE_PRIO_CAP

RingInv == Bookkeeping /\ TailFollows

\* The sequences that stand for the rings.
Contents == [p \in Priorities |-> Ring(p)]

\* Wrapping an index at its width moves it to the next slot, because the
\* capacity divides the width.
LEMMA WrapMovesOn ==
    ASSUME NEW i \in 0 .. IndexModulus - 1
    PROVE  Wrap(i) % RUNQUEUE_PRIO_CAP = (i + 1) % RUNQUEUE_PRIO_CAP
  <1>1. IndexModulus \in Nat \ {0} /\ RUNQUEUE_PRIO_CAP \in Nat \ {0}
        /\ IndexModulus % RUNQUEUE_PRIO_CAP = 0
    BY CapAssumption, ModulusAssumption
  <1>2. CASE i + 1 < IndexModulus
    <2>1. (i + 1) % IndexModulus = i + 1
      BY <1>1, <1>2
    <2> QED
      BY <2>1 DEF Wrap
  <1>3. CASE i + 1 = IndexModulus
    <2>1. IndexModulus % IndexModulus = 0 /\ 0 % RUNQUEUE_PRIO_CAP = 0
      BY <1>1
    <2> QED
      BY <1>1, <1>3, <2>1 DEF Wrap
  <1> QED
    BY <1>1, <1>2, <1>3

\* A walk from any index is the view from that index's slot.
LEMMA ViewFromIndex ==
    ASSUME NEW e, NEW h \in Nat, NEW n \in Nat
    PROVE  [i \in 1 .. n |-> e[(h + i - 1) % RUNQUEUE_PRIO_CAP]]
             = View(e, h % RUNQUEUE_PRIO_CAP, n)
  <1> DEFINE C == RUNQUEUE_PRIO_CAP
  <1>1. C \in Nat \ {0}
    BY CapAssumption
  <1> HIDE DEF C
  <1>2. ASSUME NEW i \in 1 .. n
        PROVE  (h + i - 1) % C = ((h % C) + i - 1) % C
    <2> DEFINE k == i - 1
    <2>1. k \in Nat
      OBVIOUS
    <2> HIDE DEF k
    <2>2. (h + k) % C = ((h % C) + k) % C
      BY ZenonT(60), <1>1, <2>1, ModSum
    <2>3. h + k = h + i - 1 /\ (h % C) + k = (h % C) + i - 1
      BY <1>1 DEF k
    <2> QED
      BY <2>2, <2>3
  <1> QED
    BY ZenonT(60), <1>2 DEF View, C

\* The walk from head to tail is the view from the head's slot.
LEMMA RingIsView ==
    ASSUME TypeOK, NEW p \in Priorities
    PROVE  /\ head_idx[p] % RUNQUEUE_PRIO_CAP \in Slots
           /\ head_idx[p] \in 0 .. IndexModulus - 1 /\ head_idx[p] \in Nat
           /\ tail_idx[p] \in 0 .. IndexModulus - 1 /\ tail_idx[p] \in Nat
           /\ level_count[p] \in 0 .. RUNQUEUE_PRIO_CAP /\ level_count[p] \in Nat
           /\ entries[p] \in [Slots -> Tids \cup {NoTid}]
           /\ Ring(p) = View(entries[p], head_idx[p] % RUNQUEUE_PRIO_CAP, level_count[p])
  <1> DEFINE C == RUNQUEUE_PRIO_CAP
             h == head_idx[p]
             n == level_count[p]
  <1>1. /\ C \in Nat \ {0} /\ h \in Nat /\ n \in 0 .. C /\ n \in Nat
        /\ h \in 0 .. IndexModulus - 1
        /\ tail_idx[p] \in 0 .. IndexModulus - 1 /\ tail_idx[p] \in Nat
        /\ entries[p] \in [Slots -> Tids \cup {NoTid}]
    BY CapAssumption, ModulusAssumption DEF TypeOK
  <1>2. h % C \in Slots
    BY <1>1 DEF Slots
  <1>3. Ring(p) = View(entries[p], h % C, n)
    BY ZenonT(60), <1>1, ViewFromIndex DEF Ring
  <1> QED
    BY <1>1, <1>2, <1>3

\* The same after a step.
LEMMA RingAfter ==
    ASSUME TypeOK', NEW p \in Priorities
    PROVE  Ring(p)' = View(entries'[p], head_idx'[p] % RUNQUEUE_PRIO_CAP, level_count'[p])
  <1>1. head_idx'[p] \in Nat /\ level_count'[p] \in Nat
    BY CapAssumption, ModulusAssumption DEF TypeOK
  <1> QED
    BY ZenonT(60), <1>1, ViewFromIndex DEF Ring

\* push_priority appends to the level, or refuses when it is full.
LEMMA PushImplements ==
    ASSUME RingInv, NEW t \in Tids, NEW p \in Prios, push_priority(t, p)
    PROVE  RingInv' /\ Abs!AbsPush(t, p)
  <1> DEFINE C == RUNQUEUE_PRIO_CAP
  <1>1. p \in Priorities /\ TypeOK /\ Bookkeeping
    BY PriosAssumption DEF RingInv, Bookkeeping
  <1>2. Bookkeeping' /\ TypeOK'
    BY <1>1, PushBookkeeping DEF Bookkeeping
  <1>3. /\ C \in Nat \ {0}
        /\ \A r \in Priorities :
              /\ head_idx[r] % C \in Slots /\ head_idx[r] \in Nat
              /\ tail_idx[r] \in 0 .. IndexModulus - 1 /\ tail_idx[r] \in Nat
              /\ level_count[r] \in 0 .. C
              /\ entries[r] \in [Slots -> Tids \cup {NoTid}]
              /\ Ring(r) = View(entries[r], head_idx[r] % C, level_count[r])
              /\ Len(Ring(r)) = level_count[r]
    BY <1>1, CapAssumption, RingIsView, RingIsSequence
  <1>4. \A r \in Priorities :
           Ring(r)' = View(entries'[r], head_idx'[r] % C, level_count'[r])
    BY <1>2, RingAfter
  <1>5. t \notin Abs!QueuedTids(Contents)
    BY DEF push_priority, Contains, Contents, Abs!QueuedTids, Abs!Elements, Elements,
           Abs!Priorities, Priorities
  <1>6. PushAccepts(p) = ~Abs!LevelFull(Contents, p)
    <2>1. Contents[p] = Ring(p)
      BY <1>1 DEF Contents
    <2> QED
      BY <1>1, <1>3, <2>1 DEF PushAccepts, Abs!LevelFull
  <1>7. CASE ~PushAccepts(p)
    <2>1. TailFollows'
      BY <1>7 DEF push_priority, TailFollows, RingInv
    <2>2. Contents' = Contents
      BY <1>7 DEF push_priority, Contents, Ring
    <2>3. out' = <<"push", ~Abs!LevelFull(Contents, p)>>
      BY <1>6 DEF push_priority
    <2>4. Abs!PushPriority(Contents, t, p) = Contents
      BY ZenonT(60), <1>6, <1>7 DEF Abs!PushPriority
    <2> QED
      BY <1>2, <1>5, <2>1, <2>2, <2>3, <2>4 DEF RingInv, Abs!AbsPush, Contents
  <1>8. CASE PushAccepts(p)
    <2> DEFINE h == head_idx[p]
               n == level_count[p]
               l == tail_idx[p]
    <2>1. /\ entries' = [entries EXCEPT ![p][l % C] = t]
          /\ tail_idx' = [tail_idx EXCEPT ![p] = Wrap(l)]
          /\ level_count' = [level_count EXCEPT ![p] = n + 1]
          /\ head_idx' = head_idx
      BY <1>8 DEF push_priority
    <2>2. h \in Nat /\ n \in 0 .. C - 1 /\ n \in Nat /\ l \in 0 .. IndexModulus - 1 /\ h % C \in Slots
      BY <1>1, <1>3, <1>8 DEF PushAccepts
    <2>3. l % C = (h + n) % C
      BY <1>1 DEF RingInv, TailFollows
    <2>4. l % C = ((h % C) + n) % C
      BY ZenonT(60), <1>3, <2>2, <2>3, ModSum
    <2>5. Wrap(l) % C = (h + (n + 1)) % C
      <3> HIDE DEF l, h, n, C
      <3>1. Wrap(l) % C = (l + 1) % C
        BY <2>2, WrapMovesOn DEF C
      <3>2. l \in Nat /\ 1 \in Nat /\ h + n \in Nat
        BY <2>2, ModulusAssumption
      <3>3. (l + 1) % C = ((l % C) + 1) % C
        BY <1>3, <3>2, ModSum
      <3>4. ((h + n) + 1) % C = (((h + n) % C) + 1) % C
        <4> DEFINE a == h + n
        <4>1. a \in Nat
          BY <3>2
        <4> HIDE DEF a
        <4>2. (a + 1) % C = ((a % C) + 1) % C
          BY ZenonT(60), <1>3, <3>2, <4>1, ModSum
        <4> QED
          BY <4>2 DEF a
      <3>5. (h + n) + 1 = h + (n + 1)
        BY <2>2
      <3> QED
        BY <2>3, <3>1, <3>3, <3>4, <3>5
    <2>6. TailFollows'
      <3> SUFFICES ASSUME NEW r \in Priorities
                   PROVE  tail_idx'[r] % C = (head_idx'[r] + level_count'[r]) % C
        BY DEF TailFollows
      <3>1. CASE r = p
        BY <1>1, <2>1, <2>5, <3>1 DEF TypeOK
      <3>2. CASE r # p
        BY <1>1, <2>1, <3>2 DEF TypeOK, RingInv, TailFollows
      <3> QED
        BY <3>1, <3>2
    <2>7. entries'[p] = [entries[p] EXCEPT ![((h % C) + n) % C] = t]
      BY ZenonT(60), <1>1, <2>1, <2>4 DEF TypeOK
    <2>8. Ring(p)' = Append(Ring(p), t)
      <3>1. head_idx'[p] = h /\ level_count'[p] = n + 1
        BY <1>1, <2>1 DEF TypeOK
      <3>2. View([entries[p] EXCEPT ![((h % C) + n) % C] = t], h % C, n + 1)
               = Append(View(entries[p], h % C, n), t)
        <4>1. entries[p] \in [Slots -> Tids \cup {NoTid}] /\ t \in Tids \cup {NoTid}
          BY <1>1, <1>3
        <4> QED
          BY ZenonT(60), <2>2, <4>1, ViewPush
      <3>3. Ring(p)' = View(entries'[p], head_idx'[p] % C, level_count'[p])
        BY <1>1, <1>4
      <3>4. Ring(p) = View(entries[p], h % C, n)
        BY <1>1, <1>3
      <3> QED
        BY ZenonT(60), <2>7, <3>1, <3>2, <3>3, <3>4
    <2>9. \A r \in Priorities : r # p => Ring(r)' = Ring(r)
      BY <1>1, <2>1 DEF Ring, TypeOK
    <2>10. Contents' = Abs!PushPriority(Contents, t, p)
      <3>1. Abs!PushPriority(Contents, t, p) = [Contents EXCEPT ![p] = Append(@, t)]
        BY ZenonT(60), <1>6, <1>8 DEF Abs!PushPriority
      <3>2. Contents[p] = Ring(p)
        BY <1>1 DEF Contents
      <3> QED
        BY <1>1, <2>8, <2>9, <3>1, <3>2 DEF Contents
    <2>11. out' = <<"push", ~Abs!LevelFull(Contents, p)>>
      BY <1>6 DEF push_priority
    <2> QED
      BY <1>2, <1>5, <2>6, <2>10, <2>11 DEF RingInv, Abs!AbsPush, Contents
  <1> QED
    BY <1>7, <1>8

\* The levels of the abstract queue that are not empty are the set bits.
LEMMA ActiveIsBitmap ==
    ASSUME Bookkeeping
    PROVE  Abs!ActiveLevels(Contents) = active_bitmap
  <1>1. \A p \in Priorities : Contents[p] = Ring(p) /\ Len(Ring(p)) = level_count[p]
                              /\ Ring(p) \in Seq(Tids \cup {NoTid})
    BY RingIsSequence DEF Contents, Bookkeeping
  <1>2. \A p \in Priorities : Contents[p] # << >> <=> level_count[p] > 0
    BY <1>1, CapAssumption DEF Bookkeeping, TypeOK
  <1>3. Abs!Priorities = Priorities
    BY DEF Abs!Priorities, Priorities
  <1> QED
    BY <1>2, <1>3 DEF Abs!ActiveLevels, Bookkeeping, BookkeepingAgrees

\* pop returns and removes the oldest entry of the lowest set bit's level.
LEMMA PopImplements ==
    ASSUME RingInv, pop
    PROVE  RingInv' /\ Abs!AbsPop
  <1> DEFINE C == RUNQUEUE_PRIO_CAP
  <1>1. TypeOK /\ Bookkeeping
    BY DEF RingInv, Bookkeeping
  <1>2. Bookkeeping' /\ TypeOK'
    BY <1>1, PopBookkeeping DEF Bookkeeping
  <1>3. Abs!ActiveLevels(Contents) = active_bitmap
    BY <1>1, ActiveIsBitmap
  <1>4. CASE active_bitmap = {}
    <2>1. /\ out' = <<"pop", NoTid>>
          /\ UNCHANGED <<entries, head_idx, tail_idx, level_count, active_bitmap, count>>
      BY <1>4 DEF pop
    <2>2. TailFollows'
      BY <2>1 DEF TailFollows, RingInv
    <2>3. Contents' = Contents
      BY <2>1 DEF Contents, Ring
    <2> QED
      BY <1>2, <1>3, <1>4, <2>1, <2>2, <2>3 DEF RingInv, Abs!AbsPop, Contents
  <1>5. CASE active_bitmap # {}
    <2>1. PICK p \in active_bitmap : p = LowestBit
      <3>1. active_bitmap \subseteq Nat
        BY <1>1 DEF TypeOK, Priorities
      <3>2. \E q \in active_bitmap : \A r \in active_bitmap : q <= r
        BY ZenonT(60), <1>5, <3>1, LeastNatural
      <3> QED
        BY <3>2 DEF LowestBit
    <2> DEFINE h == head_idx[p]
               n == level_count[p]
    <2>2. p = Abs!HighestLevel(Contents)
      BY <1>3, <1>5, <2>1 DEF Abs!HighestLevel, LowestBit
    <2>3. p \in Priorities /\ n \in 1 .. C /\ n \in Nat /\ C \in Nat \ {0}
      BY <1>1, <2>1, CapAssumption DEF Bookkeeping, TypeOK, BookkeepingAgrees
    <2>4. count # 0
      BY <1>1, <2>3, CapAssumption DEF Bookkeeping, TypeOK, BookkeepingAgrees, Priorities
    <2>5. /\ out' = <<"pop", entries[p][h % C]>>
          /\ head_idx' = [head_idx EXCEPT ![p] = Wrap(h)]
          /\ level_count' = [level_count EXCEPT ![p] = n - 1]
          /\ UNCHANGED <<entries, tail_idx>>
      <3>1. p = LowestBit
        BY <2>1
      <3>2. ~(count = 0 \/ active_bitmap = {} \/ level_count[LowestBit] = 0)
        BY <1>5, <2>3, <2>4, <3>1
      <3> QED
        BY <3>1, <3>2 DEF pop
    <2>6. /\ h \in 0 .. IndexModulus - 1 /\ h \in Nat /\ h % C \in Slots
          /\ entries[p] \in [Slots -> Tids \cup {NoTid}]
          /\ Ring(p) = View(entries[p], h % C, n)
      BY <1>1, <2>3, RingIsView
    <2>7. Wrap(h) % C = (h + 1) % C /\ (h + 1) % C = ((h % C) + 1) % C
      <3>1. 1 \in Nat
        OBVIOUS
      <3> HIDE DEF h
      <3> QED
        BY <2>3, <2>6, <3>1, WrapMovesOn, ModSum
    <2>8. /\ View(entries[p], ((h % C) + 1) % C, n - 1) = Tail(View(entries[p], h % C, n))
          /\ entries[p][h % C] = Head(View(entries[p], h % C, n))
      BY ZenonT(60), <2>3, <2>6, ViewPop
    <2>9. Ring(p)' = Tail(Ring(p)) /\ entries[p][h % C] = Head(Ring(p))
      <3>1. Ring(p)' = View(entries'[p], head_idx'[p] % C, level_count'[p])
        BY <1>2, <2>3, RingAfter
      <3>2. entries'[p] = entries[p] /\ head_idx'[p] = Wrap(h) /\ level_count'[p] = n - 1
        BY <1>1, <2>3, <2>5 DEF TypeOK
      <3> QED
        BY <2>6, <2>7, <2>8, <3>1, <3>2
    <2>10. \A r \in Priorities : r # p => Ring(r)' = Ring(r)
      BY <1>1, <2>3, <2>5 DEF Ring, TypeOK
    <2>11. Contents[p] = Ring(p)
      BY <2>3 DEF Contents
    <2>12. Contents' = [Contents EXCEPT ![p] = Tail(@)]
      BY ZenonT(60), <2>3, <2>9, <2>10, <2>11 DEF Contents
    <2>13. TailFollows'
      <3> SUFFICES ASSUME NEW r \in Priorities
                   PROVE  tail_idx'[r] % C = (head_idx'[r] + level_count'[r]) % C
        BY DEF TailFollows
      <3>1. CASE r = p
        <4>1. tail_idx'[r] % C = (h + n) % C
          BY <2>3, <2>5, <3>1 DEF RingInv, TailFollows
        <4>2. head_idx'[r] = Wrap(h) /\ level_count'[r] = n - 1
          BY <1>1, <2>3, <2>5, <3>1 DEF TypeOK
        <4> DEFINE w == Wrap(h)
                   m == n - 1
                   g == h + 1
        <4>3. w \in Nat /\ m \in Nat /\ g \in Nat /\ h + n = g + m
          BY <2>3, <2>6, ModulusAssumption, WrapInRange
        <4> HIDE DEF w, m, h, n, C
        <4>4. (w + m) % C = ((w % C) + m) % C
          BY ZenonT(60), <2>3, <4>3, ModSum
        <4>5. (g + m) % C = ((g % C) + m) % C
          <5> HIDE DEF g
          <5> QED
            BY ZenonT(60), <2>3, <4>3, ModSum
        <4>6. w % C = g % C
          BY <2>7 DEF w, g
        <4> QED
          BY <4>1, <4>2, <4>3, <4>4, <4>5, <4>6 DEF w, m
      <3>2. CASE r # p
        BY <1>1, <2>3, <2>5, <3>2 DEF TypeOK, RingInv, TailFollows
      <3> QED
        BY <3>1, <3>2
    <2>14. out' = <<"pop", Abs!PeekHighest(Contents)>>
      BY <2>2, <2>5, <2>9, <2>11 DEF Abs!PeekHighest
    <2>15. Contents' = Abs!PopHighest(Contents)
      BY <2>2, <2>12 DEF Abs!PopHighest
    <2> QED
      BY <1>2, <1>3, <1>5, <2>13, <2>14, <2>15 DEF RingInv, Abs!AbsPop, Contents
  <1> QED
    BY <1>4, <1>5

\* remove takes the first occurrence in the first level that has one.
LEMMA RemoveImplements ==
    ASSUME RingInv, NEW t \in Tids, remove(t)
    PROVE  RingInv' /\ Abs!AbsRemove(t)
  <1> DEFINE C == RUNQUEUE_PRIO_CAP
             In(p) == t \in Elements(Ring(p))
             L == {p \in Priorities : In(p)}
  <1>1. TypeOK /\ Bookkeeping
    BY DEF RingInv, Bookkeeping
  <1>2. Bookkeeping' /\ TypeOK'
    BY <1>1, RemoveBookkeeping DEF Bookkeeping
  <1>3. L = Abs!LevelsWith(Contents, t)
    BY ZenonT(60) DEF Abs!LevelsWith, Abs!Elements, Elements, Contents, Abs!Priorities, Priorities
  <1>4. t \in Abs!QueuedTids(Contents) <=> Contains(t)
    BY DEF Contains, Contents, Abs!QueuedTids, Abs!Elements, Elements,
           Abs!Priorities, Priorities
  <1>5. Contains(t) <=> L # {}
    BY DEF Contains
  <1>6. \A p \in Priorities : /\ Ring(p) \in Seq(Tids \cup {NoTid})
                              /\ Len(Ring(p)) = level_count[p]
    BY <1>1, RingIsSequence
  <1>7. Contains(t) => count # 0
    <2>1. SUFFICES ASSUME NEW p \in Priorities, In(p)
                   PROVE  count # 0
      BY DEF Contains
    <2>2. level_count[p] # 0
      BY <1>6, <2>1 DEF Elements
    <2> QED
      BY <1>1, <2>1, <2>2, CapAssumption DEF Bookkeeping, TypeOK, BookkeepingAgrees, Priorities
  <1>8. CASE ~Contains(t)
    <2>1. /\ out' = <<"remove", FALSE>>
          /\ UNCHANGED <<entries, head_idx, tail_idx, level_count, active_bitmap, count>>
      BY ZenonT(60), <1>8 DEF remove
    <2>2. TailFollows'
      BY <2>1 DEF TailFollows, RingInv
    <2>3. Contents' = Contents
      BY <2>1 DEF Contents, Ring
    <2>4. Abs!RemoveTid(Contents, t) = Contents
      BY <1>3, <1>5, <1>8 DEF Abs!RemoveTid
    <2>5. (t \in Abs!QueuedTids(Contents)) = FALSE
      BY <1>4, <1>8
    <2> QED
      BY ZenonT(60), <1>2, <2>1, <2>2, <2>3, <2>4, <2>5 DEF RingInv, Abs!AbsRemove, Contents
  <1>9. CASE Contains(t)
    <2> DEFINE first == CHOOSE p \in Priorities :
                           /\ t \in Elements(Ring(p))
                           /\ \A r \in 0 .. p - 1 : t \notin Elements(Ring(r))
    <2>1. PICK p \in L : \A r \in L : p <= r
      BY <1>5, <1>9, LeastNatural DEF Priorities
    <2> DEFINE i == FirstIndex(Ring(p), t)
               s == DropAt(Ring(p), i)
    <2>2. \A r \in 0 .. p - 1 : t \notin Elements(Ring(r))
      BY <2>1 DEF Priorities
    <2>3. first = p
      BY <2>1, <2>2 DEF Priorities
    <2>4. p = CHOOSE r \in Abs!LevelsWith(Contents, t) : \A u \in Abs!LevelsWith(Contents, t) : r <= u
      BY <1>3, <2>1 DEF Priorities
    <2>5. Compact(p, s) /\ out' = <<"remove", TRUE>>
      BY ZenonT(60), <1>7, <1>9, <2>3 DEF remove
    <2>6. p \in Priorities /\ t \in Elements(Ring(p))
      BY <2>1
    <2>7. i \in 1 .. Len(Ring(p))
      BY <1>6, <2>6, FirstIndexExists
    <2>8. s \in Seq(Tids \cup {NoTid}) /\ Len(s) = level_count[p] - 1
      BY <1>6, <2>6, <2>7, DropAtShortens
    <2>9. level_count[p] \in 1 .. C /\ C \in Nat \ {0}
      BY <1>1, <1>6, <2>6, <2>7, CapAssumption DEF TypeOK
    <2>10. s = Abs!DropAt(Ring(p), Abs!FirstIndex(Ring(p), t))
      BY DEF DropAt, FirstIndex, Abs!DropAt, Abs!FirstIndex
    <2> HIDE DEF i, s
    <2>11. /\ entries'[p] = [j \in Slots |-> IF j < Len(s) THEN s[j + 1] ELSE entries[p][j]]
           /\ head_idx'[p] = 0 /\ tail_idx'[p] = Len(s) /\ level_count'[p] = Len(s)
           /\ \A r \in Priorities : r # p =>
                 /\ entries'[r] = entries[r] /\ head_idx'[r] = head_idx[r]
                 /\ tail_idx'[r] = tail_idx[r] /\ level_count'[r] = level_count[r]
      BY <1>1, <2>5, <2>6 DEF Compact, CompactedHead, CompactedTail, TypeOK
    <2>12. Ring(p)' = s
      <3>1. Ring(p)' = View(entries'[p], head_idx'[p] % C, level_count'[p])
        BY <1>2, <2>6, RingAfter
      <3>2. 0 % C = 0
        BY <2>9
      <3>3. entries[p] \in [Slots -> Tids \cup {NoTid}] /\ Len(s) <= C
        BY <1>1, <2>6, <2>8, <2>9 DEF TypeOK
      <3> QED
        <4> DEFINE e == entries[p]
                   S == Tids \cup {NoTid}
        <4>1. e \in [Slots -> S] /\ s \in Seq(S) /\ Len(s) <= C
          BY Zenon, <2>8, <3>3
        <4> HIDE DEF e, S
        <4>2. View([j \in Slots |-> IF j < Len(s) THEN s[j + 1] ELSE e[j]], 0, Len(s)) = s
          BY <4>1, ViewCompact
        <4> QED
          BY Zenon, <2>11, <3>1, <3>2, <4>2 DEF e
    <2>13. \A r \in Priorities : r # p => Ring(r)' = Ring(r)
      BY <2>11 DEF Ring
    <2>14. TailFollows'
      <3> SUFFICES ASSUME NEW r \in Priorities
                   PROVE  tail_idx'[r] % C = (head_idx'[r] + level_count'[r]) % C
        BY DEF TailFollows
      <3>1. CASE r = p
        BY <2>8, <2>11, <3>1
      <3>2. CASE r # p
        BY <2>11, <3>2 DEF RingInv, TailFollows
      <3> QED
        BY <3>1, <3>2
    <2>15. Contents' = Abs!RemoveTid(Contents, t)
      <3>1. Contents[p] = Ring(p)
        BY <2>6 DEF Contents
      <3>2. Contents' = [Contents EXCEPT ![p] = s]
        BY ZenonT(60), <2>6, <2>12, <2>13 DEF Contents
      <3>3. Abs!RemoveTid(Contents, t)
              = [Contents EXCEPT ![p] = Abs!DropAt(@, Abs!FirstIndex(@, t))]
        BY <1>3, <1>5, <1>9, <2>4 DEF Abs!RemoveTid
      <3> QED
        BY <2>10, <3>1, <3>2, <3>3
    <2>16. (t \in Abs!QueuedTids(Contents)) = TRUE
      BY <1>4, <1>9
    <2> QED
      BY ZenonT(60), <1>2, <2>5, <2>14, <2>15, <2>16 DEF RingInv, Abs!AbsRemove, Contents
  <1> QED
    BY <1>8, <1>9

\* clear empties every level.
LEMMA ClearImplements ==
    ASSUME RingInv, clear
    PROVE  RingInv' /\ Abs!AbsClear
  <1>1. Bookkeeping'
    BY ClearBookkeeping DEF RingInv
  <1>2. TailFollows'
    BY DEF clear, TailFollows
  <1>3. \A p \in Priorities : Ring(p)' = << >>
    BY DEF clear, Ring
  <1>4. Contents' = Abs!EmptyQueue
    BY <1>3 DEF Contents, Abs!EmptyQueue, Abs!Priorities, Priorities
  <1> QED
    BY <1>1, <1>2, <1>4 DEF RingInv, clear, Abs!AbsClear, Contents

\* The ring buffers, the bitmap and the counters of a CPU run queue implement one
\* FIFO per priority, for every capacity and index width: what pop, remove and
\* push return, and the order of the thread ids, is never changed by wrapping
\* indices or by the compaction of remove.
THEOREM RunQueueImplementsFifo == Spec => ImplementsAbsRunQueue
  <1>1. Init => RingInv /\ Abs!AbsInit
    <2> SUFFICES ASSUME Init PROVE RingInv /\ Abs!AbsInit
      OBVIOUS
    <2>1. TailFollows
      BY DEF Init, TailFollows
    <2>2. \A p \in Priorities : Ring(p) = << >>
      BY DEF Init, Ring
    <2>3. Contents = Abs!EmptyQueue
      BY <2>2 DEF Contents, Abs!EmptyQueue, Abs!Priorities, Priorities
    <2> QED
      BY <2>1, <2>3, InitBookkeeping DEF RingInv, Init, Abs!AbsInit, Contents
  <1>2. RingInv /\ [Next]_vars => RingInv' /\ [Abs!AbsNext]_(Abs!AbsVars)
    <2> SUFFICES ASSUME RingInv, [Next]_vars
                 PROVE  RingInv' /\ [Abs!AbsNext]_(Abs!AbsVars)
      OBVIOUS
    <2>1. ASSUME NEW t \in Tids, NEW p \in Prios, push_priority(t, p)
          PROVE  RingInv' /\ Abs!AbsNext
      BY <2>1, PushImplements DEF Abs!AbsNext
    <2>2. CASE pop
      BY <2>2, PopImplements DEF Abs!AbsNext
    <2>3. ASSUME NEW t \in Tids, remove(t)
          PROVE  RingInv' /\ Abs!AbsNext
      BY <2>3, RemoveImplements DEF Abs!AbsNext
    <2>4. CASE clear
      BY <2>4, ClearImplements DEF Abs!AbsNext
    <2>5. CASE UNCHANGED vars
      BY <2>5 DEF vars, RingInv, Bookkeeping, TypeOK, BookkeepingAgrees, TailFollows,
                  Abs!AbsVars, Ring
    <2> QED
      BY <2>1, <2>2, <2>3, <2>4, <2>5 DEF Next
  <1> QED
    BY <1>1, <1>2, PTL DEF Spec, ImplementsAbsRunQueue, Abs!AbsSpec

-----------------------------------------------------------------------------
(* The ring of a pipe. *)

\* used() and free() never underflow and leave one byte of the ring unused.
LEMMA TypeBalances == ASSUME RingAssumption, RingTypeOK PROVE Balanced
  BY DEF RingAssumption, RingTypeOK, Balanced, used, free

\* The bytes waiting in the ring, oldest first, are a sequence of used bytes.
LEMMA StreamIsSequence ==
    ASSUME RingAssumption, RingTypeOK
    PROVE  Stream \in Seq(Bytes) /\ Len(Stream) = used
  <1>1. used \in Nat
    BY TypeBalances DEF Balanced, RingAssumption
  <1>2. \A i \in 1 .. used : (head + i - 1) % PIPE_BUF_SIZE \in 0 .. PIPE_BUF_SIZE - 1
    BY <1>1 DEF RingTypeOK, RingAssumption
  <1>3. buf \in [0 .. PIPE_BUF_SIZE - 1 -> Bytes]
    BY DEF RingTypeOK
  <1> QED
    BY <1>1, <1>2, <1>3 DEF Stream

\* A new pipe is an empty stream.
LEMMA InitImplements == ASSUME RingAssumption, RingInit PROVE RingTypeOK /\ AbsStream!AbsInit
  <1>1. RingTypeOK
    BY DEF RingAssumption, RingInit, RingTypeOK
  <1>2. used = 0
    BY DEF RingInit, used
  <1>3. Stream = <<>>
    BY <1>2 DEF Stream
  <1> QED
    BY <1>1, <1>3 DEF RingInit, AbsStream!AbsInit

\* read_into takes the oldest bytes and leaves the rest in order.
LEMMA ReadImplements ==
    ASSUME RingAssumption, RingTypeOK, NEW len \in 0 .. MaxIo, read_into(len)
    PROVE  RingTypeOK' /\ AbsStream!AbsRead(len)
  <1> DEFINE n == Min2(used, len)
             N == PIPE_BUF_SIZE
  <1>1. /\ N \in Nat \ {0} /\ len \in Nat
        /\ head \in 0 .. N - 1 /\ tail \in 0 .. N - 1
        /\ used \in 0 .. N - 1
    BY TypeBalances DEF Balanced, RingAssumption, RingTypeOK
  <1>2. n \in 0 .. used /\ n \in 0 .. N - 1 /\ n \in 0 .. N /\ N = PIPE_BUF_SIZE
    BY <1>1 DEF Min2
  <1>3. AbsStream!Shorter(len, Len(Stream)) = n
    BY <1>1, StreamIsSequence DEF AbsStream!Shorter, Min2
  <1>4. /\ ringOut' = [i \in 1 .. n |-> buf[(head + i - 1) % N]]
        /\ head' = (head + n) % N /\ tail' = tail /\ buf' = buf
    BY DEF read_into
  <1> HIDE DEF n, N
  <1>5. head' = IF head + n < N THEN head + n ELSE head + n - N
    BY ZenonT(60), <1>1, <1>2, <1>4, Advance
  <1>6. used' = used - n
    BY <1>1, <1>2, <1>4, <1>5 DEF used
  <1>7. RingTypeOK'
    BY <1>1, <1>2, <1>4, <1>5 DEF RingTypeOK
  <1>8. ASSUME NEW i \in 1 .. used - n
        PROVE  (head' + i - 1) % N = (head + (i + n) - 1) % N
    <2> DEFINE j == i + n
    <2>1. i \in 1 .. N /\ j \in 1 .. N /\ j = i + n /\ head' \in 0 .. N - 1
      BY <1>1, <1>2, <1>5
    <2> HIDE DEF j
    <2>2. (head' + i - 1) % N = IF head' + i - 1 < N THEN head' + i - 1 ELSE head' + i - 1 - N
      BY ZenonT(60), <1>1, <2>1, Position
    <2>3. (head + j - 1) % N = IF head + j - 1 < N THEN head + j - 1 ELSE head + j - 1 - N
      BY ZenonT(60), <1>1, <2>1, Position
    <2>4. (head' + i - 1) % N = (head + j - 1) % N
      BY <1>1, <1>2, <1>5, <2>1, <2>2, <2>3
    <2> QED
      BY <2>4 DEF j
  <1>9. ringOut' = SubSeq(Stream, 1, n)
    <2>1. \A i \in 1 .. n : Stream[i] = buf[(head + i - 1) % N]
      BY <1>1, <1>2 DEF Stream
    <2>2. SubSeq(Stream, 1, n) = [i \in 1 .. n |-> Stream[i]]
      BY <1>1, <1>2, StreamIsSequence
    <2> QED
      BY <1>4, <2>1, <2>2
  <1>10. Stream' = SubSeq(Stream, n + 1, Len(Stream))
    <2>1. \A i \in 1 .. used - n : Stream[i + n] = buf[(head + (i + n) - 1) % N]
      BY <1>1, <1>2 DEF Stream
    <2>2. Stream' = [i \in 1 .. used - n |-> buf[(head' + i - 1) % N]]
      BY <1>2, <1>4, <1>6 DEF Stream
    <2>3. SubSeq(Stream, n + 1, used) = [i \in 1 .. used - n |-> Stream[i + n]]
      BY <1>1, <1>2, StreamIsSequence
    <2>4. Len(Stream) = used
      BY StreamIsSequence
    <2> QED
      BY <1>8, <2>1, <2>2, <2>3, <2>4
  <1> QED
    BY <1>3, <1>7, <1>9, <1>10 DEF AbsStream!AbsRead

\* A concatenation, element by element.
LEMMA ConcatMap ==
    ASSUME NEW S, NEW s \in Seq(S), NEW t \in Seq(S)
    PROVE  s \o t = [i \in 1 .. Len(s) + Len(t) |-> IF i <= Len(s) THEN s[i] ELSE t[i - Len(s)]]
  <1>1. s \o t \in Seq(S) /\ Len(s \o t) = Len(s) + Len(t)
    OBVIOUS
  <1>2. ASSUME NEW i \in 1 .. Len(s) + Len(t)
        PROVE  (s \o t)[i] = IF i <= Len(s) THEN s[i] ELSE t[i - Len(s)]
    OBVIOUS
  <1> DEFINE u == s \o t
             n == Len(s) + Len(t)
  <1>3. u \in Seq(S) /\ Len(u) = n
    BY <1>1
  <1> HIDE DEF u
  <1>4. u = [i \in 1 .. n |-> u[i]]
    BY <1>3
  <1> QED
    BY <1>2, <1>4 DEF u

\* write_from appends the longest prefix that fits, and touches no waiting byte.
LEMMA WriteImplements ==
    ASSUME RingAssumption, RingTypeOK, NEW b \in Buffers, write_from(b)
    PROVE  RingTypeOK' /\ AbsStream!AbsWrite(b)
  <1> DEFINE n == Min2(free, Len(b))
             N == PIPE_BUF_SIZE
             Slot(i) == (tail + i - 1) % N
  <1>1. /\ N \in Nat \ {0} /\ N = PIPE_BUF_SIZE
        /\ head \in 0 .. N - 1 /\ tail \in 0 .. N - 1
        /\ used \in 0 .. N - 1 /\ free = N - used - 1
        /\ buf \in [0 .. N - 1 -> Bytes]
    BY TypeBalances DEF Balanced, RingAssumption, RingTypeOK, free
  <1>2. b \in Seq(Bytes) /\ Len(b) \in Nat
    BY DEF RingAssumption, Buffers
  <1>3. n \in 0 .. N - 1 - used /\ n \in 0 .. Len(b) /\ n \in 0 .. N
    BY <1>1, <1>2 DEF Min2
  <1>4. AbsStream!Shorter(Len(b), PIPE_BUF_SIZE - 1 - Len(Stream)) = n
    BY <1>1, <1>2, StreamIsSequence DEF AbsStream!Shorter, Min2
  <1>5. /\ ringOut' = [i \in 1 .. n |-> b[i]]
        /\ tail' = (tail + n) % N /\ head' = head
        /\ buf' = [s \in DOMAIN buf |->
                     IF \E i \in 1 .. n : Slot(i) = s
                     THEN b[CHOOSE i \in 1 .. n : Slot(i) = s]
                     ELSE buf[s]]
    BY DEF write_from
  <1> HIDE DEF n, N
  <1>6. tail' = IF tail + n < N THEN tail + n ELSE tail + n - N
    <2>1. tail' = (tail + n) % N
      BY <1>5
    <2> QED
      BY ZenonT(60), <1>1, <1>3, <2>1, Advance
  <1>7. used' = used + n
    <2>1. head' = head
      BY <1>5
    <2> QED
      BY <1>1, <1>3, <1>6, <2>1 DEF used
  <1>8. \A i \in 1 .. n : Slot(i) = IF tail + i - 1 < N THEN tail + i - 1 ELSE tail + i - 1 - N
    <2>1. \A i \in 1 .. n : i \in 1 .. N
      BY <1>1, <1>3
    <2> QED
      BY ZenonT(60), <1>1, <2>1, Position
  <1>9. \A i \in 1 .. used + n :
           (head + i - 1) % N = IF head + i - 1 < N THEN head + i - 1 ELSE head + i - 1 - N
    <2>1. \A i \in 1 .. used + n : i \in 1 .. N
      BY <1>1, <1>3
    <2> QED
      BY ZenonT(60), <1>1, <2>1, Position
  <1> HIDE DEF Slot
  <1>10. \A i \in 1 .. n : (head + (used + i) - 1) % N = Slot(i)
    <2> SUFFICES ASSUME NEW i \in 1 .. n
                 PROVE  (head + (used + i) - 1) % N = Slot(i)
      OBVIOUS
    <2> DEFINE j == used + i
    <2>1. j \in 1 .. used + n /\ j = used + i
      BY <1>1, <1>3
    <2> HIDE DEF j
    <2>2. (head + j - 1) % N = Slot(i)
      <3>1. used = IF tail >= head THEN tail - head ELSE N - head + tail
        BY <1>1 DEF used
      <3>2. (head + j - 1) % N = IF head + j - 1 < N THEN head + j - 1 ELSE head + j - 1 - N
        BY <1>9, <2>1
      <3> QED
        BY <1>1, <1>3, <1>8, <2>1, <3>1, <3>2
    <2> QED
      BY <2>2 DEF j
  <1>11. \A i, j \in 1 .. n : Slot(i) = Slot(j) => i = j
    BY <1>1, <1>3, <1>8
  <1>12. \A i \in 1 .. used, j \in 1 .. n : (head + i - 1) % N # Slot(j)
    <2>1. used = IF tail >= head THEN tail - head ELSE N - head + tail
      BY <1>1 DEF used
    <2> SUFFICES ASSUME NEW i \in 1 .. used, NEW j \in 1 .. n
                 PROVE  (head + i - 1) % N # Slot(j)
      OBVIOUS
    <2>2. (head + i - 1) % N = IF head + i - 1 < N THEN head + i - 1 ELSE head + i - 1 - N
      BY <1>1, <1>3, <1>9
    <2>3. Slot(j) = IF tail + j - 1 < N THEN tail + j - 1 ELSE tail + j - 1 - N
      BY <1>8
    <2>4. used + n < N /\ i <= used /\ j <= n
      BY <1>1, <1>3
    <2>5. CASE tail >= head
      BY <1>1, <1>3, <2>1, <2>2, <2>3, <2>4, <2>5
    <2>6. CASE tail < head
      BY <1>1, <1>3, <2>1, <2>2, <2>3, <2>4, <2>6
    <2> QED
      BY <1>1, <2>5, <2>6
  <1>13. \A i \in 1 .. n : Slot(i) \in 0 .. N - 1 /\ buf'[Slot(i)] = b[i]
    <2> SUFFICES ASSUME NEW i \in 1 .. n
                 PROVE  Slot(i) \in 0 .. N - 1 /\ buf'[Slot(i)] = b[i]
      OBVIOUS
    <2>1. Slot(i) \in 0 .. N - 1
      BY <1>1, <1>3, <1>8
    <2>2. (CHOOSE j \in 1 .. n : Slot(j) = Slot(i)) = i
      BY <1>11
    <2> QED
      BY <1>1, <1>5, <2>1, <2>2
  <1>14. \A i \in 1 .. used :
            buf'[(head + i - 1) % N] = buf[(head + i - 1) % N]
    <2> SUFFICES ASSUME NEW i \in 1 .. used
                 PROVE  buf'[(head + i - 1) % N] = buf[(head + i - 1) % N]
      OBVIOUS
    <2>1. (head + i - 1) % N \in 0 .. N - 1
      BY <1>1, <1>3, <1>9
    <2> QED
      BY ZenonT(60), <1>1, <1>5, <1>12, <2>1
  <1>15. RingTypeOK'
    <2>1. ASSUME NEW s \in 0 .. N - 1 PROVE buf'[s] \in Bytes
      <3>1. CASE \E i \in 1 .. n : Slot(i) = s
        BY <1>2, <1>3, <1>13, <3>1
      <3>2. CASE ~\E i \in 1 .. n : Slot(i) = s
        BY <1>1, <1>5, <3>2
      <3> QED
        BY <3>1, <3>2
    <2>2. buf' \in [0 .. N - 1 -> Bytes]
      BY <1>1, <1>5, <2>1
    <2>3. tail' \in 0 .. N - 1
      BY <1>1, <1>3, <1>6
    <2>4. head' \in 0 .. N - 1
      BY Zenon, <1>1, <1>5
    <2> QED
      BY <1>1, <2>2, <2>3, <2>4 DEF RingTypeOK
  <1>16. ringOut' = SubSeq(b, 1, n)
    BY <1>2, <1>3, <1>5
  <1>17. Stream' = Stream \o SubSeq(b, 1, n)
    <2>1. Stream' = [i \in 1 .. used + n |-> buf'[(head + i - 1) % N]]
      BY <1>1, <1>5, <1>7 DEF Stream
    <2>2. Stream = [i \in 1 .. used |-> buf[(head + i - 1) % N]] /\ Len(Stream) = used
      BY <1>1, StreamIsSequence DEF Stream
    <2>3. SubSeq(b, 1, n) = [i \in 1 .. n |-> b[i]] /\ Len(SubSeq(b, 1, n)) = n
      BY <1>2, <1>3
    <2> DEFINE t == SubSeq(b, 1, n)
    <2>4. t \in Seq(Bytes) /\ Stream \in Seq(Bytes)
      BY <1>2, <1>3, StreamIsSequence
    <2> HIDE DEF t
    <2>5. Stream \o t = [i \in 1 .. used + n |-> IF i <= used THEN Stream[i] ELSE t[i - used]]
      <3>1. Len(t) = n
        BY <2>3 DEF t
      <3> QED
        <4> DEFINE u == Stream
                   S == Bytes
        <4>1. u \in Seq(S) /\ t \in Seq(S)
          BY Zenon, <2>4
        <4> HIDE DEF u, S
        <4>2. u \o t = [i \in 1 .. Len(u) + Len(t) |-> IF i <= Len(u) THEN u[i] ELSE t[i - Len(u)]]
          BY <4>1, ConcatMap
        <4>3. Len(Stream) = used
          BY <2>2
        <4> QED
          BY <3>1, <4>2, <4>3 DEF u
    <2>6. ASSUME NEW i \in 1 .. used + n
          PROVE  buf'[(head + i - 1) % N] = IF i <= used THEN Stream[i] ELSE t[i - used]
      <3>1. CASE i <= used
        <4>1. i \in 1 .. used
          BY <1>1, <1>3, <3>1
        <4>2. Stream[i] = buf[(head + i - 1) % N]
          BY Zenon, <2>2, <4>1
        <4> QED
          BY Zenon, <1>14, <3>1, <4>1, <4>2
      <3>2. CASE i > used
        <4> DEFINE k == i - used
        <4>1. k \in 1 .. n /\ i = used + k
          BY <1>1, <1>3, <3>2
        <4> HIDE DEF k
        <4>2. buf'[(head + i - 1) % N] = b[k]
          BY <1>10, <1>13, <4>1
        <4>3. t[k] = b[k]
          BY ZenonT(60), <2>3, <4>1 DEF t
        <4>4. ~(i <= used)
          BY <1>1, <1>3, <3>2
        <4> QED
          BY Zenon, <4>2, <4>3, <4>4 DEF k
      <3> QED
        BY <1>1, <1>3, <3>1, <3>2
    <2> QED
      BY ZenonT(60), <2>1, <2>5, <2>6 DEF t
  <1> QED
    BY ZenonT(60), <1>4, <1>15, <1>16, <1>17 DEF AbsStream!AbsWrite

\* Every step of the ring is a step of the stream.
LEMMA StepImplements ==
    ASSUME RingAssumption, RingTypeOK, [RingNext]_ringVars
    PROVE  RingTypeOK' /\ [AbsStream!AbsNext]_(AbsStream!AbsVars)
  <1>1. ASSUME NEW len \in 0 .. MaxIo, read_into(len)
        PROVE  RingTypeOK' /\ AbsStream!AbsNext
    <2>1. <<>> \in UNION {[1 .. k -> Bytes] : k \in 0 .. MaxIo}
      BY DEF RingAssumption
    <2> QED
      BY ZenonT(60), <1>1, <2>1, ReadImplements DEF AbsStream!AbsNext
  <1>2. ASSUME NEW b \in Buffers, write_from(b)
        PROVE  RingTypeOK' /\ AbsStream!AbsNext
    <2>1. 0 \in 0 .. MaxIo
      BY DEF RingAssumption
    <2> QED
      BY <1>2, <2>1, WriteImplements DEF AbsStream!AbsNext, Buffers
  <1>3. ASSUME reset PROVE RingTypeOK' /\ AbsStream!AbsNext
    <2>1. RingTypeOK'
      BY <1>3 DEF reset, RingTypeOK, RingAssumption
    <2>2. used' = 0
      BY <1>3 DEF reset, used
    <2>3. Stream' = <<>>
      BY <2>2 DEF Stream
    <2> QED
      BY <1>3, <2>1, <2>3 DEF reset, AbsStream!AbsNext, AbsStream!AbsReset
  <1>4. ASSUME UNCHANGED ringVars PROVE RingTypeOK' /\ UNCHANGED AbsStream!AbsVars
    BY <1>4 DEF ringVars, RingTypeOK, AbsStream!AbsVars, Stream, used
  <1> QED
    BY <1>1, <1>2, <1>3, <1>4 DEF RingNext

\* The ring of pipe.rs behaves as a bounded stream whatever its size: bytes come
\* out in the order written, none lost or repeated, also when head and tail wrap.
THEOREM RingImplementsStream ==
    ASSUME RingAssumption PROVE RingSpec => ImplementsStream
  <1>1. RingInit => RingTypeOK /\ AbsStream!AbsInit
    BY InitImplements
  <1>2. RingTypeOK /\ [RingNext]_ringVars => RingTypeOK' /\ [AbsStream!AbsNext]_(AbsStream!AbsVars)
    BY StepImplements
  <1> QED
    BY <1>1, <1>2, PTL DEF RingSpec, ImplementsStream, AbsStream!AbsSpec

=============================================================================
