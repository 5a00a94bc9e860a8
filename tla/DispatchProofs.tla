--------------------------- MODULE DispatchProofs ---------------------------
(***************************************************************************)
(* The facts about the scheduler's functions that SchedulerProofs rests on. *)
(* A run queue holds threads other than the idle threads, whatever is      *)
(* pushed, popped, removed, requeued or stolen and however full its levels *)
(* are; and schedule_with_handoff takes a thread no other CPU has and      *)
(* leaves the stack it comes from to the switch marker.                    *)
(***************************************************************************)
EXTENDS Scheduler, NaturalFacts

Runnable == Tids \ IdleTids
Queue == [Priorities -> Seq(Runnable)]
Queues == [Cpus -> Queue]

\* The threads of th have a level.
Levelled(th) == \A t \in Tids : th[t].priority \in Priorities

-----------------------------------------------------------------------------
\* One queue.

\* The entries kept of a sequence are entries of it.
LEMMA KeptTyped ==
    ASSUME NEW A, NEW s \in Seq(A), NEW T
    PROVE  Kept(s, T) \in Seq(A)
  <1> DEFINE n == Len(s)
             Step1(w, i) == IF s[i] \in T THEN Append(w, s[i]) ELSE w
             Eq(f) == f = [i \in 0 .. n |->
                             IF i = 0 THEN << >>
                             ELSE IF s[i] \in T THEN Append(f[i - 1], s[i]) ELSE f[i - 1]]
             t == [x \in Seq(A) \X (1 .. n) |-> Step1(x[1], x[2])]
             f0 == CHOOSE f : Eq(f)
  <1>1. n \in Nat /\ << >> \in Seq(A)
    OBVIOUS
  <1>2. \A w \in Seq(A), i \in 1 .. n : Step1(w, i) \in Seq(A)
    OBVIOUS
  <1>3. Kept(s, T) = f0[n]
    BY DEF Kept
  <1>4. t \in [Seq(A) \X (1 .. n) -> Seq(A)]
    <2> HIDE DEF Step1
    <2> QED
      BY <1>2
  <1>5. \A w \in Seq(A), i \in 1 .. n : t[<<w, i>>] = Step1(w, i)
    <2> HIDE DEF Step1
    <2> QED
      OBVIOUS
  <1> HIDE DEF n, t
  <1>6. PICK g \in [0 .. n -> Seq(A)] :
            g[0] = << >> /\ \A i \in 1 .. n : g[i] = t[<<g[i - 1], i>>]
    <2>1. n \in Nat
      BY <1>1
    <2>2. << >> \in Seq(A)
      BY <1>1
    <2> DEFINE W == Seq(A)
               e == << >>
    <2>3. e \in W
      BY <2>2
    <2>4. t \in StepFcns(W, n)
      BY <1>4 DEF StepFcns
    <2> HIDE DEF W, e, Step1, Eq, f0
    <2>5. PICK g : Iterates(g, W, e, n, t)
      BY <2>1, <2>3, <2>4, Recursion
    <2> QED
      BY ZenonT(60), <2>5 DEF W, e, Iterates
  <1>7. Eq(g)
    <2>1. ASSUME NEW i \in 0 .. n
          PROVE  g[i] = IF i = 0 THEN << >>
                        ELSE IF s[i] \in T THEN Append(g[i - 1], s[i]) ELSE g[i - 1]
      <3>1. CASE i = 0
        BY <1>6, <3>1
      <3>2. CASE i # 0
        <4>1. i \in 1 .. n /\ g[i - 1] \in Seq(A)
          BY <1>1, <1>6, <3>2
        <4>2. g[i] = Step1(g[i - 1], i)
          BY ZenonT(60), <1>5, <1>6, <4>1
        <4> QED
          BY <3>2, <4>2
      <3> QED
        BY <3>1, <3>2
    <2> QED
      BY <1>6, <2>1
  <1>8. Eq(f0)
    <2> HIDE DEF Eq
    <2> QED
      BY <1>7
  <1> HIDE DEF f0
  <1>9. f0[0] = << >> /\ \A i \in 1 .. n : f0[i] = Step1(f0[i - 1], i)
    <2>1. \A i \in 0 .. n : f0[i] = IF i = 0 THEN << >>
                        ELSE IF s[i] \in T THEN Append(f0[i - 1], s[i]) ELSE f0[i - 1]
      BY <1>8, Zenon
    <2>2. 0 \in 0 .. n /\ \A i \in 1 .. n : i \in 0 .. n /\ i # 0
      BY <1>1
    <2> QED
      BY <2>1, <2>2
  <1> HIDE DEF Eq
  <1>10. f0[0] \in Seq(A) /\ \A i \in 1 .. n : f0[i - 1] \in Seq(A) => f0[i] \in Seq(A)
    <2> HIDE DEF Step1
    <2> QED
      BY ZenonT(60), <1>1, <1>2, <1>9
  <1>11. f0[n] \in Seq(A)
    <2>1. \A i \in 0 .. n : f0[i] \in Seq(A)
      BY ZenonT(60), <1>1, <1>10, Stays
    <2> QED
      BY <1>1, <2>1
  <1> QED
    BY <1>3, <1>11

\* push_priority.
LEMMA PushTyped ==
    ASSUME NEW Q \in Queue, NEW t \in Runnable, NEW p \in Priorities
    PROVE  PushPriority(Q, t, p) \in Queue
  <1>1. Q[p] \in Seq(Runnable)
    BY DEF Queue
  <1>2. Append(Q[p], t) \in Seq(Runnable)
    BY <1>1
  <1> QED
    BY <1>2 DEF Queue, PushPriority

\* peek_highest and pop of a queue that is not empty.
LEMMA PopTyped ==
    ASSUME NEW Q \in Queue, ActiveLevels(Q) # {}
    PROVE  PopHighest(Q) \in Queue /\ PeekHighest(Q) \in Runnable
  <1> DEFINE L == ActiveLevels(Q)
             p == HighestLevel(Q)
  <1>1. L \subseteq Nat
    BY DEF ActiveLevels, Priorities
  <1>2. \E i \in L : \A r \in L : i <= r
    <2>1. L # {}
      OBVIOUS
    <2> HIDE DEF L
    <2> QED
      BY ZenonT(60), <1>1, <2>1, LeastNatural
  <1>3. p \in L
    BY <1>2 DEF HighestLevel
  <1> HIDE DEF p
  <1>4. p \in Priorities /\ Q[p] # << >> /\ Q[p] \in Seq(Runnable)
    BY <1>3 DEF ActiveLevels, Queue
  <1>5. Tail(Q[p]) \in Seq(Runnable) /\ Head(Q[p]) \in Runnable
    BY <1>4, TailFacts
  <1> QED
    BY <1>4, <1>5 DEF Queue, PopHighest, PeekHighest, p

\* CpuRunQueue::remove.
LEMMA RemoveTyped ==
    ASSUME NEW Q \in Queue, NEW t
    PROVE  RemoveTid(Q, t) \in Queue
  <1> DEFINE L == LevelsWith(Q, t)
             p == CHOOSE p \in L : \A r \in L : p <= r
             s == Q[p]
             i == FirstIndex(s, t)
  <1>1. CASE L = {}
    BY <1>1 DEF RemoveTid
  <1>2. CASE L # {}
    <2>1. L \subseteq Nat
      BY DEF LevelsWith, Priorities
    <2>2. \E x \in L : \A r \in L : x <= r
      <3> HIDE DEF L
      <3> QED
        BY ZenonT(60), <1>2, <2>1, LeastNatural
    <2>3. p \in L
      BY <2>2
    <2>4. RemoveTid(Q, t) = [Q EXCEPT ![p] = DropAt(@, FirstIndex(@, t))]
      BY <1>2 DEF RemoveTid
    <2> HIDE DEF p
    <2>5. p \in Priorities /\ s \in Seq(Runnable) /\ t \in Elements(s)
      BY <2>3 DEF LevelsWith, Queue
    <2> HIDE DEF s, L
    <2>6. i \in DOMAIN s
      <3> DEFINE D == {j \in DOMAIN s : s[j] = t}
      <3>1. D \subseteq Nat /\ D # {}
        BY <2>5 DEF Elements
      <3>2. PICK j \in D : \A k \in D : j <= k
        <4> HIDE DEF D
        <4> QED
          BY ZenonT(60), <3>1, LeastNatural
      <3>3. \A k \in 1 .. j - 1 : s[k] # t
        BY <2>5, <3>2
      <3> QED
        BY <3>2, <3>3 DEF FirstIndex
    <2> HIDE DEF i
    <2>7. DropAt(s, i) \in Seq(Runnable)
      <3> DEFINE a == SubSeq(s, 1, i - 1)
                 b == SubSeq(s, i + 1, Len(s))
      <3>1. Len(s) \in Nat /\ i \in 1 .. Len(s)
        BY <2>5, <2>6
      <3>2. a \in Seq(Runnable) /\ b \in Seq(Runnable)
        BY <2>5, <3>1
      <3> HIDE DEF a, b
      <3>3. a \o b \in Seq(Runnable)
        BY <3>2
      <3> QED
        BY <3>3 DEF DropAt, a, b
    <2>8. [Q EXCEPT ![p] = DropAt(s, i)] \in Queue
      <3> DEFINE d == DropAt(s, i)
      <3> HIDE DEF d
      <3>1. d \in Seq(Runnable)
        BY <2>7 DEF d
      <3>2. [Q EXCEPT ![p] = d] \in Queue
        BY <2>5, <3>1 DEF Queue
      <3> QED
        BY <3>2 DEF d
    <2> QED
      BY <2>4, <2>8 DEF s, i
  <1> QED
    BY <1>1, <1>2

-----------------------------------------------------------------------------
\* All the queues.

\* The queue of one CPU is replaced.
LEMMA QueueReplaced ==
    ASSUME NEW q \in Queues, NEW c, NEW Q, c \in Cpus => Q \in Queue
    PROVE  [q EXCEPT ![c] = Q] \in Queues
  BY ZenonT(60) DEF Queues

\* enqueue_to_cpu_run_queue, for one thread.
LEMMA EnqueueOneTyped ==
    ASSUME NEW q \in Queues, NEW th, Levelled(th), NEW t \in Tids
    PROVE  EnqueueOne(q, th, t) \in Queues
  <1> DEFINE c == th[t].cpu
             Q == PushPriority(q[c], t, th[t].priority)
  <1>1. CASE t \in IdleTids \/ t \in QueuedTids(q[c])
    BY <1>1 DEF EnqueueOne
  <1>2. CASE ~(t \in IdleTids \/ t \in QueuedTids(q[c]))
    <2>1. EnqueueOne(q, th, t) = [q EXCEPT ![c] = Q]
      BY <1>2 DEF EnqueueOne
    <2>2. c \in Cpus => Q \in Queue
      <3>1. t \in Runnable /\ th[t].priority \in Priorities
        BY <1>2 DEF Runnable, Levelled
      <3>2. c \in Cpus => q[c] \in Queue
        BY DEF Queues
      <3> HIDE DEF c
      <3> QED
        BY <3>1, <3>2, PushTyped
    <2> HIDE DEF c, Q
    <2>3. [q EXCEPT ![c] = Q] \in Queues
      BY ZenonT(60), <2>2 DEF Queues
    <2> QED
      BY <2>1, <2>3
  <1> QED
    BY <1>1, <1>2

\* remove_from_queue, for one thread.
LEMMA RemoveOneTyped ==
    ASSUME NEW q \in Queues, NEW c, NEW t
    PROVE  [q EXCEPT ![c] = RemoveTid(@, t)] \in Queues
  <1>1. c \in Cpus => RemoveTid(q[c], t) \in Queue
    BY RemoveTyped DEF Queues
  <1> QED
    BY ZenonT(60), <1>1, QueueReplaced

-----------------------------------------------------------------------------
\* The walks over the thread table, in slot order.

\* There is a slot, and the slots are counted from 1.
LEMMA SlotsExist == NextTid - 1 \in Nat
  <1>1. IdleTid[0] \in Tids
    BY ConstantsAssumption DEF Tids, IdleTids
  <1>2. IdleTid[0] \in Nat \ {0} /\ IdleTid[0] < NextTid /\ NextTid \in Nat
    BY Zenon, <1>1, ConstantsAssumption
  <1> QED
    BY <1>2

\* enqueue_to_cpu_run_queue for each thread of T.
LEMMA EnqueueAllTyped ==
    ASSUME NEW q \in Queues, NEW th, Levelled(th), NEW T, T \subseteq Tids
    PROVE  EnqueueAll(q, th, T) \in Queues
  <1> DEFINE n == NextTid - 1
             Op(w, i) == EnqueueOne(w, th, i)
             One(w, i) == IF i \in T THEN Op(w, i) ELSE w
             Eq(f) == f = [i \in 0 .. n |-> IF i = 0 THEN q
                                            ELSE IF i \in T THEN Op(f[i - 1], i) ELSE f[i - 1]]
             t == [x \in Queues \X (1 .. n) |-> One(x[1], x[2])]
             f0 == CHOOSE f : Eq(f)
  <1>1. n \in Nat
    BY SlotsExist
  <1>2. \A w \in Queues, i \in 1 .. n : One(w, i) \in Queues
    BY EnqueueOneTyped
  <1>3. EnqueueAll(q, th, T) = f0[n]
    BY DEF EnqueueAll, InSlotOrder
  <1> HIDE DEF n, Op
  <1>4. /\ t \in StepFcns(Queues, n)
        /\ \A w \in Queues, i \in 1 .. n : t[<<w, i>>] = One(w, i)
    <2> HIDE DEF One
    <2> QED
      BY <1>2 DEF StepFcns
  <1> HIDE DEF t, One
  <1>5. PICK g : Iterates(g, Queues, q, n, t)
    BY <1>1, <1>4, Recursion
  <1>6. g \in [0 .. n -> Queues] /\ g[0] = q /\ \A i \in 1 .. n : g[i] = One(g[i - 1], i)
    <2>1. \A i \in 1 .. n : i - 1 \in 0 .. n
      BY <1>1
    <2> QED
      BY ZenonT(60), <1>4, <1>5, <2>1 DEF Iterates
  <1>7. Eq(g)
    <2>1. \A i \in 0 .. n : i # 0 => i \in 1 .. n
      BY <1>1
    <2>2. \A i \in 0 .. n : g[i] = IF i = 0 THEN q
                                    ELSE IF i \in T THEN Op(g[i - 1], i) ELSE g[i - 1]
      BY Zenon, <1>6, <2>1 DEF One
    <2> QED
      BY <1>6, <2>2
  <1>8. Eq(f0)
    <2> HIDE DEF Eq
    <2> QED
      BY <1>7
  <1> HIDE DEF f0
  <1>9. f0[0] = q /\ \A i \in 1 .. n : f0[i] = One(f0[i - 1], i)
    <2>1. \A i \in 0 .. n : f0[i] = IF i = 0 THEN q
                                     ELSE IF i \in T THEN Op(f0[i - 1], i) ELSE f0[i - 1]
      BY Zenon, <1>8
    <2>2. 0 \in 0 .. n /\ \A i \in 1 .. n : i \in 0 .. n /\ i # 0
      BY <1>1
    <2> QED
      BY Zenon, <2>1, <2>2 DEF One
  <1> HIDE DEF Eq
  <1>10. \A i \in 0 .. n : f0[i] \in Queues
    BY ZenonT(60), <1>1, <1>2, <1>9, Stays
  <1> QED
    BY <1>1, <1>3, <1>10

\* The requeueing of the threads whose priority changed.
LEMMA RequeueAllTyped ==
    ASSUME NEW q \in Queues, NEW th, Levelled(th), NEW T, T \subseteq Tids
    PROVE  RequeueAll(q, th, T) \in Queues
  <1> DEFINE n == NextTid - 1
             Op(w, i) == EnqueueOne([w EXCEPT ![th[i].cpu] = RemoveTid(@, i)], th, i)
             One(w, i) == IF i \in T THEN Op(w, i) ELSE w
             Eq(f) == f = [i \in 0 .. n |-> IF i = 0 THEN q
                                            ELSE IF i \in T THEN Op(f[i - 1], i) ELSE f[i - 1]]
             t == [x \in Queues \X (1 .. n) |-> One(x[1], x[2])]
             f0 == CHOOSE f : Eq(f)
  <1>1. n \in Nat
    BY SlotsExist
  <1>2. \A w \in Queues, i \in 1 .. n : One(w, i) \in Queues
    BY ZenonT(60), EnqueueOneTyped, RemoveOneTyped
  <1>3. RequeueAll(q, th, T) = f0[n]
    BY DEF RequeueAll, InSlotOrder
  <1> HIDE DEF n, Op
  <1>4. /\ t \in StepFcns(Queues, n)
        /\ \A w \in Queues, i \in 1 .. n : t[<<w, i>>] = One(w, i)
    <2> HIDE DEF One
    <2> QED
      BY <1>2 DEF StepFcns
  <1> HIDE DEF t, One
  <1>5. PICK g : Iterates(g, Queues, q, n, t)
    BY <1>1, <1>4, Recursion
  <1>6. g \in [0 .. n -> Queues] /\ g[0] = q /\ \A i \in 1 .. n : g[i] = One(g[i - 1], i)
    <2>1. \A i \in 1 .. n : i - 1 \in 0 .. n
      BY <1>1
    <2> QED
      BY <1>4, <1>5, <2>1 DEF Iterates
  <1>7. Eq(g)
    <2>1. \A i \in 0 .. n : i # 0 => i \in 1 .. n
      BY <1>1
    <2>2. \A i \in 0 .. n : g[i] = IF i = 0 THEN q
                                    ELSE IF i \in T THEN Op(g[i - 1], i) ELSE g[i - 1]
      BY Zenon, <1>6, <2>1 DEF One
    <2> QED
      BY <1>6, <2>2
  <1>8. Eq(f0)
    <2> HIDE DEF Eq
    <2> QED
      BY <1>7
  <1> HIDE DEF f0
  <1>9. f0[0] = q /\ \A i \in 1 .. n : f0[i] = One(f0[i - 1], i)
    <2>1. \A i \in 0 .. n : f0[i] = IF i = 0 THEN q
                                     ELSE IF i \in T THEN Op(f0[i - 1], i) ELSE f0[i - 1]
      BY Zenon, <1>8
    <2>2. 0 \in 0 .. n /\ \A i \in 1 .. n : i \in 0 .. n /\ i # 0
      BY <1>1
    <2> QED
      BY Zenon, <2>1, <2>2 DEF One
  <1> HIDE DEF Eq
  <1>10. \A i \in 0 .. n : f0[i] \in Queues
    BY <1>1, <1>2, <1>9, Stays
  <1> QED
    BY <1>1, <1>3, <1>10

\* The removal of several threads from one queue.
LEMMA RemoveAllTyped ==
    ASSUME NEW q \in Queue, NEW T
    PROVE  RemoveAll(q, T) \in Queue
  <1> DEFINE n == NextTid - 1
             Op(w, i) == RemoveTid(w, i)
             One(w, i) == IF i \in T THEN Op(w, i) ELSE w
             Eq(f) == f = [i \in 0 .. n |-> IF i = 0 THEN q
                                            ELSE IF i \in T THEN Op(f[i - 1], i) ELSE f[i - 1]]
             t == [x \in Queue \X (1 .. n) |-> One(x[1], x[2])]
             f0 == CHOOSE f : Eq(f)
  <1>1. n \in Nat
    BY SlotsExist
  <1>2. \A w \in Queue, i \in 1 .. n : One(w, i) \in Queue
    BY RemoveTyped
  <1>3. RemoveAll(q, T) = f0[n]
    BY DEF RemoveAll, InSlotOrder
  <1> HIDE DEF n, Op
  <1>4. /\ t \in StepFcns(Queue, n)
        /\ \A w \in Queue, i \in 1 .. n : t[<<w, i>>] = One(w, i)
    <2> HIDE DEF One
    <2> QED
      BY <1>2 DEF StepFcns
  <1> HIDE DEF t, One
  <1>5. PICK g : Iterates(g, Queue, q, n, t)
    BY <1>1, <1>4, Recursion
  <1>6. g \in [0 .. n -> Queue] /\ g[0] = q /\ \A i \in 1 .. n : g[i] = One(g[i - 1], i)
    <2>1. \A i \in 1 .. n : i - 1 \in 0 .. n
      BY <1>1
    <2> QED
      BY ZenonT(60), <1>4, <1>5, <2>1 DEF Iterates
  <1>7. Eq(g)
    <2>1. \A i \in 0 .. n : i # 0 => i \in 1 .. n
      BY <1>1
    <2>2. \A i \in 0 .. n : g[i] = IF i = 0 THEN q
                                    ELSE IF i \in T THEN Op(g[i - 1], i) ELSE g[i - 1]
      BY Zenon, <1>6, <2>1 DEF One
    <2> QED
      BY <1>6, <2>2
  <1>8. Eq(f0)
    <2> HIDE DEF Eq
    <2> QED
      BY <1>7
  <1> HIDE DEF f0
  <1>9. f0[0] = q /\ \A i \in 1 .. n : f0[i] = One(f0[i - 1], i)
    <2>1. \A i \in 0 .. n : f0[i] = IF i = 0 THEN q
                                     ELSE IF i \in T THEN Op(f0[i - 1], i) ELSE f0[i - 1]
      BY Zenon, <1>8
    <2>2. 0 \in 0 .. n /\ \A i \in 1 .. n : i \in 0 .. n /\ i # 0
      BY <1>1
    <2> QED
      BY Zenon, <2>1, <2>2 DEF One
  <1> HIDE DEF Eq
  <1>10. \A i \in 0 .. n : f0[i] \in Queue
    BY ZenonT(60), <1>1, <1>2, <1>9, Stays
  <1> QED
    BY <1>1, <1>3, <1>10

-----------------------------------------------------------------------------
\* Dispatch and stealing.

\* Flat lists the threads of a queue.
LEMMA FlatTyped ==
    ASSUME NEW Q \in Queue
    PROVE  Flat(Q) \in Seq(Runnable)
  <1>1. \A p \in {0, 1, 2, 3} : Q[p] \in Seq(Runnable)
    BY DEF Queue, Priorities
  <1>2. Q[0] \o Q[1] \in Seq(Runnable)
    BY <1>1, ConcatFacts
  <1>3. (Q[0] \o Q[1]) \o Q[2] \in Seq(Runnable)
    BY <1>1, <1>2, ConcatFacts
  <1>4. ((Q[0] \o Q[1]) \o Q[2]) \o Q[3] \in Seq(Runnable)
    BY <1>1, <1>3, ConcatFacts
  <1> QED
    BY <1>4 DEF Flat

\* The walk over a victim's queue leaves it a queue and migrates threads of it.
LEMMA WalkToTyped ==
    ASSUME NEW S, Levelled(S.th), NEW F \in Seq(Runnable), NEW Q \in Queue, NEW c,
           NEW i \in 1 .. Len(F) + 1
    PROVE  /\ WalkTo(S, F, Q, c, i).moved \in Seq(Runnable)
           /\ WalkTo(S, F, Q, c, i).rest \in Queue
  <1> DEFINE done == SubSeq(F, 1, i - 1)
             moved == Migrated(S, F, i)
             rest == RemoveAll(Q, Elements(done))
             pushed == i \in DOMAIN F /\ Meets(S, moved, c, F[i]) = "push_back"
             back == PushedBack(rest, F[i], S.th[F[i]].priority)
  <1>1. WalkTo(S, F, Q, c, i) = [moved |-> moved, rest |-> IF pushed THEN back ELSE rest]
    BY DEF WalkTo
  <1>2. done \in Seq(Runnable)
    <2>1. Len(F) \in Nat
      OBVIOUS
    <2>2. i - 1 \in 0 .. Len(F)
      BY <2>1
    <2> DEFINE m == i - 1
    <2> HIDE DEF m
    <2>3. SubSeq(F, 1, m) \in Seq(Runnable)
      BY <2>2 DEF m
    <2> QED
      BY <2>3 DEF m
  <1>3. moved \in Seq(Runnable)
    BY ZenonT(60), <1>2, KeptTyped DEF Migrated
  <1>4. rest \in Queue
    BY RemoveAllTyped
  <1>5. pushed => back \in Queue
    <2> SUFFICES ASSUME pushed PROVE back \in Queue
      OBVIOUS
    <2>1. F[i] \in Runnable
      OBVIOUS
    <2>2. S.th[F[i]].priority \in Priorities
      BY <2>1 DEF Runnable, Levelled
    <2>3. RemoveTid(rest, F[i]) \in Queue
      BY <1>4, RemoveTyped
    <2> HIDE DEF rest, pushed
    <2> QED
      BY <2>1, <2>2, <2>3, PushTyped DEF PushedBack
  <1> HIDE DEF moved, rest, pushed, back
  <1> QED
    BY <1>1, <1>3, <1>4, <1>5

\* steal_and_migrate from one victim.
LEMMA StealingTyped ==
    ASSUME NEW S, Levelled(S.th), S.rq \in Queues, NEW c, NEW v \in Cpus
    PROVE  Stealing(S, v, c).moved \in Seq(Runnable) /\ Stealing(S, v, c).rest \in Queue
  <1> DEFINE Q == S.rq[v]
             F == Flat(Q)
             E == {i \in DOMAIN F : Meets(S, Migrated(S, F, i), c, F[i])
                                       \in {"full", "owned", "push_back"}} \cup {Len(F) + 1}
  <1>1. Q \in Queue
    BY DEF Queues
  <1>2. F \in Seq(Runnable)
    BY <1>1, FlatTyped
  <1>3. Stealing(S, v, c) = WalkTo(S, F, Q, c, FirstOf(E))
    BY DEF Stealing, WalkOver
  <1> HIDE DEF Q, F
  <1>4. E \subseteq 1 .. Len(F) + 1 /\ E # {} /\ E \subseteq Nat
    BY <1>2
  <1> HIDE DEF E
  <1>5. FirstOf(E) \in E
    <2>1. \E i \in E : \A j \in E : i <= j
      BY ZenonT(60), <1>4, LeastNatural
    <2> QED
      BY <2>1 DEF FirstOf
  <1>6. FirstOf(E) \in 1 .. Len(F) + 1
    BY ZenonT(60), <1>4, <1>5
  <1> QED
    BY <1>1, <1>2, <1>3, <1>6, WalkToTyped

\* The queues after a migration: the thief c appends what it stole, each thread at
\* its level, and the visited victims keep the rest.
QueuesAfter(S, c, moved, St, Visited) ==
    [v \in Cpus |-> IF v = c
                    THEN [p \in Priorities |-> S.rq[c][p] \o Kept(moved, AtPriority(S, p))]
                    ELSE IF v \in Visited THEN St[v].rest ELSE S.rq[v]]

\* They are queues.
LEMMA MigrateTyped ==
    ASSUME NEW S, Levelled(S.th), S.rq \in Queues, NEW c, NEW moved \in Seq(Runnable),
           NEW St, NEW Visited, \A v \in Visited \ {c} : St[v].rest \in Queue
    PROVE  QueuesAfter(S, c, moved, St, Visited) \in Queues
  <1>1. ASSUME c \in Cpus
        PROVE  [p \in Priorities |-> S.rq[c][p] \o Kept(moved, AtPriority(S, p))] \in Queue
    <2>1. ASSUME NEW p \in Priorities
          PROVE  S.rq[c][p] \o Kept(moved, AtPriority(S, p)) \in Seq(Runnable)
      <3>1. S.rq[c][p] \in Seq(Runnable)
        BY <1>1 DEF Queues, Queue
      <3>2. Kept(moved, AtPriority(S, p)) \in Seq(Runnable)
        BY KeptTyped
      <3> QED
        BY <3>1, <3>2, ConcatFacts
    <2> QED
      BY <2>1 DEF Queue
  <1>2. ASSUME NEW v \in Cpus \ {c}
        PROVE  (IF v \in Visited THEN St[v].rest ELSE S.rq[v]) \in Queue
    BY DEF Queues
  <1> DEFINE mine == [p \in Priorities |-> S.rq[c][p] \o Kept(moved, AtPriority(S, p))]
  <1> HIDE DEF mine
  <1>3. c \in Cpus => mine \in Queue
    BY <1>1 DEF mine
  <1>4. [v \in Cpus |-> IF v = c THEN mine
                        ELSE IF v \in Visited THEN St[v].rest ELSE S.rq[v]] \in Queues
    BY <1>2, <1>3 DEF Queues
  <1> QED
    BY <1>4 DEF mine, QueuesAfter

-----------------------------------------------------------------------------
Fields == {"th", "rq", "cur", "switch_out", "thread_count", "zombies", "quarantine", "ipi"}

ThreadFields == {"state", "cpu", "priority", "base_priority", "waiting_for",
                 "yield_requested", "ticks_since_scheduled", "frame"}

\* The part of the types that the argument needs.
IsThread(k) ==
    /\ DOMAIN k = ThreadFields
    /\ k.priority \in Priorities
    /\ k.base_priority \in Priorities

WellFormed(S) ==
    /\ DOMAIN S = Fields
    /\ DOMAIN S.th = Tids
    /\ \A t \in Tids : IsThread(S.th[t])
    /\ S.rq \in Queues
    /\ S.cur \in [Cpus -> Tids]
    /\ S.switch_out \in [Cpus -> Tids \cup {NoTid}]
    /\ S.zombies \subseteq UserPids

\* No thread belongs to two CPUs: an idle thread belongs to its own.
Owned(S) ==
    \A c, d \in Cpus : S.cur[c] = S.cur[d] \/ S.cur[c] = IdleTid[d] => c = d

\* CPU c may take thread t.
Free(S, c, t) ==
    /\ ~candidate_owned_elsewhere(S, t, c)
    /\ t \in IdleTids => t = IdleTid[c]

\* o[c] is the thread whose stack CPU c is on.
StacksSafe(S, o) ==
    /\ WellFormed(S)
    /\ \A c \in Cpus : o[c] = S.cur[c] \/ S.switch_out[c] = o[c]
    /\ \A c \in Cpus : Exists(S, S.cur[c])
    /\ \A c \in Cpus : o[c] \notin FreedStacks(S)
    /\ \A t \in Tids \ UserTids : S.th[t].frame = "ring0"
    /\ Owned(S)

\* R differs from S in nothing the argument depends on.
Quiet(S, R) ==
    /\ WellFormed(R)
    /\ R.cur = S.cur
    /\ R.switch_out = S.switch_out
    /\ R.quarantine = S.quarantine
    /\ \A t \in Tids : /\ R.th[t].state = "Reaped" => S.th[t].state = "Reaped"
                       /\ Exists(S, t) => Exists(R, t)
                       /\ t \notin UserTids => R.th[t].frame = S.th[t].frame

\* Only CPU c changed thread.
OnlyCpu(S, R, c) ==
    \A d \in Cpus \ {c} : R.cur[d] = S.cur[d] /\ R.switch_out[d] = S.switch_out[d]

\* What is left to show of a state in which no CPU has changed thread.
LEMMA SafeWhen ==
    ASSUME NEW S, NEW R, NEW o, StacksSafe(S, o),
           WellFormed(R), R.cur = S.cur, R.switch_out = S.switch_out,
           \A c \in Cpus : Exists(R, R.cur[c]),
           \A c \in Cpus : o[c] \notin FreedStacks(R),
           \A t \in Tids \ UserTids : R.th[t].frame = "ring0"
    PROVE  StacksSafe(R, o)
  <1>1. Owned(R)
    <2>1. Owned(S)
      BY Zenon DEF StacksSafe
    <2> QED
      BY <2>1 DEF Owned
  <1>2. \A c \in Cpus : o[c] = R.cur[c] \/ R.switch_out[c] = o[c]
    BY Zenon DEF StacksSafe
  <1> QED
    BY Zenon, <1>1, <1>2 DEF StacksSafe

\* A quiet change leaves every CPU on a stack that is not freed.
LEMMA QuietSafe ==
    ASSUME NEW S, NEW R, NEW o, StacksSafe(S, o), Quiet(S, R)
    PROVE  StacksSafe(R, o)
  <1>1. WellFormed(R) /\ R.cur = S.cur /\ R.switch_out = S.switch_out
    BY Zenon DEF Quiet
  <1>2. \A c \in Cpus : Exists(R, R.cur[c])
    <2> SUFFICES ASSUME NEW c \in Cpus PROVE Exists(R, S.cur[c])
      BY Zenon, <1>1
    <2>1. S.cur[c] \in Tids /\ Exists(S, S.cur[c])
      BY DEF StacksSafe, WellFormed
    <2> QED
      BY Zenon, <2>1 DEF Quiet
  <1>3. FreedStacks(R) \subseteq FreedStacks(S)
    BY Zenon DEF Quiet, FreedStacks
  <1>4. \A c \in Cpus : o[c] \notin FreedStacks(R)
    BY Zenon, <1>3 DEF StacksSafe
  <1>5. \A t \in Tids \ UserTids : R.th[t].frame = "ring0"
    BY Zenon DEF Quiet, StacksSafe
  <1> QED
    BY Zenon, <1>1, <1>2, <1>4, <1>5, SafeWhen

\* Quiet changes compose.
LEMMA QuietTrans ==
    ASSUME NEW S, NEW R, NEW Q, Quiet(S, R), Quiet(R, Q)
    PROVE  Quiet(S, Q)
  BY DEF Quiet

\* Changing nothing is quiet.
LEMMA QuietSelf ==
    ASSUME NEW S, WellFormed(S)
    PROVE  Quiet(S, S)
  BY DEF Quiet

\* What the steps below use of a quiet change without expanding it.
LEMMA QuietFacts ==
    ASSUME NEW S, NEW R, Quiet(S, R)
    PROVE  /\ WellFormed(R)
           /\ R.cur = S.cur
           /\ R.switch_out = S.switch_out
           /\ \A t \in Tids : Exists(S, t) => Exists(R, t)
  BY DEF Quiet

\* The threads of a scheduler state have a level.
LEMMA ThreadsLevelled ==
    ASSUME NEW S, WellFormed(S)
    PROVE  Levelled(S.th)
  BY DEF WellFormed, IsThread, Levelled

\* What exactly the run queues hold and the pending interrupts do not matter.
LEMMA QuietQueues ==
    ASSUME NEW S, WellFormed(S), NEW q \in Queues, NEW i
    PROVE  /\ Quiet(S, [S EXCEPT !.rq = q])
           /\ Quiet(S, [S EXCEPT !.rq = q, !.ipi = i])
  BY DEF Quiet, WellFormed, Fields, Exists

\* Pending interrupts do not matter here.
LEMMA QuietIpi ==
    ASSUME NEW S, WellFormed(S), NEW i
    PROVE  Quiet(S, [S EXCEPT !.ipi = i])
  BY DEF Quiet, WellFormed, Fields, Exists

\* Putting threads on a run queue is quiet.
LEMMA QuietEnqueue ==
    ASSUME NEW S, WellFormed(S), NEW c, NEW T, T \subseteq Tids
    PROVE  Quiet(S, Enqueue(S, c, T))
  <1>1. EnqueueAll(S.rq, S.th, T) \in Queues
    BY ThreadsLevelled, EnqueueAllTyped DEF WellFormed
  <1> QED
    BY Zenon, <1>1, QuietQueues DEF Enqueue

\* remove_from_queue is quiet.
LEMMA QuietRemove ==
    ASSUME NEW S, WellFormed(S), NEW t
    PROVE  Quiet(S, RemoveFromQueue(S, t))
  <1> DEFINE q == [S.rq EXCEPT ![S.th[t].cpu] = RemoveTid(@, t)]
  <1>1. q \in Queues
    BY ZenonT(60), RemoveOneTyped DEF WellFormed
  <1>2. RemoveFromQueue(S, t) = [S EXCEPT !.rq = q]
    BY Zenon DEF RemoveFromQueue
  <1> HIDE DEF q
  <1>3. Quiet(S, [S EXCEPT !.rq = q])
    BY Zenon, <1>1, QuietQueues
  <1> QED
    BY <1>2, <1>3

\* A new thread table that reaps no one and leaves Ring 0 threads their frame.
QuietTable(S, th) ==
    /\ DOMAIN th = Tids
    /\ \A t \in Tids : /\ IsThread(th[t])
                       /\ th[t].state = "Reaped" => S.th[t].state = "Reaped"
                       /\ Exists(S, t) => th[t].state \notin {"None", "Reaped"}
                       /\ t \notin UserTids => th[t].frame = S.th[t].frame

\* A table that satisfies QuietTable is a quiet change.
LEMMA QuietThreads ==
    ASSUME NEW S, WellFormed(S), NEW th, QuietTable(S, th)
    PROVE  Quiet(S, [S EXCEPT !.th = th])
  BY DEF Quiet, QuietTable, WellFormed, Fields, Exists

\* One thread changes to k.
LEMMA QuietThread ==
    ASSUME NEW S, WellFormed(S), NEW t \in Tids, NEW k, IsThread(k),
           k.state = "Reaped" => S.th[t].state = "Reaped",
           Exists(S, t) => k.state \notin {"None", "Reaped"},
           t \notin UserTids => k.frame = S.th[t].frame
    PROVE  Quiet(S, [S EXCEPT !.th[t] = k])
  <1> DEFINE th == [S.th EXCEPT ![t] = k]
  <1>1. QuietTable(S, th)
    BY DEF QuietTable, WellFormed, Exists
  <1>2. [S EXCEPT !.th[t] = k] = [S EXCEPT !.th = th]
    BY DEF WellFormed, Fields
  <1> QED
    BY <1>1, <1>2, QuietThreads

-----------------------------------------------------------------------------
\* Operators that are quiet.

\* Moving a thread to any state but None and Reaped is quiet.
LEMMA QuietState ==
    ASSUME NEW S, WellFormed(S), NEW t \in Tids,
           NEW st \in ThreadStates \ {"None", "Reaped"}
    PROVE  Quiet(S, [S EXCEPT !.th[t].state = st])
  <1> DEFINE k == [S.th[t] EXCEPT !.state = st]
  <1>1. IsThread(k) /\ k.state = st /\ k.frame = S.th[t].frame
    BY DEF WellFormed, IsThread, ThreadFields
  <1>2. [S EXCEPT !.th[t].state = st] = [S EXCEPT !.th[t] = k]
    BY DEF WellFormed, Fields
  <1> HIDE DEF k
  <1> QED
    BY <1>1, <1>2, QuietThread DEF ThreadStates

\* make_ready (wakers and kill) is quiet.
LEMMA QuietMakeReady ==
    ASSUME NEW S, WellFormed(S), NEW c, NEW T, \A t \in T : Exists(S, t)
    PROVE  Quiet(S, MakeReady(S, c, T))
  <1> DEFINE W == {t \in T : S.th[t].state # "Ready"}
             th == [t \in Tids |->
                      IF t \in W
                      THEN [S.th[t] EXCEPT !.state = "Ready", !.yield_requested = FALSE,
                                           !.ticks_since_scheduled = 0]
                      ELSE S.th[t]]
             R == [S EXCEPT !.th = th]
  <1>1. QuietTable(S, th)
    BY DEF QuietTable, WellFormed, IsThread, ThreadFields, Exists
  <1>2. Quiet(S, R)
    BY Zenon, <1>1, QuietThreads
  <1>3. MakeReady(S, c, T) = Enqueue(R, c, W)
    BY DEF MakeReady
  <1>4. W \subseteq Tids
    BY DEF Exists
  <1> HIDE DEF W, R
  <1> QED
    BY <1>2, <1>3, <1>4, QuietEnqueue, QuietTrans, QuietFacts

\* wake_blocked_on, the wake by reason, is quiet.
LEMMA QuietWake ==
    ASSUME NEW S, WellFormed(S), NEW c, NEW reason
    PROVE  Quiet(S, Wake(S, c, reason))
  <1> DEFINE W == {t \in Tids : S.th[t].state = "Blocked" /\ S.th[t].waiting_for = reason}
             th == [t \in Tids |-> IF t \in W
                                  THEN [S.th[t] EXCEPT !.waiting_for = NoReason] ELSE S.th[t]]
             R == [S EXCEPT !.th = th]
  <1>1. QuietTable(S, th)
    BY DEF QuietTable, WellFormed, IsThread, ThreadFields, Exists
  <1>2. Quiet(S, R)
    BY <1>1, QuietThreads
  <1>3. \A t \in W : Exists(R, t)
    BY <1>2, QuietFacts DEF Exists
  <1>4. Wake(S, c, reason) = MakeReady(R, c, W)
    BY DEF Wake
  <1> HIDE DEF W, R
  <1> QED
    BY <1>2, <1>3, <1>4, QuietMakeReady, QuietTrans, QuietFacts

\* Saving the frame of a user thread is quiet.
LEMMA QuietSaveFrame ==
    ASSUME NEW S, WellFormed(S), NEW c, NEW t \in Tids, Exists(S, t), NEW frame,
           t \in UserTids \/ frame = S.th[t].frame
    PROVE  Quiet(S, SaveFrame(S, c, t, frame))
  <1> DEFINE k == [S.th[t] EXCEPT !.frame = frame, !.yield_requested = FALSE, !.cpu = c]
  <1>1. IsThread(k) /\ k.state = S.th[t].state /\ k.frame = frame
    BY DEF WellFormed, IsThread, ThreadFields
  <1>2. SaveFrame(S, c, t, frame) = [S EXCEPT !.th[t] = k]
    BY Zenon DEF SaveFrame, WellFormed, Fields
  <1> HIDE DEF k
  <1> QED
    BY <1>1, <1>2, QuietThread DEF Exists

\* Publishing the outgoing thread as Ready is quiet.
LEMMA QuietPublish ==
    ASSUME NEW S, WellFormed(S), NEW c, NEW t \in Tids
    PROVE  Quiet(S, PublishIfRunning(S, c, t))
  BY QuietMakeReady, QuietSelf DEF PublishIfRunning, Exists

\* The accounting of a timer tick (on_timer_tick) is quiet.
LEMMA QuietTick ==
    ASSUME NEW S, WellFormed(S), NEW c \in Cpus, NEW frame, NEW expired, NEW disabled,
           S.cur[c] \in UserTids \/ frame = S.th[S.cur[c]].frame
    PROVE  Quiet(S, on_timer_tick(S, c, frame, expired, disabled))
  <1> DEFINE t == S.cur[c]
             D == SaveFrame(S, c, t, frame)
             E == [D EXCEPT !.th[t].state = "Ready"]
  <1>1. CASE S.th[t].state # "Running" \/ ~expired
    BY <1>1, QuietSelf DEF on_timer_tick
  <1>2. CASE ~(S.th[t].state # "Running" \/ ~expired)
    <2>1. t \in Tids /\ Exists(S, t)
      BY <1>2 DEF WellFormed, Exists
    <2>2. Quiet(S, D)
      BY <2>1, QuietSaveFrame
    <2>3. \/ on_timer_tick(S, c, frame, expired, disabled) = D
          \/ on_timer_tick(S, c, frame, expired, disabled) = Enqueue(E, c, {t})
      BY <1>2, Zenon DEF on_timer_tick
    <2> HIDE DEF t, D
    <2>4. Quiet(D, E)
      BY <2>1, <2>2, QuietState, QuietFacts DEF ThreadStates
    <2> HIDE DEF E
    <2>5. Quiet(S, E)
      BY <2>2, <2>4, QuietTrans
    <2>6. Quiet(S, Enqueue(E, c, {t}))
      BY <2>1, <2>5, QuietEnqueue, QuietTrans, QuietFacts
    <2> QED
      BY <2>2, <2>3, <2>6
  <1> QED
    BY <1>1, <1>2

-----------------------------------------------------------------------------
\* Reclamation and dispatch.

\* Only a process of UserPids is ever reclaimed; the idle threads have pid 0.
LEMMA UserPidPositive == \A p \in UserPids : p # 0
  BY ConstantsAssumption DEF UserPids, Tids

\* A thread as it is created.
LEMMA CreatedThread ==
    ASSUME NEW s, NEW c, NEW p \in Priorities, NEW f
    PROVE  /\ IsThread(NewThread(s, c, p, f)) /\ NewThread(s, c, p, f).state = s
           /\ NewThread(s, c, p, f).frame = f
  BY DEF IsThread, NewThread, ThreadFields

\* What recycling leaves of a thread.
LEMMA ClearedThread ==
    IsThread(Cleared) /\ Cleared.state = "Reaped" /\ Cleared.frame = "ring0"
  BY DEF IsThread, Cleared, NewThread, ThreadFields, Priorities, PRIORITY_NORMAL

\* Clearing processes that run nowhere frees no stack a CPU is on: the marker of a
\* CPU that is leaving the stack sends it to the quarantine.
LEMMA SafeRecycle ==
    ASSUME NEW S, NEW o \in [Cpus -> Tids], StacksSafe(S, o),
           NEW P, P \subseteq UserPids,
           \A p \in P : ~is_pid_running_on_any_cpu(S, p)
    PROVE  /\ StacksSafe(RecycleProcesses(S, P), o)
           /\ RecycleProcesses(S, P).cur = S.cur
           /\ RecycleProcesses(S, P).switch_out = S.switch_out
           /\ RecycleProcesses(S, P).zombies = S.zombies
           /\ \A t \in Tids : \/ RecycleProcesses(S, P).th[t] = S.th[t]
                              \/ RecycleProcesses(S, P).th[t].state = "Reaped"
  <1> DEFINE T == {t \in Tids : PidOf[t] \in P /\ Exists(S, t)}
             th == [t \in Tids |-> IF t \in T THEN Cleared ELSE S.th[t]]
             q == S.quarantine \cup {t \in T : reclaim_conflict(S, t)}
             R == [S EXCEPT !.th = th, !.quarantine = q]
  <1>1. RecycleProcesses(S, P) = R
    BY DEF RecycleProcesses
  <1>2. /\ R.th = th /\ R.quarantine = q /\ R.rq = S.rq
        /\ R.cur = S.cur /\ R.switch_out = S.switch_out /\ R.zombies = S.zombies
        /\ DOMAIN R = Fields
    BY DEF StacksSafe, WellFormed, Fields
  <1> HIDE DEF R
  <1>3. IsThread(Cleared) /\ Cleared.state = "Reaped" /\ Cleared.frame = "ring0"
    BY ClearedThread
  <1>4. WellFormed(R)
    <2>1. DOMAIN R.th = Tids /\ \A t \in Tids : R.th[t] = IF t \in T THEN Cleared ELSE S.th[t]
      BY Zenon, <1>2
    <2>2. \A t \in Tids : IsThread(R.th[t])
      BY Zenon, <1>3, <2>1 DEF StacksSafe, WellFormed
    <2> QED
      BY Zenon, <1>2, <2>1, <2>2 DEF StacksSafe, WellFormed
  <1>5. \A c \in Cpus : S.cur[c] \notin T
    <2> SUFFICES ASSUME NEW c \in Cpus, S.cur[c] \in T PROVE FALSE
      OBVIOUS
    <2> QED
      BY UserPidPositive DEF is_pid_running_on_any_cpu
  <1>6. \A c \in Cpus : Exists(R, R.cur[c])
    <2> SUFFICES ASSUME NEW c \in Cpus PROVE Exists(R, S.cur[c])
      BY Zenon, <1>2
    <2>1. Exists(S, S.cur[c])
      BY Zenon DEF StacksSafe
    <2>2. R.th[S.cur[c]] = S.th[S.cur[c]]
      BY Zenon, <1>2, <1>5, <2>1 DEF Exists
    <2> QED
      BY Zenon, <2>1, <2>2 DEF Exists
  <1>7. \A c \in Cpus : o[c] \notin FreedStacks(R)
    <2> SUFFICES ASSUME NEW c \in Cpus, o[c] \in FreedStacks(R) PROVE FALSE
      OBVIOUS
    <2>1. o[c] \in Tids /\ R.th[o[c]].state = "Reaped" /\ o[c] \notin q
      BY <1>2 DEF FreedStacks
    <2>2. CASE o[c] \in T
      BY <1>5, <2>1, <2>2 DEF StacksSafe, reclaim_conflict
    <2>3. CASE o[c] \notin T
      BY <1>2, <2>1, <2>3 DEF StacksSafe, FreedStacks
    <2> QED
      BY <2>2, <2>3
  <1>8. StacksSafe(R, o)
    <2>1. \A t \in Tids \ UserTids : R.th[t].frame = "ring0"
      BY Zenon, <1>2, <1>3 DEF StacksSafe
    <2> QED
      BY ZenonT(60), <1>2, <1>4, <1>6, <1>7, <2>1, SafeWhen
  <1>9. \A t \in Tids : R.th[t] = S.th[t] \/ R.th[t].state = "Reaped"
    BY <1>2, <1>3
  <1> QED
    BY <1>1, <1>2, <1>8, <1>9

\* Draining the quarantine frees only stacks no marker names.
LEMMA SafeDrain ==
    ASSUME NEW S, NEW o \in [Cpus -> Tids], StacksSafe(S, o)
    PROVE  LET D == [S EXCEPT !.quarantine = {t \in @ : reclaim_conflict(S, t)}]
           IN  /\ StacksSafe(D, o)
               /\ D.cur = S.cur /\ D.switch_out = S.switch_out
               /\ D.zombies = S.zombies /\ D.th = S.th
  <1> DEFINE q == {t \in S.quarantine : reclaim_conflict(S, t)}
             D == [S EXCEPT !.quarantine = q]
  <1>1. /\ D.quarantine = q /\ D.th = S.th /\ D.cur = S.cur /\ D.rq = S.rq
        /\ D.switch_out = S.switch_out /\ D.zombies = S.zombies /\ DOMAIN D = Fields
    BY DEF StacksSafe, WellFormed, Fields
  <1> HIDE DEF D
  <1>2. \A c \in Cpus : o[c] \notin FreedStacks(D)
    <2> SUFFICES ASSUME NEW c \in Cpus, o[c] \in FreedStacks(D) PROVE FALSE
      OBVIOUS
    <2>1. S.th[o[c]].state = "Reaped" /\ o[c] \in S.quarantine /\ ~reclaim_conflict(S, o[c])
      BY <1>1 DEF FreedStacks, StacksSafe
    <2>2. S.cur[c] = o[c]
      BY <2>1 DEF StacksSafe, reclaim_conflict
    <2> QED
      BY <2>1, <2>2 DEF StacksSafe, Exists
  <1>3. StacksSafe(D, o)
    <2>1. WellFormed(D)
      BY Zenon, <1>1 DEF StacksSafe, WellFormed
    <2>2. \A c \in Cpus : Exists(D, D.cur[c])
      BY Zenon, <1>1 DEF StacksSafe, Exists
    <2>3. \A t \in Tids \ UserTids : D.th[t].frame = "ring0"
      BY Zenon, <1>1 DEF StacksSafe
    <2> QED
      BY ZenonT(60), <1>1, <1>2, <2>1, <2>2, <2>3, SafeWhen
  <1> QED
    BY <1>1, <1>3 DEF D

\* reap_pending_zombies frees no stack a CPU is on.
LEMMA SafeReap ==
    ASSUME NEW S, NEW o \in [Cpus -> Tids], StacksSafe(S, o), NEW x
    PROVE  LET R == reap_pending_zombies(S, x)
           IN  /\ StacksSafe(R, o)
               /\ R.cur = S.cur /\ R.switch_out = S.switch_out
               /\ \A t \in Tids : R.th[t] = S.th[t] \/ R.th[t].state = "Reaped"
  <1> DEFINE D == [S EXCEPT !.quarantine = {t \in @ : reclaim_conflict(S, t)}]
             P == Reclaimable(S, x)
             Q == RecycleProcesses(D, P)
             R == [Q EXCEPT !.zombies = @ \ P]
  <1>1. /\ StacksSafe(D, o) /\ D.cur = S.cur /\ D.switch_out = S.switch_out
        /\ D.zombies = S.zombies /\ D.th = S.th
    BY SafeDrain
  <1> HIDE DEF D
  <1>2. P \subseteq UserPids /\ \A p \in P : ~is_pid_running_on_any_cpu(D, p)
    BY <1>1 DEF Reclaimable, StacksSafe, WellFormed, is_pid_running_on_any_cpu
  <1> HIDE DEF P
  <1>3. /\ StacksSafe(Q, o) /\ Q.cur = D.cur /\ Q.switch_out = D.switch_out
        /\ \A t \in Tids : Q.th[t] = D.th[t] \/ Q.th[t].state = "Reaped"
    BY ZenonT(60), <1>1, <1>2, SafeRecycle
  <1> HIDE DEF Q
  <1>4. /\ R.th = Q.th /\ R.cur = Q.cur /\ R.switch_out = Q.switch_out /\ R.rq = Q.rq
        /\ R.quarantine = Q.quarantine /\ R.zombies = Q.zombies \ P /\ DOMAIN R = Fields
    BY <1>3 DEF StacksSafe, WellFormed, Fields
  <1>5. reap_pending_zombies(S, x) = R
    BY DEF reap_pending_zombies, D, P, Q
  <1> HIDE DEF R
  <1>6. StacksSafe(R, o)
    <2>1. WellFormed(R)
      <3>1. Q.zombies \subseteq UserPids
        BY Zenon, <1>3 DEF StacksSafe, WellFormed
      <3>2. R.zombies \subseteq UserPids
        BY Zenon, <1>4, <3>1
      <3> QED
        BY Zenon, <1>3, <1>4, <3>2 DEF StacksSafe, WellFormed
    <2>2. \A c \in Cpus : Exists(R, R.cur[c])
      BY Zenon, <1>3, <1>4 DEF StacksSafe, Exists
    <2>3. \A c \in Cpus : o[c] \notin FreedStacks(R)
      BY Zenon, <1>3, <1>4 DEF StacksSafe, FreedStacks
    <2>4. \A t \in Tids \ UserTids : R.th[t].frame = "ring0"
      BY Zenon, <1>3, <1>4 DEF StacksSafe
    <2> QED
      BY ZenonT(60), <1>3, <1>4, <2>1, <2>2, <2>3, <2>4, SafeWhen
  <1> QED
    BY <1>1, <1>3, <1>4, <1>5, <1>6

\* The same, as one fact.
AfterReap(S, R, o) ==
    /\ StacksSafe(R, o) /\ R.cur = S.cur /\ R.switch_out = S.switch_out
    /\ \A t \in Tids : R.th[t] = S.th[t] \/ R.th[t].state = "Reaped"

LEMMA ReapSafe ==
    ASSUME NEW S, NEW o \in [Cpus -> Tids], StacksSafe(S, o), NEW x
    PROVE  AfterReap(S, reap_pending_zombies(S, x), o)
  <1> DEFINE R == reap_pending_zombies(S, x)
  <1>1. /\ StacksSafe(R, o) /\ R.cur = S.cur /\ R.switch_out = S.switch_out
        /\ \A t \in Tids : R.th[t] = S.th[t] \/ R.th[t].state = "Reaped"
    BY SafeReap
  <1> HIDE DEF R
  <1>2. AfterReap(S, R, o)
    BY Zenon, <1>1 DEF AfterReap
  <1> QED
    BY <1>2 DEF R

\* The KPRCB may be repointed when the stack being left is the marked one, or when
\* the CPU returns to the thread whose stack it never left.
LEMMA SafeSetCurrent ==
    ASSUME NEW S, NEW o \in [Cpus -> Tids], StacksSafe(S, o), NEW c \in Cpus,
           NEW t \in Tids, Exists(S, t), Free(S, c, t),
           S.cur[c] = o[c] \/ S.cur[c] = t \/ t = o[c]
    PROVE  LET R == SetCurrent(S, c, t)
           IN  /\ StacksSafe(R, o) /\ R.cur[c] = t /\ OnlyCpu(S, R, c) /\ R.th = S.th
  <1>1. CASE S.cur[c] = t
    BY <1>1 DEF SetCurrent, OnlyCpu
  <1>2. CASE S.cur[c] # t
    <2> DEFINE cur == [S.cur EXCEPT ![c] = t]
               out == [S.switch_out EXCEPT ![c] = S.cur[c]]
               R == [S EXCEPT !.cur = cur, !.switch_out = out]
    <2>1. SetCurrent(S, c, t) = R
      BY <1>2 DEF SetCurrent, StacksSafe, WellFormed, Fields
    <2>2. /\ R.th = S.th /\ R.cur = cur /\ R.switch_out = out /\ R.zombies = S.zombies
          /\ R.quarantine = S.quarantine /\ R.rq = S.rq /\ DOMAIN R = Fields
      BY DEF StacksSafe, WellFormed, Fields
    <2> HIDE DEF R
    <2>3. cur \in [Cpus -> Tids] /\ out \in [Cpus -> Tids \cup {NoTid}]
      BY DEF StacksSafe, WellFormed
    <2>4. /\ cur[c] = t /\ out[c] = S.cur[c]
          /\ \A d \in Cpus \ {c} : cur[d] = S.cur[d] /\ out[d] = S.switch_out[d]
      BY DEF StacksSafe, WellFormed
    <2> HIDE DEF cur, out
    <2>5. WellFormed(R)
      BY <2>2, <2>3 DEF StacksSafe, WellFormed
    <2>6. \A d \in Cpus : o[d] = R.cur[d] \/ R.switch_out[d] = o[d]
      BY <1>2, <2>2, <2>4 DEF StacksSafe
    <2>7. \A d \in Cpus : Exists(R, R.cur[d])
      BY <2>2, <2>4 DEF StacksSafe, Exists
    <2>7a. Owned(R)
      <3> SUFFICES ASSUME NEW d \in Cpus, NEW e \in Cpus,
                          R.cur[d] = R.cur[e] \/ R.cur[d] = IdleTid[e], d # e
                   PROVE  FALSE
        BY Zenon DEF Owned
      <3>0. Owned(S)
        BY Zenon DEF StacksSafe
      <3>1. CASE R.cur[d] = R.cur[e]
        <4>1. CASE d # c /\ e # c
          BY <2>2, <2>4, <3>0, <3>1, <4>1 DEF Owned
        <4>2. CASE d = c \/ e = c
          BY <2>2, <2>4, <3>1, <4>2 DEF Free, candidate_owned_elsewhere
        <4> QED
          BY Zenon, <4>1, <4>2
      <3>2. CASE R.cur[d] = IdleTid[e] /\ d = c
        <4>1. t = IdleTid[e]
          BY Zenon, <2>2, <2>4, <3>2
        <4>2. t = IdleTid[c]
          BY <4>1 DEF Free, IdleTids
        <4> QED
          BY ZenonT(60), <3>2, <4>1, <4>2, ConstantsAssumption DEF ConstantsAssumption
      <3>3. CASE R.cur[d] = IdleTid[e] /\ d # c
        <4>1. R.cur[d] = S.cur[d]
          BY Zenon, <2>2, <2>4, <3>3
        <4>2. S.cur[d] = IdleTid[e]
          BY Zenon, <3>3, <4>1
        <4> QED
          BY Zenon, <3>0, <4>2 DEF Owned
      <3> QED
        BY Zenon, <3>1, <3>2, <3>3
    <2>8. StacksSafe(R, o)
      BY <2>2, <2>5, <2>6, <2>7, <2>7a DEF StacksSafe, FreedStacks
    <2> QED
      BY <2>1, <2>2, <2>4, <2>8 DEF OnlyCpu
  <1> QED
    BY <1>1, <1>2

\* What a dispatch of thread t on CPU c establishes.
Dispatches(S, R, o, c, t) ==
    /\ StacksSafe(R, o)
    /\ OnlyCpu(S, R, c)
    /\ R.cur[c] = t
    /\ R.th[t].frame = S.th[t].frame
    /\ \A u \in Tids \ {t} : R.th[u] = S.th[u] \/ R.th[u].state = "Reaped"

\* Repointing to a thread marked Running, then reaping.
LEMMA SafeDispatch ==
    ASSUME NEW S, NEW o \in [Cpus -> Tids], StacksSafe(S, o), NEW c \in Cpus,
           S.cur[c] = o[c], NEW t \in Tids, Free(S, c, t), NEW x,
           NEW k, IsThread(k), k.state = "Running", k.frame = S.th[t].frame
    PROVE  Dispatches(S, reap_pending_zombies([SetCurrent(S, c, t) EXCEPT !.th[t] = k], x),
                      o, c, t)
  <1> DEFINE K == [S EXCEPT !.th[t] = k]
             D == SetCurrent(K, c, t)
             R == reap_pending_zombies(D, x)
  <1>1. Quiet(S, K)
    BY QuietThread DEF StacksSafe
  <1>2. K.th = [S.th EXCEPT ![t] = k] /\ Exists(K, t)
    BY DEF StacksSafe, WellFormed, Fields, Exists
  <1>3. [SetCurrent(S, c, t) EXCEPT !.th[t] = k] = D
    BY Zenon DEF SetCurrent, StacksSafe, WellFormed, Fields
  <1> HIDE DEF K
  <1>4. StacksSafe(K, o) /\ K.cur = S.cur /\ K.switch_out = S.switch_out
    BY Zenon, <1>1, QuietSafe, QuietFacts
  <1>4a. Free(K, c, t)
    BY <1>4 DEF Free, candidate_owned_elsewhere
  <1>4b. StacksSafe(K, o) /\ Exists(K, t) /\ K.cur[c] = o[c]
    BY Zenon, <1>2, <1>4
  <1>5. StacksSafe(D, o) /\ D.cur[c] = t /\ OnlyCpu(K, D, c) /\ D.th = K.th
    BY SMTT(60), <1>4a, <1>4b, SafeSetCurrent
  <1> HIDE DEF D
  <1>6. /\ StacksSafe(R, o) /\ R.cur = D.cur /\ R.switch_out = D.switch_out
        /\ \A u \in Tids : R.th[u] = D.th[u] \/ R.th[u].state = "Reaped"
    <2>1. AfterReap(D, R, o)
      BY Zenon, <1>5, ReapSafe
    <2> HIDE DEF R
    <2> QED
      BY Zenon, <2>1 DEF AfterReap
  <1> HIDE DEF R
  <1>7. R.th[t] = k
    <2>1. R.th[t] = D.th[t] \/ R.th[t].state = "Reaped"
      BY Zenon, <1>6
    <2>2. Exists(R, R.cur[c]) /\ R.cur[c] = t
      BY Zenon, <1>5, <1>6 DEF StacksSafe
    <2>3. D.th[t] = k
      <3>1. DOMAIN S.th = Tids
        BY Zenon DEF StacksSafe, WellFormed
      <3>2. D.th = [S.th EXCEPT ![t] = k]
        BY Zenon, <1>2, <1>5
      <3> QED
        BY Zenon, <3>1, <3>2
    <2> QED
      BY Zenon, <2>1, <2>2, <2>3 DEF Exists
  <1>8. \A u \in Tids \ {t} : R.th[u] = S.th[u] \/ R.th[u].state = "Reaped"
    <2> SUFFICES ASSUME NEW u \in Tids \ {t}
                 PROVE  R.th[u] = S.th[u] \/ R.th[u].state = "Reaped"
      OBVIOUS
    <2>1. DOMAIN S.th = Tids
      BY Zenon DEF StacksSafe, WellFormed
    <2>2. K.th[u] = S.th[u]
      BY Zenon, <1>2, <2>1
    <2>3. D.th[u] = S.th[u]
      BY Zenon, <1>5, <2>2
    <2>4. R.th[u] = D.th[u] \/ R.th[u].state = "Reaped"
      BY Zenon, <1>6
    <2> QED
      BY Zenon, <2>3, <2>4
  <1>9. OnlyCpu(S, R, c)
    BY <1>4, <1>5, <1>6 DEF OnlyCpu
  <1>10. Dispatches(S, R, o, c, t)
    BY <1>5, <1>6, <1>7, <1>8, <1>9 DEF Dispatches
  <1> QED
    BY <1>3, <1>10 DEF R

\* The commit of a selected thread keeps the stacks safe.
LEMMA SafeCommit ==
    ASSUME NEW S, NEW o \in [Cpus -> Tids], StacksSafe(S, o), NEW c \in Cpus,
           S.cur[c] = o[c], NEW t \in Tids, Free(S, c, t)
    PROVE  Dispatches(S, Commit(S, c, t), o, c, t)
  <1> DEFINE k == account_dispatch([S.th[t] EXCEPT !.state = "Running"])
  <1>1. IsThread(k) /\ k.state = "Running" /\ k.frame = S.th[t].frame
    BY DEF StacksSafe, WellFormed, IsThread, ThreadFields, account_dispatch
  <1>2. SetCurrent(S, c, t).th = S.th
    BY DEF SetCurrent, StacksSafe, WellFormed, Fields
  <1>3. Commit(S, c, t)
          = reap_pending_zombies([SetCurrent(S, c, t) EXCEPT !.th[t] = k], PidOf[S.cur[c]])
    BY <1>2 DEF Commit
  <1> HIDE DEF k
  <1> QED
    BY <1>1, <1>3, SafeDispatch

\* Dispatching the idle thread keeps the stacks safe.
LEMMA SafeIdle ==
    ASSUME NEW S, NEW o \in [Cpus -> Tids], StacksSafe(S, o), NEW c \in Cpus,
           S.cur[c] = o[c]
    PROVE  Dispatches(S, dispatch_idle(S, c), o, c, IdleTid[c])
  <1> DEFINE t == IdleTid[c]
             k == [S.th[t] EXCEPT !.state = "Running"]
  <1>1. t \in Tids /\ Free(S, c, t)
    BY DEF Tids, IdleTids, Free, candidate_owned_elsewhere, StacksSafe, Owned
  <1>2. IsThread(k) /\ k.state = "Running" /\ k.frame = S.th[t].frame
    BY <1>1 DEF StacksSafe, WellFormed, IsThread, ThreadFields
  <1>3. SetCurrent(S, c, t).th = S.th
    BY DEF SetCurrent, StacksSafe, WellFormed, Fields
  <1>4. dispatch_idle(S, c)
          = reap_pending_zombies([SetCurrent(S, c, t) EXCEPT !.th[t] = k], PidOf[S.cur[c]])
    BY <1>3 DEF dispatch_idle
  <1> HIDE DEF k
  <1> QED
    BY <1>1, <1>2, <1>4, SafeDispatch

-----------------------------------------------------------------------------
\* Selection.

\* BOOT_TID is the number of no thread here.
LEMMA NoTidIsNone == NoTid \notin Tids
  BY ConstantsAssumption DEF NoTid

\* FirstOf is an element of its argument.
LEMMA FirstOfMember ==
    ASSUME NEW T, T \subseteq Tids, T # {}
    PROVE  FirstOf(T) \in T
  <1>1. T \subseteq Nat
    BY ConstantsAssumption
  <1>2. \E t \in T : \A u \in T : t <= u
    BY Zenon, <1>1, LeastNatural
  <1> QED
    BY <1>2 DEF FirstOf

\* The global scan picks one of its candidates.
LEMMA ScanPickMember ==
    ASSUME NEW S, WellFormed(S), NEW c \in Cpus, NEW C, C \subseteq Tids, C # {}
    PROVE  ScanPick(S, c, C) \in C
  <1>1. NextTid \in Nat /\ NextTid > 0
    <2>1. PICK t \in Tids : t \in Nat /\ t < NextTid
      BY Zenon, ConstantsAssumption
    <2> QED
      BY <2>1, ConstantsAssumption
  <1>2. ASSUME NEW t \in Tids PROVE ScanKey(S, c, t) \in Nat
    <2>1. S.th[t].priority \in 0..3
      BY DEF WellFormed, IsThread, Priorities
    <2>2. NextTid * S.th[t].priority \in Nat
      BY <1>1, <2>1
    <2>3. t - S.cur[c] - 1 \in Int
      <3>1. S.cur[c] \in Tids
        BY DEF WellFormed
      <3>2. S.cur[c] \in Nat /\ t \in Nat
        BY Zenon, <3>1, ConstantsAssumption
      <3> QED
        BY <3>2
    <2>4. (t - S.cur[c] - 1) % NextTid \in Nat
      BY <1>1, <2>3
    <2> QED
      BY <2>2, <2>4 DEF ScanKey
  <1> DEFINE K == {ScanKey(S, c, t) : t \in C}
  <1>3. \E k \in K : \A l \in K : k <= l
    BY Zenon, <1>2, LeastNatural
  <1>4. \E t \in C : \A u \in C : ScanKey(S, c, t) <= ScanKey(S, c, u)
    BY <1>3
  <1> QED
    BY <1>4 DEF ScanPick

\* Taking a thread from the local queue changes nothing but the queue.
LEMMA QuietDequeue ==
    ASSUME NEW S, WellFormed(S), NEW c \in Cpus
    PROVE  /\ Quiet(S, try_dequeue_local(S, c).s)
           /\ try_dequeue_local(S, c).tid \in Runnable \cup {NoTid}
  <1> DEFINE q == [S.rq EXCEPT ![c] = PopHighest(@)]
             R == [S EXCEPT !.rq = q]
  <1>1. [S EXCEPT !.rq[c] = PopHighest(@)] = R
    BY DEF WellFormed, Fields
  <1>2. CASE ActiveLevels(S.rq[c]) = {}
    BY <1>2, QuietSelf DEF try_dequeue_local
  <1>3. CASE ActiveLevels(S.rq[c]) # {}
    <2>1. try_dequeue_local(S, c) = [s |-> R, tid |-> PeekHighest(S.rq[c])]
      BY <1>1, <1>3 DEF try_dequeue_local
    <2>2. S.rq \in Queues /\ S.rq[c] \in Queue
      BY DEF WellFormed, Queues
    <2>3. PopHighest(S.rq[c]) \in Queue /\ PeekHighest(S.rq[c]) \in Runnable
      BY <1>3, <2>2, PopTyped
    <2>4. q \in Queues
      BY ZenonT(60), <2>2, <2>3, QueueReplaced
    <2> HIDE DEF q
    <2>5. Quiet(S, R)
      BY Zenon, <2>4, QuietQueues
    <2> HIDE DEF R
    <2> QED
      BY <2>1, <2>3, <2>5
  <1> QED
    BY <1>2, <1>3

\* A refused candidate goes back to a run queue and to nowhere else.
LEMMA QuietPutBack ==
    ASSUME NEW a, WellFormed(a.s), NEW c
    PROVE  Quiet(a.s, PutBack(a, c))
  <1>1. CASE IsReady(a.s, a.tid)
    <2>1. {a.tid} \subseteq Tids
      BY <1>1 DEF IsReady
    <2> QED
      BY <1>1, <2>1, QuietEnqueue DEF PutBack
  <1>2. CASE ~IsReady(a.s, a.tid)
    BY <1>2, QuietSelf DEF PutBack
  <1> QED
    BY <1>1, <1>2

\* Stealing moves threads between queues and to another home CPU.
LEMMA QuietMigrate ==
    ASSUME NEW S, WellFormed(S), NEW c, NEW moved \in Seq(Runnable), NEW St, NEW Visited,
           \A v \in Visited \ {c} : St[v].rest \in Queue
    PROVE  Quiet(S, Migrate(S, c, moved, St, Visited))
  <1> DEFINE th == [t \in Tids |-> IF t \in Elements(moved)
                                   THEN [S.th[t] EXCEPT !.cpu = c] ELSE S.th[t]]
             q == QueuesAfter(S, c, moved, St, Visited)
             N == [S EXCEPT !.th = th]
             M == [N EXCEPT !.rq = q]
             O == [S EXCEPT !.th = th, !.rq = q]
  <1>1. Migrate(S, c, moved, St, Visited) = O
    BY DEF Migrate, QueuesAfter
  <1>1a. q \in Queues
    <2>1. Levelled(S.th) /\ S.rq \in Queues
      BY ThreadsLevelled DEF WellFormed
    <2> QED
      BY <2>1, MigrateTyped
  <1> HIDE DEF q
  <1>2. QuietTable(S, th)
    BY DEF QuietTable, WellFormed, IsThread, ThreadFields, Exists
  <1>3. Quiet(S, N)
    BY <1>2, QuietThreads
  <1>4. O = M
    BY DEF WellFormed, Fields
  <1> HIDE DEF N, O
  <1>5. Quiet(N, M)
    BY Zenon, <1>1a, <1>3, QuietQueues, QuietFacts
  <1> HIDE DEF M
  <1> QED
    BY <1>1, <1>3, <1>4, <1>5, QuietTrans

\* Work stealing moves threads between queues and yields one that may be dispatched.
LEMMA QuietSteal ==
    ASSUME NEW S, WellFormed(S), NEW c \in Cpus
    PROVE  /\ Quiet(S, try_work_steal(S, c).s)
           /\ try_work_steal(S, c).tid \in Runnable \cup {NoTid}
  <1> DEFINE St == [v \in Cpus \ {c} |-> Stealing(S, v, c)]
             Givers == {v \in Cpus \ {c} : St[v].moved # << >>}
             Giver == FirstOf(Givers)
             E == Migrate(S, c, << >>, St, Cpus \ {c})
             M == Migrate(S, c, St[Giver].moved, St, {v \in Cpus \ {c} : v <= Giver})
  <1>1. try_work_steal(S, c) = IF Givers = {} THEN [s |-> E, tid |-> NoTid]
                               ELSE try_dequeue_local(M, c)
    BY Zenon DEF try_work_steal, StealFrom
  <1>2. \A v \in Cpus \ {c} : St[v].moved \in Seq(Runnable) /\ St[v].rest \in Queue
    BY ThreadsLevelled, StealingTyped DEF WellFormed
  <1>3. CASE Givers = {}
    <2>1. Quiet(S, E)
      <3>1. << >> \in Seq(Runnable)
        OBVIOUS
      <3> HIDE DEF St
      <3> QED
        BY ZenonT(60), <1>2, <3>1, QuietMigrate
    <2> HIDE DEF E, Givers
    <2> QED
      BY <1>1, <1>3, <2>1
  <1>4. CASE Givers # {}
    <2>1. Giver \in Cpus \ {c}
      <3>1. Givers \subseteq Nat
        BY ZenonT(60), ConstantsAssumption
      <3>2. \E v \in Givers : \A u \in Givers : v <= u
        <4> HIDE DEF Givers
        <4> QED
          BY ZenonT(60), <1>4, <3>1, LeastNatural
      <3> QED
        BY <3>2 DEF FirstOf
    <2> HIDE DEF Giver, Givers
    <2>2. Quiet(S, M)
      <3> DEFINE V == {v \in Cpus \ {c} : v <= Giver}
      <3>1. St[Giver].moved \in Seq(Runnable) /\ \A v \in V \ {c} : St[v].rest \in Queue
        BY <1>2, <2>1
      <3> HIDE DEF St, V
      <3> QED
        BY <3>1, QuietMigrate DEF V
    <2> HIDE DEF M, St
    <2>3. try_work_steal(S, c) = try_dequeue_local(M, c)
      BY <1>1, <1>4
    <2> QED
      BY <2>2, <2>3, QuietDequeue, QuietTrans, QuietFacts
  <1> QED
    BY <1>3, <1>4

-----------------------------------------------------------------------------
\* schedule_with_handoff.

\* No other Ring 3 thread could be dispatched on c.
NoFallback(S, c) ==
    \A t \in UserTids : IsReady(S, t) /\ S.th[t].frame = "ring3"
                        => candidate_owned_elsewhere(S, t, c)

\* What schedule_with_handoff establishes.  With require_ring3 the thread it
\* returns has a Ring 3 frame or one the caller accepts, or it is the idle thread
\* and there was nothing else to run.
Scheduled(S, r, o, c, require_ring3) ==
    /\ StacksSafe(r.s, o)
    /\ OnlyCpu(S, r.s, c)
    /\ r.next \in Tids
    /\ r.s.cur[c] = r.next
    /\ require_ring3 =>
          \/ r.s.th[r.next].frame = "ring3"
          \/ accept_non_ring3_dispatch(r)
          \/ r.next = IdleTid[c] /\ NoFallback(r.s, c)

\* A quiet change before the dispatch does not matter.
LEMMA ScheduledAfterQuiet ==
    ASSUME NEW S, NEW R, Quiet(S, R), NEW o, NEW c, NEW r, NEW require_ring3,
           Scheduled(R, r, o, c, require_ring3)
    PROVE  Scheduled(S, r, o, c, require_ring3)
  BY DEF Quiet, Scheduled, OnlyCpu

\* The dispatch of a thread that passed VALIDATE.
LEMMA ScheduledCommit ==
    ASSUME NEW S, NEW o \in [Cpus -> Tids], StacksSafe(S, o), NEW c \in Cpus,
           S.cur[c] = o[c], NEW t \in Tids, Free(S, c, t), NEW require_ring3 \in BOOLEAN,
           FrameAllowed(S, t, require_ring3)
    PROVE  Scheduled(S, Dispatched(Commit(S, c, t), t, FALSE), o, c, require_ring3)
  <1> DEFINE R == Commit(S, c, t)
             r == Dispatched(R, t, FALSE)
  <1>1. r.s = R /\ r.next = t /\ r.handoff = FALSE
    BY DEF Dispatched
  <1>2. Dispatches(S, R, o, c, t)
    BY SafeCommit
  <1> HIDE DEF R, r
  <1>3. Scheduled(S, r, o, c, require_ring3)
    BY <1>1, <1>2 DEF Scheduled, Dispatches, FrameAllowed, accept_non_ring3_dispatch
  <1> QED
    BY Zenon, <1>3 DEF R, r

\* The scan re-homes the thread it found; its frame stays.
LEMMA ScheduledScan ==
    ASSUME NEW S, NEW o \in [Cpus -> Tids], StacksSafe(S, o), NEW c \in Cpus,
           S.cur[c] = o[c], NEW t \in Tids, Exists(S, t), Free(S, c, t),
           NEW require_ring3 \in BOOLEAN, FrameAllowed(S, t, require_ring3)
    PROVE  Scheduled(S, Dispatched(ScanCommit(S, c, t), t, FALSE), o, c, require_ring3)
  <1> DEFINE Q == RemoveFromQueue(S, t)
             k == [Q.th[t] EXCEPT !.cpu = c]
             R == [Q EXCEPT !.th[t] = k]
  <1>1. Quiet(S, Q) /\ Q.th = S.th
    BY QuietRemove DEF StacksSafe, RemoveFromQueue, WellFormed, Fields
  <1> HIDE DEF Q
  <1>2. IsThread(k) /\ k.state = Q.th[t].state /\ k.frame = S.th[t].frame
    BY <1>1, QuietFacts DEF WellFormed, IsThread, ThreadFields
  <1>3. [Q EXCEPT !.th[t].cpu = c] = R
    BY <1>1, QuietFacts DEF WellFormed, Fields
  <1>4. R.th[t] = k
    BY <1>1, QuietFacts DEF WellFormed, Fields
  <1> HIDE DEF k
  <1>5. Quiet(Q, R)
    BY <1>1, <1>2, QuietThread, QuietFacts DEF Exists
  <1>6. ScanCommit(S, c, t) = Commit(R, c, t)
    BY <1>3 DEF ScanCommit, Q
  <1> HIDE DEF R
  <1>7. Quiet(S, R)
    BY <1>1, <1>5, QuietTrans
  <1>8. StacksSafe(R, o) /\ R.cur[c] = o[c] /\ FrameAllowed(R, t, require_ring3)
    BY <1>2, <1>4, <1>7, QuietSafe, QuietFacts DEF FrameAllowed
  <1>8a. Free(R, c, t)
    BY <1>7, QuietFacts DEF Free, candidate_owned_elsewhere
  <1>9. Scheduled(R, Dispatched(Commit(R, c, t), t, FALSE), o, c, require_ring3)
    BY Zenon, <1>8, <1>8a, ScheduledCommit
  <1> QED
    BY Zenon, <1>6, <1>7, <1>9, ScheduledAfterQuiet

\* The idle thread, either as a hand-off or because the scan found nothing.
LEMMA ScheduledIdle ==
    ASSUME NEW S, NEW o \in [Cpus -> Tids], StacksSafe(S, o), NEW c \in Cpus,
           S.cur[c] = o[c], NEW require_ring3 \in BOOLEAN, NEW handoff \in BOOLEAN,
           handoff \/ ScanCandidates(S, c, require_ring3) = {}
    PROVE  Scheduled(S, Dispatched(dispatch_idle(S, c), IdleTid[c], handoff), o, c, require_ring3)
  <1> DEFINE R == dispatch_idle(S, c)
             i == IdleTid[c]
             r == Dispatched(R, i, handoff)
  <1>2. Dispatches(S, R, o, c, i)
    BY SafeIdle
  <1> HIDE DEF R
  <1>1. r.s = R /\ r.next = i /\ r.handoff = handoff
    BY DEF Dispatched
  <1> HIDE DEF r
  <1>3. i \in IdleTids /\ i \in Tids /\ UserTids \subseteq Tids \ IdleTids
    BY ConstantsAssumption DEF IdleTids, Tids
  <1>4. ASSUME ~handoff, require_ring3 PROVE NoFallback(R, c)
    <2> SUFFICES ASSUME NEW t \in UserTids, IsReady(R, t), R.th[t].frame = "ring3"
                 PROVE  candidate_owned_elsewhere(R, t, c)
      BY DEF NoFallback
    <2>1. R.th[t] = S.th[t]
      BY <1>2, <1>3 DEF Dispatches, IsReady
    <2>2. candidate_owned_elsewhere(S, t, c)
      BY <1>3, <1>4, <2>1 DEF ScanCandidates, FrameAllowed, IsReady
    <2> QED
      BY <1>2, <2>2 DEF Dispatches, OnlyCpu, candidate_owned_elsewhere
  <1>5. Scheduled(S, r, o, c, require_ring3)
    BY <1>1, <1>2, <1>3, <1>4 DEF Scheduled, Dispatches, accept_non_ring3_dispatch
  <1> QED
    BY <1>5 DEF R, r

\* The scan of the table, with idle as the last resort, is a dispatch.
LEMMA ScheduledScanOrIdle ==
    ASSUME NEW S, NEW o \in [Cpus -> Tids], StacksSafe(S, o), NEW c \in Cpus,
           S.cur[c] = o[c], NEW require_ring3 \in BOOLEAN
    PROVE  Scheduled(S, ScanOrIdle(S, c, require_ring3), o, c, require_ring3)
  <1> DEFINE C == ScanCandidates(S, c, require_ring3)
             t == ScanPick(S, c, C)
  <1>1. CASE C = {}
    BY Zenon, <1>1, ScheduledIdle DEF ScanOrIdle
  <1>2. CASE C # {}
    <2>1. t \in C
      BY <1>2, ScanPickMember DEF ScanCandidates, StacksSafe
    <2>2. t \in Tids /\ Exists(S, t) /\ FrameAllowed(S, t, require_ring3) /\ Free(S, c, t)
      BY Zenon, <2>1 DEF ScanCandidates, IsReady, Exists, Free
    <2>3. ScanOrIdle(S, c, require_ring3) = Dispatched(ScanCommit(S, c, t), t, FALSE)
      BY <1>2 DEF ScanOrIdle
    <2> HIDE DEF t
    <2> QED
      BY Zenon, <2>2, <2>3, ScheduledScan
  <1> QED
    BY <1>1, <1>2

\* Steps 2 to 4 of schedule_with_handoff.
LEMMA ScheduledStealOrScan ==
    ASSUME NEW S, NEW o \in [Cpus -> Tids], StacksSafe(S, o), NEW c \in Cpus,
           S.cur[c] = o[c], NEW require_ring3 \in BOOLEAN
    PROVE  Scheduled(S, StealOrScan(S, c, require_ring3), o, c, require_ring3)
  <1> DEFINE a == try_work_steal(S, c)
             P == PutBack(a, c)
  <1>1. Quiet(S, a.s) /\ a.tid \in Runnable \cup {NoTid}
    BY QuietSteal DEF StacksSafe
  <1>2. StealOrScan(S, c, require_ring3) =
          IF Dispatchable(a.s, c, a.tid, require_ring3)
          THEN Dispatched(Commit(a.s, c, a.tid), a.tid, FALSE)
          ELSE ScanOrIdle(P, c, require_ring3)
    BY DEF StealOrScan, StolenOrScan
  <1> HIDE DEF a
  <1>3. StacksSafe(a.s, o) /\ a.s.cur[c] = o[c]
    BY <1>1, QuietSafe, QuietFacts
  <1>4. CASE Dispatchable(a.s, c, a.tid, require_ring3)
    <2>1. /\ a.tid \in Tids /\ FrameAllowed(a.s, a.tid, require_ring3)
          /\ Free(a.s, c, a.tid)
      BY <1>1, <1>4, NoTidIsNone DEF Dispatchable, IsReady, Free, Runnable
    <2>2. Scheduled(a.s, Dispatched(Commit(a.s, c, a.tid), a.tid, FALSE), o, c, require_ring3)
      BY Zenon, <1>3, <2>1, ScheduledCommit
    <2> QED
      BY Zenon, <1>1, <1>2, <1>4, <2>2, ScheduledAfterQuiet
  <1>5. CASE ~Dispatchable(a.s, c, a.tid, require_ring3)
    <2>1. Quiet(a.s, P)
      BY <1>3, QuietPutBack DEF StacksSafe
    <2> HIDE DEF P
    <2>2. StacksSafe(P, o) /\ P.cur[c] = o[c] /\ Quiet(S, P)
      BY <1>1, <1>3, <2>1, QuietSafe, QuietTrans, QuietFacts
    <2>3. Scheduled(P, ScanOrIdle(P, c, require_ring3), o, c, require_ring3)
      BY <2>2, ScheduledScanOrIdle
    <2> QED
      BY <1>2, <1>5, <2>2, <2>3, ScheduledAfterQuiet
  <1> QED
    BY <1>4, <1>5

\* schedule_with_handoff: the CPU names an existing thread, the stack it is still on
\* is marked and no stack in use was freed.
LEMMA ScheduleIsSafe ==
    ASSUME NEW S, NEW o \in [Cpus -> Tids], StacksSafe(S, o), NEW c \in Cpus,
           S.cur[c] = o[c], NEW require_ring3 \in BOOLEAN, NEW allow \in BOOLEAN
    PROVE  Scheduled(S, schedule_with_handoff(S, c, require_ring3, allow), o, c, require_ring3)
  <1> DEFINE a == try_dequeue_local(S, c)
             P == PutBack(a, c)
             starved == require_ring3 /\ allow /\ kernel_thread_starved(S, c)
  <1>1. Quiet(S, a.s) /\ a.tid \in Runnable \cup {NoTid}
    BY QuietDequeue DEF StacksSafe
  <1>2. schedule_with_handoff(S, c, require_ring3, allow) =
          IF starved THEN Dispatched(dispatch_idle(S, c), IdleTid[c], TRUE)
          ELSE IF Dispatchable(a.s, c, a.tid, require_ring3)
          THEN Dispatched(Commit(a.s, c, a.tid), a.tid, FALSE)
          ELSE StealOrScan(P, c, require_ring3)
    BY Zenon DEF schedule_with_handoff, LocalOrSteal
  <1> HIDE DEF a, starved
  <1>3. StacksSafe(a.s, o) /\ a.s.cur[c] = o[c]
    BY <1>1, QuietSafe, QuietFacts
  <1>4. CASE starved
    BY Zenon, <1>2, <1>4, ScheduledIdle
  <1>5. CASE ~starved /\ Dispatchable(a.s, c, a.tid, require_ring3)
    <2>1. /\ a.tid \in Tids /\ FrameAllowed(a.s, a.tid, require_ring3)
          /\ Free(a.s, c, a.tid)
      BY <1>1, <1>5, NoTidIsNone DEF Dispatchable, IsReady, Free, Runnable
    <2>2. Scheduled(a.s, Dispatched(Commit(a.s, c, a.tid), a.tid, FALSE), o, c, require_ring3)
      BY Zenon, <1>3, <2>1, ScheduledCommit
    <2> QED
      BY Zenon, <1>1, <1>2, <1>5, <2>2, ScheduledAfterQuiet
  <1>6. CASE ~starved /\ ~Dispatchable(a.s, c, a.tid, require_ring3)
    <2>1. Quiet(a.s, P)
      BY <1>3, QuietPutBack DEF StacksSafe
    <2> HIDE DEF P
    <2>2. StacksSafe(P, o) /\ P.cur[c] = o[c] /\ Quiet(S, P)
      BY ZenonT(60), <1>1, <1>3, <2>1, QuietSafe, QuietTrans, QuietFacts
    <2>3. Scheduled(P, StealOrScan(P, c, require_ring3), o, c, require_ring3)
      BY <2>2, ScheduledStealOrScan
    <2> QED
      BY <1>2, <1>6, <2>2, <2>3, ScheduledAfterQuiet
  <1> QED
    BY <1>4, <1>5, <1>6
=============================================================================
