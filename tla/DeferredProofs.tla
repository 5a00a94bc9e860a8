--------------------------- MODULE DeferredProofs ---------------------------
(***************************************************************************)
(* Proofs about the lock-free rings of Deferred for every capacity: with   *)
(* one producer and one consumer, what is taken from a ring is what was    *)
(* accepted, once and in order.                                            *)
(*                                                                         *)
(* The ring is compared with two counters it does not have: the items      *)
(* taken so far and the items stored so far.  head and tail are these      *)
(* counters modulo CAPACITY, and at most CAPACITY - 1 accepted items are   *)
(* not yet taken.                                                          *)
(***************************************************************************)
EXTENDS Deferred, NaturalFacts

Indices == 0 .. CAPACITY - 1
RingType == [head : Indices, tail : Indices, slots : [Indices -> Int]]

\* Ring q after the items A were accepted, the first k of them stored, and T
\* taken.
Holds(q, A, T, k) ==
    /\ q \in RingType /\ A \in Seq(Int) /\ T \in Seq(Int) /\ k \in Nat
    /\ Len(T) <= k /\ k <= Len(A) /\ Len(A) - Len(T) <= CAPACITY - 1
    /\ q.head = Len(T) % CAPACITY
    /\ q.tail = k % CAPACITY
    /\ \A i \in 1 .. Len(T) : T[i] = A[i]
    /\ \A i \in 1 .. k : i > Len(T) => q.slots[(i - 1) % CAPACITY] = A[i]

\* An interrupt handler is between the loads and the stores of a push into r.
Pushing(r) == held["irq"].op = "push" /\ held["irq"].r = r
Popping(r) == held["bsp"].op = "pop" /\ held["bsp"].r = r
Stored(r) == IF Pushing(r) THEN Len(accepted[r]) - 1 ELSE Len(accepted[r])

\* What a handler between its loads and its stores still knows of the ring.
PushKnows(r) ==
    /\ Len(accepted[r]) > 0
    /\ held["irq"].t = ring[r].tail
    /\ held["irq"].item = accepted[r][Len(accepted[r])]

PopKnows(r) ==
    /\ Len(taken[r]) < Stored(r)
    /\ held["bsp"].h = ring[r].head
    /\ held["bsp"].item = accepted[r][Len(taken[r]) + 1]

RingInv ==
    /\ produced \in Nat
    /\ DOMAIN held = Contexts
    /\ DOMAIN ring = Rings /\ DOMAIN accepted = Rings /\ DOMAIN taken = Rings
    /\ held["irq"].op \in {"idle", "push"} /\ held["irq"].r \in Rings
    /\ held["bsp"].op \in {"idle", "pop"} /\ held["bsp"].r \in Rings
    /\ held["ap"].op = "idle"
    /\ \A r \in Rings : /\ Holds(ring[r], accepted[r], taken[r], Stored(r))
                        /\ Pushing(r) => PushKnows(r)
                        /\ Popping(r) => PopKnows(r)

DeferInv == "ap" \notin deferLoad => RingInv
\* Two counters less than a lap apart are in different slots.
LEMMA Distinct ==
    ASSUME NEW c \in Nat \ {0}, NEW a \in Nat, NEW b \in Nat, a < b, b - a < c
    PROVE  a % c # b % c
  <1> DEFINE x == a % c
             y == b % c
  <1>1. PICK q \in Nat : a = c * q + x
    BY ZenonT(60), DivMod
  <1>2. PICK p \in Nat : b = c * p + y
    BY ZenonT(60), DivMod
  <1>3. x \in 0 .. c - 1 /\ y \in 0 .. c - 1
    BY ZenonT(60), DivMod
  <1> HIDE DEF x, y
  <1>4. SUFFICES ASSUME x = y PROVE FALSE
    BY DEF x, y
  <1> DEFINE d == p - q
  <1>5. b - a = c * d /\ d \in Int
    BY <1>1, <1>2, <1>3, <1>4
  <1> HIDE DEF d
  <1>6. CASE d <= 0
    <2>1. c * d <= 0
      BY <1>5, <1>6
    <2> QED
      BY <1>5, <2>1
  <1>7. CASE d >= 1
    <2>1. c * d >= c
      BY <1>5, <1>7
    <2> QED
      BY <1>5, <2>1
  <1> QED
    BY <1>5, <1>6, <1>7

\* The index after a counter's slot is the slot of the next count.
LEMMA Next1 ==
    ASSUME NEW c \in Nat \ {0}, NEW a \in Nat
    PROVE  ((a % c) + 1) % c = (a + 1) % c
  BY ZenonT(60), ModSum

\* The room test of push: a ring that is not full has room for one more item.
LEMMA AcceptHolds ==
    ASSUME DeferAssumption, NEW q, NEW A, NEW T, NEW x \in Int,
           Holds(q, A, T, Len(A)), (q.tail + 1) % CAPACITY # q.head
    PROVE  Holds(q, Append(A, x), T, Len(A))
  <1> DEFINE m == Len(A)
             n == Len(T)
             c == CAPACITY
  <1>1. c \in Nat \ {0} /\ m \in Nat /\ n \in Nat /\ n <= m /\ m - n <= c - 1
    BY DEF DeferAssumption, Holds
  <1>2. (q.tail + 1) % c = (m + 1) % c /\ q.head = n % c
    BY ZenonT(60), <1>1, Next1 DEF Holds
  <1> DEFINE B == Append(A, x)
  <1>3. B \in Seq(Int) /\ Len(B) = m + 1 /\ \A i \in 1 .. m : B[i] = A[i]
    BY DEF Holds
  <1>4. m + 1 - n <= c - 1
    <2>1. SUFFICES ASSUME m + 1 - n = c PROVE FALSE
      BY <1>1
    <2>2. m + 1 = n + c
      BY <1>1, <2>1
    <2>3. (n + c) % c = n % c
      <3>1. PICK p \in Nat : n = c * p + (n % c)
        BY ZenonT(60), <1>1, DivMod
      <3> DEFINE r == n % c
                 a == n + c
                 s == p + 1
      <3>2. r \in 0 .. c - 1
        BY <1>1, DivMod
      <3> HIDE DEF r
      <3>3. a = c * s + r /\ a \in Nat /\ s \in Int
        BY <1>1, <3>1, <3>2 DEF r
      <3> HIDE DEF a, s
      <3>4. a % c = r
        BY <1>1, <3>2, <3>3, ModUnique
      <3> QED
        BY <3>4 DEF a, r
    <2> QED
      BY <1>2, <2>2, <2>3
  <1> HIDE DEF B
  <1> QED
    BY <1>1, <1>3, <1>4 DEF Holds, B

\* The stores of a push put the newest accepted item behind the others.
LEMMA StoreHolds ==
    ASSUME DeferAssumption, NEW q, NEW A, NEW T, Len(A) > 0,
           Holds(q, A, T, Len(A) - 1)
    PROVE  Holds([q EXCEPT !.slots[q.tail] = A[Len(A)], !.tail = (q.tail + 1) % CAPACITY],
                 A, T, Len(A))
  <1> DEFINE m == Len(A)
             n == Len(T)
             k == m - 1
             c == CAPACITY
             x == A[m]
             u == [q.slots EXCEPT ![q.tail] = x]
             q1 == [q EXCEPT !.slots[q.tail] = x, !.tail = (q.tail + 1) % c]
  <1>1. c \in Nat \ {0} /\ m \in Nat /\ n \in Nat /\ n <= k /\ m - n <= c - 1 /\ k \in Nat
    BY SMTT(60) DEF DeferAssumption, Holds
  <1>2. q.tail = k % c /\ q.tail \in Indices /\ q.slots \in [Indices -> Int]
    BY DEF Holds, RingType
  <1>3. x \in Int
    BY <1>1 DEF Holds
  <1>4. (q.tail + 1) % c = m % c /\ m % c \in Indices
    <2>1. ((k % c) + 1) % c = (k + 1) % c
      BY ZenonT(60), <1>1, Next1
    <2>2. k + 1 = m
      BY <1>1
    <2>3. m % c \in 0 .. c - 1
      BY ZenonT(60), <1>1, DivMod
    <2> QED
      BY <1>2, <2>1, <2>2, <2>3 DEF Indices
  <1>5. u \in [Indices -> Int]
    BY <1>2, <1>3
  <1>6. q1 = [q EXCEPT !.slots = u, !.tail = m % c]
    BY ZenonT(60), <1>4
  <1>7. \A i \in 1 .. m : i > n => u[(i - 1) % c] = A[i]
    <2> TAKE i \in 1 .. m
    <2> HAVE i > n
    <2>1. CASE i = m
      BY <1>2, <2>1
    <2>2. CASE i # m
      <3>1. i - 1 \in Nat /\ i - 1 < k /\ k - (i - 1) < c /\ i \in 1 .. k
        BY <1>1, <2>2
      <3>2. (i - 1) % c # k % c
        BY ZenonT(60), <1>1, <3>1, Distinct
      <3>3. (i - 1) % c \in Indices
        BY <1>1, <3>1 DEF Indices
      <3>4. q.slots[(i - 1) % c] = A[i]
        BY <3>1 DEF Holds
      <3> QED
        BY <1>2, <3>2, <3>3, <3>4
    <2> QED
      BY <2>1, <2>2
  <1> HIDE DEF u, x
  <1>8. q1 \in RingType /\ q1.head = q.head /\ q1.tail = m % c /\ q1.slots = u
    BY ZenonT(60), <1>4, <1>5, <1>6 DEF Holds, RingType
  <1> HIDE DEF q1
  <1>9. Holds(q1, A, T, m)
    BY <1>1, <1>7, <1>8 DEF Holds
  <1> QED
    BY <1>9 DEF q1, x

\* A ring whose head and tail differ holds an item that was not taken, at its head.
LEMMA FrontHolds ==
    ASSUME DeferAssumption, NEW q, NEW A, NEW T, NEW k,
           Holds(q, A, T, k), q.head # q.tail
    PROVE  Len(T) < k /\ q.slots[q.head] = A[Len(T) + 1]
  <1>1. Len(T) \in Nat /\ k \in Nat /\ Len(T) <= k /\ q.head = Len(T) % CAPACITY
        /\ q.tail = k % CAPACITY
    BY DEF Holds
  <1>2. Len(T) # k
    BY <1>1
  <1>3. Len(T) + 1 \in 1 .. k /\ Len(T) + 1 > Len(T) /\ Len(T) + 1 - 1 = Len(T)
    BY <1>1, <1>2
  <1>4. q.slots[(Len(T) + 1 - 1) % CAPACITY] = A[Len(T) + 1]
    BY <1>3 DEF Holds
  <1> QED
    BY <1>1, <1>3, <1>4

\* Storing the head after an item's successor takes that item.
LEMMA TakeHolds ==
    ASSUME DeferAssumption, NEW q, NEW A, NEW T, NEW k,
           Holds(q, A, T, k), Len(T) < k
    PROVE  Holds([q EXCEPT !.head = (q.head + 1) % CAPACITY], A, Append(T, A[Len(T) + 1]), k)
  <1> DEFINE n == Len(T)
             c == CAPACITY
             x == A[n + 1]
             U == Append(T, x)
             q1 == [q EXCEPT !.head = (q.head + 1) % c]
  <1>1. c \in Nat \ {0} /\ Len(A) \in Nat /\ n \in Nat /\ k \in Nat /\ k <= Len(A)
        /\ Len(A) - n <= c - 1
    BY DEF DeferAssumption, Holds
  <1>2. x \in Int
    BY <1>1 DEF Holds
  <1>3. U \in Seq(Int) /\ Len(U) = n + 1 /\ U[n + 1] = x /\ \A i \in 1 .. n : U[i] = T[i]
    BY <1>2 DEF Holds
  <1>4. (q.head + 1) % c = (n + 1) % c /\ (n + 1) % c \in Indices
    <2>1. ((n % c) + 1) % c = (n + 1) % c
      BY ZenonT(60), <1>1, Next1
    <2>2. q.head = n % c
      BY DEF Holds
    <2>3. n + 1 \in Nat
      BY <1>1
    <2>4. (n + 1) % c \in 0 .. c - 1
      BY ZenonT(60), <1>1, <2>3, DivMod
    <2> QED
      BY <2>1, <2>2, <2>4 DEF Indices
  <1>5. q1 \in RingType /\ q1.head = (n + 1) % c /\ q1.tail = q.tail /\ q1.slots = q.slots
    BY ZenonT(60), <1>4 DEF Holds, RingType
  <1> HIDE DEF q1, U
  <1>6. \A i \in 1 .. Len(U) : U[i] = A[i]
    <2>1. \A i \in 1 .. n : U[i] = A[i]
      BY <1>3 DEF Holds
    <2>2. \A i \in 1 .. n + 1 : i = n + 1 \/ i \in 1 .. n
      BY <1>1
    <2> QED
      BY <1>3, <2>1, <2>2
  <1>7. \A i \in 1 .. k : i > Len(U) => q1.slots[(i - 1) % c] = A[i]
    BY <1>1, <1>3, <1>5 DEF Holds
  <1>8. Holds(q1, A, U, k)
    BY SMTT(60), <1>1, <1>3, <1>5, <1>6, <1>7 DEF Holds
  <1> QED
    BY <1>8 DEF q1, U
\* A prefix of a sequence, followed by the rest of it.
LEMMA RestOf ==
    ASSUME NEW A \in Seq(Int), NEW T \in Seq(Int), NEW d \in Nat, Len(T) + d = Len(A),
           \A i \in 1 .. Len(T) : T[i] = A[i],
           NEW D, D = [i \in 1 .. d |-> A[Len(T) + i]]
    PROVE  /\ T \o D \in Seq(Int) /\ Len(T \o D) = Len(A)
           /\ \A i \in 1 .. Len(A) : (T \o D)[i] = A[i]
  <1>1. \A i \in 1 .. d : Len(T) + i \in 1 .. Len(A)
    OBVIOUS
  <1>2. \A i \in 1 .. d : A[Len(T) + i] \in Int
    BY <1>1
  <1>3. D \in Seq(Int)
    BY <1>2
  <1>4. Len(D) = d /\ \A i \in 1 .. d : D[i] = A[Len(T) + i]
    OBVIOUS
  <1>5. T \o D \in Seq(Int) /\ Len(T \o D) = Len(T) + d
    BY <1>3, <1>4, ConcatFacts
  <1>6. \A i \in 1 .. Len(A) : (T \o D)[i] = IF i <= Len(T) THEN T[i] ELSE D[i - Len(T)]
    BY <1>3, <1>4, ConcatFacts
  <1>7. \A i \in 1 .. Len(A) : (T \o D)[i] = A[i]
    <2> TAKE i \in 1 .. Len(A)
    <2>1. CASE i <= Len(T)
      BY <1>6, <2>1
    <2>2. CASE i > Len(T)
      <3>1. i - Len(T) \in 1 .. d /\ Len(T) + (i - Len(T)) = i
        BY <2>2
      <3> QED
        BY <1>4, <1>6, <2>2, <3>1
    <2> QED
      BY <2>1, <2>2
  <1> QED
    BY <1>5, <1>7

\* irp_complete drains a full ring: everything stored is taken, in order.
LEMMA DrainHolds ==
    ASSUME DeferAssumption, NEW q, NEW A, NEW T, Holds(q, A, T, Len(A))
    PROVE  Holds([q EXCEPT !.head = q.tail], A,
                 T \o [i \in 1 .. ((q.tail - q.head) % CAPACITY) |->
                          q.slots[(q.head + i - 1) % CAPACITY]], Len(A))
  <1> DEFINE n == Len(T)
             m == Len(A)
             c == CAPACITY
             d == m - n
             q1 == [q EXCEPT !.head = q.tail]
             D == [i \in 1 .. ((q.tail - q.head) % c) |-> q.slots[(q.head + i - 1) % c]]
             U == T \o D
  <1>1. c \in Nat \ {0} /\ m \in Nat /\ n \in Nat /\ d \in Nat /\ d <= c - 1 /\ n + d = m
    BY DEF DeferAssumption, Holds
  <1>2. q.head = n % c /\ q.tail = m % c /\ q.head \in 0 .. c - 1 /\ q.tail \in 0 .. c - 1
    BY ZenonT(60), <1>1, DivMod DEF Holds
  <1>3. q.tail = (q.head + d) % c
    <2>1. (n + d) % c = ((n % c) + d) % c
      BY ZenonT(60), <1>1, ModSum
    <2> QED
      BY ZenonT(60), <1>1, <1>2, <2>1
  <1>4. q.tail = IF q.head + d < c THEN q.head + d ELSE q.head + d - c
    <2>1. d \in 0 .. c
      BY <1>1
    <2>2. (q.head + d) % c = IF q.head + d < c THEN q.head + d ELSE q.head + d - c
      BY ZenonT(60), <1>1, <1>2, <2>1, Advance
    <2> QED
      BY <1>3, <2>2
  <1>5. (q.tail - q.head) % c = d
    <2> DEFINE x == q.tail - q.head
    <2>1. x = d \/ x = d - c
      <3> DEFINE h == q.head
                 t == q.tail
      <3>1. h \in 0 .. c - 1 /\ t \in 0 .. c - 1 /\ t = IF h + d < c THEN h + d ELSE h + d - c
        BY <1>2, <1>4
      <3> HIDE DEF h, t, d
      <3>2. t - h = d \/ t - h = d - c
        BY <1>1, <3>1
      <3> QED
        BY <3>2 DEF h, t
    <2>2. x \in Int /\ d \in 0 .. c - 1
      BY <1>1, <1>2
    <2> HIDE DEF x, d
    <2>3. x % c = d
      BY <1>1, <2>1, <2>2
    <2> QED
      BY <2>3 DEF x
  <1>6. \A i \in 1 .. d : q.slots[(q.head + i - 1) % c] = A[n + i] /\ A[n + i] \in Int
    <2> TAKE i \in 1 .. d
    <2>1. i - 1 \in Nat /\ n + i \in 1 .. m /\ n + i > n /\ (n + i) - 1 = n + (i - 1)
      BY <1>1
    <2>2. (n + (i - 1)) % c = ((n % c) + (i - 1)) % c
      BY ZenonT(60), <1>1, <2>1, ModSum
    <2>3. q.head + i - 1 = (n % c) + (i - 1)
      BY <1>2, <2>1
    <2>4. q.slots[((n + i) - 1) % c] = A[n + i] /\ A[n + i] \in Int
      BY <2>1 DEF Holds
    <2> QED
      BY <2>1, <2>2, <2>3, <2>4
  <1> HIDE DEF d
  <1>7. D = [i \in 1 .. d |-> A[n + i]]
    BY <1>1, <1>5, <1>6
  <1> HIDE DEF D
  <1>9. U \in Seq(Int) /\ Len(U) = m /\ \A i \in 1 .. m : U[i] = A[i]
    <2>1. /\ A \in Seq(Int) /\ T \in Seq(Int) /\ \A i \in 1 .. n : T[i] = A[i]
      BY DEF Holds
    <2>2. d \in Nat /\ Len(T) + d = Len(A) /\ D = [i \in 1 .. d |-> A[Len(T) + i]]
      BY <1>1, <1>7
    <2>3. /\ T \o D \in Seq(Int) /\ Len(T \o D) = Len(A)
          /\ \A i \in 1 .. Len(A) : (T \o D)[i] = A[i]
      BY <2>1, <2>2, RestOf
    <2> QED
      BY <2>3
  <1> HIDE DEF U
  <1>11. q1 \in RingType /\ q1.head = m % c /\ q1.tail = m % c
    BY ZenonT(60), <1>2 DEF Holds, RingType
  <1> HIDE DEF q1
  <1>12. Holds(q1, A, U, m)
    BY <1>1, <1>9, <1>11 DEF Holds
  <1> QED
    BY <1>12 DEF q1, U, D

\* What the counters say of a ring is the promise to its users.
LEMMA HoldsIsPrefix ==
    ASSUME NEW q, NEW A, NEW T, NEW k, Holds(q, A, T, k)
    PROVE  IsPrefix(T, A)
  <1>1. T \in Seq(Int) /\ A \in Seq(Int) /\ Len(T) <= Len(A)
        /\ \A i \in 1 .. Len(T) : T[i] = A[i]
    BY DEF Holds
  <1> QED
    BY <1>1 DEF IsPrefix

\* Both rings start empty.
LEMMA InitDeferInv == DeferAssumption /\ DeferInit => DeferInv
  <1> SUFFICES ASSUME DeferAssumption, DeferInit PROVE RingInv
    BY DEF DeferInv
  <1> DEFINE q == [head |-> 0, tail |-> 0, slots |-> [i \in 0 .. CAPACITY - 1 |-> 0]]
  <1>1. CAPACITY \in Nat \ {0, 1} /\ 0 % CAPACITY = 0
    BY DEF DeferAssumption
  <1>2. Holds(q, <<>>, <<>>, 0)
    BY <1>1 DEF Holds, RingType, Indices
  <1>3. \A ctx \in Contexts : held[ctx].op = "idle" /\ held[ctx].r \in Rings
    BY DEF DeferInit, Idle, Rings
  <1>4. held["irq"].op = "idle" /\ held["bsp"].op = "idle" /\ held["ap"].op = "idle"
        /\ held["irq"].r \in Rings /\ held["bsp"].r \in Rings
    BY <1>3 DEF Contexts
  <1>5. \A r \in Rings : ring[r] = q /\ accepted[r] = <<>> /\ taken[r] = <<>>
    BY DEF DeferInit
  <1> HIDE DEF q
  <1>6. \A r \in Rings : ~Pushing(r) /\ ~Popping(r) /\ Stored(r) = 0
    BY <1>4, <1>5 DEF Pushing, Popping, Stored
  <1>7. \A r \in Rings : Holds(ring[r], accepted[r], taken[r], Stored(r))
    BY <1>2, <1>5, <1>6
  <1>8. /\ produced \in Nat /\ DOMAIN held = Contexts
        /\ DOMAIN ring = Rings /\ DOMAIN accepted = Rings /\ DOMAIN taken = Rings
    BY DEF DeferInit
  <1> QED
    BY <1>4, <1>6, <1>7, <1>8 DEF RingInv

\* The loads of an interrupt handler's push: the item is accepted only where the
\* ring has room for it.
LEMMA InterruptInv ==
    ASSUME DeferAssumption, RingInv, NEW s \in Rings, Interrupt(s)
    PROVE  RingInv'
  <1> DEFINE x == produced + 1
             full == (ring[s].tail + 1) % CAPACITY = ring[s].head
             new == [op |-> "push", r |-> s, h |-> ring[s].head, t |-> ring[s].tail, item |-> x]
  <1>1. x \in Int /\ x \in Nat /\ produced' = x /\ ring' = ring /\ taken' = taken
    BY DEF RingInv, Interrupt
  <1>2. \A r \in Rings : ~Pushing(r) /\ Stored(r) = Len(accepted[r])
    BY DEF Interrupt, Pushing, Stored
  <1>3. CASE full
    <2>1. held' = held /\ accepted' = accepted
      BY <1>3 DEF Interrupt, push
    <2>2. \A r \in Rings : /\ Pushing(r)' <=> Pushing(r)
                           /\ Popping(r)' <=> Popping(r)
                           /\ Stored(r)' = Stored(r)
      BY <2>1 DEF Pushing, Popping, Stored
    <2> QED
      BY <1>1, <1>2, <2>1, <2>2 DEF RingInv, PopKnows
  <1>4. CASE ~full
    <2>1. held' = [held EXCEPT !["irq"] = new]
      BY <1>4 DEF Interrupt, push
    <2>2. accepted' = [accepted EXCEPT ![s] = Append(@, x)]
      BY <1>4 DEF Interrupt, push
    <2>3. DOMAIN held = Contexts /\ "irq" \in Contexts /\ "bsp" \in Contexts /\ "ap" \in Contexts
      BY DEF RingInv, Contexts
    <2>4. /\ held'["irq"].op = "push" /\ held'["irq"].r = s /\ held'["irq"].t = ring[s].tail
          /\ held'["irq"].item = x
          /\ held'["bsp"] = held["bsp"] /\ held'["ap"] = held["ap"] /\ DOMAIN held' = Contexts
      BY <2>1, <2>3
    <2>5. accepted'[s] = Append(accepted[s], x) /\ DOMAIN accepted' = Rings
          /\ \A r \in Rings : r # s => accepted'[r] = accepted[r]
      BY <2>2 DEF RingInv
    <2>6. accepted[s] \in Seq(Int)
      BY DEF RingInv, Holds
    <2>7. Len(accepted'[s]) = Len(accepted[s]) + 1 /\ accepted'[s][Len(accepted[s]) + 1] = x
          /\ \A i \in 1 .. Len(accepted[s]) : accepted'[s][i] = accepted[s][i]
          /\ Len(accepted[s]) \in Nat
      BY <1>1, <2>5, <2>6
    <2>8. Stored(s)' = Len(accepted[s]) /\ \A r \in Rings : r # s => Stored(r)' = Len(accepted[r])
      BY <2>4, <2>5, <2>7 DEF Stored, Pushing
    <2>9. \A r \in Rings : Popping(r)' <=> Popping(r)
      BY <2>4 DEF Popping
    <2>10. ASSUME NEW r \in Rings
           PROVE  /\ Holds(ring'[r], accepted'[r], taken'[r], Stored(r)')
                  /\ Pushing(r)' => PushKnows(r)'
                  /\ Popping(r)' => PopKnows(r)'
      <3>1. Holds(ring[r], accepted[r], taken[r], Len(accepted[r]))
        BY <1>2 DEF RingInv
      <3>2. Popping(r) => PopKnows(r)
        BY DEF RingInv
      <3>3. CASE r = s
        <4>1. Holds(ring[s], Append(accepted[s], x), taken[s], Len(accepted[s]))
          BY <1>1, <1>4, <3>1, <3>3, AcceptHolds
        <4>2. PushKnows(s)'
          BY <1>1, <2>4, <2>7 DEF PushKnows
        <4>3. Popping(s) => Len(taken[s]) + 1 \in 1 .. Len(accepted[s])
          BY <1>2, <3>1, <3>2, <3>3 DEF PopKnows, Holds
        <4>4. Popping(s) => PopKnows(s)'
          BY <1>1, <1>2, <2>4, <2>7, <2>8, <3>2, <3>3, <4>3 DEF PopKnows
        <4> QED
          BY ZenonT(60), <1>1, <2>5, <2>8, <2>9, <3>3, <4>1, <4>2, <4>4
      <3>4. CASE r # s
        <4>1. ~Pushing(r)'
          BY <2>4, <3>4 DEF Pushing
        <4>2. Popping(r) => PopKnows(r)'
          BY <1>1, <1>2, <2>4, <2>5, <2>8, <3>2, <3>4 DEF PopKnows
        <4> QED
          BY <1>1, <2>5, <2>8, <2>9, <3>1, <3>4, <4>1, <4>2
      <3> QED
        BY <3>3, <3>4
    <2>11. /\ DOMAIN ring' = Rings /\ DOMAIN taken' = Rings
           /\ held["bsp"].op \in {"idle", "pop"} /\ held["bsp"].r \in Rings
           /\ held["ap"].op = "idle"
      BY <1>1 DEF RingInv
    <2> QED
      BY <1>1, <2>4, <2>5, <2>10, <2>11 DEF RingInv
  <1> QED
    BY <1>3, <1>4

\* Nothing else of the invariant depends on what is left unchanged: the part of
\* it about one ring carries over to a step that changes neither that ring nor
\* what the contexts know of it.
LEMMA OtherRing ==
    ASSUME RingInv, NEW r \in Rings,
           ring'[r] = ring[r], accepted'[r] = accepted[r], taken'[r] = taken[r],
           Pushing(r)' <=> Pushing(r), Pushing(r) => held'["irq"] = held["irq"],
           Popping(r)' => Popping(r), Popping(r)' => held'["bsp"] = held["bsp"]
    PROVE  /\ Holds(ring'[r], accepted'[r], taken'[r], Stored(r)')
           /\ Pushing(r)' => PushKnows(r)'
           /\ Popping(r)' => PopKnows(r)'
  <1>1. Stored(r)' = Stored(r)
    BY DEF Stored
  <1>2. /\ Holds(ring[r], accepted[r], taken[r], Stored(r))
        /\ Pushing(r) => PushKnows(r)
        /\ Popping(r) => PopKnows(r)
    BY DEF RingInv
  <1>3. Pushing(r)' => PushKnows(r)'
    BY <1>2 DEF PushKnows
  <1>4. Popping(r)' => PopKnows(r)'
    BY <1>1, <1>2 DEF PopKnows
  <1> QED
    BY <1>1, <1>2, <1>3, <1>4

\* The loads of the drain loop's pop.
LEMMA IdleTaskInv ==
    ASSUME DeferAssumption, RingInv, NEW s \in Rings, idle_task(s)
    PROVE  RingInv'
  <1> DEFINE new == [op |-> "pop", r |-> s, h |-> ring[s].head, t |-> ring[s].tail,
                     item |-> ring[s].slots[ring[s].head]]
  <1>1. /\ held["bsp"].op = "idle" /\ ring[s].head # ring[s].tail
        /\ held' = [held EXCEPT !["bsp"] = new]
        /\ ring' = ring /\ accepted' = accepted /\ taken' = taken /\ produced' = produced
    BY DEF idle_task, pop
  <1>2. DOMAIN held = Contexts /\ "irq" \in Contexts /\ "bsp" \in Contexts /\ "ap" \in Contexts
    BY DEF RingInv, Contexts
  <1>3. /\ held'["bsp"].op = "pop" /\ held'["bsp"].r = s /\ held'["bsp"].h = ring[s].head
        /\ held'["bsp"].item = ring[s].slots[ring[s].head]
        /\ held'["irq"] = held["irq"] /\ held'["ap"] = held["ap"] /\ DOMAIN held' = Contexts
    BY <1>1, <1>2
  <1>4. \A r \in Rings : /\ Pushing(r)' <=> Pushing(r)
                         /\ Popping(r)' <=> r = s
                         /\ Stored(r)' = Stored(r)
    BY <1>1, <1>3 DEF Pushing, Popping, Stored
  <1>5. Holds(ring[s], accepted[s], taken[s], Stored(s))
    BY DEF RingInv
  <1>6. Len(taken[s]) < Stored(s) /\ ring[s].slots[ring[s].head] = accepted[s][Len(taken[s]) + 1]
    <2> DEFINE q == ring[s]
               A == accepted[s]
               T == taken[s]
               k == Stored(s)
    <2>1. Holds(q, A, T, k) /\ q.head # q.tail
      BY Zenon, <1>1, <1>5
    <2> HIDE DEF q, A, T, k
    <2>2. Len(T) < k /\ q.slots[q.head] = A[Len(T) + 1]
      BY <2>1, FrontHolds
    <2> QED
      BY Zenon, <2>2 DEF q, A, T, k
  <1>7. PopKnows(s)'
    BY <1>1, <1>3, <1>4, <1>6 DEF PopKnows
  <1>8. \A r \in Rings : /\ Holds(ring'[r], accepted'[r], taken'[r], Stored(r)')
                         /\ Pushing(r)' => PushKnows(r)'
                         /\ Popping(r)' => PopKnows(r)'
    <2> SUFFICES ASSUME NEW r \in Rings
                 PROVE  /\ Holds(ring'[r], accepted'[r], taken'[r], Stored(r)')
                        /\ Pushing(r)' => PushKnows(r)'
                        /\ Popping(r)' => PopKnows(r)'
      OBVIOUS
    <2>1. Holds(ring[r], accepted[r], taken[r], Stored(r)) /\ (Pushing(r) => PushKnows(r))
      BY Zenon DEF RingInv
    <2>2. Pushing(r)' => PushKnows(r)'
      BY <1>1, <1>3, <1>4, <2>1 DEF PushKnows
    <2>3. Popping(r)' => PopKnows(r)'
      BY <1>4, <1>7
    <2> QED
      BY <1>1, <1>4, <2>1, <2>2, <2>3
  <1>9. /\ produced' \in Nat /\ DOMAIN ring' = Rings /\ DOMAIN accepted' = Rings
        /\ DOMAIN taken' = Rings
        /\ held["irq"].op \in {"idle", "push"} /\ held["irq"].r \in Rings
        /\ held["ap"].op = "idle"
    BY ZenonT(60), <1>1 DEF RingInv
  <1> QED
    BY <1>3, <1>8, <1>9 DEF RingInv

\* The stores of a push: the slot and the tail the handler loaded are still the
\* ring's, however far the drain loop came in between.
LEMMA PushStoreInv ==
    ASSUME DeferAssumption, RingInv, NEW ctx \in Contexts, PushStore(ctx)
    PROVE  RingInv'
  <1>1. ctx = "irq" /\ held["irq"].op = "push"
    BY DEF PushStore, RingInv, Contexts
  <1>2. PICK s \in Rings : s = held["irq"].r
    BY DEF RingInv
  <1> DEFINE A == accepted[s]
             q1 == [ring[s] EXCEPT !.slots[ring[s].tail] = A[Len(A)],
                                   !.tail = (ring[s].tail + 1) % CAPACITY]
  <1>3. Pushing(s) /\ PushKnows(s) /\ Stored(s) = Len(A) - 1
    BY <1>1, <1>2 DEF RingInv, Pushing, Stored
  <1>4. held["irq"].t = ring[s].tail /\ held["irq"].item = A[Len(A)] /\ Len(A) > 0
    BY <1>3 DEF PushKnows
  <1>5. /\ ring' = [ring EXCEPT ![s] = q1]
        /\ held' = [held EXCEPT !["irq"] = Idle]
        /\ accepted' = accepted /\ taken' = taken /\ produced' = produced
    BY <1>1, <1>2, <1>4 DEF PushStore
  <1>6. DOMAIN held = Contexts /\ "irq" \in Contexts /\ "bsp" \in Contexts /\ "ap" \in Contexts
    BY DEF RingInv, Contexts
  <1>7. Idle.op = "idle" /\ Idle.r \in Rings
    BY DEF Idle, Rings
  <1>8. /\ held'["irq"].op = "idle" /\ held'["irq"].r \in Rings
        /\ held'["bsp"] = held["bsp"] /\ held'["ap"] = held["ap"] /\ DOMAIN held' = Contexts
    BY <1>5, <1>6, <1>7
  <1>9. Holds(ring[s], A, taken[s], Len(A) - 1)
    BY <1>3 DEF RingInv
  <1>10. Holds(q1, A, taken[s], Len(A))
    BY ZenonT(60), <1>4, <1>9, StoreHolds
  <1>11. q1.head = ring[s].head
    BY <1>9 DEF Holds, RingType
  <1> HIDE DEF q1
  <1>12. ring'[s] = q1 /\ DOMAIN ring' = Rings /\ \A r \in Rings : r # s => ring'[r] = ring[r]
    BY <1>5 DEF RingInv
  <1>13. \A r \in Rings : ~Pushing(r)' /\ (Popping(r)' <=> Popping(r)) /\ Stored(r)' = Len(accepted[r])
    BY <1>5, <1>8 DEF Pushing, Popping, Stored
  <1>14. Popping(s)' => PopKnows(s)'
    <2>1. Popping(s) => PopKnows(s)
      BY DEF RingInv
    <2>2. Len(taken[s]) \in Nat /\ Len(A) \in Nat
      BY SMTT(60), <1>9 DEF Holds
    <2>3. Len(taken[s]) < Len(A) - 1 => Len(taken[s]) < Len(A)
      BY <2>2
    <2> QED
      BY <1>3, <1>5, <1>8, <1>11, <1>12, <1>13, <2>1, <2>3 DEF PopKnows
  <1>15. ASSUME NEW r \in Rings
         PROVE  /\ Holds(ring'[r], accepted'[r], taken'[r], Stored(r)')
                /\ Pushing(r)' => PushKnows(r)'
                /\ Popping(r)' => PopKnows(r)'
    <2>1. CASE r = s
      BY <1>5, <1>10, <1>12, <1>13, <1>14, <2>1
    <2>2. CASE r # s
      <3>1. ~Pushing(r)
        BY <1>2, <2>2 DEF Pushing
      <3> QED
        BY <1>5, <1>8, <1>12, <1>13, <2>2, <3>1, OtherRing
    <2> QED
      BY <2>1, <2>2
  <1>16. /\ produced' \in Nat /\ DOMAIN accepted' = Rings /\ DOMAIN taken' = Rings
         /\ held["bsp"].op \in {"idle", "pop"} /\ held["bsp"].r \in Rings
         /\ held["ap"].op = "idle"
    BY <1>5 DEF RingInv
  <1> QED
    BY <1>8, <1>12, <1>15, <1>16 DEF RingInv

\* The store of a pop: the head is still the one the drain loop loaded, and what
\* it copied is the oldest item not taken.
LEMMA PopStoreInv ==
    ASSUME DeferAssumption, RingInv, NEW ctx \in Contexts, PopStore(ctx)
    PROVE  RingInv'
  <1>1. ctx = "bsp" /\ held["bsp"].op = "pop"
    BY DEF PopStore, RingInv, Contexts
  <1>2. PICK s \in Rings : s = held["bsp"].r
    BY DEF RingInv
  <1> DEFINE A == accepted[s]
             T == taken[s]
             x == A[Len(T) + 1]
             q1 == [ring[s] EXCEPT !.head = (ring[s].head + 1) % CAPACITY]
  <1>3. Popping(s) /\ PopKnows(s)
    BY <1>1, <1>2 DEF RingInv, Popping
  <1>4. held["bsp"].h = ring[s].head /\ held["bsp"].item = x /\ Len(T) < Stored(s)
    BY <1>3 DEF PopKnows
  <1>5. /\ ring' = [ring EXCEPT ![s] = q1]
        /\ held' = [held EXCEPT !["bsp"] = Idle]
        /\ taken' = [taken EXCEPT ![s] = Append(T, x)]
        /\ accepted' = accepted /\ produced' = produced
    BY <1>1, <1>2, <1>4 DEF PopStore, RingInv
  <1>6. DOMAIN held = Contexts /\ "irq" \in Contexts /\ "bsp" \in Contexts /\ "ap" \in Contexts
    BY DEF RingInv, Contexts
  <1>7. Idle.op = "idle" /\ Idle.r \in Rings
    BY DEF Idle, Rings
  <1>8. /\ held'["bsp"].op = "idle" /\ held'["bsp"].r \in Rings
        /\ held'["irq"] = held["irq"] /\ held'["ap"] = held["ap"] /\ DOMAIN held' = Contexts
    BY <1>5, <1>6, <1>7
  <1>9. Holds(ring[s], A, T, Stored(s))
    BY DEF RingInv
  <1>10. Holds(q1, A, Append(T, x), Stored(s))
    BY <1>4, <1>9, TakeHolds
  <1>11. q1.tail = ring[s].tail
    BY <1>9 DEF Holds, RingType
  <1> HIDE DEF q1
  <1>12. ring'[s] = q1 /\ DOMAIN ring' = Rings /\ \A r \in Rings : r # s => ring'[r] = ring[r]
    BY <1>5 DEF RingInv
  <1>13. /\ taken'[s] = Append(T, x) /\ DOMAIN taken' = Rings
         /\ \A r \in Rings : r # s => taken'[r] = taken[r]
    BY <1>5 DEF RingInv
  <1>14. \A r \in Rings : ~Popping(r)' /\ (Pushing(r)' <=> Pushing(r)) /\ Stored(r)' = Stored(r)
    BY <1>5, <1>8 DEF Pushing, Popping, Stored
  <1>15. Pushing(s)' => PushKnows(s)'
    <2>1. Pushing(s) => PushKnows(s)
      BY Zenon DEF RingInv
    <2>2. (Pushing(s)' <=> Pushing(s)) /\ held'["irq"] = held["irq"] /\ accepted' = accepted
          /\ ring'[s].tail = ring[s].tail
      BY Zenon, <1>5, <1>8, <1>11, <1>12, <1>14
    <2> QED
      BY <2>1, <2>2 DEF PushKnows
  <1>16. ASSUME NEW r \in Rings
         PROVE  /\ Holds(ring'[r], accepted'[r], taken'[r], Stored(r)')
                /\ Pushing(r)' => PushKnows(r)'
                /\ Popping(r)' => PopKnows(r)'
    <2>1. CASE r = s
      BY <1>5, <1>10, <1>12, <1>13, <1>14, <1>15, <2>1
    <2>2. CASE r # s
      BY <1>5, <1>8, <1>12, <1>13, <1>14, <2>2, OtherRing
    <2> QED
      BY <2>1, <2>2
  <1>17. /\ produced' \in Nat /\ DOMAIN accepted' = Rings
         /\ held["irq"].op \in {"idle", "push"} /\ held["irq"].r \in Rings
         /\ held["ap"].op = "idle"
    BY <1>5 DEF RingInv
  <1> QED
    BY ZenonT(60), <1>8, <1>12, <1>13, <1>16, <1>17 DEF RingInv

\* With two slots or more, the next index is another one.
LEMMA Moves ==
    ASSUME NEW c \in Nat \ {0, 1}, NEW t \in 0 .. c - 1
    PROVE  (t + 1) % c # t
  <1>1. (t + 1) % c = IF t + 1 < c THEN t + 1 ELSE t + 1 - c
    <2>1. c \in Nat \ {0} /\ 1 \in 0 .. c
      OBVIOUS
    <2> QED
      BY ZenonT(60), <2>1, Advance
  <1> QED
    BY <1>1

\* irp_complete finds both rings at rest; a full one is drained into the work
\* that is done, then the callback is stored behind what is left.
LEMMA CompleteInv ==
    ASSUME DeferAssumption, RingInv, NEW id \in 1 .. MaxIrps, irp_complete(id)
    PROVE  RingInv'
  <1> DEFINE s == "high"
             q == ring[s]
             A == accepted[s]
             T == taken[s]
             x == -id
             full == (q.tail + 1) % CAPACITY = q.head
             queued == [i \in 1 .. ((q.tail - q.head) % CAPACITY) |->
                          q.slots[(q.head + i - 1) % CAPACITY]]
             q0 == IF full THEN [q EXCEPT !.head = q.tail] ELSE q
             U == IF full THEN T \o queued ELSE T
             B == Append(A, x)
             q1 == [slots |-> [q.slots EXCEPT ![q.tail] = x],
                    head |-> IF full THEN q.tail ELSE q.head,
                    tail |-> (q.tail + 1) % CAPACITY]
  <1>1. s \in Rings /\ x \in Int /\ CAPACITY \in Nat \ {0, 1}
    BY DEF Rings, DeferAssumption
  <1>2. \A r \in Rings : ~Pushing(r) /\ ~Popping(r) /\ Stored(r) = Len(accepted[r])
    BY DEF irp_complete, Contexts, Pushing, Popping, Stored
  <1>3. /\ ring' = [ring EXCEPT ![s] = q1] /\ taken' = [taken EXCEPT ![s] = U]
        /\ accepted' = [accepted EXCEPT ![s] = B] /\ held' = held /\ produced' = produced
    BY DEF irp_complete, RingInv
  <1>4. Holds(q, A, T, Len(A))
    BY ZenonT(60), <1>1, <1>2 DEF RingInv
  <1>5. q.head \in Indices /\ q.tail \in Indices /\ q.slots \in [Indices -> Int] /\ q \in RingType
        /\ Len(A) \in Nat /\ Len(T) \in Nat /\ A \in Seq(Int)
    <2>1. q \in RingType /\ A \in Seq(Int) /\ T \in Seq(Int)
      BY Zenon, <1>4 DEF Holds
    <2> HIDE DEF q, A, T
    <2> QED
      BY <2>1 DEF RingType
  <1>6. Holds(q0, A, U, Len(A)) /\ (q0.tail + 1) % CAPACITY # q0.head
    <2>1. CASE full
      <3>1. Holds(q0, A, U, Len(A))
        BY ZenonT(60), <1>4, <2>1, DrainHolds
      <3>2. q0.tail = q.tail /\ q0.head = q.tail
        BY <1>5, <2>1 DEF RingType
      <3>3. (q.tail + 1) % CAPACITY # q.tail
        BY ZenonT(60), <1>1, <1>5, Moves DEF Indices
      <3> QED
        BY <3>1, <3>2, <3>3
    <2>2. CASE ~full
      BY <1>4, <2>2
    <2> QED
      BY <2>1, <2>2
  <1>7. q0.tail = q.tail /\ q0.slots = q.slots /\ q0.head = (IF full THEN q.tail ELSE q.head)
    BY <1>5 DEF RingType
  <1>8. q0 \in RingType
    BY ZenonT(60), <1>6 DEF Holds
  <1>9. /\ q1.slots = [q0.slots EXCEPT ![q0.tail] = x] /\ q1.head = q0.head
        /\ q1.tail = (q0.tail + 1) % CAPACITY
        /\ q1 = [slots |-> q1.slots, head |-> q1.head, tail |-> q1.tail]
    <2> HIDE DEF q0, x, full
    <2> QED
      BY <1>7
  <1> HIDE DEF q0, U, full, q1
  <1>10. Holds(q0, B, U, Len(A))
    BY <1>1, <1>6, AcceptHolds
  <1>11. Len(B) = Len(A) + 1 /\ B[Len(B)] = x /\ Len(B) - 1 = Len(A) /\ Len(B) > 0
    BY <1>1, <1>5
  <1> HIDE DEF B, A, x
  <1> DEFINE q2 == [q0 EXCEPT !.slots[q0.tail] = B[Len(B)], !.tail = (q0.tail + 1) % CAPACITY]
  <1>12. Holds(q2, B, U, Len(B))
    BY ZenonT(60), <1>10, <1>11, StoreHolds
  <1>13. Holds(q1, B, U, Len(B))
    <2>1. /\ q2.slots = [q0.slots EXCEPT ![q0.tail] = x] /\ q2.head = q0.head
          /\ q2.tail = (q0.tail + 1) % CAPACITY
      BY <1>8, <1>11 DEF RingType
    <2>2. q2 \in RingType
      BY <1>12 DEF Holds
    <2> HIDE DEF q2
    <2>3. q1.slots = q2.slots /\ q1.head = q2.head /\ q1.tail = q2.tail
      BY <1>9, <2>1
    <2>4. q1 \in RingType
      BY <1>9, <2>2, <2>3 DEF RingType
    <2> QED
      BY <1>12, <2>3, <2>4 DEF Holds
  <1>14. /\ DOMAIN ring' = Rings /\ DOMAIN accepted' = Rings /\ DOMAIN taken' = Rings
         /\ ring'[s] = q1 /\ accepted'[s] = B /\ taken'[s] = U
         /\ \A r \in Rings : r # s => /\ ring'[r] = ring[r] /\ taken'[r] = taken[r]
                                      /\ accepted'[r] = accepted[r]
    BY <1>1, <1>3 DEF RingInv
  <1>15. \A r \in Rings : ~Pushing(r)' /\ ~Popping(r)' /\ Stored(r)' = Len(accepted'[r])
    BY <1>2, <1>3 DEF Pushing, Popping, Stored
  <1>16. \A r \in Rings : Holds(ring'[r], accepted'[r], taken'[r], Stored(r)')
    BY ZenonT(60), <1>2, <1>13, <1>14, <1>15 DEF RingInv
  <1> QED
    BY ZenonT(60), <1>3, <1>14, <1>15, <1>16 DEF RingInv

\* Every step keeps the invariant; what IRPs and APCs do leaves the rings alone.
LEMMA NextDeferInv ==
    ASSUME DeferAssumption, DeferInv, [DeferNext]_deferVars
    PROVE  DeferInv'
  <1>1. deferLoad' = deferLoad
    BY DEF DeferNext, deferVars
  <1> SUFFICES ASSUME "ap" \notin deferLoad PROVE RingInv'
    BY <1>1 DEF DeferInv
  <1>2. RingInv
    BY DEF DeferInv
  <1>3. CASE UNCHANGED ringVars
    <2>1. ring' = ring /\ held' = held /\ accepted' = accepted /\ taken' = taken
          /\ produced' = produced
      BY <1>3 DEF ringVars
    <2>2. \A r \in Rings : /\ Pushing(r)' <=> Pushing(r)
                           /\ Popping(r)' <=> Popping(r)
      BY <2>1 DEF Pushing, Popping
    <2>3. \A r \in Rings : /\ Holds(ring'[r], accepted'[r], taken'[r], Stored(r)')
                           /\ Pushing(r)' => PushKnows(r)'
                           /\ Popping(r)' => PopKnows(r)'
      BY <1>2, <2>1, <2>2, OtherRing
    <2> QED
      BY <1>2, <2>1, <2>3 DEF RingInv
  <1>4. CASE RingStep
    <2>1. ASSUME NEW r \in Rings, Interrupt(r) PROVE RingInv'
      BY <1>2, <2>1, InterruptInv
    <2>2. ASSUME NEW r \in Rings, idle_task(r) PROVE RingInv'
      BY <1>2, <2>2, IdleTaskInv
    <2>3. ASSUME NEW ctx \in Contexts, PushStore(ctx) PROVE RingInv'
      BY <1>2, <2>3, PushStoreInv
    <2>4. ASSUME NEW ctx \in Contexts, PopStore(ctx) PROVE RingInv'
      BY <1>2, <2>4, PopStoreInv
    <2> QED
      BY <1>4, <2>1, <2>2, <2>3, <2>4 DEF RingStep, clear_need_resched
  <1>5. ASSUME NEW id \in 1 .. MaxIrps, irp_complete(id) PROVE RingInv'
    BY <1>2, <1>5, CompleteInv
  <1>6. CASE UNCHANGED deferVars
    BY <1>3, <1>6 DEF deferVars, ringVars
  <1> QED
    BY <1>3, <1>4, <1>5, <1>6 DEF DeferNext

\* The rings of the DPCs, the work queue and the event bus hand out what they
\* accepted, once and in order, for every capacity and however the loads and the
\* stores of the interrupt handlers fall between those of idle_task, as long as
\* no application processor drains the same ring.
THEOREM RingsAreFifo == ASSUME DeferAssumption PROVE DeferSpec => []RingsFifo
  <1>1. DeferInv => RingsFifo
    BY HoldsIsPrefix DEF DeferInv, RingInv, RingsFifo, Fifo
  <1> QED
    BY <1>1, InitDeferInv, NextDeferInv, PTL DEF DeferSpec
-----------------------------------------------------------------------------
\* The callbacks of the IRPs.

Ids == Nat \ {0}
PoolSlots == 0 .. IRP_POOL_SIZE - 1
IrpSlot == [in_use : BOOLEAN, id : Nat, st : {"Pending", "Completed"}, cb : BOOLEAN]
Pools == [PoolSlots -> IrpSlot]
ThreadStates == {"user", "ready", "checked", "blocking", "readied", "blocked"}

\* The values that dpc_dispatch_pending works on.
Works == [pool : Pools, uq : Seq(Int), thr : ThreadStates, dropped : SUBSET Int]

LiveIn(p, id) == p[Slot(id)].in_use /\ p[Slot(id)].id = id

Once(s, e) == \A i, j \in 1 .. Len(s) : s[i] = e /\ s[j] = e => i = j
Apart(s, e, t, f) == \A i \in 1 .. Len(s), j \in 1 .. Len(t) : ~(s[i] = e /\ t[j] = f)
Absent(s, e) == \A i \in 1 .. Len(s) : s[i] # e

\* The callback of id is in none of the queues u (APCs), r (those that ran) and
\* a (work) and was not dropped; or it is in one place only.
Nowhere(u, r, a, d, id) == Absent(u, id) /\ Absent(r, id) /\ Absent(a, -id) /\ id \notin d
OnePlace(u, r, a, d, id) ==
    /\ Once(u, id) /\ Once(r, id) /\ Once(a, -id)
    /\ Apart(u, id, r, id) /\ Apart(u, id, a, -id) /\ Apart(r, id, a, -id)
    /\ id \in d => Absent(u, id) /\ Absent(r, id) /\ Absent(a, -id)

\* An IRP in use is pending as long as it has its callback.
PoolSound(p, n) ==
    \A k \in PoolSlots : p[k].in_use =>
        p[k].id \in 1 .. n - 1 /\ (p[k].st = "Pending" <=> p[k].cb = TRUE)

Placed(p, u, r, a, d, n, id) ==
    /\ OnePlace(u, r, a, d, id)
    /\ id >= n \/ (LiveIn(p, id) /\ p[Slot(id)].cb) => Nowhere(u, r, a, d, id)

\* The entries of the DPC queue from k on are IRPs that still have their callbacks.
Waiting(p, k) ==
    \A i \in 1 .. Len(dpcq) : i >= k => LiveIn(p, dpcq[i]) /\ p[Slot(dpcq[i])].cb

IrpTypes ==
    /\ pool \in Pools /\ next_irp \in Ids /\ produced \in Nat
    /\ uq \in Seq(Int) /\ ran \in Seq(Int) /\ dropped \in SUBSET Int /\ thr \in ThreadStates
    /\ DOMAIN accepted = Rings /\ accepted["high"] \in Seq(Int)
    /\ dpcq \in Seq(Ids) /\ \A i, j \in 1 .. Len(dpcq) : dpcq[i] = dpcq[j] => i = j

AllPlaced == \A id \in Ids : Placed(pool, uq, ran, accepted["high"], dropped, next_irp, id)

IrpInv == IrpTypes /\ PoolSound(pool, next_irp) /\ AllPlaced /\ Waiting(pool, 1)

\* Every id has a slot.
LEMMA SlotOf == ASSUME DeferAssumption, NEW id \in Nat PROVE Slot(id) \in PoolSlots
  BY DEF DeferAssumption, Slot, PoolSlots

\* An appended element is the last one.
LEMMA AppendFacts ==
    ASSUME NEW S, NEW s \in Seq(S), NEW x \in S
    PROVE  /\ Append(s, x) \in Seq(S) /\ Len(Append(s, x)) = Len(s) + 1 /\ Len(s) \in Nat
           /\ Append(s, x)[Len(s) + 1] = x /\ \A i \in 1 .. Len(s) : Append(s, x)[i] = s[i]
  OBVIOUS

LEMMA AppendOther ==
    ASSUME NEW s \in Seq(Int), NEW x \in Int, NEW e \in Int, x # e
    PROVE  /\ Once(s, e) => Once(Append(s, x), e)
           /\ Absent(s, e) => Absent(Append(s, x), e)
           /\ \A t, f : /\ Apart(s, e, t, f) => Apart(Append(s, x), e, t, f)
                        /\ Apart(t, f, s, e) => Apart(t, f, Append(s, x), e)
  <1> DEFINE u == Append(s, x)
  <1>1. /\ Len(u) = Len(s) + 1 /\ Len(s) \in Nat
        /\ u[Len(s) + 1] = x /\ \A i \in 1 .. Len(s) : u[i] = s[i]
    BY AppendFacts
  <1> HIDE DEF u
  <1>2. \A i \in 1 .. Len(u) : u[i] = e => i \in 1 .. Len(s) /\ s[i] = e
    BY <1>1
  <1>3. Once(s, e) => Once(u, e)
    BY Zenon, <1>2 DEF Once
  <1>4. Absent(s, e) => Absent(u, e)
    BY Zenon, <1>2 DEF Absent
  <1>5. ASSUME NEW t, NEW f
        PROVE  /\ Apart(s, e, t, f) => Apart(u, e, t, f)
               /\ Apart(t, f, s, e) => Apart(t, f, u, e)
    BY Zenon, <1>2 DEF Apart
  <1> QED
    BY Zenon, <1>3, <1>4, <1>5 DEF u

LEMMA AppendOwn ==
    ASSUME NEW s \in Seq(Int), NEW e \in Int, Absent(s, e)
    PROVE  Once(Append(s, e), e)
  <1> DEFINE u == Append(s, e)
  <1>1. /\ Len(u) = Len(s) + 1 /\ Len(s) \in Nat /\ \A i \in 1 .. Len(s) : u[i] = s[i]
    BY AppendFacts
  <1> HIDE DEF u
  <1>2. \A i \in 1 .. Len(u) : u[i] = e => i = Len(u)
    BY <1>1 DEF Absent
  <1> QED
    BY Zenon, <1>2 DEF Once, u

\* An absent element is apart from everything and at most once.
LEMMA AbsentFacts ==
    ASSUME NEW s, NEW e, Absent(s, e), NEW t, NEW f
    PROVE  Once(s, e) /\ Apart(s, e, t, f) /\ Apart(t, f, s, e)
  BY Zenon DEF Absent, Once, Apart

\* A callback that is nowhere can go to one place.
LEMMA Enters ==
    ASSUME NEW u \in Seq(Int), NEW r \in Seq(Int), NEW a \in Seq(Int), NEW d, NEW id \in Ids,
           Nowhere(u, r, a, d, id)
    PROVE  /\ OnePlace(Append(u, id), r, a, d, id)
           /\ OnePlace(u, r, Append(a, -id), d, id)
           /\ OnePlace(u, r, a, d \cup {id}, id)
  <1>1. Absent(u, id) /\ Absent(r, id) /\ Absent(a, -id) /\ id \notin d
    BY Zenon DEF Nowhere
  <1>2. id \in Int /\ -id \in Int
    BY DEF Ids
  <1>3. Once(Append(u, id), id) /\ Once(Append(a, -id), -id)
    BY <1>1, <1>2, AppendOwn
  <1>4. /\ Once(u, id) /\ Once(r, id) /\ Once(a, -id)
        /\ \A t, f : /\ Apart(u, id, t, f) /\ Apart(r, id, t, f) /\ Apart(a, -id, t, f)
                     /\ Apart(t, f, u, id) /\ Apart(t, f, r, id) /\ Apart(t, f, a, -id)
    BY Zenon, <1>1, AbsentFacts
  <1> QED
    BY Zenon, <1>1, <1>3, <1>4 DEF OnePlace

\* What happens to the callback of x concerns no other callback.
LEMMA OthersStay ==
    ASSUME NEW u \in Seq(Int), NEW r \in Seq(Int), NEW a \in Seq(Int), NEW d, NEW id \in Ids,
           NEW x \in Int, x # id
    PROVE  /\ OnePlace(u, r, a, d, id) => OnePlace(Append(u, x), r, a, d, id)
           /\ OnePlace(u, r, a, d, id) => OnePlace(u, r, a, d \cup {x}, id)
           /\ Nowhere(u, r, a, d, id) => Nowhere(Append(u, x), r, a, d, id)
           /\ Nowhere(u, r, a, d, id) => Nowhere(u, r, a, d \cup {x}, id)
  <1>1. id \in Int
    BY DEF Ids
  <1>2. /\ Once(u, id) => Once(Append(u, x), id)
        /\ Absent(u, id) => Absent(Append(u, x), id)
        /\ \A t, f : Apart(u, id, t, f) => Apart(Append(u, x), id, t, f)
    BY Zenon, <1>1, AppendOther
  <1>3. OnePlace(u, r, a, d, id) => OnePlace(Append(u, x), r, a, d, id)
    BY Zenon, <1>2 DEF OnePlace
  <1>4. OnePlace(u, r, a, d, id) => OnePlace(u, r, a, d \cup {x}, id)
    BY Zenon DEF OnePlace
  <1> QED
    BY Zenon, <1>2, <1>3, <1>4 DEF Nowhere

LEMMA OtherWork ==
    ASSUME NEW u, NEW r, NEW a \in Seq(Int), NEW d, NEW id \in Ids, NEW x \in Int, x # -id
    PROVE  /\ OnePlace(u, r, a, d, id) => OnePlace(u, r, Append(a, x), d, id)
           /\ Nowhere(u, r, a, d, id) => Nowhere(u, r, Append(a, x), d, id)
  <1>1. -id \in Int
    BY DEF Ids
  <1>2. /\ Once(a, -id) => Once(Append(a, x), -id)
        /\ Absent(a, -id) => Absent(Append(a, x), -id)
        /\ \A t, f : Apart(t, f, a, -id) => Apart(t, f, Append(a, x), -id)
    BY Zenon, <1>1, AppendOther
  <1>3. OnePlace(u, r, a, d, id) => OnePlace(u, r, Append(a, x), d, id)
    BY Zenon, <1>2 DEF OnePlace
  <1> QED
    BY Zenon, <1>2, <1>3 DEF Nowhere

\* Running the APC at the front moves its callback from one queue to the other.
LEMMA Runs ==
    ASSUME NEW u \in Seq(Int), u # << >>, NEW r \in Seq(Int), NEW a, NEW d, NEW id \in Ids,
           NEW v, v = IF Head(u) = 0 THEN r ELSE Append(r, Head(u))
    PROVE  /\ v \in Seq(Int)
           /\ OnePlace(u, r, a, d, id) => OnePlace(Tail(u), v, a, d, id)
           /\ Nowhere(u, r, a, d, id) => Nowhere(Tail(u), v, a, d, id)
  <1> DEFINE t == Tail(u)
  <1>1. /\ Len(u) \in Nat \ {0} /\ Head(u) = u[1] /\ u[1] \in Int
        /\ t \in Seq(Int) /\ Len(t) = Len(u) - 1 /\ \A i \in 1 .. Len(t) : t[i] = u[i + 1]
    BY TailFacts
  <1> HIDE DEF t
  <1>2. id \in Int /\ id # 0
    BY DEF Ids
  <1>3. \A i \in 1 .. Len(t) : t[i] = id => u[i + 1] = id
    BY Zenon, <1>1
  <1>4. /\ Once(u, id) => Once(t, id)
        /\ Absent(u, id) => Absent(t, id)
        /\ \A s, f : Apart(u, id, s, f) => Apart(t, id, s, f)
    <2>1. \A i \in 1 .. Len(t) : i + 1 \in 1 .. Len(u)
      BY <1>1
    <2>2. Once(u, id) => Once(t, id)
      <3> SUFFICES ASSUME Once(u, id), NEW i \in 1 .. Len(t), NEW j \in 1 .. Len(t),
                          t[i] = id, t[j] = id
                   PROVE  i = j
        BY Zenon DEF Once
      <3>1. i + 1 = j + 1
        BY Zenon, <1>3, <2>1 DEF Once
      <3> QED
        BY <3>1
    <2>3. Absent(u, id) => Absent(t, id)
      BY Zenon, <1>3, <2>1 DEF Absent
    <2>4. \A s, f : Apart(u, id, s, f) => Apart(t, id, s, f)
      BY Zenon, <1>3, <2>1 DEF Apart
    <2> QED
      BY Zenon, <2>2, <2>3, <2>4
  <1>5. CASE u[1] # id
    <2>1. CASE u[1] = 0
      <3>1. v = r
        BY Zenon, <1>1, <2>1
      <3>2. OnePlace(u, r, a, d, id) => OnePlace(t, r, a, d, id)
        BY Zenon, <1>4 DEF OnePlace
      <3>3. Nowhere(u, r, a, d, id) => Nowhere(t, r, a, d, id)
        BY Zenon, <1>4 DEF Nowhere
      <3> QED
        BY Zenon, <3>1, <3>2, <3>3 DEF t
    <2>2. CASE u[1] # 0
      <3>1. v = Append(r, u[1])
        BY Zenon, <1>1, <2>2
      <3> DEFINE w == Append(r, u[1])
      <3>2. w \in Seq(Int)
        BY <1>1, AppendFacts
      <3>3. /\ Once(r, id) => Once(w, id)
            /\ Absent(r, id) => Absent(w, id)
            /\ \A s, f : /\ Apart(r, id, s, f) => Apart(w, id, s, f)
                         /\ Apart(s, f, r, id) => Apart(s, f, w, id)
        BY Zenon, <1>1, <1>2, <1>5, AppendOther
      <3> HIDE DEF w
      <3>4. OnePlace(u, r, a, d, id) => OnePlace(t, w, a, d, id)
        BY Zenon, <1>4, <3>3 DEF OnePlace
      <3>5. Nowhere(u, r, a, d, id) => Nowhere(t, w, a, d, id)
        BY Zenon, <1>4, <3>3 DEF Nowhere
      <3> QED
        BY Zenon, <3>1, <3>2, <3>4, <3>5 DEF t, w
    <2> QED
      BY Zenon, <2>1, <2>2
  <1>6. CASE u[1] = id
    <2>1. v = Append(r, id)
      BY Zenon, <1>1, <1>2, <1>6
    <2>2. v \in Seq(Int)
      BY <1>2, <2>1, AppendFacts
    <2>3. ~Absent(u, id) /\ 1 \in 1 .. Len(u)
      BY <1>1, <1>6 DEF Absent
    <2>4. ASSUME OnePlace(u, r, a, d, id)
          PROVE  OnePlace(t, v, a, d, id)
      <3>1. Absent(r, id) /\ Absent(a, -id) /\ id \notin d
        BY Zenon, <1>6, <2>3, <2>4 DEF OnePlace, Apart, Absent
      <3>2. Absent(t, id)
        <4>1. \A i \in 1 .. Len(t) : i + 1 # 1 /\ i + 1 \in 1 .. Len(u)
          BY <1>1
        <4> QED
          BY Zenon, <1>3, <1>6, <2>3, <2>4, <4>1 DEF OnePlace, Once, Absent
      <3>3. Once(v, id)
        BY <1>2, <2>1, <3>1, AppendOwn
      <3>4. /\ Once(t, id) /\ Once(a, -id)
            /\ \A s, f : Apart(t, id, s, f) /\ Apart(s, f, a, -id)
        BY Zenon, <3>1, <3>2, AbsentFacts
      <3> QED
        BY Zenon, <3>1, <3>3, <3>4 DEF OnePlace
    <2> QED
      BY Zenon, <2>2, <2>3, <2>4 DEF Nowhere, t
  <1> QED
    BY Zenon, <1>5, <1>6

\* What the completion of one IRP does.
LEMMA CompleteOne ==
    ASSUME DeferAssumption, NEW w \in Works, NEW id \in Ids,
           NEW v, v = irp_complete_with_apc(w, id)
    PROVE  /\ v \in Works
           /\ ~v.pool[Slot(id)].in_use
           /\ \A k \in PoolSlots : k # Slot(id) => v.pool[k] = w.pool[k]
           /\ LiveIn(w.pool, id) =>
                \/ v.uq = Append(w.uq, id) /\ v.dropped = w.dropped
                \/ v.uq = w.uq /\ v.dropped = w.dropped \cup {id}
  <1> DEFINE k == Slot(id)
             slot == w.pool[k]
             live == slot.in_use /\ slot.id = id
             done == IF live THEN [slot EXCEPT !.st = "Completed", !.cb = FALSE] ELSE slot
             e == IF live THEN id ELSE 0
             q == queue_user_apc(w, e)
             p == Freed([w.pool EXCEPT ![k] = done], id)
  <1>1. k \in PoolSlots
    BY SlotOf DEF Ids
  <1>2. w.pool \in Pools /\ w.uq \in Seq(Int) /\ w.thr \in ThreadStates /\ w.dropped \in SUBSET Int
    BY DEF Works
  <1>3. slot \in IrpSlot
    BY <1>1, <1>2 DEF Pools
  <1>4. e \in Int /\ (live => e = id) /\ id \in Int
    BY DEF Ids
  <1>5. done \in IrpSlot
    <2> HIDE DEF slot
    <2> QED
      BY Zenon, <1>3 DEF IrpSlot
  <1>6. /\ p \in Pools /\ ~p[k].in_use
        /\ \A j \in PoolSlots : j # k => p[j] = w.pool[j]
    <2> DEFINE p1 == [w.pool EXCEPT ![k] = done]
    <2> HIDE DEF done
    <2>1. p1 \in Pools /\ p1[k] = done /\ \A j \in PoolSlots : j # k => p1[j] = w.pool[j]
      BY <1>1, <1>2, <1>5 DEF Pools
    <2> HIDE DEF p1
    <2> DEFINE s2 == [done EXCEPT !.in_use = FALSE]
    <2>2. s2 \in IrpSlot /\ s2.in_use = FALSE
      BY Zenon, <1>5 DEF IrpSlot
    <2>3. p = [p1 EXCEPT ![k] = s2]
      <3>1. p = [p1 EXCEPT ![k] = [p1[k] EXCEPT !.in_use = FALSE]]
        BY DEF Freed, p1
      <3> QED
        BY Zenon, <2>1, <3>1
    <2> HIDE DEF s2, p
    <2> QED
      BY <1>1, <2>1, <2>2, <2>3 DEF Pools
  <1> HIDE DEF p, done
  <1>7. q \in Works /\ q.pool = w.pool
        /\ (live => \/ q.uq = Append(w.uq, id) /\ q.dropped = w.dropped
                    \/ q.uq = w.uq /\ q.dropped = w.dropped \cup {id})
    <2> HIDE DEF live, e
    <2>1. CASE Len(w.uq) >= MAX_USER_APC
      <3> DEFINE d == IF e = 0 THEN w.dropped ELSE w.dropped \cup {e}
      <3>1. q = [w EXCEPT !.dropped = d]
        BY <2>1 DEF queue_user_apc
      <3>2. d \in SUBSET Int /\ (live => d = w.dropped \cup {id})
        BY <1>2, <1>4 DEF Ids
      <3> HIDE DEF q, d
      <3>3. q \in Works /\ q.pool = w.pool /\ q.uq = w.uq /\ q.dropped = d
        BY Zenon, <3>1, <3>2 DEF Works
      <3> QED
        BY Zenon, <3>2, <3>3
    <2>2. CASE ~(Len(w.uq) >= MAX_USER_APC)
      <3> DEFINE u == Append(w.uq, e)
                 t == CASE w.thr = "blocked" -> "ready"
                        [] w.thr = "blocking" -> "readied"
                        [] OTHER -> w.thr
      <3>1. q = [w EXCEPT !.uq = u, !.thr = t]
        BY <2>2 DEF queue_user_apc
      <3>2. u \in Seq(Int)
        BY <1>2, <1>4, AppendFacts
      <3>3. t \in ThreadStates
        BY <1>2 DEF ThreadStates
      <3>4. live => u = Append(w.uq, id)
        BY Zenon, <1>4
      <3> HIDE DEF q, u, t
      <3>5. q \in Works /\ q.pool = w.pool /\ q.uq = u /\ q.dropped = w.dropped
        BY Zenon, <3>1, <3>2, <3>3 DEF Works
      <3> QED
        BY Zenon, <3>4, <3>5
    <2> QED
      BY Zenon, <2>1, <2>2
  <1>8. v = [q EXCEPT !.pool = p]
    <2>1. v = [q EXCEPT !.pool = Freed([q.pool EXCEPT ![k] = done], id)]
      BY DEF irp_complete_with_apc, done
    <2> QED
      BY Zenon, <1>7, <2>1 DEF p
  <1> HIDE DEF q
  <1>9. v \in Works /\ v.pool = p /\ v.uq = q.uq /\ v.dropped = q.dropped
    BY Zenon, <1>6, <1>7, <1>8 DEF Works
  <1> QED
    BY Zenon, <1>6, <1>7, <1>9 DEF LiveIn

\* dpc_dispatch_pending after k entries.
FoldInv(w, k) ==
    /\ w \in Works
    /\ PoolSound(w.pool, next_irp)
    /\ \A id \in Ids : Placed(w.pool, w.uq, ran, accepted["high"], w.dropped, next_irp, id)
    /\ Waiting(w.pool, k + 1)

\* An entry takes the callback of its own IRP and frees no other.
LEMMA FoldStep ==
    ASSUME DeferAssumption, IrpTypes, NEW w, NEW k \in 1 .. Len(dpcq), FoldInv(w, k - 1),
           NEW v, v = irp_complete_with_apc(w, dpcq[k])
    PROVE  FoldInv(v, k)
  <1> DEFINE x == dpcq[k]
             a == accepted["high"]
  <1>1. x \in Ids /\ k \in Nat /\ Len(dpcq) \in Nat
    BY DEF IrpTypes
  <1>2. /\ ran \in Seq(Int) /\ a \in Seq(Int) /\ next_irp \in Ids
        /\ \A i, j \in 1 .. Len(dpcq) : dpcq[i] = dpcq[j] => i = j
        /\ \A i \in 1 .. Len(dpcq) : dpcq[i] \in Ids
    BY DEF IrpTypes
  <1> HIDE DEF x, a
  <1>3. /\ w \in Works /\ PoolSound(w.pool, next_irp) /\ Waiting(w.pool, (k - 1) + 1)
        /\ \A id \in Ids : Placed(w.pool, w.uq, ran, a, w.dropped, next_irp, id)
    BY Zenon DEF FoldInv, a
  <1>4. w.pool \in Pools /\ w.uq \in Seq(Int)
    BY <1>3 DEF Works
  <1>5. \A i \in 1 .. Len(dpcq) : i >= k => LiveIn(w.pool, dpcq[i]) /\ w.pool[Slot(dpcq[i])].cb
    <2>1. (k - 1) + 1 = k
      BY <1>1
    <2> QED
      BY Zenon, <1>3, <2>1 DEF Waiting
  <1>6. LiveIn(w.pool, x) /\ w.pool[Slot(x)].cb
    <2>1. k >= k
      BY <1>1
    <2> QED
      BY Zenon, <1>5, <2>1 DEF x
  <1>7. \A id \in Ids : Slot(id) \in PoolSlots
    BY SlotOf DEF Ids
  <1>8. ~(x >= next_irp)
    <2>1. x \in 1 .. next_irp - 1
      BY Zenon, <1>1, <1>3, <1>6, <1>7 DEF PoolSound, LiveIn
    <2> QED
      BY <1>2, <2>1 DEF Ids
  <1>9. /\ v \in Works
        /\ ~v.pool[Slot(x)].in_use
        /\ \A j \in PoolSlots : j # Slot(x) => v.pool[j] = w.pool[j]
        /\ \/ v.uq = Append(w.uq, x) /\ v.dropped = w.dropped
           \/ v.uq = w.uq /\ v.dropped = w.dropped \cup {x}
    <2>1. v = irp_complete_with_apc(w, x)
      BY DEF x
    <2> QED
      BY <1>1, <1>3, <1>6, <2>1, CompleteOne
  <1>10. PoolSound(v.pool, next_irp)
    BY Zenon, <1>3, <1>9 DEF PoolSound
  <1>11. ~LiveIn(v.pool, x)
    BY Zenon, <1>9 DEF LiveIn
  <1>12. \A id \in Ids : LiveIn(v.pool, id) => v.pool[Slot(id)] = w.pool[Slot(id)]
    BY Zenon, <1>7, <1>9 DEF LiveIn
  <1>13. \A id \in Ids : LiveIn(v.pool, id) => LiveIn(w.pool, id)
    BY Zenon, <1>12 DEF LiveIn
  <1>14. ASSUME NEW id \in Ids
         PROVE  Placed(v.pool, v.uq, ran, a, v.dropped, next_irp, id)
    <2>1. CASE id = x
      <3>1. Nowhere(w.uq, ran, a, w.dropped, x)
        BY Zenon, <1>1, <1>3, <1>6 DEF Placed
      <3>2. /\ OnePlace(Append(w.uq, x), ran, a, w.dropped, x)
            /\ OnePlace(w.uq, ran, a, w.dropped \cup {x}, x)
        BY <1>1, <1>2, <1>4, <3>1, Enters
      <3>3. OnePlace(v.uq, ran, a, v.dropped, x)
        BY Zenon, <1>9, <3>2
      <3> QED
        BY Zenon, <1>8, <1>11, <2>1, <3>3 DEF Placed
    <2>2. CASE id # x
      <3>1. x \in Int /\ x # id
        BY <1>1, <2>2 DEF Ids
      <3>2. /\ OnePlace(w.uq, ran, a, w.dropped, id) => OnePlace(v.uq, ran, a, v.dropped, id)
            /\ Nowhere(w.uq, ran, a, w.dropped, id) => Nowhere(v.uq, ran, a, v.dropped, id)
        <4>1. /\ OnePlace(w.uq, ran, a, w.dropped, id) =>
                    OnePlace(Append(w.uq, x), ran, a, w.dropped, id)
              /\ OnePlace(w.uq, ran, a, w.dropped, id) =>
                    OnePlace(w.uq, ran, a, w.dropped \cup {x}, id)
              /\ Nowhere(w.uq, ran, a, w.dropped, id) =>
                    Nowhere(Append(w.uq, x), ran, a, w.dropped, id)
              /\ Nowhere(w.uq, ran, a, w.dropped, id) =>
                    Nowhere(w.uq, ran, a, w.dropped \cup {x}, id)
          BY Zenon, <1>2, <1>4, <3>1, OthersStay
        <4> QED
          BY Zenon, <1>9, <4>1
      <3>3. Placed(w.pool, w.uq, ran, a, w.dropped, next_irp, id)
        BY Zenon, <1>3
      <3>4. LiveIn(v.pool, id) /\ v.pool[Slot(id)].cb => LiveIn(w.pool, id) /\ w.pool[Slot(id)].cb
        BY Zenon, <1>12, <1>13
      <3> QED
        BY Zenon, <3>2, <3>3, <3>4 DEF Placed
    <2> QED
      BY Zenon, <2>1, <2>2
  <1>15. Waiting(v.pool, k + 1)
    <2> SUFFICES ASSUME NEW i \in 1 .. Len(dpcq), i >= k + 1
                 PROVE  LiveIn(v.pool, dpcq[i]) /\ v.pool[Slot(dpcq[i])].cb
      BY Zenon DEF Waiting
    <2>1. i >= k /\ i # k
      BY <1>1
    <2>2. LiveIn(w.pool, dpcq[i]) /\ w.pool[Slot(dpcq[i])].cb /\ dpcq[i] \in Ids
      BY Zenon, <1>2, <1>5, <2>1
    <2>3. dpcq[i] # x
      BY Zenon, <1>2, <2>1 DEF x
    <2>4. Slot(dpcq[i]) # Slot(x)
      BY Zenon, <1>6, <2>2, <2>3 DEF LiveIn
    <2>5. v.pool[Slot(dpcq[i])] = w.pool[Slot(dpcq[i])]
      BY Zenon, <1>7, <1>9, <2>2, <2>4
    <2> QED
      BY Zenon, <2>2, <2>5 DEF LiveIn
  <1> QED
    BY Zenon, <1>9, <1>10, <1>14, <1>15 DEF FoldInv, a

\* All entries.
LEMMA Drains ==
    ASSUME DeferAssumption, IrpTypes, NEW s, FoldInv(s, 0)
    PROVE  FoldInv(Completed(s, dpcq), Len(dpcq))
  <1> DEFINE n == Len(dpcq)
             Op(w, i) == irp_complete_with_apc(w, dpcq[i])
             Eq(f) == f = [i \in 0 .. n |-> IF i = 0 THEN s ELSE Op(f[i - 1], i)]
             t == [y \in Works \X (1 .. n) |-> Op(y[1], y[2])]
             f0 == CHOOSE f : Eq(f)
  <1>1. n \in Nat /\ \A i \in 1 .. n : dpcq[i] \in Ids
    BY DEF IrpTypes
  <1>2. \A w \in Works, i \in 1 .. n : Op(w, i) \in Works
    BY Zenon, <1>1, CompleteOne
  <1>3. Completed(s, dpcq) = f0[n]
    BY DEF Completed
  <1> HIDE DEF n, Op
  <1>4. s \in Works
    BY Zenon DEF FoldInv
  <1>5. /\ t \in StepFcns(Works, n)
        /\ \A w \in Works, i \in 1 .. n : t[<<w, i>>] = Op(w, i)
    BY <1>2 DEF StepFcns
  <1> HIDE DEF t
  <1>6. PICK g : Iterates(g, Works, s, n, t)
    BY <1>1, <1>4, <1>5, Recursion
  <1>7. g \in [0 .. n -> Works] /\ g[0] = s /\ \A i \in 1 .. n : g[i] = Op(g[i - 1], i)
    <2>1. \A i \in 1 .. n : i - 1 \in 0 .. n
      BY <1>1
    <2> QED
      BY ZenonT(60), <1>5, <1>6, <2>1 DEF Iterates
  <1>8. Eq(g)
    <2>1. \A i \in 0 .. n : i # 0 => i \in 1 .. n
      BY <1>1
    <2>2. \A i \in 0 .. n : g[i] = IF i = 0 THEN s ELSE Op(g[i - 1], i)
      BY Zenon, <1>7, <2>1
    <2> QED
      BY <1>7, <2>2
  <1>9. Eq(f0)
    <2> HIDE DEF Eq
    <2> QED
      BY <1>8
  <1> HIDE DEF f0
  <1>10. f0[0] = s /\ \A i \in 1 .. n : f0[i] = Op(f0[i - 1], i)
    <2>1. \A i \in 0 .. n : f0[i] = IF i = 0 THEN s ELSE Op(f0[i - 1], i)
      BY Zenon, <1>9
    <2>2. 0 \in 0 .. n /\ \A i \in 1 .. n : i \in 0 .. n /\ i # 0
      BY <1>1
    <2> QED
      BY Zenon, <2>1, <2>2
  <1> HIDE DEF Eq
  <1> DEFINE Bad == {i \in 0 .. n : ~FoldInv(f0[i], i)}
  <1>11. ASSUME Bad # {} PROVE FALSE
    <2>1. Bad \subseteq Nat
      OBVIOUS
    <2>2. PICK i \in Bad : \A j \in Bad : i <= j
      <3> HIDE DEF Bad
      <3> QED
        BY Zenon, <1>11, <2>1, LeastNatural
    <2>3. i \in 0 .. n /\ ~FoldInv(f0[i], i)
      BY Zenon, <2>2
    <2>4. i # 0
      BY Zenon, <1>10, <2>3
    <2>5. i \in 1 .. n /\ i - 1 \in 0 .. n /\ ~(i <= i - 1)
      BY <1>1, <2>3, <2>4
    <2>6. FoldInv(f0[i - 1], i - 1)
      BY Zenon, <2>2, <2>5
    <2>7. FoldInv(f0[i], i)
      BY Zenon, <1>10, <2>5, <2>6, FoldStep DEF Op, n
    <2> QED
      BY Zenon, <2>3, <2>7
  <1>12. n \in 0 .. n
    BY <1>1
  <1> QED
    BY Zenon, <1>3, <1>11, <1>12 DEF n

\* Initially there is no IRP and nothing is queued.
LEMMA IrpInit == ASSUME DeferAssumption, DeferInit PROVE IrpInv
  <1>1. /\ pool = [i \in PoolSlots |-> FreeSlot] /\ next_irp = 1 /\ produced = 0
        /\ dpcq = << >> /\ uq = << >> /\ ran = << >> /\ thr = "user" /\ dropped = {}
        /\ accepted = [r \in Rings |-> << >>]
    BY Zenon DEF DeferInit, PoolSlots
  <1>2. FreeSlot \in IrpSlot /\ FreeSlot.in_use = FALSE
    BY DEF FreeSlot, IrpSlot
  <1>3. pool \in Pools /\ \A k \in PoolSlots : pool[k].in_use = FALSE
    BY <1>1, <1>2 DEF Pools
  <1>4. DOMAIN accepted = Rings /\ accepted["high"] = << >>
    BY <1>1 DEF Rings
  <1>5. IrpTypes
    <2>1. 1 \in Ids /\ 0 \in Nat /\ << >> \in Seq(Int) /\ << >> \in Seq(Ids)
      BY DEF Ids
    <2>2. \A i, j \in 1 .. Len(dpcq) : dpcq[i] = dpcq[j] => i = j
      BY <1>1
    <2>3. thr \in ThreadStates /\ dropped \in SUBSET Int
      BY <1>1 DEF ThreadStates
    <2> QED
      BY Zenon, <1>1, <1>3, <1>4, <2>1, <2>2, <2>3 DEF IrpTypes
  <1>6. PoolSound(pool, next_irp)
    BY Zenon, <1>3 DEF PoolSound
  <1>7. \A e : Absent(<< >>, e)
    BY DEF Absent
  <1>8. ASSUME NEW id \in Ids
        PROVE  Placed(pool, uq, ran, accepted["high"], dropped, next_irp, id)
    <2>1. Nowhere(uq, ran, accepted["high"], dropped, id)
      BY Zenon, <1>1, <1>4, <1>7 DEF Nowhere
    <2>2. OnePlace(uq, ran, accepted["high"], dropped, id)
      BY Zenon, <2>1, AbsentFacts DEF OnePlace, Nowhere
    <2> QED
      BY Zenon, <2>1, <2>2 DEF Placed
  <1>9. Waiting(pool, 1)
    BY <1>1 DEF Waiting
  <1> QED
    BY Zenon, <1>5, <1>6, <1>8, <1>9 DEF IrpInv, AllPlaced

\* A step that leaves the pool and the DPC queue alone.
LEMMA QueueStep ==
    ASSUME IrpInv, IrpTypes', UNCHANGED <<pool, next_irp, dpcq>>,
           \A id \in Ids :
              /\ OnePlace(uq, ran, accepted["high"], dropped, id) =>
                    OnePlace(uq', ran', accepted'["high"], dropped', id)
              /\ Nowhere(uq, ran, accepted["high"], dropped, id) =>
                    Nowhere(uq', ran', accepted'["high"], dropped', id)
    PROVE  IrpInv'
  <1>1. pool' = pool /\ next_irp' = next_irp /\ dpcq' = dpcq
    OBVIOUS
  <1>2. PoolSound(pool, next_irp) /\ Waiting(pool, 1)
    BY Zenon DEF IrpInv
  <1>3. PoolSound(pool', next_irp')
    BY Zenon, <1>1, <1>2
  <1>4. Waiting(pool, 1)'
    BY Zenon, <1>1, <1>2 DEF Waiting, LiveIn, Slot
  <1>5. \A id \in Ids : Placed(pool, uq, ran, accepted["high"], dropped, next_irp, id)
    BY Zenon DEF IrpInv, AllPlaced
  <1>6. \A id \in Ids : Placed(pool', uq', ran', accepted'["high"], dropped', next_irp', id)
    BY Zenon, <1>1, <1>5 DEF Placed
  <1> QED
    BY Zenon, <1>3, <1>4, <1>6 DEF IrpInv, AllPlaced

\* The rings: an item of the interrupt handlers is no callback.
LEMMA RingKeepsIrps == ASSUME IrpInv, RingStep, UNCHANGED irpVars PROVE IrpInv'
  <1>1. /\ pool' = pool /\ next_irp' = next_irp /\ dpcq' = dpcq /\ uq' = uq
        /\ thr' = thr /\ ran' = ran /\ dropped' = dropped
    BY Zenon DEF irpVars
  <1>2. IrpTypes
    BY Zenon DEF IrpInv
  <1>3. CASE accepted' = accepted /\ produced' = produced
    <2>1. IrpTypes'
      BY <1>1, <1>2, <1>3 DEF IrpTypes
    <2> QED
      BY Zenon, <1>1, <1>3, <2>1, QueueStep
  <1>4. ASSUME NEW r \in Rings, produced' = produced + 1,
               \/ accepted' = accepted
               \/ accepted' = [accepted EXCEPT ![r] = Append(@, produced + 1)]
        PROVE  IrpInv'
    <2> DEFINE a == accepted["high"]
               b == accepted'["high"]
               x == produced + 1
    <2>1. x \in Nat \ {0} /\ x \in Int /\ a \in Seq(Int) /\ DOMAIN accepted = Rings
      BY <1>2 DEF IrpTypes
    <2> HIDE DEF x
    <2>2. DOMAIN accepted' = Rings /\ (b = a \/ b = Append(a, x))
      BY <1>4, <2>1 DEF x, Rings
    <2>3. b \in Seq(Int)
      <3>1. Append(a, x) \in Seq(Int)
        BY <2>1, AppendFacts
      <3> QED
        BY Zenon, <2>1, <2>2, <3>1
    <2>4. IrpTypes'
      <3>1. produced' \in Nat
        BY <1>4, <2>1 DEF x
      <3> QED
        BY Zenon, <1>1, <1>2, <2>2, <2>3, <3>1 DEF IrpTypes
    <2> HIDE DEF a, b
    <2>5. ASSUME NEW id \in Ids
          PROVE  /\ OnePlace(uq, ran, a, dropped, id) => OnePlace(uq, ran, b, dropped, id)
                 /\ Nowhere(uq, ran, a, dropped, id) => Nowhere(uq, ran, b, dropped, id)
      <3>1. x # -id
        BY <2>1 DEF Ids
      <3>2. /\ OnePlace(uq, ran, a, dropped, id) => OnePlace(uq, ran, Append(a, x), dropped, id)
            /\ Nowhere(uq, ran, a, dropped, id) => Nowhere(uq, ran, Append(a, x), dropped, id)
        BY Zenon, <2>1, <3>1, OtherWork
      <3> QED
        BY Zenon, <2>2, <3>2
    <2> QED
      BY Zenon, <1>1, <2>4, <2>5, QueueStep DEF a, b
  <1>5. ASSUME NEW r \in Rings, Interrupt(r) PROVE IrpInv'
    BY Zenon, <1>4, <1>5 DEF Interrupt, push
  <1>6. ASSUME NEW r \in Rings, idle_task(r) \/ clear_need_resched(r) PROVE IrpInv'
    BY Zenon, <1>3, <1>6 DEF idle_task, clear_need_resched, pop
  <1>7. ASSUME NEW ctx \in Contexts, PushStore(ctx) \/ PopStore(ctx) PROVE IrpInv'
    BY Zenon, <1>3, <1>7 DEF PushStore, PopStore
  <1> QED
    BY Zenon, <1>5, <1>6, <1>7 DEF RingStep

\* The thread: its APCs, and the shutdown notice, which is no callback.
LEMMA ThreadKeepsIrps ==
    ASSUME IrpInv, UNCHANGED ringVars,
           \/ queue_kernel_apc \/ request_process_shutdown_notification
           \/ apc_dispatch_on_syscall_return
           \/ handler_wait_alertable \/ block_current_alertable \/ RecheckAndSwitch
    PROVE  IrpInv'
  <1>1. IrpTypes /\ accepted' = accepted /\ produced' = produced
    BY Zenon DEF IrpInv, ringVars
  <1>2. /\ pool' = pool /\ next_irp' = next_irp /\ dpcq' = dpcq /\ dropped' = dropped
    BY Zenon DEF queue_kernel_apc, request_process_shutdown_notification,
        apc_dispatch_on_syscall_return, handler_wait_alertable, block_current_alertable,
        RecheckAndSwitch
  <1>3. uq \in Seq(Int) /\ ran \in Seq(Int) /\ thr \in ThreadStates
    BY Zenon, <1>1 DEF IrpTypes
  <1>4. thr' \in ThreadStates
    <2>1. CASE request_process_shutdown_notification
      <3> DEFINE s == [uq |-> uq, thr |-> thr, dropped |-> dropped]
      <3>1. thr' = queue_user_apc(s, 0).thr
        BY <2>1 DEF request_process_shutdown_notification
      <3>2. queue_user_apc(s, 0).thr \in ThreadStates
        BY <1>3 DEF queue_user_apc, ThreadStates
      <3> QED
        BY Zenon, <3>1, <3>2
    <2>2. CASE ~request_process_shutdown_notification
      <3>1. thr' \in {thr, "user", "checked", "blocking", "blocked"}
        BY Zenon, <2>2 DEF queue_kernel_apc, apc_dispatch_on_syscall_return,
            handler_wait_alertable, block_current_alertable, RecheckAndSwitch
      <3> QED
        BY <1>3, <3>1 DEF ThreadStates
    <2> QED
      BY Zenon, <2>1, <2>2
  <1>5. ASSUME uq' \in Seq(Int), ran' \in Seq(Int),
               \A id \in Ids :
                  /\ OnePlace(uq, ran, accepted["high"], dropped, id) =>
                        OnePlace(uq', ran', accepted["high"], dropped, id)
                  /\ Nowhere(uq, ran, accepted["high"], dropped, id) =>
                        Nowhere(uq', ran', accepted["high"], dropped, id)
        PROVE  IrpInv'
    <2>1. IrpTypes'
      BY Zenon, <1>1, <1>2, <1>4, <1>5 DEF IrpTypes
    <2> QED
      BY Zenon, <1>1, <1>2, <1>5, <2>1, QueueStep
  <1>6. CASE uq' = uq /\ ran' = ran
    BY Zenon, <1>3, <1>5, <1>6
  <1>7. CASE uq # << >> /\ dispatch_one_user_apc
    <2> DEFINE u == Tail(uq)
               v == IF Head(uq) = 0 THEN ran ELSE Append(ran, Head(uq))
    <2>1. uq' = u /\ ran' = v
      BY Zenon, <1>7 DEF dispatch_one_user_apc
    <2>2. u \in Seq(Int)
      BY <1>3, <1>7, TailFacts
    <2> HIDE DEF u
    <2>3. ASSUME NEW id \in Ids
          PROVE  /\ v \in Seq(Int)
                 /\ OnePlace(uq, ran, accepted["high"], dropped, id) =>
                        OnePlace(u, v, accepted["high"], dropped, id)
                 /\ Nowhere(uq, ran, accepted["high"], dropped, id) =>
                        Nowhere(u, v, accepted["high"], dropped, id)
      BY Zenon, <1>3, <1>7, Runs DEF u
    <2>4. 1 \in Ids
      BY DEF Ids
    <2> HIDE DEF v
    <2> QED
      BY Zenon, <1>5, <2>1, <2>2, <2>3, <2>4
  <1>8. CASE request_process_shutdown_notification
    <2> DEFINE s == [uq |-> uq, thr |-> thr, dropped |-> dropped]
    <2>1. uq' = queue_user_apc(s, 0).uq /\ ran' = ran
      BY <1>8 DEF request_process_shutdown_notification
    <2>2. queue_user_apc(s, 0).uq = uq \/ queue_user_apc(s, 0).uq = Append(uq, 0)
      BY DEF queue_user_apc
    <2>3. uq' = uq \/ uq' = Append(uq, 0)
      BY Zenon, <2>1, <2>2
    <2>4. CASE uq' = Append(uq, 0)
      <3>1. uq' \in Seq(Int)
        BY <1>3, <2>4, AppendFacts
      <3>2. ASSUME NEW id \in Ids
            PROVE  /\ OnePlace(uq, ran, accepted["high"], dropped, id) =>
                        OnePlace(Append(uq, 0), ran, accepted["high"], dropped, id)
                   /\ Nowhere(uq, ran, accepted["high"], dropped, id) =>
                        Nowhere(Append(uq, 0), ran, accepted["high"], dropped, id)
        <4>1. 0 \in Int /\ 0 # id /\ accepted["high"] \in Seq(Int)
          BY <1>1 DEF Ids, IrpTypes
        <4> QED
          BY Zenon, <1>3, <4>1, OthersStay
      <3> QED
        BY Zenon, <1>3, <1>5, <2>1, <2>4, <3>1, <3>2
    <2> QED
      BY Zenon, <1>6, <2>1, <2>3, <2>4
  <1> QED
    BY Zenon, <1>6, <1>7, <1>8 DEF queue_kernel_apc, apc_dispatch_on_syscall_return,
        handler_wait_alertable, block_current_alertable, RecheckAndSwitch

\* A step that changes one slot of the pool, whose IRP has lost its callback or
\* is new, and leaves the queues alone.
LEMMA SlotStep ==
    ASSUME DeferAssumption, IrpInv, NEW k \in PoolSlots, NEW new \in IrpSlot,
           pool' = [pool EXCEPT ![k] = new], next_irp' \in {next_irp, next_irp + 1},
           UNCHANGED <<produced, accepted, dpcq, uq, thr, ran, dropped>>,
           ~(pool[k].in_use /\ pool[k].cb),
           new.in_use => /\ new.id = next_irp /\ Slot(next_irp) = k /\ next_irp' = next_irp + 1
                         /\ new.st = "Pending" /\ new.cb = TRUE
    PROVE  IrpInv'
  <1>1. /\ IrpTypes /\ PoolSound(pool, next_irp) /\ Waiting(pool, 1)
        /\ \A id \in Ids : Placed(pool, uq, ran, accepted["high"], dropped, next_irp, id)
    BY Zenon DEF IrpInv, AllPlaced
  <1>2. pool \in Pools /\ next_irp \in Ids
    BY Zenon, <1>1 DEF IrpTypes
  <1>3. pool' \in Pools /\ pool'[k] = new /\ \A j \in PoolSlots : j # k => pool'[j] = pool[j]
    BY <1>2 DEF Pools
  <1>4. next_irp' \in Ids /\ next_irp' >= next_irp
    BY <1>2 DEF Ids
  <1>5. IrpTypes'
    BY Zenon, <1>1, <1>3, <1>4 DEF IrpTypes
  <1>6. PoolSound(pool', next_irp')
    <2> SUFFICES ASSUME NEW j \in PoolSlots, pool'[j].in_use
                 PROVE  /\ pool'[j].id \in 1 .. next_irp' - 1
                        /\ pool'[j].st = "Pending" <=> pool'[j].cb = TRUE
      BY Zenon DEF PoolSound
    <2>1. CASE j = k
      <3>1. pool'[j].id = next_irp /\ next_irp' = next_irp + 1
        BY Zenon, <1>3, <2>1
      <3>2. next_irp \in 1 .. (next_irp + 1) - 1
        BY <1>2 DEF Ids
      <3> QED
        BY Zenon, <1>3, <2>1, <3>1, <3>2
    <2>2. CASE j # k
      <3>1. pool'[j] = pool[j]
        BY Zenon, <1>3, <2>2
      <3>2. pool[j].id \in 1 .. next_irp - 1 /\ (pool[j].st = "Pending" <=> pool[j].cb = TRUE)
        BY Zenon, <1>1, <3>1 DEF PoolSound
      <3>3. pool[j].id \in 1 .. next_irp' - 1
        BY <1>2, <1>4, <3>2 DEF Ids
      <3> QED
        BY Zenon, <3>1, <3>2, <3>3
    <2> QED
      BY Zenon, <2>1, <2>2
  <1>7. \A id \in Ids : Slot(id) \in PoolSlots
    BY SlotOf DEF Ids
  <1>8. ASSUME NEW id \in Ids
        PROVE  Placed(pool', uq, ran, accepted["high"], dropped, next_irp', id)
    <2>1. Placed(pool, uq, ran, accepted["high"], dropped, next_irp, id)
      BY Zenon, <1>1
    <2>2. id >= next_irp' => id >= next_irp
      BY <1>2, <1>4 DEF Ids
    <2>3. ASSUME LiveIn(pool', id), pool'[Slot(id)].cb
          PROVE  id >= next_irp \/ (LiveIn(pool, id) /\ pool[Slot(id)].cb)
      <3>1. CASE Slot(id) = k
        <4>1. id = next_irp
          BY Zenon, <1>3, <2>3, <3>1 DEF LiveIn
        <4> QED
          BY <1>2, <4>1 DEF Ids
      <3>2. CASE Slot(id) # k
        BY Zenon, <1>3, <1>7, <2>3, <3>2 DEF LiveIn
      <3> QED
        BY Zenon, <3>1, <3>2
    <2> QED
      BY Zenon, <2>1, <2>2, <2>3 DEF Placed
  <1>9. Waiting(pool, 1)'
    <2> SUFFICES ASSUME NEW i \in 1 .. Len(dpcq), i >= 1
                 PROVE  LiveIn(pool', dpcq[i]) /\ pool'[Slot(dpcq[i])].cb
      BY Zenon DEF Waiting, LiveIn, Slot
    <2>1. dpcq[i] \in Ids
      BY <1>1 DEF IrpTypes
    <2>2. LiveIn(pool, dpcq[i]) /\ pool[Slot(dpcq[i])].cb
      BY Zenon, <1>1 DEF Waiting
    <2>3. Slot(dpcq[i]) # k
      BY Zenon, <2>2 DEF LiveIn
    <2> QED
      BY Zenon, <1>3, <1>7, <2>1, <2>2, <2>3 DEF LiveIn
  <1> QED
    BY Zenon, <1>5, <1>6, <1>8, <1>9 DEF IrpInv, AllPlaced

LEMMA AllocKeepsIrps ==
    ASSUME DeferAssumption, IrpInv, irp_alloc, UNCHANGED ringVars PROVE IrpInv'
  <1> DEFINE k == Slot(next_irp)
             new == [in_use |-> TRUE, id |-> next_irp, st |-> "Pending", cb |-> TRUE]
  <1>1. /\ next_irp' = next_irp + 1
        /\ UNCHANGED <<produced, accepted, dpcq, uq, thr, ran, dropped>>
        /\ pool' = IF pool[k].in_use THEN pool ELSE [pool EXCEPT ![k] = new]
    BY Zenon DEF irp_alloc, ringVars
  <1>2. IrpTypes /\ next_irp \in Ids /\ pool \in Pools
    BY Zenon DEF IrpInv, IrpTypes
  <1>3. k \in PoolSlots
    BY <1>2, SlotOf DEF Ids
  <1>4. /\ new \in IrpSlot /\ new.id = next_irp /\ new.st = "Pending" /\ new.cb = TRUE
    BY <1>2 DEF IrpSlot, Ids
  <1> HIDE DEF new, k
  <1>5. CASE ~pool[k].in_use
    <2>1. pool' = [pool EXCEPT ![k] = new]
      BY Zenon, <1>1, <1>5
    <2>2. next_irp' \in {next_irp, next_irp + 1}
      BY Zenon, <1>1
    <2> QED
      BY Zenon, <1>1, <1>3, <1>4, <1>5, <2>1, <2>2, SlotStep DEF k
  <1>6. CASE pool[k].in_use
    <2>1. pool' = pool
      BY Zenon, <1>1, <1>6
    <2>2. /\ PoolSound(pool, next_irp) /\ Waiting(pool, 1)
          /\ \A id \in Ids : Placed(pool, uq, ran, accepted["high"], dropped, next_irp, id)
      BY Zenon DEF IrpInv, AllPlaced
    <2>3. /\ next_irp' \in Ids /\ 1 .. next_irp - 1 \subseteq 1 .. next_irp' - 1
          /\ \A id \in Ids : id >= next_irp' => id >= next_irp
      BY <1>1, <1>2 DEF Ids
    <2>4. IrpTypes'
      BY Zenon, <1>1, <1>2, <2>1, <2>3 DEF IrpTypes
    <2>5. PoolSound(pool, next_irp')
      BY Zenon, <2>2, <2>3 DEF PoolSound
    <2>6. \A id \in Ids : Placed(pool, uq, ran, accepted["high"], dropped, next_irp', id)
      BY Zenon, <2>2, <2>3 DEF Placed
    <2>7. Waiting(pool, 1)'
      BY Zenon, <1>1, <2>1, <2>2 DEF Waiting, LiveIn, Slot
    <2> QED
      BY Zenon, <1>1, <2>1, <2>4, <2>5, <2>6, <2>7 DEF IrpInv, AllPlaced
  <1> QED
    BY Zenon, <1>5, <1>6

LEMMA FreeKeepsIrps ==
    ASSUME DeferAssumption, IrpInv, NEW id \in 1 .. MaxIrps, irp_free(id), UNCHANGED ringVars
    PROVE  IrpInv'
  <1> DEFINE k == Slot(id)
             new == [pool[k] EXCEPT !.in_use = FALSE]
  <1>1. /\ next_irp' = next_irp /\ pool[k].in_use /\ pool[k].st = "Completed"
        /\ UNCHANGED <<produced, accepted, dpcq, uq, thr, ran, dropped>>
    BY Zenon DEF irp_free, ringVars, Live
  <1>2. pool' = [pool EXCEPT ![k] = new]
    BY DEF irp_free, Freed
  <1>3. pool \in Pools /\ PoolSound(pool, next_irp)
    BY Zenon DEF IrpInv, IrpTypes
  <1>4. k \in PoolSlots
    BY SlotOf
  <1>5. pool[k] \in IrpSlot
    BY <1>3, <1>4 DEF Pools
  <1>6. new \in IrpSlot /\ new.in_use = FALSE
    BY Zenon, <1>5 DEF IrpSlot
  <1>7. ~pool[k].cb
    BY Zenon, <1>1, <1>3, <1>4, <1>5 DEF PoolSound, IrpSlot
  <1> HIDE DEF k, new
  <1>8. next_irp' \in {next_irp, next_irp + 1}
    BY Zenon, <1>1
  <1> QED
    BY Zenon, <1>1, <1>2, <1>4, <1>6, <1>7, <1>8, SlotStep

\* The DPC queue takes an IRP that is pending, so one that has its callback.
LEMMA DpcKeepsIrps ==
    ASSUME DeferAssumption, IrpInv, NEW id \in 1 .. MaxIrps, irp_queue_apc_dpc_completion(id),
           UNCHANGED ringVars
    PROVE  IrpInv'
  <1>1. /\ pool' = pool /\ next_irp' = next_irp /\ uq' = uq /\ thr' = thr /\ ran' = ran
        /\ dropped' = dropped /\ accepted' = accepted /\ produced' = produced
        /\ dpcq' = Append(dpcq, id) /\ Live(id) /\ pool[Slot(id)].st = "Pending" /\ ~Queued(id)
    BY Zenon DEF irp_queue_apc_dpc_completion, ringVars
  <1>2. /\ IrpTypes /\ PoolSound(pool, next_irp) /\ Waiting(pool, 1)
        /\ \A j \in Ids : Placed(pool, uq, ran, accepted["high"], dropped, next_irp, j)
    BY Zenon DEF IrpInv, AllPlaced
  <1>3. dpcq \in Seq(Ids) /\ \A i, j \in 1 .. Len(dpcq) : dpcq[i] = dpcq[j] => i = j
    BY Zenon, <1>2 DEF IrpTypes
  <1>4. id \in Ids /\ Slot(id) \in PoolSlots
    BY SlotOf DEF Ids
  <1>5. pool[Slot(id)].cb
    BY Zenon, <1>1, <1>2, <1>4 DEF PoolSound, Live
  <1>6. /\ dpcq' \in Seq(Ids) /\ Len(dpcq') = Len(dpcq) + 1 /\ Len(dpcq) \in Nat
        /\ dpcq'[Len(dpcq) + 1] = id /\ \A i \in 1 .. Len(dpcq) : dpcq'[i] = dpcq[i]
    BY <1>1, <1>3, <1>4, AppendFacts
  <1>7. \A i \in 1 .. Len(dpcq') : i = Len(dpcq') \/ i \in 1 .. Len(dpcq)
    BY <1>6
  <1>8. ASSUME NEW i \in 1 .. Len(dpcq'), NEW j \in 1 .. Len(dpcq'), dpcq'[i] = dpcq'[j]
        PROVE  i = j
    <2>1. \A m \in 1 .. Len(dpcq) : dpcq'[m] # id
      BY Zenon, <1>1, <1>6 DEF Queued
    <2>2. dpcq'[Len(dpcq')] = id
      BY Zenon, <1>6
    <2> QED
      BY Zenon, <1>3, <1>6, <1>7, <1>8, <2>1, <2>2
  <1>9. IrpTypes'
    BY Zenon, <1>1, <1>2, <1>6, <1>8 DEF IrpTypes
  <1>10. Waiting(pool, 1)'
    <2> SUFFICES ASSUME NEW i \in 1 .. Len(dpcq'), i >= 1
                 PROVE  LiveIn(pool, dpcq'[i]) /\ pool[Slot(dpcq'[i])].cb
      BY Zenon, <1>1 DEF Waiting, LiveIn, Slot
    <2>1. CASE i = Len(dpcq')
      BY Zenon, <1>1, <1>5, <1>6, <2>1 DEF Live, LiveIn
    <2>2. CASE i \in 1 .. Len(dpcq)
      BY Zenon, <1>2, <1>6, <2>2 DEF Waiting
    <2> QED
      BY Zenon, <1>7, <2>1, <2>2
  <1> QED
    BY Zenon, <1>1, <1>2, <1>9, <1>10 DEF IrpInv, AllPlaced

LEMMA DrainKeepsIrps ==
    ASSUME DeferAssumption, IrpInv, dpc_dispatch_pending, UNCHANGED ringVars PROVE IrpInv'
  <1> DEFINE s == [pool |-> pool, uq |-> uq, thr |-> thr, dropped |-> dropped]
             t == Completed(s, dpcq)
  <1>1. /\ dpcq' = << >> /\ pool' = t.pool /\ uq' = t.uq /\ thr' = t.thr /\ dropped' = t.dropped
        /\ next_irp' = next_irp /\ ran' = ran /\ accepted' = accepted /\ produced' = produced
    BY Zenon DEF dpc_dispatch_pending, ringVars
  <1>2. /\ IrpTypes /\ PoolSound(pool, next_irp) /\ Waiting(pool, 1)
        /\ \A id \in Ids : Placed(pool, uq, ran, accepted["high"], dropped, next_irp, id)
    BY Zenon DEF IrpInv, AllPlaced
  <1>3. pool \in Pools /\ uq \in Seq(Int) /\ thr \in ThreadStates /\ dropped \in SUBSET Int
    BY Zenon, <1>2 DEF IrpTypes
  <1>4. s \in Works /\ s.pool = pool /\ s.uq = uq /\ s.dropped = dropped
    BY <1>3 DEF Works
  <1> HIDE DEF s
  <1>5. FoldInv(s, 0)
    <2>1. 0 + 1 = 1
      OBVIOUS
    <2> QED
      BY Zenon, <1>2, <1>4, <2>1 DEF FoldInv
  <1>6. FoldInv(t, Len(dpcq))
    BY Zenon, <1>2, <1>5, Drains
  <1> HIDE DEF t
  <1>7. t \in Works /\ PoolSound(t.pool, next_irp)
        /\ \A id \in Ids : Placed(t.pool, t.uq, ran, accepted["high"], t.dropped, next_irp, id)
    BY Zenon, <1>6 DEF FoldInv
  <1>8. t.pool \in Pools /\ t.uq \in Seq(Int) /\ t.thr \in ThreadStates /\ t.dropped \in SUBSET Int
    BY <1>7 DEF Works
  <1>9. IrpTypes'
    <2>1. dpcq' \in Seq(Ids) /\ \A i, j \in 1 .. Len(dpcq') : dpcq'[i] = dpcq'[j] => i = j
      BY <1>1
    <2> QED
      BY Zenon, <1>1, <1>2, <1>8, <2>1 DEF IrpTypes
  <1>10. Waiting(pool, 1)'
    <2>1. \A i \in 1 .. Len(dpcq') : FALSE
      BY <1>1
    <2> QED
      BY Zenon, <2>1 DEF Waiting
  <1> QED
    BY Zenon, <1>1, <1>7, <1>9, <1>10 DEF IrpInv, AllPlaced

\* irp_complete moves the callback from the IRP to the work queue.
LEMMA CompleteKeepsIrps ==
    ASSUME DeferAssumption, IrpInv, NEW id \in 1 .. MaxIrps, irp_complete(id) PROVE IrpInv'
  <1> DEFINE k == Slot(id)
             new == [pool[k] EXCEPT !.st = "Completed", !.cb = FALSE]
             a == accepted["high"]
             b == Append(a, -id)
  <1>1. /\ next_irp' = next_irp /\ dpcq' = dpcq /\ uq' = uq /\ thr' = thr /\ ran' = ran
        /\ dropped' = dropped /\ produced' = produced
        /\ Live(id) /\ pool[k].st = "Pending" /\ ~Queued(id)
        /\ accepted' = [accepted EXCEPT !["high"] = Append(@, -id)]
    BY Zenon DEF irp_complete
  <1>2. pool' = [pool EXCEPT ![k] = new]
    BY DEF irp_complete
  <1>3. /\ IrpTypes /\ PoolSound(pool, next_irp) /\ Waiting(pool, 1)
        /\ \A j \in Ids : Placed(pool, uq, ran, a, dropped, next_irp, j)
    BY Zenon DEF IrpInv, AllPlaced
  <1>4. /\ pool \in Pools /\ a \in Seq(Int) /\ DOMAIN accepted = Rings
        /\ uq \in Seq(Int) /\ ran \in Seq(Int)
    BY Zenon, <1>3 DEF IrpTypes
  <1>5. id \in Ids /\ id \in Int /\ -id \in Int /\ k \in PoolSlots
    BY SlotOf DEF Ids
  <1>6. pool[k] \in IrpSlot
    BY <1>4, <1>5 DEF Pools
  <1>7. new \in IrpSlot /\ new.in_use = pool[k].in_use /\ new.id = pool[k].id
        /\ new.st = "Completed" /\ new.cb = FALSE
    BY Zenon, <1>6 DEF IrpSlot
  <1> HIDE DEF k, new
  <1>8. pool' \in Pools /\ pool'[k] = new /\ \A j \in PoolSlots : j # k => pool'[j] = pool[j]
    BY <1>2, <1>4, <1>5, <1>7 DEF Pools
  <1>9. accepted'["high"] = b /\ DOMAIN accepted' = Rings
    BY <1>1, <1>4 DEF Rings
  <1>10. b \in Seq(Int)
    BY <1>4, <1>5, AppendFacts
  <1> HIDE DEF a, b
  <1>11. IrpTypes'
    BY Zenon, <1>1, <1>3, <1>8, <1>9, <1>10 DEF IrpTypes
  <1>12. PoolSound(pool', next_irp')
    <2> SUFFICES ASSUME NEW j \in PoolSlots, pool'[j].in_use
                 PROVE  /\ pool'[j].id \in 1 .. next_irp - 1
                        /\ pool'[j].st = "Pending" <=> pool'[j].cb = TRUE
      BY Zenon, <1>1 DEF PoolSound
    <2>1. CASE j = k
      <3>1. pool[k].in_use /\ pool'[j].id = pool[k].id
        BY Zenon, <1>7, <1>8, <2>1
      <3>2. pool[k].id \in 1 .. next_irp - 1
        BY Zenon, <1>3, <1>5, <3>1 DEF PoolSound
      <3>3. pool'[j].st # "Pending" /\ pool'[j].cb # TRUE
        BY Zenon, <1>7, <1>8, <2>1
      <3> QED
        BY Zenon, <3>1, <3>2, <3>3
    <2>2. CASE j # k
      BY Zenon, <1>3, <1>8, <2>2 DEF PoolSound
    <2> QED
      BY Zenon, <2>1, <2>2
  <1>13. LiveIn(pool, id) /\ pool[k].cb
    BY Zenon, <1>1, <1>3, <1>5 DEF PoolSound, Live, LiveIn, k
  <1>14. \A j \in Ids : Slot(j) \in PoolSlots
    BY SlotOf DEF Ids
  <1>15. ASSUME NEW j \in Ids
         PROVE  Placed(pool', uq, ran, b, dropped, next_irp, j)
    <2>0. Placed(pool, uq, ran, a, dropped, next_irp, j)
      BY Zenon, <1>3
    <2>1. CASE j = id
      <3>1. Nowhere(uq, ran, a, dropped, id)
        BY Zenon, <1>13, <2>0, <2>1 DEF Placed, k
      <3>2. OnePlace(uq, ran, b, dropped, id)
        BY Zenon, <1>4, <1>5, <3>1, Enters DEF b
      <3>3. ~(id >= next_irp)
        <4>1. id \in 1 .. next_irp - 1 /\ next_irp \in Ids
          BY Zenon, <1>3, <1>5, <1>13 DEF PoolSound, LiveIn, k, IrpTypes
        <4> QED
          BY <4>1 DEF Ids
      <3>4. ~pool'[Slot(id)].cb
        BY Zenon, <1>7, <1>8 DEF k
      <3> QED
        BY Zenon, <2>1, <3>2, <3>3, <3>4 DEF Placed
    <2>2. CASE j # id
      <3>1. -id # -j
        BY <1>5, <2>2 DEF Ids
      <3>2. /\ OnePlace(uq, ran, a, dropped, j) => OnePlace(uq, ran, b, dropped, j)
            /\ Nowhere(uq, ran, a, dropped, j) => Nowhere(uq, ran, b, dropped, j)
        BY Zenon, <1>4, <1>5, <3>1, OtherWork DEF b
      <3>3. ASSUME LiveIn(pool', j), pool'[Slot(j)].cb
            PROVE  LiveIn(pool, j) /\ pool[Slot(j)].cb
        <4>1. Slot(j) # k
          BY Zenon, <1>7, <1>8, <3>3
        <4> QED
          BY Zenon, <1>8, <1>14, <3>3, <4>1 DEF LiveIn
      <3> QED
        BY Zenon, <2>0, <3>2, <3>3 DEF Placed
    <2> QED
      BY Zenon, <2>1, <2>2
  <1>16. Waiting(pool, 1)'
    <2> SUFFICES ASSUME NEW i \in 1 .. Len(dpcq), i >= 1
                 PROVE  LiveIn(pool', dpcq[i]) /\ pool'[Slot(dpcq[i])].cb
      BY Zenon, <1>1 DEF Waiting, LiveIn, Slot
    <2>1. LiveIn(pool, dpcq[i]) /\ pool[Slot(dpcq[i])].cb
      BY Zenon, <1>3 DEF Waiting
    <2>2. dpcq[i] # id
      BY Zenon, <1>1 DEF Queued
    <2>3. Slot(dpcq[i]) # k
      BY Zenon, <1>13, <2>1, <2>2 DEF LiveIn, k
    <2>4. dpcq[i] \in Ids
      BY <1>3 DEF IrpTypes
    <2> QED
      BY Zenon, <1>8, <1>14, <2>1, <2>3, <2>4 DEF LiveIn
  <1> QED
    BY Zenon, <1>1, <1>9, <1>11, <1>12, <1>15, <1>16 DEF IrpInv, AllPlaced

\* A callback in one place has one element of Places, one that is nowhere none.
LEMMA PlacesOnce ==
    ASSUME NEW id \in Ids
    PROVE  /\ Nowhere(uq, ran, accepted["high"], dropped, id) => Places(id) = {}
           /\ OnePlace(uq, ran, accepted["high"], dropped, id) => \A x, y \in Places(id) : x = y
  <1> DEFINE a == accepted["high"]
             In(x) == \/ \E i \in 1 .. Len(uq) : uq[i] = id /\ x = <<"apc", i>>
                      \/ \E i \in 1 .. Len(ran) : ran[i] = id /\ x = <<"ran", i>>
                      \/ \E i \in 1 .. Len(a) : a[i] = -id /\ x = <<"work", i>>
                      \/ id \in dropped /\ x = <<"dropped", id>>
  <1> HIDE DEF a
  <1>1. \A x \in Places(id) : In(x)
    BY Zenon DEF Places, a
  <1>2. Nowhere(uq, ran, a, dropped, id) => \A x \in Places(id) : FALSE
    BY Zenon, <1>1 DEF Nowhere, Absent
  <1>3. ASSUME OnePlace(uq, ran, a, dropped, id), NEW x \in Places(id), NEW y \in Places(id)
        PROVE  x = y
    <2>1. In(x) /\ In(y)
      BY Zenon, <1>1, <1>3
    <2>2. /\ \A i, j \in 1 .. Len(uq) : uq[i] = id /\ uq[j] = id => i = j
          /\ \A i, j \in 1 .. Len(ran) : ran[i] = id /\ ran[j] = id => i = j
          /\ \A i, j \in 1 .. Len(a) : a[i] = -id /\ a[j] = -id => i = j
          /\ \A i \in 1 .. Len(uq), j \in 1 .. Len(ran) : ~(uq[i] = id /\ ran[j] = id)
          /\ \A i \in 1 .. Len(uq), j \in 1 .. Len(a) : ~(uq[i] = id /\ a[j] = -id)
          /\ \A i \in 1 .. Len(ran), j \in 1 .. Len(a) : ~(ran[i] = id /\ a[j] = -id)
          /\ id \in dropped => /\ \A i \in 1 .. Len(uq) : uq[i] # id
                               /\ \A i \in 1 .. Len(ran) : ran[i] # id
                               /\ \A i \in 1 .. Len(a) : a[i] # -id
      BY Zenon, <1>3 DEF OnePlace, Once, Apart, Absent
    <2>3. CASE \E i \in 1 .. Len(uq) : uq[i] = id /\ x = <<"apc", i>>
      BY ZenonT(30), <2>1, <2>2, <2>3
    <2>4. CASE \E i \in 1 .. Len(ran) : ran[i] = id /\ x = <<"ran", i>>
      BY ZenonT(30), <2>1, <2>2, <2>4
    <2>5. CASE \E i \in 1 .. Len(a) : a[i] = -id /\ x = <<"work", i>>
      BY ZenonT(30), <2>1, <2>2, <2>5
    <2>6. CASE id \in dropped /\ x = <<"dropped", id>>
      BY ZenonT(30), <2>1, <2>2, <2>6
    <2> QED
      BY Zenon, <2>1, <2>3, <2>4, <2>5, <2>6
  <1> QED
    BY <1>2, <1>3 DEF a

\* The callback of an IRP is in one place at a time on every completion path,
\* and a waiting DPC finds its own IRP with its callback (irp_complete,
\* irp_complete_with_apc, dpc_dispatch_pending, queue_user_apc), for every size
\* of the pool and of the queues and with several CPUs draining the rings.
THEOREM CallbacksOnce == ASSUME DeferAssumption PROVE DeferSpec => []CallbackOnce
  <1>1. DeferInit => IrpInv
    BY IrpInit
  <1>2. ASSUME IrpInv, [DeferNext]_deferVars PROVE IrpInv'
    <2>1. CASE UNCHANGED deferVars
      <3>1. /\ pool' = pool /\ next_irp' = next_irp /\ dpcq' = dpcq /\ uq' = uq /\ thr' = thr
            /\ ran' = ran /\ dropped' = dropped /\ accepted' = accepted /\ produced' = produced
        BY Zenon, <2>1 DEF deferVars
      <3>2. IrpTypes'
        BY Zenon, <1>2, <3>1 DEF IrpInv, IrpTypes
      <3> QED
        BY Zenon, <1>2, <3>1, <3>2, QueueStep
    <2>2. CASE RingStep /\ UNCHANGED irpVars
      BY Zenon, <1>2, <2>2, RingKeepsIrps
    <2>3. CASE IrpStep /\ UNCHANGED ringVars
      BY Zenon, <1>2, <2>3, AllocKeepsIrps, FreeKeepsIrps, DpcKeepsIrps, DrainKeepsIrps,
         ThreadKeepsIrps DEF IrpStep
    <2>4. CASE \E id \in 1 .. MaxIrps : irp_complete(id)
      BY Zenon, <1>2, <2>4, CompleteKeepsIrps
    <2> QED
      BY Zenon, <1>2, <2>1, <2>2, <2>3, <2>4 DEF DeferNext
  <1>3. ASSUME IrpInv PROVE CallbackOnce
    <2>1. /\ IrpTypes /\ PoolSound(pool, next_irp) /\ Waiting(pool, 1)
          /\ \A id \in Ids : Placed(pool, uq, ran, accepted["high"], dropped, next_irp, id)
      BY Zenon, <1>3 DEF IrpInv, AllPlaced
    <2>2. \A id \in 1 .. next_irp - 1 : id \in Ids
      BY <2>1 DEF Ids, IrpTypes
    <2>3. ASSUME NEW id \in 1 .. next_irp - 1
          PROVE  IF Live(id) /\ pool[Slot(id)].cb THEN Places(id) = {}
                 ELSE \A x, y \in Places(id) : x = y
      BY Zenon, <2>1, <2>2, PlacesOnce DEF Placed, Live, LiveIn
    <2>4. ASSUME NEW i \in 1 .. Len(dpcq) PROVE Live(dpcq[i]) /\ pool[Slot(dpcq[i])].cb
      <3>1. i >= 1
        BY <2>1 DEF IrpTypes
      <3> QED
        BY Zenon, <2>1, <3>1 DEF Waiting, Live, LiveIn
    <2>5. ASSUME NEW id \in 1 .. next_irp - 1, Live(id), pool[Slot(id)].st = "Completed"
          PROVE  ~pool[Slot(id)].cb
      <3>1. Slot(id) \in PoolSlots
        BY <2>2, SlotOf DEF Ids
      <3>2. pool[Slot(id)].cb \in BOOLEAN
        BY <2>1, <3>1 DEF IrpTypes, Pools, IrpSlot
      <3> QED
        BY Zenon, <2>1, <2>5, <3>1, <3>2 DEF PoolSound, Live
    <2> QED
      BY Zenon, <2>3, <2>4, <2>5 DEF CallbackOnce
  <1> QED
    BY <1>1, <1>2, <1>3, PTL DEF DeferSpec
=============================================================================
