----------------------------- MODULE NaturalFacts -----------------------------
(***************************************************************************)
(* Facts that the proofs share: the well-ordering of the natural numbers    *)
(* behind every CHOOSE of a minimum (the scan's best candidate, the first   *)
(* free slot) and behind induction, the arithmetic of ring buffer indices,  *)
(* and sequences.                                                           *)
(***************************************************************************)
EXTENDS Integers, Sequences, TLAPS

LOCAL INSTANCE WellFoundedInduction

\* Every set of naturals that is not empty has a least element.
LEMMA LeastNatural ==
    ASSUME NEW T, T \subseteq Nat, T # {}
    PROVE  \E t \in T : \A u \in T : t <= u
  <1>1. \E t \in T : \A u \in T : <<u, t>> \notin OpToRel(<, Nat)
    BY NatLessThanWellFounded, WFMin
  <1>2. PICK t \in T : \A u \in T : ~(u < t)
    BY ZenonT(60), <1>1 DEF OpToRel
  <1> QED
    BY <1>2

\* A sum of less than two laps wraps at most once.
LEMMA Lap ==
    ASSUME NEW n \in Nat \ {0}, NEW x \in 0 .. 2 * n - 1
    PROVE  x % n = IF x < n THEN x ELSE x - n
  OBVIOUS

\* Advancing an index by less than a lap.
LEMMA Advance ==
    ASSUME NEW n \in Nat \ {0}, NEW h \in 0 .. n - 1, NEW k \in 0 .. n
    PROVE  (h + k) % n = IF h + k < n THEN h + k ELSE h + k - n
  <1> DEFINE x == h + k
  <1>1. x \in 0 .. 2 * n - 1
    OBVIOUS
  <1> HIDE DEF x
  <1>2. x % n = IF x < n THEN x ELSE x - n
    BY ZenonT(60), <1>1, Lap
  <1> QED
    BY <1>2 DEF x

\* The slot of the i-th byte counted from an index.
LEMMA Position ==
    ASSUME NEW n \in Nat \ {0}, NEW h \in 0 .. n - 1, NEW i \in 1 .. n
    PROVE  (h + i - 1) % n = IF h + i - 1 < n THEN h + i - 1 ELSE h + i - 1 - n
  <1> DEFINE x == h + i - 1
  <1>1. x \in 0 .. 2 * n - 1
    OBVIOUS
  <1> HIDE DEF x
  <1>2. x % n = IF x < n THEN x ELSE x - n
    BY ZenonT(60), <1>1, Lap
  <1> QED
    BY <1>2 DEF x

\* A number is a multiple of n plus its remainder.
LEMMA DivMod ==
    ASSUME NEW n \in Nat \ {0}, NEW a \in Nat
    PROVE  a % n \in 0 .. n - 1 /\ \E q \in Nat : a = n * q + (a % n)
  <1>1. a % n \in 0 .. n - 1
    OBVIOUS
  <1>2. a \div n \in Nat /\ a = n * (a \div n) + (a % n)
    OBVIOUS
  <1> QED
    BY ZenonT(60), <1>1, <1>2

\* The remainder is the only number below n at a multiple's distance.
LEMMA ModUnique ==
    ASSUME NEW n \in Nat \ {0}, NEW a \in Nat, NEW q \in Int, NEW r \in 0 .. n - 1,
           a = n * q + r
    PROVE  a % n = r
  OBVIOUS

\* A whole number of laps changes no slot.
LEMMA ModSum ==
    ASSUME NEW n \in Nat \ {0}, NEW a \in Nat, NEW k \in Nat
    PROVE  (a + k) % n = ((a % n) + k) % n
  <1> DEFINE r == a % n
  <1>0. r \in 0 .. n - 1 /\ \E x \in Nat : a = n * x + r
    BY ZenonT(60), DivMod
  <1> HIDE DEF r
  <1>1. PICK q \in Nat : a = n * q + r
    BY <1>0
  <1> DEFINE y == r + k
             z == y % n
  <1>2. z \in 0 .. n - 1 /\ \E x \in Nat : y = n * x + z
    <2>1. y \in Nat
      BY <1>0
    <2> HIDE DEF y
    <2> QED
      BY ZenonT(60), <2>1, DivMod
  <1> HIDE DEF z
  <1>3. PICK p \in Nat : y = n * p + z
    BY <1>2
  <1>4. a + k = n * (q + p) + z
    BY <1>0, <1>1, <1>2, <1>3
  <1>5. (a + k) % n = z
    <2> DEFINE b == a + k
               s == q + p
    <2>1. b \in Nat /\ s \in Int /\ b = n * s + z
      BY <1>4
    <2> HIDE DEF b, s
    <2>2. b % n = z
      BY <1>2, <2>1, ModUnique
    <2> QED
      BY <2>2 DEF b
  <1> QED
    BY <1>5 DEF z, y, r

\* A function is defined by its first value and the step from each value to the
\* next: what a recursive definition over a range needs to mean something.
StepFcns(W, n) == [W \X (1 .. n) -> W]

Iterates(g, W, w, n, t) ==
    g \in [0 .. n -> W] /\ g[0] = w /\ \A i \in 1 .. n : g[i] = t[<<g[i - 1], i>>]

\* A step function can be iterated n times from any starting value.
LEMMA Recursion ==
    ASSUME NEW W, NEW w \in W, NEW n \in Nat, NEW t \in StepFcns(W, n)
    PROVE  \E g : Iterates(g, W, w, n, t)
  <1> DEFINE Upto(k, g) == /\ g \in [0 .. k -> W] /\ g[0] = w
                           /\ \A i \in 1 .. k : g[i] = t[<<g[i - 1], i>>]
             Bad == {k \in 0 .. n : ~\E g : Upto(k, g)}
  <1>1. ASSUME Bad # {} PROVE FALSE
    <2>0. Bad \in SUBSET Nat
      OBVIOUS
    <2>1. PICK k \in Bad : \A j \in Bad : k <= j
      <3> HIDE DEF Bad
      <3> QED
        BY ZenonT(60), <1>1, <2>0, LeastNatural
    <2>2. k # 0
      <3>1. Upto(0, [i \in 0 .. 0 |-> w])
        OBVIOUS
      <3> QED
        BY ZenonT(60), <2>1, <3>1
    <2>3. k - 1 \in 0 .. n /\ k - 1 \notin Bad
      BY <2>1, <2>2
    <2>4. PICK g : Upto(k - 1, g)
      BY <2>3
    <2> DEFINE h == [i \in 0 .. k |-> IF i = k THEN t[<<g[k - 1], k>>] ELSE g[i]]
    <2>5. k \in 1 .. n /\ g[k - 1] \in W
      BY <2>1, <2>2, <2>4
    <2>6. t[<<g[k - 1], k>>] \in W
      BY <2>5 DEF StepFcns
    <2>7. h \in [0 .. k -> W] /\ h[0] = w
      BY <2>4, <2>5, <2>6
    <2>8. ASSUME NEW i \in 1 .. k PROVE h[i] = t[<<h[i - 1], i>>]
      <3>1. h[i - 1] = g[i - 1] /\ h[i] = IF i = k THEN t[<<g[k - 1], k>>] ELSE g[i]
        BY <2>5
      <3>2. CASE i = k
        BY ZenonT(60), <3>1, <3>2
      <3>3. CASE i # k
        <4>1. i \in 1 .. k - 1
          BY <2>5, <3>3
        <4> QED
          BY <2>4, <3>1, <3>3, <4>1
      <3> QED
        BY <3>2, <3>3
    <2>9. Upto(k, h)
      BY ZenonT(60), <2>7, <2>8
    <2> QED
      BY ZenonT(60), <2>1, <2>9
  <1>2. n \in 0 .. n
    OBVIOUS
  <1>3. n \notin Bad
    <2> HIDE DEF Bad
    <2> QED
      BY <1>1
  <1> QED
    BY <1>2, <1>3 DEF Iterates

\* A concatenation, and a sequence without its head.
LEMMA ConcatFacts ==
    ASSUME NEW S, NEW s \in Seq(S), NEW t \in Seq(S)
    PROVE  /\ s \o t \in Seq(S)
           /\ Len(s \o t) = Len(s) + Len(t)
           /\ \A i \in 1 .. Len(s) + Len(t) :
                 (s \o t)[i] = IF i <= Len(s) THEN s[i] ELSE t[i - Len(s)]
  OBVIOUS

LEMMA TailFacts ==
    ASSUME NEW S, NEW s \in Seq(S), s # << >>
    PROVE  /\ Head(s) \in S /\ Head(s) = s[1] /\ Len(s) \in Nat \ {0}
           /\ Tail(s) \in Seq(S) /\ Len(Tail(s)) = Len(s) - 1
           /\ \A i \in 1 .. Len(Tail(s)) : Tail(s)[i] = s[i + 1]
  OBVIOUS

\* What the first value has and every step preserves, every value has: induction
\* over a range, for a property that is membership in a set.
LEMMA Stays ==
    ASSUME NEW W, NEW n \in Nat, NEW f, f[0] \in W,
           \A i \in 1 .. n : f[i - 1] \in W => f[i] \in W
    PROVE  \A i \in 0 .. n : f[i] \in W
  <1> DEFINE Bad == {i \in 0 .. n : f[i] \notin W}
  <1>1. ASSUME Bad # {} PROVE FALSE
    <2>1. Bad \subseteq Nat
      OBVIOUS
    <2>2. PICK k \in Bad : \A j \in Bad : k <= j
      <3> HIDE DEF Bad
      <3> QED
        BY ZenonT(60), <1>1, <2>1, LeastNatural
    <2>3. k \in 1 .. n /\ k - 1 \in 0 .. n /\ k - 1 \notin Bad
      BY <2>2
    <2> QED
      BY <2>2, <2>3
  <1> QED
    BY <1>1
=============================================================================
