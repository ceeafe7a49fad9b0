--------------------------- MODULE StartupProofs ---------------------------
(***************************************************************************)
(* Proofs about Startup, for any environments, documents and hosts: first  *)
(* what the helpers on lists and refusals return, then the parser of a     *)
(* YAML file, then the job that is built; last, that the document of an    *)
(* environment leads to the job the environment leads to.                  *)
(***************************************************************************)
EXTENDS Startup, SequenceTheorems, WellFoundedInduction, TLAPS

\* A non-empty set of numbers has a least one.
LEMMA LeastNumber ==
  ASSUME NEW D, D \subseteq Nat, D # {}
  PROVE  \E i \in D : \A k \in D : i <= k
<1>1. PICK i \in D : \A k \in D : ~ (<<k, i>> \in OpToRel(<, Nat))
  BY NatLessThanWellFounded, WFMin
<1>2. ASSUME NEW k \in D
      PROVE  i <= k
  <2>1. ~ (k < i)
    BY <1>1 DEF OpToRel
  <2>2. QED
    BY <2>1
<1>3. QED
  BY <1>2

\* Induction up to n, for a set of numbers.
LEMMA UpTo ==
  ASSUME NEW n \in Nat, NEW G, 0 \in G, \A m \in 0 .. n - 1 : m \in G => m + 1 \in G
  PROVE  \A m \in 0 .. n : m \in G
<1>1. SUFFICES ASSUME 0 .. n \ G # {} PROVE FALSE
  OBVIOUS
<1>2. PICK m \in 0 .. n \ G : \A k \in 0 .. n \ G : m <= k
  <2>1. (0 .. n \ G) \subseteq Nat
    OBVIOUS
  <2>2. QED
    BY <1>1, <2>1, LeastNumber
<1>3. m # 0 /\ m \in Nat
  BY <1>2
<1>4. m - 1 \in 0 .. n - 1 /\ m - 1 \in 0 .. n /\ ~ (m <= m - 1) /\ m - 1 + 1 = m
  BY <1>2, <1>3
<1>5. m - 1 \in G
  BY <1>2, <1>4
<1>6. QED
  BY <1>2, <1>4, <1>5

\* The same with all smaller numbers at hand.
LEMMA StrongUpTo ==
  ASSUME NEW n \in Nat, NEW G, \A m \in 0 .. n : (\A k \in 0 .. m - 1 : k \in G) => m \in G
  PROVE  \A m \in 0 .. n : m \in G
<1>1. SUFFICES ASSUME 0 .. n \ G # {} PROVE FALSE
  OBVIOUS
<1>2. PICK m \in 0 .. n \ G : \A k \in 0 .. n \ G : m <= k
  <2>1. (0 .. n \ G) \subseteq Nat
    OBVIOUS
  <2>2. QED
    BY <1>1, <2>1, LeastNumber
<1>3. ASSUME NEW k \in 0 .. m - 1
      PROVE  k \in G
  <2>1. k \in 0 .. n /\ ~ (m <= k)
    BY <1>2
  <2>2. QED
    BY <1>2, <2>1
<1>4. QED
  BY <1>2, <1>3

-----------------------------------------------------------------------------
(***************************************************************************)
(* Lists put together from parts.                                          *)
(***************************************************************************)
\* g[i] is what the first i of n parts f make.
Joins(n, f, g) == \A i \in 1 .. n : g[i] = IF i = 1 THEN f[i] ELSE g[i - 1] \o f[i]

\* The first k parts can be joined, for each k.
LEMMA JoinsExist ==
  ASSUME NEW S, NEW n \in Nat, NEW f \in [1 .. n -> Seq(S)]
  PROVE  \E g \in [1 .. n -> Seq(S)] : Joins(n, f, g)
<1> DEFINE D == {k \in 0 .. n : ~ \E g \in [1 .. k -> Seq(S)] : Joins(k, f, g)}
<1>1. CASE D = {}
  BY <1>1
<1>2. CASE D # {}
  <2>1. D \subseteq Nat
    OBVIOUS
  <2>2. PICK k \in D : \A j \in D : k <= j
    <3> HIDE DEF D
    <3> QED
      BY <1>2, <2>1, LeastNumber
  <2>3. k \in 0 .. n /\ ~ \E g \in [1 .. k -> Seq(S)] : Joins(k, f, g)
    BY <2>2
  <2>4. k # 0
    <3>1. Joins(0, f, [i \in 1 .. 0 |-> <<>>]) /\ [i \in 1 .. 0 |-> <<>>] \in [1 .. 0 -> Seq(S)]
      BY DEF Joins
    <3>2. QED
      BY <2>3, <3>1
  <2>5. k - 1 \in 0 .. n /\ k - 1 \notin D
    <3>1. k - 1 \in 0 .. n /\ k - 1 < k
      BY <2>3, <2>4
    <3> HIDE DEF D
    <3>2. QED
      BY <2>1, <2>2, <3>1
  <2>6. PICK g \in [1 .. k - 1 -> Seq(S)] : Joins(k - 1, f, g)
    BY <2>5
  <2> DEFINE h == [i \in 1 .. k |-> IF i < k THEN g[i]
                                    ELSE IF i = 1 THEN f[i] ELSE g[i - 1] \o f[i]]
  <2>7. ASSUME NEW i \in 1 .. k
        PROVE  h[i] \in Seq(S) /\ h[i] = IF i = 1 THEN f[i] ELSE h[i - 1] \o f[i]
    <3>1. i \in Nat /\ i \in 1 .. n
      BY <2>3, <2>7
    <3>2. f[i] \in Seq(S)
      BY <3>1
    <3>3. CASE i < k
      <4>1. i \in 1 .. k - 1 /\ h[i] = g[i]
        BY <2>3, <2>7, <3>3
      <4>2. i # 1 => i - 1 \in 1 .. k - 1 /\ h[i - 1] = g[i - 1]
        BY <2>3, <2>7, <3>3
      <4>3. QED
        BY <2>6, <4>1, <4>2 DEF Joins
    <3>4. CASE i = k /\ i = 1
      BY <2>7, <3>2, <3>4
    <3>5. CASE i = k /\ i # 1
      <4>1. i - 1 \in 1 .. k - 1 /\ i - 1 \in 1 .. k /\ i - 1 < k /\ ~ i < k
        BY <2>3, <2>7, <3>5
      <4>2. g[i - 1] \in Seq(S) /\ h[i - 1] = g[i - 1] /\ h[i] = g[i - 1] \o f[i]
        BY <2>6, <2>7, <3>5, <4>1
      <4>3. g[i - 1] \o f[i] \in Seq(S)
        BY <3>2, <4>2
      <4>4. h[i] = h[i - 1] \o f[i] /\ h[i] \in Seq(S)
        BY <4>2, <4>3
      <4> HIDE DEF h
      <4>5. QED
        BY <3>5, <4>4
    <3>6. QED
      BY <2>3, <3>1, <3>3, <3>4, <3>5
  <2>8. h \in [1 .. k -> Seq(S)] /\ Joins(k, f, h)
    <3>1. h \in [1 .. k -> Seq(S)]
      BY <2>7
    <3> HIDE DEF h
    <3>2. Joins(k, f, h)
      BY <2>7 DEF Joins
    <3>3. QED
      BY <3>1, <3>2
  <2>9. QED
    BY <2>3, <2>8
<1>3. QED
  BY <1>1, <1>2

\* FlattenSeq joins all parts, whatever its own recursion is called.
LEMMA FlattenJoins ==
  ASSUME NEW S, NEW n \in Nat, n > 0, NEW f \in [1 .. n -> Seq(S)],
         NEW g \in [1 .. n -> Seq(S)], Joins(n, f, g)
  PROVE  FlattenSeq(f) = g[n]
<1> DEFINE Eq(h) == h = [i \in 1 .. Len(f) |-> IF i = 1 THEN f[i] ELSE h[i - 1] \o f[i]]
           flat  == CHOOSE h : Eq(h)
<1>1. Len(f) = n
  OBVIOUS
<1>2. FlattenSeq(f) = flat[n]
  BY <1>1 DEF FlattenSeq
<1>3. Eq(g)
  BY <1>1 DEF Joins
<1>4. Eq(flat)
  <2> HIDE DEF Eq
  <2> QED
    BY <1>3
<1>5. \A i \in 1 .. n : flat[i] = IF i = 1 THEN f[i] ELSE flat[i - 1] \o f[i]
  BY <1>1, <1>4
<1> HIDE DEF flat
<1> DEFINE D == {i \in 1 .. n : flat[i] # g[i]}
<1>6. CASE D = {}
  <2>1. n \in 1 .. n
    OBVIOUS
  <2>2. ~ (flat[n] # g[n])
    BY <1>6, <2>1
  <2>3. QED
    BY <1>2, <2>2
<1>7. CASE D # {}
  <2>1. D \subseteq Nat
    OBVIOUS
  <2>2. PICK i \in D : \A j \in D : i <= j
    <3> HIDE DEF D
    <3> QED
      BY <1>7, <2>1, LeastNumber
  <2>3. i \in 1 .. n /\ flat[i] # g[i]
    BY <2>2
  <2>4. i # 1 => i - 1 \in 1 .. n /\ ~ (i <= i - 1)
    BY <2>3
  <2>5. i # 1 => flat[i - 1] = g[i - 1]
    BY <2>2, <2>4
  <2>6. QED
    BY <1>5, <2>3, <2>5 DEF Joins
<1>8. QED
  BY <1>6, <1>7

\* Without parts there is nothing, and a part more is put at the end.
LEMMA FlattenLast ==
  ASSUME NEW S, NEW n \in Nat, NEW f \in [1 .. n + 1 -> Seq(S)]
  PROVE  /\ FlattenSeq([i \in 1 .. 0 |-> f[i]]) = <<>>
         /\ FlattenSeq([i \in 1 .. n |-> f[i]]) \in Seq(S)
         /\ FlattenSeq([i \in 1 .. n + 1 |-> f[i]]) = FlattenSeq(f)
         /\ FlattenSeq(f) = FlattenSeq([i \in 1 .. n |-> f[i]]) \o f[n + 1]
<1>1. FlattenSeq([i \in 1 .. 0 |-> f[i]]) = <<>>
  BY DEF FlattenSeq
<1>2. n + 1 \in Nat /\ n + 1 > 0 /\ f = [i \in 1 .. n + 1 |-> f[i]]
  OBVIOUS
<1>3. PICK g \in [1 .. n + 1 -> Seq(S)] : Joins(n + 1, f, g)
  BY <1>2, JoinsExist
<1>4. FlattenSeq(f) = g[n + 1]
  BY <1>2, <1>3, FlattenJoins
<1>5. CASE n = 0
  <2>1. g[n + 1] = f[n + 1] /\ f[n + 1] \in Seq(S) /\ FlattenSeq([i \in 1 .. n |-> f[i]]) = <<>>
    BY <1>1, <1>3, <1>5 DEF Joins
  <2>2. FlattenSeq(f) = <<>> \o f[n + 1]
    BY <1>4, <2>1
  <2>3. <<>> \in Seq(S)
    OBVIOUS
  <2>4. QED
    BY <1>1, <1>2, <2>1, <2>2, <2>3
<1>6. CASE n # 0
  <2> DEFINE f0 == [i \in 1 .. n |-> f[i]]
             g0 == [i \in 1 .. n |-> g[i]]
  <2>1. f0 \in [1 .. n -> Seq(S)] /\ g0 \in [1 .. n -> Seq(S)]
    OBVIOUS
  <2>2. Joins(n, f0, g0)
    <3>1. ASSUME NEW i \in 1 .. n
          PROVE  g0[i] = IF i = 1 THEN f0[i] ELSE g0[i - 1] \o f0[i]
      <4>1. i \in 1 .. n + 1 /\ (i # 1 => i - 1 \in 1 .. n)
        OBVIOUS
      <4>2. QED
        BY <1>3, <4>1 DEF Joins
    <3> HIDE DEF f0, g0
    <3>2. QED
      BY <3>1 DEF Joins
  <2>3. FlattenSeq(f0) = g0[n]
    <3>1. n > 0
      BY <1>6
    <3> HIDE DEF f0, g0
    <3>2. QED
      BY <2>1, <2>2, <3>1, FlattenJoins
  <2>4. g0[n] = g[n] /\ g[n] \in Seq(S)
    BY <1>6
  <2>5. g[n + 1] = g[n] \o f[n + 1]
    <3>1. n + 1 \in 1 .. n + 1 /\ n + 1 # 1 /\ n + 1 - 1 = n
      BY <1>6
    <3>2. \A i \in 1 .. n + 1 : i # 1 => g[i] = g[i - 1] \o f[i]
      BY <1>3 DEF Joins
    <3>3. \A m : m = n + 1 => g[m] = g[n] \o f[m]
      <4>1. ASSUME NEW m, m = n + 1
            PROVE  g[m] = g[n] \o f[m]
        <5>1. m \in 1 .. n + 1 /\ m # 1 /\ m - 1 = n
          BY <3>1, <4>1
        <5>2. g[m] = g[m - 1] \o f[m]
          BY <3>2, <5>1
        <5>3. QED
          BY <5>1, <5>2
      <4>2. QED
        BY <4>1
    <3>4. QED
      BY <3>3
  <2>6. QED
    BY <1>1, <1>2, <1>4, <2>3, <2>4, <2>5
<1>7. QED
  BY <1>5, <1>6

\* The first m parts.
Parts(f, m) == [i \in 1 .. m |-> f[i]]

\* A list of parts, one part more at a time.
LEMMA FlattenNext ==
  ASSUME NEW S, NEW n \in Nat, NEW f \in [1 .. n -> Seq(S)], NEW m \in 0 .. n - 1
  PROVE  /\ FlattenSeq(Parts(f, m)) \in Seq(S)
         /\ FlattenSeq(Parts(f, m + 1)) = FlattenSeq(Parts(f, m)) \o f[m + 1]
<1> USE DEF Parts
<1> DEFINE h == [i \in 1 .. m + 1 |-> f[i]]
<1>1. m \in Nat /\ h \in [1 .. m + 1 -> Seq(S)] /\ h[m + 1] = f[m + 1]
  OBVIOUS
<1>2. [i \in 1 .. m |-> h[i]] = [i \in 1 .. m |-> f[i]]
  OBVIOUS
<1>3. /\ FlattenSeq([i \in 1 .. m |-> h[i]]) \in Seq(S)
      /\ FlattenSeq(h) = FlattenSeq([i \in 1 .. m |-> h[i]]) \o h[m + 1]
  <2> HIDE DEF h
  <2> QED
    BY <1>1, FlattenLast
<1>4. QED
  BY <1>1, <1>2, <1>3

\* What is joined is a list of what the parts are lists of.
LEMMA FlattenTyped ==
  ASSUME NEW S, NEW n \in Nat, NEW f \in [1 .. n -> Seq(S)]
  PROVE  FlattenSeq(f) \in Seq(S)
<1>1. CASE n = 0
  BY <1>1 DEF FlattenSeq
<1>2. CASE n # 0
  <2>1. PICK m \in 0 .. n - 1 : n = m + 1
    <3>1. n - 1 \in 0 .. n - 1 /\ n = n - 1 + 1
      BY <1>2
    <3>2. QED
      BY <3>1
  <2>2. m \in Nat /\ f \in [1 .. m + 1 -> Seq(S)] /\ f[m + 1] \in Seq(S)
    BY <2>1
  <2>3. /\ FlattenSeq([i \in 1 .. m |-> f[i]]) \in Seq(S)
        /\ FlattenSeq(f) = FlattenSeq([i \in 1 .. m |-> f[i]]) \o f[m + 1]
    BY <2>2, FlattenLast
  <2>4. \A u, v \in Seq(S) : u \o v \in Seq(S)
    OBVIOUS
  <2>5. QED
    BY <2>2, <2>3, <2>4
<1>3. QED
  BY <1>1, <1>2

\* Of a list without repetitions, any selection is one without repetitions.
LEMMA SelectedOnce ==
  ASSUME NEW S, NEW s \in Seq(S), IsInjective(s), NEW K
  PROVE  IsInjective(FlattenSeq([k \in DOMAIN s |-> IF s[k] \in K THEN <<s[k]>> ELSE <<>>]))
<1> DEFINE n == Len(s)
           f == [k \in DOMAIN s |-> IF s[k] \in K THEN <<s[k]>> ELSE <<>>]
           F(m) == FlattenSeq(Parts(f, m))
           G == {m \in 0 .. n : /\ F(m) \in Seq(S)
                                /\ IsInjective(F(m))
                                /\ \A j \in 1 .. Len(F(m)) : \E k \in 1 .. m : F(m)[j] = s[k]}
<1>1. n \in Nat /\ f \in [1 .. n -> Seq(S)] /\ f = Parts(f, n)
  BY DEF Parts
<1>2. 0 \in G
  <2>1. F(0) = <<>>
    BY DEF FlattenSeq, Parts
  <2>2. <<>> \in Seq(S) /\ IsInjective(<<>>) /\ Len(<<>>) = 0
    BY DEF IsInjective
  <2> HIDE DEF F
  <2>3. F(0) \in Seq(S) /\ IsInjective(F(0)) /\ Len(F(0)) = 0
    BY <2>1, <2>2
  <2>4. QED
    BY <1>1, <2>3
<1>3. ASSUME NEW m \in 0 .. n - 1, m \in G
      PROVE  m + 1 \in G
  <2>1. /\ F(m) \in Seq(S)
        /\ F(m + 1) = F(m) \o f[m + 1]
    <3>1. m \in 0 .. n - 1
      OBVIOUS
    <3> HIDE DEF f, n
    <3>2. QED
      BY <1>1, <3>1, FlattenNext
  <2>2. /\ IsInjective(F(m))
        /\ \A j \in 1 .. Len(F(m)) : \E k \in 1 .. m : F(m)[j] = s[k]
    BY <1>3
  <2>3. m \in Nat /\ m + 1 \in 0 .. n /\ m + 1 \in DOMAIN s /\ s[m + 1] \in S
    BY <1>1
  <2> HIDE DEF F
  <2>4. CASE s[m + 1] \in K
    <3>1. f[m + 1] = <<s[m + 1]>>
      BY <2>3, <2>4
    <3> DEFINE h == F(m)
               g == F(m + 1)
               l == Len(h)
    <3>2. g = h \o <<s[m + 1]>> /\ h \in Seq(S)
      BY <2>1, <3>1
    <3>3. l \in Nat /\ g \in Seq(S) /\ Len(g) = l + 1
          /\ (\A j \in 1 .. l : g[j] = h[j]) /\ g[l + 1] = s[m + 1]
      <4> HIDE DEF h, g
      <4>1. \A x \in S : /\ h \o <<x>> \in Seq(S) /\ Len(h \o <<x>>) = Len(h) + 1
                         /\ \A j \in 1 .. Len(h) : (h \o <<x>>)[j] = h[j]
                         /\ (h \o <<x>>)[Len(h) + 1] = x
        BY <3>2
      <4>2. QED
        BY <2>3, <3>2, <4>1
    <3>4. \A j \in 1 .. l : g[j] # s[m + 1]
      <4>1. ASSUME NEW j \in 1 .. l, g[j] = s[m + 1]
            PROVE  FALSE
        <5>1. PICK k \in 1 .. m : h[j] = s[k]
          BY <2>2
        <5>2. k \in DOMAIN s /\ k # m + 1 /\ s[k] = s[m + 1]
          BY <1>1, <2>3, <3>3, <4>1, <5>1
        <5>3. QED
          BY <2>3, <5>2 DEF IsInjective
      <4>2. QED
        BY <4>1
    <3>5. \A i, j \in 1 .. l : h[i] = h[j] => i = j
      BY <2>1, <2>2 DEF IsInjective
    <3>6. IsInjective(g)
      <4>1. DOMAIN g = 1 .. l + 1
        BY <3>3
      <4>2. ASSUME NEW i \in 1 .. l + 1, NEW j \in 1 .. l + 1, g[i] = g[j]
            PROVE  i = j
        <5>1. (i \in 1 .. l \/ i = l + 1) /\ (j \in 1 .. l \/ j = l + 1)
          BY <3>3
        <5> HIDE DEF g, h, l
        <5>2. QED
          BY <3>3, <3>4, <3>5, <4>2, <5>1
      <4> HIDE DEF g, l
      <4>3. QED
        BY <4>1, <4>2 DEF IsInjective
    <3>7. \A j \in 1 .. Len(g) : \E k \in 1 .. m + 1 : g[j] = s[k]
      <4>1. ASSUME NEW j \in 1 .. l + 1
            PROVE  \E k \in 1 .. m + 1 : g[j] = s[k]
        <5>1. CASE j = l + 1
          BY <2>3, <3>3, <5>1
        <5>2. CASE j \in 1 .. l
          <6>1. PICK k \in 1 .. m : h[j] = s[k]
            BY <2>2, <5>2
          <6>2. k \in 1 .. m + 1 /\ g[j] = s[k]
            BY <2>3, <3>3, <5>2, <6>1
          <6>3. QED
            BY <6>2
        <5>3. QED
          BY <3>3, <5>1, <5>2
      <4>2. QED
        BY <3>3, <4>1
    <3>8. QED
      BY <2>3, <3>3, <3>6, <3>7
  <2>5. CASE s[m + 1] \notin K
    <3>1. f[m + 1] = <<>>
      BY <2>3, <2>5
    <3>2. F(m + 1) = F(m)
      <4>1. \A u \in Seq(S) : u \o <<>> = u
        OBVIOUS
      <4>2. QED
        BY <2>1, <3>1, <4>1
    <3>3. \A k \in 1 .. m : k \in 1 .. m + 1
      BY <2>3
    <3>4. QED
      BY <2>1, <2>2, <2>3, <3>2, <3>3
  <2>6. QED
    BY <2>4, <2>5
<1>4. n \in G
  <2> HIDE DEF G, n
  <2>1. \A m \in 0 .. n : m \in G
    BY <1>1, <1>2, <1>3, UpTo
  <2>2. QED
    BY <1>1, <2>1
<1>5. QED
  BY <1>1, <1>4

-----------------------------------------------------------------------------
(***************************************************************************)
(* Refusals.                                                               *)
(***************************************************************************)
Reasons ==
  {"build collector", "build publisher", "collector", "collector.type", "config", "docker",
   "homeassistant", "include_stopped", "interval", "job_name", "mqtt", "node_id", "package",
   "port", "publisher", "publisher.type", "resolver", "resolver key", "retain",
   "watch_by_default"}
Checks == Seq([of : Reasons, fails : BOOLEAN])

\* No check is called "none", which stands for no refusal.
LEMMA NoneIsNoReason == "none" \notin Reasons
BY DEF Reasons

\* The least number of a set.
LEMMA LeastIsMin ==
  ASSUME NEW D, D \subseteq Nat, D # {}
  PROVE  Min(D) \in D /\ \A k \in D : Min(D) <= k
<1>1. \E i \in D : \A k \in D : i <= k
  BY LeastNumber
<1>2. QED
  BY <1>1 DEF Min

\* A number of a set that is not above the others is its least one.
LEMMA MinIs ==
  ASSUME NEW D, D \subseteq Nat, NEW m \in D, \A k \in D : m <= k
  PROVE  Min(D) = m
<1>1. Min(D) \in D /\ Min(D) <= m /\ m <= Min(D) /\ Min(D) \in Nat /\ m \in Nat
  BY LeastIsMin
<1>2. QED
  BY <1>1

\* A check that is made alone.
LEMMA OneRefusal ==
  ASSUME NEW w \in Reasons
  PROVE  /\ Refuse(w, TRUE) \in Checks /\ FirstRefusal(Refuse(w, TRUE)) = w
         /\ Refuse(w, FALSE) \in Checks /\ FirstRefusal(Refuse(w, FALSE)) = "none"
<1>1. Refuse(w, TRUE) \in Checks /\ Refuse(w, FALSE) \in Checks
  BY DEF Refuse, Checks
<1>2. FirstRefusal(Refuse(w, TRUE)) = w
  <2> DEFINE s == Refuse(w, TRUE)
  <2>1. DOMAIN s = {1} /\ s[1].fails = TRUE /\ s[1].of = w
    BY DEF Refuse
  <2>2. {i \in DOMAIN s : s[i].fails} = {1}
    BY <2>1
  <2>3. Min({1}) = 1
    BY MinIs
  <2>4. QED
    BY <2>1, <2>2, <2>3 DEF FirstRefusal
<1>3. FirstRefusal(Refuse(w, FALSE)) = "none"
  <2> DEFINE s == Refuse(w, FALSE)
  <2>1. DOMAIN s = {1} /\ s[1].fails = FALSE
    BY DEF Refuse
  <2>2. {i \in DOMAIN s : s[i].fails} = {}
    BY <2>1
  <2>3. QED
    BY <2>2 DEF FirstRefusal
<1>4. QED
  BY <1>1, <1>2, <1>3

\* Later checks count only if no earlier one fails.
LEMMA RefusalsInOrder ==
  ASSUME NEW s \in Checks, NEW r \in Checks
  PROVE  /\ s \o r \in Checks
         /\ FirstRefusal(s \o r) =
              IF FirstRefusal(s) # "none" THEN FirstRefusal(s) ELSE FirstRefusal(r)
<1> DEFINE t == s \o r
           l == Len(s)
           Failed(u) == {i \in DOMAIN u : u[i].fails}
<1>1. t \in Checks /\ l \in Nat /\ Len(r) \in Nat /\ Len(t) = l + Len(r)
      /\ (\A i \in 1 .. l : t[i] = s[i]) /\ (\A i \in 1 .. Len(r) : t[l + i] = r[i])
  BY DEF Checks
<1>2. DOMAIN s = 1 .. l /\ DOMAIN r = 1 .. Len(r) /\ DOMAIN t = 1 .. l + Len(r)
  BY <1>1 DEF Checks
<1>3. \A u : FirstRefusal(u) = IF Failed(u) = {} THEN "none" ELSE u[Min(Failed(u))].of
  BY DEF FirstRefusal
<1>4. ASSUME NEW u \in Checks, NEW i \in DOMAIN u
      PROVE  u[i].of # "none"
  <2>1. i \in 1 .. Len(u)
    BY DEF Checks
  <2>2. u[i] \in [of : Reasons, fails : BOOLEAN]
    BY <2>1, ElementOfSeq DEF Checks
  <2>3. QED
    BY <2>2, NoneIsNoReason
<1> HIDE DEF t, l
<1>5. \A u \in Checks : Failed(u) \subseteq Nat
  BY DEF Checks
<1>6. CASE Failed(s) # {}
  <2>1. Min(Failed(s)) \in Failed(s) /\ \A k \in Failed(s) : Min(Failed(s)) <= k
    <3> HIDE DEF Failed
    <3> QED
      BY <1>5, <1>6, LeastIsMin
  <2>2. PICK m \in 1 .. l : m = Min(Failed(s)) /\ m \in Failed(s)
    BY <1>2, <2>1
  <2>3. m \in Failed(t)
    BY <1>1, <1>2, <2>2
  <2>4. \A k \in Failed(t) : m <= k
    <3>1. ASSUME NEW k \in Failed(t)
          PROVE  m <= k
      <4>1. CASE k \in 1 .. l
        <5>1. k \in Failed(s)
          BY <1>1, <1>2, <3>1, <4>1
        <5>2. QED
          BY <2>1, <2>2, <5>1
      <4>2. CASE k \notin 1 .. l
        BY <1>1, <1>2, <2>2, <4>2
      <4>3. QED
        BY <4>1, <4>2
    <3>2. QED
      BY <3>1
  <2>5. Min(Failed(t)) = m
    <3> HIDE DEF Failed
    <3> QED
      BY <1>1, <1>5, <2>3, <2>4, MinIs
  <2>6. t[m].of = s[m].of /\ s[m].of # "none"
    BY <1>1, <1>2, <1>4, <2>2
  <2> HIDE DEF Failed
  <2>7. FirstRefusal(t) = t[m].of /\ FirstRefusal(s) = s[m].of
    BY <1>3, <1>6, <2>2, <2>3, <2>5
  <2>8. QED
    BY <1>1, <2>6, <2>7 DEF t
<1>7. CASE Failed(s) = {}
  <2>1. \A k \in 1 .. l + Len(r) : k \in Failed(t) <=> k \notin 1 .. l /\ k - l \in Failed(r)
    <3>1. ASSUME NEW k \in 1 .. l + Len(r)
          PROVE  k \in Failed(t) <=> k \notin 1 .. l /\ k - l \in Failed(r)
      <4>1. CASE k \in 1 .. l
        BY <1>1, <1>2, <1>7, <4>1
      <4>2. CASE k \notin 1 .. l
        <5>1. k - l \in 1 .. Len(r) /\ l + (k - l) = k
          BY <1>1, <4>2
        <5>2. t[k] = r[k - l]
          BY <1>1, <5>1
        <5>3. QED
          BY <1>2, <4>2, <5>1, <5>2
      <4>3. QED
        BY <4>1, <4>2
    <3>2. QED
      BY <3>1
  <2>2. CASE Failed(r) = {}
    <3>1. Failed(t) = {}
      <4>1. \A k \in Failed(t) : k \in 1 .. l + Len(r)
        BY <1>2
      <4> HIDE DEF Failed
      <4>2. QED
        BY <2>1, <2>2, <4>1
    <3> HIDE DEF Failed
    <3>2. QED
      BY <1>1, <1>3, <1>7, <2>2, <3>1 DEF t
  <2>3. CASE Failed(r) # {}
    <3>1. Min(Failed(r)) \in Failed(r) /\ \A k \in Failed(r) : Min(Failed(r)) <= k
      <4> HIDE DEF Failed
      <4> QED
        BY <1>5, <2>3, LeastIsMin
    <3>2. PICK m \in 1 .. Len(r) : m = Min(Failed(r)) /\ m \in Failed(r)
      BY <1>2, <3>1
    <3>3. l + m \in 1 .. l + Len(r) /\ l + m \notin 1 .. l /\ l + m - l = m
      BY <1>1
    <3>4. l + m \in Failed(t)
      <4> HIDE DEF Failed
      <4>1. \A k \in 1 .. l + Len(r) : k \notin 1 .. l /\ k - l = m => k \in Failed(t)
        BY <2>1, <3>2
      <4>2. \A j : j = l + m => j \in Failed(t)
        <5>1. ASSUME NEW j, j = l + m
              PROVE  j \in Failed(t)
          <6>1. j \in 1 .. l + Len(r) /\ j \notin 1 .. l /\ j - l = m
            BY <1>1, <5>1
          <6>2. QED
            BY <4>1, <6>1
        <5>2. QED
          BY <5>1
      <4>3. QED
        BY <4>2
    <3>5. \A k \in Failed(t) : l + m <= k
      <4>1. ASSUME NEW k \in Failed(t)
            PROVE  l + m <= k
        <5>1. k \in 1 .. l + Len(r)
          BY <1>2
        <5> HIDE DEF Failed
        <5>2. k - l \in Failed(r)
          BY <2>1, <4>1, <5>1
        <5>3. m <= k - l
          BY <3>1, <3>2, <5>2
        <5>4. QED
          BY <1>1, <5>1, <5>3
      <4>2. QED
        BY <4>1
    <3>6. Min(Failed(t)) = l + m
      <4> HIDE DEF Failed
      <4> QED
        BY <1>1, <1>5, <3>4, <3>5, MinIs
    <3>7. t[l + m] = r[m]
      BY <1>1
    <3> HIDE DEF Failed
    <3>8. FirstRefusal(t) = r[m].of /\ FirstRefusal(r) = r[m].of /\ FirstRefusal(s) = "none"
      BY <1>3, <1>7, <2>3, <3>2, <3>4, <3>6, <3>7
    <3>9. QED
      BY <1>1, <3>8 DEF t
  <2>4. QED
    BY <2>2, <2>3
<1>8. QED
  BY <1>6, <1>7

\* One check, and one check more, in the words of its condition.
LEMMA FirstCheck ==
  ASSUME NEW w \in Reasons, NEW c \in BOOLEAN
  PROVE  /\ Refuse(w, c) \in Checks
         /\ FirstRefusal(Refuse(w, c)) = IF c THEN w ELSE "none"
<1>1. CASE c = TRUE
  BY <1>1, OneRefusal
<1>2. CASE c = FALSE
  BY <1>2, OneRefusal
<1>3. QED
  BY <1>1, <1>2

\* A check made after others: its word counts if they say nothing.
LEMMA NextRefusal ==
  ASSUME NEW s \in Checks, NEW w \in Reasons, NEW c \in BOOLEAN
  PROVE  /\ s \o Refuse(w, c) \in Checks
         /\ FirstRefusal(s \o Refuse(w, c)) =
              IF FirstRefusal(s) # "none" THEN FirstRefusal(s) ELSE IF c THEN w ELSE "none"
<1>1. CASE c = TRUE
  BY <1>1, OneRefusal, RefusalsInOrder
<1>2. CASE c = FALSE
  BY <1>2, OneRefusal, RefusalsInOrder
<1>3. QED
  BY <1>1, <1>2

\* What Load accepts, and what it knows when it refuses a resolver
\* (config.go:49-177).
LEMMA EnvRefusals ==
  ASSUME NEW env, NEW host, NEW c, c = EnvConfig(env, host)
  PROVE  /\ EnvRefusal(env, host) = "none" <=>
              /\ c.node # Unset /\ c.collector \in {Plain("docker"), Plain("package")}
              /\ c.collector # Empty /\ c.publisher # Empty /\ c.publisher = Plain("mqtt")
              /\ c.interval # Malformed /\ c.includeStopped # Malformed
              /\ c.watchByDefault # Malformed /\ c.resolver # Empty
              /\ c.resolver \in {Plain(w) : w \in {"brew_formula", "docker", "docker_hub", "none"}}
              /\ c.port # Malformed /\ c.retain # Malformed
              /\ HomeAssistantEnabled(env) # Malformed
         /\ EnvRefusal(env, host) = "resolver" =>
              /\ c.collector \in {Plain("docker"), Plain("package")}
              /\ \/ c.resolver = Empty
                 \/ c.resolver \notin
                      {Plain(w) : w \in {"brew_formula", "docker", "docker_hub", "none"}}
<1> DEFINE s1 == Refuse("node_id", c.node = Unset)
           s2 == s1 \o Refuse("collector.type", c.collector = Empty)
           s3 == s2 \o Refuse("publisher.type", c.publisher = Empty)
           s4 == s3 \o Refuse("interval", c.interval = Malformed)
           s5 == s4 \o Refuse("include_stopped", c.includeStopped = Malformed)
           s6 == s5 \o Refuse("watch_by_default", c.watchByDefault = Malformed)
           s7 == s6 \o Refuse("collector.type", c.collector \notin {Plain("docker"), Plain("package")})
           s8 == s7 \o Refuse("resolver", c.resolver = Empty)
           s9 == s8 \o Refuse("resolver", c.resolver \notin
                          {Plain(w) : w \in {"brew_formula", "docker", "docker_hub", "none"}})
           s10 == s9 \o Refuse("publisher.type", c.publisher # Plain("mqtt"))
           s11 == s10 \o Refuse("port", c.port = Malformed)
           s12 == s11 \o Refuse("retain", c.retain = Malformed)
           s13 == s12 \o Refuse("homeassistant", HomeAssistantEnabled(env) = Malformed)
<1>1. s1 \in Checks /\ FirstRefusal(s1) = IF c.node = Unset THEN "node_id" ELSE "none"
  <2>1. (c.node = Unset) \in BOOLEAN /\ "node_id" \in Reasons
    BY DEF Reasons
  <2>2. QED
    BY <2>1, FirstCheck, Zenon
<1>2. /\ s2 \in Checks
      /\ FirstRefusal(s2) = IF FirstRefusal(s1) # "none" THEN FirstRefusal(s1)
                            ELSE IF c.collector = Empty
                            THEN "collector.type" ELSE "none"
  <2> HIDE DEF s1
  <2>1. (c.collector = Empty) \in BOOLEAN /\ "collector.type" \in Reasons
    BY DEF Reasons
  <2>2. QED
    BY <2>1, <1>1, NextRefusal, Zenon
<1>3. /\ s3 \in Checks
      /\ FirstRefusal(s3) = IF FirstRefusal(s2) # "none" THEN FirstRefusal(s2)
                            ELSE IF c.publisher = Empty
                            THEN "publisher.type" ELSE "none"
  <2> HIDE DEF s2
  <2>1. (c.publisher = Empty) \in BOOLEAN /\ "publisher.type" \in Reasons
    BY DEF Reasons
  <2>2. QED
    BY <2>1, <1>2, NextRefusal, Zenon
<1>4. /\ s4 \in Checks
      /\ FirstRefusal(s4) = IF FirstRefusal(s3) # "none" THEN FirstRefusal(s3)
                            ELSE IF c.interval = Malformed
                            THEN "interval" ELSE "none"
  <2> HIDE DEF s3
  <2>1. (c.interval = Malformed) \in BOOLEAN /\ "interval" \in Reasons
    BY DEF Reasons
  <2>2. QED
    BY <2>1, <1>3, NextRefusal, Zenon
<1>5. /\ s5 \in Checks
      /\ FirstRefusal(s5) = IF FirstRefusal(s4) # "none" THEN FirstRefusal(s4)
                            ELSE IF c.includeStopped = Malformed
                            THEN "include_stopped" ELSE "none"
  <2> HIDE DEF s4
  <2>1. (c.includeStopped = Malformed) \in BOOLEAN /\ "include_stopped" \in Reasons
    BY DEF Reasons
  <2>2. QED
    BY <2>1, <1>4, NextRefusal, Zenon
<1>6. /\ s6 \in Checks
      /\ FirstRefusal(s6) = IF FirstRefusal(s5) # "none" THEN FirstRefusal(s5)
                            ELSE IF c.watchByDefault = Malformed
                            THEN "watch_by_default" ELSE "none"
  <2> HIDE DEF s5
  <2>1. (c.watchByDefault = Malformed) \in BOOLEAN /\ "watch_by_default" \in Reasons
    BY DEF Reasons
  <2>2. QED
    BY <2>1, <1>5, NextRefusal, Zenon
<1>7. /\ s7 \in Checks
      /\ FirstRefusal(s7) = IF FirstRefusal(s6) # "none" THEN FirstRefusal(s6)
                            ELSE IF c.collector \notin {Plain("docker"), Plain("package")}
                            THEN "collector.type" ELSE "none"
  <2> HIDE DEF s6
  <2>1. (c.collector \notin {Plain("docker"), Plain("package")}) \in BOOLEAN /\ "collector.type" \in Reasons
    BY DEF Reasons
  <2>2. QED
    BY <2>1, <1>6, NextRefusal, Zenon
<1>8. /\ s8 \in Checks
      /\ FirstRefusal(s8) = IF FirstRefusal(s7) # "none" THEN FirstRefusal(s7)
                            ELSE IF c.resolver = Empty
                            THEN "resolver" ELSE "none"
  <2> HIDE DEF s7
  <2>1. (c.resolver = Empty) \in BOOLEAN /\ "resolver" \in Reasons
    BY DEF Reasons
  <2>2. QED
    BY <2>1, <1>7, NextRefusal, Zenon
<1>9. /\ s9 \in Checks
      /\ FirstRefusal(s9) = IF FirstRefusal(s8) # "none" THEN FirstRefusal(s8)
                            ELSE IF c.resolver \notin {Plain(w) : w \in {"brew_formula", "docker", "docker_hub", "none"}}
                            THEN "resolver" ELSE "none"
  <2> HIDE DEF s8
  <2>1. (c.resolver \notin {Plain(w) : w \in {"brew_formula", "docker", "docker_hub", "none"}}) \in BOOLEAN /\ "resolver" \in Reasons
    BY DEF Reasons
  <2>2. QED
    BY <2>1, <1>8, NextRefusal, Zenon
<1>10. /\ s10 \in Checks
      /\ FirstRefusal(s10) = IF FirstRefusal(s9) # "none" THEN FirstRefusal(s9)
                            ELSE IF c.publisher # Plain("mqtt")
                            THEN "publisher.type" ELSE "none"
  <2> HIDE DEF s9
  <2>1. (c.publisher # Plain("mqtt")) \in BOOLEAN /\ "publisher.type" \in Reasons
    BY DEF Reasons
  <2>2. QED
    BY <2>1, <1>9, NextRefusal, Zenon
<1>11. /\ s11 \in Checks
      /\ FirstRefusal(s11) = IF FirstRefusal(s10) # "none" THEN FirstRefusal(s10)
                            ELSE IF c.port = Malformed
                            THEN "port" ELSE "none"
  <2> HIDE DEF s10
  <2>1. (c.port = Malformed) \in BOOLEAN /\ "port" \in Reasons
    BY DEF Reasons
  <2>2. QED
    BY <2>1, <1>10, NextRefusal, Zenon
<1>12. /\ s12 \in Checks
      /\ FirstRefusal(s12) = IF FirstRefusal(s11) # "none" THEN FirstRefusal(s11)
                            ELSE IF c.retain = Malformed
                            THEN "retain" ELSE "none"
  <2> HIDE DEF s11
  <2>1. (c.retain = Malformed) \in BOOLEAN /\ "retain" \in Reasons
    BY DEF Reasons
  <2>2. QED
    BY <2>1, <1>11, NextRefusal, Zenon
<1>13. /\ s13 \in Checks
      /\ FirstRefusal(s13) = IF FirstRefusal(s12) # "none" THEN FirstRefusal(s12)
                            ELSE IF HomeAssistantEnabled(env) = Malformed
                            THEN "homeassistant" ELSE "none"
  <2> HIDE DEF s12
  <2>1. (HomeAssistantEnabled(env) = Malformed) \in BOOLEAN /\ "homeassistant" \in Reasons
    BY DEF Reasons
  <2>2. QED
    BY <2>1, <1>12, NextRefusal, Zenon
<1>14. EnvRefusal(env, host) = FirstRefusal(s13)
  BY DEF EnvRefusal
<1> HIDE DEF s1, s2, s3, s4, s5, s6, s7, s8, s9, s10, s11, s12, s13
<1>15. QED
  BY <1>1, <1>2, <1>3, <1>4, <1>5, <1>6, <1>7, <1>8, <1>9, <1>10, <1>11, <1>12, <1>13, <1>14

\* A mapping is refused for its keys or not.
LEMMA KeysRefused ==
  ASSUME NEW w \in Reasons, NEW doc, NEW path, NEW allowed
  PROVE  /\ validateKeys(w, doc, path, allowed) \in Checks
         /\ FirstRefusal(validateKeys(w, doc, path, allowed)) \in {w, "none"}
<1> DEFINE c == \E p \in DOMAIN doc : Len(p) = Len(path) + 1 /\ IsPrefix(path, p) /\ Last(p) \notin allowed
<1>1. c \in BOOLEAN
  OBVIOUS
<1>2. validateKeys(w, doc, path, allowed) = Refuse(w, c)
  BY DEF validateKeys
<1> HIDE DEF c
<1>3. QED
  BY <1>1, <1>2, FirstCheck, Zenon

\* A mapping that has only keys it may have is not refused for them.
LEMMA KeysAccepted ==
  ASSUME NEW w \in Reasons, NEW doc, NEW path, NEW allowed,
         \A p \in DOMAIN doc : Len(p) = Len(path) + 1 /\ IsPrefix(path, p) => Last(p) \in allowed
  PROVE  FirstRefusal(validateKeys(w, doc, path, allowed)) = "none"
<1> DEFINE c == \E p \in DOMAIN doc : Len(p) = Len(path) + 1 /\ IsPrefix(path, p) /\ Last(p) \notin allowed
<1>1. c \in BOOLEAN /\ ~ c
  OBVIOUS
<1>2. validateKeys(w, doc, path, allowed) = Refuse(w, c)
  BY DEF validateKeys
<1> HIDE DEF c
<1>3. QED
  BY <1>1, <1>2, FirstCheck, Zenon

\* The mapping of a collector has no other keys than these, and is one.
CollectorPasses(doc, c) ==
  IF c.collector = Plain("docker")
  THEN /\ optionalMapValue(doc, <<"collector", "docker">>) # Malformed
       /\ FirstRefusal(validateKeys("docker", doc, <<"collector", "docker">>, {"endpoint", "include_stopped", "watch_by_default"})) = "none"
       /\ Malformed \notin {c.endpoint, c.includeStopped, c.watchByDefault}
  ELSE /\ optionalMapValue(doc, <<"collector", "package">>) # Malformed
       /\ FirstRefusal(validateKeys("package", doc, <<"collector", "package">>, {"manager", "names"})) = "none"
       /\ Malformed \notin {c.manager, c.names}

\* What the settings of a collector are refused for (config_file.go:97-155).
LEMMA CollectorRefused ==
  ASSUME NEW doc, NEW c
  PROVE  /\ CollectorRefusals(doc, c) \in Checks
         /\ FirstRefusal(CollectorRefusals(doc, c)) \in {"docker", "package", "none"}
         /\ FirstRefusal(CollectorRefusals(doc, c)) = "none" <=> CollectorPasses(doc, c)
<1> USE DEF CollectorRefusals
<1>1. CASE c.collector = Plain("docker")
  <2> DEFINE s1 == Refuse("docker", optionalMapValue(doc, <<"collector", "docker">>) = Malformed)
             s2 == s1 \o validateKeys("docker", doc, <<"collector", "docker">>, {"endpoint", "include_stopped", "watch_by_default"})
             s3 == s2 \o Refuse("docker", Malformed \in {c.endpoint, c.includeStopped, c.watchByDefault})
  <2>1. /\ s1 \in Checks /\ FirstRefusal(s1) \in {"docker", "none"}
        /\ FirstRefusal(s1) = "none" <=> ~ (optionalMapValue(doc, <<"collector", "docker">>) = Malformed)
    <3>1. (optionalMapValue(doc, <<"collector", "docker">>) = Malformed) \in BOOLEAN /\ "docker" \in Reasons /\ "docker" # "none"
      BY NoneIsNoReason DEF Reasons
    <3>2. QED
      BY <3>1, FirstCheck, Zenon
  <2>2. /\ s2 \in Checks /\ FirstRefusal(s2) \in {"docker", "none"}
        /\ FirstRefusal(s2) = "none" <=> /\ FirstRefusal(s1) = "none"
                                         /\ FirstRefusal(validateKeys("docker", doc, <<"collector", "docker">>, {"endpoint", "include_stopped", "watch_by_default"})) = "none"
    <3> HIDE DEF s1
    <3> DEFINE v == validateKeys("docker", doc, <<"collector", "docker">>, {"endpoint", "include_stopped", "watch_by_default"})
    <3>1. "docker" \in Reasons
      BY DEF Reasons
    <3>2. v \in Checks /\ FirstRefusal(v) \in {"docker", "none"}
      BY <3>1, KeysRefused, Zenon
    <3> HIDE DEF v
    <3>3. s1 \o v \in Checks
          /\ FirstRefusal(s1 \o v) = IF FirstRefusal(s1) # "none" THEN FirstRefusal(s1)
                                    ELSE FirstRefusal(v)
      BY <2>1, <3>2, RefusalsInOrder, Zenon
    <3>4. FirstRefusal(s1 \o v) \in {"docker", "none"}
      BY <2>1, <3>2, <3>3
    <3>5. QED
      BY <3>3, <3>4 DEF v
  <2>3. /\ s3 \in Checks /\ FirstRefusal(s3) \in {"docker", "none"}
        /\ FirstRefusal(s3) = "none" <=> FirstRefusal(s2) = "none" /\ ~ (Malformed \in {c.endpoint, c.includeStopped, c.watchByDefault})
    <3> HIDE DEF s2
    <3>1. (Malformed \in {c.endpoint, c.includeStopped, c.watchByDefault}) \in BOOLEAN /\ "docker" \in Reasons /\ "docker" # "none"
      BY NoneIsNoReason DEF Reasons
    <3>2. QED
      BY <3>1, <2>2, NextRefusal, Zenon
  <2>4. CollectorRefusals(doc, c) = s3
    BY <1>1
  <2> HIDE DEF s1, s2, s3
  <2>5. QED
    BY <1>1, <2>1, <2>2, <2>3, <2>4 DEF CollectorPasses
<1>2. CASE c.collector # Plain("docker")
  <2> DEFINE s1 == Refuse("package", optionalMapValue(doc, <<"collector", "package">>) = Malformed)
             s2 == s1 \o validateKeys("package", doc, <<"collector", "package">>, {"manager", "names"})
             s3 == s2 \o Refuse("package", Malformed \in {c.manager, c.names})
  <2>1. /\ s1 \in Checks /\ FirstRefusal(s1) \in {"package", "none"}
        /\ FirstRefusal(s1) = "none" <=> ~ (optionalMapValue(doc, <<"collector", "package">>) = Malformed)
    <3>1. (optionalMapValue(doc, <<"collector", "package">>) = Malformed) \in BOOLEAN /\ "package" \in Reasons /\ "package" # "none"
      BY NoneIsNoReason DEF Reasons
    <3>2. QED
      BY <3>1, FirstCheck, Zenon
  <2>2. /\ s2 \in Checks /\ FirstRefusal(s2) \in {"package", "none"}
        /\ FirstRefusal(s2) = "none" <=> /\ FirstRefusal(s1) = "none"
                                         /\ FirstRefusal(validateKeys("package", doc, <<"collector", "package">>, {"manager", "names"})) = "none"
    <3> HIDE DEF s1
    <3> DEFINE v == validateKeys("package", doc, <<"collector", "package">>, {"manager", "names"})
    <3>1. "package" \in Reasons
      BY DEF Reasons
    <3>2. v \in Checks /\ FirstRefusal(v) \in {"package", "none"}
      BY <3>1, KeysRefused, Zenon
    <3> HIDE DEF v
    <3>3. s1 \o v \in Checks
          /\ FirstRefusal(s1 \o v) = IF FirstRefusal(s1) # "none" THEN FirstRefusal(s1)
                                    ELSE FirstRefusal(v)
      BY <2>1, <3>2, RefusalsInOrder, Zenon
    <3>4. FirstRefusal(s1 \o v) \in {"package", "none"}
      BY <2>1, <3>2, <3>3
    <3>5. QED
      BY <3>3, <3>4 DEF v
  <2>3. /\ s3 \in Checks /\ FirstRefusal(s3) \in {"package", "none"}
        /\ FirstRefusal(s3) = "none" <=> FirstRefusal(s2) = "none" /\ ~ (Malformed \in {c.manager, c.names})
    <3> HIDE DEF s2
    <3>1. (Malformed \in {c.manager, c.names}) \in BOOLEAN /\ "package" \in Reasons /\ "package" # "none"
      BY NoneIsNoReason DEF Reasons
    <3>2. QED
      BY <3>1, <2>2, NextRefusal, Zenon
  <2>4. CollectorRefusals(doc, c) = s3
    BY <1>2
  <2> HIDE DEF s1, s2, s3
  <2>5. QED
    BY <1>2, <2>1, <2>2, <2>3, <2>4 DEF CollectorPasses
<1>3. QED
  BY <1>1, <1>2

\* The mappings of a publisher have no other keys than these, and are there.
PublisherPasses(doc, c) ==
  /\ optionalMapValue(doc, <<"publisher">>) \notin {Unset, Malformed}
  /\ FirstRefusal(validateKeys("publisher", doc, <<"publisher">>, {"mqtt", "type"})) = "none"
  /\ c.publisher = Plain("mqtt")
  /\ optionalMapValue(doc, <<"publisher", "mqtt">>) \notin {Unset, Malformed}
  /\ FirstRefusal(validateKeys("mqtt", doc, <<"publisher", "mqtt">>, {"client_id_prefix", "connect_timeout", "host", "homeassistant", "password", "port", "retain", "topic_prefix", "username"})) = "none"
  /\ Malformed \notin {c.host, c.username, c.password, c.topicPrefix, c.clientIDPrefix, c.connectTimeout}
  /\ c.port # Malformed /\ c.retain # Malformed
  /\ FirstRefusal(validateKeys("homeassistant", doc, HomeAssistant, {"discovery_prefix", "enabled"})) = "none"
  /\ ~ (c.homeAssistant # Unset /\ Malformed \in {c.homeAssistant.enabled, c.homeAssistant.prefix})

\* What the settings of a publisher are refused for (config_file.go:162-277).
LEMMA PublisherRefused ==
  ASSUME NEW doc, NEW c
  PROVE  /\ PublisherRefusals(doc, c) \in Checks
         /\ FirstRefusal(PublisherRefusals(doc, c)) # "resolver"
         /\ FirstRefusal(PublisherRefusals(doc, c)) = "none" <=> PublisherPasses(doc, c)
<1> DEFINE s1 == Refuse("publisher", optionalMapValue(doc, <<"publisher">>) \in {Unset, Malformed})
           s2 == s1 \o validateKeys("publisher", doc, <<"publisher">>, {"mqtt", "type"})
           s3 == s2 \o Refuse("publisher.type", c.publisher # Plain("mqtt"))
           s4 == s3 \o Refuse("mqtt", optionalMapValue(doc, <<"publisher", "mqtt">>) \in {Unset, Malformed})
           s5 == s4 \o validateKeys("mqtt", doc, <<"publisher", "mqtt">>, {"client_id_prefix", "connect_timeout", "host", "homeassistant", "password", "port", "retain", "topic_prefix", "username"})
           s6 == s5 \o Refuse("mqtt", Malformed \in {c.host, c.username, c.password, c.topicPrefix, c.clientIDPrefix, c.connectTimeout})
           s7 == s6 \o Refuse("port", c.port = Malformed)
           s8 == s7 \o Refuse("retain", c.retain = Malformed)
           s9 == s8 \o validateKeys("homeassistant", doc, HomeAssistant, {"discovery_prefix", "enabled"})
           s10 == s9 \o Refuse("homeassistant", c.homeAssistant # Unset /\ Malformed \in {c.homeAssistant.enabled, c.homeAssistant.prefix})
<1>1. s1 \in Checks /\ FirstRefusal(s1) = IF optionalMapValue(doc, <<"publisher">>) \in {Unset, Malformed} THEN "publisher" ELSE "none"
  <2>1. (optionalMapValue(doc, <<"publisher">>) \in {Unset, Malformed}) \in BOOLEAN /\ "publisher" \in Reasons
    BY DEF Reasons
  <2>2. QED
    BY <2>1, FirstCheck, Zenon
<1>2. /\ s2 \in Checks
      /\ FirstRefusal(s2) = IF FirstRefusal(s1) # "none" THEN FirstRefusal(s1)
                            ELSE FirstRefusal(validateKeys("publisher", doc, <<"publisher">>, {"mqtt", "type"}))
      /\ FirstRefusal(validateKeys("publisher", doc, <<"publisher">>, {"mqtt", "type"})) \in {"publisher", "none"}
  <2> HIDE DEF s1
  <2>1. "publisher" \in Reasons
    BY DEF Reasons
  <2>2. QED
    BY <2>1, <1>1, KeysRefused, RefusalsInOrder, Zenon
<1>3. /\ s3 \in Checks
      /\ FirstRefusal(s3) = IF FirstRefusal(s2) # "none" THEN FirstRefusal(s2)
                            ELSE IF c.publisher # Plain("mqtt")
                            THEN "publisher.type" ELSE "none"
  <2> HIDE DEF s2
  <2>1. (c.publisher # Plain("mqtt")) \in BOOLEAN /\ "publisher.type" \in Reasons
    BY DEF Reasons
  <2>2. QED
    BY <2>1, <1>2, NextRefusal, Zenon
<1>4. /\ s4 \in Checks
      /\ FirstRefusal(s4) = IF FirstRefusal(s3) # "none" THEN FirstRefusal(s3)
                            ELSE IF optionalMapValue(doc, <<"publisher", "mqtt">>) \in {Unset, Malformed}
                            THEN "mqtt" ELSE "none"
  <2> HIDE DEF s3
  <2>1. (optionalMapValue(doc, <<"publisher", "mqtt">>) \in {Unset, Malformed}) \in BOOLEAN /\ "mqtt" \in Reasons
    BY DEF Reasons
  <2>2. QED
    BY <2>1, <1>3, NextRefusal, Zenon
<1>5. /\ s5 \in Checks
      /\ FirstRefusal(s5) = IF FirstRefusal(s4) # "none" THEN FirstRefusal(s4)
                            ELSE FirstRefusal(validateKeys("mqtt", doc, <<"publisher", "mqtt">>, {"client_id_prefix", "connect_timeout", "host", "homeassistant", "password", "port", "retain", "topic_prefix", "username"}))
      /\ FirstRefusal(validateKeys("mqtt", doc, <<"publisher", "mqtt">>, {"client_id_prefix", "connect_timeout", "host", "homeassistant", "password", "port", "retain", "topic_prefix", "username"})) \in {"mqtt", "none"}
  <2> HIDE DEF s4
  <2>1. "mqtt" \in Reasons
    BY DEF Reasons
  <2>2. QED
    BY <2>1, <1>4, KeysRefused, RefusalsInOrder, Zenon
<1>6. /\ s6 \in Checks
      /\ FirstRefusal(s6) = IF FirstRefusal(s5) # "none" THEN FirstRefusal(s5)
                            ELSE IF Malformed \in {c.host, c.username, c.password, c.topicPrefix, c.clientIDPrefix, c.connectTimeout}
                            THEN "mqtt" ELSE "none"
  <2> HIDE DEF s5
  <2>1. (Malformed \in {c.host, c.username, c.password, c.topicPrefix, c.clientIDPrefix, c.connectTimeout}) \in BOOLEAN /\ "mqtt" \in Reasons
    BY DEF Reasons
  <2>2. QED
    BY <2>1, <1>5, NextRefusal, Zenon
<1>7. /\ s7 \in Checks
      /\ FirstRefusal(s7) = IF FirstRefusal(s6) # "none" THEN FirstRefusal(s6)
                            ELSE IF c.port = Malformed
                            THEN "port" ELSE "none"
  <2> HIDE DEF s6
  <2>1. (c.port = Malformed) \in BOOLEAN /\ "port" \in Reasons
    BY DEF Reasons
  <2>2. QED
    BY <2>1, <1>6, NextRefusal, Zenon
<1>8. /\ s8 \in Checks
      /\ FirstRefusal(s8) = IF FirstRefusal(s7) # "none" THEN FirstRefusal(s7)
                            ELSE IF c.retain = Malformed
                            THEN "retain" ELSE "none"
  <2> HIDE DEF s7
  <2>1. (c.retain = Malformed) \in BOOLEAN /\ "retain" \in Reasons
    BY DEF Reasons
  <2>2. QED
    BY <2>1, <1>7, NextRefusal, Zenon
<1>9. /\ s9 \in Checks
      /\ FirstRefusal(s9) = IF FirstRefusal(s8) # "none" THEN FirstRefusal(s8)
                            ELSE FirstRefusal(validateKeys("homeassistant", doc, HomeAssistant, {"discovery_prefix", "enabled"}))
      /\ FirstRefusal(validateKeys("homeassistant", doc, HomeAssistant, {"discovery_prefix", "enabled"})) \in {"homeassistant", "none"}
  <2> HIDE DEF s8
  <2>1. "homeassistant" \in Reasons
    BY DEF Reasons
  <2>2. QED
    BY <2>1, <1>8, KeysRefused, RefusalsInOrder, Zenon
<1>10. /\ s10 \in Checks
      /\ FirstRefusal(s10) = IF FirstRefusal(s9) # "none" THEN FirstRefusal(s9)
                            ELSE IF c.homeAssistant # Unset /\ Malformed \in {c.homeAssistant.enabled, c.homeAssistant.prefix}
                            THEN "homeassistant" ELSE "none"
  <2> HIDE DEF s9
  <2>1. (c.homeAssistant # Unset /\ Malformed \in {c.homeAssistant.enabled, c.homeAssistant.prefix}) \in BOOLEAN /\ "homeassistant" \in Reasons
    BY DEF Reasons
  <2>2. QED
    BY <2>1, <1>9, NextRefusal, Zenon
<1>11. PublisherRefusals(doc, c) = s10
  BY DEF PublisherRefusals
<1> HIDE DEF s1, s2, s3, s4, s5, s6, s7, s8, s9, s10
<1>12. QED
  BY <1>1, <1>2, <1>3, <1>4, <1>5, <1>6, <1>7, <1>8, <1>9, <1>10, <1>11 DEF PublisherPasses

\* What LoadFromFile accepts, and what it knows when it refuses a resolver
\* (config_file.go:39-280).
LEMMA FileRefusals ==
  ASSUME NEW doc, NEW host, NEW c, c = FileConfig(doc, host)
  PROVE  /\ FileRefusal(doc, host) = "none" <=>
              /\ <<"resolver">> \notin DOMAIN doc
              /\ FirstRefusal(validateKeys("config", doc, <<>>, {"collector", "interval", "job_name", "node_id", "publisher"})) = "none"
              /\ c.node \notin {Unset, Malformed} /\ c.interval # Malformed
              /\ optionalMapValue(doc, Collector) \notin {Unset, Malformed}
              /\ FirstRefusal(validateKeys("collector", doc, Collector, {"docker", "package", "type"})) = "none"
              /\ c.collector \notin {Empty, Malformed} /\ c.job # Malformed
              /\ c.collector \in {Plain("docker"), Plain("package")}
              /\ CollectorPasses(doc, c) /\ c.resolver # Empty /\ PublisherPasses(doc, c)
         /\ FileRefusal(doc, host) = "resolver" =>
              /\ c.collector \in {Plain("docker"), Plain("package")}
              /\ CollectorPasses(doc, c) /\ c.resolver = Empty
<1> DEFINE s1 == Refuse("resolver key", <<"resolver">> \in DOMAIN doc)
           s2 == s1 \o validateKeys("config", doc, <<>>, {"collector", "interval", "job_name", "node_id", "publisher"})
           s3 == s2 \o Refuse("node_id", c.node \in {Unset, Malformed})
           s4 == s3 \o Refuse("interval", c.interval = Malformed)
           s5 == s4 \o Refuse("collector", optionalMapValue(doc, Collector) \in {Unset, Malformed})
           s6 == s5 \o validateKeys("collector", doc, Collector, {"docker", "package", "type"})
           s7 == s6 \o Refuse("collector.type", c.collector \in {Empty, Malformed})
           s8 == s7 \o Refuse("job_name", c.job = Malformed)
           s9 == s8 \o Refuse("collector.type", c.collector \notin {Plain("docker"), Plain("package")})
           s10 == s9 \o CollectorRefusals(doc, c)
           s11 == s10 \o Refuse("resolver", c.resolver = Empty)
           s12 == s11 \o PublisherRefusals(doc, c)
<1>1. s1 \in Checks /\ FirstRefusal(s1) = IF <<"resolver">> \in DOMAIN doc THEN "resolver key" ELSE "none"
  <2>1. (<<"resolver">> \in DOMAIN doc) \in BOOLEAN /\ "resolver key" \in Reasons
    BY DEF Reasons
  <2>2. QED
    BY <2>1, FirstCheck, Zenon
<1>2. /\ s2 \in Checks
      /\ FirstRefusal(s2) = IF FirstRefusal(s1) # "none" THEN FirstRefusal(s1)
                            ELSE FirstRefusal(validateKeys("config", doc, <<>>, {"collector", "interval", "job_name", "node_id", "publisher"}))
      /\ FirstRefusal(validateKeys("config", doc, <<>>, {"collector", "interval", "job_name", "node_id", "publisher"})) \in {"config", "none"}
  <2> HIDE DEF s1
  <2>1. "config" \in Reasons
    BY DEF Reasons
  <2>2. QED
    BY <2>1, <1>1, KeysRefused, RefusalsInOrder, Zenon
<1>3. /\ s3 \in Checks
      /\ FirstRefusal(s3) = IF FirstRefusal(s2) # "none" THEN FirstRefusal(s2)
                            ELSE IF c.node \in {Unset, Malformed}
                            THEN "node_id" ELSE "none"
  <2> HIDE DEF s2
  <2>1. (c.node \in {Unset, Malformed}) \in BOOLEAN /\ "node_id" \in Reasons
    BY DEF Reasons
  <2>2. QED
    BY <2>1, <1>2, NextRefusal, Zenon
<1>4. /\ s4 \in Checks
      /\ FirstRefusal(s4) = IF FirstRefusal(s3) # "none" THEN FirstRefusal(s3)
                            ELSE IF c.interval = Malformed
                            THEN "interval" ELSE "none"
  <2> HIDE DEF s3
  <2>1. (c.interval = Malformed) \in BOOLEAN /\ "interval" \in Reasons
    BY DEF Reasons
  <2>2. QED
    BY <2>1, <1>3, NextRefusal, Zenon
<1>5. /\ s5 \in Checks
      /\ FirstRefusal(s5) = IF FirstRefusal(s4) # "none" THEN FirstRefusal(s4)
                            ELSE IF optionalMapValue(doc, Collector) \in {Unset, Malformed}
                            THEN "collector" ELSE "none"
  <2> HIDE DEF s4
  <2>1. (optionalMapValue(doc, Collector) \in {Unset, Malformed}) \in BOOLEAN /\ "collector" \in Reasons
    BY DEF Reasons
  <2>2. QED
    BY <2>1, <1>4, NextRefusal, Zenon
<1>6. /\ s6 \in Checks
      /\ FirstRefusal(s6) = IF FirstRefusal(s5) # "none" THEN FirstRefusal(s5)
                            ELSE FirstRefusal(validateKeys("collector", doc, Collector, {"docker", "package", "type"}))
      /\ FirstRefusal(validateKeys("collector", doc, Collector, {"docker", "package", "type"})) \in {"collector", "none"}
  <2> HIDE DEF s5
  <2>1. "collector" \in Reasons
    BY DEF Reasons
  <2>2. QED
    BY <2>1, <1>5, KeysRefused, RefusalsInOrder, Zenon
<1>7. /\ s7 \in Checks
      /\ FirstRefusal(s7) = IF FirstRefusal(s6) # "none" THEN FirstRefusal(s6)
                            ELSE IF c.collector \in {Empty, Malformed}
                            THEN "collector.type" ELSE "none"
  <2> HIDE DEF s6
  <2>1. (c.collector \in {Empty, Malformed}) \in BOOLEAN /\ "collector.type" \in Reasons
    BY DEF Reasons
  <2>2. QED
    BY <2>1, <1>6, NextRefusal, Zenon
<1>8. /\ s8 \in Checks
      /\ FirstRefusal(s8) = IF FirstRefusal(s7) # "none" THEN FirstRefusal(s7)
                            ELSE IF c.job = Malformed
                            THEN "job_name" ELSE "none"
  <2> HIDE DEF s7
  <2>1. (c.job = Malformed) \in BOOLEAN /\ "job_name" \in Reasons
    BY DEF Reasons
  <2>2. QED
    BY <2>1, <1>7, NextRefusal, Zenon
<1>9. /\ s9 \in Checks
      /\ FirstRefusal(s9) = IF FirstRefusal(s8) # "none" THEN FirstRefusal(s8)
                            ELSE IF c.collector \notin {Plain("docker"), Plain("package")}
                            THEN "collector.type" ELSE "none"
  <2> HIDE DEF s8
  <2>1. (c.collector \notin {Plain("docker"), Plain("package")}) \in BOOLEAN /\ "collector.type" \in Reasons
    BY DEF Reasons
  <2>2. QED
    BY <2>1, <1>8, NextRefusal, Zenon
<1>10. /\ s10 \in Checks
      /\ FirstRefusal(s10) = IF FirstRefusal(s9) # "none" THEN FirstRefusal(s9)
                            ELSE FirstRefusal(CollectorRefusals(doc, c))
  <2> HIDE DEF s9
  <2>1. QED
    BY <1>9, CollectorRefused, RefusalsInOrder, Zenon
<1>11. /\ s11 \in Checks
      /\ FirstRefusal(s11) = IF FirstRefusal(s10) # "none" THEN FirstRefusal(s10)
                            ELSE IF c.resolver = Empty
                            THEN "resolver" ELSE "none"
  <2> HIDE DEF s10
  <2>1. (c.resolver = Empty) \in BOOLEAN /\ "resolver" \in Reasons
    BY DEF Reasons
  <2>2. QED
    BY <2>1, <1>10, NextRefusal, Zenon
<1>12. /\ s12 \in Checks
      /\ FirstRefusal(s12) = IF FirstRefusal(s11) # "none" THEN FirstRefusal(s11)
                            ELSE FirstRefusal(PublisherRefusals(doc, c))
  <2> HIDE DEF s11
  <2>1. QED
    BY <1>11, PublisherRefused, RefusalsInOrder, Zenon
<1>13. FileRefusal(doc, host) = FirstRefusal(s12)
  BY DEF FileRefusal
<1> HIDE DEF s1, s2, s3, s4, s5, s6, s7, s8, s9, s10, s11, s12
<1>14. QED
  BY <1>1, <1>2, <1>3, <1>4, <1>5, <1>6, <1>7, <1>8, <1>9, <1>10, <1>11, <1>12, <1>13, CollectorRefused, PublisherRefused

-----------------------------------------------------------------------------
(***************************************************************************)
(* The lines of a document, and what belongs to what by indentation.       *)
(***************************************************************************)
Lines == Seq({l \in LineRecord : l.form = "item" => l.value # Nothing})

\* The fields of a line.
LEMMA LineFields ==
  ASSUME NEW ls \in Lines, NEW i \in 1 .. Len(ls)
  PROVE  /\ ls[i].indent \in Nat /\ ls[i].form \in Forms /\ ls[i].key \in Keys \cup {Nothing}
         /\ ls[i].value \in Scalar \cup {Nothing}
         /\ ls[i].form = "item" => ls[i].value # Nothing
<1>1. ls[i] \in {l \in LineRecord : l.form = "item" => l.value # Nothing}
  BY ElementOfSeq DEF Lines
<1>2. QED
  BY <1>1 DEF LineRecord

\* The numbers of the lines.
LEMMA LineNumbers ==
  ASSUME NEW ls \in Lines
  PROVE  Len(ls) \in Nat /\ DOMAIN ls = 1 .. Len(ls) /\ (ls # <<>> => Len(ls) > 0)
BY DEF Lines

\* The greatest number of a set.
LEMMA GreatestIsMax ==
  ASSUME NEW n \in Nat, NEW D, D \subseteq 0 .. n, D # {}
  PROVE  Max(D) \in D /\ \A k \in D : k <= Max(D)
<1> DEFINE C == {n - k : k \in D}
<1>1. C \subseteq Nat /\ C # {}
  <2>1. \A k \in D : n - k \in Nat
    OBVIOUS
  <2>2. PICK k : k \in D
    OBVIOUS
  <2>3. n - k \in C
    BY <2>2
  <2>4. QED
    BY <2>1, <2>3
<1>2. PICK c \in C : \A k \in C : c <= k
  <2> HIDE DEF C
  <2>1. QED
    BY <1>1, LeastNumber
<1>3. PICK m \in D : c = n - m
  BY <1>2
<1>4. \A k \in D : m >= k
  <2>1. ASSUME NEW k \in D
        PROVE  m >= k
    <3>1. c <= n - k /\ k \in 0 .. n /\ m \in 0 .. n
      BY <1>2
    <3>2. QED
      BY <1>3, <3>1
  <2>2. QED
    BY <2>1
<1>5. Max(D) \in D /\ \A k \in D : Max(D) >= k
  BY <1>4 DEF Max
<1>6. QED
  BY <1>5

\* The parent of a line is shallower, and no line between them is.
LEMMA ParentFacts ==
  ASSUME NEW ls \in Lines, NEW i \in 1 .. Len(ls)
  PROVE  /\ ParentLine(ls, i) \in 0 .. i - 1
         /\ ParentLine(ls, i) # 0 => ls[ParentLine(ls, i)].indent < ls[i].indent
         /\ \A j \in 1 .. i - 1 : ls[j].indent < ls[i].indent => j <= ParentLine(ls, i)
<1> DEFINE D == {0} \cup {j \in 1 .. i - 1 : ls[j].indent < ls[i].indent}
<1>1. Len(ls) \in Nat /\ D \subseteq 0 .. i - 1 /\ D # {} /\ i - 1 \in Nat
  BY LineNumbers
<1>2. Max(D) \in D /\ \A k \in D : k <= Max(D)
  <2> HIDE DEF D
  <2>1. QED
    BY <1>1, GreatestIsMax
<1>3. ParentLine(ls, i) = Max(D)
  BY DEF ParentLine
<1> DEFINE m == Max(D)
<1> HIDE DEF m
<1>4. m \in D /\ \A k \in D : k <= m
  BY <1>2 DEF m
<1>5. QED
  BY <1>1, <1>3, <1>4 DEF m

\* What tells the parent of a line.
LEMMA IsParent ==
  ASSUME NEW ls \in Lines, NEW i \in 1 .. Len(ls), NEW p \in 0 .. i - 1,
         p # 0 => ls[p].indent < ls[i].indent,
         \A j \in 1 .. i - 1 : ls[j].indent < ls[i].indent => j <= p
  PROVE  ParentLine(ls, i) = p
<1> DEFINE q == ParentLine(ls, i)
<1>1. /\ q \in 0 .. i - 1
      /\ q # 0 => ls[q].indent < ls[i].indent
      /\ \A j \in 1 .. i - 1 : ls[j].indent < ls[i].indent => j <= q
  BY ParentFacts
<1>2. i \in Nat
  BY LineNumbers
<1> HIDE DEF q
<1>3. q <= p
  <2>1. q # 0 => q \in 1 .. i - 1
    BY <1>1, <1>2
  <2>2. QED
    BY <1>1, <1>2, <2>1
<1>4. p <= q
  <2>1. p # 0 => p \in 1 .. i - 1
    BY <1>2
  <2>2. QED
    BY <1>1, <1>2, <2>1
<1>5. q = p
  BY <1>1, <1>2, <1>3, <1>4
<1>6. QED
  BY <1>5 DEF q

\* A line as deep as the first line of a block that none has left since is one of
\* the block.
LEMMA SameBlock ==
  ASSUME NEW ls \in Lines, NEW i \in 1 .. Len(ls), NEW s \in 1 .. i,
         ParentLine(ls, s) = s - 1, ls[i].indent = ls[s].indent,
         \A j \in s .. i - 1 : ls[j].indent >= ls[s].indent
  PROVE  ParentLine(ls, i) = s - 1
<1>1. i \in Nat /\ s \in Nat /\ s \in 1 .. Len(ls) /\ s - 1 \in 0 .. i - 1
  BY LineNumbers
<1>2. s - 1 # 0 => ls[s - 1].indent < ls[i].indent
  BY <1>1, ParentFacts
<1>3. ASSUME NEW j \in 1 .. i - 1, ls[j].indent < ls[i].indent
      PROVE  j <= s - 1
  <2>1. j \in 1 .. Len(ls) /\ ls[j].indent \in Nat /\ ls[s].indent \in Nat
    BY <1>1, LineNumbers, LineFields
  <2>2. ~ (j \in s .. i - 1)
    BY <1>3, <2>1
  <2>3. QED
    BY <1>1, <2>2
<1>4. QED
  BY <1>1, <1>2, <1>3, IsParent

\* A line deeper than the one above it begins a block.
LEMMA DeeperBegins ==
  ASSUME NEW ls \in Lines, NEW i \in 1 .. Len(ls), i > 1, ls[i - 1].indent < ls[i].indent
  PROVE  ParentLine(ls, i) = i - 1
<1>1. i \in Nat /\ i - 1 \in 0 .. i - 1 /\ \A j \in 1 .. i - 1 : j <= i - 1
  BY LineNumbers
<1>2. QED
  BY <1>1, IsParent

\* The first line belongs to the document.
LEMMA FirstLine ==
  ASSUME NEW ls \in Lines, ls # <<>>
  PROVE  ParentLine(ls, 1) = 0
<1>1. 1 \in 1 .. Len(ls)
  BY LineNumbers
<1>2. ParentLine(ls, 1) \in 0 .. 1 - 1
  BY <1>1, ParentFacts
<1>3. QED
  BY <1>2

-----------------------------------------------------------------------------
(***************************************************************************)
(* The keys that lead to a line.                                           *)
(***************************************************************************)
PathSeqs == Seq(Keys \cup {Nothing})

\* g gives the paths of the first n lines.
PathsTo(ls, n, g) ==
  \A j \in 0 .. n : g[j] = IF j = 0 THEN <<>> ELSE Append(g[ParentLine(ls, j)], ls[j].key)

\* Each line has a path, as each comes after its parent.
LEMMA PathsExist ==
  ASSUME NEW ls \in Lines
  PROVE  \E g \in [0 .. Len(ls) -> PathSeqs] : PathsTo(ls, Len(ls), g)
<1> DEFINE n == Len(ls)
           G == {m \in 0 .. n : \E g \in [0 .. m -> PathSeqs] : PathsTo(ls, m, g)}
<1>1. n \in Nat
  BY LineNumbers
<1>2. 0 \in G
  <2>1. [j \in 0 .. 0 |-> <<>>] \in [0 .. 0 -> PathSeqs] /\ PathsTo(ls, 0, [j \in 0 .. 0 |-> <<>>])
    BY DEF PathsTo, PathSeqs
  <2>2. QED
    BY <1>1, <2>1
<1>3. ASSUME NEW m \in 0 .. n - 1, m \in G
      PROVE  m + 1 \in G
  <2>1. PICK g \in [0 .. m -> PathSeqs] : PathsTo(ls, m, g)
    BY <1>3
  <2>2. m \in Nat /\ m + 1 \in 1 .. n /\ m + 1 \in 0 .. n
    BY <1>1
  <2> DEFINE p == ParentLine(ls, m + 1)
             h == [j \in 0 .. m + 1 |-> IF j \in 0 .. m THEN g[j] ELSE Append(g[p], ls[m + 1].key)]
  <2>3. p \in 0 .. m /\ ls[m + 1].key \in Keys \cup {Nothing}
    <3>1. p \in 0 .. m + 1 - 1
      BY <2>2, ParentFacts
    <3>2. ls[m + 1].key \in Keys \cup {Nothing}
      BY <2>2, LineFields
    <3>3. QED
      BY <2>2, <3>1, <3>2
  <2>4. Append(g[p], ls[m + 1].key) \in PathSeqs
    BY <2>1, <2>3 DEF PathSeqs
  <2>5. h \in [0 .. m + 1 -> PathSeqs]
    BY <2>1, <2>4
  <2>6. PathsTo(ls, m + 1, h)
    <3>1. ASSUME NEW j \in 0 .. m + 1
          PROVE  h[j] = IF j = 0 THEN <<>> ELSE Append(h[ParentLine(ls, j)], ls[j].key)
      <4>1. CASE j \in 0 .. m
        <5>1. j # 0 => ParentLine(ls, j) \in 0 .. m
          <6>1. j # 0 => j \in 1 .. n
            BY <1>1, <2>2, <4>1
          <6>2. j # 0 => ParentLine(ls, j) \in 0 .. j - 1
            BY <6>1, ParentFacts
          <6>3. QED
            BY <2>2, <4>1, <6>2
        <5>2. g[j] = IF j = 0 THEN <<>> ELSE Append(g[ParentLine(ls, j)], ls[j].key)
          BY <2>1, <4>1 DEF PathsTo
        <5>3. h[j] = g[j] /\ (j # 0 => h[ParentLine(ls, j)] = g[ParentLine(ls, j)])
          <6>1. \A i \in 0 .. m : h[i] = g[i]
            BY <2>2
          <6> HIDE DEF h
          <6>2. QED
            BY <4>1, <5>1, <6>1
        <5> HIDE DEF h
        <5>4. QED
          BY <5>2, <5>3
      <4>2. CASE j = m + 1
        <5>1. j # 0 /\ j \notin 0 .. m /\ ParentLine(ls, j) = p
          BY <2>2, <4>2
        <5>2. h[j] = Append(g[p], ls[j].key) /\ h[p] = g[p]
          BY <2>2, <2>3, <4>2, <5>1
        <5> HIDE DEF h, p
        <5>3. QED
          BY <5>1, <5>2
      <4>3. QED
        BY <2>2, <4>1, <4>2
    <3> HIDE DEF h
    <3>2. QED
      BY <3>1 DEF PathsTo
  <2> HIDE DEF h
  <2>7. QED
    BY <2>2, <2>5, <2>6
<1>4. n \in G
  <2> HIDE DEF G, n
  <2>1. \A m \in 0 .. n : m \in G
    BY <1>1, <1>2, <1>3, UpTo
  <2>2. QED
    BY <1>1, <2>1
<1>5. QED
  BY <1>4

\* The path of a line is its key after the path of its parent.
LEMMA PathFacts ==
  ASSUME NEW ls \in Lines
  PROVE  /\ LinePaths(ls)[0] = <<>>
         /\ \A j \in 0 .. Len(ls) : LinePaths(ls)[j] \in PathSeqs
         /\ \A j \in 1 .. Len(ls) :
              LinePaths(ls)[j] = Append(LinePaths(ls)[ParentLine(ls, j)], ls[j].key)
<1> DEFINE n == Len(ls)
           Eq(h) == h = [j \in 0 .. Len(ls) |->
                           IF j = 0 THEN <<>> ELSE Append(h[ParentLine(ls, j)], ls[j].key)]
           path == CHOOSE h : Eq(h)
<1>1. LinePaths(ls) = path
  BY DEF LinePaths
<1>2. PICK g \in [0 .. n -> PathSeqs] : PathsTo(ls, n, g)
  BY PathsExist
<1>3. Eq(g)
  BY <1>2 DEF PathsTo
<1>4. Eq(path)
  <2> HIDE DEF Eq
  <2>1. QED
    BY <1>3
<1>5. n \in Nat
  BY LineNumbers
<1>6. \A j \in 0 .. n : path[j] = IF j = 0 THEN <<>> ELSE Append(path[ParentLine(ls, j)], ls[j].key)
  BY <1>4
<1> HIDE DEF path, Eq
<1> DEFINE G == {m \in 0 .. n : path[m] \in PathSeqs}
<1>7. ASSUME NEW m \in 0 .. n, \A k \in 0 .. m - 1 : k \in G
      PROVE  m \in G
  <2>1. CASE m = 0
    <3>1. path[m] = <<>> /\ <<>> \in PathSeqs
      BY <1>6, <2>1 DEF PathSeqs
    <3>2. QED
      BY <3>1
  <2>2. CASE m # 0
    <3>1. m \in 1 .. n
      BY <1>5, <2>2
    <3>2. ParentLine(ls, m) \in 0 .. m - 1
      BY <3>1, ParentFacts
    <3>3. path[ParentLine(ls, m)] \in PathSeqs
      BY <1>7, <3>2
    <3>4. ls[m].key \in Keys \cup {Nothing}
      BY <3>1, LineFields
    <3>5. path[m] = Append(path[ParentLine(ls, m)], ls[m].key)
      BY <1>6, <2>2
    <3>6. path[m] \in PathSeqs
      BY <3>3, <3>4, <3>5 DEF PathSeqs
    <3>7. QED
      BY <3>6
  <2>3. QED
    BY <2>1, <2>2
<1>8. \A m \in 0 .. n : m \in G
  <2> HIDE DEF G, n
  <2>1. QED
    BY <1>5, <1>7, StrongUpTo
<1>9. 0 \in 0 .. n /\ \A j \in 1 .. n : j \in 0 .. n /\ j # 0
  BY <1>5
<1>10. QED
  BY <1>1, <1>6, <1>8, <1>9

\* A path tells the path of the parent and the key.
LEMMA PathTells ==
  ASSUME NEW u \in PathSeqs, NEW v \in PathSeqs, NEW x \in Keys \cup {Nothing}, NEW y \in Keys \cup {Nothing}
  PROVE  /\ Append(u, x) = Append(v, y) => u = v /\ x = y
         /\ Append(u, x) # <<>>
<1>1. Append(u, x) # <<>>
  BY DEF PathSeqs
<1>2. Append(u, x) = Append(v, y) => u = v /\ x = y
  BY AppendInjective DEF PathSeqs
<1>3. QED
  BY <1>1, <1>2

-----------------------------------------------------------------------------
(***************************************************************************)
(* The items of a block.                                                   *)
(***************************************************************************)
\* A line more adds its item if it belongs to the block.
LEMMA ItemsNext ==
  ASSUME NEW ls \in Lines, NEW i
  PROVE  /\ ItemsAmong(ls, i, 0) = <<>>
         /\ \A x \in 1 .. Len(ls) :
              ItemsAmong(ls, i, x) =
                IF x \in Siblings(ls, i)
                THEN Append(ItemsAmong(ls, i, x - 1), parseScalarValue(ls[x].value))
                ELSE ItemsAmong(ls, i, x - 1)
<1> DEFINE n == Len(ls)
           V == {parseScalarValue(ls[j].value) : j \in 1 .. n}
           f == [j \in 1 .. n |-> IF j \in Siblings(ls, i) THEN <<parseScalarValue(ls[j].value)>>
                                  ELSE <<>>]
<1>1. n \in Nat /\ f \in [1 .. n -> Seq(V)]
  <2>1. ASSUME NEW j \in 1 .. n
        PROVE  f[j] \in Seq(V)
    <3>1. <<parseScalarValue(ls[j].value)>> \in Seq(V) /\ <<>> \in Seq(V)
      OBVIOUS
    <3> HIDE DEF V
    <3>2. QED
      BY <3>1
  <2> HIDE DEF V
  <2>2. QED
    BY <2>1, LineNumbers
<1>2. \A m \in 0 .. n : ItemsAmong(ls, i, m) = FlattenSeq(Parts(f, m))
  <2>1. ASSUME NEW m \in 0 .. n
        PROVE  [j \in 1 .. m |-> IF j \in Siblings(ls, i) THEN <<parseScalarValue(ls[j].value)>>
                                 ELSE <<>>] = Parts(f, m)
    <3>1. \A j \in 1 .. m : j \in 1 .. n
      BY <1>1
    <3>2. QED
      BY <3>1 DEF Parts
  <2>2. QED
    BY <2>1 DEF ItemsAmong
<1>3. ItemsAmong(ls, i, 0) = <<>>
  BY DEF ItemsAmong, FlattenSeq
<1>4. ASSUME NEW x \in 1 .. n
      PROVE  ItemsAmong(ls, i, x) =
               IF x \in Siblings(ls, i)
               THEN Append(ItemsAmong(ls, i, x - 1), parseScalarValue(ls[x].value))
               ELSE ItemsAmong(ls, i, x - 1)
  <2> DEFINE m == x - 1
             u == ItemsAmong(ls, i, m)
             v == parseScalarValue(ls[x].value)
  <2>1. m \in 0 .. n - 1 /\ m \in 0 .. n /\ x \in 0 .. n /\ m + 1 = x
    BY <1>1
  <2>2. /\ FlattenSeq(Parts(f, m)) \in Seq(V)
        /\ FlattenSeq(Parts(f, m + 1)) = FlattenSeq(Parts(f, m)) \o f[m + 1]
    <3> HIDE DEF f, V, n, m
    <3>1. QED
      BY <1>1, <2>1, FlattenNext
  <2>3. u \in Seq(V) /\ ItemsAmong(ls, i, x) = u \o f[x]
    <3> HIDE DEF f, V, n
    <3>1. QED
      BY <1>2, <2>1, <2>2
  <2>4. f[x] = (IF x \in Siblings(ls, i) THEN <<v>> ELSE <<>>) /\ v \in V
    OBVIOUS
  <2> HIDE DEF u, v, V, f
  <2>5. u \o <<>> = u /\ u \o <<v>> = Append(u, v)
    BY <2>3, <2>4
  <2>6. QED
    BY <2>3, <2>4, <2>5 DEF u, v
<1>5. QED
  BY <1>3, <1>4

\* A block has no items above its first line.
LEMMA NoItemsAbove ==
  ASSUME NEW ls \in Lines, NEW i \in 1 .. Len(ls), ParentLine(ls, i) = i - 1
  PROVE  ItemsAmong(ls, i, i - 1) = <<>>
<1> DEFINE G == {m \in 0 .. i - 1 : ItemsAmong(ls, i, m) = <<>>}
<1>1. i - 1 \in Nat /\ i \in Nat /\ Len(ls) \in Nat
  BY LineNumbers
<1>2. 0 \in G
  BY <1>1, ItemsNext
<1>3. ASSUME NEW m \in 0 .. i - 1 - 1, m \in G
      PROVE  m + 1 \in G
  <2>1. m + 1 \in 1 .. Len(ls) /\ m + 1 - 1 = m /\ m + 1 \in 0 .. i - 1
    BY <1>1
  <2>2. ParentLine(ls, m + 1) \in 0 .. m + 1 - 1
    BY <2>1, ParentFacts
  <2>3. m + 1 \notin Siblings(ls, i)
    BY <1>1, <2>1, <2>2 DEF Siblings
  <2>4. \A x : x = m + 1 => ItemsAmong(ls, i, x) = ItemsAmong(ls, i, m)
    <3>1. ASSUME NEW x, x = m + 1
          PROVE  ItemsAmong(ls, i, x) = ItemsAmong(ls, i, m)
      <4>1. x \in 1 .. Len(ls) /\ x - 1 = m /\ x \notin Siblings(ls, i)
        BY <2>1, <2>3, <3>1
      <4>2. QED
        BY <4>1, ItemsNext
    <3>2. QED
      BY <3>1
  <2>5. QED
    BY <1>3, <2>1, <2>4
<1>4. i - 1 \in G
  <2> HIDE DEF G
  <2>1. \A m \in 0 .. i - 1 : m \in G
    BY <1>1, <1>2, <1>3, UpTo
  <2>2. QED
    BY <1>1, <2>1
<1>5. QED
  BY <1>4

-----------------------------------------------------------------------------
(***************************************************************************)
(* The line the parser looks at and the block on top of the stack.         *)
(***************************************************************************)
\* The types, in the words of the lemmas above.
LEMMA DocumentLines ==
  ASSUME DocumentType
  PROVE  /\ lines \in Lines /\ Len(lines) \in Nat /\ DOMAIN lines = 1 .. Len(lines)
         /\ next \in 1 .. Len(lines) + 1 /\ next \in Nat
         /\ HasLine => next \in 1 .. Len(lines)
         /\ Len(stack) \in Nat /\ DOMAIN stack = 1 .. Len(stack)
         /\ stack # <<>> => Len(stack) \in 1 .. Len(stack) /\ Top = stack[Len(stack)]
<1>1. lines \in Seq(LineRecord) /\ next \in 1 .. Len(lines) + 1
      /\ stack \in Seq([kind : {"map", "list"}, indent : Nat, path : Seq(Keys \cup {Nothing})])
  BY DEF DocumentType
<1>2. lines \in Lines
  <2>1. Len(lines) \in Nat /\ DOMAIN lines = 1 .. Len(lines)
    BY <1>1
  <2>2. ASSUME NEW i \in 1 .. Len(lines)
        PROVE  lines[i] \in {l \in LineRecord : l.form = "item" => l.value # Nothing}
    <3>1. lines[i] \in LineRecord
      BY <1>1, ElementOfSeq
    <3>2. lines[i].form = "item" => lines[i].value # Nothing
      BY <2>1 DEF DocumentType
    <3>3. QED
      BY <3>1, <3>2
  <2>3. lines = [i \in 1 .. Len(lines) |-> lines[i]]
    BY <1>1, SeqEqual
  <2>4. QED
    BY <2>1, <2>2, <2>3, IsASeq DEF Lines
<1>3. QED
  BY <1>1, <1>2 DEF HasLine, Top, Last

\* What the frame on top says of its first line.
LEMMA TopFacts ==
  ASSUME DocumentType, AtLine, Parsing, NEW start \in [DOMAIN stack -> DOMAIN lines],
         Pending(start), NEW s, s = start[Len(stack)]
  PROVE  /\ s \in 1 .. next /\ s \in 1 .. Len(lines)
         /\ Top.kind = (IF lines[s].form = "item" THEN "list" ELSE "map")
         /\ Top.indent = lines[s].indent /\ Top.path = LinePaths(lines)[s - 1]
         /\ ParentLine(lines, s) = s - 1
         /\ s - 1 \in Entries
         /\ s = 1 \/ (s > 1 /\ Opens(lines[s - 1]))
         /\ \A i \in s .. next - 1 : lines[i].indent >= Top.indent
<1> DEFINE d == Len(stack)
<1>1. /\ lines \in Lines /\ Len(lines) \in Nat /\ DOMAIN lines = 1 .. Len(lines)
      /\ next \in 1 .. Len(lines) + 1 /\ next \in Nat
      /\ d \in DOMAIN stack /\ Top = stack[d]
  BY DocumentLines DEF Parsing
<1>2. s \in 1 .. Len(lines)
  BY <1>1
<1>3. /\ s <= next
      /\ Top = parseConfigBlock(s, BlockPath(lines, s))
      /\ ParentLine(lines, s) = s - 1
      /\ s = 1 \/ (s > 1 /\ Opens(lines[s - 1]))
      /\ \A i \in s .. next - 1 : lines[i].indent >= Top.indent
  BY <1>1 DEF Pending
<1>4. s - 1 \in Entries
  <2>1. CASE s = 1
    BY <2>1 DEF Entries
  <2>2. CASE s > 1 /\ Opens(lines[s - 1])
    BY <1>1, <1>2, <1>3, <2>2 DEF Entries, Done, Opens
  <2>3. QED
    BY <1>3, <2>1, <2>2
<1>5. QED
  BY <1>1, <1>2, <1>3, <1>4 DEF parseConfigBlock, BlockPath

\* A line of the block on top belongs to the line above the block, and so do the
\* lines of the block before it, which are of the form of the first one.
LEMMA InBlockFacts ==
  ASSUME DocumentType, AtLine, InBlock, NEW start \in [DOMAIN stack -> DOMAIN lines],
         Pending(start), NEW s, s = start[Len(stack)]
  PROVE  /\ ParentLine(lines, next) = s - 1 /\ Line.indent = lines[s].indent
         /\ s < next => s \in Siblings(lines, next)
         /\ \A j \in Siblings(lines, next) : j < next => s <= j /\ lines[j].form = lines[s].form
<1>1. /\ lines \in Lines /\ Len(lines) \in Nat /\ DOMAIN lines = 1 .. Len(lines)
      /\ next \in 1 .. Len(lines) /\ next \in Nat
  BY DocumentLines DEF InBlock
<1>2. /\ s \in 1 .. next /\ s \in 1 .. Len(lines) /\ Top.indent = lines[s].indent
      /\ ParentLine(lines, s) = s - 1
      /\ \A i \in s .. next - 1 : lines[i].indent >= Top.indent
  BY TopFacts DEF InBlock
<1>3. Line.indent = lines[s].indent /\ Line = lines[next]
  BY <1>2 DEF InBlock, Line
<1>4. ParentLine(lines, next) = s - 1
  BY <1>1, <1>2, <1>3, SameBlock
<1>5. s < next => s \in Siblings(lines, next)
  BY <1>1, <1>2, <1>3, <1>4 DEF Siblings
<1>6. ASSUME NEW j \in Siblings(lines, next), j < next
      PROVE  s <= j /\ lines[j].form = lines[s].form
  <2>1. j \in 1 .. Len(lines) /\ ParentLine(lines, j) = s - 1 /\ lines[j].indent = lines[s].indent
    BY <1>1, <1>3, <1>4 DEF Siblings
  <2>2. s - 1 \in 0 .. j - 1
    BY <1>1, <2>1, ParentFacts
  <2>3. s <= j
    BY <1>1, <1>2, <2>1, <2>2
  <2>4. Fits(lines, j)
    BY <1>1, <1>6, <2>1 DEF AtLine, Done
  <2>5. s < j => s \in Siblings(lines, j)
    BY <1>1, <1>2, <2>1 DEF Siblings
  <2>6. s < j => lines[s].form = lines[j].form
    BY <2>4, <2>5 DEF Fits
  <2>7. QED
    BY <1>1, <1>2, <2>1, <2>3, <2>6
<1>7. QED
  BY <1>3, <1>4, <1>5, <1>6

\* An entry the block does not have yet is told apart from all elder ones by its key.
LEMMA NewKey ==
  ASSUME DocumentType, AtLine, IsEntry, NEW start \in [DOMAIN stack -> DOMAIN lines],
         Pending(start), NEW j \in Siblings(lines, next), j < next, lines[j].form = "entry"
  PROVE  lines[j].key # Line.key
<1> DEFINE s == start[Len(stack)]
           path == LinePaths(lines)
<1>1. /\ lines \in Lines /\ Len(lines) \in Nat /\ DOMAIN lines = 1 .. Len(lines)
      /\ next \in 1 .. Len(lines) /\ next \in Nat
  BY DocumentLines DEF IsEntry, InBlock
<1>2. ParentLine(lines, next) = s - 1 /\ Top.path = path[s - 1]
  BY InBlockFacts, TopFacts DEF IsEntry, InBlock
<1>3. j \in 1 .. Len(lines) /\ ParentLine(lines, j) = s - 1
  BY <1>1, <1>2 DEF Siblings
<1>4. path[j] = Append(path[s - 1], lines[j].key)
  BY <1>1, <1>3, PathFacts
<1>5. j \in Entries
  BY <1>1, <1>3 DEF Entries, Done
<1>6. path[j] \in DOMAIN values
  BY <1>5 DEF AtLine, TreeSoFar
<1>7. QED
  BY <1>2, <1>4, <1>6 DEF IsEntry, Path

\* A line that is taken fits.
LEMMA TakenFits ==
  ASSUME DocumentType, AtLine, NEW start \in [DOMAIN stack -> DOMAIN lines], Pending(start),
         IsItem \/ (IsEntry /\ (Line.value = Nothing => DeeperFollows))
  PROVE  Fits(lines, next)
<1> DEFINE s == start[Len(stack)]
           elder == {j \in Siblings(lines, next) : j < next}
<1>1. /\ lines \in Lines /\ Len(lines) \in Nat /\ DOMAIN lines = 1 .. Len(lines)
      /\ next \in 1 .. Len(lines) /\ next \in Nat /\ InBlock /\ Parsing /\ Line = lines[next]
  BY DocumentLines DEF IsItem, IsEntry, InBlock, Line
<1>2. /\ s \in 1 .. next /\ s \in 1 .. Len(lines)
      /\ Top.kind = (IF lines[s].form = "item" THEN "list" ELSE "map")
      /\ s = 1 \/ (s > 1 /\ Opens(lines[s - 1]))
  BY <1>1, TopFacts
<1>3. /\ s < next => s \in elder
      /\ \A j \in elder : s <= j /\ lines[j].form = lines[s].form
  BY <1>1, InBlockFacts
<1>4. next > 1 /\ ~ Opens(lines[next - 1]) => elder # {}
  <2>1. next # s => s \in elder
    BY <1>1, <1>2, <1>3
  <2> HIDE DEF elder, s
  <2>2. QED
    BY <1>1, <1>2, <2>1
<1>5. CASE IsItem
  <2>1. lines[next].form = "item" /\ lines[s].form = "item" /\ ~ Opens(lines[next])
    BY <1>1, <1>2, <1>5 DEF IsItem, Opens
  <2> HIDE DEF s
  <2>2. QED
    BY <1>3, <1>4, <2>1 DEF Fits
<1>6. CASE IsEntry /\ (Line.value = Nothing => DeeperFollows)
  <2>1. /\ lines[next].form = "entry" /\ lines[next].key # Nothing /\ lines[s].form # "item"
        /\ Opens(lines[next]) => next < Len(lines) /\ lines[next + 1].indent > lines[next].indent
    BY <1>1, <1>2, <1>6 DEF IsEntry, Opens, DeeperFollows
  <2>2. ASSUME NEW j \in elder
        PROVE  lines[j].form = "entry" /\ lines[j].key # lines[next].key
    <3>1. j \in Done /\ lines[j].form = lines[s].form
      BY <1>1, <1>3, <2>2 DEF Siblings, Done
    <3>2. Fits(lines, j)
      BY <3>1 DEF AtLine
    <3>3. lines[j].form = "entry"
      BY <2>1, <3>1, <3>2 DEF Fits
    <3>4. QED
      BY <1>1, <1>6, <2>2, <3>3, NewKey
  <2> HIDE DEF s
  <2>3. QED
    BY <1>4, <2>1, <2>2 DEF Fits
<1>7. QED
  BY <1>5, <1>6

\* A line deeper than the block fits nothing.
LEMMA TooDeep ==
  ASSUME DocumentType, AtLine, Parsing, HasLine, Line.indent > Top.indent,
         NEW start \in [DOMAIN stack -> DOMAIN lines],
         Pending(start), Dedents(start), Opened(start)
  PROVE  ~ Fits(lines, next)
<1> DEFINE s == start[Len(stack)]
<1>1. /\ lines \in Lines /\ Len(lines) \in Nat /\ DOMAIN lines = 1 .. Len(lines)
      /\ next \in 1 .. Len(lines) /\ next \in Nat /\ Line = lines[next]
  BY DocumentLines DEF Line
<1>2. /\ s \in 1 .. next /\ s \in 1 .. Len(lines) /\ Top.indent = lines[s].indent
  BY TopFacts
<1>3. lines[s].indent \in Nat /\ lines[next].indent \in Nat
  BY <1>1, <1>2, LineFields
<1>4. s < next /\ next > 1
  BY <1>1, <1>2, <1>3
<1>5. ~ Opens(lines[next - 1])
  BY <1>2, <1>4 DEF Opened
<1>6. ASSUME NEW j \in Siblings(lines, next), j < next
      PROVE  FALSE
  <2>1. j \in 1 .. Len(lines) /\ ParentLine(lines, j) = ParentLine(lines, next)
        /\ lines[j].indent = lines[next].indent /\ j \in Done
    BY <1>1, <1>6 DEF Siblings, Done
  <2>2. ParentLine(lines, next) \in 0 .. j - 1
    BY <1>1, <2>1, ParentFacts
  <2>3. \A i \in 1 .. next - 1 : lines[i].indent < lines[next].indent => i < j
    <3> DEFINE p == ParentLine(lines, next)
    <3>1. p \in 0 .. j - 1 /\ \A i \in 1 .. next - 1 : lines[i].indent < lines[next].indent => i <= p
      BY <1>1, <2>2, ParentFacts
    <3> HIDE DEF p
    <3>2. QED
      BY <2>1, <3>1
  <2>4. s < j
    BY <1>1, <1>2, <1>3, <1>4, <2>3
  <2>5. \E i \in j .. next - 1 : lines[i].indent <= Top.indent
    <3>1. ~ (Line.indent < lines[j].indent)
      BY <1>1, <1>3, <2>1
    <3>2. QED
      BY <1>1, <2>1, <2>4, <3>1 DEF Dedents
  <2>6. PICK i \in j .. next - 1 : lines[i].indent <= lines[s].indent
    BY <1>2, <2>5
  <2>7. i \in 1 .. Len(lines) /\ lines[i].indent \in Nat /\ i \in 1 .. next - 1
    BY <1>1, <2>1, LineFields
  <2>8. QED
    BY <1>1, <1>2, <1>3, <2>1, <2>3, <2>6, <2>7
<1>7. QED
  BY <1>4, <1>5, <1>6 DEF Fits

\* A line of the block that it cannot take fits nothing either.
LEMMA RefusedMisfits ==
  ASSUME DocumentType, AtLine, InBlock, ~ IsItem,
         ~ (IsEntry /\ (Line.value = Nothing => DeeperFollows)),
         NEW start \in [DOMAIN stack -> DOMAIN lines], Pending(start)
  PROVE  ~ Fits(lines, next)
<1> DEFINE s == start[Len(stack)]
           path == LinePaths(lines)
<1>1. /\ lines \in Lines /\ Len(lines) \in Nat /\ DOMAIN lines = 1 .. Len(lines)
      /\ next \in 1 .. Len(lines) /\ next \in Nat /\ Parsing /\ Line = lines[next]
  BY DocumentLines DEF InBlock, Line
<1>2. /\ s \in 1 .. next /\ s \in 1 .. Len(lines)
      /\ Top.kind = (IF lines[s].form = "item" THEN "list" ELSE "map")
      /\ Top.path = path[s - 1] /\ s - 1 \in Entries /\ ParentLine(lines, s) = s - 1
  BY <1>1, TopFacts
<1>3. /\ ParentLine(lines, next) = s - 1 /\ lines[next].indent = lines[s].indent
      /\ s < next => s \in Siblings(lines, next)
  BY <1>1, InBlockFacts
<1>4. SUFFICES ASSUME Fits(lines, next) PROVE FALSE
  OBVIOUS
<1>5. s < next => lines[s].form = lines[next].form
  BY <1>3, <1>4 DEF Fits
<1>6. lines[s].form = lines[next].form
  BY <1>1, <1>2, <1>5
<1>7. CASE Top.kind = "list"
  BY <1>1, <1>2, <1>6, <1>7 DEF IsItem
<1>8. CASE Top.kind = "map" /\ lines[next].form # "entry"
  BY <1>2, <1>4, <1>6, <1>8 DEF Fits
<1>9. CASE Top.kind = "map" /\ lines[next].form = "entry" /\ lines[next].key = Nothing
  BY <1>4, <1>9 DEF Fits
<1>10. CASE /\ Top.kind = "map" /\ lines[next].form = "entry" /\ lines[next].key # Nothing
            /\ Path \in DOMAIN values
  <2>1. PICK i \in Entries : path[i] = Append(path[s - 1], lines[next].key)
    BY <1>1, <1>2, <1>10 DEF AtLine, TreeSoFar, Path
  <2>2. s - 1 \in 0 .. Len(lines) /\ path[s - 1] \in PathSeqs /\ lines[next].key \in Keys \cup {Nothing}
    BY <1>1, <1>2, PathFacts, LineFields
  <2>3. i # 0
    BY <1>1, <2>1, <2>2, PathFacts, PathTells
  <2>4. i \in Done /\ lines[i].form = "entry" /\ i \in 1 .. Len(lines) /\ i < next
    BY <1>1, <2>3 DEF Entries, Done
  <2> DEFINE p == ParentLine(lines, i)
  <2>5. p \in 0 .. i - 1 /\ (p = 0 \/ Opens(lines[p])) /\ lines[i].indent = lines[p + 1].indent
    BY <1>1, <2>4, ParentFacts DEF AtLine, Nested
  <2>6. p \in Entries /\ p \in 0 .. Len(lines)
    BY <1>1, <2>4, <2>5 DEF Entries, Done, Opens
  <2>7. path[p] \in PathSeqs /\ lines[i].key \in Keys \cup {Nothing}
        /\ path[i] = Append(path[p], lines[i].key)
    BY <1>1, <2>4, <2>6, PathFacts, LineFields
  <2>8. path[p] = path[s - 1] /\ lines[i].key = lines[next].key
    <3> DEFINE u == path[p]
               v == path[s - 1]
               x == lines[i].key
               y == lines[next].key
    <3>1. Append(u, x) = Append(v, y)
      BY <2>1, <2>7
    <3>2. u \in PathSeqs /\ v \in PathSeqs /\ x \in Keys \cup {Nothing} /\ y \in Keys \cup {Nothing}
      BY <2>2, <2>7
    <3> HIDE DEF u, v, x, y
    <3>3. u = v /\ x = y
      BY <3>1, <3>2, PathTells
    <3>4. QED
      BY <3>3 DEF u, v, x, y
  <2>9. p = s - 1
    BY <1>2, <2>6, <2>8 DEF AtLine, TreeSoFar
  <2>10. p + 1 = s
    BY <1>2, <2>9
  <2>11. lines[i].indent = lines[next].indent
    BY <1>3, <2>5, <2>10
  <2>12. i \in Siblings(lines, next)
    BY <1>1, <1>3, <2>4, <2>9, <2>11 DEF Siblings
  <2>13. QED
    BY <1>4, <1>10, <2>4, <2>8, <2>12 DEF Fits
<1>11. CASE /\ Top.kind = "map" /\ lines[next].form = "entry" /\ lines[next].key # Nothing
            /\ Path \notin DOMAIN values
  <2>1. IsEntry
    BY <1>1, <1>11 DEF IsEntry
  <2>2. Opens(lines[next]) /\ ~ DeeperFollows
    BY <1>1, <1>11, <2>1 DEF Opens
  <2>3. QED
    BY <1>1, <1>4, <2>2 DEF Fits, DeeperFollows
<1>12. QED
  BY <1>2, <1>7, <1>8, <1>9, <1>10, <1>11

-----------------------------------------------------------------------------
(***************************************************************************)
(* A line is taken.                                                        *)
(***************************************************************************)
\* What is known of the lines so far is known of one line more.
LEMMA Advance ==
  ASSUME DocumentType, AtLine, InBlock, NEW start \in [DOMAIN stack -> DOMAIN lines],
         Pending(start), Fits(lines, next),
         document' = document, lines' = lines, next' = next + 1
  PROVE  /\ lines' = Written' /\ lines' # <<>> /\ next' # 1
         /\ \A i \in Done' : Fits(lines', i)
         /\ Nested'
<1> DEFINE s == start[Len(stack)]
<1>1. /\ lines \in Lines /\ Len(lines) \in Nat /\ DOMAIN lines = 1 .. Len(lines)
      /\ next \in 1 .. Len(lines) /\ next \in Nat /\ Parsing /\ Line = lines[next]
  BY DocumentLines DEF InBlock, Line
<1>2. /\ s \in 1 .. next /\ s \in 1 .. Len(lines)
      /\ s = 1 \/ (s > 1 /\ Opens(lines[s - 1]))
  BY <1>1, TopFacts
<1>3. ParentLine(lines, next) = s - 1 /\ lines[next].indent = lines[s].indent
  BY <1>1, InBlockFacts
<1>4. lines' = Written' /\ lines' # <<>> /\ next' # 1
  BY <1>1 DEF AtLine, Written
<1>5. Done' = Done \cup {next}
  BY <1>1 DEF Done
<1>6. \A i \in Done' : Fits(lines', i)
  BY <1>5 DEF AtLine
<1>7. Nested'
  <2>1. \A p : p = s - 1 => (p = 0 \/ Opens(lines[p])) /\ lines[next].indent = lines[p + 1].indent
    <3>1. ASSUME NEW p, p = s - 1
          PROVE  (p = 0 \/ Opens(lines[p])) /\ lines[next].indent = lines[p + 1].indent
      <4>1. p + 1 = s
        BY <1>2, <3>1
      <4>2. QED
        BY <1>2, <1>3, <3>1, <4>1
    <3>2. QED
      BY <3>1
  <2>2. ASSUME NEW i \in Done'
        PROVE  LET p == ParentLine(lines, i)
               IN  (p = 0 \/ Opens(lines[p])) /\ lines[i].indent = lines[p + 1].indent
    BY <1>3, <1>5, <2>1 DEF AtLine, Nested
  <2>3. QED
    BY <2>2 DEF Nested
<1>8. QED
  BY <1>4, <1>6, <1>7

\* A line adds an item at most to the block on top.
LEMMA ValuesKept ==
  ASSUME DocumentType, AtLine, InBlock, NEW start \in [DOMAIN stack -> DOMAIN lines],
         Pending(start), lines' = lines, next' = next + 1, NEW i \in Entries,
         i # start[Len(stack)] - 1 \/ Top.kind = "map"
  PROVE  ValueSoFar(i)' = ValueSoFar(i)
<1> DEFINE s == start[Len(stack)]
<1>1. /\ lines \in Lines /\ Len(lines) \in Nat /\ DOMAIN lines = 1 .. Len(lines)
      /\ next \in 1 .. Len(lines) /\ next \in Nat /\ Parsing
  BY DocumentLines DEF InBlock
<1>2. i \in 0 .. next - 1
  BY <1>1 DEF Entries, Done
<1>3. next' - 1 = next
  BY <1>1
<1>4. CASE i # 0 /\ ~ Opens(lines[i])
  BY <1>4 DEF ValueSoFar
<1>5. CASE (i = 0 \/ Opens(lines[i])) /\ lines[i + 1].form # "item"
  BY <1>5 DEF ValueSoFar
<1>6. CASE (i = 0 \/ Opens(lines[i])) /\ lines[i + 1].form = "item"
  <2>1. i + 1 \in 1 .. Len(lines)
    BY <1>1, <1>2
  <2>2. ParentLine(lines, i + 1) = i
    <3>1. CASE i = 0
      BY <3>1, FirstLine, <1>1 DEF AtLine
    <3>2. CASE i # 0
      <4>1. Fits(lines, i) /\ Opens(lines[i])
        BY <1>1, <1>2, <1>6, <3>2 DEF AtLine, Done
      <4>2. lines[i + 1].indent > lines[i].indent /\ lines[i].indent \in Nat /\ lines[i + 1].indent \in Nat
        BY <1>1, <1>2, <2>1, <3>2, <4>1, LineFields DEF Fits
      <4>3. \A m : m = i + 1 => ParentLine(lines, m) = i
        <5>1. ASSUME NEW m, m = i + 1
              PROVE  ParentLine(lines, m) = i
          <6>1. m \in 1 .. Len(lines) /\ m > 1 /\ m - 1 = i /\ lines[m - 1].indent < lines[m].indent
            BY <1>2, <2>1, <3>2, <4>2, <5>1
          <6>2. QED
            BY <1>1, <6>1, DeeperBegins
        <5>2. QED
          BY <5>1
      <4>4. QED
        BY <4>3
    <3>3. QED
      BY <3>1, <3>2
  <2>3. /\ s \in 1 .. Len(lines) /\ Top.kind = (IF lines[s].form = "item" THEN "list" ELSE "map")
        /\ ParentLine(lines, next) = s - 1
    BY <1>1, TopFacts, InBlockFacts
  <2>4. next \notin Siblings(lines, i + 1)
    <3>1. CASE i # s - 1
      BY <2>2, <2>3, <3>1 DEF Siblings
    <3>2. CASE i = s - 1
      <4>1. i + 1 = s
        BY <1>1, <2>3, <3>2
      <4>2. QED
        BY <1>6, <2>3, <3>2, <4>1
    <3>3. QED
      BY <3>1, <3>2
  <2>5. ItemsAmong(lines, i + 1, next) = ItemsAmong(lines, i + 1, next - 1)
    BY <1>1, <2>4, ItemsNext
  <2>6. ItemsAmong(lines, i + 1, next' - 1) = ItemsAmong(lines, i + 1, next - 1)
    BY <1>3, <2>5
  <2>7. QED
    BY <1>6, <2>6 DEF ValueSoFar
<1>7. QED
  BY <1>4, <1>5, <1>6

\* An entry is put into the tree.
LEMMA EntryPut ==
  ASSUME DocumentType, AtLine, IsEntry, NEW start \in [DOMAIN stack -> DOMAIN lines],
         Pending(start), lines' = lines, next' = next + 1, NEW v,
         values' = Put(values, Path, v), NEW x, x = next, v = ValueSoFar(x)'
  PROVE  TreeSoFar'
<1> DEFINE s == start[Len(stack)]
           path == LinePaths(lines)
<1>1. /\ lines \in Lines /\ Len(lines) \in Nat /\ DOMAIN lines = 1 .. Len(lines)
      /\ next \in 1 .. Len(lines) /\ next \in Nat /\ Parsing /\ Line = lines[next] /\ InBlock
  BY DocumentLines DEF IsEntry, InBlock, Line
<1>2. Top.path = path[s - 1] /\ ParentLine(lines, next) = s - 1
  BY <1>1, TopFacts, InBlockFacts
<1>3. path[next] = Path
  BY <1>1, <1>2, PathFacts DEF Path
<1>4. Entries' = Entries \cup {next} /\ next \notin Entries
  BY <1>1 DEF Entries, Done, IsEntry
<1>5. /\ DOMAIN values = {path[i] : i \in Entries}
      /\ \A i, j \in Entries : path[i] = path[j] => i = j
      /\ \A i \in Entries : values[path[i]] = ValueSoFar(i)
      /\ Path \notin DOMAIN values
  BY DEF AtLine, TreeSoFar, IsEntry
<1>6. /\ DOMAIN values' = DOMAIN values \cup {Path} /\ values'[Path] = v
      /\ \A p \in DOMAIN values : values'[p] = values[p]
  BY <1>5 DEF Put
<1>7. \A i \in Entries : ValueSoFar(i)' = ValueSoFar(i)
  BY <1>1, ValuesKept DEF IsEntry
<1>8. \A i \in Entries : values'[path[i]] = ValueSoFar(i)' /\ path[i] # Path
  BY <1>5, <1>6, <1>7
<1>9. LinePaths(lines') = path
  OBVIOUS
<1> HIDE DEF path
<1>10. DOMAIN values' = {path[i] : i \in Entries'}
  BY <1>3, <1>4, <1>5, <1>6
<1>11. \A i, j \in Entries' : path[i] = path[j] => i = j
  BY <1>3, <1>4, <1>5, <1>8
<1>12. \A i \in Entries' : values'[path[i]] = ValueSoFar(i)'
  <2>1. ASSUME NEW i \in Entries'
        PROVE  values'[path[i]] = ValueSoFar(i)'
    <3>1. CASE i \in Entries
      BY <1>8, <3>1
    <3>2. CASE i = x
      BY <1>3, <1>6, <3>2
    <3>3. QED
      BY <1>4, <3>1, <3>2
  <2>2. QED
    BY <2>1
<1>13. QED
  BY <1>9, <1>10, <1>11, <1>12 DEF TreeSoFar

\* The block on top is the deepest.
LEMMA TopIsDeepest ==
  ASSUME DocumentType, Parsing, NEW start \in [DOMAIN stack -> DOMAIN lines], Pending(start),
         NEW k \in DOMAIN stack
  PROVE  stack[k].indent \in Nat /\ Top.indent \in Nat /\ stack[k].indent <= Top.indent
<1>1. /\ Len(stack) \in DOMAIN stack /\ DOMAIN stack = 1 .. Len(stack)
      /\ Len(stack) \in Nat /\ Top = stack[Len(stack)]
  BY DocumentLines DEF Parsing
<1>2. \A j \in DOMAIN stack : stack[j].indent \in Nat
  <2>1. ASSUME NEW j \in DOMAIN stack
        PROVE  stack[j] \in [kind : {"map", "list"}, indent : Nat, path : Seq(Keys \cup {Nothing})]
    BY <1>1, ElementOfSeq DEF DocumentType
  <2>2. QED
    BY <2>1
<1>3. k # Len(stack) => k \in 1 .. Len(stack) - 1
  BY <1>1
<1>4. k # Len(stack) => stack[k].indent < stack[Len(stack)].indent
  BY <1>1, <1>3 DEF Pending
<1>5. QED
  BY <1>1, <1>2, <1>4

\* The pending blocks stay pending when one of their lines is taken.
LEMMA PendingKept ==
  ASSUME DocumentType, AtLine, InBlock, NEW start \in [DOMAIN stack -> DOMAIN lines],
         Pending(start), lines' = lines, next' = next + 1
  PROVE  \A k \in DOMAIN stack :
           /\ start[k] <= next'
           /\ stack[k] = parseConfigBlock(start[k], BlockPath(lines, start[k]))
           /\ ParentLine(lines, start[k]) = start[k] - 1
           /\ IF k = 1 THEN start[k] = 1
              ELSE start[k] > 1 /\ Opens(lines[start[k] - 1])
                   /\ lines[start[k] - 1].indent = stack[k - 1].indent
           /\ \A j \in 1 .. k - 1 : stack[j].indent < stack[k].indent
           /\ \A i \in start[k] .. next' - 1 : lines[i].indent >= stack[k].indent
<1>1. /\ lines \in Lines /\ Len(lines) \in Nat /\ DOMAIN lines = 1 .. Len(lines)
      /\ next \in 1 .. Len(lines) /\ next \in Nat /\ Line = lines[next]
      /\ Len(stack) \in DOMAIN stack /\ DOMAIN stack = 1 .. Len(stack)
      /\ Len(stack) \in Nat /\ Top = stack[Len(stack)]
  BY DocumentLines DEF InBlock, Line, Parsing
<1>2. \A k \in DOMAIN stack : stack[k].indent \in Nat /\ stack[k].indent <= lines[next].indent
  BY <1>1, TopIsDeepest DEF InBlock
<1>4. ASSUME NEW k \in DOMAIN stack, NEW i \in start[k] .. next' - 1
      PROVE  lines[i].indent >= stack[k].indent
  <2>1. start[k] \in Nat
    BY <1>1
  <2>2. i = next \/ i \in start[k] .. next - 1
    BY <1>1, <2>1
  <2>3. lines[next].indent \in Nat
    BY <1>1, LineFields
  <2>4. i = next => lines[i].indent >= stack[k].indent
    BY <1>2, <2>3
  <2>5. QED
    BY <2>2, <2>4 DEF Pending
<1>5. \A k \in DOMAIN stack : start[k] \in Nat
  BY <1>1
<1>6. QED
  BY <1>1, <1>4, <1>5 DEF Pending

\* A line of the block on top is the last of it: all that follows is seen from it.
LEMMA TakenLine ==
  ASSUME DocumentType, AtLine, InBlock, NEW start \in [DOMAIN stack -> DOMAIN lines],
         Pending(start), lines' = lines, next' = next + 1, stack' = stack,
         ~ Opens(lines[next])
  PROVE  Pending(start)' /\ Dedents(start)' /\ Opened(start)'
<1>1. /\ lines \in Lines /\ Len(lines) \in Nat /\ DOMAIN lines = 1 .. Len(lines)
      /\ next \in 1 .. Len(lines) /\ next \in Nat /\ Line = lines[next] /\ next' - 1 = next
      /\ Len(stack) \in DOMAIN stack /\ stack # <<>>
  BY DocumentLines DEF InBlock, Line, Parsing
<1>2. Pending(start)'
  BY <1>1, PendingKept DEF Pending, parseConfigBlock
<1>3. Opened(start)'
  BY <1>1 DEF Opened
<1>4. Dedents(start)'
  <2>1. lines[next].indent <= Top.indent
    BY <1>1, LineFields DEF InBlock
  <2>2. ASSUME NEW j \in 1 .. next
        PROVE  \E i \in j .. next : lines[i].indent <= Top.indent
    BY <1>1, <2>1
  <2>3. Top' = Top
    BY DEF Top
  <2>4. QED
    BY <1>1, <2>2, <2>3 DEF Dedents, Done
<1>5. QED
  BY <1>2, <1>3, <1>4

\* An entry with a value (parseConfigMap, config_file.go:415).
LEMMA TakeScalarStep ==
  ASSUME DocumentType, AtLine, TakeScalar
  PROVE  AtLine'
<1>1. PICK start \in [DOMAIN stack -> DOMAIN lines] :
        Pending(start) /\ Dedents(start) /\ Opened(start)
  BY DEF AtLine
<1>2. /\ IsEntry /\ Line.value # Nothing /\ InBlock /\ Line = lines[next]
      /\ document' = document /\ lines' = lines /\ stack' = stack /\ next' = next + 1
      /\ values' = Put(values, Path,
                       [kind |-> "scalar", items |-> <<parseScalarValue(Line.value)>>])
  BY DEF TakeScalar, IsEntry, Line
<1>3. Fits(lines, next)
  BY <1>1, <1>2, TakenFits
<1>4. ~ Opens(lines[next])
  BY <1>2 DEF Opens
<1>5. TreeSoFar'
  <2>1. \A x : x = next => ValueSoFar(x)' = [kind |-> "scalar", items |-> <<parseScalarValue(Line.value)>>]
    <3>1. next # 0
      BY DocumentLines
    <3>2. QED
      BY <1>2, <1>4, <3>1 DEF ValueSoFar
  <2>2. QED
    BY <1>1, <1>2, <2>1, EntryPut
<1>6. Pending(start)' /\ Dedents(start)' /\ Opened(start)'
  BY <1>1, <1>2, <1>4, TakenLine
<1>7. QED
  BY <1>1, <1>2, <1>3, <1>5, <1>6, Advance DEF AtLine

\* An item of a list (parseConfigList).
LEMMA TakeItemStep ==
  ASSUME DocumentType, AtLine, TakeItem
  PROVE  AtLine'
<1>1. PICK start \in [DOMAIN stack -> DOMAIN lines] :
        Pending(start) /\ Dedents(start) /\ Opened(start)
  BY DEF AtLine
<1> DEFINE s == start[Len(stack)]
           path == LinePaths(lines)
           v == parseScalarValue(Line.value)
<1>2. /\ IsItem /\ InBlock /\ Parsing /\ Line = lines[next] /\ lines[next].form = "item"
      /\ document' = document /\ lines' = lines /\ stack' = stack /\ next' = next + 1
      /\ values' = [values EXCEPT ![Top.path].items = Append(@, v)]
  BY DEF TakeItem, IsItem, InBlock, Line
<1>3. Fits(lines, next)
  BY <1>1, <1>2, TakenFits
<1>4. ~ Opens(lines[next])
  BY <1>2 DEF Opens
<1>5. /\ lines \in Lines /\ Len(lines) \in Nat /\ DOMAIN lines = 1 .. Len(lines)
      /\ next \in 1 .. Len(lines) /\ next \in Nat
  BY <1>2, DocumentLines DEF InBlock
<1>6. /\ s \in 1 .. next /\ s \in 1 .. Len(lines) /\ lines[s].form = "item"
      /\ Top.path = path[s - 1] /\ ParentLine(lines, s) = s - 1 /\ s - 1 \in Entries
      /\ s = 1 \/ (s > 1 /\ Opens(lines[s - 1]))
  BY <1>1, <1>2, TopFacts DEF IsItem
<1>7. ParentLine(lines, next) = s - 1 /\ lines[next].indent = lines[s].indent
  BY <1>1, <1>2, InBlockFacts
<1>8. Entries' = Entries
  <2>1. Done' = Done \cup {next}
    BY <1>2, <1>5 DEF Done
  <2>2. QED
    BY <1>2, <2>1 DEF Entries
<1>9. /\ DOMAIN values = {path[i] : i \in Entries}
      /\ \A i, j \in Entries : path[i] = path[j] => i = j
      /\ \A i \in Entries : values[path[i]] = ValueSoFar(i)
  BY DEF AtLine, TreeSoFar
<1>10. \A p : p = s - 1 => /\ ValueSoFar(p) = [kind |-> "list", items |-> ItemsAmong(lines, s, next - 1)]
                          /\ ValueSoFar(p)' = [kind |-> "list", items |-> ItemsAmong(lines, s, next)]
  <2>1. ASSUME NEW p, p = s - 1
        PROVE  /\ ValueSoFar(p) = [kind |-> "list", items |-> ItemsAmong(lines, s, next - 1)]
               /\ ValueSoFar(p)' = [kind |-> "list", items |-> ItemsAmong(lines, s, next)]
    <3>1. next' - 1 = next /\ lines' = lines
      BY <1>2, <1>5
    <3>2. p + 1 = s
      BY <1>6, <2>1
    <3>3. p # 0 => Opens(lines[p])
      BY <1>6, <2>1
    <3>4. QED
      BY <1>6, <3>1, <3>2, <3>3 DEF ValueSoFar
  <2>2. QED
    BY <2>1
<1>11. ItemsAmong(lines, s, next) = Append(ItemsAmong(lines, s, next - 1), v)
  <2>1. next \in Siblings(lines, s)
    BY <1>5, <1>6, <1>7 DEF Siblings
  <2>2. QED
    BY <1>2, <1>5, <2>1, ItemsNext
<1>12. \A i \in Entries : i # s - 1 => ValueSoFar(i)' = ValueSoFar(i)
  BY <1>1, <1>2, ValuesKept
<1>13. TreeSoFar'
  <2> DEFINE q == Top.path
  <2>1. q \in DOMAIN values /\ q = path[s - 1] /\ values[q] = ValueSoFar(s - 1)
    BY <1>6, <1>9
  <2>2. values[q] = [kind |-> "list", items |-> ItemsAmong(lines, s, next - 1)]
    BY <1>10, <2>1
  <2>3. /\ DOMAIN values' = DOMAIN values
        /\ values'[q] = [values[q] EXCEPT !.items = Append(@, v)]
        /\ \A p \in DOMAIN values : p # q => values'[p] = values[p]
    <3> HIDE DEF v, q
    <3>1. values' = [values EXCEPT ![q].items = Append(@, v)]
      BY <1>2 DEF q
    <3>2. QED
      BY <2>1, <3>1
  <2>4. values'[q] = [kind |-> "list", items |-> ItemsAmong(lines, s, next)]
    <3> DEFINE u == ItemsAmong(lines, s, next - 1)
    <3> HIDE DEF v, q, u
    <3>1. [[kind |-> "list", items |-> u] EXCEPT !.items = Append(@, v)]
            = [kind |-> "list", items |-> Append(u, v)]
      OBVIOUS
    <3>2. QED
      BY <1>11, <2>2, <2>3, <3>1 DEF u
  <2>5. ASSUME NEW i \in Entries
        PROVE  values'[path[i]] = ValueSoFar(i)'
    <3>1. CASE i = s - 1
      BY <1>10, <2>1, <2>4, <3>1
    <3>2. CASE i # s - 1
      <4>1. path[i] \in DOMAIN values /\ path[i] # q /\ values[path[i]] = ValueSoFar(i)
        BY <1>6, <1>9, <2>1, <3>2
      <4>2. QED
        BY <1>12, <2>3, <3>2, <4>1
    <3>3. QED
      BY <3>1, <3>2
  <2>6. LinePaths(lines') = path
    BY <1>2
  <2> HIDE DEF path
  <2>7. QED
    BY <1>8, <1>9, <2>3, <2>5, <2>6 DEF TreeSoFar
<1>14. Pending(start)' /\ Dedents(start)' /\ Opened(start)'
  BY <1>1, <1>2, <1>4, TakenLine
<1>15. QED
  BY <1>1, <1>2, <1>3, <1>13, <1>14, Advance DEF AtLine

\* A key whose block follows: the recursive call.
LEMMA OpenBlockStep ==
  ASSUME DocumentType, AtLine, OpenBlock
  PROVE  AtLine'
<1>1. PICK start \in [DOMAIN stack -> DOMAIN lines] :
        Pending(start) /\ Dedents(start) /\ Opened(start)
  BY DEF AtLine
<1>0. PICK t, d : t = next + 1 /\ d = Len(stack)
  OBVIOUS
<1> DEFINE s == start[d]
           b == parseConfigBlock(t, Path)
           f == [k \in 1 .. d + 1 |-> IF k \in 1 .. d THEN start[k] ELSE t]
<1>2. /\ IsEntry /\ DeeperFollows /\ Line.value = Nothing /\ InBlock /\ Parsing /\ Line = lines[next]
      /\ document' = document /\ lines' = lines /\ stack' = Append(stack, b) /\ next' = t
      /\ values' = Put(values, Path, EmptyBlock(t))
  BY <1>0 DEF OpenBlock, IsEntry, InBlock, Line
<1>3. Fits(lines, next)
  BY <1>1, <1>2, TakenFits
<1>4. Opens(lines[next])
  BY <1>2 DEF Opens, IsEntry
<1>5. /\ lines \in Lines /\ Len(lines) \in Nat /\ DOMAIN lines = 1 .. Len(lines)
      /\ next \in 1 .. Len(lines) /\ next \in Nat
      /\ d \in Nat /\ d \in 1 .. d /\ DOMAIN stack = 1 .. d /\ Top = stack[d]
  BY <1>0, <1>2, DocumentLines DEF InBlock, Parsing
<1>6. /\ t \in 1 .. Len(lines) /\ t > 1 /\ t - 1 = next /\ lines[next].indent < lines[t].indent
      /\ lines[next].indent \in Nat /\ lines[t].indent \in Nat
  <2>1. t \in 1 .. Len(lines) /\ t > 1 /\ t - 1 = next /\ lines[t].indent > lines[next].indent
    BY <1>0, <1>2, <1>5 DEF DeeperFollows
  <2>2. lines[next].indent \in Nat /\ lines[t].indent \in Nat
    BY <1>5, <2>1, LineFields
  <2>3. QED
    BY <2>1, <2>2
<1>7. ParentLine(lines, t) = next
  BY <1>5, <1>6, DeeperBegins
<1>8. Path = LinePaths(lines)[next]
  <2>1. Top.path = LinePaths(lines)[s - 1] /\ ParentLine(lines, next) = s - 1
    BY <1>0, <1>1, <1>2, TopFacts, InBlockFacts
  <2>2. QED
    BY <1>2, <1>5, <2>1, PathFacts DEF Path
<1>9. TreeSoFar'
  <2>1. \A x : x = next => ValueSoFar(x)' = EmptyBlock(t)
    <3>1. ItemsAmong(lines, t, t - 1) = <<>>
      BY <1>5, <1>6, <1>7, NoItemsAbove
    <3>2. QED
      BY <1>0, <1>2, <1>4, <3>1 DEF ValueSoFar, EmptyBlock, EmptyList
  <2>2. next' = next + 1
    BY <1>0, <1>2
  <2>3. QED
    BY <1>1, <1>2, <2>1, <2>2, EntryPut
<1>10. /\ Len(stack') = d + 1 /\ DOMAIN stack' = 1 .. d + 1
       /\ (\A k \in 1 .. d : stack'[k] = stack[k]) /\ stack'[d + 1] = b
  <2>1. stack \in Seq([kind : {"map", "list"}, indent : Nat, path : Seq(Keys \cup {Nothing})])
    BY DEF DocumentType
  <2> HIDE DEF b
  <2>2. QED
    BY <1>0, <1>2, <2>1
<1>11. f \in [DOMAIN stack' -> DOMAIN lines'] /\ f[d + 1] = t /\ \A k \in 1 .. d : f[k] = start[k]
  BY <1>2, <1>5, <1>6, <1>10
<1>12. \A k \in 1 .. d :
           /\ start[k] <= next'
           /\ stack[k] = parseConfigBlock(start[k], BlockPath(lines, start[k]))
           /\ ParentLine(lines, start[k]) = start[k] - 1
           /\ IF k = 1 THEN start[k] = 1
              ELSE start[k] > 1 /\ Opens(lines[start[k] - 1])
                   /\ lines[start[k] - 1].indent = stack[k - 1].indent
           /\ \A j \in 1 .. k - 1 : stack[j].indent < stack[k].indent
           /\ \A i \in start[k] .. next' - 1 : lines[i].indent >= stack[k].indent
  <2>1. next' = next + 1
    BY <1>0, <1>2
  <2>2. QED
    BY <1>1, <1>2, <1>5, <2>1, PendingKept
<1>13. Pending(f)'
  <2>1. \A k \in 1 .. d : stack[k].indent \in Nat /\ stack[k].indent < lines[t].indent
    <3>1. \A k \in 1 .. d : stack[k].indent \in Nat /\ stack[k].indent <= lines[next].indent
      BY <1>1, <1>2, <1>5, TopIsDeepest DEF InBlock
    <3>2. QED
      BY <1>6, <3>1
  <2>2. b.indent = lines[t].indent
    BY DEF parseConfigBlock
  <2>3. b = parseConfigBlock(t, BlockPath(lines, t))
    BY <1>7, <1>8 DEF BlockPath
  <2>4. lines[next].indent = stack[d].indent
    BY <1>2, <1>5 DEF InBlock
  <2> HIDE DEF f
  <2>5. ASSUME NEW k \in 1 .. d + 1
        PROVE  /\ f[k] <= next'
               /\ stack'[k] = parseConfigBlock(f[k], BlockPath(lines, f[k]))
               /\ ParentLine(lines, f[k]) = f[k] - 1
               /\ IF k = 1 THEN f[k] = 1
                  ELSE f[k] > 1 /\ Opens(lines[f[k] - 1])
                       /\ lines[f[k] - 1].indent = stack'[k - 1].indent
               /\ \A j \in 1 .. k - 1 : stack'[j].indent < stack'[k].indent
               /\ \A i \in f[k] .. next' - 1 : lines[i].indent >= stack'[k].indent
    <3> HIDE DEF b
    <3>1. CASE k \in 1 .. d
      <4>1. (k # 1 => k - 1 \in 1 .. d) /\ \A j \in 1 .. k - 1 : j \in 1 .. d
        BY <1>5, <3>1
      <4>2. QED
        BY <1>10, <1>11, <1>12, <3>1, <4>1
    <3>2. CASE k = d + 1
      <4>1. f[k] = t /\ stack'[k] = b /\ k # 1 /\ k - 1 = d /\ stack'[d] = stack[d]
        BY <1>5, <1>10, <1>11, <3>2
      <4>2. t <= next' /\ \A i \in t .. next' - 1 : FALSE
        BY <1>2, <1>5, <1>6
      <4>3. \A j \in 1 .. d : stack'[j].indent < b.indent
        BY <1>10, <2>1, <2>2
      <4>4. ParentLine(lines, t) = t - 1 /\ t > 1 /\ Opens(lines[t - 1])
            /\ lines[t - 1].indent = stack[d].indent
        BY <1>4, <1>6, <1>7, <2>4
      <4>5. QED
        BY <2>3, <4>1, <4>2, <4>3, <4>4
    <3>3. QED
      BY <1>5, <3>1, <3>2
  <2>6. lines' = lines
    BY <1>2
  <2>7. QED
    BY <1>10, <2>5, <2>6 DEF Pending, parseConfigBlock
<1>14. Opened(f)'
  <2>1. stack' # <<>> /\ f[Len(stack')] = next'
    BY <1>2, <1>5, <1>10, <1>11
  <2> HIDE DEF f
  <2>2. QED
    BY <2>1 DEF Opened
<1>15. Dedents(f)'
  <2>1. stack' # <<>> /\ f[Len(stack')] = t /\ next' - 1 = next
    BY <1>2, <1>5, <1>6, <1>10, <1>11
  <2> HIDE DEF f
  <2>2. \A j \in 1 .. next : ~ (j >= t)
    BY <1>5, <1>6
  <2>3. QED
    BY <2>1, <2>2 DEF Dedents, Done
<1>16. lines' = Written' /\ lines' # <<>> /\ next' # 1
       /\ (\A i \in Done' : Fits(lines', i)) /\ Nested'
  <2>1. next' = next + 1
    BY <1>0, <1>2
  <2>2. QED
    BY <1>1, <1>2, <1>3, <2>1, Advance
<1> HIDE DEF f
<1>17. QED
  BY <1>9, <1>11, <1>13, <1>14, <1>15, <1>16 DEF AtLine

\* The return of a call, to a caller that looks at the same line: its block may be
\* any number of levels deeper than the line.
LEMMA CloseBlockStep ==
  ASSUME DocumentType, AtLine, CloseBlock
  PROVE  AtLine'
<1>1. PICK start \in [DOMAIN stack -> DOMAIN lines] :
        Pending(start) /\ Dedents(start) /\ Opened(start)
  BY DEF AtLine
<1>2. PICK d, s : d = Len(stack) /\ s = start[d]
  OBVIOUS
<1> DEFINE f == [k \in 1 .. d - 1 |-> start[k]]
<1>3. /\ Parsing /\ (HasLine => Line.indent < Top.indent) /\ Line = lines[next]
      /\ document' = document /\ lines' = lines /\ next' = next /\ values' = values
      /\ stack' = Front(stack)
  BY DEF CloseBlock, Line
<1>4. /\ lines \in Lines /\ Len(lines) \in Nat /\ DOMAIN lines = 1 .. Len(lines)
      /\ next \in 1 .. Len(lines) + 1 /\ next \in Nat
      /\ d \in Nat /\ d \in 1 .. d /\ DOMAIN stack = 1 .. d /\ Top = stack[d]
      /\ HasLine => next \in 1 .. Len(lines)
  BY <1>2, <1>3, DocumentLines DEF Parsing
<1>5. /\ s \in 1 .. next /\ s \in 1 .. Len(lines) /\ Top.indent = lines[s].indent
      /\ \A i \in s .. next - 1 : lines[i].indent >= Top.indent
  BY <1>1, <1>2, <1>3, TopFacts
<1>6. /\ Len(stack') = d - 1 /\ DOMAIN stack' = 1 .. d - 1
      /\ (\A k \in 1 .. d - 1 : stack'[k] = stack[k])
  <2>1. stack \in Seq([kind : {"map", "list"}, indent : Nat, path : Seq(Keys \cup {Nothing})])
    BY DEF DocumentType
  <2>2. QED
    BY <1>2, <1>3, <1>4, <2>1 DEF Front
<1>7. s < next
  <2>1. s = next => HasLine
    BY <1>4, <1>5 DEF HasLine
  <2>2. lines[s].indent \in Nat
    BY <1>4, <1>5, LineFields
  <2>3. s # next
    BY <1>3, <1>5, <2>1, <2>2
  <2>4. QED
    BY <1>4, <1>5, <2>3
<1>8. next' # 1
  BY <1>3, <1>4, <1>5, <1>7
<1>9. f \in [DOMAIN stack' -> DOMAIN lines'] /\ \A k \in 1 .. d - 1 : f[k] = start[k]
  BY <1>3, <1>4, <1>6
<1> HIDE DEF f
<1>10. Pending(f)'
  <2>1. ASSUME NEW k \in 1 .. d - 1
        PROVE  /\ f[k] <= next
               /\ stack'[k] = parseConfigBlock(f[k], BlockPath(lines, f[k]))
               /\ ParentLine(lines, f[k]) = f[k] - 1
               /\ IF k = 1 THEN f[k] = 1
                  ELSE f[k] > 1 /\ Opens(lines[f[k] - 1])
                       /\ lines[f[k] - 1].indent = stack'[k - 1].indent
               /\ \A j \in 1 .. k - 1 : stack'[j].indent < stack'[k].indent
               /\ \A i \in f[k] .. next - 1 : lines[i].indent >= stack'[k].indent
    <3>1. k \in DOMAIN stack /\ (k # 1 => k - 1 \in 1 .. d - 1) /\ \A j \in 1 .. k - 1 : j \in 1 .. d - 1
      BY <1>4
    <3>2. QED
      BY <1>1, <1>6, <1>9, <3>1 DEF Pending
  <2>2. QED
    BY <1>3, <1>6, <2>1 DEF Pending, parseConfigBlock
<1>11. ~ Opens(lines[next - 1])
  BY <1>1, <1>2, <1>4, <1>5, <1>7 DEF Opened
<1>12. Opened(f)'
  BY <1>3, <1>11 DEF Opened
<1>13. ASSUME HasLine, NEW j \in Done, ~ (Line.indent < lines[j].indent)
       PROVE  /\ d - 1 \in 1 .. d - 1
              /\ \E i \in j .. next - 1 : lines[i].indent <= stack[d - 1].indent
  <2>1. j \in 1 .. next - 1 /\ lines[j].indent \in Nat /\ lines[next].indent \in Nat
        /\ lines[s].indent \in Nat
    BY <1>4, <1>5, <1>13, LineFields DEF Done
  <2>2. ~ (j \in s .. next - 1)
    BY <1>3, <1>5, <1>13, <2>1
  <2>3. j < s
    BY <1>4, <1>5, <2>1, <2>2
  <2>4. IF d = 1 THEN s = 1 ELSE s > 1 /\ lines[s - 1].indent = stack[d - 1].indent
    BY <1>1, <1>2, <1>4 DEF Pending
  <2>5. s # 1
    BY <1>5, <2>1, <2>3
  <2>6. d # 1 /\ s - 1 \in j .. next - 1 /\ lines[s - 1].indent = stack[d - 1].indent
    BY <1>4, <1>5, <2>1, <2>3, <2>4, <2>5
  <2>7. d - 1 \in DOMAIN stack /\ d - 1 \in 1 .. d - 1
    BY <1>4, <2>6
  <2>8. stack[d - 1].indent \in Nat
    BY <1>1, <1>3, <2>7, TopIsDeepest
  <2>9. QED
    BY <2>6, <2>7, <2>8
<1>14. Dedents(f)'
  <2>1. ASSUME HasLine, NEW j \in Done
        PROVE  \/ Line.indent < lines[j].indent
               \/ /\ stack' # <<>>
                  /\ \E i \in j .. next - 1 : lines[i].indent <= (Top.indent)'
    <3>1. CASE Line.indent < lines[j].indent
      BY <3>1
    <3>2. CASE ~ (Line.indent < lines[j].indent)
      <4>1. d - 1 \in 1 .. d - 1 /\ \E i \in j .. next - 1 : lines[i].indent <= stack[d - 1].indent
        BY <1>13, <2>1, <3>2
      <4>2. stack' # <<>> /\ Top' = stack[d - 1]
        BY <1>6, <4>1 DEF Top, Last
      <4>3. QED
        BY <4>1, <4>2
    <3>3. QED
      BY <3>1, <3>2
  <2>2. HasLine' = HasLine /\ Line' = Line /\ Done' = Done
    BY <1>3 DEF HasLine, Line, Done
  <2>3. QED
    BY <1>3, <2>1, <2>2 DEF Dedents
<1>15. lines' = Written' /\ lines' # <<>> /\ (\A i \in Done' : Fits(lines', i)) /\ Nested' /\ TreeSoFar'
  <2>1. Done' = Done /\ Entries' = Entries /\ Written' = Written
    BY <1>3 DEF Done, Entries, Written
  <2>2. Nested'
    BY <1>3, <2>1 DEF AtLine, Nested
  <2>3. \A i \in Entries : ValueSoFar(i)' = ValueSoFar(i)
    BY <1>3 DEF ValueSoFar
  <2>4. TreeSoFar'
    BY <1>3, <2>1, <2>3 DEF AtLine, TreeSoFar
  <2>5. QED
    BY <1>3, <2>1, <2>2, <2>4 DEF AtLine
<1>16. QED
  BY <1>8, <1>9, <1>10, <1>12, <1>14, <1>15 DEF AtLine

\* The first line opens the block of the document.
LEMMA OpenDocumentStep ==
  ASSUME DocumentType, OpenDocument, DocumentType'
  PROVE  AtLine'
<1> DEFINE ls == lines'
           b == parseConfigBlock(1, <<>>)'
<1>1. /\ lines' = Written' /\ ls # <<>> /\ next' = 1 /\ stack' = <<b>>
      /\ values' = [p \in {<<>>} |-> EmptyBlock(1)']
  BY DEF OpenDocument, DocumentType, Written
<1>2. ls \in Lines /\ 1 \in 1 .. Len(ls) /\ DOMAIN ls = 1 .. Len(ls)
  <2>1. (lines \in Lines)'
    BY DocumentLines, PTL
  <2>2. QED
    BY <1>1, <2>1, LineNumbers
<1>3. ParentLine(ls, 1) = 0 /\ LinePaths(ls)[0] = <<>>
  BY <1>1, <1>2, FirstLine, PathFacts
<1>4. Done' = {} /\ Entries' = {0}
  BY <1>1 DEF Done, Entries
<1>5. Nested' /\ \A i \in Done' : Fits(ls, i)
  BY <1>4 DEF Nested
<1>6. TreeSoFar'
  <2>1. ItemsAmong(ls, 1, 0) = <<>>
    BY <1>2, ItemsNext
  <2>2. ValueSoFar(0)' = EmptyBlock(1)'
    BY <1>1, <2>1 DEF ValueSoFar, EmptyBlock, EmptyList
  <2>3. QED
    BY <1>1, <1>3, <1>4, <2>2 DEF TreeSoFar
<1> DEFINE f == [k \in 1 .. 1 |-> 1]
<1>7. f \in [DOMAIN stack' -> DOMAIN lines'] /\ f[1] = 1 /\ Len(stack') = 1 /\ DOMAIN stack' = {1}
      /\ stack'[1] = b /\ stack' # <<>>
  BY <1>1, <1>2
<1> HIDE DEF f
<1>8. Pending(f)'
  <2>1. b = parseConfigBlock(1, BlockPath(lines, 1))'
    BY <1>3 DEF BlockPath
  <2> HIDE DEF b
  <2>2. QED
    BY <1>1, <1>3, <1>7, <2>1 DEF Pending
<1>9. Dedents(f)' /\ Opened(f)'
  BY <1>1, <1>4 DEF Dedents, Opened
<1>10. QED
  BY <1>1, <1>5, <1>6, <1>7, <1>8, <1>9 DEF AtLine

-----------------------------------------------------------------------------
(***************************************************************************)
(* The verdict.                                                            *)
(***************************************************************************)
\* When all lines before it fit, a line that does not is the first such one.
LEMMA FirstMisfit ==
  ASSUME DocumentType, AtLine, HasLine, ~ Fits(lines, next)
  PROVE  Misfits(lines) # {} /\ Min(Misfits(lines)) = next
<1> DEFINE D == Misfits(lines)
<1>1. /\ Len(lines) \in Nat /\ DOMAIN lines = 1 .. Len(lines)
      /\ next \in 1 .. Len(lines) /\ next \in Nat
  BY DocumentLines
<1>2. D \subseteq 1 .. Len(lines) /\ next \in D
  BY <1>1 DEF Misfits
<1>3. ASSUME NEW i \in D
      PROVE  next <= i
  <2>1. i \notin Done /\ i \in 1 .. Len(lines)
    BY <1>1, <1>3 DEF Misfits, AtLine
  <2>2. QED
    BY <1>1, <2>1 DEF Done
<1>4. D \subseteq Nat
  BY <1>1, <1>2
<1> HIDE DEF D
<1>5. D # {} /\ Min(D) = next
  BY <1>2, <1>3, <1>4, MinIs
<1>6. QED
  BY <1>5 DEF D

\* A line the block on top cannot take.
LEMMA RefuseLineStep ==
  ASSUME DocumentType, AtLine, RefuseLine, Unscanned(TrimDocument(document)) = {}
  PROVE  BlamesFirstMisfit'
<1>1. PICK start \in [DOMAIN stack -> DOMAIN lines] :
        Pending(start) /\ Dedents(start) /\ Opened(start)
  BY DEF AtLine
<1>2. /\ Parsing /\ HasLine /\ Line.indent >= Top.indent /\ Line = lines[next]
      /\ document' = document /\ lines' = lines /\ faulty' = Line.number
  BY DEF RefuseLine, Fail, Line
<1>3. Line.indent \in Nat /\ Top.indent \in Nat
  <2>1. lines[next].indent \in Nat
    BY <1>2, DocumentLines, LineFields
  <2>2. Len(stack) \in DOMAIN stack
    BY <1>2, DocumentLines DEF Parsing
  <2>3. Top.indent \in Nat
    BY <1>1, <1>2, <2>2, TopIsDeepest
  <2>4. QED
    BY <1>2, <2>1, <2>3
<1>4. ~ Fits(lines, next)
  <2>1. CASE Line.indent > Top.indent
    BY <1>1, <1>2, <2>1, TooDeep
  <2>2. CASE Line.indent = Top.indent
    <3>1. InBlock
      BY <1>2, <2>2 DEF InBlock
    <3>2. QED
      BY <1>1, <3>1, RefusedMisfits DEF RefuseLine
  <2>3. QED
    BY <1>2, <1>3, <2>1, <2>2
<1>5. Misfits(lines) # {} /\ Min(Misfits(lines)) = next
  BY <1>2, <1>4, FirstMisfit
<1>6. Written' = lines
  BY <1>2 DEF AtLine, Written
<1>7. QED
  BY <1>2, <1>5, <1>6 DEF BlamesFirstMisfit

\* A line left of the first one, after the block of the document.
LEMMA RefuseTrailingStep ==
  ASSUME DocumentType, AtLine, RefuseTrailing, Unscanned(TrimDocument(document)) = {}
  PROVE  BlamesFirstMisfit'
<1>1. PICK start \in [DOMAIN stack -> DOMAIN lines] :
        Pending(start) /\ Dedents(start) /\ Opened(start)
  BY DEF AtLine
<1>2. /\ stack = <<>> /\ HasLine /\ Line = lines[next]
      /\ document' = document /\ lines' = lines /\ faulty' = Line.number
  BY DEF RefuseTrailing, Returned, Fail, Line
<1>3. /\ lines \in Lines /\ Len(lines) \in Nat /\ DOMAIN lines = 1 .. Len(lines)
      /\ next \in 1 .. Len(lines) /\ next \in Nat
  BY <1>2, DocumentLines
<1>4. next > 1
  BY <1>2, <1>3 DEF AtLine
<1>5. ~ Opens(lines[next - 1])
  BY <1>1, <1>2, <1>4 DEF Opened
<1>6. ASSUME NEW j \in Siblings(lines, next), j < next
      PROVE  FALSE
  <2>1. j \in Done /\ j \in 1 .. Len(lines) /\ lines[j].indent = lines[next].indent
    BY <1>3, <1>6 DEF Siblings, Done
  <2>2. lines[next].indent < lines[j].indent
    BY <1>1, <1>2, <2>1 DEF Dedents
  <2>3. QED
    BY <1>3, <2>1, <2>2, LineFields
<1>7. ~ Fits(lines, next)
  BY <1>4, <1>5, <1>6 DEF Fits
<1>8. Misfits(lines) # {} /\ Min(Misfits(lines)) = next
  BY <1>2, <1>7, FirstMisfit
<1>9. Written' = lines
  BY <1>2 DEF AtLine, Written
<1>10. QED
  BY <1>2, <1>8, <1>9 DEF BlamesFirstMisfit

\* What the document's own value says of its first line.
LEMMA AllRead ==
  ASSUME DocumentType, AtLine, ~ HasLine
  PROVE  /\ Misfits(lines) = {} /\ next = Len(lines) + 1
         /\ values[<<>>] = ValueSoFar(0)
         /\ IsListed(lines) <=> lines[1].form = "item"
<1>1. /\ lines \in Lines /\ Len(lines) \in Nat /\ DOMAIN lines = 1 .. Len(lines)
      /\ next \in 1 .. Len(lines) + 1
  BY DocumentLines
<1>2. next = Len(lines) + 1
  BY <1>1 DEF HasLine
<1>3. Misfits(lines) = {}
  BY <1>1, <1>2 DEF Misfits, AtLine, Done
<1>4. values[<<>>] = ValueSoFar(0)
  <2>1. 0 \in Entries /\ LinePaths(lines)[0] = <<>>
    BY <1>1, PathFacts DEF Entries
  <2>2. QED
    BY <2>1 DEF AtLine, TreeSoFar
<1>5. QED
  BY <1>2, <1>3, <1>4 DEF IsListed, AtLine

\* A document that is a list.
LEMMA RefuseTopLevelListStep ==
  ASSUME DocumentType, AtLine, RefuseTopLevelList, Unscanned(TrimDocument(document)) = {}
  PROVE  BlamesFirstMisfit'
<1>1. /\ ~ HasLine /\ document' = document /\ lines' = lines /\ faulty' = 0
      /\ values[<<>>].kind # "map"
  BY DEF RefuseTopLevelList, Fail
<1>2. Written' = lines
  BY <1>1 DEF AtLine, Written
<1>3. lines[1].form = "item"
  BY <1>1, AllRead DEF ValueSoFar, Mapping
<1>4. QED
  BY <1>1, <1>2, <1>3, AllRead DEF BlamesFirstMisfit

\* When all lines are read, the tree says what the indentation does.
LEMMA TreeMeans ==
  ASSUME DocumentType, AtLine, ~ HasLine, lines[1].form # "item"
  PROVE  {<<p, values[p]>> : p \in DOMAIN values} = Meaning(lines)
<1> DEFINE n == Len(lines)
           path == LinePaths(lines)
           I == {j \in DOMAIN lines : Opens(lines[j]) => lines[j + 1].form # "item"}
<1>1. /\ lines \in Lines /\ n \in Nat /\ DOMAIN lines = 1 .. n /\ n > 0
      /\ next = n + 1 /\ Done = 1 .. n /\ next - 1 = n
  BY DocumentLines, LineNumbers, AllRead DEF AtLine, Done
<1>2. Entries = {0} \cup {i \in 1 .. n : lines[i].form = "entry"}
  BY <1>1 DEF Entries
<1>3. \A i \in 1 .. n : Fits(lines, i)
  BY <1>1 DEF AtLine
<1>4. \A i \in 1 .. n : lines[i].form \in {"entry", "item"}
  BY <1>3 DEF Fits
<1>5. ASSUME NEW i \in 1 .. n, Opens(lines[i])
      PROVE  i + 1 \in 1 .. n /\ ParentLine(lines, i + 1) = i
  <2>1. i < n /\ lines[i + 1].indent > lines[i].indent
    BY <1>1, <1>3, <1>5 DEF Fits
  <2>2. i + 1 \in 1 .. n /\ i + 1 > 1 /\ lines[i].indent \in Nat
    BY <1>1, <2>1, LineFields
  <2>3. lines[i + 1].indent \in Nat
    BY <1>1, <2>2, LineFields
  <2>4. \A m : m = i + 1 => ParentLine(lines, m) = i
    <3>1. ASSUME NEW m, m = i + 1
          PROVE  ParentLine(lines, m) = i
      <4>1. m \in 1 .. n /\ m > 1 /\ m - 1 = i /\ lines[m - 1].indent < lines[m].indent
        BY <2>1, <2>2, <2>3, <3>1
      <4>2. QED
        BY <1>1, <4>1, DeeperBegins
    <3>2. QED
      BY <3>1
  <2>5. QED
    BY <2>2, <2>4
<1>6. \A i \in 1 .. n : path[i] = Append(path[ParentLine(lines, i)], lines[i].key)
  BY <1>1, PathFacts
<1>7. /\ path[0] = <<>> /\ DOMAIN values = {path[i] : i \in Entries}
      /\ \A i \in Entries : values[path[i]] = ValueSoFar(i)
  BY <1>1, PathFacts DEF AtLine, TreeSoFar
<1>8. {<<p, values[p]>> : p \in DOMAIN values} = {<<path[i], ValueSoFar(i)>> : i \in Entries}
  <2> HIDE DEF path
  <2>1. QED
    BY <1>7
<1>9. Meaning(lines) = {<<<<>>, Mapping>>} \cup {<<PathOf(lines, i), NodeAt(lines, i)>> : i \in I}
  BY DEF Meaning
<1>10. ValueSoFar(0) = Mapping
  BY DEF ValueSoFar

\* An entry without a value before an item has the value the item's line has.
<1>11. ASSUME NEW i \in Entries, i # 0
       PROVE  \E j \in I : PathOf(lines, j) = path[i] /\ NodeAt(lines, j) = ValueSoFar(i)
  <2>1. i \in 1 .. n /\ lines[i].form = "entry"
    BY <1>2, <1>11
  <2>2. CASE Opens(lines[i]) /\ lines[i + 1].form = "item"
    <3>1. \A j : j = i + 1 =>
            j \in I /\ PathOf(lines, j) = path[i] /\ NodeAt(lines, j) = ValueSoFar(i)
      <4>1. ASSUME NEW j, j = i + 1
            PROVE  j \in I /\ PathOf(lines, j) = path[i] /\ NodeAt(lines, j) = ValueSoFar(i)
        <5>1. j \in 1 .. n /\ ParentLine(lines, j) = i /\ lines[j].form = "item"
          BY <1>5, <2>1, <2>2, <4>1
        <5>2. j \in I
          BY <1>1, <5>1 DEF Opens
        <5>3. PathOf(lines, j) = path[i]
          BY <5>1 DEF PathOf, BlockPath
        <5>4. ValueSoFar(i) = [kind |-> "list", items |-> ItemsAmong(lines, j, n)]
          BY <1>1, <1>11, <2>2, <4>1 DEF ValueSoFar
        <5>5. NodeAt(lines, j) = [kind |-> "list", items |-> ItemsAmong(lines, j, n)]
          BY <5>1 DEF NodeAt, ItemsOf
        <5>6. QED
          BY <5>2, <5>3, <5>4, <5>5
      <4>2. QED
        BY <4>1
    <3>2. QED
      BY <3>1
  <2>3. CASE ~ (Opens(lines[i]) /\ lines[i + 1].form = "item")
    <3>1. i \in I
      BY <1>1, <2>1, <2>3
    <3>2. PathOf(lines, i) = path[i]
      BY <1>6, <2>1 DEF PathOf, BlockPath
    <3>3. NodeAt(lines, i) = ValueSoFar(i)
      BY <1>11, <2>1, <2>3 DEF NodeAt, ValueSoFar
    <3>4. QED
      BY <3>1, <3>2, <3>3
  <2>4. QED
    BY <2>2, <2>3
<1>12. ASSUME NEW i \in I
       PROVE  \E j \in Entries : path[j] = PathOf(lines, i) /\ ValueSoFar(j) = NodeAt(lines, i)
  <2>1. i \in 1 .. n
    BY <1>1
  <2>2. CASE lines[i].form = "entry"
    <3>1. i \in Entries /\ i # 0
      BY <1>2, <2>1, <2>2
    <3>2. PathOf(lines, i) = path[i]
      BY <1>6, <2>1, <2>2 DEF PathOf, BlockPath
    <3>3. NodeAt(lines, i) = ValueSoFar(i)
      BY <1>12, <2>2, <3>1 DEF NodeAt, ValueSoFar
    <3>4. QED
      BY <3>1, <3>2, <3>3
  <2>3. CASE lines[i].form = "item"
    <3> DEFINE p == ParentLine(lines, i)
    <3>1. p \in 0 .. i - 1 /\ (p = 0 \/ Opens(lines[p])) /\ lines[i].indent = lines[p + 1].indent
      BY <1>1, <2>1, ParentFacts DEF AtLine, Nested
    <3>2. PathOf(lines, i) = path[p] /\ NodeAt(lines, i) = [kind |-> "list", items |-> ItemsAmong(lines, i, n)]
      BY <2>3 DEF PathOf, BlockPath, NodeAt, ItemsOf
    <3>3. p + 1 \in 1 .. i /\ p + 1 \in 1 .. n /\ ParentLine(lines, p + 1) = p
      <4>1. CASE p = 0
        <5>1. ParentLine(lines, 1) = 0
          BY <1>1, FirstLine DEF AtLine
        <5> HIDE DEF p
        <5>2. QED
          BY <1>1, <2>1, <4>1, <5>1
      <4>2. CASE p # 0
        <5>1. p \in 1 .. n /\ Opens(lines[p])
          BY <1>1, <2>1, <3>1, <4>2
        <5>2. p + 1 \in 1 .. n /\ ParentLine(lines, p + 1) = p
          BY <1>5, <5>1
        <5> HIDE DEF p
        <5>3. QED
          BY <1>1, <2>1, <3>1, <5>2
      <4>3. QED
        BY <4>1, <4>2
    <3> HIDE DEF p
    <3>4. Siblings(lines, i) = Siblings(lines, p + 1)
      BY <3>1, <3>3 DEF Siblings, p
    <3>5. lines[p + 1].form = "item"
      <4>1. p + 1 \in Siblings(lines, i)
        BY <1>1, <3>1, <3>3 DEF Siblings, p
      <4>2. p + 1 < i => lines[p + 1].form = lines[i].form
        BY <1>3, <2>1, <4>1 DEF Fits
      <4>3. p + 1 = i \/ p + 1 < i
        BY <1>1, <2>1, <3>1, <3>3
      <4>4. QED
        BY <2>3, <4>2, <4>3
    <3>6. p # 0
      BY <3>5
    <3>7. p \in Entries
      BY <1>1, <1>2, <2>1, <3>1, <3>6 DEF Opens
    <3>8. ValueSoFar(p) = [kind |-> "list", items |-> ItemsAmong(lines, p + 1, n)]
      BY <1>1, <3>1, <3>5, <3>6 DEF ValueSoFar
    <3>9. ItemsAmong(lines, p + 1, n) = ItemsAmong(lines, i, n)
      BY <3>4 DEF ItemsAmong
    <3>10. QED
      BY <3>2, <3>7, <3>8, <3>9
  <2>4. QED
    BY <1>4, <2>1, <2>2, <2>3
<1> HIDE DEF I, path
<1>13. 0 \in Entries
  BY <1>2
<1>14. QED
  BY <1>7, <1>8, <1>9, <1>10, <1>11, <1>12, <1>13

\* All lines are read, and the document is a mapping.
LEMMA AcceptStep ==
  ASSUME DocumentType, AtLine, Accept
  PROVE  TreeIsIndentation'
<1>1. /\ ~ HasLine /\ document' = document /\ lines' = lines /\ values' = values
      /\ values[<<>>].kind = "map"
  BY DEF Accept
<1>2. Written' = lines
  BY <1>1 DEF AtLine, Written
<1>3. lines[1].form # "item"
  BY <1>1, AllRead DEF ValueSoFar
<1>4. {<<p, values[p]>> : p \in DOMAIN values} = Meaning(lines)
  BY <1>1, <1>3, TreeMeans
<1>5. Misfits(lines) = {} /\ ~ IsListed(lines)
  BY <1>1, <1>3, AllRead
<1>6. QED
  BY <1>1, <1>2, <1>4, <1>5 DEF TreeIsIndentation

\* A document without lines.
LEMMA AcceptEmptyStep ==
  ASSUME AcceptEmpty
  PROVE  TreeIsIndentation'
<1>1. /\ document' = document /\ Written = <<>> /\ values' = [p \in {<<>>} |-> Mapping]
  BY DEF AcceptEmpty, Written
<1>2. Written' = <<>>
  BY <1>1 DEF Written
<1>3. Misfits(<<>>) = {} /\ ~ IsListed(<<>>)
  BY DEF Misfits, IsListed
<1>4. Meaning(<<>>) = {<<<<>>, Mapping>>}
  BY DEF Meaning
<1>5. {<<p, values'[p]>> : p \in DOMAIN values'} = {<<<<>>, Mapping>>}
  BY <1>1
<1>6. QED
  BY <1>2, <1>3, <1>4, <1>5 DEF TreeIsIndentation

-----------------------------------------------------------------------------
(***************************************************************************)
(* The types of the parser's state.                                        *)
(***************************************************************************)
RawLines == Seq({l \in RawLine : l.form = "item" => l.value # Nothing})

\* A document is a list of lines of the right type.
LEMMA DocumentsAreLines ==
  ASSUME NEW doc
  PROVE  IsDocument(doc) <=> doc \in RawLines
<1>1. ASSUME IsDocument(doc)
      PROVE  doc \in RawLines
  <2>1. doc \in Seq(RawLine) /\ DOMAIN doc = 1 .. Len(doc) /\ Len(doc) \in Nat
    BY <1>1 DEF IsDocument
  <2>2. ASSUME NEW i \in 1 .. Len(doc)
        PROVE  doc[i] \in {l \in RawLine : l.form = "item" => l.value # Nothing}
    <3>1. doc[i] \in RawLine
      BY <2>1, ElementOfSeq
    <3>2. doc[i].form = "item" => doc[i].value # Nothing
      BY <1>1, <2>1 DEF IsDocument
    <3>3. QED
      BY <3>1, <3>2
  <2>3. doc = [i \in 1 .. Len(doc) |-> doc[i]]
    BY <2>1, SeqEqual
  <2>4. QED
    BY <2>1, <2>2, <2>3, IsASeq DEF RawLines
<1>2. ASSUME doc \in RawLines
      PROVE  IsDocument(doc)
  <2>1. DOMAIN doc = 1 .. Len(doc) /\ Len(doc) \in Nat
    BY <1>2 DEF RawLines
  <2>2. ASSUME NEW i \in 1 .. Len(doc)
        PROVE  doc[i] \in RawLine /\ (doc[i].form = "item" => doc[i].value # Nothing)
    <3>1. doc[i] \in {l \in RawLine : l.form = "item" => l.value # Nothing}
      BY <1>2, ElementOfSeq DEF RawLines
    <3>2. QED
      BY <3>1
  <2>3. doc = [i \in 1 .. Len(doc) |-> doc[i]]
    BY <1>2, SeqEqual DEF RawLines
  <2>4. doc \in Seq(RawLine)
    BY <2>1, <2>2, <2>3, IsASeq
  <2>5. QED
    BY <2>1, <2>2, <2>4 DEF IsDocument
<1>3. QED
  BY <1>1, <1>2

\* So is one that was trimmed.
LEMMA TrimmedDocument ==
  ASSUME NEW doc \in RawLines
  PROVE  TrimDocument(doc) \in RawLines
<1> DEFINE R == {l \in RawLine : l.form = "item" => l.value # Nothing}
           written == {i \in DOMAIN doc : doc[i].form # "blank"}
           m == Min(written)
           rest == SubSeq(doc, m, Len(doc))
           first == [rest[1] EXCEPT !.indent = 0]
<1>1. doc \in Seq(R) /\ DOMAIN doc = 1 .. Len(doc) /\ Len(doc) \in Nat /\ written \subseteq 1 .. Len(doc)
  BY DEF RawLines
<1>2. CASE written = {}
  <2>1. TrimDocument(doc) = <<>>
    BY <1>2 DEF TrimDocument
  <2>2. QED
    BY <2>1 DEF RawLines
<1>3. CASE written # {}
  <2>1. m \in 1 .. Len(doc)
    <3>1. written \subseteq Nat
      BY <1>1
    <3> HIDE DEF written
    <3>2. QED
      BY <1>1, <1>3, <3>1, LeastIsMin
  <2>2. TrimDocument(doc) = <<first>> \o Tail(rest)
    BY <1>3 DEF TrimDocument
  <2> HIDE DEF m, R
  <2>3. rest \in Seq(R) /\ Len(rest) > 0 /\ Len(rest) \in Nat
    BY <1>1, <2>1
  <2> HIDE DEF rest
  <2>4. rest[1] \in R /\ Tail(rest) \in Seq(R)
    BY <2>3, ElementOfSeq
  <2>5. first \in R
    BY <2>4 DEF R, RawLine
  <2> HIDE DEF first
  <2>6. <<first>> \in Seq(R)
    BY <2>5
  <2>7. <<first>> \o Tail(rest) \in Seq(R)
    BY <2>4, <2>6
  <2>8. QED
    BY <2>2, <2>7 DEF RawLines, R
<1>4. QED
  BY <1>2, <1>3

\* So are the lines that carry something.
LEMMA TokenizedLines ==
  ASSUME NEW doc \in RawLines
  PROVE  tokenizeConfigLines(doc) \in Lines
<1> DEFINE V == {l \in LineRecord : l.form = "item" => l.value # Nothing}
           Number(i) == [number |-> i, indent |-> doc[i].indent, form |-> doc[i].form,
                         key |-> doc[i].key, value |-> doc[i].value]
           n == Len(doc)
           f == [i \in 1 .. n |-> IF doc[i].form \in {"blank", "comment"} THEN <<>> ELSE <<Number(i)>>]
<1>1. n \in Nat /\ DOMAIN doc = 1 .. n
  BY DEF RawLines
<1>2. ASSUME NEW i \in 1 .. n
      PROVE  f[i] \in Seq(V)
  <2>1. doc[i] \in {l \in RawLine : l.form = "item" => l.value # Nothing}
    BY <1>1, ElementOfSeq DEF RawLines
  <2>2. Number(i) \in V
    BY <1>1, <2>1 DEF RawLine, LineRecord
  <2> HIDE DEF V, Number
  <2>3. <<>> \in Seq(V) /\ <<Number(i)>> \in Seq(V)
    BY <2>2
  <2>4. QED
    BY <2>3
<1>3. tokenizeConfigLines(doc) = FlattenSeq(f)
  BY <1>1 DEF tokenizeConfigLines
<1> HIDE DEF V
<1>4. f \in [1 .. n -> Seq(V)]
  BY <1>2
<1> HIDE DEF f
<1>5. FlattenSeq(f) \in Seq(V)
  BY <1>1, <1>4, FlattenTyped
<1>6. QED
  BY <1>3, <1>5 DEF Lines, V

\* A line has the fields of one.
LEMMA LinesAreTyped ==
  ASSUME NEW ls \in Lines
  PROVE  ls \in Seq(LineRecord) /\ \A i \in DOMAIN ls : ls[i].form = "item" => ls[i].value # Nothing
<1>1. Len(ls) \in Nat /\ DOMAIN ls = 1 .. Len(ls)
  BY LineNumbers
<1>2. ASSUME NEW i \in 1 .. Len(ls)
      PROVE  ls[i] \in LineRecord /\ (ls[i].form = "item" => ls[i].value # Nothing)
  <2>1. ls[i] \in {l \in LineRecord : l.form = "item" => l.value # Nothing}
    BY ElementOfSeq DEF Lines
  <2>2. QED
    BY <2>1
<1>3. ls = [i \in 1 .. Len(ls) |-> ls[i]]
  BY SeqEqual DEF Lines
<1>4. ls \in Seq(LineRecord)
  BY <1>1, <1>2, <1>3, IsASeq
<1>5. QED
  BY <1>1, <1>2, <1>4

Frames == Seq([kind : {"map", "list"}, indent : Nat, path : Seq(Keys \cup {Nothing})])

\* What is left of a stack without its top.
LEMMA FrontTyped ==
  ASSUME NEW S, NEW q \in Seq(S), q # <<>>
  PROVE  Front(q) \in Seq(S) /\ Last(q) \in S
<1>1. Len(q) \in Nat /\ Len(q) \in 1 .. Len(q) /\ Len(q) - 1 \in Int /\ 1 \in Int
  OBVIOUS
<1>2. \A i \in 1 .. Len(q) : q[i] \in S
  BY ElementOfSeq
<1>3. \A i \in 1 .. Len(q) - 1 : q[i] \in S
  BY <1>1, <1>2
<1>4. SubSeq(q, 1, Len(q) - 1) \in Seq(S)
  BY <1>1, <1>3, SubSeqProperties
<1>5. QED
  BY <1>1, <1>2, <1>4 DEF Front, Last

\* Every step keeps the types.
LEMMA TypeKept ==
  ASSUME DocumentType, Parse
  PROVE  DocumentType'
<1>1. /\ lines \in Lines /\ Len(lines) \in Nat /\ DOMAIN lines = 1 .. Len(lines)
      /\ next \in 1 .. Len(lines) + 1 /\ next \in Nat
      /\ HasLine => next \in 1 .. Len(lines)
      /\ Len(stack) \in Nat /\ DOMAIN stack = 1 .. Len(stack)
      /\ stack # <<>> => Len(stack) \in 1 .. Len(stack) /\ Top = stack[Len(stack)]
      /\ stack \in Frames
  BY DocumentLines DEF DocumentType, Frames
<1>2. CASE RefuseScan \/ RefuseLine \/ RefuseTrailing \/ RefuseTopLevelList
  BY <1>2 DEF DocumentType, RefuseScan, RefuseLine, RefuseTrailing, RefuseTopLevelList, Fail
<1>3. CASE AcceptEmpty \/ Accept
  BY <1>3 DEF DocumentType, AcceptEmpty, Accept
<1>4. CASE OpenDocument
  <2>1. document \in RawLines
    BY DocumentsAreLines DEF DocumentType
  <2>2. lines' \in Lines
    BY <1>4, <2>1, TrimmedDocument, TokenizedLines DEF OpenDocument
  <2>3. lines' # <<>> /\ next' = 1 /\ document' = document /\ status' = "parsing"
        /\ stack' = <<parseConfigBlock(1, <<>>)'>>
    BY <1>4 DEF OpenDocument, DocumentType
  <2>4. Len(lines') \in Nat /\ 1 \in 1 .. Len(lines')
    BY <2>2, <2>3, LineNumbers
  <2>5. lines'[1].indent \in Nat
    BY <2>2, <2>4, LineFields
  <2>6. stack' \in Frames
    <3>1. <<>> \in Seq(Keys \cup {Nothing})
      OBVIOUS
    <3>2. parseConfigBlock(1, <<>>)' \in
            [kind : {"map", "list"}, indent : Nat, path : Seq(Keys \cup {Nothing})]
      BY <2>5, <3>1 DEF parseConfigBlock
    <3>3. QED
      BY <2>3, <3>2 DEF Frames
  <2>7. next' \in 1 .. Len(lines') + 1
    BY <2>3, <2>4
  <2>8. QED
    BY <2>2, <2>3, <2>6, <2>7, LinesAreTyped DEF DocumentType, Frames
<1>5. CASE TakeScalar \/ TakeItem
  <2>1. /\ HasLine /\ document' = document /\ lines' = lines /\ stack' = stack
        /\ status' = "parsing" /\ next' = next + 1
    BY <1>5 DEF TakeScalar, TakeItem, IsEntry, IsItem, InBlock, Parsing
  <2>2. next' \in 1 .. Len(lines') + 1
    BY <1>1, <2>1
  <2>3. QED
    BY <2>1, <2>2 DEF DocumentType
<1>6. CASE OpenBlock
  <2>1. /\ document' = document /\ lines' = lines /\ status' = "parsing" /\ next' = next + 1
        /\ stack # <<>> /\ next < Len(lines) /\ Line = lines[next]
        /\ stack' = Append(stack, parseConfigBlock(next + 1, Path))
    BY <1>6 DEF OpenBlock, IsEntry, InBlock, Parsing, DeeperFollows, Line
  <2>2. next' \in 1 .. Len(lines') + 1 /\ next + 1 \in 1 .. Len(lines) /\ next \in 1 .. Len(lines)
    BY <1>1, <2>1
  <2>3. stack' \in Frames
    <3>1. Top \in [kind : {"map", "list"}, indent : Nat, path : Seq(Keys \cup {Nothing})]
      <4>1. Last(stack) \in [kind : {"map", "list"}, indent : Nat, path : Seq(Keys \cup {Nothing})]
        BY <1>1, <2>1, FrontTyped DEF Frames
      <4>2. QED
        BY <4>1 DEF Top
    <3>2. Line.key \in Keys \cup {Nothing}
      BY <1>1, <2>1, <2>2, LineFields
    <3>3. Path \in Seq(Keys \cup {Nothing})
      BY <3>1, <3>2 DEF Path
    <3>4. lines[next + 1].indent \in Nat
      BY <1>1, <2>2, LineFields
    <3>5. parseConfigBlock(next + 1, Path) \in
            [kind : {"map", "list"}, indent : Nat, path : Seq(Keys \cup {Nothing})]
      BY <3>3, <3>4 DEF parseConfigBlock
    <3>6. QED
      BY <1>1, <2>1, <3>5 DEF Frames
  <2>4. QED
    BY <2>1, <2>2, <2>3 DEF DocumentType, Frames
<1>7. CASE CloseBlock
  <2>1. /\ document' = document /\ lines' = lines /\ status' = "parsing" /\ next' = next
        /\ stack # <<>> /\ stack' = Front(stack)
    BY <1>7 DEF CloseBlock, Parsing
  <2>2. stack' \in Frames
    <3>1. Front(stack) \in Frames
      BY <1>1, <2>1, FrontTyped DEF Frames
    <3>2. QED
      BY <2>1, <3>1
  <2>3. QED
    BY <1>1, <2>1, <2>2 DEF DocumentType, Frames
<1>8. QED
  BY <1>2, <1>3, <1>4, <1>5, <1>6, <1>7 DEF Parse

-----------------------------------------------------------------------------
(***************************************************************************)
(* The parser, from the first line to the verdict.                         *)
(***************************************************************************)
\* The document as it was started with.
LEMMA ParserStarts == Init => ParserInv
<1> SUFFICES ASSUME Init
             PROVE  ParserInv
  OBVIOUS
<1>1. /\ document = input.yaml /\ lines = <<>> /\ next = 1 /\ stack = <<>> /\ status = "read"
  BY DEF Init, Unread
<1>2. IsDocument(document)
  BY <1>1, StartupAssumption DEF Init
<1>3. Len(lines) = 0 /\ lines \in Seq(LineRecord) /\ DOMAIN lines = 1 .. 0
      /\ stack \in Seq([kind : {"map", "list"}, indent : Nat, path : Seq(Keys \cup {Nothing})])
  BY <1>1
<1>4. next \in 1 .. Len(lines) + 1
  BY <1>1, <1>3
<1>5. DocumentType
  BY <1>1, <1>2, <1>3, <1>4 DEF DocumentType
<1>6. QED
  BY <1>1, <1>5 DEF ParserInv, TreeIsIndentation, BlamesFirstMisfit

\* A step of the parser.
LEMMA ParserSteps ==
  ASSUME ParserInv, Parse
  PROVE  ParserInv'
<1>1. /\ DocumentType /\ DocumentType'
      /\ status = "parsing" => Unscanned(TrimDocument(document)) = {} /\ AtLine
  BY TypeKept DEF ParserInv
<1>2. CASE RefuseScan
  <2>1. /\ document' = document /\ status' = "error" /\ Unscanned(TrimDocument(document)) # {}
        /\ faulty' = ScanError(TrimDocument(document))
    BY <1>2 DEF RefuseScan, Fail
  <2>2. BlamesFirstMisfit'
    BY <2>1 DEF BlamesFirstMisfit
  <2>3. QED
    BY <1>1, <2>1, <2>2 DEF ParserInv, TreeIsIndentation
<1>3. CASE AcceptEmpty
  <2>1. status' = "ok"
    BY <1>3 DEF AcceptEmpty
  <2>2. QED
    BY <1>1, <1>3, <2>1, AcceptEmptyStep DEF ParserInv, BlamesFirstMisfit
<1>4. CASE OpenDocument
  <2>1. status' = "parsing" /\ Unscanned(TrimDocument(document))' = {}
    BY <1>4 DEF OpenDocument
  <2>2. QED
    BY <1>1, <1>4, <2>1, OpenDocumentStep DEF ParserInv, TreeIsIndentation, BlamesFirstMisfit
<1>5. CASE TakeScalar \/ TakeItem \/ OpenBlock \/ CloseBlock
  <2>1. status = "parsing" /\ status' = "parsing" /\ document' = document
    BY <1>5 DEF TakeScalar, TakeItem, OpenBlock, CloseBlock, IsEntry, IsItem, InBlock, Parsing
  <2>2. AtLine'
    BY <1>1, <1>5, <2>1, TakeScalarStep, TakeItemStep, OpenBlockStep, CloseBlockStep
  <2>3. QED
    BY <1>1, <2>1, <2>2 DEF ParserInv, TreeIsIndentation, BlamesFirstMisfit
<1>6. CASE RefuseLine \/ RefuseTrailing \/ RefuseTopLevelList
  <2>1. status = "parsing" /\ status' = "error"
    BY <1>6 DEF RefuseLine, RefuseTrailing, RefuseTopLevelList, Fail, Parsing, Returned
  <2>2. BlamesFirstMisfit'
    BY <1>1, <1>6, <2>1, RefuseLineStep, RefuseTrailingStep, RefuseTopLevelListStep
  <2>3. QED
    BY <1>1, <2>1, <2>2 DEF ParserInv, TreeIsIndentation
<1>7. CASE Accept
  <2>1. status = "parsing" /\ status' = "ok"
    BY <1>7 DEF Accept, Returned
  <2>2. TreeIsIndentation'
    BY <1>1, <1>7, <2>1, AcceptStep
  <2>3. QED
    BY <1>1, <2>1, <2>2 DEF ParserInv, BlamesFirstMisfit
<1>8. QED
  BY <1>2, <1>3, <1>4, <1>5, <1>6, <1>7 DEF Parse

\* Every step that is not the parser's leaves the document and its reading alone.
LEMMA ParserRests ==
  ASSUME ParserInv, UNCHANGED documentVars
  PROVE  ParserInv'
<1>1. /\ document' = document /\ lines' = lines /\ next' = next /\ stack' = stack
      /\ values' = values /\ status' = status /\ faulty' = faulty
  BY DEF documentVars
<1>2. DocumentType' /\ TreeIsIndentation' /\ BlamesFirstMisfit'
  BY <1>1 DEF ParserInv, DocumentType, TreeIsIndentation, BlamesFirstMisfit, Written
<1>3. AtLine' <=> AtLine
  <2>1. Done' = Done /\ HasLine' = HasLine /\ Line' = Line /\ Top' = Top /\ Entries' = Entries
        /\ Written' = Written
    BY <1>1 DEF Done, HasLine, Line, Top, Entries, Written
  <2>2. Nested' <=> Nested
    BY <1>1, <2>1 DEF Nested
  <2>3. TreeSoFar' <=> TreeSoFar
    BY <1>1, <2>1 DEF TreeSoFar, ValueSoFar
  <2>4. ASSUME NEW start \in [DOMAIN stack -> DOMAIN lines]
        PROVE  /\ Pending(start)' <=> Pending(start)
               /\ Dedents(start)' <=> Dedents(start)
               /\ Opened(start)' <=> Opened(start)
    BY <1>1, <2>1 DEF Pending, Dedents, Opened, parseConfigBlock
  <2>5. QED
    BY <1>1, <2>1, <2>2, <2>3, <2>4 DEF AtLine
<1>4. QED
  BY <1>1, <1>2, <1>3 DEF ParserInv

\* Every state of a start, whatever the document is: the parser knows of each
\* line it has read that it fits, and of each pending block where it began
\* (parseConfigBlock, Map and List, config_file.go:355-459).
THEOREM ParserInvariant == Spec => []ParserInv
<1>1. ParserInv /\ [Next]_vars => ParserInv'
  <2> SUFFICES ASSUME ParserInv, [Next]_vars
               PROVE  ParserInv'
    OBVIOUS
  <2>1. Parse \/ UNCHANGED documentVars
    BY DEF Next, ParseFile, LoadFile, LoadEnvironment, Take, BuildFails, BuildSucceeds,
           Over, vars
  <2>2. QED
    BY <2>1, ParserSteps, ParserRests
<1>2. QED
  BY <1>1, ParserStarts, PTL DEF Spec

\* Whatever the document, one that is accepted has no line that does not fit its
\* indentation, and its tree is the one the indentation describes: after any
\* sequence of dedents every line has gone to the right block, and no key was
\* lost or written twice (parseConfigMap and List, config_file.go:369-459).
THEOREM TreeAlwaysIndentation == Spec => []TreeIsIndentation
<1>1. ParserInv => TreeIsIndentation
  BY DEF ParserInv
<1>2. QED
  BY <1>1, ParserInvariant, PTL

\* Whatever the document, if a line of it cannot be scanned it is refused for the
\* first such line, named if it has a tab and not if it is too long; else for the
\* first line that does not fit, by its number, or for being a list at the top.
\* No later line is blamed for an earlier one (the errors of tokenizeConfigLines,
\* parseConfigMap, List and parseConfigDocument).
THEOREM AlwaysBlamesFirstMisfit == Spec => []BlamesFirstMisfit
<1>1. ParserInv => BlamesFirstMisfit
  BY DEF ParserInv
<1>2. QED
  BY <1>1, ParserInvariant, PTL

-----------------------------------------------------------------------------
(***************************************************************************)
(* From the start to the job.                                              *)
(***************************************************************************)
Source == IF ConfigPath # Empty THEN FromFile ELSE FromEnv

\* What is loaded, built or refused is what the one source gives.
StartInv ==
  /\ pc \in {"start", "loaded", "running", "exit"}
  /\ pc \in {"loaded", "running"} => Source.refusal = "none" /\ loaded = Source.config
  /\ pc = "running" => BuildRefusal(loaded) = "none" /\ job = Build(loaded)
  /\ pc = "exit" => refusal \in {Source.refusal, "build collector", "build publisher"}

\* What the constructors refuse (build.go:16-52).
LEMMA BuildRefusals ==
  ASSUME NEW c
  PROVE  /\ BuildRefusal(c) \in {"build collector", "build publisher", "none"}
         /\ BuildRefusal(c) = "none" => ~ CollectorRefuses(c) /\ ~ PublisherRefuses(c)
<1> DEFINE x == CollectorRefuses(c)
           y == PublisherRefuses(c)
           s == Refuse("build collector", x)
<1>1. x \in BOOLEAN /\ y \in BOOLEAN
  BY DEF CollectorRefuses, PublisherRefuses
<1>2. "build collector" \in Reasons /\ "build publisher" \in Reasons
  BY DEF Reasons
<1>3. BuildRefusal(c) = FirstRefusal(s \o Refuse("build publisher", y))
  BY DEF BuildRefusal
<1> HIDE DEF x, y
<1>4. s \in Checks /\ FirstRefusal(s) = IF x THEN "build collector" ELSE "none"
  BY <1>1, <1>2, FirstCheck, Zenon
<1> HIDE DEF s
<1>5. FirstRefusal(s \o Refuse("build publisher", y)) =
        IF FirstRefusal(s) # "none" THEN FirstRefusal(s)
        ELSE IF y THEN "build publisher" ELSE "none"
  BY <1>1, <1>2, <1>4, NextRefusal, Zenon
<1>6. QED
  BY <1>3, <1>4, <1>5 DEF x, y

\* The source does not change once it is read, and every step goes by it.
LEMMA StartInvariant == Spec => []StartInv
<1>1. Init => StartInv
  BY DEF Init, StartInv
<1>2. StartInv /\ [Next]_vars => StartInv'
  <2> SUFFICES ASSUME StartInv, [Next]_vars
               PROVE  StartInv'
    OBVIOUS
  <2>1. CASE pc = "start" /\ pc' = "start"
    BY <2>1 DEF StartInv
  <2>2. CASE LoadFile
    <3>1. UNCHANGED <<input, documentVars>> /\ ConfigPath # Empty
      BY <2>2 DEF LoadFile, Take
    <3>2. Source' = Source /\ Source = FromFile
      BY <3>1 DEF Source, FromFile, FromEnv, Nodes, Parsed, ConfigPath, documentVars
    <3> HIDE DEF Source
    <3>3. QED
      BY <2>2, <3>2 DEF StartInv, LoadFile, Take
  <2>3. CASE LoadEnvironment
    <3>1. UNCHANGED <<input, documentVars>> /\ ConfigPath = Empty
      BY <2>3 DEF LoadEnvironment, Take
    <3>2. Source' = Source /\ Source = FromEnv
      BY <3>1 DEF Source, FromFile, FromEnv, Nodes, Parsed, ConfigPath, documentVars
    <3> HIDE DEF Source
    <3>3. QED
      BY <2>3, <3>2 DEF StartInv, LoadEnvironment, Take
  <2>4. CASE BuildFails \/ BuildSucceeds \/ UNCHANGED vars
    <3>1. UNCHANGED <<input, documentVars>>
      BY <2>4 DEF BuildFails, BuildSucceeds, vars, own
    <3>2. Source' = Source
      BY <3>1 DEF Source, FromFile, FromEnv, Nodes, Parsed, ConfigPath, documentVars
    <3> HIDE DEF Source
    <3>3. BuildRefusal(loaded) \in {"build collector", "build publisher", "none"}
      BY BuildRefusals
    <3>4. QED
      BY <2>4, <3>2, <3>3 DEF StartInv, BuildFails, BuildSucceeds, vars, own
  <2>5. QED
    BY <2>1, <2>2, <2>3, <2>4 DEF Next, ParseFile, Over, own
<1>3. QED
  BY <1>1, <1>2, PTL DEF Spec

\* A duration that is read is positive (config.go:189, config_file.go:655).
LEMMA DurationsArePositive ==
  ASSUME NEW t, PositiveDuration(t) # Malformed
  PROVE  PositiveDuration(t) \in Nat \ {0}
<1> DEFINE d == ParseDuration(TrimSpace(t))
<1>1. d = Malformed \/ d \in Int
  BY ValuesAssumption DEF ParseDuration
<1>2. d # Malformed /\ d > 0 /\ PositiveDuration(t) = d
  BY DEF PositiveDuration
<1> HIDE DEF d
<1>3. QED
  BY <1>1, <1>2

\* What is loaded is complete, whichever the source (Load, LoadFromFile).
LEMMA LoadedIsComplete ==
  ASSUME Source.refusal = "none", NEW c, c = Source.config
  PROVE  /\ c.node # Unset /\ c.job # Empty /\ c.interval \in Nat \ {0} /\ c.resolver # Empty
         /\ c.collector \in {Plain("docker"), Plain("package")}
         /\ c.port # Malformed /\ c.retain # Malformed
         /\ c.homeAssistant = Unset \/ c.homeAssistant.enabled # Malformed
<1>1. CASE ConfigPath # Empty
  <2>1. Nodes # Malformed /\ Source = buildConfigFromDocument(Nodes, input.hostname)
    BY <1>1 DEF Source, FromFile
  <2>2. /\ c = FileConfig(Nodes, input.hostname)
        /\ FileRefusal(Nodes, input.hostname) = "none"
    BY <2>1 DEF buildConfigFromDocument
  <2>3. /\ c.node # Unset /\ c.collector \in {Plain("docker"), Plain("package")}
        /\ c.collector # Empty /\ c.interval # Malformed /\ c.resolver # Empty
        /\ c.port # Malformed /\ c.retain # Malformed
        /\ c.homeAssistant = Unset \/ c.homeAssistant.enabled # Malformed
    BY <2>2, FileRefusals DEF PublisherPasses
  <2>4. c.job # Empty
    <3>1. \E u : c.job = firstNonEmpty(u, c.collector)
      BY <2>2 DEF FileConfig
    <3>2. QED
      BY <2>3, <3>1 DEF firstNonEmpty
  <2>5. c.interval \in Nat \ {0}
    <3> DEFINE i == optionalStringValue(Nodes, <<"interval">>)
    <3>1. c.interval = IF i = Unset THEN defaultInterval
                       ELSE IF i = Malformed THEN Malformed ELSE PositiveDuration(i)
      BY <2>2 DEF FileConfig
    <3> HIDE DEF i
    <3>2. QED
      BY <2>3, <3>1, DurationsArePositive DEF defaultInterval
  <2>6. QED
    BY <2>3, <2>4, <2>5
<1>2. CASE ConfigPath = Empty
  <2>1. /\ c = EnvConfig(input.env, input.hostname)
        /\ EnvRefusal(input.env, input.hostname) = "none"
    BY <1>2 DEF Source, FromEnv, Load
  <2>2. /\ c.node # Unset /\ c.collector \in {Plain("docker"), Plain("package")}
        /\ c.collector # Empty /\ c.interval # Malformed /\ c.resolver # Empty
        /\ c.port # Malformed /\ c.retain # Malformed
        /\ HomeAssistantEnabled(input.env) # Malformed
    BY <2>1, EnvRefusals
  <2>3. c.job # Empty
    <3>1. \E u : c.job = firstNonEmpty(u, c.collector)
      BY <2>1 DEF EnvConfig
    <3>2. QED
      BY <2>2, <3>1 DEF firstNonEmpty
  <2>4. c.interval \in Nat \ {0}
    <3>1. c.interval = loadDuration(input.env, "INTERVAL")
      BY <2>1 DEF EnvConfig
    <3>2. QED
      BY <2>2, <3>1, DurationsArePositive DEF loadDuration, defaultInterval
  <2>5. c.homeAssistant = Unset \/ c.homeAssistant.enabled # Malformed
    <3> DEFINE e == HomeAssistantEnabled(input.env)
               q == Setting(input.env, "PUBLISHER_MQTT_HOMEASSISTANT_DISCOVERY_PREFIX")
    <3>1. c.homeAssistant = IF e = TRUE \/ q # Empty
                            THEN [enabled |-> Default(e, FALSE), prefix |-> q] ELSE Unset
      BY <2>1 DEF EnvConfig, HomeAssistantConfig
    <3> HIDE DEF e, q
    <3>2. Default(e, FALSE) # Malformed
      BY <2>2, ValuesAssumption DEF Default, e
    <3> DEFINE d == Default(e, FALSE)
    <3>3. c.homeAssistant = Unset \/ c.homeAssistant = [enabled |-> d, prefix |-> q]
      BY <3>1, Zenon
    <3> HIDE DEF d
    <3>4. [enabled |-> d, prefix |-> q].enabled = d
      OBVIOUS
    <3>5. QED
      BY <3>2, <3>3, <3>4, Zenon DEF d
  <2>6. QED
    BY <2>2, <2>3, <2>4, <2>5
<1>3. QED
  BY <1>1, <1>2

\* Names of packages are kept once each (ospackage/collector.go:133).
LEMMA NamesOnce == ASSUME NEW texts PROVE IsInjective(normalizeNames(texts))
<1> DEFINE K == {NonBlankItems(texts)[i].word : i \in DOMAIN NonBlankItems(texts)}
<1>1. NameOrder \in Seq(STRING) /\ IsInjective(NameOrder)
  BY StartupAssumption
<1>2. normalizeNames(texts) =
        FlattenSeq([k \in DOMAIN NameOrder |->
                      IF NameOrder[k] \in K THEN <<NameOrder[k]>> ELSE <<>>])
  BY DEF normalizeNames
<1> HIDE DEF K
<1>3. IsInjective(FlattenSeq([k \in DOMAIN NameOrder |->
                      IF NameOrder[k] \in K THEN <<NameOrder[k]>> ELSE <<>>]))
  BY <1>1, SelectedOnce
<1>4. QED
  BY <1>2, <1>3

\* The job that runs can run: a positive interval, a node and a host, a timeout,
\* no password without a user, and something to look at, once each (Build,
\* build.go:16; the ticker of the loop, orchestrator.go:82).
THEOREM JobAlwaysRunnable == Spec => []RunnableJob
<1>1. StartInv => RunnableJob
  <2> SUFFICES ASSUME StartInv, pc = "running"
               PROVE  RunnableJob
    BY DEF RunnableJob
  <2> DEFINE c == loaded
  <2>1. /\ Source.refusal = "none" /\ c = Source.config
        /\ BuildRefusal(c) = "none" /\ job = Build(c)
    BY DEF StartInv
  <2>2. /\ c.node # Unset /\ c.job # Empty /\ c.interval \in Nat \ {0}
        /\ c.collector \in {Plain("docker"), Plain("package")}
        /\ c.port # Malformed /\ c.retain # Malformed
        /\ c.homeAssistant = Unset \/ c.homeAssistant.enabled # Malformed
    BY <2>1, LoadedIsComplete
  <2>3. ~ CollectorRefuses(c) /\ ~ PublisherRefuses(c)
    BY <2>1, BuildRefusals
  <2>4. /\ job.interval = c.interval /\ job.node = c.node /\ job.name = c.job
        /\ job.publisher = NewPublisher(c) /\ job.collector = NewCollector(c)
    BY <2>1 DEF Build
  <2>5. /\ job.publisher.host # Empty
        /\ job.publisher.password # Empty => job.publisher.username # Empty
    BY <2>3, <2>4 DEF NewPublisher, PublisherRefuses
  <2>6. job.publisher.connectTimeout \in Nat \ {0}
    <3>1. job.publisher.connectTimeout =
            IF c.connectTimeout = Empty THEN 10 ELSE PositiveDuration(c.connectTimeout)
      BY <2>4 DEF NewPublisher
    <3>2. c.connectTimeout # Empty => PositiveDuration(c.connectTimeout) # Malformed
      BY <2>3 DEF PublisherRefuses
    <3>3. QED
      BY <3>1, <3>2, DurationsArePositive
  <2>7. Malformed \notin {job.publisher.port, job.publisher.retain, job.publisher.haEnabled}
    <3>1. job.publisher.port # Malformed
      <4>1. job.publisher.port = IF c.port = 0 THEN 1883 ELSE c.port
        BY <2>4 DEF NewPublisher
      <4>2. 1883 # Malformed
        BY ValuesAssumption
      <4>3. QED
        BY <2>2, <4>1, <4>2
    <3>2. TRUE # Malformed /\ FALSE # Malformed
      BY ValuesAssumption
    <3>3. job.publisher.retain # Malformed
      <4>1. job.publisher.retain = IF c.retain = Unset THEN TRUE ELSE c.retain
        BY <2>4 DEF NewPublisher, Default
      <4>2. QED
        BY <2>2, <3>2, <4>1, Zenon
    <3>4. job.publisher.haEnabled # Malformed
      <4>1. job.publisher.haEnabled =
              IF c.homeAssistant = Unset THEN FALSE ELSE c.homeAssistant.enabled
        BY <2>4 DEF NewPublisher
      <4>2. QED
        BY <2>2, <3>2, <4>1, Zenon
    <3>5. QED
      BY <3>1, <3>3, <3>4
  <2>8. CASE c.collector = Plain("docker")
    <3>1. job.collector.lookup = "docker" /\ job.collector.endpoint = resolveEndpoint(c.endpoint)
      BY <2>4, <2>8 DEF NewCollector
    <3>2. resolveEndpoint(c.endpoint) # Malformed
      BY <2>3, <2>8 DEF CollectorRefuses
    <3>3. QED
      BY <2>2, <2>4, <2>5, <2>6, <2>7, <3>1, <3>2 DEF RunnableJob
  <2>9. CASE c.collector # Plain("docker")
    <3>1. job.collector.endpoint = Unset /\ job.collector.names = normalizeNames(c.names)
      BY <2>4, <2>9 DEF NewCollector
    <3>2. normalizeNames(c.names) # <<>>
      BY <2>3, <2>9 DEF CollectorRefuses
    <3>3. Unset # Malformed
      BY ValuesAssumption
    <3>4. QED
      BY <2>2, <2>4, <2>5, <2>6, <2>7, <3>1, <3>2, <3>3, NamesOnce DEF RunnableJob
  <2>10. QED
    BY <2>8, <2>9
<1>2. QED
  BY <1>1, StartInvariant, PTL

\* A resolver that is not named on purpose is derived from collector and manager.
LEMMA ResolverDerived ==
  ASSUME ~ ExplicitResolver, ConfigPath # Empty => Nodes # Malformed,
         NEW c, c = Source.config
  PROVE  /\ c.manager = ManagerGiven
         /\ \/ c.resolver = defaultResolverTypeForCollector(c.collector, c.manager)
            \/ /\ c.resolver = Empty /\ c.manager = Malformed
               /\ c.collector # Plain("docker") /\ ConfigPath # Empty
<1>1. CASE ConfigPath # Empty
  <2>1. c = FileConfig(Nodes, input.hostname)
    BY <1>1 DEF Source, FromFile, buildConfigFromDocument
  <2>2. c.manager = ManagerGiven
    BY <1>1, <2>1 DEF ManagerGiven
  <2>3. /\ c.collector = Plain("docker") => c.manager = Empty
        /\ c.resolver = IF c.manager = Malformed THEN Empty
                         ELSE defaultResolverTypeForCollector(c.collector, c.manager)
    BY <2>1 DEF FileConfig
  <2>4. Empty # Malformed
    BY ValuesAssumption
  <2>5. QED
    BY <1>1, <2>2, <2>3, <2>4
<1>2. CASE ConfigPath = Empty
  <2>1. c = EnvConfig(input.env, input.hostname)
    BY <1>2 DEF Source, FromEnv, Load
  <2>2. TrimSpace(ToLower(Setting(input.env, "RESOLVER_TYPE"))) \in {Empty, Plain("auto")}
    BY <1>2 DEF ExplicitResolver
  <2>3. c.manager = ManagerGiven
    BY <1>2, <2>1 DEF ManagerGiven
  <2>4. c.resolver = resolveResolverType(Setting(input.env, "RESOLVER_TYPE"), c.collector, c.manager)
    BY <2>1 DEF EnvConfig
  <2>5. QED
    BY <2>2, <2>3, <2>4 DEF resolveResolverType
<1>3. QED
  BY <1>1, <1>2

\* A manager the collector of packages can ask has a resolver, the one for it.
LEMMA TwoReadingsOfManager ==
  ASSUME NEW m, NEW r, r = defaultResolverTypeForCollector(Plain("package"), m)
  PROVE  /\ newVersionLookup(m) # Malformed => r.word = ResolverOf[newVersionLookup(m)] /\ r # Empty
         /\ newVersionLookup(m) \in {"dpkg", "brew", Malformed}
<1>1. normalizePackageManager(m) = normalizeManager(m)
  BY DEF normalizePackageManager, normalizeManager
<1> DEFINE n == normalizeManager(m)
<1>2. Plain("package") # Plain("docker")
  BY DEF Plain
<1>3. r = IF n.word \in {"brew", "homebrew"} THEN Plain("brew_formula")
          ELSE IF n = Plain("dpkg") THEN Plain("none") ELSE Empty
  BY <1>1, <1>2 DEF defaultResolverTypeForCollector
<1>4. newVersionLookup(m) = IF n = Plain("dpkg") THEN "dpkg"
                            ELSE IF n \in {Plain("brew"), Plain("homebrew")} THEN "brew"
                            ELSE Malformed
  BY DEF newVersionLookup
<1> HIDE DEF n
<1>5. Plain("dpkg").word = "dpkg" /\ Plain("brew").word = "brew" /\ Plain("homebrew").word = "homebrew"
      /\ Plain("none").word = "none" /\ Plain("brew_formula").word = "brew_formula"
      /\ Plain("none") # Empty /\ Plain("brew_formula") # Empty
  BY DEF Plain, Empty
<1>6. QED
  BY <1>3, <1>4, <1>5 DEF ResolverOf

\* The two readings of the package manager never disagree: what runs asks the
\* resolver of the manager it looks at, and no manager that can be asked is refused
\* for want of a resolver (config.go:261, ospackage/collector.go:114).
THEOREM ResolverAlwaysFits == Spec => []ResolverFitsManager
<1> DEFINE c == Source.config
<1>1. defaultResolverTypeForCollector(Plain("docker"), c.manager) = Plain("docker")
  BY DEF defaultResolverTypeForCollector
<1>2. Plain("docker").word = "docker" /\ Plain("docker") # Empty /\ Plain("docker") # Plain("package")
  BY DEF Plain, Empty
<1>3. ASSUME StartInv, ~ ExplicitResolver, pc = "running"
      PROVE  job.resolver = ResolverOf[job.collector.lookup]
  <2>1. /\ Source.refusal = "none" /\ loaded = c
        /\ BuildRefusal(c) = "none" /\ job = Build(c)
    BY <1>3 DEF StartInv
  <2>2. c.collector \in {Plain("docker"), Plain("package")} /\ c.resolver # Empty
    BY <2>1, LoadedIsComplete
  <2>3. ~ CollectorRefuses(c)
    BY <2>1, BuildRefusals
  <2>4. job.resolver = NewResolver(c) /\ job.collector = NewCollector(c)
    BY <2>1 DEF Build
  <2>5. ConfigPath # Empty => Nodes # Malformed
    BY <2>1 DEF Source, FromFile
  <2>6. c.resolver = defaultResolverTypeForCollector(c.collector, c.manager)
    BY <1>3, <2>2, <2>5, ResolverDerived
  <2> HIDE DEF c
  <2>7. CASE c.collector = Plain("docker")
    <3>1. job.collector.lookup = "docker" /\ job.resolver = "docker"
      BY <1>1, <1>2, <2>4, <2>6, <2>7 DEF NewResolver, NewCollector
    <3>2. QED
      BY <3>1 DEF ResolverOf
  <2>8. CASE c.collector = Plain("package")
    <3> DEFINE l == newVersionLookup(c.manager)
    <3>1. job.collector.lookup = l /\ l # Malformed
      BY <1>2, <2>3, <2>4, <2>8 DEF NewCollector, CollectorRefuses
    <3>2. c.resolver.word = ResolverOf[l] /\ l \in {"dpkg", "brew"}
      BY <2>6, <2>8, <3>1, TwoReadingsOfManager
    <3> HIDE DEF l
    <3>3. c.resolver.word \notin {"docker", "docker_hub"}
      BY <3>2 DEF ResolverOf
    <3>4. QED
      BY <2>4, <3>1, <3>2, <3>3 DEF NewResolver
  <2>9. QED
    BY <2>2, <2>7, <2>8
<1>4. ASSUME StartInv, ~ ExplicitResolver, pc = "exit", refusal = "resolver"
      PROVE  newVersionLookup(ManagerGiven) = Malformed
  <2>1. Source.refusal = "resolver"
    BY <1>4 DEF StartInv
  <2>2. ConfigPath # Empty => Nodes # Malformed
    BY <2>1 DEF Source, FromFile
  <2>3. /\ c.manager = ManagerGiven
        /\ \/ c.resolver = defaultResolverTypeForCollector(c.collector, c.manager)
           \/ /\ c.resolver = Empty /\ c.manager = Malformed
              /\ c.collector # Plain("docker") /\ ConfigPath # Empty
    BY <1>4, <2>2, ResolverDerived
  <2>4. CASE ConfigPath # Empty
    <3>1. c = FileConfig(Nodes, input.hostname) /\ FileRefusal(Nodes, input.hostname) = "resolver"
      BY <2>1, <2>2, <2>4 DEF Source, FromFile, buildConfigFromDocument
    <3>2. /\ c.collector \in {Plain("docker"), Plain("package")}
          /\ c.collector # Plain("docker") => c.manager # Malformed
          /\ c.resolver = Empty
      BY <3>1, FileRefusals DEF CollectorPasses
    <3> HIDE DEF c
    <3>3. c.collector = Plain("package") /\ c.resolver = defaultResolverTypeForCollector(c.collector, c.manager)
      BY <1>1, <1>2, <2>3, <3>2
    <3>4. QED
      BY <2>3, <3>2, <3>3, TwoReadingsOfManager
  <2>5. CASE ConfigPath = Empty
    <3>1. c = EnvConfig(input.env, input.hostname) /\ EnvRefusal(input.env, input.hostname) = "resolver"
      BY <2>1, <2>5 DEF Source, FromEnv, Load
    <3> DEFINE named == {Plain(w) : w \in {"brew_formula", "docker", "docker_hub", "none"}}
    <3>2. /\ c.collector \in {Plain("docker"), Plain("package")}
          /\ c.resolver = Empty \/ c.resolver \notin named
      BY <3>1, EnvRefusals
    <3>3. /\ Plain("docker") \in named /\ Plain("none") \in named /\ Plain("brew_formula") \in named
      OBVIOUS
    <3> HIDE DEF c, named
    <3>4. c.resolver = defaultResolverTypeForCollector(c.collector, c.manager)
      BY <2>3, <2>5
    <3>5. defaultResolverTypeForCollector(c.collector, c.manager)
            \in {Plain("docker"), Plain("brew_formula"), Plain("none"), Empty}
      BY DEF defaultResolverTypeForCollector
    <3>6. c.resolver = Empty
      BY <3>2, <3>3, <3>4, <3>5
    <3>7. c.collector = Plain("package")
      BY <1>1, <1>2, <3>2, <3>4, <3>6
    <3>8. QED
      BY <2>3, <3>4, <3>6, <3>7, TwoReadingsOfManager
  <2>6. QED
    BY <2>4, <2>5
<1>5. StartInv => ResolverFitsManager
  BY <1>3, <1>4 DEF ResolverFitsManager
<1>6. QED
  BY <1>5, StartInvariant, PTL

\* Where the parts f are in the list s they make: part k follows place at[k].
Places(n, f, s, at) ==
  /\ at[1] = 0 /\ Len(s) = at[n + 1]
  /\ \A k \in 1 .. n : at[k + 1] = at[k] + Len(f[k])
  /\ \A j, k \in 1 .. n + 1 : j <= k => at[j] <= at[k]
  /\ \A k \in 1 .. n : \A o \in 1 .. Len(f[k]) : s[at[k] + o] = f[k][o]

\* Every list made of parts has places for them.
LEMMA FlattenPlaces ==
  ASSUME NEW S, NEW n \in Nat, NEW f \in [1 .. n -> Seq(S)]
  PROVE  \E at \in [1 .. n + 1 -> Nat] : Places(n, f, FlattenSeq(f), at)
<1> DEFINE F(m) == FlattenSeq(Parts(f, m))
           G == {m \in 0 .. n : \E at \in [1 .. m + 1 -> Nat] : Places(m, f, F(m), at)}
<1>1. 0 \in G
  <2>1. F(0) = <<>>
    BY DEF FlattenSeq, Parts
  <2> HIDE DEF F
  <2>2. Places(0, f, F(0), [k \in 1 .. 0 + 1 |-> 0])
    BY <2>1 DEF Places
  <2>3. [k \in 1 .. 0 + 1 |-> 0] \in [1 .. 0 + 1 -> Nat] /\ 0 \in 0 .. n
    OBVIOUS
  <2>4. QED
    BY <2>2, <2>3
<1>2. ASSUME NEW m \in 0 .. n - 1, m \in G
      PROVE  m + 1 \in G
  <2>1. PICK at \in [1 .. m + 1 -> Nat] : Places(m, f, F(m), at)
    BY <1>2
  <2>2. F(m) \in Seq(S) /\ F(m + 1) = F(m) \o f[m + 1] /\ f[m + 1] \in Seq(S)
    <3>1. F(m) \in Seq(S) /\ F(m + 1) = F(m) \o f[m + 1]
      BY FlattenNext
    <3>2. m + 1 \in 1 .. n
      OBVIOUS
    <3>3. f[m + 1] \in Seq(S)
      BY <3>2
    <3>4. QED
      BY <3>1, <3>3
  <2> HIDE DEF F
  <2> DEFINE l == Len(f[m + 1])
             b == [k \in 1 .. m + 2 |-> IF k <= m + 1 THEN at[k] ELSE at[m + 1] + l]
  <2>3. l \in Nat /\ m \in Nat /\ Len(F(m)) = at[m + 1] /\ Len(F(m)) \in Nat
    BY <2>1, <2>2 DEF Places
  <2>4. /\ Len(F(m + 1)) = at[m + 1] + l
        /\ \A i \in 1 .. at[m + 1] : F(m + 1)[i] = F(m)[i]
        /\ \A o \in 1 .. l : F(m + 1)[at[m + 1] + o] = f[m + 1][o]
    <3>1. ASSUME NEW u \in Seq(S), NEW v \in Seq(S)
          PROVE  /\ Len(u \o v) = Len(u) + Len(v)
                 /\ \A i \in 1 .. Len(u) : (u \o v)[i] = u[i]
                 /\ \A o \in 1 .. Len(v) : (u \o v)[Len(u) + o] = v[o]
      OBVIOUS
    <3>2. PICK u \in Seq(S), v \in Seq(S) : u = F(m) /\ v = f[m + 1]
      BY <2>2
    <3>3. F(m + 1) = u \o v /\ Len(u) = at[m + 1] /\ Len(v) = l
      BY <2>2, <2>3, <3>2
    <3>4. /\ Len(u \o v) = Len(u) + Len(v)
          /\ \A i \in 1 .. Len(u) : (u \o v)[i] = u[i]
          /\ \A o \in 1 .. Len(v) : (u \o v)[Len(u) + o] = v[o]
      BY <3>1
    <3>5. QED
      BY <3>2, <3>3, <3>4
  <2>5. /\ b[m + 2] = at[m + 1] + l /\ \A k \in 1 .. m + 1 : b[k] = at[k]
        /\ b \in [1 .. m + 2 -> Nat]
    BY <2>3
  <2> HIDE DEF b, l
  <2>6. b[1] = 0 /\ Len(F(m + 1)) = b[m + 2]
    BY <2>1, <2>3, <2>4, <2>5 DEF Places
  <2>7. ASSUME NEW k \in 1 .. m + 1
        PROVE  b[k + 1] = b[k] + Len(f[k])
    <3>1. CASE k = m + 1
      BY <2>3, <2>5, <3>1 DEF l
    <3>2. CASE k # m + 1
      <4>1. k \in 1 .. m /\ k + 1 \in 1 .. m + 1
        BY <2>3, <3>2
      <4>2. QED
        BY <2>1, <2>5, <4>1 DEF Places
    <3>3. QED
      BY <3>1, <3>2
  <2>8. ASSUME NEW j \in 1 .. m + 2, NEW k \in 1 .. m + 2, j <= k
        PROVE  b[j] <= b[k]
    <3>1. \A i \in 1 .. m + 1 : at[i] <= at[m + 1] /\ at[i] \in Nat
      BY <2>1, <2>3 DEF Places
    <3>2. CASE k \in 1 .. m + 1
      BY <2>1, <2>3, <2>5, <2>8, <3>2 DEF Places
    <3>3. CASE k = m + 2 /\ j \in 1 .. m + 1
      <4>1. at[m + 1] \in Nat /\ b[k] = at[m + 1] + l /\ b[j] = at[j] /\ at[j] <= at[m + 1] /\ at[j] \in Nat
        BY <2>3, <2>5, <3>1, <3>3
      <4>2. QED
        BY <2>3, <4>1
    <3>4. CASE k = m + 2 /\ j = m + 2
      <4>1. b[k] \in Nat
        BY <2>5
      <4>2. QED
        BY <4>1, <3>4
    <3>5. QED
      BY <2>3, <3>2, <3>3, <3>4
  <2>9. ASSUME NEW k \in 1 .. m + 1, NEW o \in 1 .. Len(f[k])
        PROVE  F(m + 1)[b[k] + o] = f[k][o]
    <3>1. CASE k = m + 1
      BY <2>3, <2>4, <2>5, <2>9, <3>1 DEF l
    <3>2. CASE k # m + 1
      <4>1. k \in 1 .. m /\ k + 1 \in 1 .. m + 1 /\ b[k] = at[k] /\ m + 1 \in 1 .. m + 1
        BY <2>3, <2>5, <3>2
      <4>2. f[k] \in Seq(S) /\ Len(f[k]) \in Nat
        <5>1. k \in 1 .. n
          BY <2>3
        <5>2. QED
          BY <5>1
      <4>3. /\ at[k + 1] = at[k] + Len(f[k]) /\ at[k + 1] <= at[m + 1] /\ at[k] \in Nat
            /\ at[m + 1] \in Nat /\ F(m)[at[k] + o] = f[k][o]
        <5>1. o \in 1 .. Len(f[k]) /\ k \in 1 .. m + 1 /\ k + 1 <= m + 1
          BY <2>3, <4>1
        <5>2. at[k] \in Nat /\ at[m + 1] \in Nat
          BY <4>1, <5>1
        <5>3. at[k + 1] = at[k] + Len(f[k])
          BY <2>1, <4>1 DEF Places
        <5>4. at[k + 1] <= at[m + 1]
          BY <2>1, <4>1, <5>1 DEF Places
        <5>5. F(m)[at[k] + o] = f[k][o]
          BY <2>1, <4>1, <5>1 DEF Places
        <5>6. QED
          BY <5>2, <5>3, <5>4, <5>5
      <4>4. at[k] + o \in 1 .. at[m + 1]
        BY <4>2, <4>3
      <4>5. F(m + 1)[at[k] + o] = F(m)[at[k] + o]
        BY <2>4, <4>4
      <4>6. QED
        BY <4>1, <4>3, <4>5
    <3>3. QED
      BY <3>1, <3>2
  <2>10. Places(m + 1, f, F(m + 1), b)
    <3>1. m + 1 + 1 = m + 2
      BY <2>3
    <3>2. QED
      BY <2>6, <2>7, <2>8, <2>9, <3>1 DEF Places
  <2>11. b \in [1 .. m + 1 + 1 -> Nat] /\ m + 1 \in 0 .. n
    <3>1. m + 1 + 1 = m + 2
      BY <2>3
    <3>2. QED
      BY <2>3, <2>5, <3>1
  <2>12. QED
    BY <2>10, <2>11
<1>3. n \in G
  <2> HIDE DEF G
  <2>1. \A m \in 0 .. n : m \in G
    BY <1>1, <1>2, UpTo
  <2>2. n \in 0 .. n
    OBVIOUS
  <2>3. QED
    BY <2>1, <2>2
<1>4. F(n) = FlattenSeq(f)
  <2>1. Parts(f, n) = f
    BY DEF Parts
  <2>2. QED
    BY <2>1
<1> HIDE DEF F
<1>5. QED
  BY <1>3, <1>4

\* Every place of a list is in one of its parts.
Covered(n, f, s, at) ==
  \A i \in 1 .. Len(s) : \E k \in 1 .. n : \E o \in 1 .. Len(f[k]) : i = at[k] + o

\* Parts laid one after another cover the list they make up.
LEMMA PlacesCover ==
  ASSUME NEW S, NEW n \in Nat, NEW f \in [1 .. n -> Seq(S)], NEW s \in Seq(S),
         NEW at \in [1 .. n + 1 -> Nat], Places(n, f, s, at)
  PROVE  Covered(n, f, s, at)
<1> SUFFICES ASSUME NEW i \in 1 .. Len(s)
             PROVE  \E k \in 1 .. n : \E o \in 1 .. Len(f[k]) : i = at[k] + o
  BY DEF Covered
<1> DEFINE D == {k \in 1 .. n + 1 : i <= at[k]}
<1>1. D \subseteq Nat /\ n + 1 \in D
  BY DEF Places
<1>2. PICK k \in D : \A j \in D : k <= j
  <2> HIDE DEF D
  <2> QED
    BY <1>1, LeastNumber
<1>3. k \in 1 .. n + 1 /\ i <= at[k] /\ k # 1
  BY <1>2 DEF Places
<1>4. PICK j \in 1 .. n : k = j + 1
  <2>1. k - 1 \in 1 .. n /\ k = k - 1 + 1
    BY <1>3
  <2>2. QED
    BY <2>1
<1>5. ~ i <= at[j] /\ at[j] \in Nat /\ f[j] \in Seq(S) /\ Len(f[j]) \in Nat
  <2>1. j \in 1 .. n + 1 /\ ~ k <= j
    BY <1>4
  <2>2. at[j] \in Nat /\ f[j] \in Seq(S) /\ Len(f[j]) \in Nat
    BY <2>1
  <2>3. QED
    BY <1>2, <2>1, <2>2
<1>6. at[k] = at[j] + Len(f[j])
  BY <1>4 DEF Places
<1>7. i - at[j] \in 1 .. Len(f[j]) /\ i = at[j] + (i - at[j])
  BY <1>3, <1>5, <1>6
<1>8. QED
  BY <1>7

\* Parts of one element each make the list of these.
LEMMA FlattenSingletons ==
  ASSUME NEW S, NEW n \in Nat, NEW e \in [1 .. n -> S]
  PROVE  FlattenSeq([i \in 1 .. n |-> <<e[i]>>]) = e
<1> DEFINE f == [i \in 1 .. n |-> <<e[i]>>]
           s == FlattenSeq(f)
<1>1. f \in [1 .. n -> Seq(S)] /\ \A i \in 1 .. n : Len(f[i]) = 1 /\ f[i][1] = e[i]
  OBVIOUS
<1> HIDE DEF f
<1>2. PICK at \in [1 .. n + 1 -> Nat] : Places(n, f, s, at)
  BY <1>1, FlattenPlaces
<1>3. s \in Seq(S)
  BY <1>1, FlattenTyped
<1> HIDE DEF s
<1> DEFINE G == {m \in 0 .. n : at[m + 1] = m}
<1>4. 0 \in G
  BY <1>2 DEF Places
<1>5. ASSUME NEW m \in 0 .. n - 1, m \in G
      PROVE  m + 1 \in G
  <2>1. m + 1 \in 1 .. n /\ at[m + 1] = m /\ m \in Nat
    BY <1>5
  <2>2. at[m + 1 + 1] = at[m + 1] + 1
    BY <1>1, <1>2, <2>1 DEF Places
  <2>3. QED
    BY <2>1, <2>2
<1>6. \A m \in 0 .. n : m \in G
  <2> HIDE DEF G
  <2> QED
    BY <1>4, <1>5, UpTo
<1>7. Len(s) = n
  <2>1. n \in 0 .. n
    OBVIOUS
  <2>2. QED
    BY <1>2, <1>6, <2>1 DEF Places
<1>8. ASSUME NEW i \in 1 .. n
      PROVE  s[i] = e[i]
  <2>1. i - 1 \in 0 .. n /\ i - 1 + 1 = i /\ 1 \in 1 .. 1
    OBVIOUS
  <2>2. at[i] = i - 1
    BY <1>6, <2>1
  <2>3. 1 \in 1 .. Len(f[i])
    BY <1>1
  <2>4. s[at[i] + 1] = f[i][1]
    BY <1>2, <2>3 DEF Places
  <2>5. QED
    BY <1>1, <2>1, <2>2, <2>4
<1>9. s = e
  <2>1. DOMAIN s = 1 .. n /\ s = [i \in DOMAIN s |-> s[i]] /\ e = [i \in 1 .. n |-> e[i]]
    BY <1>3, <1>7
  <2>2. QED
    BY <1>8, <2>1
<1>10. QED
  BY <1>9 DEF s, f

-----------------------------------------------------------------------------
(***************************************************************************)
(* The order of the paths of a document.                                   *)
(***************************************************************************)
\* The place of the mapping that each path is in, 0 for the document itself.
Above ==
  <<0, 0, 0, 0, 4, 4, 6, 6, 6, 4, 10, 10, 0, 13, 13,
    15, 15, 15, 15, 15, 15, 15, 15, 15, 24, 24>>

\* The paths one by one.
LEMMA PathRows ==
  /\ DOMAIN PathOrder = 1 .. 26 /\ DOMAIN Above = 1 .. 26
  /\ PathOrder[1] = <<"node_id">> /\ Above[1] = 0
  /\ PathOrder[2] = <<"job_name">> /\ Above[2] = 0
  /\ PathOrder[3] = <<"interval">> /\ Above[3] = 0
  /\ PathOrder[4] = <<"collector">> /\ Above[4] = 0
  /\ PathOrder[5] = <<"collector", "type">> /\ Above[5] = 4
  /\ PathOrder[6] = <<"collector", "docker">> /\ Above[6] = 4
  /\ PathOrder[7] = <<"collector", "docker", "endpoint">> /\ Above[7] = 6
  /\ PathOrder[8] = <<"collector", "docker", "include_stopped">> /\ Above[8] = 6
  /\ PathOrder[9] = <<"collector", "docker", "watch_by_default">> /\ Above[9] = 6
  /\ PathOrder[10] = <<"collector", "package">> /\ Above[10] = 4
  /\ PathOrder[11] = <<"collector", "package", "manager">> /\ Above[11] = 10
  /\ PathOrder[12] = <<"collector", "package", "names">> /\ Above[12] = 10
  /\ PathOrder[13] = <<"publisher">> /\ Above[13] = 0
  /\ PathOrder[14] = <<"publisher", "type">> /\ Above[14] = 13
  /\ PathOrder[15] = <<"publisher", "mqtt">> /\ Above[15] = 13
  /\ PathOrder[16] = <<"publisher", "mqtt", "host">> /\ Above[16] = 15
  /\ PathOrder[17] = <<"publisher", "mqtt", "port">> /\ Above[17] = 15
  /\ PathOrder[18] = <<"publisher", "mqtt", "username">> /\ Above[18] = 15
  /\ PathOrder[19] = <<"publisher", "mqtt", "password">> /\ Above[19] = 15
  /\ PathOrder[20] = <<"publisher", "mqtt", "topic_prefix">> /\ Above[20] = 15
  /\ PathOrder[21] = <<"publisher", "mqtt", "client_id_prefix">> /\ Above[21] = 15
  /\ PathOrder[22] = <<"publisher", "mqtt", "connect_timeout">> /\ Above[22] = 15
  /\ PathOrder[23] = <<"publisher", "mqtt", "retain">> /\ Above[23] = 15
  /\ PathOrder[24] = <<"publisher", "mqtt", "homeassistant">> /\ Above[24] = 15
  /\ PathOrder[25] = <<"publisher", "mqtt", "homeassistant", "enabled">> /\ Above[25] = 24
  /\ PathOrder[26] = <<"publisher", "mqtt", "homeassistant", "discovery_prefix">> /\ Above[26] = 24
<1>1. \A a, b, c, d : Append(<<a, b, c>>, d) = <<a, b, c, d>>
  <2>1. ASSUME NEW a, NEW b, NEW c, NEW d
        PROVE  Append(<<a, b, c>>, d) = <<a, b, c, d>>
    <3>1. Append(<<a, b, c>>, d) = [i \in 1 .. 4 |-> Append(<<a, b, c>>, d)[i]]
      OBVIOUS
    <3>2. <<a, b, c, d>> = [i \in 1 .. 4 |-> <<a, b, c, d>>[i]]
      OBVIOUS
    <3>3. \A i \in 1 .. 4 : Append(<<a, b, c>>, d)[i] = <<a, b, c, d>>[i]
      OBVIOUS
    <3>4. [i \in 1 .. 4 |-> Append(<<a, b, c>>, d)[i]] = [i \in 1 .. 4 |-> <<a, b, c, d>>[i]]
      BY <3>3
    <3>5. QED
      BY <3>1, <3>2, <3>4, Zenon
  <2>2. QED
    BY <2>1
<1>2. HomeAssistant = <<"publisher", "mqtt", "homeassistant">>
  BY DEF HomeAssistant, MQTT
<1>3. /\ Append(HomeAssistant, "enabled") = <<"publisher", "mqtt", "homeassistant", "enabled">>
      /\ Append(HomeAssistant, "discovery_prefix")
           = <<"publisher", "mqtt", "homeassistant", "discovery_prefix">>
  BY <1>1, <1>2
<1>4. QED
  BY <1>2, <1>3 DEF PathOrder, Above, Docker, Package, MQTT

\* A place is one of the 26.
LEMMA PlaceIsOne ==
  ASSUME NEW k \in 1 .. 26
  PROVE  \/ k = 1 \/ k = 2 \/ k = 3 \/ k = 4 \/ k = 5 \/ k = 6 \/ k = 7 \/ k = 8 \/ k = 9
         \/ k = 10 \/ k = 11 \/ k = 12 \/ k = 13 \/ k = 14 \/ k = 15 \/ k = 16 \/ k = 17 \/ k = 18
         \/ k = 19 \/ k = 20 \/ k = 21 \/ k = 22 \/ k = 23 \/ k = 24 \/ k = 25 \/ k = 26
OBVIOUS

\* Their lengths, and what comes first and last in each.
LEMMA PathEnds ==
  /\ Len(PathOrder[1]) = 1 /\ PathOrder[1][1] = "node_id" /\ PathOrder[1][1] = "node_id"
  /\ Len(PathOrder[2]) = 1 /\ PathOrder[2][1] = "job_name" /\ PathOrder[2][1] = "job_name"
  /\ Len(PathOrder[3]) = 1 /\ PathOrder[3][1] = "interval" /\ PathOrder[3][1] = "interval"
  /\ Len(PathOrder[4]) = 1 /\ PathOrder[4][1] = "collector" /\ PathOrder[4][1] = "collector"
  /\ Len(PathOrder[5]) = 2 /\ PathOrder[5][1] = "collector" /\ PathOrder[5][2] = "type"
  /\ Len(PathOrder[6]) = 2 /\ PathOrder[6][1] = "collector" /\ PathOrder[6][2] = "docker"
  /\ Len(PathOrder[7]) = 3 /\ PathOrder[7][1] = "collector" /\ PathOrder[7][3] = "endpoint"
  /\ Len(PathOrder[8]) = 3 /\ PathOrder[8][1] = "collector" /\ PathOrder[8][3] = "include_stopped"
  /\ Len(PathOrder[9]) = 3 /\ PathOrder[9][1] = "collector" /\ PathOrder[9][3] = "watch_by_default"
  /\ Len(PathOrder[10]) = 2 /\ PathOrder[10][1] = "collector" /\ PathOrder[10][2] = "package"
  /\ Len(PathOrder[11]) = 3 /\ PathOrder[11][1] = "collector" /\ PathOrder[11][3] = "manager"
  /\ Len(PathOrder[12]) = 3 /\ PathOrder[12][1] = "collector" /\ PathOrder[12][3] = "names"
  /\ Len(PathOrder[13]) = 1 /\ PathOrder[13][1] = "publisher" /\ PathOrder[13][1] = "publisher"
  /\ Len(PathOrder[14]) = 2 /\ PathOrder[14][1] = "publisher" /\ PathOrder[14][2] = "type"
  /\ Len(PathOrder[15]) = 2 /\ PathOrder[15][1] = "publisher" /\ PathOrder[15][2] = "mqtt"
  /\ Len(PathOrder[16]) = 3 /\ PathOrder[16][1] = "publisher" /\ PathOrder[16][3] = "host"
  /\ Len(PathOrder[17]) = 3 /\ PathOrder[17][1] = "publisher" /\ PathOrder[17][3] = "port"
  /\ Len(PathOrder[18]) = 3 /\ PathOrder[18][1] = "publisher" /\ PathOrder[18][3] = "username"
  /\ Len(PathOrder[19]) = 3 /\ PathOrder[19][1] = "publisher" /\ PathOrder[19][3] = "password"
  /\ Len(PathOrder[20]) = 3 /\ PathOrder[20][1] = "publisher" /\ PathOrder[20][3] = "topic_prefix"
  /\ Len(PathOrder[21]) = 3 /\ PathOrder[21][1] = "publisher" /\ PathOrder[21][3] = "client_id_prefix"
  /\ Len(PathOrder[22]) = 3 /\ PathOrder[22][1] = "publisher" /\ PathOrder[22][3] = "connect_timeout"
  /\ Len(PathOrder[23]) = 3 /\ PathOrder[23][1] = "publisher" /\ PathOrder[23][3] = "retain"
  /\ Len(PathOrder[24]) = 3 /\ PathOrder[24][1] = "publisher" /\ PathOrder[24][3] = "homeassistant"
  /\ Len(PathOrder[25]) = 4 /\ PathOrder[25][1] = "publisher" /\ PathOrder[25][4] = "enabled"
  /\ Len(PathOrder[26]) = 4 /\ PathOrder[26][1] = "publisher" /\ PathOrder[26][4] = "discovery_prefix"
BY PathRows

\* Where each path is, as numbers: the place it is in, and how deep it is.
Places26(above, depth) ==
  /\ above[1] = 0 /\ depth[1] = 1
  /\ above[2] = 0 /\ depth[2] = 1
  /\ above[3] = 0 /\ depth[3] = 1
  /\ above[4] = 0 /\ depth[4] = 1
  /\ above[5] = 4 /\ depth[5] = 2
  /\ above[6] = 4 /\ depth[6] = 2
  /\ above[7] = 6 /\ depth[7] = 3
  /\ above[8] = 6 /\ depth[8] = 3
  /\ above[9] = 6 /\ depth[9] = 3
  /\ above[10] = 4 /\ depth[10] = 2
  /\ above[11] = 10 /\ depth[11] = 3
  /\ above[12] = 10 /\ depth[12] = 3
  /\ above[13] = 0 /\ depth[13] = 1
  /\ above[14] = 13 /\ depth[14] = 2
  /\ above[15] = 13 /\ depth[15] = 2
  /\ above[16] = 15 /\ depth[16] = 3
  /\ above[17] = 15 /\ depth[17] = 3
  /\ above[18] = 15 /\ depth[18] = 3
  /\ above[19] = 15 /\ depth[19] = 3
  /\ above[20] = 15 /\ depth[20] = 3
  /\ above[21] = 15 /\ depth[21] = 3
  /\ above[22] = 15 /\ depth[22] = 3
  /\ above[23] = 15 /\ depth[23] = 3
  /\ above[24] = 15 /\ depth[24] = 3
  /\ above[25] = 24 /\ depth[25] = 4
  /\ above[26] = 24 /\ depth[26] = 4

\* A mapping comes before what is in it, and what is between the two is not
\* shallower: first of the numbers, then of the paths.
LEMMA NumbersNest ==
  ASSUME NEW above, NEW depth, Places26(above, depth), NEW k \in 1 .. 26
  PROVE  /\ above[k] \in 0 .. k - 1 /\ depth[k] \in 1 .. 4
         /\ depth[k] = IF above[k] = 0 THEN 1 ELSE depth[above[k]] + 1
         /\ \A j \in 1 .. 26 : above[k] < j /\ j < k => depth[k] <= depth[j]
<1>1. /\ above[k] \in 0 .. k - 1 /\ depth[k] \in 1 .. 4
      /\ depth[k] = IF above[k] = 0 THEN 1 ELSE depth[above[k]] + 1
  BY PlaceIsOne DEF Places26
<1>2. ASSUME NEW j \in 1 .. 26, above[k] < j, j < k
      PROVE  depth[k] <= depth[j]
  BY <1>2, PlaceIsOne DEF Places26
<1>3. QED
  BY <1>1, <1>2

\* The same of the paths.
LEMMA PathNumbers ==
  /\ Above[1] = 0 /\ Len(PathOrder[1]) = 1
  /\ Above[2] = 0 /\ Len(PathOrder[2]) = 1
  /\ Above[3] = 0 /\ Len(PathOrder[3]) = 1
  /\ Above[4] = 0 /\ Len(PathOrder[4]) = 1
  /\ Above[5] = 4 /\ Len(PathOrder[5]) = 2
  /\ Above[6] = 4 /\ Len(PathOrder[6]) = 2
  /\ Above[7] = 6 /\ Len(PathOrder[7]) = 3
  /\ Above[8] = 6 /\ Len(PathOrder[8]) = 3
  /\ Above[9] = 6 /\ Len(PathOrder[9]) = 3
  /\ Above[10] = 4 /\ Len(PathOrder[10]) = 2
  /\ Above[11] = 10 /\ Len(PathOrder[11]) = 3
  /\ Above[12] = 10 /\ Len(PathOrder[12]) = 3
  /\ Above[13] = 0 /\ Len(PathOrder[13]) = 1
  /\ Above[14] = 13 /\ Len(PathOrder[14]) = 2
  /\ Above[15] = 13 /\ Len(PathOrder[15]) = 2
  /\ Above[16] = 15 /\ Len(PathOrder[16]) = 3
  /\ Above[17] = 15 /\ Len(PathOrder[17]) = 3
  /\ Above[18] = 15 /\ Len(PathOrder[18]) = 3
  /\ Above[19] = 15 /\ Len(PathOrder[19]) = 3
  /\ Above[20] = 15 /\ Len(PathOrder[20]) = 3
  /\ Above[21] = 15 /\ Len(PathOrder[21]) = 3
  /\ Above[22] = 15 /\ Len(PathOrder[22]) = 3
  /\ Above[23] = 15 /\ Len(PathOrder[23]) = 3
  /\ Above[24] = 15 /\ Len(PathOrder[24]) = 3
  /\ Above[25] = 24 /\ Len(PathOrder[25]) = 4
  /\ Above[26] = 24 /\ Len(PathOrder[26]) = 4
BY PathRows, PathEnds

\* A path stands below the path that is above it.
LEMMA PathNesting ==
  ASSUME NEW k \in 1 .. 26
  PROVE  /\ Above[k] \in 0 .. k - 1 /\ Len(PathOrder[k]) \in 1 .. 4
         /\ Len(PathOrder[k]) = IF Above[k] = 0 THEN 1 ELSE Len(PathOrder[Above[k]]) + 1
         /\ \A j \in 1 .. 26 :
              Above[k] < j /\ j < k => Len(PathOrder[k]) <= Len(PathOrder[j])
<1> DEFINE depth == [i \in 1 .. 26 |-> Len(PathOrder[i])]
<1>1. \A i \in 1 .. 26 : depth[i] = Len(PathOrder[i])
  OBVIOUS
<1> HIDE DEF depth
<1>2. Places26(Above, depth)
  <2>1. /\ depth[1] = Len(PathOrder[1])
        /\ depth[2] = Len(PathOrder[2])
        /\ depth[3] = Len(PathOrder[3])
        /\ depth[4] = Len(PathOrder[4])
        /\ depth[5] = Len(PathOrder[5])
        /\ depth[6] = Len(PathOrder[6])
        /\ depth[7] = Len(PathOrder[7])
        /\ depth[8] = Len(PathOrder[8])
        /\ depth[9] = Len(PathOrder[9])
        /\ depth[10] = Len(PathOrder[10])
        /\ depth[11] = Len(PathOrder[11])
        /\ depth[12] = Len(PathOrder[12])
        /\ depth[13] = Len(PathOrder[13])
        /\ depth[14] = Len(PathOrder[14])
        /\ depth[15] = Len(PathOrder[15])
        /\ depth[16] = Len(PathOrder[16])
        /\ depth[17] = Len(PathOrder[17])
        /\ depth[18] = Len(PathOrder[18])
        /\ depth[19] = Len(PathOrder[19])
        /\ depth[20] = Len(PathOrder[20])
        /\ depth[21] = Len(PathOrder[21])
        /\ depth[22] = Len(PathOrder[22])
        /\ depth[23] = Len(PathOrder[23])
        /\ depth[24] = Len(PathOrder[24])
        /\ depth[25] = Len(PathOrder[25])
        /\ depth[26] = Len(PathOrder[26])
    BY <1>1
  <2>2. QED
    BY <2>1, PathNumbers DEF Places26
<1>3. /\ Above[k] \in 0 .. k - 1 /\ depth[k] \in 1 .. 4
      /\ depth[k] = IF Above[k] = 0 THEN 1 ELSE depth[Above[k]] + 1
      /\ \A j \in 1 .. 26 : Above[k] < j /\ j < k => depth[k] <= depth[j]
  BY <1>2, NumbersNest
<1>4. Above[k] # 0 => Above[k] \in 1 .. 26
  BY <1>3
<1>5. QED
  BY <1>1, <1>3, <1>4

\* No path is there twice.
LEMMA PathsDiffer ==
  ASSUME NEW j \in 1 .. 26, NEW k \in 1 .. 26, PathOrder[j] = PathOrder[k]
  PROVE  j = k
<1>1. CASE k = 1
  BY <1>1, PathEnds, PlaceIsOne
<1>2. CASE k = 2
  BY <1>2, PathEnds, PlaceIsOne
<1>3. CASE k = 3
  BY <1>3, PathEnds, PlaceIsOne
<1>4. CASE k = 4
  BY <1>4, PathEnds, PlaceIsOne
<1>5. CASE k = 5
  BY <1>5, PathEnds, PlaceIsOne
<1>6. CASE k = 6
  BY <1>6, PathEnds, PlaceIsOne
<1>7. CASE k = 7
  BY <1>7, PathEnds, PlaceIsOne
<1>8. CASE k = 8
  BY <1>8, PathEnds, PlaceIsOne
<1>9. CASE k = 9
  BY <1>9, PathEnds, PlaceIsOne
<1>10. CASE k = 10
  BY <1>10, PathEnds, PlaceIsOne
<1>11. CASE k = 11
  BY <1>11, PathEnds, PlaceIsOne
<1>12. CASE k = 12
  BY <1>12, PathEnds, PlaceIsOne
<1>13. CASE k = 13
  BY <1>13, PathEnds, PlaceIsOne
<1>14. CASE k = 14
  BY <1>14, PathEnds, PlaceIsOne
<1>15. CASE k = 15
  BY <1>15, PathEnds, PlaceIsOne
<1>16. CASE k = 16
  BY <1>16, PathEnds, PlaceIsOne
<1>17. CASE k = 17
  BY <1>17, PathEnds, PlaceIsOne
<1>18. CASE k = 18
  BY <1>18, PathEnds, PlaceIsOne
<1>19. CASE k = 19
  BY <1>19, PathEnds, PlaceIsOne
<1>20. CASE k = 20
  BY <1>20, PathEnds, PlaceIsOne
<1>21. CASE k = 21
  BY <1>21, PathEnds, PlaceIsOne
<1>22. CASE k = 22
  BY <1>22, PathEnds, PlaceIsOne
<1>23. CASE k = 23
  BY <1>23, PathEnds, PlaceIsOne
<1>24. CASE k = 24
  BY <1>24, PathEnds, PlaceIsOne
<1>25. CASE k = 25
  BY <1>25, PathEnds, PlaceIsOne
<1>26. CASE k = 26
  BY <1>26, PathEnds, PlaceIsOne
<1>27. QED
  BY PlaceIsOne, <1>1, <1>2, <1>3, <1>4, <1>5, <1>6, <1>7, <1>8, <1>9, <1>10, <1>11, <1>12, <1>13, <1>14, <1>15, <1>16, <1>17, <1>18, <1>19, <1>20, <1>21, <1>22, <1>23, <1>24, <1>25, <1>26

\* A short tuple with one more element.
LEMMA AppendTuple ==
  /\ \A a : Append(<<>>, a) = <<a>>
  /\ \A a, b : Append(<<a>>, b) = <<a, b>>
  /\ \A a, b, c : Append(<<a, b>>, c) = <<a, b, c>>
  /\ \A a, b, c, d : Append(<<a, b, c>>, d) = <<a, b, c, d>>
<1>1. ASSUME NEW a
      PROVE  Append(<<>>, a) = <<a>>
  <2>1. Append(<<>>, a) = [i \in 1 .. 1 |-> Append(<<>>, a)[i]]
    OBVIOUS
  <2>2. <<a>> = [i \in 1 .. 1 |-> <<a>>[i]]
    OBVIOUS
  <2>3. \A i \in 1 .. 1 : Append(<<>>, a)[i] = <<a>>[i]
    OBVIOUS
  <2>4. [i \in 1 .. 1 |-> Append(<<>>, a)[i]] = [i \in 1 .. 1 |-> <<a>>[i]]
    BY <2>3
  <2>5. QED
    BY <2>1, <2>2, <2>4, Zenon
<1>2. ASSUME NEW a, NEW b
      PROVE  Append(<<a>>, b) = <<a, b>>
  <2>1. Append(<<a>>, b) = [i \in 1 .. 2 |-> Append(<<a>>, b)[i]]
    OBVIOUS
  <2>2. <<a, b>> = [i \in 1 .. 2 |-> <<a, b>>[i]]
    OBVIOUS
  <2>3. \A i \in 1 .. 2 : Append(<<a>>, b)[i] = <<a, b>>[i]
    OBVIOUS
  <2>4. [i \in 1 .. 2 |-> Append(<<a>>, b)[i]] = [i \in 1 .. 2 |-> <<a, b>>[i]]
    BY <2>3
  <2>5. QED
    BY <2>1, <2>2, <2>4, Zenon
<1>3. ASSUME NEW a, NEW b, NEW c
      PROVE  Append(<<a, b>>, c) = <<a, b, c>>
  <2>1. Append(<<a, b>>, c) = [i \in 1 .. 3 |-> Append(<<a, b>>, c)[i]]
    OBVIOUS
  <2>2. <<a, b, c>> = [i \in 1 .. 3 |-> <<a, b, c>>[i]]
    OBVIOUS
  <2>3. \A i \in 1 .. 3 : Append(<<a, b>>, c)[i] = <<a, b, c>>[i]
    OBVIOUS
  <2>4. [i \in 1 .. 3 |-> Append(<<a, b>>, c)[i]] = [i \in 1 .. 3 |-> <<a, b, c>>[i]]
    BY <2>3
  <2>5. QED
    BY <2>1, <2>2, <2>4, Zenon
<1>4. ASSUME NEW a, NEW b, NEW c, NEW d
      PROVE  Append(<<a, b, c>>, d) = <<a, b, c, d>>
  <2>1. Append(<<a, b, c>>, d) = [i \in 1 .. 4 |-> Append(<<a, b, c>>, d)[i]]
    OBVIOUS
  <2>2. <<a, b, c, d>> = [i \in 1 .. 4 |-> <<a, b, c, d>>[i]]
    OBVIOUS
  <2>3. \A i \in 1 .. 4 : Append(<<a, b, c>>, d)[i] = <<a, b, c, d>>[i]
    OBVIOUS
  <2>4. [i \in 1 .. 4 |-> Append(<<a, b, c>>, d)[i]] = [i \in 1 .. 4 |-> <<a, b, c, d>>[i]]
    BY <2>3
  <2>5. QED
    BY <2>1, <2>2, <2>4, Zenon
<1>5. QED
  BY <1>1, <1>2, <1>3, <1>4, Zenon

\* The path that place k is in.
PathAbove(k) == IF Above[k] = 0 THEN <<>> ELSE PathOrder[Above[k]]

\* A path is the one it is in, with its last key.
LEMMA PathShape ==
  ASSUME NEW k \in 1 .. 26
  PROVE  /\ PathOrder[k] = Append(PathAbove(k), PathOrder[k][Len(PathOrder[k])])
<1>1. CASE k = 1
  <2>1. /\ PathAbove(k) = <<>> /\ Len(PathOrder[k]) = 1
        /\ PathOrder[k] = <<"node_id">> /\ PathOrder[k][1] = "node_id"
    BY <1>1, PathRows, PathEnds DEF PathAbove
  <2>2. Append(<<>>, "node_id") = <<"node_id">>
    BY AppendTuple, Zenon
  <2>3. QED
    BY <2>1, <2>2, SMT
<1>2. CASE k = 2
  <2>1. /\ PathAbove(k) = <<>> /\ Len(PathOrder[k]) = 1
        /\ PathOrder[k] = <<"job_name">> /\ PathOrder[k][1] = "job_name"
    BY <1>2, PathRows, PathEnds DEF PathAbove
  <2>2. Append(<<>>, "job_name") = <<"job_name">>
    BY AppendTuple, Zenon
  <2>3. QED
    BY <2>1, <2>2, SMT
<1>3. CASE k = 3
  <2>1. /\ PathAbove(k) = <<>> /\ Len(PathOrder[k]) = 1
        /\ PathOrder[k] = <<"interval">> /\ PathOrder[k][1] = "interval"
    BY <1>3, PathRows, PathEnds DEF PathAbove
  <2>2. Append(<<>>, "interval") = <<"interval">>
    BY AppendTuple, Zenon
  <2>3. QED
    BY <2>1, <2>2, SMT
<1>4. CASE k = 4
  <2>1. /\ PathAbove(k) = <<>> /\ Len(PathOrder[k]) = 1
        /\ PathOrder[k] = <<"collector">> /\ PathOrder[k][1] = "collector"
    BY <1>4, PathRows, PathEnds DEF PathAbove
  <2>2. Append(<<>>, "collector") = <<"collector">>
    BY AppendTuple, Zenon
  <2>3. QED
    BY <2>1, <2>2, SMT
<1>5. CASE k = 5
  <2>1. /\ PathAbove(k) = <<"collector">> /\ Len(PathOrder[k]) = 2
        /\ PathOrder[k] = <<"collector", "type">> /\ PathOrder[k][2] = "type"
    BY <1>5, PathRows, PathEnds DEF PathAbove
  <2>2. Append(<<"collector">>, "type") = <<"collector", "type">>
    BY AppendTuple, Zenon
  <2>3. QED
    BY <2>1, <2>2, SMT
<1>6. CASE k = 6
  <2>1. /\ PathAbove(k) = <<"collector">> /\ Len(PathOrder[k]) = 2
        /\ PathOrder[k] = <<"collector", "docker">> /\ PathOrder[k][2] = "docker"
    BY <1>6, PathRows, PathEnds DEF PathAbove
  <2>2. Append(<<"collector">>, "docker") = <<"collector", "docker">>
    BY AppendTuple, Zenon
  <2>3. QED
    BY <2>1, <2>2, SMT
<1>7. CASE k = 7
  <2>1. /\ PathAbove(k) = <<"collector", "docker">> /\ Len(PathOrder[k]) = 3
        /\ PathOrder[k] = <<"collector", "docker", "endpoint">> /\ PathOrder[k][3] = "endpoint"
    BY <1>7, PathRows, PathEnds DEF PathAbove
  <2>2. Append(<<"collector", "docker">>, "endpoint") = <<"collector", "docker", "endpoint">>
    BY AppendTuple, Zenon
  <2>3. QED
    BY <2>1, <2>2, SMT
<1>8. CASE k = 8
  <2>1. /\ PathAbove(k) = <<"collector", "docker">> /\ Len(PathOrder[k]) = 3
        /\ PathOrder[k] = <<"collector", "docker", "include_stopped">> /\ PathOrder[k][3] = "include_stopped"
    BY <1>8, PathRows, PathEnds DEF PathAbove
  <2>2. Append(<<"collector", "docker">>, "include_stopped") = <<"collector", "docker", "include_stopped">>
    BY AppendTuple, Zenon
  <2>3. QED
    BY <2>1, <2>2, SMT
<1>9. CASE k = 9
  <2>1. /\ PathAbove(k) = <<"collector", "docker">> /\ Len(PathOrder[k]) = 3
        /\ PathOrder[k] = <<"collector", "docker", "watch_by_default">> /\ PathOrder[k][3] = "watch_by_default"
    BY <1>9, PathRows, PathEnds DEF PathAbove
  <2>2. Append(<<"collector", "docker">>, "watch_by_default") = <<"collector", "docker", "watch_by_default">>
    BY AppendTuple, Zenon
  <2>3. QED
    BY <2>1, <2>2, SMT
<1>10. CASE k = 10
  <2>1. /\ PathAbove(k) = <<"collector">> /\ Len(PathOrder[k]) = 2
        /\ PathOrder[k] = <<"collector", "package">> /\ PathOrder[k][2] = "package"
    BY <1>10, PathRows, PathEnds DEF PathAbove
  <2>2. Append(<<"collector">>, "package") = <<"collector", "package">>
    BY AppendTuple, Zenon
  <2>3. QED
    BY <2>1, <2>2, SMT
<1>11. CASE k = 11
  <2>1. /\ PathAbove(k) = <<"collector", "package">> /\ Len(PathOrder[k]) = 3
        /\ PathOrder[k] = <<"collector", "package", "manager">> /\ PathOrder[k][3] = "manager"
    BY <1>11, PathRows, PathEnds DEF PathAbove
  <2>2. Append(<<"collector", "package">>, "manager") = <<"collector", "package", "manager">>
    BY AppendTuple, Zenon
  <2>3. QED
    BY <2>1, <2>2, SMT
<1>12. CASE k = 12
  <2>1. /\ PathAbove(k) = <<"collector", "package">> /\ Len(PathOrder[k]) = 3
        /\ PathOrder[k] = <<"collector", "package", "names">> /\ PathOrder[k][3] = "names"
    BY <1>12, PathRows, PathEnds DEF PathAbove
  <2>2. Append(<<"collector", "package">>, "names") = <<"collector", "package", "names">>
    BY AppendTuple, Zenon
  <2>3. QED
    BY <2>1, <2>2, SMT
<1>13. CASE k = 13
  <2>1. /\ PathAbove(k) = <<>> /\ Len(PathOrder[k]) = 1
        /\ PathOrder[k] = <<"publisher">> /\ PathOrder[k][1] = "publisher"
    BY <1>13, PathRows, PathEnds DEF PathAbove
  <2>2. Append(<<>>, "publisher") = <<"publisher">>
    BY AppendTuple, Zenon
  <2>3. QED
    BY <2>1, <2>2, SMT
<1>14. CASE k = 14
  <2>1. /\ PathAbove(k) = <<"publisher">> /\ Len(PathOrder[k]) = 2
        /\ PathOrder[k] = <<"publisher", "type">> /\ PathOrder[k][2] = "type"
    BY <1>14, PathRows, PathEnds DEF PathAbove
  <2>2. Append(<<"publisher">>, "type") = <<"publisher", "type">>
    BY AppendTuple, Zenon
  <2>3. QED
    BY <2>1, <2>2, SMT
<1>15. CASE k = 15
  <2>1. /\ PathAbove(k) = <<"publisher">> /\ Len(PathOrder[k]) = 2
        /\ PathOrder[k] = <<"publisher", "mqtt">> /\ PathOrder[k][2] = "mqtt"
    BY <1>15, PathRows, PathEnds DEF PathAbove
  <2>2. Append(<<"publisher">>, "mqtt") = <<"publisher", "mqtt">>
    BY AppendTuple, Zenon
  <2>3. QED
    BY <2>1, <2>2, SMT
<1>16. CASE k = 16
  <2>1. /\ PathAbove(k) = <<"publisher", "mqtt">> /\ Len(PathOrder[k]) = 3
        /\ PathOrder[k] = <<"publisher", "mqtt", "host">> /\ PathOrder[k][3] = "host"
    BY <1>16, PathRows, PathEnds DEF PathAbove
  <2>2. Append(<<"publisher", "mqtt">>, "host") = <<"publisher", "mqtt", "host">>
    BY AppendTuple, Zenon
  <2>3. QED
    BY <2>1, <2>2, SMT
<1>17. CASE k = 17
  <2>1. /\ PathAbove(k) = <<"publisher", "mqtt">> /\ Len(PathOrder[k]) = 3
        /\ PathOrder[k] = <<"publisher", "mqtt", "port">> /\ PathOrder[k][3] = "port"
    BY <1>17, PathRows, PathEnds DEF PathAbove
  <2>2. Append(<<"publisher", "mqtt">>, "port") = <<"publisher", "mqtt", "port">>
    BY AppendTuple, Zenon
  <2>3. QED
    BY <2>1, <2>2, SMT
<1>18. CASE k = 18
  <2>1. /\ PathAbove(k) = <<"publisher", "mqtt">> /\ Len(PathOrder[k]) = 3
        /\ PathOrder[k] = <<"publisher", "mqtt", "username">> /\ PathOrder[k][3] = "username"
    BY <1>18, PathRows, PathEnds DEF PathAbove
  <2>2. Append(<<"publisher", "mqtt">>, "username") = <<"publisher", "mqtt", "username">>
    BY AppendTuple, Zenon
  <2>3. QED
    BY <2>1, <2>2, SMT
<1>19. CASE k = 19
  <2>1. /\ PathAbove(k) = <<"publisher", "mqtt">> /\ Len(PathOrder[k]) = 3
        /\ PathOrder[k] = <<"publisher", "mqtt", "password">> /\ PathOrder[k][3] = "password"
    BY <1>19, PathRows, PathEnds DEF PathAbove
  <2>2. Append(<<"publisher", "mqtt">>, "password") = <<"publisher", "mqtt", "password">>
    BY AppendTuple, Zenon
  <2>3. QED
    BY <2>1, <2>2, SMT
<1>20. CASE k = 20
  <2>1. /\ PathAbove(k) = <<"publisher", "mqtt">> /\ Len(PathOrder[k]) = 3
        /\ PathOrder[k] = <<"publisher", "mqtt", "topic_prefix">> /\ PathOrder[k][3] = "topic_prefix"
    BY <1>20, PathRows, PathEnds DEF PathAbove
  <2>2. Append(<<"publisher", "mqtt">>, "topic_prefix") = <<"publisher", "mqtt", "topic_prefix">>
    BY AppendTuple, Zenon
  <2>3. QED
    BY <2>1, <2>2, SMT
<1>21. CASE k = 21
  <2>1. /\ PathAbove(k) = <<"publisher", "mqtt">> /\ Len(PathOrder[k]) = 3
        /\ PathOrder[k] = <<"publisher", "mqtt", "client_id_prefix">> /\ PathOrder[k][3] = "client_id_prefix"
    BY <1>21, PathRows, PathEnds DEF PathAbove
  <2>2. Append(<<"publisher", "mqtt">>, "client_id_prefix") = <<"publisher", "mqtt", "client_id_prefix">>
    BY AppendTuple, Zenon
  <2>3. QED
    BY <2>1, <2>2, SMT
<1>22. CASE k = 22
  <2>1. /\ PathAbove(k) = <<"publisher", "mqtt">> /\ Len(PathOrder[k]) = 3
        /\ PathOrder[k] = <<"publisher", "mqtt", "connect_timeout">> /\ PathOrder[k][3] = "connect_timeout"
    BY <1>22, PathRows, PathEnds DEF PathAbove
  <2>2. Append(<<"publisher", "mqtt">>, "connect_timeout") = <<"publisher", "mqtt", "connect_timeout">>
    BY AppendTuple, Zenon
  <2>3. QED
    BY <2>1, <2>2, SMT
<1>23. CASE k = 23
  <2>1. /\ PathAbove(k) = <<"publisher", "mqtt">> /\ Len(PathOrder[k]) = 3
        /\ PathOrder[k] = <<"publisher", "mqtt", "retain">> /\ PathOrder[k][3] = "retain"
    BY <1>23, PathRows, PathEnds DEF PathAbove
  <2>2. Append(<<"publisher", "mqtt">>, "retain") = <<"publisher", "mqtt", "retain">>
    BY AppendTuple, Zenon
  <2>3. QED
    BY <2>1, <2>2, SMT
<1>24. CASE k = 24
  <2>1. /\ PathAbove(k) = <<"publisher", "mqtt">> /\ Len(PathOrder[k]) = 3
        /\ PathOrder[k] = <<"publisher", "mqtt", "homeassistant">> /\ PathOrder[k][3] = "homeassistant"
    BY <1>24, PathRows, PathEnds DEF PathAbove
  <2>2. Append(<<"publisher", "mqtt">>, "homeassistant") = <<"publisher", "mqtt", "homeassistant">>
    BY AppendTuple, Zenon
  <2>3. QED
    BY <2>1, <2>2, SMT
<1>25. CASE k = 25
  <2>1. /\ PathAbove(k) = <<"publisher", "mqtt", "homeassistant">> /\ Len(PathOrder[k]) = 4
        /\ PathOrder[k] = <<"publisher", "mqtt", "homeassistant", "enabled">> /\ PathOrder[k][4] = "enabled"
    BY <1>25, PathRows, PathEnds DEF PathAbove
  <2>2. Append(<<"publisher", "mqtt", "homeassistant">>, "enabled") = <<"publisher", "mqtt", "homeassistant", "enabled">>
    BY AppendTuple, Zenon
  <2>3. QED
    BY <2>1, <2>2, SMT
<1>26. CASE k = 26
  <2>1. /\ PathAbove(k) = <<"publisher", "mqtt", "homeassistant">> /\ Len(PathOrder[k]) = 4
        /\ PathOrder[k] = <<"publisher", "mqtt", "homeassistant", "discovery_prefix">> /\ PathOrder[k][4] = "discovery_prefix"
    BY <1>26, PathRows, PathEnds DEF PathAbove
  <2>2. Append(<<"publisher", "mqtt", "homeassistant">>, "discovery_prefix") = <<"publisher", "mqtt", "homeassistant", "discovery_prefix">>
    BY AppendTuple, Zenon
  <2>3. QED
    BY <2>1, <2>2, SMT
<1>27. QED
  BY PlaceIsOne, <1>1, <1>2, <1>3, <1>4, <1>5, <1>6, <1>7, <1>8, <1>9, <1>10, <1>11, <1>12, <1>13, <1>14, <1>15, <1>16, <1>17, <1>18, <1>19, <1>20, <1>21, <1>22, <1>23, <1>24, <1>25, <1>26

\* All keys of the paths are keys.
LEMMA KeysKnown == \A k \in 1 .. 26 : \A n \in DOMAIN PathOrder[k] : PathOrder[k][n] \in Keys
<1>1. DOMAIN PathOrder = 1 .. 26
  BY PathRows
<1>2. QED
  BY <1>1, SourcesAssumption

\* The last key of each path of the order.
LEMMA PathKeys ==
  ASSUME NEW k \in 1 .. 26
  PROVE  PathOrder[k] \in Seq(Keys) /\ PathOrder[k][Len(PathOrder[k])] \in Keys
<1>1. CASE k = 1
  <2>1. PathOrder[k] = <<"node_id">> /\ Len(PathOrder[k]) = 1
    BY <1>1, PathRows, PathEnds
  <2>2. "node_id" \in Keys
    BY <2>1, KeysKnown
  <2>3. QED
    BY <2>1, <2>2
<1>2. CASE k = 2
  <2>1. PathOrder[k] = <<"job_name">> /\ Len(PathOrder[k]) = 1
    BY <1>2, PathRows, PathEnds
  <2>2. "job_name" \in Keys
    BY <2>1, KeysKnown
  <2>3. QED
    BY <2>1, <2>2
<1>3. CASE k = 3
  <2>1. PathOrder[k] = <<"interval">> /\ Len(PathOrder[k]) = 1
    BY <1>3, PathRows, PathEnds
  <2>2. "interval" \in Keys
    BY <2>1, KeysKnown
  <2>3. QED
    BY <2>1, <2>2
<1>4. CASE k = 4
  <2>1. PathOrder[k] = <<"collector">> /\ Len(PathOrder[k]) = 1
    BY <1>4, PathRows, PathEnds
  <2>2. "collector" \in Keys
    BY <2>1, KeysKnown
  <2>3. QED
    BY <2>1, <2>2
<1>5. CASE k = 5
  <2>1. PathOrder[k] = <<"collector", "type">> /\ Len(PathOrder[k]) = 2
    BY <1>5, PathRows, PathEnds
  <2>2. "collector" \in Keys /\ "type" \in Keys
    BY <2>1, KeysKnown
  <2>3. QED
    BY <2>1, <2>2
<1>6. CASE k = 6
  <2>1. PathOrder[k] = <<"collector", "docker">> /\ Len(PathOrder[k]) = 2
    BY <1>6, PathRows, PathEnds
  <2>2. "collector" \in Keys /\ "docker" \in Keys
    BY <2>1, KeysKnown
  <2>3. QED
    BY <2>1, <2>2
<1>7. CASE k = 7
  <2>1. PathOrder[k] = <<"collector", "docker", "endpoint">> /\ Len(PathOrder[k]) = 3
    BY <1>7, PathRows, PathEnds
  <2>2. "collector" \in Keys /\ "docker" \in Keys /\ "endpoint" \in Keys
    BY <2>1, KeysKnown
  <2>3. QED
    BY <2>1, <2>2
<1>8. CASE k = 8
  <2>1. PathOrder[k] = <<"collector", "docker", "include_stopped">> /\ Len(PathOrder[k]) = 3
    BY <1>8, PathRows, PathEnds
  <2>2. "collector" \in Keys /\ "docker" \in Keys /\ "include_stopped" \in Keys
    BY <2>1, KeysKnown
  <2>3. QED
    BY <2>1, <2>2
<1>9. CASE k = 9
  <2>1. PathOrder[k] = <<"collector", "docker", "watch_by_default">> /\ Len(PathOrder[k]) = 3
    BY <1>9, PathRows, PathEnds
  <2>2. "collector" \in Keys /\ "docker" \in Keys /\ "watch_by_default" \in Keys
    BY <2>1, KeysKnown
  <2>3. QED
    BY <2>1, <2>2
<1>10. CASE k = 10
  <2>1. PathOrder[k] = <<"collector", "package">> /\ Len(PathOrder[k]) = 2
    BY <1>10, PathRows, PathEnds
  <2>2. "collector" \in Keys /\ "package" \in Keys
    BY <2>1, KeysKnown
  <2>3. QED
    BY <2>1, <2>2
<1>11. CASE k = 11
  <2>1. PathOrder[k] = <<"collector", "package", "manager">> /\ Len(PathOrder[k]) = 3
    BY <1>11, PathRows, PathEnds
  <2>2. "collector" \in Keys /\ "package" \in Keys /\ "manager" \in Keys
    BY <2>1, KeysKnown
  <2>3. QED
    BY <2>1, <2>2
<1>12. CASE k = 12
  <2>1. PathOrder[k] = <<"collector", "package", "names">> /\ Len(PathOrder[k]) = 3
    BY <1>12, PathRows, PathEnds
  <2>2. "collector" \in Keys /\ "package" \in Keys /\ "names" \in Keys
    BY <2>1, KeysKnown
  <2>3. QED
    BY <2>1, <2>2
<1>13. CASE k = 13
  <2>1. PathOrder[k] = <<"publisher">> /\ Len(PathOrder[k]) = 1
    BY <1>13, PathRows, PathEnds
  <2>2. "publisher" \in Keys
    BY <2>1, KeysKnown
  <2>3. QED
    BY <2>1, <2>2
<1>14. CASE k = 14
  <2>1. PathOrder[k] = <<"publisher", "type">> /\ Len(PathOrder[k]) = 2
    BY <1>14, PathRows, PathEnds
  <2>2. "publisher" \in Keys /\ "type" \in Keys
    BY <2>1, KeysKnown
  <2>3. QED
    BY <2>1, <2>2
<1>15. CASE k = 15
  <2>1. PathOrder[k] = <<"publisher", "mqtt">> /\ Len(PathOrder[k]) = 2
    BY <1>15, PathRows, PathEnds
  <2>2. "publisher" \in Keys /\ "mqtt" \in Keys
    BY <2>1, KeysKnown
  <2>3. QED
    BY <2>1, <2>2
<1>16. CASE k = 16
  <2>1. PathOrder[k] = <<"publisher", "mqtt", "host">> /\ Len(PathOrder[k]) = 3
    BY <1>16, PathRows, PathEnds
  <2>2. "publisher" \in Keys /\ "mqtt" \in Keys /\ "host" \in Keys
    BY <2>1, KeysKnown
  <2>3. QED
    BY <2>1, <2>2
<1>17. CASE k = 17
  <2>1. PathOrder[k] = <<"publisher", "mqtt", "port">> /\ Len(PathOrder[k]) = 3
    BY <1>17, PathRows, PathEnds
  <2>2. "publisher" \in Keys /\ "mqtt" \in Keys /\ "port" \in Keys
    BY <2>1, KeysKnown
  <2>3. QED
    BY <2>1, <2>2
<1>18. CASE k = 18
  <2>1. PathOrder[k] = <<"publisher", "mqtt", "username">> /\ Len(PathOrder[k]) = 3
    BY <1>18, PathRows, PathEnds
  <2>2. "publisher" \in Keys /\ "mqtt" \in Keys /\ "username" \in Keys
    BY <2>1, KeysKnown
  <2>3. QED
    BY <2>1, <2>2
<1>19. CASE k = 19
  <2>1. PathOrder[k] = <<"publisher", "mqtt", "password">> /\ Len(PathOrder[k]) = 3
    BY <1>19, PathRows, PathEnds
  <2>2. "publisher" \in Keys /\ "mqtt" \in Keys /\ "password" \in Keys
    BY <2>1, KeysKnown
  <2>3. QED
    BY <2>1, <2>2
<1>20. CASE k = 20
  <2>1. PathOrder[k] = <<"publisher", "mqtt", "topic_prefix">> /\ Len(PathOrder[k]) = 3
    BY <1>20, PathRows, PathEnds
  <2>2. "publisher" \in Keys /\ "mqtt" \in Keys /\ "topic_prefix" \in Keys
    BY <2>1, KeysKnown
  <2>3. QED
    BY <2>1, <2>2
<1>21. CASE k = 21
  <2>1. PathOrder[k] = <<"publisher", "mqtt", "client_id_prefix">> /\ Len(PathOrder[k]) = 3
    BY <1>21, PathRows, PathEnds
  <2>2. "publisher" \in Keys /\ "mqtt" \in Keys /\ "client_id_prefix" \in Keys
    BY <2>1, KeysKnown
  <2>3. QED
    BY <2>1, <2>2
<1>22. CASE k = 22
  <2>1. PathOrder[k] = <<"publisher", "mqtt", "connect_timeout">> /\ Len(PathOrder[k]) = 3
    BY <1>22, PathRows, PathEnds
  <2>2. "publisher" \in Keys /\ "mqtt" \in Keys /\ "connect_timeout" \in Keys
    BY <2>1, KeysKnown
  <2>3. QED
    BY <2>1, <2>2
<1>23. CASE k = 23
  <2>1. PathOrder[k] = <<"publisher", "mqtt", "retain">> /\ Len(PathOrder[k]) = 3
    BY <1>23, PathRows, PathEnds
  <2>2. "publisher" \in Keys /\ "mqtt" \in Keys /\ "retain" \in Keys
    BY <2>1, KeysKnown
  <2>3. QED
    BY <2>1, <2>2
<1>24. CASE k = 24
  <2>1. PathOrder[k] = <<"publisher", "mqtt", "homeassistant">> /\ Len(PathOrder[k]) = 3
    BY <1>24, PathRows, PathEnds
  <2>2. "publisher" \in Keys /\ "mqtt" \in Keys /\ "homeassistant" \in Keys
    BY <2>1, KeysKnown
  <2>3. QED
    BY <2>1, <2>2
<1>25. CASE k = 25
  <2>1. PathOrder[k] = <<"publisher", "mqtt", "homeassistant", "enabled">> /\ Len(PathOrder[k]) = 4
    BY <1>25, PathRows, PathEnds
  <2>2. "publisher" \in Keys /\ "mqtt" \in Keys /\ "homeassistant" \in Keys /\ "enabled" \in Keys
    BY <2>1, KeysKnown
  <2>3. QED
    BY <2>1, <2>2
<1>26. CASE k = 26
  <2>1. PathOrder[k] = <<"publisher", "mqtt", "homeassistant", "discovery_prefix">> /\ Len(PathOrder[k]) = 4
    BY <1>26, PathRows, PathEnds
  <2>2. "publisher" \in Keys /\ "mqtt" \in Keys /\ "homeassistant" \in Keys /\ "discovery_prefix" \in Keys
    BY <2>1, KeysKnown
  <2>3. QED
    BY <2>1, <2>2
<1>27. QED
  BY PlaceIsOne, <1>1, <1>2, <1>3, <1>4, <1>5, <1>6, <1>7, <1>8, <1>9, <1>10, <1>11, <1>12, <1>13, <1>14, <1>15, <1>16, <1>17, <1>18, <1>19, <1>20, <1>21, <1>22, <1>23, <1>24, <1>25, <1>26

-----------------------------------------------------------------------------
(***************************************************************************)
(* The document of an environment.                                         *)
(***************************************************************************)
\* The place of the path of each variable, the places of mappings, and the
\* mappings that each place is in.
Place ==
  [NODE_ID |-> 1,
   JOB_NAME |-> 2,
   INTERVAL |-> 3,
   COLLECTOR_TYPE |-> 5,
   COLLECTOR_DOCKER_ENDPOINT |-> 7,
   COLLECTOR_DOCKER_INCLUDE_STOPPED |-> 8,
   COLLECTOR_DOCKER_WATCH_BY_DEFAULT |-> 9,
   COLLECTOR_PACKAGE_MANAGER |-> 11,
   COLLECTOR_PACKAGE_NAMES |-> 12,
   PUBLISHER_TYPE |-> 14,
   PUBLISHER_MQTT_HOST |-> 16,
   PUBLISHER_MQTT_PORT |-> 17,
   PUBLISHER_MQTT_USERNAME |-> 18,
   PUBLISHER_MQTT_PASSWORD |-> 19,
   PUBLISHER_MQTT_TOPIC_PREFIX |-> 20,
   PUBLISHER_MQTT_CLIENT_ID_PREFIX |-> 21,
   PUBLISHER_MQTT_CONNECT_TIMEOUT |-> 22,
   PUBLISHER_MQTT_RETAIN |-> 23,
   PUBLISHER_MQTT_HOMEASSISTANT_ENABLED |-> 25,
   PUBLISHER_MQTT_HOMEASSISTANT_DISCOVERY_PREFIX |-> 26]
MappingPlaces == {4, 6, 10, 13, 15, 24}
Around ==
  <<{}, {}, {}, {}, {4}, {4}, {4, 6}, {4, 6}, {4, 6},
    {4}, {4, 10}, {4, 10}, {}, {13}, {13}, {13, 15}, {13, 15}, {13, 15},
    {13, 15}, {13, 15}, {13, 15}, {13, 15}, {13, 15}, {13, 15}, {13, 15, 24}, {13, 15, 24}>>

\* The variables one by one.
LEMMA VariableRows ==
  /\ DOMAIN KeyOf = DOMAIN Place
  /\ KeyOf["NODE_ID"] = <<"node_id">> /\ Place["NODE_ID"] = 1
  /\ KeyOf["JOB_NAME"] = <<"job_name">> /\ Place["JOB_NAME"] = 2
  /\ KeyOf["INTERVAL"] = <<"interval">> /\ Place["INTERVAL"] = 3
  /\ KeyOf["COLLECTOR_TYPE"] = <<"collector", "type">> /\ Place["COLLECTOR_TYPE"] = 5
  /\ KeyOf["COLLECTOR_DOCKER_ENDPOINT"] = <<"collector", "docker", "endpoint">> /\ Place["COLLECTOR_DOCKER_ENDPOINT"] = 7
  /\ KeyOf["COLLECTOR_DOCKER_INCLUDE_STOPPED"] = <<"collector", "docker", "include_stopped">> /\ Place["COLLECTOR_DOCKER_INCLUDE_STOPPED"] = 8
  /\ KeyOf["COLLECTOR_DOCKER_WATCH_BY_DEFAULT"] = <<"collector", "docker", "watch_by_default">> /\ Place["COLLECTOR_DOCKER_WATCH_BY_DEFAULT"] = 9
  /\ KeyOf["COLLECTOR_PACKAGE_MANAGER"] = <<"collector", "package", "manager">> /\ Place["COLLECTOR_PACKAGE_MANAGER"] = 11
  /\ KeyOf["COLLECTOR_PACKAGE_NAMES"] = <<"collector", "package", "names">> /\ Place["COLLECTOR_PACKAGE_NAMES"] = 12
  /\ KeyOf["PUBLISHER_TYPE"] = <<"publisher", "type">> /\ Place["PUBLISHER_TYPE"] = 14
  /\ KeyOf["PUBLISHER_MQTT_HOST"] = <<"publisher", "mqtt", "host">> /\ Place["PUBLISHER_MQTT_HOST"] = 16
  /\ KeyOf["PUBLISHER_MQTT_PORT"] = <<"publisher", "mqtt", "port">> /\ Place["PUBLISHER_MQTT_PORT"] = 17
  /\ KeyOf["PUBLISHER_MQTT_USERNAME"] = <<"publisher", "mqtt", "username">> /\ Place["PUBLISHER_MQTT_USERNAME"] = 18
  /\ KeyOf["PUBLISHER_MQTT_PASSWORD"] = <<"publisher", "mqtt", "password">> /\ Place["PUBLISHER_MQTT_PASSWORD"] = 19
  /\ KeyOf["PUBLISHER_MQTT_TOPIC_PREFIX"] = <<"publisher", "mqtt", "topic_prefix">> /\ Place["PUBLISHER_MQTT_TOPIC_PREFIX"] = 20
  /\ KeyOf["PUBLISHER_MQTT_CLIENT_ID_PREFIX"] = <<"publisher", "mqtt", "client_id_prefix">> /\ Place["PUBLISHER_MQTT_CLIENT_ID_PREFIX"] = 21
  /\ KeyOf["PUBLISHER_MQTT_CONNECT_TIMEOUT"] = <<"publisher", "mqtt", "connect_timeout">> /\ Place["PUBLISHER_MQTT_CONNECT_TIMEOUT"] = 22
  /\ KeyOf["PUBLISHER_MQTT_RETAIN"] = <<"publisher", "mqtt", "retain">> /\ Place["PUBLISHER_MQTT_RETAIN"] = 23
  /\ KeyOf["PUBLISHER_MQTT_HOMEASSISTANT_ENABLED"] = <<"publisher", "mqtt", "homeassistant", "enabled">> /\ Place["PUBLISHER_MQTT_HOMEASSISTANT_ENABLED"] = 25
  /\ KeyOf["PUBLISHER_MQTT_HOMEASSISTANT_DISCOVERY_PREFIX"] = <<"publisher", "mqtt", "homeassistant", "discovery_prefix">> /\ Place["PUBLISHER_MQTT_HOMEASSISTANT_DISCOVERY_PREFIX"] = 26
<1>1. HomeAssistant = <<"publisher", "mqtt", "homeassistant">>
  BY DEF HomeAssistant, MQTT
<1>2. /\ Append(HomeAssistant, "enabled") = <<"publisher", "mqtt", "homeassistant", "enabled">>
      /\ Append(HomeAssistant, "discovery_prefix")
           = <<"publisher", "mqtt", "homeassistant", "discovery_prefix">>
  BY <1>1, AppendTuple
<1>3. QED
  BY <1>2 DEF KeyOf, Place, Docker, Package, MQTT

\* A variable is one of the twenty.
LEMMA VariableIsOne ==
  ASSUME NEW v \in DOMAIN KeyOf
  PROVE  \/ v = "NODE_ID"
         \/ v = "JOB_NAME"
         \/ v = "INTERVAL"
         \/ v = "COLLECTOR_TYPE"
         \/ v = "COLLECTOR_DOCKER_ENDPOINT"
         \/ v = "COLLECTOR_DOCKER_INCLUDE_STOPPED"
         \/ v = "COLLECTOR_DOCKER_WATCH_BY_DEFAULT"
         \/ v = "COLLECTOR_PACKAGE_MANAGER"
         \/ v = "COLLECTOR_PACKAGE_NAMES"
         \/ v = "PUBLISHER_TYPE"
         \/ v = "PUBLISHER_MQTT_HOST"
         \/ v = "PUBLISHER_MQTT_PORT"
         \/ v = "PUBLISHER_MQTT_USERNAME"
         \/ v = "PUBLISHER_MQTT_PASSWORD"
         \/ v = "PUBLISHER_MQTT_TOPIC_PREFIX"
         \/ v = "PUBLISHER_MQTT_CLIENT_ID_PREFIX"
         \/ v = "PUBLISHER_MQTT_CONNECT_TIMEOUT"
         \/ v = "PUBLISHER_MQTT_RETAIN"
         \/ v = "PUBLISHER_MQTT_HOMEASSISTANT_ENABLED"
         \/ v = "PUBLISHER_MQTT_HOMEASSISTANT_DISCOVERY_PREFIX"
BY VariableRows DEF Place

\* The path of a variable is at its place, at no other, and no mapping is there.
LEMMA VariablePlace ==
  ASSUME NEW v \in DOMAIN KeyOf
  PROVE  /\ Place[v] \in 1 .. 26 \ MappingPlaces /\ KeyOf[v] = PathOrder[Place[v]]
         /\ \A w \in DOMAIN KeyOf : Place[w] = Place[v] => w = v
<1>1. CASE v = "NODE_ID"
  <2>1. Place[v] = 1 /\ KeyOf[v] = PathOrder[1]
    BY <1>1, VariableRows, PathRows
  <2>2. \A w \in DOMAIN KeyOf : Place[w] = 1 => w = "NODE_ID"
    BY VariableRows, VariableIsOne
  <2>3. QED
    BY <1>1, <2>1, <2>2 DEF MappingPlaces
<1>2. CASE v = "JOB_NAME"
  <2>1. Place[v] = 2 /\ KeyOf[v] = PathOrder[2]
    BY <1>2, VariableRows, PathRows
  <2>2. \A w \in DOMAIN KeyOf : Place[w] = 2 => w = "JOB_NAME"
    BY VariableRows, VariableIsOne
  <2>3. QED
    BY <1>2, <2>1, <2>2 DEF MappingPlaces
<1>3. CASE v = "INTERVAL"
  <2>1. Place[v] = 3 /\ KeyOf[v] = PathOrder[3]
    BY <1>3, VariableRows, PathRows
  <2>2. \A w \in DOMAIN KeyOf : Place[w] = 3 => w = "INTERVAL"
    BY VariableRows, VariableIsOne
  <2>3. QED
    BY <1>3, <2>1, <2>2 DEF MappingPlaces
<1>4. CASE v = "COLLECTOR_TYPE"
  <2>1. Place[v] = 5 /\ KeyOf[v] = PathOrder[5]
    BY <1>4, VariableRows, PathRows
  <2>2. \A w \in DOMAIN KeyOf : Place[w] = 5 => w = "COLLECTOR_TYPE"
    BY VariableRows, VariableIsOne
  <2>3. QED
    BY <1>4, <2>1, <2>2 DEF MappingPlaces
<1>5. CASE v = "COLLECTOR_DOCKER_ENDPOINT"
  <2>1. Place[v] = 7 /\ KeyOf[v] = PathOrder[7]
    BY <1>5, VariableRows, PathRows
  <2>2. \A w \in DOMAIN KeyOf : Place[w] = 7 => w = "COLLECTOR_DOCKER_ENDPOINT"
    BY VariableRows, VariableIsOne
  <2>3. QED
    BY <1>5, <2>1, <2>2 DEF MappingPlaces
<1>6. CASE v = "COLLECTOR_DOCKER_INCLUDE_STOPPED"
  <2>1. Place[v] = 8 /\ KeyOf[v] = PathOrder[8]
    BY <1>6, VariableRows, PathRows
  <2>2. \A w \in DOMAIN KeyOf : Place[w] = 8 => w = "COLLECTOR_DOCKER_INCLUDE_STOPPED"
    BY VariableRows, VariableIsOne
  <2>3. QED
    BY <1>6, <2>1, <2>2 DEF MappingPlaces
<1>7. CASE v = "COLLECTOR_DOCKER_WATCH_BY_DEFAULT"
  <2>1. Place[v] = 9 /\ KeyOf[v] = PathOrder[9]
    BY <1>7, VariableRows, PathRows
  <2>2. \A w \in DOMAIN KeyOf : Place[w] = 9 => w = "COLLECTOR_DOCKER_WATCH_BY_DEFAULT"
    BY VariableRows, VariableIsOne
  <2>3. QED
    BY <1>7, <2>1, <2>2 DEF MappingPlaces
<1>8. CASE v = "COLLECTOR_PACKAGE_MANAGER"
  <2>1. Place[v] = 11 /\ KeyOf[v] = PathOrder[11]
    BY <1>8, VariableRows, PathRows
  <2>2. \A w \in DOMAIN KeyOf : Place[w] = 11 => w = "COLLECTOR_PACKAGE_MANAGER"
    BY VariableRows, VariableIsOne
  <2>3. QED
    BY <1>8, <2>1, <2>2 DEF MappingPlaces
<1>9. CASE v = "COLLECTOR_PACKAGE_NAMES"
  <2>1. Place[v] = 12 /\ KeyOf[v] = PathOrder[12]
    BY <1>9, VariableRows, PathRows
  <2>2. \A w \in DOMAIN KeyOf : Place[w] = 12 => w = "COLLECTOR_PACKAGE_NAMES"
    BY VariableRows, VariableIsOne
  <2>3. QED
    BY <1>9, <2>1, <2>2 DEF MappingPlaces
<1>10. CASE v = "PUBLISHER_TYPE"
  <2>1. Place[v] = 14 /\ KeyOf[v] = PathOrder[14]
    BY <1>10, VariableRows, PathRows
  <2>2. \A w \in DOMAIN KeyOf : Place[w] = 14 => w = "PUBLISHER_TYPE"
    BY VariableRows, VariableIsOne
  <2>3. QED
    BY <1>10, <2>1, <2>2 DEF MappingPlaces
<1>11. CASE v = "PUBLISHER_MQTT_HOST"
  <2>1. Place[v] = 16 /\ KeyOf[v] = PathOrder[16]
    BY <1>11, VariableRows, PathRows
  <2>2. \A w \in DOMAIN KeyOf : Place[w] = 16 => w = "PUBLISHER_MQTT_HOST"
    BY VariableRows, VariableIsOne
  <2>3. QED
    BY <1>11, <2>1, <2>2 DEF MappingPlaces
<1>12. CASE v = "PUBLISHER_MQTT_PORT"
  <2>1. Place[v] = 17 /\ KeyOf[v] = PathOrder[17]
    BY <1>12, VariableRows, PathRows
  <2>2. \A w \in DOMAIN KeyOf : Place[w] = 17 => w = "PUBLISHER_MQTT_PORT"
    BY VariableRows, VariableIsOne
  <2>3. QED
    BY <1>12, <2>1, <2>2 DEF MappingPlaces
<1>13. CASE v = "PUBLISHER_MQTT_USERNAME"
  <2>1. Place[v] = 18 /\ KeyOf[v] = PathOrder[18]
    BY <1>13, VariableRows, PathRows
  <2>2. \A w \in DOMAIN KeyOf : Place[w] = 18 => w = "PUBLISHER_MQTT_USERNAME"
    BY VariableRows, VariableIsOne
  <2>3. QED
    BY <1>13, <2>1, <2>2 DEF MappingPlaces
<1>14. CASE v = "PUBLISHER_MQTT_PASSWORD"
  <2>1. Place[v] = 19 /\ KeyOf[v] = PathOrder[19]
    BY <1>14, VariableRows, PathRows
  <2>2. \A w \in DOMAIN KeyOf : Place[w] = 19 => w = "PUBLISHER_MQTT_PASSWORD"
    BY VariableRows, VariableIsOne
  <2>3. QED
    BY <1>14, <2>1, <2>2 DEF MappingPlaces
<1>15. CASE v = "PUBLISHER_MQTT_TOPIC_PREFIX"
  <2>1. Place[v] = 20 /\ KeyOf[v] = PathOrder[20]
    BY <1>15, VariableRows, PathRows
  <2>2. \A w \in DOMAIN KeyOf : Place[w] = 20 => w = "PUBLISHER_MQTT_TOPIC_PREFIX"
    BY VariableRows, VariableIsOne
  <2>3. QED
    BY <1>15, <2>1, <2>2 DEF MappingPlaces
<1>16. CASE v = "PUBLISHER_MQTT_CLIENT_ID_PREFIX"
  <2>1. Place[v] = 21 /\ KeyOf[v] = PathOrder[21]
    BY <1>16, VariableRows, PathRows
  <2>2. \A w \in DOMAIN KeyOf : Place[w] = 21 => w = "PUBLISHER_MQTT_CLIENT_ID_PREFIX"
    BY VariableRows, VariableIsOne
  <2>3. QED
    BY <1>16, <2>1, <2>2 DEF MappingPlaces
<1>17. CASE v = "PUBLISHER_MQTT_CONNECT_TIMEOUT"
  <2>1. Place[v] = 22 /\ KeyOf[v] = PathOrder[22]
    BY <1>17, VariableRows, PathRows
  <2>2. \A w \in DOMAIN KeyOf : Place[w] = 22 => w = "PUBLISHER_MQTT_CONNECT_TIMEOUT"
    BY VariableRows, VariableIsOne
  <2>3. QED
    BY <1>17, <2>1, <2>2 DEF MappingPlaces
<1>18. CASE v = "PUBLISHER_MQTT_RETAIN"
  <2>1. Place[v] = 23 /\ KeyOf[v] = PathOrder[23]
    BY <1>18, VariableRows, PathRows
  <2>2. \A w \in DOMAIN KeyOf : Place[w] = 23 => w = "PUBLISHER_MQTT_RETAIN"
    BY VariableRows, VariableIsOne
  <2>3. QED
    BY <1>18, <2>1, <2>2 DEF MappingPlaces
<1>19. CASE v = "PUBLISHER_MQTT_HOMEASSISTANT_ENABLED"
  <2>1. Place[v] = 25 /\ KeyOf[v] = PathOrder[25]
    BY <1>19, VariableRows, PathRows
  <2>2. \A w \in DOMAIN KeyOf : Place[w] = 25 => w = "PUBLISHER_MQTT_HOMEASSISTANT_ENABLED"
    BY VariableRows, VariableIsOne
  <2>3. QED
    BY <1>19, <2>1, <2>2 DEF MappingPlaces
<1>20. CASE v = "PUBLISHER_MQTT_HOMEASSISTANT_DISCOVERY_PREFIX"
  <2>1. Place[v] = 26 /\ KeyOf[v] = PathOrder[26]
    BY <1>20, VariableRows, PathRows
  <2>2. \A w \in DOMAIN KeyOf : Place[w] = 26 => w = "PUBLISHER_MQTT_HOMEASSISTANT_DISCOVERY_PREFIX"
    BY VariableRows, VariableIsOne
  <2>3. QED
    BY <1>20, <2>1, <2>2 DEF MappingPlaces
<1>21. QED
  BY VariableIsOne, <1>1, <1>2, <1>3, <1>4, <1>5, <1>6, <1>7, <1>8, <1>9, <1>10, <1>11, <1>12, <1>13, <1>14, <1>15, <1>16, <1>17, <1>18, <1>19, <1>20

\* The beginnings of a short tuple.
LEMMA SubTuple ==
  /\ \A a, b : SubSeq(<<a, b>>, 1, 1) = <<a>>
  /\ \A a, b, c : SubSeq(<<a, b, c>>, 1, 1) = <<a>>
  /\ \A a, b, c : SubSeq(<<a, b, c>>, 1, 2) = <<a, b>>
  /\ \A a, b, c, d : SubSeq(<<a, b, c, d>>, 1, 1) = <<a>>
  /\ \A a, b, c, d : SubSeq(<<a, b, c, d>>, 1, 2) = <<a, b>>
  /\ \A a, b, c, d : SubSeq(<<a, b, c, d>>, 1, 3) = <<a, b, c>>
<1>1. ASSUME NEW a, NEW b
      PROVE  SubSeq(<<a, b>>, 1, 1) = <<a>>
  <2>1. SubSeq(<<a, b>>, 1, 1) = [i \in 1 .. 1 |-> SubSeq(<<a, b>>, 1, 1)[i]]
    OBVIOUS
  <2>2. <<a>> = [i \in 1 .. 1 |-> <<a>>[i]]
    OBVIOUS
  <2>3. \A i \in 1 .. 1 : SubSeq(<<a, b>>, 1, 1)[i] = <<a>>[i]
    OBVIOUS
  <2>4. [i \in 1 .. 1 |-> SubSeq(<<a, b>>, 1, 1)[i]] = [i \in 1 .. 1 |-> <<a>>[i]]
    BY <2>3
  <2>5. QED
    BY <2>1, <2>2, <2>4, Zenon
<1>2. ASSUME NEW a, NEW b, NEW c
      PROVE  SubSeq(<<a, b, c>>, 1, 1) = <<a>>
  <2>1. SubSeq(<<a, b, c>>, 1, 1) = [i \in 1 .. 1 |-> SubSeq(<<a, b, c>>, 1, 1)[i]]
    OBVIOUS
  <2>2. <<a>> = [i \in 1 .. 1 |-> <<a>>[i]]
    OBVIOUS
  <2>3. \A i \in 1 .. 1 : SubSeq(<<a, b, c>>, 1, 1)[i] = <<a>>[i]
    OBVIOUS
  <2>4. [i \in 1 .. 1 |-> SubSeq(<<a, b, c>>, 1, 1)[i]] = [i \in 1 .. 1 |-> <<a>>[i]]
    BY <2>3
  <2>5. QED
    BY <2>1, <2>2, <2>4, Zenon
<1>3. ASSUME NEW a, NEW b, NEW c
      PROVE  SubSeq(<<a, b, c>>, 1, 2) = <<a, b>>
  <2>1. SubSeq(<<a, b, c>>, 1, 2) = [i \in 1 .. 2 |-> SubSeq(<<a, b, c>>, 1, 2)[i]]
    OBVIOUS
  <2>2. <<a, b>> = [i \in 1 .. 2 |-> <<a, b>>[i]]
    OBVIOUS
  <2>3. \A i \in 1 .. 2 : SubSeq(<<a, b, c>>, 1, 2)[i] = <<a, b>>[i]
    OBVIOUS
  <2>4. [i \in 1 .. 2 |-> SubSeq(<<a, b, c>>, 1, 2)[i]] = [i \in 1 .. 2 |-> <<a, b>>[i]]
    BY <2>3
  <2>5. QED
    BY <2>1, <2>2, <2>4, Zenon
<1>4. ASSUME NEW a, NEW b, NEW c, NEW d
      PROVE  SubSeq(<<a, b, c, d>>, 1, 1) = <<a>>
  <2>1. SubSeq(<<a, b, c, d>>, 1, 1) = [i \in 1 .. 1 |-> SubSeq(<<a, b, c, d>>, 1, 1)[i]]
    OBVIOUS
  <2>2. <<a>> = [i \in 1 .. 1 |-> <<a>>[i]]
    OBVIOUS
  <2>3. \A i \in 1 .. 1 : SubSeq(<<a, b, c, d>>, 1, 1)[i] = <<a>>[i]
    OBVIOUS
  <2>4. [i \in 1 .. 1 |-> SubSeq(<<a, b, c, d>>, 1, 1)[i]] = [i \in 1 .. 1 |-> <<a>>[i]]
    BY <2>3
  <2>5. QED
    BY <2>1, <2>2, <2>4, Zenon
<1>5. ASSUME NEW a, NEW b, NEW c, NEW d
      PROVE  SubSeq(<<a, b, c, d>>, 1, 2) = <<a, b>>
  <2>1. SubSeq(<<a, b, c, d>>, 1, 2) = [i \in 1 .. 2 |-> SubSeq(<<a, b, c, d>>, 1, 2)[i]]
    OBVIOUS
  <2>2. <<a, b>> = [i \in 1 .. 2 |-> <<a, b>>[i]]
    OBVIOUS
  <2>3. \A i \in 1 .. 2 : SubSeq(<<a, b, c, d>>, 1, 2)[i] = <<a, b>>[i]
    OBVIOUS
  <2>4. [i \in 1 .. 2 |-> SubSeq(<<a, b, c, d>>, 1, 2)[i]] = [i \in 1 .. 2 |-> <<a, b>>[i]]
    BY <2>3
  <2>5. QED
    BY <2>1, <2>2, <2>4, Zenon
<1>6. ASSUME NEW a, NEW b, NEW c, NEW d
      PROVE  SubSeq(<<a, b, c, d>>, 1, 3) = <<a, b, c>>
  <2>1. SubSeq(<<a, b, c, d>>, 1, 3) = [i \in 1 .. 3 |-> SubSeq(<<a, b, c, d>>, 1, 3)[i]]
    OBVIOUS
  <2>2. <<a, b, c>> = [i \in 1 .. 3 |-> <<a, b, c>>[i]]
    OBVIOUS
  <2>3. \A i \in 1 .. 3 : SubSeq(<<a, b, c, d>>, 1, 3)[i] = <<a, b, c>>[i]
    OBVIOUS
  <2>4. [i \in 1 .. 3 |-> SubSeq(<<a, b, c, d>>, 1, 3)[i]] = [i \in 1 .. 3 |-> <<a, b, c>>[i]]
    BY <2>3
  <2>5. QED
    BY <2>1, <2>2, <2>4, Zenon
<1>7. QED
  BY <1>1, <1>2, <1>3, <1>4, <1>5, <1>6, Zenon

\* What a document has above a path.
Beginnings(p) == {SubSeq(p, 1, n) : n \in 1 .. Len(p) - 1}

\* What stands above each path of the order.
LEMMA BeginningRows ==
  ASSUME NEW v \in DOMAIN KeyOf
  PROVE  Beginnings(KeyOf[v]) = {PathOrder[m] : m \in Around[Place[v]]}
<1>1. CASE v = "NODE_ID"
  <2>1. Place[v] = 1 /\ KeyOf[v] = <<"node_id">> /\ Around[1] = {}
    BY <1>1, VariableRows DEF Around
  <2>2. Beginnings(<<"node_id">>) = {}
    BY DEF Beginnings
  <2>3. {PathOrder[m] : m \in {}} = {}
    BY PathRows
  <2>4. QED
    BY <2>1, <2>2, <2>3
<1>2. CASE v = "JOB_NAME"
  <2>1. Place[v] = 2 /\ KeyOf[v] = <<"job_name">> /\ Around[2] = {}
    BY <1>2, VariableRows DEF Around
  <2>2. Beginnings(<<"job_name">>) = {}
    BY DEF Beginnings
  <2>3. {PathOrder[m] : m \in {}} = {}
    BY PathRows
  <2>4. QED
    BY <2>1, <2>2, <2>3
<1>3. CASE v = "INTERVAL"
  <2>1. Place[v] = 3 /\ KeyOf[v] = <<"interval">> /\ Around[3] = {}
    BY <1>3, VariableRows DEF Around
  <2>2. Beginnings(<<"interval">>) = {}
    BY DEF Beginnings
  <2>3. {PathOrder[m] : m \in {}} = {}
    BY PathRows
  <2>4. QED
    BY <2>1, <2>2, <2>3
<1>4. CASE v = "COLLECTOR_TYPE"
  <2>1. Place[v] = 5 /\ KeyOf[v] = <<"collector", "type">> /\ Around[5] = {4}
    BY <1>4, VariableRows DEF Around
  <2>2. Beginnings(<<"collector", "type">>) = {<<"collector">>}
    <3>1. SubSeq(<<"collector", "type">>, 1, 1) = <<"collector">>
      BY SubTuple, Zenon
    <3>2. Len(<<"collector", "type">>) = 2 /\ 1 .. 2 - 1 = {1}
      OBVIOUS
    <3>3. QED
      BY <3>1, <3>2 DEF Beginnings
  <2>3. {PathOrder[m] : m \in {4}} = {<<"collector">>}
    BY PathRows
  <2>4. QED
    BY <2>1, <2>2, <2>3
<1>5. CASE v = "COLLECTOR_DOCKER_ENDPOINT"
  <2>1. Place[v] = 7 /\ KeyOf[v] = <<"collector", "docker", "endpoint">> /\ Around[7] = {4, 6}
    BY <1>5, VariableRows DEF Around
  <2>2. Beginnings(<<"collector", "docker", "endpoint">>) = {<<"collector">>, <<"collector", "docker">>}
    <3>1. /\ SubSeq(<<"collector", "docker", "endpoint">>, 1, 1) = <<"collector">>
          /\ SubSeq(<<"collector", "docker", "endpoint">>, 1, 2) = <<"collector", "docker">>
      BY SubTuple, Zenon
    <3>2. Len(<<"collector", "docker", "endpoint">>) = 3 /\ 1 .. 3 - 1 = {1, 2}
      OBVIOUS
    <3>3. QED
      BY <3>1, <3>2 DEF Beginnings
  <2>3. {PathOrder[m] : m \in {4, 6}} = {<<"collector">>, <<"collector", "docker">>}
    BY PathRows
  <2>4. QED
    BY <2>1, <2>2, <2>3
<1>6. CASE v = "COLLECTOR_DOCKER_INCLUDE_STOPPED"
  <2>1. Place[v] = 8 /\ KeyOf[v] = <<"collector", "docker", "include_stopped">> /\ Around[8] = {4, 6}
    BY <1>6, VariableRows DEF Around
  <2>2. Beginnings(<<"collector", "docker", "include_stopped">>) = {<<"collector">>, <<"collector", "docker">>}
    <3>1. /\ SubSeq(<<"collector", "docker", "include_stopped">>, 1, 1) = <<"collector">>
          /\ SubSeq(<<"collector", "docker", "include_stopped">>, 1, 2) = <<"collector", "docker">>
      BY SubTuple, Zenon
    <3>2. Len(<<"collector", "docker", "include_stopped">>) = 3 /\ 1 .. 3 - 1 = {1, 2}
      OBVIOUS
    <3>3. QED
      BY <3>1, <3>2 DEF Beginnings
  <2>3. {PathOrder[m] : m \in {4, 6}} = {<<"collector">>, <<"collector", "docker">>}
    BY PathRows
  <2>4. QED
    BY <2>1, <2>2, <2>3
<1>7. CASE v = "COLLECTOR_DOCKER_WATCH_BY_DEFAULT"
  <2>1. Place[v] = 9 /\ KeyOf[v] = <<"collector", "docker", "watch_by_default">> /\ Around[9] = {4, 6}
    BY <1>7, VariableRows DEF Around
  <2>2. Beginnings(<<"collector", "docker", "watch_by_default">>) = {<<"collector">>, <<"collector", "docker">>}
    <3>1. /\ SubSeq(<<"collector", "docker", "watch_by_default">>, 1, 1) = <<"collector">>
          /\ SubSeq(<<"collector", "docker", "watch_by_default">>, 1, 2) = <<"collector", "docker">>
      BY SubTuple, Zenon
    <3>2. Len(<<"collector", "docker", "watch_by_default">>) = 3 /\ 1 .. 3 - 1 = {1, 2}
      OBVIOUS
    <3>3. QED
      BY <3>1, <3>2 DEF Beginnings
  <2>3. {PathOrder[m] : m \in {4, 6}} = {<<"collector">>, <<"collector", "docker">>}
    BY PathRows
  <2>4. QED
    BY <2>1, <2>2, <2>3
<1>8. CASE v = "COLLECTOR_PACKAGE_MANAGER"
  <2>1. Place[v] = 11 /\ KeyOf[v] = <<"collector", "package", "manager">> /\ Around[11] = {4, 10}
    BY <1>8, VariableRows DEF Around
  <2>2. Beginnings(<<"collector", "package", "manager">>) = {<<"collector">>, <<"collector", "package">>}
    <3>1. /\ SubSeq(<<"collector", "package", "manager">>, 1, 1) = <<"collector">>
          /\ SubSeq(<<"collector", "package", "manager">>, 1, 2) = <<"collector", "package">>
      BY SubTuple, Zenon
    <3>2. Len(<<"collector", "package", "manager">>) = 3 /\ 1 .. 3 - 1 = {1, 2}
      OBVIOUS
    <3>3. QED
      BY <3>1, <3>2 DEF Beginnings
  <2>3. {PathOrder[m] : m \in {4, 10}} = {<<"collector">>, <<"collector", "package">>}
    BY PathRows
  <2>4. QED
    BY <2>1, <2>2, <2>3
<1>9. CASE v = "COLLECTOR_PACKAGE_NAMES"
  <2>1. Place[v] = 12 /\ KeyOf[v] = <<"collector", "package", "names">> /\ Around[12] = {4, 10}
    BY <1>9, VariableRows DEF Around
  <2>2. Beginnings(<<"collector", "package", "names">>) = {<<"collector">>, <<"collector", "package">>}
    <3>1. /\ SubSeq(<<"collector", "package", "names">>, 1, 1) = <<"collector">>
          /\ SubSeq(<<"collector", "package", "names">>, 1, 2) = <<"collector", "package">>
      BY SubTuple, Zenon
    <3>2. Len(<<"collector", "package", "names">>) = 3 /\ 1 .. 3 - 1 = {1, 2}
      OBVIOUS
    <3>3. QED
      BY <3>1, <3>2 DEF Beginnings
  <2>3. {PathOrder[m] : m \in {4, 10}} = {<<"collector">>, <<"collector", "package">>}
    BY PathRows
  <2>4. QED
    BY <2>1, <2>2, <2>3
<1>10. CASE v = "PUBLISHER_TYPE"
  <2>1. Place[v] = 14 /\ KeyOf[v] = <<"publisher", "type">> /\ Around[14] = {13}
    BY <1>10, VariableRows DEF Around
  <2>2. Beginnings(<<"publisher", "type">>) = {<<"publisher">>}
    <3>1. SubSeq(<<"publisher", "type">>, 1, 1) = <<"publisher">>
      BY SubTuple, Zenon
    <3>2. Len(<<"publisher", "type">>) = 2 /\ 1 .. 2 - 1 = {1}
      OBVIOUS
    <3>3. QED
      BY <3>1, <3>2 DEF Beginnings
  <2>3. {PathOrder[m] : m \in {13}} = {<<"publisher">>}
    BY PathRows
  <2>4. QED
    BY <2>1, <2>2, <2>3
<1>11. CASE v = "PUBLISHER_MQTT_HOST"
  <2>1. Place[v] = 16 /\ KeyOf[v] = <<"publisher", "mqtt", "host">> /\ Around[16] = {13, 15}
    BY <1>11, VariableRows DEF Around
  <2>2. Beginnings(<<"publisher", "mqtt", "host">>) = {<<"publisher">>, <<"publisher", "mqtt">>}
    <3>1. /\ SubSeq(<<"publisher", "mqtt", "host">>, 1, 1) = <<"publisher">>
          /\ SubSeq(<<"publisher", "mqtt", "host">>, 1, 2) = <<"publisher", "mqtt">>
      BY SubTuple, Zenon
    <3>2. Len(<<"publisher", "mqtt", "host">>) = 3 /\ 1 .. 3 - 1 = {1, 2}
      OBVIOUS
    <3>3. QED
      BY <3>1, <3>2 DEF Beginnings
  <2>3. {PathOrder[m] : m \in {13, 15}} = {<<"publisher">>, <<"publisher", "mqtt">>}
    BY PathRows
  <2>4. QED
    BY <2>1, <2>2, <2>3
<1>12. CASE v = "PUBLISHER_MQTT_PORT"
  <2>1. Place[v] = 17 /\ KeyOf[v] = <<"publisher", "mqtt", "port">> /\ Around[17] = {13, 15}
    BY <1>12, VariableRows DEF Around
  <2>2. Beginnings(<<"publisher", "mqtt", "port">>) = {<<"publisher">>, <<"publisher", "mqtt">>}
    <3>1. /\ SubSeq(<<"publisher", "mqtt", "port">>, 1, 1) = <<"publisher">>
          /\ SubSeq(<<"publisher", "mqtt", "port">>, 1, 2) = <<"publisher", "mqtt">>
      BY SubTuple, Zenon
    <3>2. Len(<<"publisher", "mqtt", "port">>) = 3 /\ 1 .. 3 - 1 = {1, 2}
      OBVIOUS
    <3>3. QED
      BY <3>1, <3>2 DEF Beginnings
  <2>3. {PathOrder[m] : m \in {13, 15}} = {<<"publisher">>, <<"publisher", "mqtt">>}
    BY PathRows
  <2>4. QED
    BY <2>1, <2>2, <2>3
<1>13. CASE v = "PUBLISHER_MQTT_USERNAME"
  <2>1. Place[v] = 18 /\ KeyOf[v] = <<"publisher", "mqtt", "username">> /\ Around[18] = {13, 15}
    BY <1>13, VariableRows DEF Around
  <2>2. Beginnings(<<"publisher", "mqtt", "username">>) = {<<"publisher">>, <<"publisher", "mqtt">>}
    <3>1. /\ SubSeq(<<"publisher", "mqtt", "username">>, 1, 1) = <<"publisher">>
          /\ SubSeq(<<"publisher", "mqtt", "username">>, 1, 2) = <<"publisher", "mqtt">>
      BY SubTuple, Zenon
    <3>2. Len(<<"publisher", "mqtt", "username">>) = 3 /\ 1 .. 3 - 1 = {1, 2}
      OBVIOUS
    <3>3. QED
      BY <3>1, <3>2 DEF Beginnings
  <2>3. {PathOrder[m] : m \in {13, 15}} = {<<"publisher">>, <<"publisher", "mqtt">>}
    BY PathRows
  <2>4. QED
    BY <2>1, <2>2, <2>3
<1>14. CASE v = "PUBLISHER_MQTT_PASSWORD"
  <2>1. Place[v] = 19 /\ KeyOf[v] = <<"publisher", "mqtt", "password">> /\ Around[19] = {13, 15}
    BY <1>14, VariableRows DEF Around
  <2>2. Beginnings(<<"publisher", "mqtt", "password">>) = {<<"publisher">>, <<"publisher", "mqtt">>}
    <3>1. /\ SubSeq(<<"publisher", "mqtt", "password">>, 1, 1) = <<"publisher">>
          /\ SubSeq(<<"publisher", "mqtt", "password">>, 1, 2) = <<"publisher", "mqtt">>
      BY SubTuple, Zenon
    <3>2. Len(<<"publisher", "mqtt", "password">>) = 3 /\ 1 .. 3 - 1 = {1, 2}
      OBVIOUS
    <3>3. QED
      BY <3>1, <3>2 DEF Beginnings
  <2>3. {PathOrder[m] : m \in {13, 15}} = {<<"publisher">>, <<"publisher", "mqtt">>}
    BY PathRows
  <2>4. QED
    BY <2>1, <2>2, <2>3
<1>15. CASE v = "PUBLISHER_MQTT_TOPIC_PREFIX"
  <2>1. Place[v] = 20 /\ KeyOf[v] = <<"publisher", "mqtt", "topic_prefix">> /\ Around[20] = {13, 15}
    BY <1>15, VariableRows DEF Around
  <2>2. Beginnings(<<"publisher", "mqtt", "topic_prefix">>) = {<<"publisher">>, <<"publisher", "mqtt">>}
    <3>1. /\ SubSeq(<<"publisher", "mqtt", "topic_prefix">>, 1, 1) = <<"publisher">>
          /\ SubSeq(<<"publisher", "mqtt", "topic_prefix">>, 1, 2) = <<"publisher", "mqtt">>
      BY SubTuple, Zenon
    <3>2. Len(<<"publisher", "mqtt", "topic_prefix">>) = 3 /\ 1 .. 3 - 1 = {1, 2}
      OBVIOUS
    <3>3. QED
      BY <3>1, <3>2 DEF Beginnings
  <2>3. {PathOrder[m] : m \in {13, 15}} = {<<"publisher">>, <<"publisher", "mqtt">>}
    BY PathRows
  <2>4. QED
    BY <2>1, <2>2, <2>3
<1>16. CASE v = "PUBLISHER_MQTT_CLIENT_ID_PREFIX"
  <2>1. Place[v] = 21 /\ KeyOf[v] = <<"publisher", "mqtt", "client_id_prefix">> /\ Around[21] = {13, 15}
    BY <1>16, VariableRows DEF Around
  <2>2. Beginnings(<<"publisher", "mqtt", "client_id_prefix">>) = {<<"publisher">>, <<"publisher", "mqtt">>}
    <3>1. /\ SubSeq(<<"publisher", "mqtt", "client_id_prefix">>, 1, 1) = <<"publisher">>
          /\ SubSeq(<<"publisher", "mqtt", "client_id_prefix">>, 1, 2) = <<"publisher", "mqtt">>
      BY SubTuple, Zenon
    <3>2. Len(<<"publisher", "mqtt", "client_id_prefix">>) = 3 /\ 1 .. 3 - 1 = {1, 2}
      OBVIOUS
    <3>3. QED
      BY <3>1, <3>2 DEF Beginnings
  <2>3. {PathOrder[m] : m \in {13, 15}} = {<<"publisher">>, <<"publisher", "mqtt">>}
    BY PathRows
  <2>4. QED
    BY <2>1, <2>2, <2>3
<1>17. CASE v = "PUBLISHER_MQTT_CONNECT_TIMEOUT"
  <2>1. Place[v] = 22 /\ KeyOf[v] = <<"publisher", "mqtt", "connect_timeout">> /\ Around[22] = {13, 15}
    BY <1>17, VariableRows DEF Around
  <2>2. Beginnings(<<"publisher", "mqtt", "connect_timeout">>) = {<<"publisher">>, <<"publisher", "mqtt">>}
    <3>1. /\ SubSeq(<<"publisher", "mqtt", "connect_timeout">>, 1, 1) = <<"publisher">>
          /\ SubSeq(<<"publisher", "mqtt", "connect_timeout">>, 1, 2) = <<"publisher", "mqtt">>
      BY SubTuple, Zenon
    <3>2. Len(<<"publisher", "mqtt", "connect_timeout">>) = 3 /\ 1 .. 3 - 1 = {1, 2}
      OBVIOUS
    <3>3. QED
      BY <3>1, <3>2 DEF Beginnings
  <2>3. {PathOrder[m] : m \in {13, 15}} = {<<"publisher">>, <<"publisher", "mqtt">>}
    BY PathRows
  <2>4. QED
    BY <2>1, <2>2, <2>3
<1>18. CASE v = "PUBLISHER_MQTT_RETAIN"
  <2>1. Place[v] = 23 /\ KeyOf[v] = <<"publisher", "mqtt", "retain">> /\ Around[23] = {13, 15}
    BY <1>18, VariableRows DEF Around
  <2>2. Beginnings(<<"publisher", "mqtt", "retain">>) = {<<"publisher">>, <<"publisher", "mqtt">>}
    <3>1. /\ SubSeq(<<"publisher", "mqtt", "retain">>, 1, 1) = <<"publisher">>
          /\ SubSeq(<<"publisher", "mqtt", "retain">>, 1, 2) = <<"publisher", "mqtt">>
      BY SubTuple, Zenon
    <3>2. Len(<<"publisher", "mqtt", "retain">>) = 3 /\ 1 .. 3 - 1 = {1, 2}
      OBVIOUS
    <3>3. QED
      BY <3>1, <3>2 DEF Beginnings
  <2>3. {PathOrder[m] : m \in {13, 15}} = {<<"publisher">>, <<"publisher", "mqtt">>}
    BY PathRows
  <2>4. QED
    BY <2>1, <2>2, <2>3
<1>19. CASE v = "PUBLISHER_MQTT_HOMEASSISTANT_ENABLED"
  <2>1. Place[v] = 25 /\ KeyOf[v] = <<"publisher", "mqtt", "homeassistant", "enabled">> /\ Around[25] = {13, 15, 24}
    BY <1>19, VariableRows DEF Around
  <2>2. Beginnings(<<"publisher", "mqtt", "homeassistant", "enabled">>) = {<<"publisher">>, <<"publisher", "mqtt">>, <<"publisher", "mqtt", "homeassistant">>}
    <3>1. /\ SubSeq(<<"publisher", "mqtt", "homeassistant", "enabled">>, 1, 1) = <<"publisher">>
          /\ SubSeq(<<"publisher", "mqtt", "homeassistant", "enabled">>, 1, 2) = <<"publisher", "mqtt">>
          /\ SubSeq(<<"publisher", "mqtt", "homeassistant", "enabled">>, 1, 3) = <<"publisher", "mqtt", "homeassistant">>
      BY SubTuple
    <3>2. Len(<<"publisher", "mqtt", "homeassistant", "enabled">>) = 4 /\ 1 .. 4 - 1 = {1, 2, 3}
      OBVIOUS
    <3>3. QED
      BY <3>1, <3>2 DEF Beginnings
  <2>3. {PathOrder[m] : m \in {13, 15, 24}} = {<<"publisher">>, <<"publisher", "mqtt">>, <<"publisher", "mqtt", "homeassistant">>}
    BY PathRows
  <2>4. QED
    BY <2>1, <2>2, <2>3
<1>20. CASE v = "PUBLISHER_MQTT_HOMEASSISTANT_DISCOVERY_PREFIX"
  <2>1. Place[v] = 26 /\ KeyOf[v] = <<"publisher", "mqtt", "homeassistant", "discovery_prefix">> /\ Around[26] = {13, 15, 24}
    BY <1>20, VariableRows DEF Around
  <2>2. Beginnings(<<"publisher", "mqtt", "homeassistant", "discovery_prefix">>) = {<<"publisher">>, <<"publisher", "mqtt">>, <<"publisher", "mqtt", "homeassistant">>}
    <3>1. /\ SubSeq(<<"publisher", "mqtt", "homeassistant", "discovery_prefix">>, 1, 1) = <<"publisher">>
          /\ SubSeq(<<"publisher", "mqtt", "homeassistant", "discovery_prefix">>, 1, 2) = <<"publisher", "mqtt">>
          /\ SubSeq(<<"publisher", "mqtt", "homeassistant", "discovery_prefix">>, 1, 3) = <<"publisher", "mqtt", "homeassistant">>
      BY SubTuple
    <3>2. Len(<<"publisher", "mqtt", "homeassistant", "discovery_prefix">>) = 4 /\ 1 .. 4 - 1 = {1, 2, 3}
      OBVIOUS
    <3>3. QED
      BY <3>1, <3>2 DEF Beginnings
  <2>3. {PathOrder[m] : m \in {13, 15, 24}} = {<<"publisher">>, <<"publisher", "mqtt">>, <<"publisher", "mqtt", "homeassistant">>}
    BY PathRows
  <2>4. QED
    BY <2>1, <2>2, <2>3
<1>21. QED
  BY VariableIsOne, <1>1, <1>2, <1>3, <1>4, <1>5, <1>6, <1>7, <1>8, <1>9, <1>10, <1>11, <1>12, <1>13, <1>14, <1>15, <1>16, <1>17, <1>18, <1>19, <1>20

\* The mappings around a place come before it, each in the next.
LEMMA AroundFacts ==
  ASSUME NEW k \in 1 .. 26
  PROVE  /\ Around[k] \subseteq MappingPlaces /\ (Above[k] # 0 => Above[k] \in Around[k])
         /\ \A m \in Around[k] : Above[m] # 0 => Above[m] \in Around[k]
         /\ \A m \in Around[k] : \E j \in Around[k] \cup {k} : Above[j] = m
<1>1. CASE k = 1
  <2>1. Around[k] = {}
    BY <1>1 DEF Around
  <2>2. Above[1] = 0
    BY PathNumbers
  <2>3. QED
    BY <1>1, <2>1, <2>2 DEF MappingPlaces
<1>2. CASE k = 2
  <2>1. Around[k] = {}
    BY <1>2 DEF Around
  <2>2. Above[2] = 0
    BY PathNumbers
  <2>3. QED
    BY <1>2, <2>1, <2>2 DEF MappingPlaces
<1>3. CASE k = 3
  <2>1. Around[k] = {}
    BY <1>3 DEF Around
  <2>2. Above[3] = 0
    BY PathNumbers
  <2>3. QED
    BY <1>3, <2>1, <2>2 DEF MappingPlaces
<1>4. CASE k = 4
  <2>1. Around[k] = {}
    BY <1>4 DEF Around
  <2>2. Above[4] = 0
    BY PathNumbers
  <2>3. QED
    BY <1>4, <2>1, <2>2 DEF MappingPlaces
<1>5. CASE k = 5
  <2>1. Around[k] = {4}
    BY <1>5 DEF Around
  <2>2. Above[5] = 4 /\ Above[4] = 0
    BY PathNumbers
  <2>3. QED
    BY <1>5, <2>1, <2>2 DEF MappingPlaces
<1>6. CASE k = 6
  <2>1. Around[k] = {4}
    BY <1>6 DEF Around
  <2>2. Above[6] = 4 /\ Above[4] = 0
    BY PathNumbers
  <2>3. QED
    BY <1>6, <2>1, <2>2 DEF MappingPlaces
<1>7. CASE k = 7
  <2>1. Around[k] = {4, 6}
    BY <1>7 DEF Around
  <2>2. Above[7] = 6 /\ Above[4] = 0 /\ Above[6] = 4
    BY PathNumbers
  <2>3. QED
    BY <1>7, <2>1, <2>2 DEF MappingPlaces
<1>8. CASE k = 8
  <2>1. Around[k] = {4, 6}
    BY <1>8 DEF Around
  <2>2. Above[8] = 6 /\ Above[4] = 0 /\ Above[6] = 4
    BY PathNumbers
  <2>3. QED
    BY <1>8, <2>1, <2>2 DEF MappingPlaces
<1>9. CASE k = 9
  <2>1. Around[k] = {4, 6}
    BY <1>9 DEF Around
  <2>2. Above[9] = 6 /\ Above[4] = 0 /\ Above[6] = 4
    BY PathNumbers
  <2>3. QED
    BY <1>9, <2>1, <2>2 DEF MappingPlaces
<1>10. CASE k = 10
  <2>1. Around[k] = {4}
    BY <1>10 DEF Around
  <2>2. Above[10] = 4 /\ Above[4] = 0
    BY PathNumbers
  <2>3. QED
    BY <1>10, <2>1, <2>2 DEF MappingPlaces
<1>11. CASE k = 11
  <2>1. Around[k] = {4, 10}
    BY <1>11 DEF Around
  <2>2. Above[11] = 10 /\ Above[4] = 0 /\ Above[10] = 4
    BY PathNumbers
  <2>3. QED
    BY <1>11, <2>1, <2>2 DEF MappingPlaces
<1>12. CASE k = 12
  <2>1. Around[k] = {4, 10}
    BY <1>12 DEF Around
  <2>2. Above[12] = 10 /\ Above[4] = 0 /\ Above[10] = 4
    BY PathNumbers
  <2>3. QED
    BY <1>12, <2>1, <2>2 DEF MappingPlaces
<1>13. CASE k = 13
  <2>1. Around[k] = {}
    BY <1>13 DEF Around
  <2>2. Above[13] = 0
    BY PathNumbers
  <2>3. QED
    BY <1>13, <2>1, <2>2 DEF MappingPlaces
<1>14. CASE k = 14
  <2>1. Around[k] = {13}
    BY <1>14 DEF Around
  <2>2. Above[14] = 13 /\ Above[13] = 0
    BY PathNumbers
  <2>3. QED
    BY <1>14, <2>1, <2>2 DEF MappingPlaces
<1>15. CASE k = 15
  <2>1. Around[k] = {13}
    BY <1>15 DEF Around
  <2>2. Above[15] = 13 /\ Above[13] = 0
    BY PathNumbers
  <2>3. QED
    BY <1>15, <2>1, <2>2 DEF MappingPlaces
<1>16. CASE k = 16
  <2>1. Around[k] = {13, 15}
    BY <1>16 DEF Around
  <2>2. Above[16] = 15 /\ Above[13] = 0 /\ Above[15] = 13
    BY PathNumbers
  <2>3. QED
    BY <1>16, <2>1, <2>2 DEF MappingPlaces
<1>17. CASE k = 17
  <2>1. Around[k] = {13, 15}
    BY <1>17 DEF Around
  <2>2. Above[17] = 15 /\ Above[13] = 0 /\ Above[15] = 13
    BY PathNumbers
  <2>3. QED
    BY <1>17, <2>1, <2>2 DEF MappingPlaces
<1>18. CASE k = 18
  <2>1. Around[k] = {13, 15}
    BY <1>18 DEF Around
  <2>2. Above[18] = 15 /\ Above[13] = 0 /\ Above[15] = 13
    BY PathNumbers
  <2>3. QED
    BY <1>18, <2>1, <2>2 DEF MappingPlaces
<1>19. CASE k = 19
  <2>1. Around[k] = {13, 15}
    BY <1>19 DEF Around
  <2>2. Above[19] = 15 /\ Above[13] = 0 /\ Above[15] = 13
    BY PathNumbers
  <2>3. QED
    BY <1>19, <2>1, <2>2 DEF MappingPlaces
<1>20. CASE k = 20
  <2>1. Around[k] = {13, 15}
    BY <1>20 DEF Around
  <2>2. Above[20] = 15 /\ Above[13] = 0 /\ Above[15] = 13
    BY PathNumbers
  <2>3. QED
    BY <1>20, <2>1, <2>2 DEF MappingPlaces
<1>21. CASE k = 21
  <2>1. Around[k] = {13, 15}
    BY <1>21 DEF Around
  <2>2. Above[21] = 15 /\ Above[13] = 0 /\ Above[15] = 13
    BY PathNumbers
  <2>3. QED
    BY <1>21, <2>1, <2>2 DEF MappingPlaces
<1>22. CASE k = 22
  <2>1. Around[k] = {13, 15}
    BY <1>22 DEF Around
  <2>2. Above[22] = 15 /\ Above[13] = 0 /\ Above[15] = 13
    BY PathNumbers
  <2>3. QED
    BY <1>22, <2>1, <2>2 DEF MappingPlaces
<1>23. CASE k = 23
  <2>1. Around[k] = {13, 15}
    BY <1>23 DEF Around
  <2>2. Above[23] = 15 /\ Above[13] = 0 /\ Above[15] = 13
    BY PathNumbers
  <2>3. QED
    BY <1>23, <2>1, <2>2 DEF MappingPlaces
<1>24. CASE k = 24
  <2>1. Around[k] = {13, 15}
    BY <1>24 DEF Around
  <2>2. Above[24] = 15 /\ Above[13] = 0 /\ Above[15] = 13
    BY PathNumbers
  <2>3. QED
    BY <1>24, <2>1, <2>2 DEF MappingPlaces
<1>25. CASE k = 25
  <2>1. Around[k] = {13, 15, 24}
    BY <1>25 DEF Around
  <2>2. Above[25] = 24 /\ Above[13] = 0 /\ Above[15] = 13 /\ Above[24] = 15
    BY PathNumbers
  <2>3. QED
    BY <1>25, <2>1, <2>2 DEF MappingPlaces
<1>26. CASE k = 26
  <2>1. Around[k] = {13, 15, 24}
    BY <1>26 DEF Around
  <2>2. Above[26] = 24 /\ Above[13] = 0 /\ Above[15] = 13 /\ Above[24] = 15
    BY PathNumbers
  <2>3. QED
    BY <1>26, <2>1, <2>2 DEF MappingPlaces
<1>27. QED
  BY PlaceIsOne, <1>1, <1>2, <1>3, <1>4, <1>5, <1>6, <1>7, <1>8, <1>9, <1>10, <1>11, <1>12, <1>13, <1>14, <1>15, <1>16, <1>17, <1>18, <1>19, <1>20, <1>21, <1>22, <1>23, <1>24, <1>25, <1>26

\* The places that a document of the environment has.
Given(env)   == {v \in DOMAIN KeyOf : env[v] # Unset}
Present(env) == {Place[v] : v \in Given(env)} \cup UNION {Around[Place[v]] : v \in Given(env)}

\* A document has the places of its values, and those around them.
LEMMA PresentFacts ==
  ASSUME NEW env
  PROVE  /\ Present(env) \subseteq 1 .. 26
         /\ \A k \in Present(env) : Above[k] # 0 => Above[k] \in Present(env)
         /\ \A k \in Present(env) \cap MappingPlaces : \E j \in Present(env) : Above[j] = k
         /\ \A k \in Present(env) \ MappingPlaces : \E v \in Given(env) : k = Place[v]
         /\ \A v \in DOMAIN KeyOf : Place[v] \in Present(env) <=> v \in Given(env)
<1>1. \A v \in Given(env) : v \in DOMAIN KeyOf /\ Place[v] \in 1 .. 26 \ MappingPlaces
  BY VariablePlace DEF Given
<1>2. MappingPlaces \subseteq 1 .. 26
  BY DEF MappingPlaces
<1>3. \A v \in Given(env) : Around[Place[v]] \subseteq MappingPlaces
  BY <1>1, AroundFacts
<1>4. ASSUME NEW k \in Present(env), Above[k] # 0
      PROVE  Above[k] \in Present(env)
  <2>1. CASE \E v \in Given(env) : k = Place[v]
    BY <1>1, <1>4, <2>1, AroundFacts DEF Present
  <2>2. CASE \E v \in Given(env) : k \in Around[Place[v]]
    BY <1>1, <1>4, <2>2, AroundFacts DEF Present
  <2>3. QED
    BY <2>1, <2>2 DEF Present
<1>5. ASSUME NEW k \in Present(env) \cap MappingPlaces
      PROVE  \E j \in Present(env) : Above[j] = k
  <2>1. PICK v \in Given(env) : k \in Around[Place[v]]
    BY <1>1 DEF Present
  <2>2. PICK j \in Around[Place[v]] \cup {Place[v]} : Above[j] = k
    BY <1>1, <2>1, AroundFacts
  <2>3. j \in Present(env)
    BY DEF Present
  <2>4. QED
    BY <2>2, <2>3
<1>6. ASSUME NEW k \in Present(env) \ MappingPlaces
      PROVE  \E v \in Given(env) : k = Place[v]
  BY <1>3 DEF Present
<1>7. ASSUME NEW v \in DOMAIN KeyOf, Place[v] \in Present(env)
      PROVE  v \in Given(env)
  <2>1. Place[v] \notin MappingPlaces
    BY VariablePlace
  <2>2. PICK w \in Given(env) : Place[v] = Place[w]
    BY <1>6, <1>7, <2>1
  <2>3. w = v
    BY <1>1, <2>2, VariablePlace
  <2>4. QED
    BY <2>3
<1>8. QED
  <2>1. Present(env) \subseteq 1 .. 26
    BY <1>1, <1>2, <1>3 DEF Present
  <2>2. \A v \in Given(env) : Place[v] \in Present(env)
    BY DEF Present
  <2>3. QED
    BY <1>4, <1>5, <1>6, <1>7, <2>1, <2>2

MappingNode == [kind |-> "map", text |-> Empty, items |-> <<>>]

\* The paths of the document are those of the places, and what is at each.
LEMMA DocumentPlaces ==
  ASSUME NEW env
  PROVE  /\ DOMAIN DocumentOf(env) = {<<>>} \cup {PathOrder[k] : k \in Present(env)}
         /\ DocumentOf(env)[<<>>] = MappingNode
         /\ \A k \in Present(env) \cap MappingPlaces : DocumentOf(env)[PathOrder[k]] = MappingNode
         /\ \A v \in Given(env) : DocumentOf(env)[PathOrder[Place[v]]] = Leaf(v, env[v])
<1> DEFINE given == Given(env)
           mappings == {<<>>} \cup UNION {Beginnings(KeyOf[v]) : v \in given}
           At(p) == CHOOSE v \in given : KeyOf[v] = p
           paths == mappings \cup {KeyOf[v] : v \in given}
           node(p) == IF p \in mappings THEN MappingNode ELSE Leaf(At(p), env[At(p)])
<1>1. DocumentOf(env) = [p \in paths |-> node(p)]
  BY DEF DocumentOf, Given, Beginnings, MappingNode
<1>2. \A v \in given : v \in DOMAIN KeyOf /\ Place[v] \in 1 .. 26 \ MappingPlaces /\ KeyOf[v] = PathOrder[Place[v]]
  BY VariablePlace DEF Given
<1>3. \A v \in given : Beginnings(KeyOf[v]) = {PathOrder[m] : m \in Around[Place[v]]}
  BY <1>2, BeginningRows
<1>4. mappings = {<<>>} \cup {PathOrder[m] : m \in UNION {Around[Place[v]] : v \in given}}
  <2>1. UNION {Beginnings(KeyOf[v]) : v \in given} = UNION {{PathOrder[m] : m \in Around[Place[v]]} : v \in given}
    <3> HIDE DEF given
    <3> QED
      BY <1>3
  <2>2. UNION {{PathOrder[m] : m \in Around[Place[v]]} : v \in given}
          = {PathOrder[m] : m \in UNION {Around[Place[v]] : v \in given}}
    <3> HIDE DEF given
    <3> QED
      OBVIOUS
  <2>3. QED
    BY <2>1, <2>2
<1>5. paths = {<<>>} \cup {PathOrder[k] : k \in Present(env)}
  BY <1>2, <1>4 DEF Present
<1>6. \A v \in given : Around[Place[v]] \subseteq MappingPlaces /\ Around[Place[v]] \subseteq 1 .. 26
  BY <1>2, AroundFacts DEF MappingPlaces
<1>7. ASSUME NEW v \in given
      PROVE  PathOrder[Place[v]] \notin mappings /\ At(PathOrder[Place[v]]) = v
  <2>1. PathOrder[Place[v]] # <<>>
    <3>1. Len(PathOrder[Place[v]]) \in 1 .. 4
      BY <1>2, PathNesting
    <3>2. Len(<<>>) \notin 1 .. 4
      OBVIOUS
    <3>3. QED
      BY <3>1, <3>2
  <2>2. \A w \in given : \A m \in Around[Place[w]] : PathOrder[m] # PathOrder[Place[v]]
    BY <1>2, <1>6, PathsDiffer
  <2>3. \A w \in given : KeyOf[w] = PathOrder[Place[v]] => w = v
    BY <1>2, PathsDiffer, VariablePlace
  <2>4. KeyOf[v] = PathOrder[Place[v]]
    BY <1>2
  <2>5. At(PathOrder[Place[v]]) = v
    BY <2>3, <2>4
  <2>6. PathOrder[Place[v]] \notin mappings
    BY <1>4, <2>1, <2>2
  <2>7. QED
    BY <2>5, <2>6
<1>8. ASSUME NEW k \in Present(env) \cap MappingPlaces
      PROVE  PathOrder[k] \in mappings
  <2>1. PICK v \in given : k \in Around[Place[v]]
    BY <1>2 DEF Present
  <2>2. QED
    BY <1>4, <2>1
<1>9. <<>> \in mappings
  OBVIOUS
<1>10. \A p \in paths : DocumentOf(env)[p] = node(p)
  <2> HIDE DEF paths, node
  <2> QED
    BY <1>1
<1>11. DOMAIN DocumentOf(env) = paths
  <2> HIDE DEF paths, node
  <2> QED
    BY <1>1
<1>12. \A v \in given : PathOrder[Place[v]] \in paths
  BY <1>2
<1> HIDE DEF paths, mappings, At, given
<1>13. \A k \in Present(env) : PathOrder[k] \in paths
  BY <1>5
<1>14. <<>> \in paths
  BY <1>5
<1>15. QED
  BY <1>5, <1>7, <1>8, <1>9, <1>10, <1>11, <1>12, <1>13, <1>14 DEF given

-----------------------------------------------------------------------------
(***************************************************************************)
(* The lines of a document with the paths of the places P.                 *)
(***************************************************************************)
\* Place 12 has the package names; mappings are not empty, nor are the names.
DocumentTree(P, doc) ==
  /\ P \subseteq 1 .. 26 /\ P # {}
  /\ \A k \in P : Above[k] # 0 => Above[k] \in P
  /\ \A k \in P \cap MappingPlaces : \E j \in P : Above[j] = k
  /\ DOMAIN doc = {<<>>} \cup {PathOrder[k] : k \in P} /\ doc = [p \in DOMAIN doc |-> doc[p]]
  /\ doc[<<>>] = MappingNode
  /\ \A k \in P \cap MappingPlaces : doc[PathOrder[k]] = MappingNode
  /\ 12 \in P => \E s \in Seq(Text) \ {<<>>} :
                   doc[PathOrder[12]] = [kind |-> "list", text |-> Empty, items |-> s]
  /\ \A k \in P \ (MappingPlaces \cup {12}) : \E t \in Text :
       doc[PathOrder[k]] = [kind |-> "string", text |-> t, items |-> <<t>>]

\* The document of an environment is of this kind.
LEMMA DocumentIsTree ==
  ASSUME NEW env, IsEnvironment(env), Given(env) # {}
  PROVE  DocumentTree(Present(env), DocumentOf(env))
<1> DEFINE P == Present(env)
           doc == DocumentOf(env)
<1>1. P # {}
  BY DEF Present
<1>2. Given(env) \subseteq DOMAIN KeyOf
  BY DEF Given
<1>3. Place["COLLECTOR_PACKAGE_NAMES"] = 12 /\ "COLLECTOR_PACKAGE_NAMES" \in DOMAIN KeyOf
  BY VariableRows DEF Place
<1>4. ASSUME 12 \in P
      PROVE  \E s \in Seq(Text) \ {<<>>} :
                   doc[PathOrder[12]] = [kind |-> "list", text |-> Empty, items |-> s]
  <2>1. "COLLECTOR_PACKAGE_NAMES" \in Given(env)
    BY <1>3, <1>4, PresentFacts
  <2>2. env["COLLECTOR_PACKAGE_NAMES"] \in Seq(Text) \ {<<>>}
    BY <2>1 DEF Given, IsEnvironment
  <2>3. doc[PathOrder[12]] = Leaf("COLLECTOR_PACKAGE_NAMES", env["COLLECTOR_PACKAGE_NAMES"])
    BY <1>3, <2>1, DocumentPlaces
  <2>4. QED
    BY <2>2, <2>3 DEF Leaf
<1>5. ASSUME NEW k \in P \ (MappingPlaces \cup {12})
      PROVE  \E t \in Text : doc[PathOrder[k]] = [kind |-> "string", text |-> t, items |-> <<t>>]
  <2>1. PICK v \in Given(env) : k = Place[v]
    BY PresentFacts
  <2>2. v # "COLLECTOR_PACKAGE_NAMES" /\ v \in DOMAIN KeyOf
    BY <1>2, <1>3, <1>5, <2>1
  <2>3. env[v] \in Text
    BY <2>1, <2>2 DEF Given, IsEnvironment
  <2>4. doc[PathOrder[k]] = Leaf(v, env[v])
    BY <2>1, DocumentPlaces
  <2>5. QED
    BY <2>2, <2>3, <2>4 DEF Leaf
<1>6. /\ P \subseteq 1 .. 26
      /\ \A k \in P : Above[k] # 0 => Above[k] \in P
      /\ \A k \in P \cap MappingPlaces : \E j \in P : Above[j] = k
  BY PresentFacts
<1>7. /\ DOMAIN doc = {<<>>} \cup {PathOrder[k] : k \in P}
      /\ doc[<<>>] = MappingNode
      /\ \A k \in P \cap MappingPlaces : doc[PathOrder[k]] = MappingNode
  BY DocumentPlaces
<1>f. doc = [p \in DOMAIN doc |-> doc[p]]
  BY DEF DocumentOf
<1> HIDE DEF P, doc
<1>8. DocumentTree(P, doc)
  BY <1>1, <1>f, <1>4, <1>5, <1>6, <1>7 DEF DocumentTree
<1>9. QED
  BY <1>8 DEF P, doc

Names(doc) == doc[PathOrder[12]].items

LineCount(P, doc, k) == IF k \notin P THEN 0 ELSE IF k = 12 THEN 1 + Len(Names(doc)) ELSE 1

\* The line of the key at place k, and the line of the j-th name.
IsKeyLine(l, doc, k) ==
  /\ l.indent = 2 * (Len(PathOrder[k]) - 1) /\ l.form = "entry"
  /\ l.key = PathOrder[k][Len(PathOrder[k])]
  /\ l.value = IF k \in MappingPlaces \cup {12} THEN Nothing ELSE InQuotes(doc[PathOrder[k]].text)

IsNameLine(l, doc, j) ==
  l.indent = 6 /\ l.form = "item" /\ l.key = Nothing /\ l.value = InQuotes(Names(doc)[j])

\* The lines of place k follow line at[k].
LaidOut(P, doc, ls, at) ==
  /\ at \in [1 .. 27 -> Nat] /\ at[1] = 0 /\ Len(ls) = at[27]
  /\ \A k \in 1 .. 26 : at[k + 1] = at[k] + LineCount(P, doc, k)
  /\ \A j, k \in 1 .. 27 : j <= k => at[j] <= at[k]
  /\ \A k \in P : IsKeyLine(ls[at[k] + 1], doc, k)
  /\ 12 \in P => \A j \in 1 .. Len(Names(doc)) : IsNameLine(ls[at[12] + 1 + j], doc, j)
  /\ \A i \in 1 .. Len(ls) :
       \/ \E k \in P : i = at[k] + 1
       \/ 12 \in P /\ \E j \in 1 .. Len(Names(doc)) : i = at[12] + 1 + j

\* The lines of one place.
LEMMA NodeIsLaidOut ==
  ASSUME NEW P, NEW doc, DocumentTree(P, doc), NEW k \in P
  PROVE  LET s == NodeLines(PathOrder[k], doc[PathOrder[k]])
         IN  /\ s \in RawLines /\ Len(s) = LineCount(P, doc, k)
             /\ IsKeyLine(s[1], doc, k)
             /\ k = 12 => \A j \in 1 .. Len(Names(doc)) : IsNameLine(s[1 + j], doc, j)
<1> DEFINE p == PathOrder[k]
           R == {l \in RawLine : l.form = "item" => l.value # Nothing}
           x(value) == YamlLine(Len(p) - 1, "entry", p[Len(p)], value)
<1>1. k \in 1 .. 26 /\ p[Len(p)] \in Keys /\ Len(p) \in 1 .. 4
  BY PathKeys, PathNesting DEF DocumentTree
<1>2. \A value \in Scalar \cup {Nothing} : x(value) \in R /\ <<x(value)>> \in Seq(R)
  <2>1. ASSUME NEW value \in Scalar \cup {Nothing}
        PROVE  x(value) \in R
    <3>1. 2 * (Len(p) - 1) \in Nat /\ "entry" \in Forms /\ "entry" # "item"
      <4>1. \A l \in 1 .. 4 : 2 * (l - 1) \in Nat
        OBVIOUS
      <4> HIDE DEF p
      <4>2. 2 * (Len(p) - 1) \in Nat
        BY <1>1, <4>1
      <4>3. QED
        BY <4>2 DEF Forms
    <3>2. x(value) = [indent |-> 2 * (Len(p) - 1), form |-> "entry", key |-> p[Len(p)], value |-> value]
      BY DEF YamlLine
    <3>3. x(value) \in RawLine /\ x(value).form = "entry"
      <4> HIDE DEF p
      <4> QED
        BY <1>1, <3>1, <3>2 DEF RawLine
    <3>4. QED
      BY <3>1, <3>3
  <2> HIDE DEF R, x
  <2>2. QED
    BY <2>1
<1>3. \A t \in Text : InQuotes(t) \in Scalar
  BY DEF InQuotes, Scalar, Quotes
<1>4. CASE k \in MappingPlaces
  <2>1. doc[p] = MappingNode /\ k # 12
    BY <1>4 DEF DocumentTree, MappingPlaces
  <2>2. NodeLines(p, doc[p]) = <<x(Nothing)>>
    BY <2>1 DEF NodeLines, MappingNode
  <2>3. IsKeyLine(x(Nothing), doc, k)
    BY <1>4 DEF IsKeyLine, YamlLine
  <2>4. LineCount(P, doc, k) = 1
    BY <2>1 DEF LineCount
  <2> HIDE DEF x, p
  <2>5. QED
    BY <1>2, <2>1, <2>2, <2>3, <2>4 DEF RawLines, p
<1>5. CASE k = 12
  <2>1. PICK s \in Seq(Text) \ {<<>>} : doc[p] = [kind |-> "list", text |-> Empty, items |-> s]
    BY <1>5 DEF DocumentTree
  <2> DEFINE y == [j \in 1 .. Len(s) |-> YamlLine(Len(p), "item", Nothing, InQuotes(s[j]))]
  <2>2. NodeLines(p, doc[p]) = <<x(Nothing)>> \o y
    <3>1. DOMAIN s = 1 .. Len(s)
      OBVIOUS
    <3>2. QED
      BY <2>1, <3>1 DEF NodeLines
  <2>3. Names(doc) = s /\ LineCount(P, doc, k) = 1 + Len(s) /\ Len(s) \in Nat /\ Len(p) = 3
    <3>1. Names(doc) = s
      BY <1>5, <2>1 DEF Names
    <3>2. Len(p) = 3
      BY <1>5, PathEnds
    <3>3. QED
      BY <1>5, <3>1, <3>2 DEF LineCount
  <2>4. IsKeyLine(x(Nothing), doc, k)
    BY <1>5 DEF IsKeyLine, YamlLine
  <2>5. ASSUME NEW j \in 1 .. Len(s)
        PROVE  YamlLine(Len(p), "item", Nothing, InQuotes(s[j])) \in R /\ IsNameLine(y[j], doc, j)
    <3>1. s[j] \in Text
      BY <2>3
    <3>2. InQuotes(s[j]) \in Scalar
      BY <1>3, <3>1
    <3>3. InQuotes(s[j]) # Nothing
      BY <3>2, DocumentAssumption
    <3>4. YamlLine(3, "item", Nothing, InQuotes(s[j])) \in R
      BY <3>2, <3>3 DEF YamlLine, RawLine, Forms
    <3>5. IsNameLine(YamlLine(3, "item", Nothing, InQuotes(s[j])), doc, j)
      BY <2>3 DEF IsNameLine, YamlLine
    <3>6. y[j] = YamlLine(3, "item", Nothing, InQuotes(s[j]))
      BY <2>3
    <3>7. QED
      BY <2>3, <3>4, <3>5, <3>6
  <2>6. y \in Seq(R) /\ Len(y) = Len(s)
    <3> HIDE DEF R
    <3>1. y \in [1 .. Len(s) -> R]
      BY <2>5
    <3>2. QED
      BY <2>3, <3>1
  <2> HIDE DEF x, p, y, R
  <2>7. <<x(Nothing)>> \in Seq(R) /\ x(Nothing) \in R
    BY <1>2
  <2>8. LET z == <<x(Nothing)>> \o y
        IN  /\ z \in Seq(R) /\ Len(z) = 1 + Len(s) /\ z[1] = x(Nothing)
            /\ \A j \in 1 .. Len(s) : z[1 + j] = y[j]
    BY <2>3, <2>6, <2>7
  <2>9. QED
    BY <2>2, <2>3, <2>4, <2>5, <2>8 DEF RawLines, p, R
<1>6. CASE k \notin MappingPlaces \cup {12}
  <2>1. PICK t \in Text : doc[p] = [kind |-> "string", text |-> t, items |-> <<t>>]
    BY <1>6 DEF DocumentTree
  <2>2. NodeLines(p, doc[p]) = <<x(InQuotes(t))>>
    BY <2>1 DEF NodeLines
  <2>3. IsKeyLine(x(InQuotes(t)), doc, k)
    BY <1>6, <2>1 DEF IsKeyLine, YamlLine
  <2>4. LineCount(P, doc, k) = 1 /\ k # 12
    BY <1>6 DEF LineCount
  <2>5. InQuotes(t) \in Scalar
    BY <1>3
  <2> HIDE DEF x, p
  <2>6. QED
    BY <1>2, <2>2, <2>3, <2>4, <2>5 DEF RawLines, p
<1>7. QED
  BY <1>4, <1>5, <1>6

\* The lines of a document, and where each part of it is.
LEMMA YamlLaidOut ==
  ASSUME NEW P, NEW doc, DocumentTree(P, doc)
  PROVE  /\ YamlOf(doc) \in RawLines
         /\ \E at : LaidOut(P, doc, YamlOf(doc), at)
<1> DEFINE R == {l \in RawLine : l.form = "item" => l.value # Nothing}
           f == [k \in 1 .. 26 |-> IF k \in P THEN NodeLines(PathOrder[k], doc[PathOrder[k]]) ELSE <<>>]
           s == FlattenSeq(f)
<1>1. YamlOf(doc) = s
  <2>1. DOMAIN PathOrder = 1 .. 26
    BY PathRows
  <2>2. ASSUME NEW k \in 1 .. 26
        PROVE  PathOrder[k] \in DOMAIN doc <=> k \in P
    <3>1. DOMAIN doc = {<<>>} \cup {PathOrder[j] : j \in P} /\ P \subseteq 1 .. 26
      BY DEF DocumentTree
    <3>2. Len(PathOrder[k]) \in 1 .. 4
      BY PathNesting
    <3>3. PathOrder[k] # <<>>
      BY <3>2
    <3>4. \A j \in P : PathOrder[j] = PathOrder[k] => j = k
      BY <3>1, PathsDiffer
    <3>5. QED
      BY <3>1, <3>3, <3>4
  <2>3. [k \in DOMAIN PathOrder |->
           IF PathOrder[k] \in DOMAIN doc THEN NodeLines(PathOrder[k], doc[PathOrder[k]]) ELSE <<>>] = f
    BY <2>1, <2>2
  <2>4. QED
    BY <2>3 DEF YamlOf
<1>2. ASSUME NEW k \in 1 .. 26
      PROVE  f[k] \in Seq(R) /\ Len(f[k]) = LineCount(P, doc, k)
  <2>1. CASE k \in P
    BY <2>1, NodeIsLaidOut DEF RawLines
  <2>2. CASE k \notin P
    <3>1. f[k] = <<>>
      BY <2>2
    <3> HIDE DEF f, R
    <3>2. QED
      BY <2>2, <3>1 DEF LineCount
  <2>3. QED
    BY <2>1, <2>2
<1>3. \A k \in P : k \in 1 .. 26 /\ f[k] = NodeLines(PathOrder[k], doc[PathOrder[k]])
  BY DEF DocumentTree
<1>4. f \in [1 .. 26 -> Seq(R)]
  <2>1. DOMAIN f = 1 .. 26 /\ f = [k \in 1 .. 26 |-> f[k]]
    OBVIOUS
  <2> HIDE DEF f, R
  <2>2. QED
    BY <1>2, <2>1
<1> HIDE DEF f, R
<1>5. s \in Seq(R)
  BY <1>4, FlattenTyped
<1>6. PICK at : at \in [1 .. 26 + 1 -> Nat] /\ Places(26, f, s, at)
  BY <1>4, FlattenPlaces
<1>n. at \in [1 .. 27 -> Nat]
  BY <1>6
<1>m. \A k \in 1 .. 27 : at[k] \in Nat
  BY <1>n
<1>7. \A i \in 1 .. Len(s) : \E k \in 1 .. 26 : \E o \in 1 .. Len(f[k]) : i = at[k] + o
  <2>1. Covered(26, f, s, at)
    <3> HIDE DEF s
    <3> QED
      BY <1>4, <1>5, <1>6, PlacesCover
  <2>2. QED
    BY <2>1 DEF Covered
<1> HIDE DEF s
<1>8. at \in [1 .. 27 -> Nat] /\ at[1] = 0 /\ Len(s) = at[27]
  BY <1>6, <1>n DEF Places
<1>9. \A k \in 1 .. 26 : at[k + 1] = at[k] + LineCount(P, doc, k)
  BY <1>2, <1>6 DEF Places
<1>10. \A j, k \in 1 .. 27 : j <= k => at[j] <= at[k]
  <2>1. \A j, k \in 1 .. 26 + 1 : j <= k => at[j] <= at[k]
    BY <1>6 DEF Places
  <2>2. 26 + 1 = 27
    OBVIOUS
  <2>3. QED
    BY <2>1, <2>2
<1>11. \A k \in 1 .. 26 : \A o \in 1 .. Len(f[k]) : s[at[k] + o] = f[k][o]
  BY <1>6 DEF Places
<1>12. 12 \in P => Len(Names(doc)) \in Nat
  <2>1. SUFFICES ASSUME 12 \in P PROVE Len(Names(doc)) \in Nat
    OBVIOUS
  <2>2. PICK t \in Seq(Text) \ {<<>>} : doc[PathOrder[12]] = [kind |-> "list", text |-> Empty, items |-> t]
    BY <2>1 DEF DocumentTree
  <2>3. QED
    BY <2>2 DEF Names
<1>13. ASSUME NEW k \in P
       PROVE  /\ Len(f[k]) = IF k = 12 THEN 1 + Len(Names(doc)) ELSE 1
              /\ IsKeyLine(s[at[k] + 1], doc, k)
              /\ k = 12 => \A j \in 1 .. Len(Names(doc)) : IsNameLine(s[at[k] + (1 + j)], doc, j)
  <2>1. k \in 1 .. 26 /\ Len(f[k]) = IF k = 12 THEN 1 + Len(Names(doc)) ELSE 1
    BY <1>2, <1>3 DEF LineCount
  <2>2. 1 \in 1 .. Len(f[k])
    BY <1>12, <2>1
  <2>3. IsKeyLine(f[k][1], doc, k)
    BY <1>3, NodeIsLaidOut
  <2>4. s[at[k] + 1] = f[k][1]
    BY <1>11, <2>1, <2>2
  <2>5. k = 12 => \A j \in 1 .. Len(Names(doc)) : IsNameLine(f[k][1 + j], doc, j)
    BY <1>3, NodeIsLaidOut
  <2>6. ASSUME k = 12, NEW j \in 1 .. Len(Names(doc))
        PROVE  s[at[k] + (1 + j)] = f[k][1 + j]
    <3>1. 1 + j \in 1 .. Len(f[k])
      BY <1>12, <2>1, <2>6
    <3>2. QED
      BY <1>11, <2>1, <3>1
  <2>7. QED
    BY <2>1, <2>3, <2>4, <2>5, <2>6
<1>14. ASSUME 12 \in P, NEW j \in 1 .. Len(Names(doc))
       PROVE  IsNameLine(s[at[12] + 1 + j], doc, j)
  <2>1. at[12] \in Nat /\ j \in Nat
    BY <1>12, <1>14, <1>m
  <2>2. at[12] + 1 + j = at[12] + (1 + j)
    BY <2>1
  <2>3. QED
    BY <1>13, <1>14, <2>2
<1>15. ASSUME NEW i \in 1 .. Len(s)
       PROVE  \/ \E k \in P : i = at[k] + 1
              \/ 12 \in P /\ \E j \in 1 .. Len(Names(doc)) : i = at[12] + 1 + j
  <2>1. PICK k \in 1 .. 26 : \E o \in 1 .. Len(f[k]) : i = at[k] + o
    BY <1>7
  <2>2. PICK o \in 1 .. Len(f[k]) : i = at[k] + o
    BY <2>1
  <2>3. k \in P
    <3>1. k \notin P => Len(f[k]) = 0
      BY <1>2 DEF LineCount
    <3>2. QED
      BY <2>2, <3>1
  <2>4. at[k] \in Nat
    <3>1. k \in 1 .. 27
      OBVIOUS
    <3>2. QED
      BY <1>m, <3>1
  <2>5. CASE o = 1
    BY <2>2, <2>3, <2>5
  <2>6. CASE o # 1
    <3>1. k = 12 /\ Len(f[k]) = 1 + Len(Names(doc)) /\ Len(Names(doc)) \in Nat
      BY <1>12, <1>13, <2>2, <2>3, <2>6
    <3>2. o - 1 \in 1 .. Len(Names(doc)) /\ i = at[k] + 1 + (o - 1)
      BY <2>2, <2>4, <2>6, <3>1
    <3>3. QED
      BY <2>3, <3>1, <3>2
  <2>7. QED
    BY <2>5, <2>6
<1>16. LaidOut(P, doc, s, at)
  BY <1>8, <1>9, <1>10, <1>13, <1>14, <1>15 DEF LaidOut
<1>17. QED
  BY <1>1, <1>5, <1>6, <1>16 DEF RawLines, R

\* Every line of it is a key or a name, and the first one is not indented.
LEMMA LaidOutForms ==
  ASSUME NEW P, NEW doc, DocumentTree(P, doc), NEW ls, NEW at, LaidOut(P, doc, ls, at)
  PROVE  /\ \A i \in 1 .. Len(ls) : ls[i].form \in {"entry", "item"}
         /\ Len(ls) > 0 /\ ls[1].indent = 0 /\ ls[1].form = "entry"
<1>n. \A k \in 1 .. 27 : at[k] \in Nat
  BY DEF LaidOut
<1>1. \A i \in 1 .. Len(ls) : ls[i].form \in {"entry", "item"}
  <2>1. SUFFICES ASSUME NEW i \in 1 .. Len(ls)
                 PROVE  ls[i].form \in {"entry", "item"}
    OBVIOUS
  <2>2. CASE \E k \in P : i = at[k] + 1
    <3>1. PICK k \in P : i = at[k] + 1
      BY <2>2
    <3>2. IsKeyLine(ls[at[k] + 1], doc, k)
      BY DEF LaidOut
    <3>3. QED
      BY <3>1, <3>2 DEF IsKeyLine
  <2>3. CASE 12 \in P /\ \E j \in 1 .. Len(Names(doc)) : i = at[12] + 1 + j
    <3>1. PICK j \in 1 .. Len(Names(doc)) : i = at[12] + 1 + j
      BY <2>3
    <3>2. IsNameLine(ls[at[12] + 1 + j], doc, j)
      BY <2>3 DEF LaidOut
    <3>3. QED
      BY <3>1, <3>2 DEF IsNameLine
  <2>4. QED
    BY <2>2, <2>3 DEF LaidOut
<1>2. P \subseteq 1 .. 26 /\ P # {}
  BY DEF DocumentTree
<1>3. PICK k \in P : \A j \in P : k <= j
  <2>1. P \subseteq Nat
    BY <1>2
  <2>2. QED
    BY <1>2, <2>1, LeastNumber
<1>4. Above[k] = 0
  <2>1. Above[k] # 0 => Above[k] \in P
    BY DEF DocumentTree
  <2>2. Above[k] \in 0 .. k - 1 /\ k \in 1 .. 26
    BY <1>2, PathNesting
  <2>3. QED
    BY <1>3, <2>1, <2>2
<1>5. Len(PathOrder[k]) = 1
  <2>1. k \in 1 .. 26
    BY <1>2
  <2>2. QED
    BY <1>4, <2>1, PathNesting
<1>6. at[k] = 0
  <2> DEFINE G == {m \in 0 .. k - 1 : at[m + 1] = 0}
  <2>1. k - 1 \in Nat /\ k \in 1 .. 26
    BY <1>2
  <2>2. 0 \in G
    BY <2>1 DEF LaidOut
  <2>3. ASSUME NEW m \in 0 .. k - 1 - 1, m \in G
        PROVE  m + 1 \in G
    <3>1. m + 1 \in 1 .. 26 /\ ~ k <= m + 1 /\ m \in Nat /\ m + 1 \in 0 .. k - 1
      BY <2>1
    <3>2. m + 1 \notin P
      BY <1>3, <3>1
    <3>3. at[m + 1 + 1] = at[m + 1] + LineCount(P, doc, m + 1)
      BY <3>1 DEF LaidOut
    <3>4. LineCount(P, doc, m + 1) = 0
      BY <3>2 DEF LineCount
    <3>5. at[m + 1] = 0
      BY <2>3
    <3>6. QED
      BY <3>1, <3>3, <3>4, <3>5
  <2>4. \A m \in 0 .. k - 1 : m \in G
    <3> HIDE DEF G
    <3> QED
      BY <2>1, <2>2, <2>3, UpTo
  <2>5. k - 1 \in 0 .. k - 1 /\ k - 1 + 1 = k
    BY <2>1
  <2>6. QED
    BY <2>4, <2>5
<1>7. IsKeyLine(ls[1], doc, k)
  <2>1. at[k] + 1 = 1
    BY <1>6
  <2>2. IsKeyLine(ls[at[k] + 1], doc, k)
    BY DEF LaidOut
  <2>3. QED
    BY <2>1, <2>2
<1>8. Len(ls) > 0
  <2>1. k \in 1 .. 26 /\ k + 1 \in 1 .. 27 /\ 27 \in 1 .. 27 /\ k + 1 <= 27
    BY <1>2
  <2>2. at[k + 1] <= at[27] /\ at[k + 1] = 0 + LineCount(P, doc, k)
    BY <1>6, <2>1 DEF LaidOut
  <2>3. LineCount(P, doc, k) \in Nat \ {0}
    <3>1. CASE k = 12
      <4>1. PICK t \in Seq(Text) \ {<<>>} : doc[PathOrder[12]] = [kind |-> "list", text |-> Empty, items |-> t]
        BY <3>1 DEF DocumentTree
      <4>2. Len(Names(doc)) \in Nat
        BY <4>1 DEF Names
      <4>3. QED
        BY <3>1, <4>2 DEF LineCount
    <3>2. CASE k # 12
      BY <3>2 DEF LineCount
    <3>3. QED
      BY <3>1, <3>2
  <2>4. at[27] = Len(ls)
    BY DEF LaidOut
  <2>5. at[k + 1] \in Nat /\ at[27] \in Nat
    BY <1>n, <2>1
  <2>6. QED
    BY <2>2, <2>3, <2>4, <2>5
<1>9. ls[1].indent = 0 /\ ls[1].form = "entry"
  BY <1>5, <1>7 DEF IsKeyLine
<1>10. QED
  BY <1>1, <1>8, <1>9

\* The least number up to n.
LEMMA LeastUpTo ==
  ASSUME NEW n \in Nat, n > 0
  PROVE  Min(1 .. n) = 1 /\ 1 .. n # {}
<1>1. 1 .. n \subseteq Nat /\ 1 \in 1 .. n
  OBVIOUS
<1>2. Min(1 .. n) \in 1 .. n /\ \A j \in 1 .. n : Min(1 .. n) <= j
  BY <1>1, LeastIsMin
<1>3. QED
  BY <1>1, <1>2

\* A document that needs no trimming.
LEMMA AlreadyTrimmed ==
  ASSUME NEW raw \in RawLines, Len(raw) > 0, raw[1].indent = 0,
         \A i \in 1 .. Len(raw) : raw[i].form \in {"entry", "item"}
  PROVE  TrimDocument(raw) = raw
<1> DEFINE R == {l \in RawLine : l.form = "item" => l.value # Nothing}
           written == {i \in DOMAIN raw : raw[i].form # "blank"}
           rest == SubSeq(raw, Min(written), Len(raw))
           first == [rest[1] EXCEPT !.indent = 0]
<1>1. raw \in Seq(R) /\ Len(raw) \in Nat /\ DOMAIN raw = 1 .. Len(raw)
  BY DEF RawLines
<1>2. written = 1 .. Len(raw)
  BY <1>1
<1>3. Min(written) = 1 /\ written # {}
  <2> HIDE DEF written
  <2> QED
    BY <1>1, <1>2, LeastUpTo
<1>4. rest = raw
  <2>1. rest = SubSeq(raw, 1, Len(raw))
    BY <1>3
  <2> HIDE DEF rest, R
  <2>2. QED
    BY <1>1, <2>1
<1>5. first = raw[1]
  <2>1. raw[1] \in R
    <3> HIDE DEF R
    <3> QED
      BY <1>1
  <2>2. raw[1] \in [indent : Nat, form : Forms, key : Keys \cup {Nothing}, value : Scalar \cup {Nothing}]
    BY <2>1 DEF RawLine
  <2>3. [raw[1] EXCEPT !.indent = 0] = raw[1]
    BY <2>2
  <2>4. QED
    BY <1>4, <2>3
<1>6. TrimDocument(raw) = <<first>> \o Tail(rest)
  BY <1>3 DEF TrimDocument
<1> HIDE DEF first, rest, R
<1>7. <<raw[1]>> \o Tail(raw) = raw
  <2>1. raw[1] \in R /\ Tail(raw) \in Seq(R) /\ Len(Tail(raw)) = Len(raw) - 1
    BY <1>1
  <2>2. <<raw[1]>> \in Seq(R)
    BY <2>1
  <2> DEFINE z == <<raw[1]>> \o Tail(raw)
  <2>3. z \in Seq(R) /\ Len(z) = Len(raw) /\ DOMAIN z = 1 .. Len(raw)
    BY <1>1, <2>1, <2>2
  <2>4. ASSUME NEW i \in 1 .. Len(raw)
        PROVE  z[i] = raw[i]
    BY <1>1, <2>1, <2>2, <2>4
  <2>5. raw = [i \in 1 .. Len(raw) |-> raw[i]] /\ z = [i \in 1 .. Len(raw) |-> z[i]]
    BY <1>1, <2>3, SeqEqual
  <2> HIDE DEF z
  <2>6. z = raw
    BY <2>4, <2>5
  <2>7. QED
    BY <2>6 DEF z
<1>8. QED
  BY <1>4, <1>5, <1>6, <1>7

\* What the parser gets of the lines of a document.
LEMMA WrittenLaidOut ==
  ASSUME NEW P, NEW doc, DocumentTree(P, doc), document = YamlOf(doc)
  PROVE  /\ IsDocument(document) /\ Unscanned(TrimDocument(document)) = {}
         /\ Written \in Lines /\ \E at : LaidOut(P, doc, Written, at)
<1> DEFINE R == {l \in RawLine : l.form = "item" => l.value # Nothing}
           V == {l \in LineRecord : l.form = "item" => l.value # Nothing}
           raw == document
           n == Len(raw)
           e == [i \in 1 .. n |-> [number |-> i, indent |-> raw[i].indent, form |-> raw[i].form,
                                   key |-> raw[i].key, value |-> raw[i].value]]
<1>1. raw \in RawLines
  BY YamlLaidOut
<1>2. PICK at : LaidOut(P, doc, raw, at)
  BY YamlLaidOut
<1>3. /\ \A i \in 1 .. n : raw[i].form \in {"entry", "item"}
      /\ n > 0 /\ raw[1].indent = 0
  BY <1>2, LaidOutForms
<1>4. raw \in Seq(R) /\ n \in Nat /\ DOMAIN raw = 1 .. n
  BY <1>1 DEF RawLines
<1>5. TrimDocument(document) = raw
  BY <1>1, <1>3, AlreadyTrimmed
<1>6. Unscanned(raw) = {}
  <2>1. \A i \in 1 .. n : raw[i].form \notin {"tab", "long"}
    BY <1>3
  <2>2. QED
    BY <1>4, <2>1 DEF Unscanned
<1>7. e \in [1 .. n -> V]
  <2>1. ASSUME NEW i \in 1 .. n
        PROVE  e[i] \in V
    <3>1. raw[i] \in R
      <4> HIDE DEF R
      <4> QED
        BY <1>4
    <3>2. i \in Nat /\ raw[i] \in RawLine /\ (raw[i].form = "item" => raw[i].value # Nothing)
      BY <1>4, <3>1
    <3>3. e[i] = [number |-> i, indent |-> raw[i].indent, form |-> raw[i].form,
                  key |-> raw[i].key, value |-> raw[i].value]
      OBVIOUS
    <3>4. e[i] \in LineRecord /\ e[i].form = raw[i].form /\ e[i].value = raw[i].value
      <4> HIDE DEF e, raw
      <4> QED
        BY <3>2, <3>3 DEF RawLine, LineRecord
    <3> HIDE DEF e, raw
    <3>5. QED
      BY <3>2, <3>4
  <2>2. e = [i \in 1 .. n |-> e[i]]
    OBVIOUS
  <2> HIDE DEF e, V
  <2>3. QED
    BY <2>1, <2>2
<1>8. tokenizeConfigLines(raw) = FlattenSeq([i \in 1 .. n |-> <<e[i]>>])
  <2>1. \A i \in 1 .. n : raw[i].form \notin {"blank", "comment"}
    BY <1>3
  <2>2. [i \in DOMAIN raw |->
           IF raw[i].form \in {"blank", "comment"} THEN <<>>
           ELSE <<[number |-> i, indent |-> raw[i].indent, form |-> raw[i].form,
                   key |-> raw[i].key, value |-> raw[i].value]>>]
          = [i \in 1 .. n |-> <<e[i]>>]
    BY <1>4, <2>1
  <2>3. QED
    BY <2>2 DEF tokenizeConfigLines
<1>9. Written = e
  <2>1. FlattenSeq([i \in 1 .. n |-> <<e[i]>>]) = e
    <3> HIDE DEF e, V
    <3> QED
      BY <1>4, <1>7, FlattenSingletons
  <2>2. QED
    BY <1>5, <1>8, <2>1 DEF Written
<1>10. Written \in Lines /\ Len(Written) = n
  <2> HIDE DEF e, V
  <2>1. e \in Seq(V) /\ Len(e) = n
    BY <1>4, <1>7
  <2>2. QED
    BY <1>9, <2>1 DEF Lines, V
<1>11. \A i \in 1 .. n : /\ Written[i].indent = raw[i].indent /\ Written[i].form = raw[i].form
                         /\ Written[i].key = raw[i].key /\ Written[i].value = raw[i].value
  BY <1>9
<1>12. LaidOut(P, doc, Written, at)
  <2> HIDE DEF e, raw, R, V
  <2>1. \A k \in 1 .. 27 : at[k] \in Nat
    BY <1>2 DEF LaidOut
  <2>2. P \subseteq 1 .. 26
    BY DEF DocumentTree
  <2>3. 12 \in P => Len(Names(doc)) \in Nat
    <3>1. SUFFICES ASSUME 12 \in P PROVE Len(Names(doc)) \in Nat
      OBVIOUS
    <3>2. PICK t \in Seq(Text) \ {<<>>} : doc[PathOrder[12]] = [kind |-> "list", text |-> Empty, items |-> t]
      BY <3>1 DEF DocumentTree
    <3>3. QED
      BY <3>2 DEF Names
  <2>4. \A k \in 1 .. 26 : /\ k \in 1 .. 27 /\ k + 1 \in 1 .. 27 /\ k + 1 <= 27 /\ 27 \in 1 .. 27
                           /\ at[k + 1] <= at[27] /\ at[27] = n /\ at[k + 1] = at[k] + LineCount(P, doc, k)
    <3>1. \A k \in 1 .. 26 : k \in 1 .. 27 /\ k + 1 \in 1 .. 27 /\ k + 1 <= 27 /\ 27 \in 1 .. 27
      OBVIOUS
    <3>2. QED
      BY <1>2, <3>1 DEF LaidOut
  <2>5. ASSUME NEW k \in P
        PROVE  IsKeyLine(Written[at[k] + 1], doc, k)
    <3>1. at[k] + 1 \in 1 .. n
      <4>1. LineCount(P, doc, k) \in Nat \ {0}
        BY <2>3 DEF LineCount
      <4>2. k \in 1 .. 26 /\ k + 1 \in 1 .. 27 /\ k \in 1 .. 27
        BY <2>2
      <4>3. at[k] \in Nat /\ at[k + 1] \in Nat /\ at[k + 1] <= n /\ at[k + 1] = at[k] + LineCount(P, doc, k)
        BY <2>1, <2>4, <4>2
      <4>4. QED
        BY <1>4, <4>1, <4>3
    <3>2. IsKeyLine(raw[at[k] + 1], doc, k)
      BY <1>2 DEF LaidOut
    <3>3. QED
      BY <1>11, <3>1, <3>2 DEF IsKeyLine
  <2>6. ASSUME 12 \in P, NEW j \in 1 .. Len(Names(doc))
        PROVE  IsNameLine(Written[at[12] + 1 + j], doc, j)
    <3>1. at[12] + 1 + j \in 1 .. n
      <4>1. LineCount(P, doc, 12) = 1 + Len(Names(doc)) /\ Len(Names(doc)) \in Nat
        BY <2>3, <2>6 DEF LineCount
      <4>2. 12 \in 1 .. 26 /\ 12 + 1 \in 1 .. 27 /\ 12 \in 1 .. 27
        OBVIOUS
      <4>3. at[12] \in Nat /\ at[12 + 1] \in Nat /\ at[12 + 1] <= n /\ at[12 + 1] = at[12] + LineCount(P, doc, 12)
        BY <2>1, <2>4, <4>2
      <4>4. QED
        BY <1>4, <4>1, <4>3
    <3>2. IsNameLine(raw[at[12] + 1 + j], doc, j)
      BY <1>2, <2>6 DEF LaidOut
    <3>3. QED
      BY <1>11, <3>1, <3>2 DEF IsNameLine
  <2>7. QED
    BY <1>2, <1>10, <2>5, <2>6 DEF LaidOut
<1>13. QED
  BY <1>1, <1>5, <1>6, <1>10, <1>12, DocumentsAreLines

\* The names are there in some number.
LEMMA NamesCounted ==
  ASSUME NEW P, NEW doc, DocumentTree(P, doc)
  PROVE  12 \in P => Len(Names(doc)) \in Nat \ {0} /\ Names(doc) \in Seq(Text)
<1>1. SUFFICES ASSUME 12 \in P PROVE Len(Names(doc)) \in Nat \ {0} /\ Names(doc) \in Seq(Text)
  OBVIOUS
<1>2. PICK t \in Seq(Text) \ {<<>>} : doc[PathOrder[12]] = [kind |-> "list", text |-> Empty, items |-> t]
  BY <1>1 DEF DocumentTree
<1>3. Names(doc) = t /\ Len(t) \in Nat /\ (Len(t) = 0 => t = <<>>)
  BY <1>2 DEF Names
<1>4. QED
  BY <1>3

\* Where the lines of a place are among the others.
LEMMA LineOrder ==
  ASSUME NEW P, NEW doc, DocumentTree(P, doc), NEW ls \in Lines, NEW at, LaidOut(P, doc, ls, at),
         NEW k \in P
  PROVE  /\ k \in 1 .. 26 /\ at[k] \in Nat /\ at[k] + 1 \in 1 .. Len(ls)
         /\ \A j \in P : j < k => at[j] + 1 < at[k] + 1
         /\ 12 \in P => \A j \in 1 .. Len(Names(doc)) :
              /\ at[12] + 1 + j \in 1 .. Len(ls)
              /\ k <= 12 => at[k] + 1 < at[12] + 1 + j
              /\ 12 < k => at[12] + 1 + j < at[k] + 1
<1>1. P \subseteq 1 .. 26
  BY DEF DocumentTree
<1>2. \A j \in 1 .. 27 : at[j] \in Nat
  BY DEF LaidOut
<1>3. at[27] = Len(ls) /\ Len(ls) \in Nat
  BY LineNumbers DEF LaidOut
<1>4. \A i, j \in 1 .. 27 : i <= j => at[i] <= at[j]
  BY DEF LaidOut
<1>5. \A j \in P : /\ j \in 1 .. 26 /\ j \in 1 .. 27 /\ j + 1 \in 1 .. 27
                   /\ LineCount(P, doc, j) \in Nat \ {0}
                   /\ at[j + 1] = at[j] + LineCount(P, doc, j)
  <2>1. SUFFICES ASSUME NEW j \in P
                 PROVE  /\ j \in 1 .. 26 /\ j \in 1 .. 27 /\ j + 1 \in 1 .. 27
                        /\ LineCount(P, doc, j) \in Nat \ {0}
                        /\ at[j + 1] = at[j] + LineCount(P, doc, j)
    OBVIOUS
  <2>2. j \in 1 .. 26
    BY <1>1
  <2>3. at[j + 1] = at[j] + LineCount(P, doc, j)
    BY <2>2 DEF LaidOut
  <2>4. LineCount(P, doc, j) \in Nat \ {0}
    BY NamesCounted DEF LineCount
  <2>5. QED
    BY <2>2, <2>3, <2>4
<1>6. k \in 1 .. 26 /\ at[k] \in Nat /\ at[k] + 1 \in 1 .. Len(ls)
  <2>1. /\ k \in 1 .. 26 /\ at[k] \in Nat /\ at[k + 1] \in Nat
        /\ at[k + 1] = at[k] + LineCount(P, doc, k) /\ LineCount(P, doc, k) \in Nat \ {0}
    BY <1>2, <1>5
  <2>2. at[k + 1] <= at[27]
    <3>1. k + 1 \in 1 .. 27 /\ 27 \in 1 .. 27 /\ k + 1 <= 27
      BY <2>1
    <3>2. QED
      BY <1>4, <3>1
  <2>3. QED
    BY <1>3, <2>1, <2>2
<1>7. ASSUME NEW j \in P, j < k
      PROVE  at[j] + LineCount(P, doc, j) <= at[k] /\ at[j] \in Nat
  <2>1. j + 1 \in 1 .. 27 /\ k \in 1 .. 27 /\ j + 1 <= k
    <3>1. j \in 1 .. 26 /\ k \in 1 .. 26
      BY <1>5
    <3>2. QED
      BY <1>7, <3>1
  <2>2. at[j + 1] <= at[k]
    BY <1>4, <2>1
  <2>3. QED
    BY <1>2, <1>5, <2>2
<1>8. ASSUME NEW j \in P, j < k
      PROVE  at[j] + 1 < at[k] + 1
  <2>1. at[j] + LineCount(P, doc, j) <= at[k] /\ at[j] \in Nat /\ LineCount(P, doc, j) \in Nat \ {0}
    BY <1>5, <1>7, <1>8
  <2>2. QED
    BY <1>6, <2>1
<1>9. ASSUME 12 \in P, NEW j \in 1 .. Len(Names(doc))
      PROVE  /\ at[12] + 1 + j \in 1 .. Len(ls)
             /\ k <= 12 => at[k] + 1 < at[12] + 1 + j
             /\ 12 < k => at[12] + 1 + j < at[k] + 1
  <2>1. LineCount(P, doc, 12) = 1 + Len(Names(doc)) /\ Len(Names(doc)) \in Nat /\ at[12] \in Nat
    <3>1. 12 \in 1 .. 27
      OBVIOUS
    <3>2. at[12] \in Nat
      BY <1>2, <3>1
    <3>3. QED
      BY <1>9, <3>2, NamesCounted DEF LineCount
  <2>2. at[12] + (1 + Len(Names(doc))) <= at[27]
    <3>1. 12 + 1 \in 1 .. 27 /\ 27 \in 1 .. 27 /\ 12 + 1 <= 27
      OBVIOUS
    <3>2. at[12 + 1] <= at[27]
      BY <1>4, <3>1
    <3>3. at[12 + 1] = at[12] + LineCount(P, doc, 12)
      BY <1>5, <1>9
    <3>4. QED
      BY <2>1, <3>2, <3>3
  <2>3. at[12] + 1 + j \in 1 .. Len(ls)
    BY <1>3, <2>1, <2>2
  <2>4. ASSUME k <= 12
        PROVE  at[k] + 1 < at[12] + 1 + j
    <3>1. at[k] <= at[12]
      <4>1. k \in 1 .. 27 /\ 12 \in 1 .. 27
        BY <1>6
      <4>2. QED
        BY <1>4, <2>4, <4>1
    <3>2. QED
      BY <1>6, <2>1, <3>1
  <2>5. ASSUME 12 < k
        PROVE  at[12] + 1 + j < at[k] + 1
    <3>1. at[12] + LineCount(P, doc, 12) <= at[k]
      BY <1>7, <1>9, <2>5
    <3>2. QED
      BY <1>6, <2>1, <3>1
  <2>6. QED
    BY <2>3, <2>4, <2>5
<1>10. QED
  BY <1>6, <1>8, <1>9

\* The line of the mapping that place k is in; 0 for the document.
LineAbove(at, k) == IF Above[k] = 0 THEN 0 ELSE at[Above[k]] + 1

\* What a key is in tells its parent.
LEMMA KeyParent ==
  ASSUME NEW P, NEW doc, DocumentTree(P, doc), NEW ls \in Lines, NEW at, LaidOut(P, doc, ls, at),
         NEW k \in P
  PROVE  ParentLine(ls, at[k] + 1) = LineAbove(at, k)
<1> DEFINE i == at[k] + 1
           p == LineAbove(at, k)
<1>1. k \in 1 .. 26 /\ i \in 1 .. Len(ls) /\ at[k] \in Nat
  BY LineOrder
<1>2. /\ Above[k] \in 0 .. k - 1 /\ Len(PathOrder[k]) \in 1 .. 4
      /\ Len(PathOrder[k]) = IF Above[k] = 0 THEN 1 ELSE Len(PathOrder[Above[k]]) + 1
      /\ \A j \in 1 .. 26 :
           Above[k] < j /\ j < k => Len(PathOrder[k]) <= Len(PathOrder[j])
  BY <1>1, PathNesting
<1>3. Above[k] # 0 => Above[k] \in P
  BY DEF DocumentTree
<1>4. \A j \in P : j \in 1 .. 26 /\ Len(PathOrder[j]) \in 1 .. 4 /\ ls[at[j] + 1].indent = 2 * (Len(PathOrder[j]) - 1)
  <2>1. SUFFICES ASSUME NEW j \in P
                 PROVE  j \in 1 .. 26 /\ Len(PathOrder[j]) \in 1 .. 4 /\ ls[at[j] + 1].indent = 2 * (Len(PathOrder[j]) - 1)
    OBVIOUS
  <2>2. j \in 1 .. 26
    BY LineOrder
  <2>3. IsKeyLine(ls[at[j] + 1], doc, j)
    BY DEF LaidOut
  <2>4. QED
    BY <2>2, <2>3, PathNesting DEF IsKeyLine
<1>5. p \in 0 .. i - 1 /\ (p # 0 => ls[p].indent < ls[i].indent)
  <2>1. CASE Above[k] = 0
    BY <1>1, <2>1 DEF LineAbove
  <2>2. CASE Above[k] # 0
    <3>1. PICK m \in P : m = Above[k]
      BY <1>3, <2>2
    <3>2. m < k
      BY <1>1, <1>2, <3>1
    <3>3. p = at[m] + 1 /\ at[m] + 1 < i /\ at[m] \in Nat
      BY <2>2, <3>1, <3>2, LineOrder DEF LineAbove
    <3>4. Len(PathOrder[k]) = Len(PathOrder[m]) + 1
      BY <1>2, <2>2, <3>1
    <3>5. ls[at[m] + 1].indent < ls[i].indent
      <4>1. /\ ls[at[m] + 1].indent = 2 * (Len(PathOrder[m]) - 1) /\ ls[i].indent = 2 * (Len(PathOrder[k]) - 1)
            /\ Len(PathOrder[m]) \in 1 .. 4 /\ Len(PathOrder[k]) \in 1 .. 4
        BY <1>4
      <4> HIDE DEF i
      <4>2. QED
        BY <3>4, <4>1
    <3> HIDE DEF i, p
    <3>6. QED
      BY <1>1, <3>3, <3>5
  <2>3. QED
    BY <2>1, <2>2
<1>6. ASSUME NEW j \in 1 .. i - 1, ls[j].indent < ls[i].indent
      PROVE  j <= p
  <2>1. j \in 1 .. Len(ls) /\ j < i
    BY <1>1, LineNumbers
  <2>2. ls[i].indent = 2 * (Len(PathOrder[k]) - 1) /\ Len(PathOrder[k]) \in 1 .. 4
    BY <1>4
  <2>3. ASSUME NEW m \in P, j = at[m] + 1
        PROVE  j <= p
    <3>1. m \in 1 .. 26 /\ ls[j].indent = 2 * (Len(PathOrder[m]) - 1) /\ Len(PathOrder[m]) \in 1 .. 4
      BY <1>4, <2>3
    <3>2. ~ Len(PathOrder[k]) <= Len(PathOrder[m])
      <4> HIDE DEF i
      <4> QED
        BY <1>6, <2>2, <3>1
    <3>3. m < k
      <4>1. m # k
        BY <3>2, <2>2
      <4>2. k < m => at[k] + 1 < at[m] + 1
        BY LineOrder
      <4>3. ~ k < m
        <5>1. at[m] \in Nat
          BY LineOrder
        <5>2. QED
          BY <1>1, <2>1, <2>3, <4>2, <5>1
      <4>4. QED
        BY <1>1, <3>1, <4>1, <4>3
    <3>4. ~ Above[k] < m
      BY <1>2, <3>1, <3>2, <3>3
    <3>5. Above[k] # 0 /\ (m = Above[k] \/ m < Above[k])
      <4>1. Above[k] \in Int /\ 0 <= Above[k] /\ m \in Int /\ 0 < m
        BY <1>1, <1>2, <3>1
      <4>2. QED
        BY <3>4, <4>1
    <3>6. PICK q \in P : q = Above[k]
      BY <1>3, <3>5
    <3>7. p = at[q] + 1 /\ at[q] \in Nat /\ (m = q \/ m < q)
      BY <3>5, <3>6, LineOrder DEF LineAbove
    <3>8. m < q => at[m] + 1 < at[q] + 1
      BY LineOrder
    <3>9. at[m] \in Nat
      BY LineOrder
    <3>10. QED
      BY <2>3, <3>7, <3>8, <3>9
  <2>4. ASSUME 12 \in P, NEW o \in 1 .. Len(Names(doc)), j = at[12] + 1 + o
        PROVE  FALSE
    <3>1. ls[j].indent = 6
      <4>1. IsNameLine(ls[at[12] + 1 + o], doc, o)
        BY <2>4 DEF LaidOut
      <4>2. QED
        BY <2>4, <4>1 DEF IsNameLine
    <3>2. \A l \in 1 .. 4 : ~ 6 < 2 * (l - 1)
      OBVIOUS
    <3> HIDE DEF i
    <3>3. ~ 6 < 2 * (Len(PathOrder[k]) - 1)
      BY <2>2, <3>2
    <3>4. 6 < 2 * (Len(PathOrder[k]) - 1)
      BY <1>6, <2>2, <3>1
    <3>5. QED
      BY <3>3, <3>4
  <2>5. \/ \E m \in P : j = at[m] + 1
        \/ 12 \in P /\ \E o \in 1 .. Len(Names(doc)) : j = at[12] + 1 + o
    BY <2>1 DEF LaidOut
  <2> HIDE DEF p, i
  <2>6. QED
    BY <2>3, <2>4, <2>5
<1> HIDE DEF p, i
<1>7. ParentLine(ls, i) = p
  BY <1>1, <1>5, <1>6, IsParent
<1>8. QED
  BY <1>7 DEF p, i

\* The names belong to their key.
LEMMA NameParent ==
  ASSUME NEW P, NEW doc, DocumentTree(P, doc), NEW ls \in Lines, NEW at, LaidOut(P, doc, ls, at),
         12 \in P, NEW o \in 1 .. Len(Names(doc))
  PROVE  ParentLine(ls, at[12] + 1 + o) = at[12] + 1
<1> DEFINE i == at[12] + 1 + o
           p == at[12] + 1
<1>1. i \in 1 .. Len(ls) /\ at[12] \in Nat /\ o \in Nat \ {0}
  BY LineOrder, NamesCounted
<1>2. ls[i].indent = 6
  BY DEF LaidOut, IsNameLine
<1>3. ls[p].indent < 6
  <2>1. IsKeyLine(ls[at[12] + 1], doc, 12)
    BY DEF LaidOut
  <2>2. ls[p].indent = 2 * (Len(PathOrder[12]) - 1) /\ Len(PathOrder[12]) = 3
    BY <2>1, PathNumbers DEF IsKeyLine
  <2> HIDE DEF p
  <2>3. QED
    BY <2>2
<1>4. p \in 0 .. i - 1
  BY <1>1
<1>5. ASSUME NEW j \in 1 .. i - 1, ls[j].indent < ls[i].indent
      PROVE  j <= p
  <2>1. j \in 1 .. Len(ls) /\ j < i
    BY <1>1, LineNumbers
  <2>2. ASSUME NEW m \in P, j = at[m] + 1
        PROVE  j <= p
    <3>1. m \in 1 .. 26 /\ at[m] \in Nat
      BY LineOrder
    <3>2. ~ 12 < m
      <4>1. 12 < m => i < at[m] + 1
        BY LineOrder
      <4>2. QED
        BY <1>1, <2>1, <2>2, <3>1, <4>1
    <3>3. m = 12 \/ m < 12
      BY <3>1, <3>2
    <3>4. m < 12 => at[m] + 1 < at[12] + 1
      BY LineOrder
    <3>5. QED
      BY <1>1, <2>2, <3>1, <3>3, <3>4
  <2>3. ASSUME NEW q \in 1 .. Len(Names(doc)), j = at[12] + 1 + q
        PROVE  FALSE
    <3>1. ls[j].indent = 6
      BY <2>3 DEF LaidOut, IsNameLine
    <3> HIDE DEF i
    <3>2. QED
      BY <1>2, <1>5, <3>1
  <2>4. \/ \E m \in P : j = at[m] + 1
        \/ \E q \in 1 .. Len(Names(doc)) : j = at[12] + 1 + q
    BY <2>1 DEF LaidOut
  <2> HIDE DEF p, i
  <2>5. QED
    BY <2>2, <2>3, <2>4
<1> HIDE DEF p, i
<1>6. ParentLine(ls, i) = p
  <2>1. p # 0 => ls[p].indent < ls[i].indent
    BY <1>2, <1>3
  <2>2. QED
    BY <1>1, <1>4, <1>5, <2>1, IsParent
<1>7. QED
  BY <1>6 DEF p, i

\* A key is in a mapping, never in the list of names.
LEMMA AboveIsMapping ==
  /\ \A k \in 1 .. 26 : Above[k] # 0 => Above[k] \in MappingPlaces
  /\ 12 \notin MappingPlaces
BY AroundFacts DEF MappingPlaces

\* The line of a key says which key it is.
LEMMA KeyFields ==
  ASSUME NEW P, NEW doc, DocumentTree(P, doc), NEW ls \in Lines, NEW at, LaidOut(P, doc, ls, at),
         NEW k \in P
  PROVE  LET l == ls[at[k] + 1]
         IN  /\ l.form = "entry" /\ l.indent = 2 * (Len(PathOrder[k]) - 1)
             /\ l.key = PathOrder[k][Len(PathOrder[k])] /\ l.key # Nothing
             /\ Opens(l) <=> k \in MappingPlaces \cup {12}
             /\ k \notin MappingPlaces \cup {12} => \E t \in Text :
                  /\ doc[PathOrder[k]] = [kind |-> "string", text |-> t, items |-> <<t>>]
                  /\ l.value = InQuotes(t)
<1> DEFINE l == ls[at[k] + 1]
<1>1. /\ l.form = "entry" /\ l.indent = 2 * (Len(PathOrder[k]) - 1)
      /\ l.key = PathOrder[k][Len(PathOrder[k])]
      /\ l.value = IF k \in MappingPlaces \cup {12} THEN Nothing ELSE InQuotes(doc[PathOrder[k]].text)
  BY DEF LaidOut, IsKeyLine
<1>2. k \in 1 .. 26
  BY LineOrder
<1>3. l.key # Nothing
  BY <1>1, <1>2, PathKeys, DocumentAssumption
<1>4. ASSUME k \notin MappingPlaces \cup {12}
      PROVE  /\ l.value # Nothing
             /\ \E t \in Text : /\ doc[PathOrder[k]] = [kind |-> "string", text |-> t, items |-> <<t>>]
                                /\ l.value = InQuotes(t)
  <2>1. PICK t \in Text : doc[PathOrder[k]] = [kind |-> "string", text |-> t, items |-> <<t>>]
    BY <1>4 DEF DocumentTree
  <2>2. l.value = InQuotes(t)
    BY <1>1, <1>4, <2>1
  <2>3. InQuotes(t) \in Scalar
    BY DEF InQuotes, Scalar, Quotes
  <2>4. QED
    BY <2>1, <2>2, <2>3, DocumentAssumption
<1>5. Opens(l) <=> k \in MappingPlaces \cup {12}
  BY <1>1, <1>4 DEF Opens
<1>6. QED
  BY <1>1, <1>3, <1>4, <1>5

\* The line of a name holds it.
LEMMA NameFields ==
  ASSUME NEW P, NEW doc, DocumentTree(P, doc), NEW ls \in Lines, NEW at, LaidOut(P, doc, ls, at),
         12 \in P, NEW o \in 1 .. Len(Names(doc))
  PROVE  LET l == ls[at[12] + 1 + o]
         IN  l.form = "item" /\ l.indent = 6 /\ l.value = InQuotes(Names(doc)[o]) /\ ~ Opens(l)
BY DEF LaidOut, IsNameLine, Opens

\* Keys at different places are on different lines, and so are names.
LEMMA LinesDiffer ==
  ASSUME NEW P, NEW doc, DocumentTree(P, doc), NEW ls \in Lines, NEW at, LaidOut(P, doc, ls, at),
         NEW k \in P
  PROVE  /\ \A j \in P : at[j] + 1 = at[k] + 1 => j = k
         /\ \A j \in P : at[j] + 1 < at[k] + 1 => j < k
         /\ 12 \in P => \A o \in 1 .. Len(Names(doc)) : at[k] + 1 # at[12] + 1 + o
<1>1. /\ k \in 1 .. 26 /\ at[k] \in Nat
      /\ 12 \in P => \A o \in 1 .. Len(Names(doc)) :
           /\ at[12] + 1 + o \in 1 .. Len(ls)
           /\ k <= 12 => at[k] + 1 < at[12] + 1 + o
           /\ 12 < k => at[12] + 1 + o < at[k] + 1
  BY LineOrder
<1>2. ASSUME NEW j \in P
      PROVE  /\ at[j] + 1 = at[k] + 1 => j = k
             /\ at[j] + 1 < at[k] + 1 => j < k
  <2>1. j \in 1 .. 26 /\ at[j] \in Nat /\ (k < j => at[k] + 1 < at[j] + 1)
    BY LineOrder
  <2>2. j < k => at[j] + 1 < at[k] + 1
    BY LineOrder
  <2>3. j < k \/ j = k \/ k < j
    BY <1>1, <2>1
  <2>4. QED
    BY <1>1, <2>1, <2>2, <2>3
<1>3. ASSUME 12 \in P, NEW o \in 1 .. Len(Names(doc))
      PROVE  at[k] + 1 # at[12] + 1 + o
  <2>1. k <= 12 \/ 12 < k
    BY <1>1
  <2>2. at[12] \in Nat /\ o \in Nat
    BY <1>3, LineOrder, NamesCounted
  <2>3. QED
    BY <1>1, <1>3, <2>1, <2>2
<1>4. QED
  BY <1>2, <1>3

\* Keys with the same line above are in the same mapping.
LEMMA SameAbove ==
  ASSUME NEW P, NEW doc, DocumentTree(P, doc), NEW ls \in Lines, NEW at, LaidOut(P, doc, ls, at),
         NEW j \in P, NEW k \in P, LineAbove(at, j) = LineAbove(at, k)
  PROVE  Above[j] = Above[k]
<1>1. \A m \in P : Above[m] # 0 => Above[m] \in P
  BY DEF DocumentTree
<1>2. \A m \in P : at[m] \in Nat
  BY LineOrder
<1>3. CASE Above[j] = 0
  <2>1. Above[k] # 0 => at[Above[k]] + 1 # 0
    BY <1>1, <1>2
  <2>2. QED
    BY <1>3, <2>1 DEF LineAbove
<1>4. CASE Above[k] = 0
  <2>1. Above[j] # 0 => at[Above[j]] + 1 # 0
    BY <1>1, <1>2
  <2>2. QED
    BY <1>4, <2>1 DEF LineAbove
<1>5. CASE Above[j] # 0 /\ Above[k] # 0
  <2>1. PICK u \in P, v \in P : u = Above[j] /\ v = Above[k]
    BY <1>1, <1>5
  <2>2. at[u] + 1 = at[v] + 1
    BY <1>5, <2>1 DEF LineAbove
  <2>3. u = v
    BY <2>2, LinesDiffer
  <2>4. QED
    BY <2>1, <2>3
<1>6. QED
  BY <1>3, <1>4, <1>5

\* The siblings of a key are the other keys of its mapping.
LEMMA KeySiblings ==
  ASSUME NEW P, NEW doc, DocumentTree(P, doc), NEW ls \in Lines, NEW at, LaidOut(P, doc, ls, at),
         NEW k \in P, NEW j \in Siblings(ls, at[k] + 1)
  PROVE  ls[j].form = "entry" /\ (j # at[k] + 1 => ls[j].key # ls[at[k] + 1].key)
<1>1. j \in 1 .. Len(ls) /\ ParentLine(ls, j) = LineAbove(at, k)
  BY KeyParent, LineNumbers DEF Siblings
<1>2. k \in 1 .. 26 /\ \A m \in P : m \in 1 .. 26
  BY LineOrder
<1>3. ASSUME NEW m \in P, j = at[m] + 1
      PROVE  ls[j].form = "entry" /\ (j # at[k] + 1 => ls[j].key # ls[at[k] + 1].key)
  <2>1. LineAbove(at, m) = LineAbove(at, k)
    BY <1>1, <1>3, KeyParent
  <2>2. Above[m] = Above[k]
    BY <2>1, SameAbove
  <2>3. PathAbove(m) = PathAbove(k)
    BY <2>2 DEF PathAbove
  <2>4. /\ ls[j].form = "entry" /\ ls[j].key = PathOrder[m][Len(PathOrder[m])]
        /\ ls[at[k] + 1].key = PathOrder[k][Len(PathOrder[k])]
    BY <1>3, KeyFields
  <2>5. /\ PathOrder[m] = Append(PathAbove(m), PathOrder[m][Len(PathOrder[m])])
        /\ PathOrder[k] = Append(PathAbove(k), PathOrder[k][Len(PathOrder[k])])
    BY <1>2, PathShape
  <2>6. ls[j].key = ls[at[k] + 1].key => PathOrder[m] = PathOrder[k]
    BY <2>3, <2>4, <2>5
  <2>7. PathOrder[m] = PathOrder[k] => m = k
    BY <1>2, PathsDiffer
  <2>8. QED
    BY <1>3, <2>4, <2>6, <2>7
<1>4. ASSUME 12 \in P, NEW o \in 1 .. Len(Names(doc)), j = at[12] + 1 + o
      PROVE  FALSE
  <2>1. LineAbove(at, k) = at[12] + 1
    BY <1>1, <1>4, NameParent
  <2>2. at[12] \in Nat
    BY <1>4, LineOrder
  <2>3. Above[k] # 0
    BY <2>1, <2>2 DEF LineAbove
  <2>4. PICK u \in P : u = Above[k]
    BY <2>3 DEF DocumentTree
  <2>5. at[u] + 1 = at[12] + 1
    BY <2>1, <2>3, <2>4 DEF LineAbove
  <2>6. u = 12
    BY <1>4, <2>5, LinesDiffer
  <2>7. QED
    BY <1>2, <2>3, <2>4, <2>6, AboveIsMapping
<1>5. QED
  BY <1>1, <1>3, <1>4 DEF LaidOut

\* The siblings of a name are the names.
LEMMA NameSiblings ==
  ASSUME NEW P, NEW doc, DocumentTree(P, doc), NEW ls \in Lines, NEW at, LaidOut(P, doc, ls, at),
         12 \in P, NEW o \in 1 .. Len(Names(doc))
  PROVE  Siblings(ls, at[12] + 1 + o) = {at[12] + 1 + q : q \in 1 .. Len(Names(doc))}
<1>1. ParentLine(ls, at[12] + 1 + o) = at[12] + 1 /\ ls[at[12] + 1 + o].indent = 6
  BY NameParent, NameFields
<1>2. ASSUME NEW q \in 1 .. Len(Names(doc)), NEW j, j = at[12] + 1 + q
      PROVE  j \in Siblings(ls, at[12] + 1 + o)
  <2>1. j \in DOMAIN ls /\ ParentLine(ls, j) = at[12] + 1 /\ ls[j].indent = 6
    BY <1>2, NameParent, NameFields, LineOrder, LineNumbers
  <2>2. QED
    BY <1>1, <2>1 DEF Siblings
<1>3. ASSUME NEW j \in Siblings(ls, at[12] + 1 + o)
      PROVE  \E q \in 1 .. Len(Names(doc)) : j = at[12] + 1 + q
  <2>1. j \in 1 .. Len(ls) /\ ParentLine(ls, j) = at[12] + 1
    BY <1>1, <1>3, LineNumbers DEF Siblings
  <2>2. ASSUME NEW m \in P, j = at[m] + 1
        PROVE  FALSE
    <3>1. LineAbove(at, m) = at[12] + 1
      BY <2>1, <2>2, KeyParent
    <3>2. at[12] \in Nat /\ m \in 1 .. 26
      BY LineOrder
    <3>3. Above[m] # 0
      BY <3>1, <3>2 DEF LineAbove
    <3>4. PICK u \in P : u = Above[m]
      BY <3>3 DEF DocumentTree
    <3>5. at[u] + 1 = at[12] + 1
      BY <3>1, <3>3, <3>4 DEF LineAbove
    <3>6. u = 12
      BY <3>5, LinesDiffer
    <3>7. QED
      BY <3>2, <3>3, <3>4, <3>6, AboveIsMapping
  <2>3. QED
    BY <2>1, <2>2 DEF LaidOut
<1>4. QED
  BY <1>2, <1>3

\* The first key of a mapping follows its line.
LEMMA NextKey ==
  ASSUME NEW P, NEW doc, DocumentTree(P, doc), NEW ls \in Lines, NEW at, LaidOut(P, doc, ls, at),
         NEW k \in P \cap MappingPlaces
  PROVE  /\ at[k] + 1 < Len(ls)
         /\ \E m \in P : at[k] + 1 + 1 = at[m] + 1 /\ Len(PathOrder[k]) < Len(PathOrder[m])
<1> DEFINE i == at[k] + 1
<1>1. k \in 1 .. 26 /\ at[k] \in Nat /\ i \in 1 .. Len(ls) /\ Len(ls) \in Nat /\ k # 12
  BY LineOrder, LineNumbers, AboveIsMapping
<1>2. PICK j \in P : Above[j] = k
  BY DEF DocumentTree
<1>3. /\ j \in 1 .. 26 /\ Above[j] \in 0 .. j - 1 /\ at[j] \in Nat /\ at[j] + 1 \in 1 .. Len(ls)
      /\ Len(PathOrder[j]) = Len(PathOrder[k]) + 1 /\ Len(PathOrder[k]) \in Nat
      /\ \A m \in 1 .. 26 : k < m /\ m < j => Len(PathOrder[j]) <= Len(PathOrder[m])
  <2>1. j \in 1 .. 26 /\ at[j] \in Nat /\ at[j] + 1 \in 1 .. Len(ls)
    BY LineOrder
  <2>2. /\ Above[j] \in 0 .. j - 1
        /\ Len(PathOrder[j]) = IF Above[j] = 0 THEN 1 ELSE Len(PathOrder[Above[j]]) + 1
        /\ \A m \in 1 .. 26 : Above[j] < m /\ m < j => Len(PathOrder[j]) <= Len(PathOrder[m])
    BY <2>1, PathNesting
  <2>3. Len(PathOrder[k]) \in Nat /\ k # 0
    <3>1. Len(PathOrder[k]) \in 1 .. 4 /\ k # 0
      <4>1. k \in 1 .. 26
        BY <1>1
      <4>2. k # 0
        BY <4>1
      <4>3. Len(PathOrder[k]) \in 1 .. 4
        BY <4>1, PathNesting
      <4>4. QED
        BY <4>2, <4>3
    <3>2. \A l \in 1 .. 4 : l \in Nat
      OBVIOUS
    <3>3. QED
      BY <3>1, <3>2
  <2>4. QED
    BY <1>2, <2>1, <2>2, <2>3
<1>4. k < j
  BY <1>1, <1>2, <1>3
<1>5. i < at[j] + 1
  BY <1>4, LineOrder
<1>6. i + 1 \in 1 .. Len(ls) /\ i + 1 <= at[j] + 1 /\ i < Len(ls)
  <2>1. \A a, b, n \in Nat : b + 1 \in 1 .. n /\ a + 1 < b + 1
                            => a + 1 + 1 \in 1 .. n /\ a + 1 + 1 <= b + 1 /\ a + 1 < n
    OBVIOUS
  <2>2. at[k] \in Nat /\ at[j] \in Nat /\ Len(ls) \in Nat /\ at[j] + 1 \in 1 .. Len(ls)
    BY <1>1, <1>3
  <2>3. QED
    BY <1>5, <2>1, <2>2
<1>7. ASSUME NEW m \in P, i + 1 = at[m] + 1
      PROVE  Len(PathOrder[k]) < Len(PathOrder[m])
  <2>1. m \in 1 .. 26 /\ at[m] \in Nat
    BY LineOrder
  <2>2. k < m
    <3>1. at[k] + 1 < at[m] + 1
      BY <1>1, <1>7
    <3>2. QED
      BY <3>1, LinesDiffer
  <2>3. ~ j < m
    <3>1. j < m => at[j] + 1 < at[m] + 1
      BY LineOrder
    <3>2. QED
      BY <1>3, <1>6, <1>7, <2>1, <3>1
  <2>4. m = j \/ m < j
    BY <1>3, <2>1, <2>3
  <2>5. CASE m = j
    BY <1>3, <2>5
  <2>6. CASE m < j
    <3>1. Len(PathOrder[j]) <= Len(PathOrder[m])
      BY <1>3, <2>1, <2>2, <2>6
    <3>2. Len(PathOrder[m]) \in 1 .. 4
      BY <2>1, PathNesting
    <3>3. QED
      BY <1>3, <3>1, <3>2
  <2>7. QED
    BY <2>4, <2>5, <2>6
<1>8. ASSUME 12 \in P, NEW o \in 1 .. Len(Names(doc)), i + 1 = at[12] + 1 + o
      PROVE  FALSE
  <2>1. at[12] \in Nat /\ o \in Nat \ {0}
    BY <1>8, LineOrder, NamesCounted
  <2>2. CASE k < 12
    <3>1. at[k] + 1 < at[12] + 1
      BY <1>8, <2>2, LineOrder
    <3>2. QED
      BY <1>1, <1>8, <2>1, <3>1
  <2>3. CASE 12 < k
    <3>1. at[12] + 1 + o < at[k] + 1
      BY <1>8, <2>3, LineOrder
    <3>2. QED
      BY <1>1, <1>8, <2>1, <3>1
  <2>4. QED
    BY <1>1, <2>2, <2>3
<1>9. \E m \in P : i + 1 = at[m] + 1
  BY <1>6, <1>8 DEF LaidOut
<1>10. QED
  BY <1>6, <1>7, <1>9

\* The key of a mapping begins it, or follows another key of it.
LEMMA KeyFits ==
  ASSUME NEW P, NEW doc, DocumentTree(P, doc), NEW ls \in Lines, NEW at, LaidOut(P, doc, ls, at),
         NEW k \in P
  PROVE  Fits(ls, at[k] + 1)
<1> DEFINE i == at[k] + 1
           elder == {j \in Siblings(ls, i) : j < i}
<1>1. i \in 1 .. Len(ls) /\ Len(ls) \in Nat /\ i \in Nat /\ k \in 1 .. 26 /\ at[k] \in Nat
  BY LineOrder, LineNumbers
<1>2. ls[i].form = "entry" /\ ls[i].key # Nothing /\ (Opens(ls[i]) <=> k \in MappingPlaces \cup {12})
  BY KeyFields
<1>3. ASSUME i > 1, ~ Opens(ls[i - 1])
      PROVE  elder # {}
  <2> DEFINE p == LineAbove(at, k)
  <2>1. /\ p \in Nat /\ p < i - 1 /\ ParentLine(ls, i) = p
        /\ p = 0 \/ \E a \in P \cap MappingPlaces : Above[k] = a /\ p = at[a] + 1
    <3>1. ParentLine(ls, i) = p
      BY KeyParent
    <3>2. p \in 0 .. i - 1
      BY <1>1, <3>1, ParentFacts
    <3>3. ASSUME Above[k] # 0
          PROVE  \E a \in P \cap MappingPlaces : Above[k] = a /\ p = at[a] + 1
      BY <1>1, <3>3, AboveIsMapping DEF DocumentTree, LineAbove
    <3>4. Above[k] = 0 => p = 0
      BY DEF LineAbove
    <3>5. p # i - 1
      <4>1. CASE p = 0
        BY <1>1, <1>3, <4>1
      <4>2. CASE p # 0
        <5>1. PICK a \in P \cap MappingPlaces : p = at[a] + 1
          BY <3>3, <3>4, <4>2
        <5>2. Opens(ls[p])
          BY <5>1, KeyFields
        <5>3. QED
          BY <1>3, <5>2
      <4>3. QED
        BY <4>1, <4>2
    <3> HIDE DEF p, i
    <3>6. QED
      BY <1>1, <3>1, <3>2, <3>3, <3>4, <3>5
  <2>2. p + 1 \in 1 .. Len(ls) /\ p + 1 < i
    <3> HIDE DEF p, i
    <3> QED
      BY <1>1, <2>1
  <2>3. ParentLine(ls, p + 1) = p /\ \E m \in P : p + 1 = at[m] + 1
    <3>1. CASE p = 0
      <4>1. ls # <<>> /\ 1 \in 1 .. Len(ls)
        BY <1>1
      <4>2. ParentLine(ls, 1) = 0
        BY <4>1, FirstLine
      <4>3. \/ \E m \in P : 1 = at[m] + 1
            \/ 12 \in P /\ \E j \in 1 .. Len(Names(doc)) : 1 = at[12] + 1 + j
        BY <4>1 DEF LaidOut
      <4>4. ls[1].form = "entry"
        BY LaidOutForms
      <4>5. ASSUME 12 \in P, NEW j \in 1 .. Len(Names(doc)), 1 = at[12] + 1 + j
            PROVE  FALSE
        <5>1. ls[at[12] + 1 + j].form = "item"
          BY <4>5, NameFields
        <5>2. QED
          BY <4>4, <4>5, <5>1
      <4>6. p + 1 = 1
        BY <3>1
      <4>7. QED
        BY <3>1, <4>2, <4>3, <4>5, <4>6
    <3>2. CASE p # 0
      <4>1. PICK a \in P \cap MappingPlaces : p = at[a] + 1
        BY <2>1, <3>2
      <4>2. PICK m \in P : p + 1 = at[m] + 1 /\ Len(PathOrder[a]) < Len(PathOrder[m])
        BY <4>1, NextKey
      <4>3. ls[p].indent < ls[p + 1].indent
        <5>1. ls[p].indent = 2 * (Len(PathOrder[a]) - 1) /\ ls[p + 1].indent = 2 * (Len(PathOrder[m]) - 1)
          BY <4>1, <4>2, KeyFields
        <5>2. Len(PathOrder[a]) \in 1 .. 4 /\ Len(PathOrder[m]) \in 1 .. 4
          BY LineOrder, PathNesting
        <5> HIDE DEF p
        <5>3. QED
          BY <4>2, <5>1, <5>2
      <4>4. ParentLine(ls, p + 1) = p
        <5>1. p + 1 > 1 /\ p + 1 - 1 = p
          <6> HIDE DEF p
          <6> QED
            BY <2>1, <3>2
        <5> HIDE DEF p
        <5>2. PICK q \in 1 .. Len(ls) : q = p + 1
          BY <2>2
        <5>3. q > 1 /\ q - 1 = p /\ ls[q - 1].indent < ls[q].indent
          <6>1. q > 1 /\ q - 1 = p
            <7>1. p \in Nat
              BY <2>1
            <7>2. \A x, y \in Nat : x + 1 > 1 /\ y = x + 1 => y > 1 /\ y - 1 = x
              OBVIOUS
            <7>3. q \in Nat
              BY <5>2, <7>1
            <7>4. QED
              BY <5>1, <5>2, <7>1, <7>2, <7>3
          <6>2. QED
            BY <4>3, <5>2, <6>1
        <5>4. ParentLine(ls, q) = q - 1
          BY <5>3, DeeperBegins
        <5>5. QED
          BY <5>2, <5>3, <5>4
      <4>5. QED
        BY <4>2, <4>4
    <3>3. QED
      BY <3>1, <3>2
  <2>4. PICK m \in P : p + 1 = at[m] + 1
    BY <2>3
  <2>5. LineAbove(at, m) = LineAbove(at, k)
    BY <2>3, <2>4, KeyParent
  <2>6. Above[m] = Above[k]
    BY <2>5, SameAbove
  <2>7. ls[p + 1].indent = ls[i].indent
    <3>1. m \in 1 .. 26
      BY LineOrder
    <3>2. Len(PathOrder[m]) = Len(PathOrder[k])
      BY <1>1, <2>6, <3>1, PathNesting
    <3>3. QED
      BY <2>4, <3>2, KeyFields
  <2>8. p + 1 \in Siblings(ls, i)
    <3>1. p + 1 \in DOMAIN ls
      BY <2>2, LineNumbers
    <3>2. QED
      BY <2>1, <2>3, <2>7, <3>1 DEF Siblings
  <2>9. QED
    BY <2>2, <2>8
<1>4. \A j \in elder : ls[j].form = ls[i].form /\ ls[j].key # ls[i].key
  <2>1. SUFFICES ASSUME NEW j \in Siblings(ls, i), j < i
                 PROVE  ls[j].form = ls[i].form /\ ls[j].key # ls[i].key
    OBVIOUS
  <2>2. j # i
    <3> HIDE DEF i
    <3> QED
      BY <1>1, <2>1
  <2>3. QED
    BY <1>2, <2>1, <2>2, KeySiblings
<1>5. ASSUME Opens(ls[i])
      PROVE  i < Len(ls) /\ ls[i + 1].indent > ls[i].indent
  <2>1. CASE k \in MappingPlaces
    <3>1. i < Len(ls)
      BY <2>1, NextKey
    <3>2. PICK m \in P : i + 1 = at[m] + 1 /\ Len(PathOrder[k]) < Len(PathOrder[m])
      BY <2>1, NextKey
    <3>3. ls[i].indent = 2 * (Len(PathOrder[k]) - 1) /\ ls[i + 1].indent = 2 * (Len(PathOrder[m]) - 1)
      BY <3>2, KeyFields
    <3>4. Len(PathOrder[k]) \in 1 .. 4 /\ Len(PathOrder[m]) \in 1 .. 4
      BY LineOrder, PathNesting
    <3> HIDE DEF i
    <3>5. QED
      BY <3>1, <3>2, <3>3, <3>4
  <2>2. CASE k = 12
    <3>1. 1 \in 1 .. Len(Names(doc))
      BY <2>2, NamesCounted
    <3>2. at[12] + 1 + 1 \in 1 .. Len(ls) /\ ls[at[12] + 1 + 1].indent = 6
      BY <2>2, <3>1, LineOrder, NameFields
    <3>3. ls[i].indent = 2 * (Len(PathOrder[12]) - 1) /\ Len(PathOrder[12]) = 3
      <4>1. ls[at[k] + 1].indent = 2 * (Len(PathOrder[k]) - 1)
        BY KeyFields
      <4>2. Len(PathOrder[12]) = 3
        BY PathNumbers
      <4>3. QED
        BY <2>2, <4>1, <4>2
    <3>4. i + 1 \in 1 .. Len(ls) /\ ls[i + 1].indent = 6
      BY <2>2, <3>2
    <3>5. 6 > 2 * (3 - 1)
      OBVIOUS
    <3>6. ls[i + 1].indent > ls[i].indent
      BY <3>3, <3>4, <3>5
    <3> HIDE DEF i
    <3>7. QED
      BY <1>1, <3>4, <3>6
  <2>3. QED
    BY <1>2, <1>5, <2>1, <2>2
<1> HIDE DEF i
<1>6. Fits(ls, i)
  BY <1>2, <1>3, <1>4, <1>5 DEF Fits
<1>7. QED
  BY <1>6 DEF i

\* A name begins the list, or follows another name.
LEMMA NameFits ==
  ASSUME NEW P, NEW doc, DocumentTree(P, doc), NEW ls \in Lines, NEW at, LaidOut(P, doc, ls, at),
         12 \in P, NEW o \in 1 .. Len(Names(doc))
  PROVE  Fits(ls, at[12] + 1 + o)
<1> DEFINE i == at[12] + 1 + o
           elder == {j \in Siblings(ls, i) : j < i}
<1>1. ls[i].form = "item" /\ ~ Opens(ls[i])
  BY NameFields
<1>2. at[12] \in Nat /\ o \in Nat \ {0}
  BY LineOrder, NamesCounted
<1>3. ASSUME ~ Opens(ls[i - 1])
      PROVE  elder # {}
  <2>1. CASE o = 1
    <3>1. i - 1 = at[12] + 1
      BY <1>2, <2>1
    <3>2. Opens(ls[at[12] + 1])
      BY KeyFields
    <3>3. QED
      BY <1>3, <3>1, <3>2
  <2>2. CASE o # 1
    <3>1. PICK q \in 1 .. Len(Names(doc)) : q = o - 1
      BY <1>2, <2>2
    <3>2. at[12] + 1 + q < i
      BY <1>2, <3>1
    <3>3. at[12] + 1 + q \in Siblings(ls, i)
      BY NameSiblings
    <3>4. QED
      BY <3>2, <3>3
  <2>3. QED
    BY <2>1, <2>2
<1>4. \A j \in elder : ls[j].form = ls[i].form
  <2>1. SUFFICES ASSUME NEW j \in Siblings(ls, i)
                 PROVE  ls[j].form = ls[i].form
    OBVIOUS
  <2>2. PICK q \in 1 .. Len(Names(doc)) : j = at[12] + 1 + q
    <3>1. Siblings(ls, at[12] + 1 + o) = {at[12] + 1 + q : q \in 1 .. Len(Names(doc))}
      BY NameSiblings
    <3>2. QED
      BY <2>1, <3>1
  <2>3. QED
    BY <1>1, <2>2, NameFields
<1> HIDE DEF i
<1>5. Fits(ls, i)
  BY <1>1, <1>3, <1>4 DEF Fits
<1>6. QED
  BY <1>5 DEF i

\* The lines of a document all fit, and begin with a key.
LEMMA AllFit ==
  ASSUME NEW P, NEW doc, DocumentTree(P, doc), NEW ls \in Lines, NEW at, LaidOut(P, doc, ls, at)
  PROVE  Misfits(ls) = {} /\ ~ IsListed(ls)
<1>1. ASSUME NEW i \in 1 .. Len(ls)
      PROVE  Fits(ls, i)
  <2>1. \/ \E k \in P : i = at[k] + 1
        \/ 12 \in P /\ \E j \in 1 .. Len(Names(doc)) : i = at[12] + 1 + j
    BY DEF LaidOut
  <2>2. QED
    BY <2>1, KeyFits, NameFits
<1>2. Misfits(ls) = {}
  BY <1>1, LineNumbers DEF Misfits
<1>3. ~ IsListed(ls)
  BY LaidOutForms DEF IsListed
<1>4. QED
  BY <1>2, <1>3

\* The path of a line of a key is the path of its place.
LEMMA KeyPaths ==
  ASSUME NEW P, NEW doc, DocumentTree(P, doc), NEW ls \in Lines, NEW at, LaidOut(P, doc, ls, at)
  PROVE  \A k \in P : LinePaths(ls)[at[k] + 1] = PathOrder[k]
<1> DEFINE path == LinePaths(ls)
           D == {k \in P : path[at[k] + 1] # PathOrder[k]}
<1>1. SUFFICES ASSUME D # {} PROVE FALSE
  OBVIOUS
<1>2. PICK k \in D : \A j \in D : k <= j
  <2>1. P \subseteq 1 .. 26
    BY DEF DocumentTree
  <2>2. P \subseteq Nat
    BY <2>1
  <2>3. D \subseteq Nat
    BY <2>2
  <2> HIDE DEF D
  <2>4. QED
    BY <1>1, <2>3, LeastNumber
<1>3. k \in P /\ k \in 1 .. 26 /\ at[k] + 1 \in 1 .. Len(ls)
  BY <1>2, LineOrder
<1>4. path[at[k] + 1] = Append(path[LineAbove(at, k)], PathOrder[k][Len(PathOrder[k])])
  <2>1. path[at[k] + 1] = Append(path[ParentLine(ls, at[k] + 1)], ls[at[k] + 1].key)
    BY <1>3, PathFacts
  <2>2. ParentLine(ls, at[k] + 1) = LineAbove(at, k) /\ ls[at[k] + 1].key = PathOrder[k][Len(PathOrder[k])]
    BY <1>3, KeyParent, KeyFields
  <2>3. QED
    BY <2>1, <2>2
<1>5. path[LineAbove(at, k)] = PathAbove(k)
  <2>1. CASE Above[k] = 0
    BY <2>1, PathFacts DEF LineAbove, PathAbove
  <2>2. CASE Above[k] # 0
    <3>1. Above[k] \in P /\ Above[k] \in 0 .. k - 1
      BY <1>3, <2>2, PathNesting DEF DocumentTree
    <3>2. ~ k <= Above[k]
      BY <1>3, <3>1
    <3>3. Above[k] \notin D
      BY <1>2, <3>2
    <3>4. path[at[Above[k]] + 1] = PathOrder[Above[k]]
      BY <3>1, <3>3
    <3>5. QED
      BY <2>2, <3>4 DEF LineAbove, PathAbove
  <2>3. QED
    BY <2>1, <2>2
<1>6. PathOrder[k] = Append(PathAbove(k), PathOrder[k][Len(PathOrder[k])])
  BY <1>3, PathShape
<1>7. QED
  BY <1>2, <1>4, <1>5, <1>6

\* A text as the parser keeps it.
Plainly(t) == [open |-> "none", word |-> t, close |-> "none"]

\* Quotes around a text are taken off, and the text is kept.
LEMMA QuotesTakenOff ==
  ASSUME NEW t
  PROVE  parseScalarValue(InQuotes(t)) = Plainly(t) /\ TextOf(Plainly(t)) = t
BY DEF parseScalarValue, InQuotes, Plainly, TextOf

\* The names are the items of their block.
LEMMA NamesListed ==
  ASSUME NEW P, NEW doc, DocumentTree(P, doc), NEW ls \in Lines, NEW at, LaidOut(P, doc, ls, at),
         12 \in P, NEW o \in 1 .. Len(Names(doc))
  PROVE  ItemsOf(ls, at[12] + 1 + o) = [q \in 1 .. Len(Names(doc)) |-> Plainly(Names(doc)[q])]
<1> DEFINE i == at[12] + 1 + o
           a == at[12] + 1
           N == Len(Names(doc))
           V == {Plainly(t) : t \in Text}
           s(q) == [r \in 1 .. q |-> Plainly(Names(doc)[r])]
           items(n) == ItemsAmong(ls, i, n)
<1>1. a \in Nat /\ N \in Nat \ {0} /\ Names(doc) \in Seq(Text) /\ Len(ls) \in Nat
  BY LineOrder, NamesCounted, LineNumbers
<1>2. Siblings(ls, i) = {a + q : q \in 1 .. N}
  BY NameSiblings
<1>3. \A q \in 1 .. N : a + q \in 1 .. Len(ls) /\ parseScalarValue(ls[a + q].value) = Plainly(Names(doc)[q])
  BY LineOrder, NameFields, QuotesTakenOff
<1>4. items(a) = <<>>
  <2> DEFINE h == at[12] + 1 + 1
  <2>1. 1 \in 1 .. N
    BY <1>1
  <2>2. Siblings(ls, h) = Siblings(ls, i)
    <3>1. Siblings(ls, h) = {a + q : q \in 1 .. N}
      BY <2>1, NameSiblings
    <3>2. QED
      BY <1>2, <3>1
  <2>3. h \in 1 .. Len(ls) /\ ParentLine(ls, h) = a
    BY <2>1, LineOrder, NameParent
  <2>4. h - 1 = a
    BY <1>1
  <2> HIDE DEF h, a, i
  <2>5. ItemsAmong(ls, h, h - 1) = <<>>
    BY <2>3, <2>4, NoItemsAbove
  <2>6. ItemsAmong(ls, h, a) = ItemsAmong(ls, i, a)
    BY <2>2 DEF ItemsAmong
  <2>7. QED
    BY <2>4, <2>5, <2>6
<1>5. \A q \in 0 .. N : s(q) \in Seq(V) /\ Len(s(q)) = q
  <2>1. ASSUME NEW q \in 0 .. N
        PROVE  s(q) \in Seq(V) /\ Len(s(q)) = q
    <3>1. q \in Nat /\ \A r \in 1 .. q : r \in 1 .. N
      BY <1>1
    <3>2. \A r \in 1 .. q : Names(doc)[r] \in Text
      BY <1>1, <3>1
    <3>3. s(q) \in [1 .. q -> V]
      BY <3>2
    <3> HIDE DEF s, V
    <3>4. QED
      BY <3>1, <3>3
  <2>2. QED
    BY <2>1
<1> HIDE DEF i, a, N
<1> DEFINE G == {q \in 0 .. N : items(a + q) = s(q)}
<1>6. 0 \in G
  <2>1. a + 0 = a /\ 0 \in 0 .. N
    BY <1>1
  <2>2. s(0) = <<>>
    OBVIOUS
  <2>3. QED
    BY <1>4, <2>1, <2>2
<1>7. ASSUME NEW q \in 0 .. N - 1, q \in G
      PROVE  q + 1 \in G
  <2>1. q + 1 \in 1 .. N /\ q \in 0 .. N /\ q + 1 \in 0 .. N /\ q \in Nat
    BY <1>1
  <2>2. PICK x : x = a + (q + 1)
    OBVIOUS
  <2>3. x \in 1 .. Len(ls) /\ x - 1 = a + q /\ x \in Siblings(ls, i)
    BY <1>1, <1>2, <1>3, <2>1, <2>2
  <2>4. items(x) = Append(items(x - 1), parseScalarValue(ls[x].value))
    BY <2>3, ItemsNext
  <2>5. items(x) = Append(s(q), Plainly(Names(doc)[q + 1]))
    BY <1>3, <1>7, <2>1, <2>2, <2>3, <2>4
  <2>6. Append(s(q), Plainly(Names(doc)[q + 1])) = s(q + 1)
    <3> DEFINE e == Plainly(Names(doc)[q + 1])
    <3>1. s(q) \in Seq(V) /\ s(q + 1) \in Seq(V) /\ Len(s(q)) = q /\ Len(s(q + 1)) = q + 1
      BY <1>5, <2>1
    <3>2. e \in V
      <4>1. Names(doc)[q + 1] \in Text
        BY <1>1, <2>1 DEF N
      <4>2. QED
        BY <4>1
    <3>3. (\A r \in 1 .. q : s(q + 1)[r] = s(q)[r]) /\ s(q + 1)[q + 1] = e
      <4>1. \A r \in 1 .. q : r \in 1 .. q + 1
        BY <2>1
      <4>2. q + 1 \in 1 .. q + 1
        BY <2>1
      <4>3. QED
        BY <4>1, <4>2
    <3> HIDE DEF s, V, e
    <3>4. \A u, v \in Seq(V) : \A n \in Nat : Len(u) = n /\ Len(v) = n + 1
            /\ (\A r \in 1 .. n : v[r] = u[r]) /\ v[n + 1] = e => Append(u, e) = v
      <4>1. SUFFICES ASSUME NEW u \in Seq(V), NEW v \in Seq(V), NEW n \in Nat, Len(u) = n, Len(v) = n + 1,
                            \A r \in 1 .. n : v[r] = u[r], v[n + 1] = e
                     PROVE  Append(u, e) = v
        OBVIOUS
      <4>2. Append(u, e) \in Seq(V) /\ Len(Append(u, e)) = n + 1
        BY <3>2, <4>1
      <4>3. \A r \in 1 .. n + 1 : Append(u, e)[r] = v[r]
        BY <3>2, <4>1
      <4>4. QED
        BY <4>1, <4>2, <4>3, SeqEqual
    <3>5. QED
      BY <2>1, <3>1, <3>3, <3>4 DEF e
  <2>7. QED
    BY <2>1, <2>2, <2>5, <2>6
<1>8. items(a + N) = s(N)
  <2>1. \A q \in 0 .. N : q \in G
    <3> HIDE DEF G
    <3> QED
      BY <1>1, <1>6, <1>7, UpTo
  <2>2. N \in 0 .. N
    BY <1>1
  <2>3. QED
    BY <2>1, <2>2
<1> DEFINE M == Len(ls) - (a + N)
           H == {m \in 0 .. M : items(a + N + m) = s(N)}
<1>9. M \in Nat
  <2>1. N \in 1 .. N
    BY <1>1
  <2>2. QED
    BY <1>1, <1>3, <2>1
<1>10. 0 \in H
  <2>1. a + N + 0 = a + N
    BY <1>1
  <2>2. QED
    BY <1>8, <1>9, <2>1
<1>11. ASSUME NEW m \in 0 .. M - 1, m \in H
       PROVE  m + 1 \in H
  <2>1. PICK x : x = a + N + (m + 1)
    OBVIOUS
  <2>2. x \in 1 .. Len(ls) /\ x - 1 = a + N + m /\ m + 1 \in 0 .. M
    BY <1>1, <1>9, <2>1
  <2>3. x \notin Siblings(ls, i)
    <3>1. \A q \in 1 .. N : x # a + q
      BY <1>1, <2>1
    <3>2. QED
      BY <1>2, <3>1
  <2>4. items(x) = items(x - 1)
    BY <2>2, <2>3, ItemsNext
  <2>5. QED
    BY <1>11, <2>1, <2>2, <2>4
<1>12. items(Len(ls)) = s(N)
  <2>1. \A m \in 0 .. M : m \in H
    <3> HIDE DEF H, M
    <3> QED
      BY <1>9, <1>10, <1>11, UpTo
  <2>2. M \in 0 .. M /\ a + N + M = Len(ls)
    BY <1>1, <1>9
  <2>3. QED
    BY <2>1, <2>2
<1>13. QED
  BY <1>12 DEF ItemsOf, i, N

\* What the parser makes of a node.
ParsedNode(node) ==
  [kind |-> IF node.kind = "string" THEN "scalar" ELSE node.kind,
   items |-> [i \in DOMAIN node.items |-> Plainly(node.items[i])]]

\* What a line says of the node at its path.
LEMMA LineMeanings ==
  ASSUME NEW P, NEW doc, DocumentTree(P, doc), NEW ls \in Lines, NEW at, LaidOut(P, doc, ls, at)
  PROVE  /\ \A k \in P \ {12} :
              /\ PathOf(ls, at[k] + 1) = PathOrder[k]
              /\ NodeAt(ls, at[k] + 1) = ParsedNode(doc[PathOrder[k]])
         /\ 12 \in P => \A o \in 1 .. Len(Names(doc)) :
              /\ PathOf(ls, at[12] + 1 + o) = PathOrder[12]
              /\ NodeAt(ls, at[12] + 1 + o) = ParsedNode(doc[PathOrder[12]])
<1>1. ASSUME NEW k \in P \ {12}
      PROVE  /\ PathOf(ls, at[k] + 1) = PathOrder[k]
             /\ NodeAt(ls, at[k] + 1) = ParsedNode(doc[PathOrder[k]])
  <2> DEFINE i == at[k] + 1
  <2>1. i \in 1 .. Len(ls) /\ k \in 1 .. 26
    BY LineOrder
  <2>2. ls[i].form = "entry" /\ (Opens(ls[i]) <=> k \in MappingPlaces)
    BY KeyFields
  <2>3. PathOf(ls, i) = LinePaths(ls)[i]
    <3>1. LinePaths(ls)[i] = Append(LinePaths(ls)[ParentLine(ls, i)], ls[i].key)
      BY <2>1, PathFacts
    <3> HIDE DEF i
    <3>2. QED
      BY <2>2, <3>1 DEF PathOf, BlockPath
  <2>4. LinePaths(ls)[i] = PathOrder[k]
    BY KeyPaths
  <2>5. CASE k \in MappingPlaces
    <3>1. doc[PathOrder[k]] = MappingNode
      BY <2>5 DEF DocumentTree
    <3>2. NodeAt(ls, i) = Mapping
      <4> HIDE DEF i
      <4> QED
        BY <2>2, <2>5 DEF NodeAt
    <3>3. ParsedNode(MappingNode) = Mapping
      BY DEF ParsedNode, MappingNode, Mapping
    <3>4. QED
      BY <2>3, <2>4, <3>1, <3>2, <3>3
  <2>6. CASE k \notin MappingPlaces
    <3>1. PICK t \in Text : /\ doc[PathOrder[k]] = [kind |-> "string", text |-> t, items |-> <<t>>]
                            /\ ls[i].value = InQuotes(t)
      <4>1. k \in P /\ k \notin MappingPlaces \cup {12}
        BY <2>6
      <4>2. PICK t \in Text : doc[PathOrder[k]] = [kind |-> "string", text |-> t, items |-> <<t>>]
        BY <4>1 DEF DocumentTree
      <4>3. IsKeyLine(ls[at[k] + 1], doc, k)
        BY <4>1 DEF LaidOut
      <4>4. ls[i].value = InQuotes(t)
        BY <4>1, <4>2, <4>3 DEF IsKeyLine
      <4>5. QED
        BY <4>2, <4>4
    <3>2. NodeAt(ls, i) = [kind |-> "scalar", items |-> <<Plainly(t)>>]
      <4> HIDE DEF i
      <4> QED
        BY <2>2, <2>6, <3>1, QuotesTakenOff DEF NodeAt
    <3>3. ParsedNode([kind |-> "string", text |-> t, items |-> <<t>>]) = [kind |-> "scalar", items |-> <<Plainly(t)>>]
      <4>1. [j \in DOMAIN <<t>> |-> Plainly(<<t>>[j])] = <<Plainly(t)>>
        <5>1. DOMAIN <<t>> = 1 .. 1 /\ DOMAIN <<Plainly(t)>> = 1 .. 1
          OBVIOUS
        <5>2. <<t>>[1] = t /\ <<Plainly(t)>>[1] = Plainly(t)
          OBVIOUS
        <5>3. \A j \in 1 .. 1 : j = 1
          OBVIOUS
        <5>4. <<Plainly(t)>> = [j \in 1 .. 1 |-> Plainly(t)]
          OBVIOUS
        <5>5. QED
          BY <5>1, <5>2, <5>3, <5>4
      <4>2. QED
        BY <4>1 DEF ParsedNode
    <3>4. QED
      BY <2>3, <2>4, <3>1, <3>2, <3>3
  <2>7. QED
    BY <2>5, <2>6
<1>2. ASSUME 12 \in P, NEW o \in 1 .. Len(Names(doc))
      PROVE  /\ PathOf(ls, at[12] + 1 + o) = PathOrder[12]
             /\ NodeAt(ls, at[12] + 1 + o) = ParsedNode(doc[PathOrder[12]])
  <2> DEFINE i == at[12] + 1 + o
  <2>1. ls[i].form = "item"
    BY <1>2, NameFields
  <2>2. PathOf(ls, i) = LinePaths(ls)[at[12] + 1]
    <3>1. ParentLine(ls, i) = at[12] + 1
      BY <1>2, NameParent
    <3> HIDE DEF i
    <3>2. QED
      BY <2>1, <3>1 DEF PathOf, BlockPath
  <2>3. LinePaths(ls)[at[12] + 1] = PathOrder[12]
    BY <1>2, KeyPaths
  <2>4. PICK s \in Seq(Text) \ {<<>>} : doc[PathOrder[12]] = [kind |-> "list", text |-> Empty, items |-> s]
    BY <1>2 DEF DocumentTree
  <2>5. Names(doc) = s /\ DOMAIN s = 1 .. Len(s)
    BY <2>4 DEF Names
  <2>6. NodeAt(ls, i) = [kind |-> "list", items |-> [q \in 1 .. Len(s) |-> Plainly(s[q])]]
    <3>1. ItemsOf(ls, i) = [q \in 1 .. Len(s) |-> Plainly(s[q])]
      BY <1>2, <2>5, NamesListed
    <3> HIDE DEF i
    <3>2. QED
      BY <2>1, <3>1 DEF NodeAt
  <2>7. ParsedNode(doc[PathOrder[12]]) = [kind |-> "list", items |-> [q \in 1 .. Len(s) |-> Plainly(s[q])]]
    BY <2>4, <2>5 DEF ParsedNode
  <2>8. QED
    BY <2>2, <2>3, <2>6, <2>7
<1>3. QED
  BY <1>1, <1>2

\* The lines of a document mean the document.
LEMMA DocumentMeaning ==
  ASSUME NEW P, NEW doc, DocumentTree(P, doc), NEW ls \in Lines, NEW at, LaidOut(P, doc, ls, at)
  PROVE  Meaning(ls) = {<<p, ParsedNode(doc[p])>> : p \in DOMAIN doc}
<1> DEFINE I == {j \in DOMAIN ls : Opens(ls[j]) => ls[j + 1].form # "item"}
           L == {<<PathOf(ls, i), NodeAt(ls, i)>> : i \in I}
           Q == {<<p, ParsedNode(doc[p])>> : p \in DOMAIN doc}
<1>1. Meaning(ls) = {<<<<>>, Mapping>>} \cup L
  BY DEF Meaning
<1>2. DOMAIN doc = {<<>>} \cup {PathOrder[k] : k \in P} /\ doc[<<>>] = MappingNode
  BY DEF DocumentTree
<1>3. ParsedNode(doc[<<>>]) = Mapping
  BY <1>2 DEF ParsedNode, MappingNode, Mapping
<1>4. ASSUME NEW i \in I
      PROVE  <<PathOf(ls, i), NodeAt(ls, i)>> \in Q
  <2>1. i \in 1 .. Len(ls)
    BY LineNumbers
  <2>2. ASSUME NEW k \in P, i = at[k] + 1
        PROVE  <<PathOf(ls, i), NodeAt(ls, i)>> \in Q
    <3>1. k # 12
      <4>1. SUFFICES ASSUME k = 12 PROVE FALSE
        OBVIOUS
      <4>2. Opens(ls[i])
        BY <2>2, <4>1, KeyFields
      <4>3. 1 \in 1 .. Len(Names(doc))
        BY <4>1, NamesCounted
      <4>4. ls[at[12] + 1 + 1].form = "item"
        BY <4>1, <4>3, NameFields
      <4>5. ls[i + 1].form = "item"
        BY <2>2, <4>1, <4>4
      <4>6. QED
        BY <1>4, <4>2, <4>5
    <3>2. PathOf(ls, i) = PathOrder[k] /\ NodeAt(ls, i) = ParsedNode(doc[PathOrder[k]])
      BY <2>2, <3>1, LineMeanings
    <3>3. PathOrder[k] \in DOMAIN doc
      BY <1>2
    <3>4. QED
      BY <3>2, <3>3
  <2>3. ASSUME 12 \in P, NEW o \in 1 .. Len(Names(doc)), i = at[12] + 1 + o
        PROVE  <<PathOf(ls, i), NodeAt(ls, i)>> \in Q
    <3>1. PathOf(ls, i) = PathOrder[12] /\ NodeAt(ls, i) = ParsedNode(doc[PathOrder[12]])
      BY <2>3, LineMeanings
    <3>2. PathOrder[12] \in DOMAIN doc
      BY <1>2, <2>3
    <3>3. QED
      BY <3>1, <3>2
  <2> HIDE DEF I, Q
  <2>4. QED
    BY <2>1, <2>2, <2>3 DEF LaidOut
<1>5. ASSUME NEW k \in P
      PROVE  <<PathOrder[k], ParsedNode(doc[PathOrder[k]])>> \in L
  <2>1. CASE k = 12
    <3>1. 1 \in 1 .. Len(Names(doc))
      BY <2>1, NamesCounted
    <3> DEFINE i == at[12] + 1 + 1
    <3>2. i \in DOMAIN ls /\ ~ Opens(ls[i])
      BY <2>1, <3>1, LineOrder, LineNumbers, NameFields
    <3>3. PathOf(ls, i) = PathOrder[12] /\ NodeAt(ls, i) = ParsedNode(doc[PathOrder[12]])
      BY <2>1, <3>1, LineMeanings
    <3> HIDE DEF i
    <3>4. i \in I
      BY <3>2
    <3>5. QED
      BY <2>1, <3>3, <3>4
  <2>2. CASE k # 12
    <3> DEFINE i == at[k] + 1
    <3>1. i \in DOMAIN ls
      BY LineOrder, LineNumbers
    <3>2. Opens(ls[i]) => ls[i + 1].form # "item"
      <4>1. SUFFICES ASSUME Opens(ls[i]) PROVE ls[i + 1].form # "item"
        OBVIOUS
      <4>2. k \in MappingPlaces
        BY <2>2, <4>1, KeyFields
      <4>3. PICK m \in P : i + 1 = at[m] + 1
        BY <4>2, NextKey
      <4>4. ls[i + 1].form = "entry"
        BY <4>3, KeyFields
      <4>5. QED
        BY <4>4
    <3>3. PathOf(ls, i) = PathOrder[k] /\ NodeAt(ls, i) = ParsedNode(doc[PathOrder[k]])
      BY <2>2, LineMeanings
    <3> HIDE DEF i
    <3>4. i \in I
      BY <3>1, <3>2
    <3>5. QED
      BY <3>3, <3>4
  <2>3. QED
    BY <2>1, <2>2
<1>6. L \subseteq Q
  <2> HIDE DEF I, Q
  <2> QED
    BY <1>4
<1>7. Q \subseteq {<<<<>>, Mapping>>} \cup L
  <2>1. SUFFICES ASSUME NEW p \in DOMAIN doc
                 PROVE  <<p, ParsedNode(doc[p])>> \in {<<<<>>, Mapping>>} \cup L
    OBVIOUS
  <2> HIDE DEF L
  <2>2. QED
    BY <1>2, <1>3, <1>5, <2>1
<1>8. <<<<>>, Mapping>> \in Q
  BY <1>2, <1>3
<1> HIDE DEF L, Q
<1>9. Meaning(ls) = Q
  BY <1>1, <1>6, <1>7, <1>8
<1>10. QED
  BY <1>9 DEF Q

\* Two functions with the same pairs are the same.
LEMMA SamePairs ==
  ASSUME NEW u, NEW v, {<<p, u[p]>> : p \in DOMAIN u} = {<<p, v[p]>> : p \in DOMAIN v}
  PROVE  DOMAIN u = DOMAIN v /\ \A p \in DOMAIN u : u[p] = v[p]
<1>1. ASSUME NEW p \in DOMAIN u
      PROVE  p \in DOMAIN v /\ u[p] = v[p]
  <2>1. <<p, u[p]>> \in {<<q, v[q]>> : q \in DOMAIN v}
    OBVIOUS
  <2>2. PICK q \in DOMAIN v : <<p, u[p]>> = <<q, v[q]>>
    BY <2>1
  <2>3. p = q /\ u[p] = v[q]
    BY <2>2
  <2>4. QED
    BY <2>3
<1>2. ASSUME NEW p \in DOMAIN v
      PROVE  p \in DOMAIN u
  <2>1. <<p, v[p]>> \in {<<q, u[q]>> : q \in DOMAIN u}
    OBVIOUS
  <2>2. PICK q \in DOMAIN u : <<p, v[p]>> = <<q, u[q]>>
    BY <2>1
  <2>3. p = q
    BY <2>2
  <2>4. QED
    BY <2>3
<1>3. QED
  BY <1>1, <1>2

\* What was read of the lines of a document is the document.
LEMMA ReadBack ==
  ASSUME NEW P, NEW doc, DocumentTree(P, doc),
         {<<p, values[p]>> : p \in DOMAIN values} = {<<p, ParsedNode(doc[p])>> : p \in DOMAIN doc}
  PROVE  Parsed = doc
<1> DEFINE v == [p \in DOMAIN doc |-> ParsedNode(doc[p])]
           texts(p) == [i \in DOMAIN values[p].items |-> TextOf(values[p].items[i])]
           node(p) == [kind |-> IF values[p].kind = "scalar" THEN "string" ELSE values[p].kind,
                       text |-> IF values[p].kind = "scalar" THEN texts(p)[1] ELSE Empty,
                       items |-> texts(p)]
<1>1. DOMAIN v = DOMAIN doc /\ \A p \in DOMAIN doc : v[p] = ParsedNode(doc[p])
  OBVIOUS
<1> HIDE DEF v
<1>2. {<<p, ParsedNode(doc[p])>> : p \in DOMAIN doc} = {<<p, v[p]>> : p \in DOMAIN v}
  BY <1>1
<1>3. DOMAIN values = DOMAIN doc /\ \A p \in DOMAIN doc : values[p] = ParsedNode(doc[p])
  <2>1. DOMAIN values = DOMAIN v /\ \A p \in DOMAIN values : values[p] = v[p]
    BY <1>2, SamePairs
  <2>2. QED
    BY <1>1, <2>1
<1>4. ASSUME NEW p \in DOMAIN doc, NEW s, DOMAIN doc[p].items = DOMAIN s, s = [i \in DOMAIN s |-> s[i]], doc[p].items = s
      PROVE  texts(p) = s
  <2>1. values[p].items = [i \in DOMAIN s |-> Plainly(s[i])]
    BY <1>3, <1>4 DEF ParsedNode
  <2>2. \A i \in DOMAIN s : TextOf(values[p].items[i]) = s[i]
    BY <2>1, QuotesTakenOff
  <2>3. DOMAIN values[p].items = DOMAIN s
    BY <2>1
  <2>4. QED
    BY <1>4, <2>2, <2>3
<1>5. ASSUME NEW p \in DOMAIN doc
      PROVE  node(p) = doc[p]
  <2>1. CASE doc[p] = MappingNode
    <3>1. texts(p) = <<>>
      <4>1. DOMAIN <<>> = {} /\ <<>> = [i \in {} |-> i]
        OBVIOUS
      <4>2. doc[p].items = <<>>
        BY <2>1 DEF MappingNode
      <4>3. values[p].items = <<>>
        <5>1. values[p].items = [i \in DOMAIN <<>> |-> Plainly(doc[p].items[i])]
          BY <1>3, <4>2 DEF ParsedNode
        <5>2. QED
          BY <4>1, <5>1
      <4>4. QED
        BY <4>1, <4>3
    <3>2. values[p].kind = "map"
      BY <1>3, <2>1 DEF ParsedNode, MappingNode
    <3> HIDE DEF texts
    <3>3. QED
      BY <2>1, <3>1, <3>2 DEF MappingNode
  <2>2. CASE \E t \in Text : doc[p] = [kind |-> "string", text |-> t, items |-> <<t>>]
    <3>1. PICK t \in Text : doc[p] = [kind |-> "string", text |-> t, items |-> <<t>>]
      BY <2>2
    <3>2. texts(p) = <<t>>
      BY <1>4, <3>1
    <3>3. values[p].kind = "scalar"
      BY <1>3, <3>1 DEF ParsedNode
    <3> HIDE DEF texts
    <3>4. QED
      BY <3>1, <3>2, <3>3
  <2>3. CASE \E s \in Seq(Text) : doc[p] = [kind |-> "list", text |-> Empty, items |-> s]
    <3>1. PICK s \in Seq(Text) : doc[p] = [kind |-> "list", text |-> Empty, items |-> s]
      BY <2>3
    <3>2. s = [i \in DOMAIN s |-> s[i]]
      OBVIOUS
    <3>3. texts(p) = s
      BY <1>4, <3>1, <3>2
    <3>4. values[p].kind = "list"
      BY <1>3, <3>1 DEF ParsedNode
    <3> HIDE DEF texts
    <3>5. QED
      BY <3>1, <3>3, <3>4
  <2>4. \/ doc[p] = MappingNode
        \/ \E t \in Text : doc[p] = [kind |-> "string", text |-> t, items |-> <<t>>]
        \/ \E s \in Seq(Text) : doc[p] = [kind |-> "list", text |-> Empty, items |-> s]
    <3>1. p = <<>> \/ \E k \in P : p = PathOrder[k]
      BY DEF DocumentTree
    <3>2. CASE p = <<>>
      BY <3>2 DEF DocumentTree
    <3>3. CASE \E k \in P : p = PathOrder[k]
      <4>1. PICK k \in P : p = PathOrder[k]
        BY <3>3
      <4>2. CASE k \in MappingPlaces
        BY <4>1, <4>2 DEF DocumentTree
      <4>3. CASE k = 12
        BY <4>1, <4>3 DEF DocumentTree
      <4>4. CASE k \notin MappingPlaces \cup {12}
        BY <4>1, <4>4 DEF DocumentTree
      <4>5. QED
        BY <4>2, <4>3, <4>4
    <3>4. QED
      BY <3>1, <3>2, <3>3
  <2>5. QED
    BY <2>1, <2>2, <2>3, <2>4
<1>6. Parsed = [p \in DOMAIN values |-> node(p)]
  BY DEF Parsed
<1>7. doc = [p \in DOMAIN doc |-> doc[p]]
  BY DEF DocumentTree
<1> HIDE DEF node
<1>8. QED
  BY <1>3, <1>5, <1>6, <1>7

\* The parser reads the lines of the document of an environment as that document.
LEMMA YamlUnderstood ==
  ASSUME NEW env, IsEnvironment(env), Given(env) # {}, document = LinesOf(env), ParserInv
  PROVE  status # "error" /\ (status = "ok" => Parsed = DocumentOf(env))
<1> DEFINE P == Present(env)
           doc == DocumentOf(env)
<1>1. DocumentTree(P, doc)
  BY DocumentIsTree
<1>2. document = YamlOf(doc)
  BY DEF LinesOf
<1> HIDE DEF P, doc
<1>3. /\ Unscanned(TrimDocument(document)) = {} /\ Written \in Lines
      /\ \E at : LaidOut(P, doc, Written, at)
  BY <1>1, <1>2, WrittenLaidOut
<1>4. PICK at : LaidOut(P, doc, Written, at)
  BY <1>3
<1>5. Misfits(Written) = {} /\ ~ IsListed(Written)
  BY <1>1, <1>3, <1>4, AllFit
<1>6. status # "error"
  BY <1>3, <1>5 DEF ParserInv, BlamesFirstMisfit
<1>7. ASSUME status = "ok"
      PROVE  Parsed = doc
  <2>1. {<<p, values[p]>> : p \in DOMAIN values} = Meaning(Written)
    BY <1>7 DEF ParserInv, TreeIsIndentation
  <2>2. Meaning(Written) = {<<p, ParsedNode(doc[p])>> : p \in DOMAIN doc}
    BY <1>1, <1>3, <1>4, DocumentMeaning
  <2>3. QED
    BY <1>1, <2>1, <2>2, ReadBack
<1>8. QED
  BY <1>6, <1>7 DEF doc

-----------------------------------------------------------------------------
(***************************************************************************)
(* What is read of the document of an environment.                         *)
(***************************************************************************)
\* The document has the keys of the variables that are set, with their values.
LEMMA SettingAt ==
  ASSUME NEW env, NEW v \in DOMAIN KeyOf
  PROVE  /\ KeyOf[v] \in DOMAIN DocumentOf(env) <=> env[v] # Unset
         /\ env[v] # Unset => DocumentOf(env)[KeyOf[v]] = Leaf(v, env[v])
<1>1. Place[v] \in 1 .. 26 /\ KeyOf[v] = PathOrder[Place[v]]
  BY VariablePlace
<1>2. v \in Given(env) <=> env[v] # Unset
  BY DEF Given
<1>3. KeyOf[v] # <<>>
  <2>1. Len(PathOrder[Place[v]]) \in 1 .. 4
    BY <1>1, PathNesting
  <2>2. Len(<<>>) \notin 1 .. 4
    OBVIOUS
  <2>3. QED
    BY <1>1, <2>1, <2>2
<1>4. DOMAIN DocumentOf(env) = {<<>>} \cup {PathOrder[k] : k \in Present(env)}
  BY DocumentPlaces
<1>5. Present(env) \subseteq 1 .. 26 /\ (Place[v] \in Present(env) <=> v \in Given(env))
  BY PresentFacts
<1>6. \A k \in Present(env) : PathOrder[k] = KeyOf[v] => k = Place[v]
  BY <1>1, <1>5, PathsDiffer
<1>7. KeyOf[v] \in DOMAIN DocumentOf(env) <=> env[v] # Unset
  BY <1>1, <1>2, <1>3, <1>4, <1>5, <1>6
<1>8. env[v] # Unset => DocumentOf(env)[KeyOf[v]] = Leaf(v, env[v])
  BY <1>1, <1>2, DocumentPlaces
<1>9. QED
  BY <1>7, <1>8

\* There is no white space around nothing.
LEMMA NothingToTrim == TrimSpace(Empty) = Empty
<1>1. /\ DOMAIN Empty = {"word", "cased", "padded"} /\ Empty = [x \in DOMAIN Empty |-> Empty[x]]
      /\ Empty["padded"] = FALSE
  BY DEF Empty, Plain
<1>2. QED
  BY <1>1 DEF TrimSpace

\* A text without white space around it is a text.
LEMMA TrimmedText ==
  ASSUME NEW t \in Text
  PROVE  /\ TrimSpace(t) \in Text /\ TrimSpace(TrimSpace(t)) = TrimSpace(t)
         /\ t # Unset /\ t # Malformed
         /\ ~ t.padded => TrimSpace(t) = t
         /\ TrimSpace(Empty) = Empty
<1>1. TrimSpace(Empty) = Empty
  BY NothingToTrim
<1>2. TrimSpace(t) \in Text /\ TrimSpace(TrimSpace(t)) = TrimSpace(t)
  BY DEF Text, TrimSpace
<1>3. ~ t.padded => TrimSpace(t) = t
  BY DEF Text, TrimSpace
<1>4. t # Unset /\ t # Malformed
  BY ValuesAssumption
<1>5. QED
  BY <1>1, <1>2, <1>3, <1>4

\* A variable of one text, read from the document, is what it is itself.
LEMMA TextRead ==
  ASSUME NEW env, IsEnvironment(env),
         NEW v \in DOMAIN KeyOf \ {"COLLECTOR_PACKAGE_NAMES"},
         env[v] # Unset => TrimSpace(env[v]) # Empty
  PROVE  LET doc == DocumentOf(env)
         IN  /\ Setting(env, v) \notin {Unset, Malformed}
             /\ Setting(env, v) = Empty <=> env[v] = Unset
             /\ optionalStringValue(doc, KeyOf[v]) = IF env[v] = Unset THEN Unset ELSE Setting(env, v)
             /\ String(doc, KeyOf[v]) = Setting(env, v)
             /\ optionalBoolPointerValue(doc, KeyOf[v]) = loadOptionalBool(env, v)
             /\ optionalIntValue(doc, KeyOf[v]) = loadOptionalInt(env, v)
<1> DEFINE doc == DocumentOf(env)
           p == KeyOf[v]
<1>1. env[v] \in Text \cup {Unset}
  BY DEF IsEnvironment
<1>2. p \in DOMAIN doc <=> env[v] # Unset
  BY SettingAt
<1>3. env[v] # Unset => doc[p] = [kind |-> "string", text |-> env[v], items |-> <<env[v]>>]
  BY SettingAt DEF Leaf
<1>4. TrimSpace(Empty) = Empty /\ Empty # Unset /\ Empty # Malformed
  BY NothingToTrim, ValuesAssumption
<1>5. \A t : Atoi(t) # Unset
  BY ValuesAssumption DEF Atoi
<1> HIDE DEF doc, p
<1>6. CASE env[v] = Unset
  <2>1. Setting(env, v) = Empty
    BY <1>4, <1>6 DEF Setting, Getenv
  <2>2. p \notin DOMAIN doc
    BY <1>2, <1>6
  <2>3. optionalStringValue(doc, p) = Unset
    BY <2>2 DEF optionalStringValue, Optional
  <2>4. optionalBoolPointerValue(doc, p) = Unset
    BY <2>2 DEF optionalBoolPointerValue, Optional
  <2>5. optionalIntValue(doc, p) = 0
    BY <2>2 DEF optionalIntValue, Optional, Default
  <2>6. QED
    BY <1>4, <1>6, <2>1, <2>3, <2>4, <2>5 DEF String, Default, loadOptionalBool, loadOptionalInt, doc, p
<1>7. CASE env[v] # Unset
  <2>1. PICK t \in Text : env[v] = t
    BY <1>1, <1>7
  <2>2. Setting(env, v) = TrimSpace(t) /\ TrimSpace(t) # Empty
      /\ TrimSpace(t) # Unset /\ TrimSpace(t) # Malformed
    BY <1>7, <2>1, TrimmedText DEF Setting, Getenv
  <2>3. p \in DOMAIN doc /\ doc[p].kind = "string" /\ doc[p].text = t
    BY <1>2, <1>3, <1>7, <2>1
  <2>4. optionalStringValue(doc, p) = TrimSpace(t)
    BY <2>3 DEF optionalStringValue, Optional
  <2>5. optionalBoolPointerValue(doc, p) = parseBooleanValue(t)
    BY <2>3 DEF optionalBoolPointerValue, Optional
  <2>6. optionalIntValue(doc, p) = Atoi(TrimSpace(t))
    BY <1>5, <2>3 DEF optionalIntValue, Optional, Default
  <2>7. String(doc, p) = TrimSpace(t)
    BY <2>2, <2>4 DEF String, Default
  <2>8. loadOptionalBool(env, v) = parseBooleanValue(t)
    BY <1>7, <2>1 DEF loadOptionalBool
  <2>9. loadOptionalInt(env, v) = Atoi(TrimSpace(t))
    BY <2>2 DEF loadOptionalInt
  <2>10. QED
    BY <1>7, <2>2, <2>4, <2>5, <2>6, <2>7, <2>8, <2>9 DEF doc, p
<1>8. QED
  BY <1>6, <1>7

\* The package names.
LEMMA NamesRead ==
  ASSUME NEW env, IsEnvironment(env)
  PROVE  /\ Default(optionalStringSliceValue(DocumentOf(env), Package("names")), <<>>)
              = loadOptionalCSV(env, "COLLECTOR_PACKAGE_NAMES")
         /\ loadOptionalCSV(env, "COLLECTOR_PACKAGE_NAMES") # Malformed
<1> DEFINE v == "COLLECTOR_PACKAGE_NAMES"
           doc == DocumentOf(env)
           p == KeyOf[v]
           x == env[v]
<1>1. v \in DOMAIN KeyOf /\ p = Package("names")
  BY DEF KeyOf
<1>2. x \in Seq(Text) \cup {Unset}
  BY DEF IsEnvironment
<1>3. p \in DOMAIN doc <=> x # Unset
  BY <1>1, SettingAt
<1>4. x # Unset => doc[p] = [kind |-> "list", text |-> Empty, items |-> x]
  BY <1>1, SettingAt DEF Leaf
<1>5. <<>> # Malformed /\ <<>> # Unset
  <2>1. <<>> \in Seq(Text)
    OBVIOUS
  <2>2. QED
    BY <2>1, ValuesAssumption
<1>6. ASSUME NEW s \in Seq(Text)
      PROVE  NonBlankItems(s) \in Seq(Text)
  <2> DEFINE e == [i \in DOMAIN s |->
                     LET t == TrimSpace(s[i]) IN IF t = Empty THEN <<>> ELSE <<t>>]
  <2>1. DOMAIN s = 1 .. Len(s) /\ Len(s) \in Nat
    OBVIOUS
  <2>2. ASSUME NEW i \in 1 .. Len(s)
        PROVE  e[i] \in Seq(Text)
    <3>1. s[i] \in Text
      OBVIOUS
    <3>2. TrimSpace(s[i]) \in Text
      BY <3>1, TrimmedText
    <3>3. e[i] = IF TrimSpace(s[i]) = Empty THEN <<>> ELSE <<TrimSpace(s[i])>>
      BY <2>1
    <3> HIDE DEF e
    <3>4. QED
      BY <3>2, <3>3
  <2>3. e = [i \in 1 .. Len(s) |-> e[i]]
    BY <2>1
  <2>4. NonBlankItems(s) = FlattenSeq(e)
    BY DEF NonBlankItems
  <2> HIDE DEF e
  <2>5. e \in [1 .. Len(s) -> Seq(Text)]
    BY <2>2, <2>3
  <2>6. QED
    BY <2>1, <2>4, <2>5, FlattenTyped
<1> HIDE DEF doc, p
<1>7. CASE x = Unset
  <2>1. optionalStringSliceValue(doc, p) = Unset
    BY <1>3, <1>7 DEF optionalStringSliceValue, Optional
  <2>2. loadOptionalCSV(env, v) = <<>>
    BY <1>7 DEF loadOptionalCSV
  <2>3. QED
    BY <1>1, <1>5, <2>1, <2>2 DEF Default, doc
<1>8. CASE x # Unset
  <2>1. x \in Seq(Text)
    BY <1>2, <1>8
  <2>2. p \in DOMAIN doc /\ doc[p].kind = "list" /\ doc[p].items = x
    BY <1>3, <1>4, <1>8
  <2>3. optionalStringSliceValue(doc, p) = NonBlankItems(x)
    BY <2>2 DEF optionalStringSliceValue, Optional
  <2>4. NonBlankItems(x) # Unset /\ NonBlankItems(x) # Malformed
    BY <1>6, <2>1, ValuesAssumption
  <2>5. loadOptionalCSV(env, v) = NonBlankItems(x)
    BY <1>8 DEF loadOptionalCSV
  <2>6. QED
    BY <1>1, <2>3, <2>4, <2>5 DEF Default, doc
<1>9. QED
  BY <1>7, <1>8

\* The variables of one text, and their keys as they are read.
LEMMA TextKeys ==
  /\ "NODE_ID" \in DOMAIN KeyOf \ {"COLLECTOR_PACKAGE_NAMES"}
  /\ KeyOf["NODE_ID"] = <<"node_id">>
  /\ "JOB_NAME" \in DOMAIN KeyOf \ {"COLLECTOR_PACKAGE_NAMES"}
  /\ KeyOf["JOB_NAME"] = <<"job_name">>
  /\ "INTERVAL" \in DOMAIN KeyOf \ {"COLLECTOR_PACKAGE_NAMES"}
  /\ KeyOf["INTERVAL"] = <<"interval">>
  /\ "COLLECTOR_TYPE" \in DOMAIN KeyOf \ {"COLLECTOR_PACKAGE_NAMES"}
  /\ KeyOf["COLLECTOR_TYPE"] = Append(Collector, "type")
  /\ "COLLECTOR_DOCKER_ENDPOINT" \in DOMAIN KeyOf \ {"COLLECTOR_PACKAGE_NAMES"}
  /\ KeyOf["COLLECTOR_DOCKER_ENDPOINT"] = Docker("endpoint")
  /\ "COLLECTOR_DOCKER_INCLUDE_STOPPED" \in DOMAIN KeyOf \ {"COLLECTOR_PACKAGE_NAMES"}
  /\ KeyOf["COLLECTOR_DOCKER_INCLUDE_STOPPED"] = Docker("include_stopped")
  /\ "COLLECTOR_DOCKER_WATCH_BY_DEFAULT" \in DOMAIN KeyOf \ {"COLLECTOR_PACKAGE_NAMES"}
  /\ KeyOf["COLLECTOR_DOCKER_WATCH_BY_DEFAULT"] = Docker("watch_by_default")
  /\ "COLLECTOR_PACKAGE_MANAGER" \in DOMAIN KeyOf \ {"COLLECTOR_PACKAGE_NAMES"}
  /\ KeyOf["COLLECTOR_PACKAGE_MANAGER"] = Package("manager")
  /\ "PUBLISHER_TYPE" \in DOMAIN KeyOf \ {"COLLECTOR_PACKAGE_NAMES"}
  /\ KeyOf["PUBLISHER_TYPE"] = <<"publisher", "type">>
  /\ "PUBLISHER_MQTT_HOST" \in DOMAIN KeyOf \ {"COLLECTOR_PACKAGE_NAMES"}
  /\ KeyOf["PUBLISHER_MQTT_HOST"] = MQTT("host")
  /\ "PUBLISHER_MQTT_PORT" \in DOMAIN KeyOf \ {"COLLECTOR_PACKAGE_NAMES"}
  /\ KeyOf["PUBLISHER_MQTT_PORT"] = MQTT("port")
  /\ "PUBLISHER_MQTT_USERNAME" \in DOMAIN KeyOf \ {"COLLECTOR_PACKAGE_NAMES"}
  /\ KeyOf["PUBLISHER_MQTT_USERNAME"] = MQTT("username")
  /\ "PUBLISHER_MQTT_PASSWORD" \in DOMAIN KeyOf \ {"COLLECTOR_PACKAGE_NAMES"}
  /\ KeyOf["PUBLISHER_MQTT_PASSWORD"] = MQTT("password")
  /\ "PUBLISHER_MQTT_TOPIC_PREFIX" \in DOMAIN KeyOf \ {"COLLECTOR_PACKAGE_NAMES"}
  /\ KeyOf["PUBLISHER_MQTT_TOPIC_PREFIX"] = MQTT("topic_prefix")
  /\ "PUBLISHER_MQTT_CLIENT_ID_PREFIX" \in DOMAIN KeyOf \ {"COLLECTOR_PACKAGE_NAMES"}
  /\ KeyOf["PUBLISHER_MQTT_CLIENT_ID_PREFIX"] = MQTT("client_id_prefix")
  /\ "PUBLISHER_MQTT_CONNECT_TIMEOUT" \in DOMAIN KeyOf \ {"COLLECTOR_PACKAGE_NAMES"}
  /\ KeyOf["PUBLISHER_MQTT_CONNECT_TIMEOUT"] = MQTT("connect_timeout")
  /\ "PUBLISHER_MQTT_RETAIN" \in DOMAIN KeyOf \ {"COLLECTOR_PACKAGE_NAMES"}
  /\ KeyOf["PUBLISHER_MQTT_RETAIN"] = MQTT("retain")
  /\ "PUBLISHER_MQTT_HOMEASSISTANT_ENABLED" \in DOMAIN KeyOf \ {"COLLECTOR_PACKAGE_NAMES"}
  /\ KeyOf["PUBLISHER_MQTT_HOMEASSISTANT_ENABLED"] = Append(HomeAssistant, "enabled")
  /\ "PUBLISHER_MQTT_HOMEASSISTANT_DISCOVERY_PREFIX" \in DOMAIN KeyOf \ {"COLLECTOR_PACKAGE_NAMES"}
  /\ KeyOf["PUBLISHER_MQTT_HOMEASSISTANT_DISCOVERY_PREFIX"] = Append(HomeAssistant, "discovery_prefix")
<1>1. Append(Collector, "type") = <<"collector", "type">>
  BY AppendTuple DEF Collector
<1>2. QED
  BY <1>1 DEF KeyOf

\* The settings read as texts, numbers or booleans.
LEMMA SettingsRead ==
  ASSUME NEW env, IsEnvironment(env), Comparable(env)
  PROVE  LET doc == DocumentOf(env)
         IN  /\ \A v \in DOMAIN KeyOf \ {"COLLECTOR_PACKAGE_NAMES"} :
                  Setting(env, v) \notin {Unset, Malformed} /\ (Setting(env, v) = Empty <=> env[v] = Unset)
             /\ optionalStringValue(doc, <<"interval">>)
                  = IF env["INTERVAL"] = Unset THEN Unset ELSE Setting(env, "INTERVAL")
             /\ String(doc, <<"node_id">>) = Setting(env, "NODE_ID")
             /\ String(doc, <<"job_name">>) = Setting(env, "JOB_NAME")
             /\ String(doc, Append(Collector, "type")) = Setting(env, "COLLECTOR_TYPE")
             /\ String(doc, Docker("endpoint")) = Setting(env, "COLLECTOR_DOCKER_ENDPOINT")
             /\ String(doc, Package("manager")) = Setting(env, "COLLECTOR_PACKAGE_MANAGER")
             /\ String(doc, <<"publisher", "type">>) = Setting(env, "PUBLISHER_TYPE")
             /\ String(doc, MQTT("host")) = Setting(env, "PUBLISHER_MQTT_HOST")
             /\ String(doc, MQTT("username")) = Setting(env, "PUBLISHER_MQTT_USERNAME")
             /\ String(doc, MQTT("password")) = Setting(env, "PUBLISHER_MQTT_PASSWORD")
             /\ String(doc, MQTT("topic_prefix")) = Setting(env, "PUBLISHER_MQTT_TOPIC_PREFIX")
             /\ String(doc, MQTT("client_id_prefix")) = Setting(env, "PUBLISHER_MQTT_CLIENT_ID_PREFIX")
             /\ String(doc, MQTT("connect_timeout")) = Setting(env, "PUBLISHER_MQTT_CONNECT_TIMEOUT")
             /\ String(doc, Append(HomeAssistant, "discovery_prefix")) = Setting(env, "PUBLISHER_MQTT_HOMEASSISTANT_DISCOVERY_PREFIX")
             /\ optionalBoolPointerValue(doc, Docker("include_stopped"))
                  = loadOptionalBool(env, "COLLECTOR_DOCKER_INCLUDE_STOPPED")
             /\ optionalBoolPointerValue(doc, Docker("watch_by_default"))
                  = loadOptionalBool(env, "COLLECTOR_DOCKER_WATCH_BY_DEFAULT")
             /\ optionalBoolPointerValue(doc, MQTT("retain"))
                  = loadOptionalBool(env, "PUBLISHER_MQTT_RETAIN")
             /\ optionalBoolPointerValue(doc, Append(HomeAssistant, "enabled"))
                  = loadOptionalBool(env, "PUBLISHER_MQTT_HOMEASSISTANT_ENABLED")
             /\ optionalIntValue(doc, MQTT("port")) = loadOptionalInt(env, "PUBLISHER_MQTT_PORT")
<1> DEFINE doc == DocumentOf(env)
<1>1. ASSUME NEW v \in DOMAIN KeyOf \ {"COLLECTOR_PACKAGE_NAMES"}
      PROVE  /\ Setting(env, v) \notin {Unset, Malformed} /\ (Setting(env, v) = Empty <=> env[v] = Unset)
             /\ optionalStringValue(doc, KeyOf[v]) = IF env[v] = Unset THEN Unset ELSE Setting(env, v)
             /\ String(doc, KeyOf[v]) = Setting(env, v)
             /\ optionalBoolPointerValue(doc, KeyOf[v]) = loadOptionalBool(env, v)
             /\ optionalIntValue(doc, KeyOf[v]) = loadOptionalInt(env, v)
  <2>1. env[v] # Unset => TrimSpace(env[v]) # Empty
    BY DEF IsEnvironment, Comparable
  <2>2. QED
    BY <2>1, TextRead
<1> HIDE DEF doc
<1>2. /\ optionalStringValue(doc, <<"interval">>)
           = IF env["INTERVAL"] = Unset THEN Unset ELSE Setting(env, "INTERVAL")
      /\ optionalIntValue(doc, MQTT("port")) = loadOptionalInt(env, "PUBLISHER_MQTT_PORT")
  BY <1>1, TextKeys
<1>3. /\ String(doc, <<"node_id">>) = Setting(env, "NODE_ID")
      /\ String(doc, <<"job_name">>) = Setting(env, "JOB_NAME")
      /\ String(doc, Append(Collector, "type")) = Setting(env, "COLLECTOR_TYPE")
      /\ String(doc, Docker("endpoint")) = Setting(env, "COLLECTOR_DOCKER_ENDPOINT")
      /\ String(doc, Package("manager")) = Setting(env, "COLLECTOR_PACKAGE_MANAGER")
  BY <1>1, TextKeys
<1>4. /\ String(doc, <<"publisher", "type">>) = Setting(env, "PUBLISHER_TYPE")
      /\ String(doc, MQTT("host")) = Setting(env, "PUBLISHER_MQTT_HOST")
      /\ String(doc, MQTT("username")) = Setting(env, "PUBLISHER_MQTT_USERNAME")
      /\ String(doc, MQTT("password")) = Setting(env, "PUBLISHER_MQTT_PASSWORD")
      /\ String(doc, MQTT("topic_prefix")) = Setting(env, "PUBLISHER_MQTT_TOPIC_PREFIX")
  BY <1>1, TextKeys
<1>5. /\ String(doc, MQTT("client_id_prefix")) = Setting(env, "PUBLISHER_MQTT_CLIENT_ID_PREFIX")
      /\ String(doc, MQTT("connect_timeout")) = Setting(env, "PUBLISHER_MQTT_CONNECT_TIMEOUT")
      /\ String(doc, Append(HomeAssistant, "discovery_prefix")) = Setting(env, "PUBLISHER_MQTT_HOMEASSISTANT_DISCOVERY_PREFIX")
  BY <1>1, TextKeys
<1>6. /\ optionalBoolPointerValue(doc, Docker("include_stopped"))
           = loadOptionalBool(env, "COLLECTOR_DOCKER_INCLUDE_STOPPED")
      /\ optionalBoolPointerValue(doc, Docker("watch_by_default"))
           = loadOptionalBool(env, "COLLECTOR_DOCKER_WATCH_BY_DEFAULT")
      /\ optionalBoolPointerValue(doc, MQTT("retain"))
           = loadOptionalBool(env, "PUBLISHER_MQTT_RETAIN")
      /\ optionalBoolPointerValue(doc, Append(HomeAssistant, "enabled"))
           = loadOptionalBool(env, "PUBLISHER_MQTT_HOMEASSISTANT_ENABLED")
  BY <1>1, TextKeys
<1>7. QED
  BY <1>1, <1>2, <1>3, <1>4, <1>5, <1>6 DEF doc

\* The two configurations agree in these fields.
SameBut(c, e) ==
  /\ c.node = e.node
  /\ c.job = e.job
  /\ c.interval = e.interval
  /\ c.collector = e.collector
  /\ c.endpoint = e.endpoint
  /\ c.includeStopped = e.includeStopped
  /\ c.watchByDefault = e.watchByDefault
  /\ c.manager = e.manager
  /\ c.names = e.names
  /\ c.resolver = e.resolver
  /\ c.publisher = e.publisher
  /\ c.host = e.host
  /\ c.port = e.port
  /\ c.username = e.username
  /\ c.password = e.password
  /\ c.topicPrefix = e.topicPrefix
  /\ c.clientIDPrefix = e.clientIDPrefix
  /\ c.connectTimeout = e.connectTimeout
  /\ c.retain = e.retain

\* Nothing in lower case is nothing.
LEMMA NothingToLower == ToLower(Empty) = Empty
<1>1. /\ DOMAIN Empty = {"word", "cased", "padded"} /\ Empty = [x \in DOMAIN Empty |-> Empty[x]]
      /\ Empty["cased"] = FALSE
  BY DEF Empty, Plain
<1>2. QED
  BY <1>1 DEF ToLower

\* The environment and its document give the same settings, Home Assistant apart
\* (Load, config.go:49; buildConfigFromDocument, config_file.go:39).
LEMMA SameSettings ==
  ASSUME NEW env, IsEnvironment(env), Comparable(env), NEW host
  PROVE  SameBut(FileConfig(DocumentOf(env), host), EnvConfig(env, host))
<1> DEFINE doc == DocumentOf(env)
           c == FileConfig(doc, host)
           e == EnvConfig(env, host)
           type == Setting(env, "COLLECTOR_TYPE")
           manager == IF type = Plain("docker") THEN Empty ELSE Setting(env, "COLLECTOR_PACKAGE_MANAGER")
<1>1. c.node = e.node
  BY SettingsRead DEF FileConfig, EnvConfig
<1>2. c.job = e.job
  BY SettingsRead DEF FileConfig, EnvConfig
<1>3. c.interval = e.interval
  <2>1. c.interval = LET i == optionalStringValue(doc, <<"interval">>)
                     IN  IF i = Unset THEN defaultInterval
                         ELSE IF i = Malformed THEN Malformed ELSE PositiveDuration(i)
    BY DEF FileConfig
  <2>2. e.interval = loadDuration(env, "INTERVAL")
    BY DEF EnvConfig
  <2>3. "INTERVAL" \in DOMAIN KeyOf \ {"COLLECTOR_PACKAGE_NAMES"}
    BY TextKeys
  <2> HIDE DEF c, e
  <2>4. QED
    BY <2>1, <2>2, <2>3, SettingsRead DEF loadDuration
<1>4. c.collector = e.collector /\ e.collector = type
  BY SettingsRead DEF FileConfig, EnvConfig
<1>5. c.endpoint = e.endpoint
  BY SettingsRead DEF FileConfig, EnvConfig
<1>6. c.includeStopped = e.includeStopped
  BY SettingsRead DEF FileConfig, EnvConfig
<1>7. c.watchByDefault = e.watchByDefault
  BY SettingsRead DEF FileConfig, EnvConfig
<1>8. c.manager = manager /\ e.manager = manager
  BY SettingsRead DEF FileConfig, EnvConfig
<1>9. c.names = e.names
  BY SettingsRead, NamesRead DEF FileConfig, EnvConfig
<1>10. c.resolver = e.resolver
  <2>1. c.resolver = IF c.manager = Malformed THEN Empty
                     ELSE defaultResolverTypeForCollector(c.collector, c.manager)
    BY DEF FileConfig
  <2>2. e.resolver = resolveResolverType(Setting(env, "RESOLVER_TYPE"), e.collector, e.manager)
    BY DEF EnvConfig
  <2>3. manager # Malformed
    <3>1. "COLLECTOR_PACKAGE_MANAGER" \in DOMAIN KeyOf \ {"COLLECTOR_PACKAGE_NAMES"}
      BY TextKeys
    <3>2. Setting(env, "COLLECTOR_PACKAGE_MANAGER") # Malformed
      BY <3>1, SettingsRead
    <3>3. QED
      BY <3>2, ValuesAssumption
  <2>4. Setting(env, "RESOLVER_TYPE") = Empty
    BY NothingToTrim DEF Comparable, Setting, Getenv
  <2>5. TrimSpace(ToLower(Empty)) = Empty
    BY NothingToLower, NothingToTrim
  <2> HIDE DEF c, e, manager
  <2>6. QED
    BY <1>4, <1>8, <2>1, <2>2, <2>3, <2>4, <2>5 DEF resolveResolverType
<1>11. c.publisher = e.publisher
  <2>1. /\ c.publisher = firstNonEmpty(String(doc, <<"publisher", "type">>), Plain("mqtt"))
        /\ e.publisher = Setting(env, "PUBLISHER_TYPE")
    BY DEF FileConfig, EnvConfig
  <2>2. "PUBLISHER_TYPE" \in DOMAIN KeyOf \ {"COLLECTOR_PACKAGE_NAMES"} /\ env["PUBLISHER_TYPE"] # Unset
    BY TextKeys DEF Comparable
  <2> HIDE DEF c, e
  <2>3. QED
    BY <2>1, <2>2, SettingsRead DEF firstNonEmpty
<1>12. /\ c.host = e.host /\ c.port = e.port /\ c.username = e.username
  BY SettingsRead DEF FileConfig, EnvConfig
<1>13. c.password = e.password
  <2>1. c.password = Setting(env, "PUBLISHER_MQTT_PASSWORD") /\ e.password = Getenv(env, "PUBLISHER_MQTT_PASSWORD")
    BY SettingsRead DEF FileConfig, EnvConfig
  <2>2. env["PUBLISHER_MQTT_PASSWORD"] \in Text \cup {Unset}
    BY TextKeys DEF IsEnvironment
  <2>3. env["PUBLISHER_MQTT_PASSWORD"] # Unset => ~ env["PUBLISHER_MQTT_PASSWORD"].padded
    BY DEF Comparable
  <2>4. TrimSpace(Getenv(env, "PUBLISHER_MQTT_PASSWORD")) = Getenv(env, "PUBLISHER_MQTT_PASSWORD")
    BY <2>2, <2>3, TrimmedText, NothingToTrim DEF Getenv
  <2>5. QED
    BY <2>1, <2>4 DEF Setting
<1>14. c.topicPrefix = e.topicPrefix /\ c.clientIDPrefix = e.clientIDPrefix
  BY SettingsRead DEF FileConfig, EnvConfig
<1>15. c.connectTimeout = e.connectTimeout /\ c.retain = e.retain
  BY SettingsRead DEF FileConfig, EnvConfig
<1> HIDE DEF c, e
<1>16. SameBut(c, e)
  BY <1>1, <1>2, <1>3, <1>4, <1>5, <1>6, <1>7, <1>8, <1>9, <1>10, <1>11, <1>12, <1>13, <1>14, <1>15 DEF SameBut
<1>17. QED
  BY <1>16 DEF c, e

\* The document has a mapping for Home Assistant if it has a setting in it.
LEMMA HomeAssistantGiven ==
  ASSUME NEW env
  PROVE  /\ HomeAssistant \in DOMAIN DocumentOf(env)
              <=> \/ env["PUBLISHER_MQTT_HOMEASSISTANT_ENABLED"] # Unset
                  \/ env["PUBLISHER_MQTT_HOMEASSISTANT_DISCOVERY_PREFIX"] # Unset
         /\ HomeAssistant \in DOMAIN DocumentOf(env) => DocumentOf(env)[HomeAssistant] = MappingNode
<1> DEFINE v == "PUBLISHER_MQTT_HOMEASSISTANT_ENABLED"
           w == "PUBLISHER_MQTT_HOMEASSISTANT_DISCOVERY_PREFIX"
           doc == DocumentOf(env)
<1>1. HomeAssistant = PathOrder[24] /\ 24 \in MappingPlaces
  BY PathRows DEF HomeAssistant, MQTT, MappingPlaces
<1>2. v \in DOMAIN KeyOf /\ w \in DOMAIN KeyOf /\ Place[v] = 25 /\ Place[w] = 26
  BY TextKeys, VariableRows
<1>3. Above[25] = 24 /\ Above[26] = 24 /\ \A j \in 1 .. 26 : Above[j] = 24 => j = 25 \/ j = 26
  <2>1. \A j \in 1 .. 26 : Above[j] = 24 => j = 25 \/ j = 26
    <3>1. \A j \in 1 .. 26 : 24 \in 0 .. j - 1 => j = 25 \/ j = 26
      OBVIOUS
    <3>2. \A j \in 1 .. 26 : Above[j] \in 0 .. j - 1
      BY PathNesting
    <3>3. QED
      BY <3>1, <3>2, Zenon
  <2>2. QED
    BY <2>1, PathNumbers
<1>4. 25 \in Present(env) <=> env[v] # Unset
  BY <1>2, PresentFacts DEF Given
<1>5. 26 \in Present(env) <=> env[w] # Unset
  BY <1>2, PresentFacts DEF Given
<1>6. 24 \in Present(env) <=> 25 \in Present(env) \/ 26 \in Present(env)
  <2>1. ASSUME 24 \in Present(env) PROVE 25 \in Present(env) \/ 26 \in Present(env)
    <3>1. PICK j \in Present(env) : Above[j] = 24
      BY <1>1, <2>1, PresentFacts
    <3>2. j \in 1 .. 26
      BY PresentFacts
    <3>3. QED
      BY <1>3, <3>1, <3>2
  <2>2. 24 # 0
    OBVIOUS
  <2>3. QED
    BY <1>3, <2>1, <2>2, PresentFacts
<1>7. HomeAssistant \in DOMAIN doc <=> 24 \in Present(env)
  <2>1. DOMAIN doc = {<<>>} \cup {PathOrder[k] : k \in Present(env)}
    BY DocumentPlaces
  <2>2. PathOrder[24] # <<>>
    <3>1. Len(PathOrder[24]) \in 1 .. 4
      BY PathNesting
    <3>2. Len(<<>>) \notin 1 .. 4
      OBVIOUS
    <3>3. QED
      BY <3>1, <3>2
  <2>3. \A k \in Present(env) : PathOrder[k] = PathOrder[24] => k = 24
    BY PresentFacts, PathsDiffer
  <2>4. QED
    BY <1>1, <2>1, <2>2, <2>3
<1>8. 24 \in Present(env) => doc[HomeAssistant] = MappingNode
  BY <1>1, DocumentPlaces
<1>9. QED
  BY <1>4, <1>5, <1>6, <1>7, <1>8

\* What the publisher makes of the Home Assistant settings.
Discovery(h) ==
  [enabled |-> IF h = Unset THEN FALSE ELSE h.enabled,
   prefix |-> IF h = Unset THEN Plain("homeassistant")
              ELSE firstNonEmpty(h.prefix, Plain("homeassistant"))]

\* The Home Assistant settings are refused for the same reason, and those that are
\* not mean the same, though an environment that sets nothing but FALSE has none
\* (config.go:146, config_file.go:243).
LEMMA HomeAssistantRead ==
  ASSUME NEW env, IsEnvironment(env), Comparable(env), NEW h, h = HomeAssistantValue(DocumentOf(env))
  PROVE  /\ (h # Unset /\ Malformed \in {h.enabled, h.prefix}) <=> HomeAssistantEnabled(env) = Malformed
         /\ HomeAssistantEnabled(env) # Malformed => Discovery(h) = Discovery(HomeAssistantConfig(env))
<1> DEFINE v == "PUBLISHER_MQTT_HOMEASSISTANT_ENABLED"
           w == "PUBLISHER_MQTT_HOMEASSISTANT_DISCOVERY_PREFIX"
           doc == DocumentOf(env)
           a == loadOptionalBool(env, v)
           q == Setting(env, w)
           d == Default(a, FALSE)
<1>1. /\ v \in DOMAIN KeyOf \ {"COLLECTOR_PACKAGE_NAMES"} /\ w \in DOMAIN KeyOf \ {"COLLECTOR_PACKAGE_NAMES"}
  BY TextKeys
<1>2. HomeAssistantEnabled(env) = a
  BY DEF HomeAssistantEnabled, loadOptionalBool, Comparable
<1>3. a \in BOOLEAN \cup {Malformed, Unset} /\ (env[v] = Unset => a = Unset)
  BY DEF loadOptionalBool, parseBooleanValue
<1>4. q # Malformed /\ q # Unset /\ (q = Empty <=> env[w] = Unset) /\ q \in Text \cup {Empty}
  <2>1. q # Malformed /\ q # Unset /\ (q = Empty <=> env[w] = Unset)
    BY <1>1, SettingsRead
  <2>2. env[w] \in Text \cup {Unset}
    BY <1>1 DEF IsEnvironment
  <2>3. q \in Text \cup {Empty}
    BY <2>2, TrimmedText, NothingToTrim DEF Setting, Getenv
  <2>4. QED
    BY <2>1, <2>3
<1>5. TRUE # Malformed /\ FALSE # Malformed /\ TRUE # Unset /\ FALSE # Unset /\ Unset # Malformed
  BY ValuesAssumption
<1>6. d = (IF a = Unset THEN FALSE ELSE a)
  BY DEF Default
<1>7. d \in BOOLEAN \cup {Malformed} /\ (d = Malformed <=> a = Malformed)
  BY <1>3, <1>5, <1>6
<1>8. h = IF env[v] = Unset /\ env[w] = Unset THEN Unset ELSE [enabled |-> d, prefix |-> q]
  <2>1. h = IF HomeAssistant \notin DOMAIN doc THEN Unset
            ELSE IF doc[HomeAssistant].kind = "map"
            THEN [enabled |-> Default(optionalBoolPointerValue(doc, Append(HomeAssistant, "enabled")), FALSE),
                  prefix |-> String(doc, Append(HomeAssistant, "discovery_prefix"))]
            ELSE [enabled |-> optionalBoolPointerValue(doc, HomeAssistant), prefix |-> Empty]
    BY DEF HomeAssistantValue
  <2>2. optionalBoolPointerValue(doc, Append(HomeAssistant, "enabled")) = a
    BY SettingsRead
  <2>3. String(doc, Append(HomeAssistant, "discovery_prefix")) = q
    BY SettingsRead
  <2>4. HomeAssistant \in DOMAIN doc => doc[HomeAssistant].kind = "map"
    BY HomeAssistantGiven DEF MappingNode
  <2>5. HomeAssistant \notin DOMAIN doc <=> env[v] = Unset /\ env[w] = Unset
    BY HomeAssistantGiven
  <2> HIDE DEF doc, a, q
  <2>6. QED
    BY <2>1, <2>2, <2>3, <2>4, <2>5
<1>9. HomeAssistantConfig(env) = IF a = TRUE \/ q # Empty THEN [enabled |-> d, prefix |-> q] ELSE Unset
  BY <1>2 DEF HomeAssistantConfig
<1> DEFINE r == [enabled |-> d, prefix |-> q]
<1>10. r # Unset /\ r.enabled = d /\ r.prefix = q
  <2>1. r \in [enabled : BOOLEAN \cup {Malformed}, prefix : Text \cup {Empty}]
    <3> HIDE DEF d, q
    <3> QED
      BY <1>4, <1>7
  <2>2. r # Unset
    BY <2>1, ValuesAssumption
  <2>3. QED
    BY <2>2
<1> HIDE DEF d, q, a, r
<1>11. (h # Unset /\ Malformed \in {h.enabled, h.prefix}) <=> a = Malformed
  BY <1>3, <1>4, <1>5, <1>7, <1>8, <1>10 DEF r
<1>12. ASSUME a # Malformed
       PROVE  Discovery(h) = Discovery(HomeAssistantConfig(env))
  <2>1. CASE h = HomeAssistantConfig(env)
    BY <2>1
  <2>2. CASE h # HomeAssistantConfig(env)
    <3>1. h = r /\ HomeAssistantConfig(env) = Unset /\ q = Empty /\ a # TRUE
      <4>1. h \in {r, Unset} /\ HomeAssistantConfig(env) \in {r, Unset}
        BY <1>8, <1>9 DEF r
      <4>2. h = Unset => a = Unset /\ q = Empty
        BY <1>3, <1>4, <1>8, <1>10 DEF r
      <4>3. HomeAssistantConfig(env) = r \/ (a # TRUE /\ q = Empty)
        BY <1>9 DEF r
      <4>4. a = Unset /\ q = Empty => HomeAssistantConfig(env) = Unset
        BY <1>5, <1>9
      <4>5. QED
        BY <2>2, <4>1, <4>2, <4>3, <4>4, Zenon
    <3>2. d = FALSE
      BY <1>3, <1>6, <1>12, <3>1
    <3>3. Discovery(r) = [enabled |-> FALSE, prefix |-> Plain("homeassistant")]
      BY <1>10, <3>1, <3>2 DEF Discovery, firstNonEmpty
    <3>4. Discovery(Unset) = [enabled |-> FALSE, prefix |-> Plain("homeassistant")]
      BY DEF Discovery
    <3>5. QED
      BY <3>1, <3>3, <3>4, Zenon
  <2>3. QED
    BY <2>1, <2>2
<1>13. QED
  BY <1>2, <1>11, <1>12

\* What a place is in is a place.
LEMMA AboveNumber == ASSUME NEW k \in 1 .. 26, Above[k] # 0 PROVE Above[k] \in 1 .. 26
<1>1. Above[k] \in 0 .. k - 1
  BY PathNesting
<1> DEFINE m == Above[k]
<1>2. m \in 0 .. k - 1 /\ m # 0
  BY <1>1
<1> HIDE DEF m
<1>3. m \in 1 .. 26
  BY <1>2
<1>4. QED
  BY <1>3 DEF m

\* A path that goes one key further than another is directly below it.
LEMMA BelowPrefix ==
  ASSUME NEW j \in 0 .. 26, NEW q, q = (IF j = 0 THEN <<>> ELSE PathOrder[j]), NEW k \in 1 .. 26,
         IsPrefix(q, PathOrder[k]), Len(PathOrder[k]) = Len(q) + 1
  PROVE  Above[k] = j
<1> DEFINE p == PathOrder[k]
           a == PathAbove(k)
<1>1. q \in Seq(Keys) /\ p \in Seq(Keys)
  <2>1. <<>> \in Seq(Keys)
    OBVIOUS
  <2>2. j # 0 => PathOrder[j] \in Seq(Keys)
    <3>1. j # 0 => j \in 1 .. 26
      OBVIOUS
    <3>2. QED
      BY <3>1, PathKeys, Zenon
  <2>3. QED
    BY <2>1, <2>2, PathKeys
<1>2. a \in Seq(Keys) /\ (Above[k] = 0 => a = <<>>) /\ (Above[k] # 0 => Above[k] \in 1 .. 26 /\ a = PathOrder[Above[k]])
  <2>1. Above[k] # 0 => Above[k] \in 1 .. 26
    BY AboveNumber
  <2>2. <<>> \in Seq(Keys)
    OBVIOUS
  <2>3. QED
    BY <2>1, <2>2, PathKeys DEF PathAbove
<1>3. p = Append(a, p[Len(p)]) /\ p[Len(p)] \in Keys
  BY PathShape, PathKeys
<1>4. Len(p) = Len(q) + 1 /\ SubSeq(q, 1, Len(q)) = SubSeq(p, 1, Len(q))
  BY DEF IsPrefix
<1> HIDE DEF p, a
<1>5. \A s \in Seq(Keys) : SubSeq(s, 1, Len(s)) = s
  OBVIOUS
<1>6. \A s \in Seq(Keys), x \in Keys : SubSeq(Append(s, x), 1, Len(s)) = s /\ Len(Append(s, x)) = Len(s) + 1
  OBVIOUS
<1>7. Len(a) = Len(q)
  <2>1. \A m, n \in Nat : m + 1 = n + 1 => m = n
    OBVIOUS
  <2>2. Len(a) \in Nat /\ Len(q) \in Nat /\ Len(p) = Len(a) + 1
    BY <1>1, <1>2, <1>3, <1>6
  <2>3. QED
    BY <1>4, <2>1, <2>2
<1>8. q = a
  <2>1. SubSeq(q, 1, Len(q)) = q
    BY <1>1, <1>5
  <2>2. SubSeq(p, 1, Len(a)) = a
    BY <1>2, <1>3, <1>6, Zenon
  <2>3. QED
    BY <1>4, <1>7, <2>1, <2>2, Zenon
<1>9. \A i \in 1 .. 26 : PathOrder[i] # <<>>
  <2>1. ASSUME NEW i \in 1 .. 26 PROVE PathOrder[i] # <<>>
    <3>1. Len(PathOrder[i]) \in 1 .. 4
      BY PathNesting
    <3>2. Len(<<>>) \notin 1 .. 4
      OBVIOUS
    <3>3. QED
      BY <3>1, <3>2
  <2>2. QED
    BY <2>1
<1>10. CASE j = 0
  BY <1>2, <1>8, <1>9, <1>10
<1>11. CASE j # 0
  <2>1. j \in 1 .. 26 /\ q = PathOrder[j]
    BY <1>11
  <2>2. Above[k] # 0
    BY <1>2, <1>8, <1>9, <2>1
  <2>3. Above[k] \in 1 .. 26 /\ PathOrder[Above[k]] = PathOrder[j]
    BY <1>2, <1>8, <2>1, <2>2
  <2>4. QED
    BY <2>1, <2>3, PathsDiffer
<1>12. QED
  BY <1>10, <1>11

\* The keys below each mapping.
LEMMA KeysBelow ==
  ASSUME NEW k \in 1 .. 26
  PROVE  LET x == Last(PathOrder[k])
         IN  /\ Above[k] = 0 => x \in {"collector", "interval", "job_name", "node_id", "publisher"}
             /\ Above[k] = 4 => x \in {"docker", "package", "type"}
             /\ Above[k] = 6 => x \in {"endpoint", "include_stopped", "watch_by_default"}
             /\ Above[k] = 10 => x \in {"manager", "names"}
             /\ Above[k] = 13 => x \in {"mqtt", "type"}
             /\ Above[k] = 15 => x \in {"client_id_prefix", "connect_timeout", "host", "homeassistant",
                                        "password", "port", "retain", "topic_prefix", "username"}
             /\ Above[k] = 24 => x \in {"discovery_prefix", "enabled"}
<1> DEFINE x(i) == PathOrder[i][Len(PathOrder[i])]
<1>1. /\ Above[1] = 0 /\ x(1) = "node_id" /\ Above[2] = 0 /\ x(2) = "job_name"
      /\ Above[3] = 0 /\ x(3) = "interval" /\ Above[4] = 0 /\ x(4) = "collector"
      /\ Above[5] = 4 /\ x(5) = "type" /\ Above[6] = 4 /\ x(6) = "docker"
      /\ Above[7] = 6 /\ x(7) = "endpoint" /\ Above[8] = 6 /\ x(8) = "include_stopped"
      /\ Above[9] = 6 /\ x(9) = "watch_by_default" /\ Above[10] = 4 /\ x(10) = "package"
      /\ Above[11] = 10 /\ x(11) = "manager" /\ Above[12] = 10 /\ x(12) = "names"
      /\ Above[13] = 0 /\ x(13) = "publisher"
  BY PathNumbers, PathEnds
<1>2. /\ Above[14] = 13 /\ x(14) = "type" /\ Above[15] = 13 /\ x(15) = "mqtt"
      /\ Above[16] = 15 /\ x(16) = "host" /\ Above[17] = 15 /\ x(17) = "port"
      /\ Above[18] = 15 /\ x(18) = "username" /\ Above[19] = 15 /\ x(19) = "password"
      /\ Above[20] = 15 /\ x(20) = "topic_prefix" /\ Above[21] = 15 /\ x(21) = "client_id_prefix"
      /\ Above[22] = 15 /\ x(22) = "connect_timeout" /\ Above[23] = 15 /\ x(23) = "retain"
      /\ Above[24] = 15 /\ x(24) = "homeassistant" /\ Above[25] = 24 /\ x(25) = "enabled"
      /\ Above[26] = 24 /\ x(26) = "discovery_prefix"
  BY PathNumbers, PathEnds
<1>3. Last(PathOrder[k]) = x(k)
  BY DEF Last
<1> HIDE DEF x
<1>4. QED
  BY <1>1, <1>2, <1>3, PlaceIsOne

\* No key of the document of an environment is refused as unknown.
LEMMA NoUnknownKeys ==
  ASSUME NEW env, NEW doc, doc = DocumentOf(env)
  PROVE  /\ <<"resolver">> \notin DOMAIN doc
         /\ FirstRefusal(validateKeys("config", doc, <<>>, {"collector", "interval", "job_name", "node_id", "publisher"})) = "none"
         /\ FirstRefusal(validateKeys("collector", doc, Collector, {"docker", "package", "type"})) = "none"
         /\ FirstRefusal(validateKeys("docker", doc, <<"collector", "docker">>, {"endpoint", "include_stopped", "watch_by_default"})) = "none"
         /\ FirstRefusal(validateKeys("package", doc, <<"collector", "package">>, {"manager", "names"})) = "none"
         /\ FirstRefusal(validateKeys("publisher", doc, <<"publisher">>, {"mqtt", "type"})) = "none"
         /\ FirstRefusal(validateKeys("mqtt", doc, <<"publisher", "mqtt">>, {"client_id_prefix", "connect_timeout", "host", "homeassistant", "password", "port", "retain", "topic_prefix", "username"})) = "none"
         /\ FirstRefusal(validateKeys("homeassistant", doc, HomeAssistant, {"discovery_prefix", "enabled"})) = "none"
<1>1. \A p \in DOMAIN doc : p = <<>> \/ \E k \in 1 .. 26 : p = PathOrder[k]
  <2>1. DOMAIN doc = {<<>>} \cup {PathOrder[k] : k \in Present(env)}
    BY DocumentPlaces
  <2>2. Present(env) \subseteq 1 .. 26
    BY PresentFacts
  <2>3. QED
    BY <2>1, <2>2
<1>2. ASSUME NEW j \in 0 .. 26, NEW q, j = 0 => q = <<>>, j # 0 => q = PathOrder[j], NEW w \in Reasons, NEW allowed,
             \A k \in 1 .. 26 : Above[k] = j => Last(PathOrder[k]) \in allowed
      PROVE  FirstRefusal(validateKeys(w, doc, q, allowed)) = "none"
  <2>1. ASSUME NEW p \in DOMAIN doc, Len(p) = Len(q) + 1, IsPrefix(q, p)
        PROVE  Last(p) \in allowed
    <3>1. p # <<>>
      <4>1. Len(q) \in Nat
        <5>1. j # 0 => j \in 1 .. 26
          OBVIOUS
        <5>2. j # 0 => Len(PathOrder[j]) \in 1 .. 4
          BY <5>1, PathNesting, Zenon
        <5>3. Len(<<>>) = 0
          OBVIOUS
        <5>4. QED
          BY <1>2, <5>2, <5>3
      <4>2. \A n \in Nat : 0 # n + 1
        OBVIOUS
      <4>3. Len(<<>>) = 0
        OBVIOUS
      <4>4. QED
        BY <2>1, <4>1, <4>2, <4>3
    <3>2. PICK k \in 1 .. 26 : p = PathOrder[k]
      BY <1>1, <3>1
    <3>3. Above[k] = j
      BY <1>2, <2>1, <3>2, BelowPrefix
    <3>4. QED
      BY <1>2, <3>2, <3>3
  <2>2. QED
    BY <2>1, KeysAccepted
<1>3. /\ "config" \in Reasons /\ "collector" \in Reasons /\ "docker" \in Reasons /\ "package" \in Reasons
      /\ "publisher" \in Reasons /\ "mqtt" \in Reasons /\ "homeassistant" \in Reasons
  BY DEF Reasons
<1>4. /\ Collector = PathOrder[4] /\ <<"collector", "docker">> = PathOrder[6] /\ <<"collector", "package">> = PathOrder[10]
      /\ <<"publisher">> = PathOrder[13] /\ <<"publisher", "mqtt">> = PathOrder[15] /\ HomeAssistant = PathOrder[24]
  BY PathRows DEF Collector, HomeAssistant, MQTT
<1>5. <<"resolver">> \notin DOMAIN doc
  <2>1. Len(<<"resolver">>) = 1 /\ Last(<<"resolver">>) = "resolver" /\ <<"resolver">> # <<>>
    BY DEF Last
  <2>2. ASSUME NEW k \in 1 .. 26, <<"resolver">> = PathOrder[k]
        PROVE  FALSE
    <3>1. Len(PathOrder[k]) = 1 /\ Last(PathOrder[k]) = "resolver"
      BY <2>1, <2>2
    <3>2. Above[k] = 0
      <4>1. \A n \in 1 .. 4 : n + 1 # 1
        OBVIOUS
      <4>2. Above[k] # 0 => Len(PathOrder[Above[k]]) \in 1 .. 4
        BY AboveNumber, PathNesting, Zenon
      <4>3. QED
        BY <3>1, <4>1, <4>2, PathNesting
    <3>3. QED
      BY <3>1, <3>2, KeysBelow
  <2>3. QED
    BY <1>1, <2>1, <2>2
<1>6. FirstRefusal(validateKeys("config", doc, <<>>, {"collector", "interval", "job_name", "node_id", "publisher"})) = "none"
  <2> DEFINE A == {"collector", "interval", "job_name", "node_id", "publisher"}
  <2>1. \A k \in 1 .. 26 : Above[k] = 0 => Last(PathOrder[k]) \in A
    BY KeysBelow
  <2>2. 0 \in 0 .. 26 
    OBVIOUS
  <2> HIDE DEF A
  <2>3. FirstRefusal(validateKeys("config", doc, <<>>, A)) = "none"
    BY <1>2, <1>3, <2>1, <2>2
  <2>4. QED
    BY <1>4, <2>3 DEF A
<1>7. FirstRefusal(validateKeys("collector", doc, Collector, {"docker", "package", "type"})) = "none"
  <2> DEFINE A == {"docker", "package", "type"}
  <2>1. \A k \in 1 .. 26 : Above[k] = 4 => Last(PathOrder[k]) \in A
    BY KeysBelow
  <2>2. 4 \in 0 .. 26 /\ 4 # 0
    OBVIOUS
  <2> HIDE DEF A
  <2>3. FirstRefusal(validateKeys("collector", doc, PathOrder[4], A)) = "none"
    BY <1>2, <1>3, <2>1, <2>2
  <2>4. QED
    BY <1>4, <2>3 DEF A
<1>8. FirstRefusal(validateKeys("docker", doc, <<"collector", "docker">>, {"endpoint", "include_stopped", "watch_by_default"})) = "none"
  <2> DEFINE A == {"endpoint", "include_stopped", "watch_by_default"}
  <2>1. \A k \in 1 .. 26 : Above[k] = 6 => Last(PathOrder[k]) \in A
    BY KeysBelow
  <2>2. 6 \in 0 .. 26 /\ 6 # 0
    OBVIOUS
  <2> HIDE DEF A
  <2>3. FirstRefusal(validateKeys("docker", doc, PathOrder[6], A)) = "none"
    BY <1>2, <1>3, <2>1, <2>2
  <2>4. QED
    BY <1>4, <2>3 DEF A
<1>9. FirstRefusal(validateKeys("package", doc, <<"collector", "package">>, {"manager", "names"})) = "none"
  <2> DEFINE A == {"manager", "names"}
  <2>1. \A k \in 1 .. 26 : Above[k] = 10 => Last(PathOrder[k]) \in A
    BY KeysBelow
  <2>2. 10 \in 0 .. 26 /\ 10 # 0
    OBVIOUS
  <2> HIDE DEF A
  <2>3. FirstRefusal(validateKeys("package", doc, PathOrder[10], A)) = "none"
    BY <1>2, <1>3, <2>1, <2>2
  <2>4. QED
    BY <1>4, <2>3 DEF A
<1>10. FirstRefusal(validateKeys("publisher", doc, <<"publisher">>, {"mqtt", "type"})) = "none"
  <2> DEFINE A == {"mqtt", "type"}
  <2>1. \A k \in 1 .. 26 : Above[k] = 13 => Last(PathOrder[k]) \in A
    BY KeysBelow
  <2>2. 13 \in 0 .. 26 /\ 13 # 0
    OBVIOUS
  <2> HIDE DEF A
  <2>3. FirstRefusal(validateKeys("publisher", doc, PathOrder[13], A)) = "none"
    BY <1>2, <1>3, <2>1, <2>2
  <2>4. QED
    BY <1>4, <2>3 DEF A
<1>11. FirstRefusal(validateKeys("mqtt", doc, <<"publisher", "mqtt">>, {"client_id_prefix", "connect_timeout", "host", "homeassistant", "password", "port", "retain", "topic_prefix", "username"})) = "none"
  <2> DEFINE A == {"client_id_prefix", "connect_timeout", "host", "homeassistant", "password", "port", "retain", "topic_prefix", "username"}
  <2>1. \A k \in 1 .. 26 : Above[k] = 15 => Last(PathOrder[k]) \in A
    BY KeysBelow
  <2>2. 15 \in 0 .. 26 /\ 15 # 0
    OBVIOUS
  <2> HIDE DEF A
  <2>3. FirstRefusal(validateKeys("mqtt", doc, PathOrder[15], A)) = "none"
    BY <1>2, <1>3, <2>1, <2>2
  <2>4. QED
    BY <1>4, <2>3 DEF A
<1>12. FirstRefusal(validateKeys("homeassistant", doc, HomeAssistant, {"discovery_prefix", "enabled"})) = "none"
  <2> DEFINE A == {"discovery_prefix", "enabled"}
  <2>1. \A k \in 1 .. 26 : Above[k] = 24 => Last(PathOrder[k]) \in A
    BY KeysBelow
  <2>2. 24 \in 0 .. 26 /\ 24 # 0
    OBVIOUS
  <2> HIDE DEF A
  <2>3. FirstRefusal(validateKeys("homeassistant", doc, PathOrder[24], A)) = "none"
    BY <1>2, <1>3, <2>1, <2>2
  <2>4. QED
    BY <1>4, <2>3 DEF A
<1>13. QED
  BY <1>5, <1>6, <1>7, <1>8, <1>9, <1>10, <1>11, <1>12

\* A mapping of the document is one, if it is there, and it is there if it has to be.
LEMMA MappingAt ==
  ASSUME NEW env, NEW k \in MappingPlaces
  PROVE  /\ optionalMapValue(DocumentOf(env), PathOrder[k]) \in {"map", Unset}
         /\ optionalMapValue(DocumentOf(env), PathOrder[k]) # Malformed
         /\ k \in Present(env) <=> optionalMapValue(DocumentOf(env), PathOrder[k]) \notin {Unset, Malformed}
         /\ \A v \in DOMAIN KeyOf : Above[Place[v]] = k /\ env[v] # Unset => k \in Present(env)
<1> DEFINE doc == DocumentOf(env)
           p == PathOrder[k]
<1>1. k \in 1 .. 26 /\ k # 0
  BY DEF MappingPlaces
<1>2. p \in DOMAIN doc <=> k \in Present(env)
  <2>1. DOMAIN doc = {<<>>} \cup {PathOrder[j] : j \in Present(env)}
    BY DocumentPlaces
  <2>2. p # <<>>
    <3>1. Len(PathOrder[k]) \in 1 .. 4
      BY <1>1, PathNesting
    <3>2. Len(<<>>) \notin 1 .. 4
      OBVIOUS
    <3>3. QED
      BY <3>1, <3>2
  <2>3. \A j \in Present(env) : PathOrder[j] = PathOrder[k] => j = k
    BY <1>1, PresentFacts, PathsDiffer
  <2>4. QED
    BY <2>1, <2>2, <2>3
<1>3. k \in Present(env) => doc[p].kind = "map"
  <2>1. k \in Present(env) => doc[p] = MappingNode
    BY DocumentPlaces
  <2> HIDE DEF doc, p
  <2>2. QED
    BY <2>1 DEF MappingNode
<1>4. "map" # Unset /\ "map" # Malformed /\ Unset # Malformed
  BY ValuesAssumption
<1> HIDE DEF doc, p
<1>5. optionalMapValue(doc, p) = IF k \in Present(env) THEN "map" ELSE Unset
  BY <1>2, <1>3 DEF optionalMapValue, Optional
<1>6. ASSUME NEW v \in DOMAIN KeyOf, Above[Place[v]] = k, env[v] # Unset
      PROVE  k \in Present(env)
  <2>1. Place[v] \in Present(env)
    BY <1>6, PresentFacts DEF Given
  <2>2. QED
    BY <1>1, <1>6, <2>1, PresentFacts
<1>7. QED
  BY <1>4, <1>5, <1>6 DEF doc, p

\* What the settings of an environment that can be compared never are.
LEMMA SettingsAreTexts ==
  ASSUME NEW env, IsEnvironment(env), Comparable(env), NEW host \in Text \cup {Unset},
         NEW c, c = FileConfig(DocumentOf(env), host)
  PROVE  /\ c.node # Malformed /\ c.job # Malformed /\ c.collector # Malformed
         /\ c.endpoint # Malformed /\ c.manager # Malformed /\ c.names # Malformed
         /\ Malformed \notin {c.host, c.username, c.password, c.topicPrefix, c.clientIDPrefix, c.connectTimeout}
         /\ c.resolver \in {Empty, Plain("docker"), Plain("brew_formula"), Plain("none")}
         /\ c.publisher # Empty
         /\ c.collector # Plain("docker") => c.includeStopped = Unset /\ c.watchByDefault = Unset
         /\ c.collector # Empty => env["COLLECTOR_TYPE"] # Unset
         /\ c.host # Empty => env["PUBLISHER_MQTT_HOST"] # Unset
<1> DEFINE doc == DocumentOf(env)
<1>1. \A v \in DOMAIN KeyOf \ {"COLLECTOR_PACKAGE_NAMES"} :
         Setting(env, v) # Malformed /\ (Setting(env, v) = Empty <=> env[v] = Unset)
  BY SettingsRead
<1>2. Empty # Malformed /\ <<>> # Malformed /\ host # Malformed
  <2>1. <<>> \in Seq(Text)
    OBVIOUS
  <2>2. QED
    BY <2>1, ValuesAssumption
<1>3. c.node = IF Setting(env, "NODE_ID") = Empty THEN host ELSE Setting(env, "NODE_ID")
  BY SettingsRead DEF FileConfig
<1>4. /\ c.collector = Setting(env, "COLLECTOR_TYPE")
      /\ c.job = firstNonEmpty(Setting(env, "JOB_NAME"), Setting(env, "COLLECTOR_TYPE"))
  BY SettingsRead DEF FileConfig
<1>5. /\ c.endpoint \in {Empty, Setting(env, "COLLECTOR_DOCKER_ENDPOINT")}
      /\ c.manager \in {Empty, Setting(env, "COLLECTOR_PACKAGE_MANAGER")}
  BY SettingsRead DEF FileConfig
<1>6. c.names \in {<<>>, loadOptionalCSV(env, "COLLECTOR_PACKAGE_NAMES")}
  BY NamesRead DEF FileConfig
<1>7. /\ c.host = Setting(env, "PUBLISHER_MQTT_HOST") /\ c.username = Setting(env, "PUBLISHER_MQTT_USERNAME")
      /\ c.password = Setting(env, "PUBLISHER_MQTT_PASSWORD")
      /\ c.topicPrefix = Setting(env, "PUBLISHER_MQTT_TOPIC_PREFIX")
      /\ c.clientIDPrefix = Setting(env, "PUBLISHER_MQTT_CLIENT_ID_PREFIX")
      /\ c.connectTimeout = Setting(env, "PUBLISHER_MQTT_CONNECT_TIMEOUT")
  BY SettingsRead DEF FileConfig
<1>8. c.resolver = IF c.manager = Malformed THEN Empty
                   ELSE defaultResolverTypeForCollector(c.collector, c.manager)
  BY DEF FileConfig
<1>9. c.collector # Plain("docker") => c.includeStopped = Unset /\ c.watchByDefault = Unset
  BY DEF FileConfig
<1>10. c.publisher # Empty
  <2>1. c.publisher = firstNonEmpty(String(doc, <<"publisher", "type">>), Plain("mqtt"))
    BY DEF FileConfig
  <2>2. Plain("mqtt") # Empty
    BY DEF Plain, Empty
  <2>3. QED
    BY <2>1, <2>2 DEF firstNonEmpty
<1>11. c.resolver \in {Empty, Plain("docker"), Plain("brew_formula"), Plain("none")}
  BY <1>8 DEF defaultResolverTypeForCollector
<1>12. /\ c.node # Malformed /\ c.job # Malformed /\ c.collector # Malformed
       /\ c.endpoint # Malformed /\ c.manager # Malformed
  BY <1>1, <1>2, <1>3, <1>4, <1>5, TextKeys DEF firstNonEmpty
<1>13. c.names # Malformed
  BY <1>2, <1>6, NamesRead
<1>14. Malformed \notin {c.host, c.username, c.password, c.topicPrefix, c.clientIDPrefix, c.connectTimeout}
  BY <1>1, <1>7, TextKeys
<1>15. /\ c.collector # Empty => env["COLLECTOR_TYPE"] # Unset
       /\ c.host # Empty => env["PUBLISHER_MQTT_HOST"] # Unset
  BY <1>1, <1>4, <1>7, TextKeys
<1>16. QED
  BY <1>9, <1>10, <1>11, <1>12, <1>13, <1>14, <1>15

\* The document is refused exactly if the environment is, or if it has no MQTT
\* settings at all (config_file.go:184).
LEMMA SameRefusal ==
  ASSUME NEW env, IsEnvironment(env), Comparable(env), NEW host \in Text \cup {Unset}
  PROVE  FileRefusal(DocumentOf(env), host) = "none" <=>
           EnvRefusal(env, host) = "none" /\ 15 \in Present(env)
<1> DEFINE doc == DocumentOf(env)
           c == FileConfig(doc, host)
           e == EnvConfig(env, host)
           Known == {Plain(w) : w \in {"brew_formula", "docker", "docker_hub", "none"}}
<1>1. SameBut(c, e)
  BY SameSettings
<1>2. /\ c.node # Malformed /\ c.job # Malformed /\ c.collector # Malformed
      /\ c.endpoint # Malformed /\ c.manager # Malformed /\ c.names # Malformed
      /\ Malformed \notin {c.host, c.username, c.password, c.topicPrefix, c.clientIDPrefix, c.connectTimeout}
      /\ c.resolver \in {Empty, Plain("docker"), Plain("brew_formula"), Plain("none")}
      /\ c.publisher # Empty
      /\ c.collector # Plain("docker") => c.includeStopped = Unset /\ c.watchByDefault = Unset
      /\ c.collector # Empty => env["COLLECTOR_TYPE"] # Unset
  BY SettingsAreTexts
<1>3. (c.homeAssistant # Unset /\ Malformed \in {c.homeAssistant.enabled, c.homeAssistant.prefix})
         <=> HomeAssistantEnabled(env) = Malformed
  <2>1. c.homeAssistant = HomeAssistantValue(doc)
    BY DEF FileConfig
  <2>2. QED
    BY <2>1, HomeAssistantRead
<1>4. /\ Collector = PathOrder[4] /\ <<"collector", "docker">> = PathOrder[6] /\ <<"collector", "package">> = PathOrder[10]
      /\ <<"publisher">> = PathOrder[13] /\ <<"publisher", "mqtt">> = PathOrder[15]
  BY PathRows DEF Collector
<1>5. {4, 6, 10, 13, 15} \subseteq MappingPlaces
  BY DEF MappingPlaces
<1>6. /\ optionalMapValue(doc, <<"collector", "docker">>) # Malformed
      /\ optionalMapValue(doc, <<"collector", "package">>) # Malformed
      /\ optionalMapValue(doc, <<"publisher", "mqtt">>) \notin {Unset, Malformed} <=> 15 \in Present(env)
  BY <1>4, <1>5, MappingAt
<1>7. c.collector # Empty => optionalMapValue(doc, Collector) \notin {Unset, Malformed}
  <2>1. "COLLECTOR_TYPE" \in DOMAIN KeyOf /\ Place["COLLECTOR_TYPE"] = 5 /\ Above[5] = 4
    BY TextKeys, VariableRows, PathNumbers
  <2>2. c.collector # Empty => 4 \in Present(env)
    BY <1>2, <1>5, <2>1, MappingAt
  <2>3. QED
    BY <1>4, <1>5, <2>2, MappingAt
<1>8. optionalMapValue(doc, <<"publisher">>) \notin {Unset, Malformed}
  <2>1. "PUBLISHER_TYPE" \in DOMAIN KeyOf /\ Place["PUBLISHER_TYPE"] = 14 /\ Above[14] = 13
    BY TextKeys, VariableRows, PathNumbers
  <2>2. 13 \in Present(env)
    BY <1>5, <2>1, MappingAt DEF Comparable
  <2>3. QED
    BY <1>4, <1>5, <2>2, MappingAt
<1>9. /\ c.node = e.node /\ c.collector = e.collector /\ c.publisher = e.publisher /\ c.interval = e.interval
      /\ c.includeStopped = e.includeStopped /\ c.watchByDefault = e.watchByDefault
      /\ c.resolver = e.resolver /\ c.port = e.port /\ c.retain = e.retain
  BY <1>1 DEF SameBut
<1> DEFINE env1 == EnvRefusal(env, host) = "none"
           file1 == FileRefusal(doc, host) = "none"
<1>10. env1 <=>
         /\ e.node # Unset /\ e.collector \in {Plain("docker"), Plain("package")}
         /\ e.collector # Empty /\ e.publisher # Empty /\ e.publisher = Plain("mqtt")
         /\ e.interval # Malformed /\ e.includeStopped # Malformed
         /\ e.watchByDefault # Malformed /\ e.resolver # Empty
         /\ e.resolver \in Known
         /\ e.port # Malformed /\ e.retain # Malformed
         /\ HomeAssistantEnabled(env) # Malformed
  BY EnvRefusals
<1>11. file1 <=>
         /\ c.node # Unset /\ c.interval # Malformed
         /\ optionalMapValue(doc, Collector) \notin {Unset, Malformed}
         /\ c.collector # Empty
         /\ c.collector \in {Plain("docker"), Plain("package")}
         /\ CollectorPasses(doc, c) /\ c.resolver # Empty /\ PublisherPasses(doc, c)
  <2>1. /\ <<"resolver">> \notin DOMAIN doc
        /\ FirstRefusal(validateKeys("config", doc, <<>>, {"collector", "interval", "job_name", "node_id", "publisher"})) = "none"
        /\ FirstRefusal(validateKeys("collector", doc, Collector, {"docker", "package", "type"})) = "none"
    BY NoUnknownKeys
  <2>2. file1 <=>
          /\ <<"resolver">> \notin DOMAIN doc
          /\ FirstRefusal(validateKeys("config", doc, <<>>, {"collector", "interval", "job_name", "node_id", "publisher"})) = "none"
          /\ c.node \notin {Unset, Malformed} /\ c.interval # Malformed
          /\ optionalMapValue(doc, Collector) \notin {Unset, Malformed}
          /\ FirstRefusal(validateKeys("collector", doc, Collector, {"docker", "package", "type"})) = "none"
          /\ c.collector \notin {Empty, Malformed} /\ c.job # Malformed
          /\ c.collector \in {Plain("docker"), Plain("package")}
          /\ CollectorPasses(doc, c) /\ c.resolver # Empty /\ PublisherPasses(doc, c)
    BY FileRefusals
  <2> HIDE DEF doc, c, file1
  <2>3. QED
    BY <1>2, <2>1, <2>2
<1>12. CollectorPasses(doc, c) <=> c.includeStopped # Malformed /\ c.watchByDefault # Malformed
  <2>1. /\ FirstRefusal(validateKeys("docker", doc, <<"collector", "docker">>, {"endpoint", "include_stopped", "watch_by_default"})) = "none"
        /\ FirstRefusal(validateKeys("package", doc, <<"collector", "package">>, {"manager", "names"})) = "none"
    BY NoUnknownKeys
  <2>2. Unset # Malformed
    BY ValuesAssumption
  <2> HIDE DEF doc, c
  <2>3. QED
    BY <1>2, <1>6, <2>1, <2>2 DEF CollectorPasses
<1>13. PublisherPasses(doc, c) <=>
         /\ c.publisher = Plain("mqtt") /\ 15 \in Present(env) /\ c.port # Malformed /\ c.retain # Malformed
         /\ HomeAssistantEnabled(env) # Malformed
  <2>1. /\ FirstRefusal(validateKeys("publisher", doc, <<"publisher">>, {"mqtt", "type"})) = "none"
        /\ FirstRefusal(validateKeys("mqtt", doc, <<"publisher", "mqtt">>, {"client_id_prefix", "connect_timeout", "host", "homeassistant", "password", "port", "retain", "topic_prefix", "username"})) = "none"
        /\ FirstRefusal(validateKeys("homeassistant", doc, HomeAssistant, {"discovery_prefix", "enabled"})) = "none"
    BY NoUnknownKeys
  <2> HIDE DEF doc, c
  <2>2. QED
    BY <1>2, <1>3, <1>6, <1>8, <2>1 DEF PublisherPasses
<1>14. c.resolver # Empty => c.resolver \in Known
  <2>1. {Plain("docker"), Plain("brew_formula"), Plain("none")} \subseteq Known
    OBVIOUS
  <2> HIDE DEF c, Known
  <2>2. QED
    BY <1>2, <2>1
<1> HIDE DEF doc, c, e, Known, env1, file1
<1>15. file1 <=> env1 /\ 15 \in Present(env)
  BY <1>2, <1>7, <1>9, <1>10, <1>11, <1>12, <1>13, <1>14
<1>16. QED
  BY <1>15 DEF file1, env1, doc

\* The constructors make the same of both.
LEMMA SameJob ==
  ASSUME NEW c, NEW e, SameBut(c, e)
  PROVE  /\ BuildRefusal(c) = BuildRefusal(e)
         /\ Discovery(c.homeAssistant) = Discovery(e.homeAssistant) => Build(c) = Build(e)
<1>1. /\ c.node = e.node /\ c.job = e.job /\ c.interval = e.interval /\ c.collector = e.collector
      /\ c.endpoint = e.endpoint /\ c.includeStopped = e.includeStopped
      /\ c.watchByDefault = e.watchByDefault /\ c.manager = e.manager /\ c.names = e.names
      /\ c.resolver = e.resolver
  BY DEF SameBut
<1>2. /\ c.host = e.host /\ c.port = e.port /\ c.username = e.username /\ c.password = e.password
      /\ c.topicPrefix = e.topicPrefix /\ c.clientIDPrefix = e.clientIDPrefix
      /\ c.connectTimeout = e.connectTimeout /\ c.retain = e.retain
  BY DEF SameBut
<1>3. NewCollector(c) = NewCollector(e) /\ CollectorRefuses(c) = CollectorRefuses(e)
  BY <1>1 DEF NewCollector, CollectorRefuses
<1>4. PublisherRefuses(c) = PublisherRefuses(e)
  BY <1>2 DEF PublisherRefuses
<1>5. NewResolver(c) = NewResolver(e)
  BY <1>1 DEF NewResolver
<1>6. BuildRefusal(c) = BuildRefusal(e)
  BY <1>3, <1>4, Zenon DEF BuildRefusal
<1>7. ASSUME Discovery(c.homeAssistant) = Discovery(e.homeAssistant)
      PROVE  Build(c) = Build(e)
  <2> DEFINE P(host, port, username, password, topics, clients, timeout, retain, h) ==
               [host |-> host, username |-> username, password |-> password,
                port |-> IF port = 0 THEN 1883 ELSE port,
                topicPrefix |-> firstNonEmpty(topics, Plain("up2date")),
                clientIDPrefix |-> firstNonEmpty(clients, Plain("up2date")),
                connectTimeout |-> IF timeout = Empty THEN 10 ELSE PositiveDuration(timeout),
                retain |-> Default(retain, TRUE),
                haEnabled |-> h.enabled,
                haDiscoveryPrefix |-> h.prefix]
  <2>1. \A x : NewPublisher(x) = P(x.host, x.port, x.username, x.password, x.topicPrefix,
                                   x.clientIDPrefix, x.connectTimeout, x.retain,
                                   Discovery(x.homeAssistant))
    BY DEF NewPublisher, Discovery
  <2> HIDE DEF P
  <2>2. NewPublisher(c) = NewPublisher(e)
    BY <1>2, <1>7, <2>1
  <2>3. QED
    BY <1>1, <1>3, <1>5, <2>2 DEF Build
<1>8. QED
  BY <1>6, <1>7

\* The environment and its document lead to the same job, or to none.
LEMMA SameOutcome ==
  ASSUME NEW env, IsEnvironment(env), Comparable(env), NEW host \in Text \cup {Unset}
  PROVE  JobFrom(buildConfigFromDocument(DocumentOf(env), host)) = JobFrom(Load(env, host))
<1> DEFINE doc == DocumentOf(env)
           c == FileConfig(doc, host)
           e == EnvConfig(env, host)
<1>1. SameBut(c, e)
  BY SameSettings
<1>2. BuildRefusal(c) = BuildRefusal(e)
  BY <1>1, SameJob
<1>3. FileRefusal(doc, host) = "none" <=> EnvRefusal(env, host) = "none" /\ 15 \in Present(env)
  BY SameRefusal
<1>4. BuildRefusal(c) = "none" => 15 \in Present(env)
  <2>1. c.host # Empty => env["PUBLISHER_MQTT_HOST"] # Unset
    BY SettingsAreTexts
  <2>2. "PUBLISHER_MQTT_HOST" \in DOMAIN KeyOf /\ Place["PUBLISHER_MQTT_HOST"] = 16 /\ Above[16] = 15 /\ 15 \in MappingPlaces
    BY TextKeys, VariableRows, PathNumbers DEF MappingPlaces
  <2> HIDE DEF c
  <2>3. BuildRefusal(c) = "none" => c.host # Empty
    BY BuildRefusals DEF PublisherRefuses
  <2>4. QED
    BY <2>1, <2>2, <2>3, MappingAt
<1>5. EnvRefusal(env, host) = "none" => Build(c) = Build(e)
  <2>1. EnvRefusal(env, host) = "none" => HomeAssistantEnabled(env) # Malformed
    BY EnvRefusals
  <2>2. c.homeAssistant = HomeAssistantValue(doc) /\ e.homeAssistant = HomeAssistantConfig(env)
    BY DEF FileConfig, EnvConfig
  <2>3. HomeAssistantEnabled(env) # Malformed => Discovery(c.homeAssistant) = Discovery(e.homeAssistant)
    BY <2>2, HomeAssistantRead
  <2>4. QED
    BY <1>1, <2>1, <2>3, SameJob
<1>6. /\ buildConfigFromDocument(doc, host) = [refusal |-> FileRefusal(doc, host), config |-> c]
      /\ Load(env, host) = [refusal |-> EnvRefusal(env, host), config |-> e]
  BY DEF buildConfigFromDocument, Load
<1> HIDE DEF doc, c, e
<1>7. JobFrom(buildConfigFromDocument(doc, host)) = JobFrom(Load(env, host))
  BY <1>2, <1>3, <1>4, <1>5, <1>6 DEF JobFrom
<1>8. QED
  BY <1>7 DEF doc

-----------------------------------------------------------------------------
(***************************************************************************)
(* From the two sources to the same job.                                   *)
(***************************************************************************)
\* The process was started with one of the inputs; past the start a YAML file was
\* read to its end, and the process exits only for a refusal of its source or of
\* the job this leads to.
SourceInv ==
  /\ \E k \in DOMAIN Inputs : input \in Inputs[k]
  /\ pc # "start" /\ ConfigPath # Empty /\ input.json = Unset => status \in {"ok", "error"}
  /\ pc = "exit" => Source.refusal # "none" \/ BuildRefusal(Source.config) # "none"

\* No step loses what the process knows of its source (main.run, cmd/up2date/main.go:19).
LEMMA SourceInvariant == Spec => []SourceInv
<1>1. Init => SourceInv
  BY DEF Init, SourceInv
<1>2. StartInv /\ SourceInv /\ [Next]_vars => SourceInv'
  <2> SUFFICES ASSUME StartInv, SourceInv, [Next]_vars
               PROVE  SourceInv'
    OBVIOUS
  <2>1. CASE pc = "start" /\ pc' = "start"
    <3>1. UNCHANGED input
      BY <2>1 DEF Next, ParseFile, LoadFile, LoadEnvironment, Take, BuildFails, BuildSucceeds, Over, vars, own
    <3>2. QED
      BY <2>1, <3>1 DEF SourceInv
  <2>2. CASE LoadFile
    <3>1. UNCHANGED <<input, documentVars>> /\ ConfigPath # Empty
      BY <2>2 DEF LoadFile, Take
    <3>2. Source' = Source /\ Source = FromFile /\ status' = status /\ ConfigPath' = ConfigPath
      BY <3>1 DEF Source, FromFile, FromEnv, Nodes, Parsed, ConfigPath, documentVars
    <3> HIDE DEF Source, ConfigPath
    <3>3. QED
      BY <2>2, <3>1, <3>2 DEF SourceInv, LoadFile, Take
  <2>3. CASE LoadEnvironment
    <3>1. UNCHANGED <<input, documentVars>> /\ ConfigPath = Empty
      BY <2>3 DEF LoadEnvironment, Take
    <3>2. Source' = Source /\ Source = FromEnv /\ ConfigPath' = ConfigPath
      BY <3>1 DEF Source, FromFile, FromEnv, Nodes, Parsed, ConfigPath, documentVars
    <3> HIDE DEF Source, ConfigPath
    <3>3. QED
      BY <2>3, <3>1, <3>2 DEF SourceInv, LoadEnvironment, Take
  <2>4. CASE BuildFails \/ BuildSucceeds \/ UNCHANGED vars
    <3>1. UNCHANGED <<input, documentVars>>
      BY <2>4 DEF BuildFails, BuildSucceeds, vars, own
    <3>2. Source' = Source /\ status' = status /\ ConfigPath' = ConfigPath
      BY <3>1 DEF Source, FromFile, FromEnv, Nodes, Parsed, ConfigPath, documentVars
    <3> HIDE DEF Source, ConfigPath
    <3>3. QED
      BY <2>4, <3>1, <3>2 DEF StartInv, SourceInv, BuildFails, BuildSucceeds, vars, own
  <2>5. QED
    BY <2>1, <2>2, <2>3, <2>4 DEF Next, ParseFile, Over, own
<1>3. QED
  BY <1>1, <1>2, StartInvariant, PTL DEF Spec

\* Whatever the environment, a JSON or YAML file that says the same leads to the
\* same job with the same settings, and the process refuses to start with the one
\* if it does with the other: for every setting both sources read, with any text
\* for it that is not blank and that a line of YAML can carry (Load, config.go:49;
\* LoadFromFile, config_file.go:25).
THEOREM SourcesAlwaysAgree == Spec => []SourcesAgree
<1>1. ASSUME ParserInv, StartInv, SourceInv, Comparable(input.env), ConfigPath # Empty, pc \in {"running", "exit"},
             input.json = DocumentOf(input.env) \/ (input.json = Unset /\ document = LinesOf(input.env))
      PROVE  /\ pc = "running" => job = JobFrom(FromEnv)
             /\ pc = "exit" => JobFrom(FromEnv) = Malformed
  <2> DEFINE env == input.env
             host == input.hostname
             doc == DocumentOf(env)
  <2>1. IsEnvironment(env) /\ host \in Text \cup {Unset} /\ doc # Unset /\ doc # Malformed
    BY <1>1, SourcesAssumption DEF SourceInv
  <2>2. Nodes = doc
    <3>1. CASE input.json = doc
      BY <2>1, <3>1 DEF Nodes
    <3>2. CASE input.json = Unset /\ document = LinesOf(env)
      <4>1. Given(env) # {}
        BY <1>1, TextKeys DEF Given, Comparable
      <4>2. status \in {"ok", "error"}
        BY <1>1, <3>2 DEF SourceInv
      <4>3. status # "error" /\ (status = "ok" => Parsed = doc)
        BY <1>1, <2>1, <3>2, <4>1, YamlUnderstood
      <4>4. QED
        BY <3>2, <4>2, <4>3 DEF Nodes
    <3>3. QED
      BY <1>1, <3>1, <3>2
  <2>3. Source = buildConfigFromDocument(doc, host)
    BY <1>1, <2>1, <2>2 DEF Source, FromFile
  <2>4. JobFrom(Source) = JobFrom(FromEnv)
    BY <1>1, <2>1, <2>3, SameOutcome DEF FromEnv
  <2>5. pc = "running" => job = JobFrom(Source)
    BY <1>1 DEF StartInv, JobFrom
  <2>6. pc = "exit" => JobFrom(Source) = Malformed
    BY <1>1 DEF SourceInv, JobFrom
  <2>7. QED
    BY <2>4, <2>5, <2>6
<1>2. ParserInv /\ StartInv /\ SourceInv => SourcesAgree
  BY <1>1 DEF SourcesAgree
<1>3. QED
  BY <1>2, ParserInvariant, StartInvariant, SourceInvariant, PTL
=============================================================================
