-------------------------- MODULE DockerJobProofs --------------------------
(***************************************************************************)
(* Proofs about DockerJob, for any hosts, repositories and tags: first how *)
(* version numbers compare and what a list of tags leads to, then what the *)
(* collector makes of a host, then the run.                                *)
(***************************************************************************)
EXTENDS DockerJob, SequenceTheorems, FiniteSetTheorems, FunctionTheorems,
        WellFoundedInduction, TLAPS

\* A non-empty set of numbers has a least one.
LEMMA LeastNumber ==
  ASSUME NEW D, D \subseteq Nat, D # {}
  PROVE  \E i \in D : \A k \in D : i <= k
<1>1. PICK i \in D : \A k \in D : ~ (<<k, i>> \in OpToRel(<, Nat))
  BY NatLessThanWellFounded, WFMin
<1>2. ASSUME NEW k \in D
      PROVE  i <= k
  <2>1. ~ (k < i)
    BY <1>1 DEF OpToRel
  <2>2. QED
    BY <2>1
<1>3. QED
  BY <1>2

\* Two rows of numbers agree before position f and differ there.
Differ(n, left, right, f) ==
  /\ left[f] # right[f]
  /\ \A k \in 1 .. n : k < f => left[k] = right[k]

\* Of three rows of one length: when the middle is above low where they differ
\* and top is above the middle, low is not above top.
LEMMA RowsTransitive ==
  ASSUME NEW n \in Nat, NEW low \in [1 .. n -> Nat], NEW mid \in [1 .. n -> Nat],
         NEW top \in [1 .. n -> Nat], NEW f \in 1 .. n, NEW g \in 1 .. n, NEW h \in 1 .. n,
         low[f] < mid[f], mid[g] < top[g], top[h] < low[h],
         Differ(n, low, mid, f), Differ(n, top, mid, g)
  PROVE  ~ Differ(n, top, low, h)
<1> SUFFICES ASSUME Differ(n, top, low, h) PROVE FALSE
  OBVIOUS
<1> USE DEF Differ
<1>1. \A k \in 1 .. n : low[k] \in Nat /\ mid[k] \in Nat /\ top[k] \in Nat
  OBVIOUS
<1>2. CASE f < g
  <2>1. top[f] = mid[f]
    BY <1>2
  <2>2. f < h => FALSE
    BY <1>1, <2>1
  <2>3. h < f => FALSE
    BY <1>1, <1>2
  <2>4. QED
    BY <1>1, <2>1, <2>2, <2>3
<1>3. CASE g < f
  <2>1. low[g] = mid[g]
    BY <1>3
  <2>2. g < h => FALSE
    BY <1>1, <2>1
  <2>3. h < g => FALSE
    BY <1>1, <1>3
  <2>4. QED
    BY <1>1, <2>1, <2>2, <2>3
<1>4. CASE f = g
  <2>1. h < f => FALSE
    BY <1>1, <1>4
  <2>2. f < h => FALSE
    BY <1>1, <1>4
  <2>3. QED
    BY <1>1, <1>4, <2>1, <2>2
<1>5. QED
  BY <1>2, <1>3, <1>4

\* compareNumbers tells equal rows from different ones, and of those the one
\* that is smaller where they first differ.
LEMMA CompareCases ==
  ASSUME NEW n \in Nat, NEW left \in [1 .. n -> Nat], NEW right \in [1 .. n -> Nat]
  PROVE  \/ left = right /\ compareNumbers(left, right) = 0
         \/ \E f \in 1 .. n : /\ Differ(n, left, right, f)
                              /\ left[f] < right[f]
                              /\ compareNumbers(left, right) = -1
         \/ \E f \in 1 .. n : /\ Differ(n, left, right, f)
                              /\ right[f] < left[f]
                              /\ compareNumbers(left, right) = 1
<1> DEFINE differ == {i \in DOMAIN left : left[i] # right[i]}
           first  == CHOOSE i \in differ : \A k \in differ : i <= k
<1>1. DOMAIN left = 1 .. n
  OBVIOUS
<1>2. CASE differ = {}
  <2>1. \A i \in 1 .. n : left[i] = right[i]
    BY <1>1, <1>2
  <2>2. left = right
    BY <2>1
  <2>3. QED
    BY <1>2, <2>2 DEF compareNumbers
<1>3. CASE differ # {}
  <2>1. differ \subseteq Nat
    BY <1>1
  <2>2. \E i \in differ : \A k \in differ : i <= k
    BY <1>3, <2>1, LeastNumber
  <2>3. first \in differ /\ \A k \in differ : first <= k
    BY <2>2
  <2>4. compareNumbers(left, right) = IF left[first] < right[first] THEN -1 ELSE 1
    BY <1>3 DEF compareNumbers
  <2> HIDE DEF first
  <2>5. first \in 1 .. n /\ Differ(n, left, right, first)
    BY <1>1, <2>3 DEF Differ
  <2>6. left[first] \in Nat /\ right[first] \in Nat /\ left[first] # right[first]
    BY <2>5 DEF Differ
  <2>7. CASE left[first] < right[first]
    <3>1. compareNumbers(left, right) = -1
      BY <2>4, <2>7
    <3>2. QED
      BY <2>5, <2>7, <3>1
  <2>8. CASE right[first] < left[first]
    <3>1. compareNumbers(left, right) = 1
      BY <2>4, <2>6, <2>8
    <3>2. QED
      BY <2>5, <2>8, <3>1
  <2>9. QED
    BY <2>6, <2>7, <2>8
<1>4. QED
  BY <1>2, <1>3

\* What a result that is negative, or not positive, or not negative says.
LEMMA CompareMeans ==
  ASSUME NEW n \in Nat, NEW left \in [1 .. n -> Nat], NEW right \in [1 .. n -> Nat]
  PROVE  /\ compareNumbers(left, right) < 0 =>
              \E f \in 1 .. n : Differ(n, left, right, f) /\ left[f] < right[f]
         /\ compareNumbers(left, right) <= 0 =>
              \/ left = right
              \/ \E f \in 1 .. n : Differ(n, left, right, f) /\ left[f] < right[f]
         /\ ~ (compareNumbers(left, right) < 0) =>
              \/ left = right
              \/ \E f \in 1 .. n : Differ(n, left, right, f) /\ right[f] < left[f]
<1> DEFINE c     == compareNumbers(left, right)
           Below == \E f \in 1 .. n : Differ(n, left, right, f) /\ left[f] < right[f]
           Above == \E f \in 1 .. n : Differ(n, left, right, f) /\ right[f] < left[f]
<1>1. (left = right /\ c = 0) \/ (Below /\ c = -1) \/ (Above /\ c = 1)
  BY CompareCases
<1> HIDE DEF c, Below, Above
<1>2. (c < 0 => Below) /\ (c <= 0 => left = right \/ Below) /\ (~ (c < 0) => left = right \/ Above)
  BY <1>1
<1>3. QED
  BY <1>2 DEF c, Below, Above

\* No row is both below and above another one.
LEMMA CompareAntisymmetric ==
  ASSUME NEW n \in Nat, NEW left \in [1 .. n -> Nat], NEW right \in [1 .. n -> Nat],
         compareNumbers(left, right) <= 0, compareNumbers(right, left) <= 0
  PROVE  left = right
<1> SUFFICES ASSUME left # right PROVE FALSE
  OBVIOUS
<1>1. PICK f \in 1 .. n : Differ(n, left, right, f) /\ left[f] < right[f]
  BY CompareMeans
<1>2. PICK g \in 1 .. n : Differ(n, right, left, g) /\ right[g] < left[g]
  BY CompareMeans
<1>3. f = g
  BY <1>1, <1>2 DEF Differ
<1>4. left[f] \in Nat /\ right[f] \in Nat
  OBVIOUS
<1>5. QED
  BY <1>1, <1>2, <1>3, <1>4

\* What is not above the middle is not above a top that is not below the middle.
LEMMA CompareTransitive ==
  ASSUME NEW n \in Nat, NEW low \in [1 .. n -> Nat], NEW mid \in [1 .. n -> Nat],
         NEW top \in [1 .. n -> Nat],
         compareNumbers(low, mid) <= 0, ~ (compareNumbers(top, mid) < 0)
  PROVE  ~ (compareNumbers(top, low) < 0)
<1> SUFFICES ASSUME compareNumbers(top, low) < 0 PROVE FALSE
  OBVIOUS
<1>1. PICK h \in 1 .. n : Differ(n, top, low, h) /\ top[h] < low[h]
  BY CompareMeans
<1>2. \A k \in 1 .. n : low[k] \in Nat /\ mid[k] \in Nat /\ top[k] \in Nat
  OBVIOUS
<1>3. CASE low = mid
  BY <1>3
<1>4. CASE low # mid
  <2>1. PICK f \in 1 .. n : Differ(n, low, mid, f) /\ low[f] < mid[f]
    BY <1>4, CompareMeans
  <2>2. CASE top = mid
    <3>1. f = h
      BY <1>1, <2>1, <2>2 DEF Differ
    <3>2. QED
      BY <1>1, <1>2, <2>1, <2>2, <3>1
  <2>3. CASE top # mid
    <3>1. PICK g \in 1 .. n : Differ(n, top, mid, g) /\ mid[g] < top[g]
      BY <2>3, CompareMeans
    <3>2. QED
      BY <1>1, <2>1, <3>1, RowsTransitive
  <2>4. QED
    BY <2>2, <2>3
<1>5. QED
  BY <1>3, <1>4

\* A result is a sign.
LEMMA CompareType ==
  ASSUME NEW n \in Nat, NEW left \in [1 .. n -> Nat], NEW right \in [1 .. n -> Nat]
  PROVE  compareNumbers(left, right) \in {-1, 0, 1}
BY CompareCases

-----------------------------------------------------------------------------
\* t is a candidate for current that no other candidate among the tags exceeds.
IsGreatest(t, current, tags) ==
  /\ t \in tags /\ Parses(t) /\ SameScheme(t, current)
  /\ \A u \in tags : Parses(u) /\ SameScheme(u, current) => compareNumbers(u.nums, t.nums) <= 0

\* The two ways to resolve a version that parses.
LEMMA ResolutionCases ==
  ASSUME NEW current, Parses(current), NEW tags, NEW r \in determineResolution(current, tags)
  PROVE  \/ /\ r = Resolution("unknown", Blank)
            /\ \A t \in tags : Parses(t) => ~ SameScheme(t, current)
         \/ \E g \in tags :
              /\ IsGreatest(g, current, tags)
              /\ r = Resolution(IF compareNumbers(current.nums, g.nums) < 0
                                THEN "outdated" ELSE "current", g)
<1> DEFINE filtered == {t \in {u \in tags : Parses(u)} : SameScheme(t, current)}
           greatest == {t \in filtered : \A u \in filtered : compareNumbers(u.nums, t.nums) <= 0}
<1>1. CASE filtered = {}
  <2>1. r = Resolution("unknown", Blank)
    BY <1>1 DEF determineResolution
  <2>2. QED
    BY <1>1, <2>1
<1>2. CASE filtered # {}
  <2>1. r \in {Resolution(IF compareNumbers(current.nums, t.nums) < 0
                          THEN "outdated" ELSE "current", t) : t \in greatest}
    BY <1>2 DEF determineResolution
  <2>2. PICK g \in greatest : r = Resolution(IF compareNumbers(current.nums, g.nums) < 0
                                             THEN "outdated" ELSE "current", g)
    BY <2>1
  <2>3. g \in tags /\ IsGreatest(g, current, tags)
    BY DEF IsGreatest
  <2>4. QED
    BY <2>2, <2>3
<1>3. QED
  BY <1>1, <1>2

\* A verdict comes with a tag, or with none when there is no candidate.
LEMMA ResolutionTyped ==
  ASSUME NEW current, Parses(current), NEW tags, NEW r \in determineResolution(current, tags)
  PROVE  /\ r = Resolution(r.status, r.latest)
         /\ r.status \in {"unknown", "current", "outdated"}
         /\ r.latest \in tags \cup {Blank}
BY ResolutionCases DEF Resolution

\* The numbers of versions of one scheme are rows of one length.
LEMMA SchemeRows ==
  ASSUME NEW t, NEW current, t.nums \in Seq(Nat), current.nums \in Seq(Nat), SameScheme(t, current)
  PROVE  /\ Len(current.nums) \in Nat
         /\ t.nums \in [1 .. Len(current.nums) -> Nat]
         /\ current.nums \in [1 .. Len(current.nums) -> Nat]
BY DEF SameScheme

\* What a list of tags leads to is true of that list: a latest version that is
\* newer is in it, nothing newer of the same scheme is in it otherwise, and a
\* listed version that is current equals the greatest one (determineResolution,
\* resolver.go:126-181).
LEMMA ResolutionTrue ==
  ASSUME NEW current, current.nums \in Seq(Nat), Parses(current),
         NEW tags, \A t \in tags : t.nums \in Seq(Nat),
         NEW r \in determineResolution(current, tags)
  PROVE  /\ r.status = "outdated" => r.latest \in tags /\ Newer(r.latest, current)
         /\ r.status \in {"current", "unknown"} =>
              \A t \in tags : Parses(t) => ~ Newer(t, current)
         /\ r.status = "current" /\ current \in tags =>
              compareNumbers(current.nums, r.latest.nums) = 0
<1>1. CASE r = Resolution("unknown", Blank)
           /\ \A t \in tags : Parses(t) => ~ SameScheme(t, current)
  <2>1. r.status = "unknown"
    BY <1>1 DEF Resolution
  <2>2. QED
    BY <1>1, <2>1 DEF Newer
<1>2. ASSUME NEW g \in tags, IsGreatest(g, current, tags),
             r = Resolution(IF compareNumbers(current.nums, g.nums) < 0
                            THEN "outdated" ELSE "current", g)
      PROVE  /\ r.status = "outdated" => r.latest \in tags /\ Newer(r.latest, current)
             /\ r.status \in {"current", "unknown"} =>
                  \A t \in tags : Parses(t) => ~ Newer(t, current)
             /\ r.status = "current" /\ current \in tags =>
                  compareNumbers(current.nums, r.latest.nums) = 0
  <2> DEFINE n == Len(current.nums)
  <2>1. n \in Nat /\ g.nums \in [1 .. n -> Nat] /\ current.nums \in [1 .. n -> Nat]
    BY <1>2, SchemeRows DEF IsGreatest
  <2>2. r.latest = g
    BY <1>2 DEF Resolution
  <2>3. CASE compareNumbers(current.nums, g.nums) < 0
    <3>1. r.status = "outdated"
      BY <1>2, <2>3 DEF Resolution
    <3>2. Newer(g, current)
      BY <1>2, <2>3 DEF Newer, IsGreatest
    <3>3. QED
      BY <2>2, <3>1, <3>2
  <2>4. CASE ~ (compareNumbers(current.nums, g.nums) < 0)
    <3>1. r.status = "current"
      BY <1>2, <2>4 DEF Resolution
    <3>2. ASSUME NEW t \in tags, Parses(t)
          PROVE  ~ Newer(t, current)
      <4>1. CASE SameScheme(t, current)
        <5>1. t.nums \in [1 .. n -> Nat]
          BY <4>1, SchemeRows
        <5>2. compareNumbers(t.nums, g.nums) <= 0
          BY <1>2, <3>2, <4>1 DEF IsGreatest
        <5> HIDE DEF n
        <5>3. ~ (compareNumbers(current.nums, t.nums) < 0)
          BY <2>1, <2>4, <5>1, <5>2, CompareTransitive
        <5>4. QED
          BY <5>3 DEF Newer
      <4>2. QED
        BY <4>1 DEF Newer
    <3>3. ASSUME current \in tags
          PROVE  compareNumbers(current.nums, g.nums) = 0
      <4>1. SameScheme(current, current)
        BY DEF SameScheme
      <4>2. compareNumbers(current.nums, g.nums) <= 0
        BY <1>2, <3>3, <4>1 DEF IsGreatest
      <4> HIDE DEF n
      <4>3. compareNumbers(current.nums, g.nums) \in {-1, 0, 1}
        BY <2>1, CompareType
      <4>4. QED
        BY <2>4, <4>2, <4>3
    <3>4. QED
      BY <2>2, <3>1, <3>2, <3>3
  <2>5. QED
    BY <2>3, <2>4
<1>3. QED
  BY <1>1, <1>2, ResolutionCases

\* Whichever of several greatest candidates the sort leaves last, the verdict
\* is the same and so are the numbers of the latest version (sort.Slice,
\* resolver.go:165-167).
LEMMA ResolutionUnique ==
  ASSUME NEW current, current.nums \in Seq(Nat), Parses(current),
         NEW tags, \A t \in tags : t.nums \in Seq(Nat),
         NEW r \in determineResolution(current, tags),
         NEW q \in determineResolution(current, tags)
  PROVE  r.status = q.status /\ r.latest.nums = q.latest.nums
<1>1. CASE \A t \in tags : Parses(t) => ~ SameScheme(t, current)
  <2>1. r = Resolution("unknown", Blank) /\ q = Resolution("unknown", Blank)
    BY <1>1, ResolutionCases DEF IsGreatest
  <2>2. QED
    BY <2>1
<1>2. CASE ~ \A t \in tags : Parses(t) => ~ SameScheme(t, current)
  <2>1. PICK g \in tags : /\ IsGreatest(g, current, tags)
                          /\ r = Resolution(IF compareNumbers(current.nums, g.nums) < 0
                                            THEN "outdated" ELSE "current", g)
    BY <1>2, ResolutionCases
  <2>2. PICK h \in tags : /\ IsGreatest(h, current, tags)
                          /\ q = Resolution(IF compareNumbers(current.nums, h.nums) < 0
                                            THEN "outdated" ELSE "current", h)
    BY <1>2, ResolutionCases
  <2> DEFINE n == Len(current.nums)
  <2>3. n \in Nat /\ g.nums \in [1 .. n -> Nat] /\ h.nums \in [1 .. n -> Nat]
    BY <2>1, <2>2, SchemeRows DEF IsGreatest
  <2>4. compareNumbers(g.nums, h.nums) <= 0 /\ compareNumbers(h.nums, g.nums) <= 0
    BY <2>1, <2>2 DEF IsGreatest
  <2> HIDE DEF n
  <2>5. g.nums = h.nums
    BY <2>3, <2>4, CompareAntisymmetric
  <2>6. QED
    BY <2>1, <2>2, <2>5 DEF Resolution
<1>3. QED
  BY <1>1, <1>2

-----------------------------------------------------------------------------
\* A text with numbers is not blank.
LEMMA BlankHasNoNumbers == Blank.nums = <<>>
BY DEF Blank, Word

\* What the collector makes of a container: it always reports some version, and
\* where the resolver can compare, it reports what it compares.
LEMMA ObservationFacts ==
  ASSUME NEW H \in Hosts, NEW c \in H
  PROVE  LET o == buildObservation(c)
         IN  /\ o.container = c.name
             /\ selectReportedCurrentVersion(o) # Blank
             /\ selectComparisonVersion(o).nums \in Seq(Nat)
             /\ Parses(selectComparisonVersion(o)) =>
                  selectReportedCurrentVersion(o) = selectComparisonVersion(o)
<1> DEFINE o == buildObservation(c)
<1>1. o.container = c.name /\ o.tag = c.tag /\ o.current = detectVersion(c)
  BY DEF buildObservation
<1>2. c.tag.nums \in Seq(Nat) /\ c.version.nums \in Seq(Nat)
  BY JobAssumption DEF JobAssumption
<1>3. \A t : Parses(t) => t.nums # <<>>
  BY DEF Parses
<1>4. Word("unknown") # Blank /\ Word("unknown").nums = <<>>
  BY DEF Word, Blank
<1>5. detectVersion(c) # Blank /\ detectVersion(c).nums \in Seq(Nat)
  BY <1>2, <1>4, BlankHasNoNumbers DEF detectVersion, parseVersionTag
<1>6. c.tag.nums # <<>> => detectVersion(c) = c.tag
  BY DEF detectVersion, parseVersionTag
<1> HIDE DEF o
<1>7. selectReportedCurrentVersion(o) # Blank
  BY <1>1, <1>3, <1>5, BlankHasNoNumbers DEF selectReportedCurrentVersion
<1>8. selectComparisonVersion(o).nums \in Seq(Nat)
  BY <1>1, <1>2, <1>5 DEF selectComparisonVersion
<1>9. ASSUME Parses(selectComparisonVersion(o))
      PROVE  selectReportedCurrentVersion(o) = selectComparisonVersion(o)
  <2>1. CASE o.tag # Blank
    <3>1. Parses(c.tag) /\ detectVersion(c) = c.tag
      BY <1>1, <1>3, <1>6, <1>9, <2>1 DEF selectComparisonVersion
    <3>2. QED
      BY <1>1, <2>1, <3>1 DEF selectComparisonVersion, selectReportedCurrentVersion
  <2>2. CASE o.tag = Blank
    BY <1>9, <2>2 DEF selectComparisonVersion, selectReportedCurrentVersion
  <2>3. QED
    BY <2>1, <2>2
<1>10. QED
  BY <1>1, <1>7, <1>8, <1>9 DEF o

\* A snapshot is a list of the observations of the watched containers, each once.
LEMMA SnapshotFacts ==
  ASSUME NEW watch \in BOOLEAN, NEW H \in Hosts, NEW s \in Snapshots(watch, H)
  PROVE  /\ Len(s) \in Nat /\ DOMAIN s = 1 .. Len(s)
         /\ \A i \in DOMAIN s :
              \E c \in H : ~ shouldExclude(watch, c) /\ s[i] = buildObservation(c)
         /\ \A c \in H : ~ shouldExclude(watch, c) =>
              \E i \in DOMAIN s : s[i] = buildObservation(c)
         /\ \A i, j \in DOMAIN s : s[i] = s[j] => i = j
<1> DEFINE watched == {c \in H : ~ shouldExclude(watch, c)}
           obs     == {buildObservation(c) : c \in watched}
           n       == Cardinality(obs)
           build   == [c \in watched |-> buildObservation(c)]
<1>1. /\ s \in [1 .. n -> obs]
      /\ \A i, j \in DOMAIN s : i < j => s[i] # s[j]
  BY DEF Snapshots
<1>2. IsFiniteSet(obs)
  <2>1. IsFiniteSet(watched)
    <3>1. IsFiniteSet(H)
      BY JobAssumption DEF JobAssumption
    <3>2. QED
      BY <3>1, FS_Subset
  <2>2. build \in Surjection(watched, obs)
    <3>1. build \in [watched -> obs]
      OBVIOUS
    <3>2. \A o \in obs : \E c \in watched : build[c] = o
      OBVIOUS
    <3>3. QED
      BY <3>1, <3>2, Fun_IsSurj
  <2>3. QED
    BY <2>1, <2>2, FS_Surjection
<1>3. n \in Nat
  BY <1>2, FS_CardinalityType
<1> HIDE DEF n, build
<1>4. DOMAIN s = 1 .. n /\ Len(s) = n
  BY <1>1, <1>3
<1>5. ASSUME NEW i \in 1 .. n, NEW j \in 1 .. n, s[i] = s[j]
      PROVE  i = j
  <2>1. ~ (i < j) /\ ~ (j < i)
    BY <1>1, <1>4, <1>5
  <2>2. QED
    BY <1>3, <2>1
<1>6. \A o \in obs : \E i \in 1 .. n : s[i] = o
  <2>1. s \in Injection(1 .. n, obs)
    <3> HIDE DEF obs
    <3>1. QED
      BY <1>1, <1>5, Fun_IsInj
  <2>2. Cardinality(1 .. n) = n
    BY <1>3, FS_Interval
  <2> HIDE DEF obs
  <2>3. s \in Surjection(1 .. n, obs)
    BY <1>2, <2>1, <2>2, FS_Injection DEF n
  <2>4. QED
    BY <2>3 DEF Surjection
<1>7. ASSUME NEW i \in DOMAIN s
      PROVE  \E c \in H : ~ shouldExclude(watch, c) /\ s[i] = buildObservation(c)
  <2>1. s[i] \in obs
    BY <1>1, <1>4, <1>7
  <2>2. QED
    BY <2>1
<1>8. ASSUME NEW c \in H, ~ shouldExclude(watch, c)
      PROVE  \E i \in DOMAIN s : s[i] = buildObservation(c)
  <2>1. buildObservation(c) \in obs
    BY <1>8
  <2>2. QED
    BY <1>4, <1>6, <2>1
<1>9. QED
  <2> HIDE DEF obs
  <2>1. QED
    BY <1>3, <1>4, <1>5, <1>7, <1>8

-----------------------------------------------------------------------------
\* What is known of the observations of a run.
LEMMA SnapshotKnown ==
  ASSUME TypeOK, SnapshotOfTaken
  PROVE  /\ Len(snapshot) \in Nat /\ DOMAIN snapshot = 1 .. Len(snapshot)
         /\ \A i \in DOMAIN snapshot :
              /\ selectReportedCurrentVersion(snapshot[i]) # Blank
              /\ selectComparisonVersion(snapshot[i]).nums \in Seq(Nat)
              /\ Parses(selectComparisonVersion(snapshot[i])) =>
                   selectReportedCurrentVersion(snapshot[i]) = selectComparisonVersion(snapshot[i])
<1>1. CASE runs = 0
  <2>1. snapshot = <<>>
    BY <1>1 DEF SnapshotOfTaken
  <2>2. QED
    BY <2>1
<1>2. CASE runs # 0
  <2>1. taken \in Hosts /\ snapshot \in Snapshots(watchByDefault, taken) /\ watchByDefault \in BOOLEAN
    BY <1>2 DEF SnapshotOfTaken, TypeOK
  <2>2. Len(snapshot) \in Nat /\ DOMAIN snapshot = 1 .. Len(snapshot)
    BY <2>1, SnapshotFacts
  <2>3. ASSUME NEW i \in DOMAIN snapshot
        PROVE  /\ selectReportedCurrentVersion(snapshot[i]) # Blank
               /\ selectComparisonVersion(snapshot[i]).nums \in Seq(Nat)
               /\ Parses(selectComparisonVersion(snapshot[i])) =>
                    selectReportedCurrentVersion(snapshot[i]) = selectComparisonVersion(snapshot[i])
    <3>1. PICK c \in taken : snapshot[i] = buildObservation(c)
      BY <2>1, <2>3, SnapshotFacts
    <3>2. QED
      BY <2>1, <3>1, ObservationFacts
  <2>4. QED
    BY <2>2, <2>3
<1>3. QED
  BY <1>1, <1>2

\* The same of the checks so far.
LEMMA ResultsKnown ==
  ASSUME results \in Seq(CheckRecords)
  PROVE  /\ Len(results) \in Nat /\ Resolved = 1 .. Len(results)
         /\ \A i \in Resolved :
              /\ results[i].current \in
                   {selectReportedCurrentVersion(snapshot[k]) : k \in DOMAIN snapshot}
              /\ results[i].latest \in Tags \cup {Blank}
              /\ results[i].status \in Statuses
<1>1. Len(results) \in Nat /\ Resolved = 1 .. Len(results)
  BY DEF Resolved
<1>2. ASSUME NEW i \in Resolved
      PROVE  results[i] \in CheckRecords
  BY <1>1, ElementOfSeq
<1>3. QED
  BY <1>1, <1>2 DEF CheckRecords

\* Every listing names tags, and their numbers are numbers.
LEMMA CachedTags ==
  ASSUME CacheIsHonest, NEW r \in Repos, NEW tags \in cache[r]
  PROVE  tags \in SUBSET Tags /\ \A t \in tags : t.nums \in Seq(Nat)
<1>1. tags \in SUBSET Tags
  BY DEF CacheIsHonest
<1>2. QED
  BY <1>1, JobAssumption DEF JobAssumption

-----------------------------------------------------------------------------
\* Before the first run nothing is observed, cached or checked.
LEMMA RunInit == Init => RunInv
<1> SUFFICES ASSUME Init PROVE RunInv
  OBVIOUS
<1>1. registry \in [Repos -> SUBSET Tags]
  BY DEF Init
<1>2. TypeOK
  BY <1>1, JobAssumption DEF JobAssumption, Init, TypeOK
<1>3. SnapshotOfTaken /\ Progress /\ ChecksFollow
  BY DEF Init, SnapshotOfTaken, Progress, ChecksFollow, Resolved
<1>4. CacheIsHonest
  BY DEF Init, CacheIsHonest
<1>5. QED
  BY <1>2, <1>3, <1>4 DEF RunInv

\* A run starts with an observation of the host as it is, without checks and
\* with nothing cached.
LEMMA CollectKeeps == ASSUME RunInv, Collect PROVE RunInv'
<1>1. /\ runs' = runs + 1 /\ runs < MaxRuns /\ taken' = host /\ results' = <<>> /\ pc' = "resolve"
      /\ snapshot' \in Snapshots(watchByDefault, host) /\ cache' = [r \in Repos |-> {}]
      /\ UNCHANGED <<watchByDefault, host, registry, steady, seen, changes>>
  BY DEF Collect, world
<1>2. TypeOK
  BY DEF RunInv
<1>3. host \in Hosts /\ watchByDefault \in BOOLEAN /\ runs \in 0 .. MaxRuns /\ MaxRuns \in Nat
  BY <1>2, JobAssumption DEF JobAssumption, TypeOK
<1>4. Len(snapshot') \in Nat
  BY <1>1, <1>3, SnapshotFacts
<1>5. SnapshotOfTaken'
  BY <1>1, <1>3 DEF SnapshotOfTaken
<1>6. Progress' /\ ChecksFollow'
  BY <1>1 DEF Progress, ChecksFollow, Resolved
<1>7. CacheIsHonest'
  BY <1>1 DEF CacheIsHonest
<1>8. TypeOK'
  BY <1>1, <1>2, <1>3, <1>4 DEF TypeOK
<1>9. QED
  BY <1>5, <1>6, <1>7, <1>8 DEF RunInv

\* Appending a check of the next observation keeps the checks in step with the
\* observations, as long as nothing is dropped from the cache.
LEMMA CheckAppended ==
  ASSUME RunInv, NEW st \in Statuses, NEW lt \in Tags \cup {Blank},
         Len(results) < Len(snapshot), results' = Append(results, Check(st, lt)),
         UNCHANGED <<watchByDefault, snapshot, taken, runs>>, runs # 0,
         \A r \in Repos : cache[r] \subseteq cache'[r],
         \/ st = "error" /\ lt = Blank
         \/ /\ observation.repo \notin Repos \/ ~ Parses(selectComparisonVersion(observation))
            /\ st = "unsupported" /\ lt = Blank
         \/ /\ observation.repo \in Repos /\ Parses(selectComparisonVersion(observation))
            /\ \E tags \in cache'[observation.repo] :
                 Resolution(st, lt) \in determineResolution(selectComparisonVersion(observation), tags)
  PROVE  /\ results' \in Seq(CheckRecords') /\ Len(results') \in Nat /\ Len(results') <= Len(snapshot)
         /\ \A i \in DOMAIN results' : /\ results'[i].current # Blank
                                       /\ results'[i].latest \in Tags \cup {Blank}
                                       /\ results'[i].status \in Statuses
         /\ ChecksFollow' /\ SnapshotOfTaken'
<1> DEFINE ck == Check(st, lt)
           next == Len(results) + 1
<1>1. /\ Len(snapshot) \in Nat /\ DOMAIN snapshot = 1 .. Len(snapshot)
      /\ \A i \in DOMAIN snapshot : selectReportedCurrentVersion(snapshot[i]) # Blank
  BY SnapshotKnown DEF RunInv
<1>2. results \in Seq(CheckRecords) /\ Len(results) \in Nat /\ DOMAIN results = 1 .. Len(results)
  BY ResultsKnown DEF RunInv, Progress, Resolved
<1>3. next \in DOMAIN snapshot
  BY <1>1, <1>2
<1>4. ck.service = snapshot[next].service
      /\ ck.current = selectReportedCurrentVersion(snapshot[next])
      /\ ck.latest = lt /\ ck.status = st
  BY DEF Check, observation
<1>5. ck \in CheckRecords
  BY <1>3 DEF Check, observation, CheckRecords
<1>6. CheckRecords' = CheckRecords
  BY DEF CheckRecords
<1>7. \A k, o : k = ck /\ o = snapshot[next] => Follows(k, o)'
  BY <1>4 DEF Follows, observation
<1> HIDE DEF ck, next
<1>8. /\ results' \in Seq(CheckRecords) /\ Len(results') = next /\ DOMAIN results' = 1 .. next
      /\ results'[next] = ck /\ \A i \in 1 .. Len(results) : results'[i] = results[i]
  BY <1>2, <1>5, AppendProperties DEF ck, next
<1>9. next \in Nat /\ next <= Len(snapshot) /\ next = Len(results) + 1
  BY <1>1, <1>2, <1>3 DEF next
<1>10. ASSUME NEW i \in 1 .. next
       PROVE  \A k, o : k = results'[i] /\ o = snapshot[i] => Follows(k, o)'
  <2>1. CASE i = next
    BY <1>7, <1>8, <2>1
  <2>2. CASE i \in 1 .. Len(results)
    <3>1. \A k, o : k = results[i] /\ o = snapshot[i] => Follows(k, o)
      BY <1>2, <2>2 DEF RunInv, ChecksFollow, Resolved
    <3>2. results'[i] = results[i]
      BY <1>8, <2>2
    <3>3. \A k, o : Follows(k, o) => Follows(k, o)'
      BY DEF Follows
    <3>4. QED
      BY <3>1, <3>2, <3>3
  <2>3. QED
    BY <1>2, <1>9, <2>1, <2>2
<1>11. ChecksFollow'
  <2>1. \A i \in DOMAIN results' : \A k, o : k = results'[i] /\ o = snapshot'[i] => Follows(k, o)'
    BY <1>8, <1>10
  <2>2. QED
    BY <2>1 DEF ChecksFollow, Resolved
<1>12. SnapshotOfTaken'
  BY DEF RunInv, SnapshotOfTaken
<1>13. ASSUME NEW i \in DOMAIN results'
       PROVE  /\ results'[i].current # Blank
              /\ results'[i].latest \in Tags \cup {Blank}
              /\ results'[i].status \in Statuses
  <2>1. results'[i] \in CheckRecords
    BY <1>8, <1>13, ElementOfSeq
  <2>2. QED
    BY <1>1, <2>1 DEF CheckRecords
<1>14. QED
  BY <1>6, <1>8, <1>9, <1>11, <1>12, <1>13

\* A step that appends such a check and changes nothing but the checks, the
\* cache and pc keeps the invariant, as long as the cache stays honest.
LEMMA AppendKeeps ==
  ASSUME RunInv, NEW st \in Statuses, NEW lt \in Tags \cup {Blank},
         Len(results) < Len(snapshot), results' = Append(results, Check(st, lt)),
         pc # "idle", pc' = "resolve",
         UNCHANGED <<world, steady, seen, taken, snapshot, bounds>>,
         \A r \in Repos : cache[r] \subseteq cache'[r],
         \A r \in Repos : cache'[r] = {} \/ \E S \in SUBSET Tags : cache'[r] = {S},
         CacheIsHonest',
         \/ st = "error" /\ lt = Blank
         \/ /\ observation.repo \notin Repos \/ ~ Parses(selectComparisonVersion(observation))
            /\ st = "unsupported" /\ lt = Blank
         \/ /\ observation.repo \in Repos /\ Parses(selectComparisonVersion(observation))
            /\ \E tags \in cache'[observation.repo] :
                 Resolution(st, lt) \in determineResolution(selectComparisonVersion(observation), tags)
  PROVE  RunInv'
<1>1. UNCHANGED <<watchByDefault, host, registry, steady, seen, taken, snapshot, runs, changes>>
  BY DEF world, bounds
<1>2. runs # 0
  BY DEF RunInv, SnapshotOfTaken
<1>3. /\ results' \in Seq(CheckRecords') /\ Len(results') \in Nat /\ Len(results') <= Len(snapshot)
      /\ \A i \in DOMAIN results' : /\ results'[i].current # Blank
                                    /\ results'[i].latest \in Tags \cup {Blank}
                                    /\ results'[i].status \in Statuses
      /\ ChecksFollow' /\ SnapshotOfTaken'
  BY <1>1, <1>2, CheckAppended
<1>4. Progress'
  BY <1>3 DEF Progress
<1>5. TypeOK'
  BY <1>1, <1>3 DEF RunInv, TypeOK, Statuses
<1>6. QED
  BY <1>3, <1>4, <1>5 DEF RunInv

\* An observation that needs no listing, or whose listing fails.
LEMMA NoTagsKeeps == ASSUME RunInv, Unsupported \/ ListingFails PROVE RunInv'
<1>1. CacheIsHonest' /\ cache' = cache
      /\ \A r \in Repos : cache'[r] = {} \/ \E S \in SUBSET Tags : cache'[r] = {S}
  BY DEF Unsupported, ListingFails, RunInv, CacheIsHonest, TypeOK
<1>2. pc # "idle" /\ pc' = "resolve" /\ Len(results) < Len(snapshot)
      /\ UNCHANGED <<world, steady, seen, taken, snapshot, bounds>>
  BY DEF Unsupported, ListingFails, More, RunInv, Progress
<1>3. \E st \in Statuses :
        /\ results' = Append(results, Check(st, Blank))
        /\ \/ st = "error"
           \/ /\ observation.repo \notin Repos \/ ~ Parses(selectComparisonVersion(observation))
              /\ st = "unsupported"
  BY DEF Unsupported, ListingFails, Supported, Comparable, Statuses
<1>4. PICK st \in Statuses :
        /\ results' = Append(results, Check(st, Blank))
        /\ \/ st = "error"
           \/ /\ observation.repo \notin Repos \/ ~ Parses(selectComparisonVersion(observation))
              /\ st = "unsupported"
  BY <1>3
<1>5. QED
  BY <1>1, <1>2, <1>4, AppendKeeps

\* A verdict from the cached tags, or from those of a listing that is kept.
LEMMA ResolveKeeps ==
  ASSUME RunInv, NEW tags \in SUBSET Tags, Resolves(tags),
         Supported, Comparable, tags \in cache'[observation.repo],
         Len(results) < Len(snapshot), pc # "idle", pc' = "resolve",
         UNCHANGED <<world, steady, seen, taken, snapshot, bounds>>,
         \A r \in Repos : cache[r] \subseteq cache'[r],
         \A r \in Repos : cache'[r] = {} \/ \E S \in SUBSET Tags : cache'[r] = {S},
         CacheIsHonest'
  PROVE  RunInv'
<1>1. PICK r \in determineResolution(selectComparisonVersion(observation), tags) :
        results' = Append(results, Check(r.status, r.latest))
  BY DEF Resolves
<1>2. /\ r = Resolution(r.status, r.latest)
      /\ r.status \in {"unknown", "current", "outdated"}
      /\ r.latest \in tags \cup {Blank}
  BY <1>1, ResolutionTyped DEF Comparable
<1>3. PICK st \in Statuses, lt \in Tags \cup {Blank} :
        st = r.status /\ lt = r.latest /\ r = Resolution(st, lt)
  BY <1>2 DEF Statuses
<1>4. results' = Append(results, Check(st, lt))
  BY <1>1, <1>3
<1>5. /\ observation.repo \in Repos /\ Parses(selectComparisonVersion(observation))
      /\ \E T \in cache'[observation.repo] :
           Resolution(st, lt) \in determineResolution(selectComparisonVersion(observation), T)
  BY <1>1, <1>3 DEF Supported, Comparable
<1>6. QED
  BY <1>4, <1>5, AppendKeeps

\* A verdict from tags that were listed for an earlier observation.
LEMMA FromCacheKeeps == ASSUME RunInv, FromCache PROVE RunInv'
<1>1. Supported /\ Comparable /\ More /\ observation.repo \in Repos
      /\ UNCHANGED <<world, steady, seen, pc, taken, snapshot, cache, bounds>>
  BY DEF FromCache, Supported
<1>2. PICK tags \in cache[observation.repo] : Resolves(tags)
  BY DEF FromCache
<1>3. tags \in SUBSET Tags
  BY <1>1, CachedTags DEF RunInv
<1>4. CacheIsHonest'
  BY <1>1 DEF RunInv, CacheIsHonest
<1>5. \A r \in Repos : cache'[r] = {} \/ \E S \in SUBSET Tags : cache'[r] = {S}
  BY <1>1 DEF RunInv, TypeOK
<1>6. QED
  BY <1>1, <1>2, <1>3, <1>4, <1>5, ResolveKeeps DEF More

\* A verdict from a listing that answers, and whose tags are cached.
LEMMA AnswerKeeps == ASSUME RunInv, ListingAnswers PROVE RunInv'
<1>1. /\ pc = "list" /\ pc' = "resolve"
      /\ Len(results) < Len(snapshot) /\ Supported /\ Comparable /\ cache[observation.repo] = {}
      /\ UNCHANGED <<world, steady, seen, taken, snapshot, bounds>>
  BY DEF ListingAnswers, RunInv, Progress
<1>2. PICK tags \in SUBSET seen[observation.repo] :
        /\ steady[observation.repo] \subseteq tags
        /\ cache' = [cache EXCEPT ![observation.repo] = {tags}]
        /\ Resolves(tags)
  BY DEF ListingAnswers
<1>3. observation.repo \in Repos
  BY <1>1 DEF Supported
<1>4. tags \in SUBSET Tags
  BY <1>3 DEF RunInv, TypeOK
<1>5. PICK repo \in Repos : repo = observation.repo
  BY <1>3
<1>6. /\ cache \in [Repos -> SUBSET SUBSET Tags]
      /\ cache' = [cache EXCEPT ![repo] = {tags}]
      /\ cache[repo] = {} /\ cache'[repo] = {tags}
      /\ \A r \in Repos : r # repo => cache'[r] = cache[r]
  BY <1>1, <1>2, <1>5 DEF RunInv, CacheIsHonest
<1>7. CacheIsHonest'
  <2>1. cache' \in [Repos -> SUBSET SUBSET Tags]
    BY <1>4, <1>6
  <2>2. ASSUME NEW r \in Repos, NEW T \in cache'[r]
        PROVE  steady'[r] \subseteq T /\ T \subseteq seen'[r]
    <3>1. CASE r = repo
      BY <1>1, <1>2, <1>5, <1>6, <2>2, <3>1
    <3>2. CASE r # repo
      BY <1>1, <1>6, <2>2, <3>2 DEF RunInv, CacheIsHonest
    <3>3. QED
      BY <3>1, <3>2
  <2>3. QED
    BY <2>1, <2>2 DEF CacheIsHonest
<1>8. \A r \in Repos : cache'[r] = {} \/ \E S \in SUBSET Tags : cache'[r] = {S}
  BY <1>4, <1>6 DEF RunInv, TypeOK
<1>9. \A r \in Repos : cache[r] \subseteq cache'[r]
  BY <1>6
<1>10. tags \in cache'[observation.repo]
  BY <1>5, <1>6
<1>11. QED
  BY <1>1, <1>2, <1>4, <1>7, <1>8, <1>9, <1>10, ResolveKeeps

\* The steps that leave the checks and the observations alone: CheckRecords,
\* the state of a listing and the checks themselves stay as they are.
LEMMA ProgressKeeps ==
  ASSUME Progress, UNCHANGED <<snapshot, results, cache>>,
         pc' \in {pc, "resolve"}
         \/ (pc' = "idle" /\ Len(results) = Len(snapshot))
         \/ (pc' = "list" /\ Len(results) < Len(snapshot) /\ Supported /\ Comparable
             /\ cache[observation.repo] = {})
  PROVE  Progress'
<1>1. CheckRecords' = CheckRecords
  BY DEF CheckRecords
<1>2. observation' = observation
  BY DEF observation
<1>3. QED
  BY <1>1, <1>2 DEF Progress, Supported, Comparable

\* What checks follow from stays as long as checks, observations and cache do.
LEMMA FollowsKept == ASSUME ChecksFollow, UNCHANGED <<snapshot, results, cache>> PROVE ChecksFollow'
<1>1. \A k, o : Follows(k, o) => Follows(k, o)'
  BY DEF Follows
<1>2. QED
  BY <1>1 DEF ChecksFollow, Resolved

\* A listing starts with what the registry has at that moment; nothing was
\* cached for its repository yet.
LEMMA AskKeeps == ASSUME RunInv, AskForTags PROVE RunInv'
<1>1. /\ pc = "resolve" /\ pc' = "list" /\ Len(results) < Len(snapshot) /\ Supported /\ Comparable
      /\ cache[observation.repo] = {}
      /\ UNCHANGED <<watchByDefault, host, registry, taken, snapshot, cache, results, changes, runs>>
  BY DEF AskForTags, More, world, bounds
<1>2. PICK repo \in Repos : repo = observation.repo
  BY <1>1 DEF Supported
<1>3. /\ steady' = [steady EXCEPT ![repo] = registry[repo]]
      /\ seen' = [seen EXCEPT ![repo] = registry[repo]]
  BY <1>2 DEF AskForTags
<1>4. TypeOK'
  <2>1. steady' \in [Repos -> SUBSET Tags] /\ seen' \in [Repos -> SUBSET Tags]
    BY <1>3 DEF RunInv, TypeOK
  <2>2. QED
    BY <1>1, <2>1 DEF RunInv, TypeOK
<1>5. Progress' /\ ChecksFollow'
  BY <1>1, ProgressKeeps, FollowsKept DEF RunInv
<1>6. SnapshotOfTaken'
  BY <1>1 DEF RunInv, SnapshotOfTaken
<1>7. CacheIsHonest'
  <2>1. \A r \in Repos : r # repo => steady'[r] = steady[r] /\ seen'[r] = seen[r]
    BY <1>3 DEF RunInv, TypeOK
  <2>2. cache[repo] = {}
    BY <1>1, <1>2
  <2>3. QED
    BY <1>1, <2>1, <2>2 DEF RunInv, CacheIsHonest
<1>8. QED
  BY <1>4, <1>5, <1>6, <1>7 DEF RunInv

\* A push only adds to what was seen, a deletion only takes away from what was
\* steady; neither disturbs a listing that is cached.
LEMMA RegistryKeeps ==
  ASSUME RunInv, NEW r \in Repos, NEW t \in Tags, Push(r, t) \/ Delete(r, t)
  PROVE  RunInv'
<1>1. /\ UNCHANGED <<watchByDefault, host, pc, taken, snapshot, cache, results, runs>>
      /\ changes < MaxChanges /\ changes' = changes + 1
  BY DEF Push, Delete
<1>2. /\ registry' \in [Repos -> SUBSET Tags]
      /\ steady' \in [Repos -> SUBSET Tags] /\ seen' \in [Repos -> SUBSET Tags]
      /\ \A q \in Repos : steady'[q] \subseteq steady[q] /\ seen[q] \subseteq seen'[q]
  <2>1. CASE Push(r, t)
    BY <2>1 DEF Push, RunInv, TypeOK
  <2>2. CASE Delete(r, t)
    BY <2>2 DEF Delete, RunInv, TypeOK
  <2>3. QED
    BY <2>1, <2>2
<1>3. TypeOK'
  <2>1. changes \in 0 .. MaxChanges /\ MaxChanges \in Nat
    BY JobAssumption DEF JobAssumption, RunInv, TypeOK
  <2>2. changes' \in 0 .. MaxChanges
    BY <1>1, <2>1
  <2>3. QED
    BY <1>1, <1>2, <2>2 DEF RunInv, TypeOK
<1>4. CacheIsHonest'
  <2>1. cache' \in [Repos -> SUBSET SUBSET Tags]
    BY <1>1 DEF RunInv, CacheIsHonest
  <2>2. ASSUME NEW q \in Repos, NEW T \in cache[q]
        PROVE  steady'[q] \subseteq T /\ T \subseteq seen'[q]
    BY <1>2 DEF RunInv, CacheIsHonest
  <2>3. QED
    BY <1>1, <2>1, <2>2 DEF CacheIsHonest
<1>5. Progress' /\ ChecksFollow'
  BY <1>1, ProgressKeeps, FollowsKept DEF RunInv
<1>6. SnapshotOfTaken'
  BY <1>1 DEF RunInv, SnapshotOfTaken
<1>7. QED
  BY <1>3, <1>4, <1>5, <1>6 DEF RunInv

\* The end of a run, and a host whose containers change: no check is touched.
LEMMA OtherKeeps == ASSUME RunInv, Finish \/ Redeploy \/ UNCHANGED vars PROVE RunInv'
<1>1. /\ UNCHANGED <<watchByDefault, registry, steady, seen, taken, snapshot, cache, results,
                     changes, runs>>
      /\ host' \in Hosts
      /\ \/ pc' = pc /\ (runs = 0 => pc = "idle")
         \/ pc = "resolve" /\ pc' = "idle" /\ Len(results) = Len(snapshot)
  BY DEF Finish, Redeploy, vars, world, bounds, RunInv, TypeOK, SnapshotOfTaken
<1>2. TypeOK'
  BY <1>1 DEF RunInv, TypeOK
<1>3. Progress' /\ ChecksFollow'
  BY <1>1, ProgressKeeps, FollowsKept DEF RunInv
<1>4. SnapshotOfTaken'
  BY <1>1 DEF RunInv, SnapshotOfTaken
<1>5. CacheIsHonest'
  BY <1>1 DEF RunInv, CacheIsHonest
<1>6. QED
  BY <1>2, <1>3, <1>4, <1>5 DEF RunInv

-----------------------------------------------------------------------------
\* The invariant of a run holds whatever is redeployed, pushed or deleted while
\* it lasts (Collect, collector.go:115-144; Resolve, resolver.go:69-124).
THEOREM RunInvariant == Spec => []RunInv
<1>1. RunInv /\ [Next]_vars => RunInv'
  <2> SUFFICES ASSUME RunInv, [Next]_vars PROVE RunInv'
    OBVIOUS
  <2>1. CASE Collect
    BY <2>1, CollectKeeps
  <2>2. CASE Unsupported \/ ListingFails
    BY <2>2, NoTagsKeeps
  <2>3. CASE AskForTags
    BY <2>3, AskKeeps
  <2>4. CASE ListingAnswers
    BY <2>4, AnswerKeeps
  <2>5. CASE FromCache
    BY <2>5, FromCacheKeeps
  <2>6. CASE Finish \/ Redeploy \/ UNCHANGED vars
    BY <2>6, OtherKeeps
  <2>7. CASE \E r \in Repos, t \in Tags : Push(r, t) \/ Delete(r, t)
    BY <2>7, RegistryKeeps
  <2>8. QED
    BY <2>1, <2>2, <2>3, <2>4, <2>5, <2>6, <2>7 DEF Next
<1>2. QED
  BY <1>1, RunInit, PTL DEF Spec

\* TypeOK holds in every state: no check is without a version of its own, none
\* shows a latest version that is no tag, and there are never more checks than
\* observations (Resolve, resolver.go:73-123).
THEOREM TypeCorrect == Spec => []TypeOK
<1>1. RunInv => TypeOK
  BY DEF RunInv
<1>2. QED
  BY <1>1, RunInvariant, PTL

-----------------------------------------------------------------------------
\* What a check with a verdict rests on: an honest listing of its repository.
LEMMA VerdictRests ==
  ASSUME RunInv, NEW i \in Resolved, results[i].status \in {"unknown", "current", "outdated"}
  PROVE  LET o == snapshot[i]
         IN  /\ i \in DOMAIN snapshot
             /\ o.repo \in Repos /\ Parses(selectComparisonVersion(o))
             /\ selectComparisonVersion(o).nums \in Seq(Nat)
             /\ results[i].current = selectComparisonVersion(o)
             /\ \E tags \in cache[o.repo] :
                  /\ Resolution(results[i].status, results[i].latest)
                       \in determineResolution(selectComparisonVersion(o), tags)
                  /\ \A t \in tags : t.nums \in Seq(Nat)
                  /\ steady[o.repo] \subseteq tags /\ tags \subseteq seen[o.repo]
<1> DEFINE o == snapshot[i]
<1>1. i \in DOMAIN snapshot
  <2>1. Len(snapshot) \in Nat /\ DOMAIN snapshot = 1 .. Len(snapshot)
    BY SnapshotKnown DEF RunInv
  <2>2. Len(results) \in Nat /\ Resolved = 1 .. Len(results) /\ Len(results) <= Len(snapshot)
    BY ResultsKnown DEF RunInv, Progress, TypeOK
  <2>3. QED
    BY <2>1, <2>2
<1>2. Follows(results[i], o)
  BY DEF RunInv, ChecksFollow
<1>3. /\ o.repo \in Repos /\ Parses(selectComparisonVersion(o))
      /\ \E tags \in cache[o.repo] :
           Resolution(results[i].status, results[i].latest)
             \in determineResolution(selectComparisonVersion(o), tags)
  BY <1>2 DEF Follows
<1>4. /\ selectComparisonVersion(o).nums \in Seq(Nat)
      /\ selectReportedCurrentVersion(o) = selectComparisonVersion(o)
  BY <1>1, <1>3, SnapshotKnown DEF RunInv
<1>5. results[i].current = selectReportedCurrentVersion(o)
  BY <1>2 DEF Follows
<1>6. \A tags \in cache[o.repo] :
        /\ \A t \in tags : t.nums \in Seq(Nat)
        /\ steady[o.repo] \subseteq tags /\ tags \subseteq seen[o.repo]
  BY <1>3, CachedTags DEF RunInv, CacheIsHonest
<1>7. QED
  BY <1>1, <1>3, <1>4, <1>5, <1>6

\* Then every verdict is true of the registry as it was while its listing ran,
\* whatever was pushed and deleted since (determineResolution,
\* resolver.go:126-181).
THEOREM VerdictsAlwaysTrue == Spec => []VerdictsAreTrue
<1>1. RunInv => VerdictsAreTrue
  <2> SUFFICES ASSUME RunInv, NEW i \in Resolved
               PROVE  LET ck == results[i]
                          o  == snapshot[i]
                          current == selectComparisonVersion(o)
                      IN  /\ ck.status = "outdated" =>
                               ck.latest \in seen[o.repo] /\ Newer(ck.latest, current)
                          /\ ck.status \in {"current", "unknown"} =>
                               \A t \in steady[o.repo] : Parses(t) => ~ Newer(t, current)
                          /\ ck.status = "current" /\ current \in steady[o.repo] =>
                               compareNumbers(current.nums, ck.latest.nums) = 0
    BY DEF VerdictsAreTrue
  <2> DEFINE ck == results[i]
             o  == snapshot[i]
             current == selectComparisonVersion(o)
  <2>1. CASE ck.status \in {"unknown", "current", "outdated"}
    <3>1. /\ Parses(current) /\ current.nums \in Seq(Nat)
          /\ \E tags \in cache[o.repo] :
               /\ Resolution(ck.status, ck.latest) \in determineResolution(current, tags)
               /\ \A t \in tags : t.nums \in Seq(Nat)
               /\ steady[o.repo] \subseteq tags /\ tags \subseteq seen[o.repo]
      BY <2>1, VerdictRests
    <3> HIDE DEF ck, current
    <3>2. PICK tags \in cache[o.repo] :
            /\ Resolution(ck.status, ck.latest) \in determineResolution(current, tags)
            /\ \A t \in tags : t.nums \in Seq(Nat)
            /\ steady[o.repo] \subseteq tags /\ tags \subseteq seen[o.repo]
      BY <3>1
    <3>3. Resolution(ck.status, ck.latest).status = ck.status
          /\ Resolution(ck.status, ck.latest).latest = ck.latest
      BY DEF Resolution
    <3>4. /\ ck.status = "outdated" => ck.latest \in tags /\ Newer(ck.latest, current)
          /\ ck.status \in {"current", "unknown"} =>
               \A t \in tags : Parses(t) => ~ Newer(t, current)
          /\ ck.status = "current" /\ current \in tags =>
               compareNumbers(current.nums, ck.latest.nums) = 0
      BY <3>1, <3>2, <3>3, ResolutionTrue
    <3>5. /\ ck.status = "outdated" => ck.latest \in seen[o.repo] /\ Newer(ck.latest, current)
          /\ ck.status \in {"current", "unknown"} =>
               \A t \in steady[o.repo] : Parses(t) => ~ Newer(t, current)
          /\ ck.status = "current" /\ current \in steady[o.repo] =>
               compareNumbers(current.nums, ck.latest.nums) = 0
      BY <3>2, <3>4
    <3>6. QED
      BY <3>5 DEF ck, current
  <2>2. QED
    BY <2>1
<1>2. QED
  BY <1>1, RunInvariant, PTL

\* Then containers of one image agree, whatever happens in the registry between
\* their observations (the cache of Resolve, resolver.go:71,97-106).
THEOREM SameImageAlwaysSame == Spec => []SameImageSameVerdict
<1>1. RunInv => SameImageSameVerdict
  <2> SUFFICES ASSUME RunInv, NEW i \in Resolved, NEW j \in Resolved,
                      snapshot[i].repo = snapshot[j].repo, snapshot[i].tag = snapshot[j].tag,
                      snapshot[i].current = snapshot[j].current,
                      results[i].status # "error", results[j].status # "error"
               PROVE  /\ results[i].status = results[j].status
                      /\ results[i].latest.nums = results[j].latest.nums
    BY DEF SameImageSameVerdict
  <2> DEFINE current == selectComparisonVersion(snapshot[i])
             repo    == snapshot[i].repo
  <2>1. selectComparisonVersion(snapshot[j]) = current /\ snapshot[j].repo = repo
    BY DEF selectComparisonVersion
  <2>2. Follows(results[i], snapshot[i]) /\ Follows(results[j], snapshot[j])
    BY DEF RunInv, ChecksFollow
  <2>3. CASE repo \notin Repos \/ ~ Parses(current)
    <3>1. /\ results[i].status = "unsupported" /\ results[i].latest = Blank
          /\ results[j].status = "unsupported" /\ results[j].latest = Blank
      BY <2>1, <2>2, <2>3 DEF Follows
    <3>2. QED
      BY <3>1
  <2>4. CASE repo \in Repos /\ Parses(current)
    <3>1. /\ \E tags \in cache[repo] : Resolution(results[i].status, results[i].latest)
                                         \in determineResolution(current, tags)
          /\ \E tags \in cache[repo] : Resolution(results[j].status, results[j].latest)
                                         \in determineResolution(current, tags)
      BY <2>1, <2>2, <2>4 DEF Follows
    <3>2. PICK tags \in cache[repo] :
            Resolution(results[i].status, results[i].latest) \in determineResolution(current, tags)
      BY <3>1
    <3>3. cache[repo] = {tags}
      BY <2>4, <3>2 DEF RunInv, TypeOK
    <3>4. Resolution(results[j].status, results[j].latest) \in determineResolution(current, tags)
      BY <3>1, <3>3
    <3>5. \A t \in tags : t.nums \in Seq(Nat)
      BY <2>4, <3>2, CachedTags DEF RunInv
    <3>6. current.nums \in Seq(Nat)
      <4>1. i \in DOMAIN snapshot
        <5>1. Len(snapshot) \in Nat /\ DOMAIN snapshot = 1 .. Len(snapshot)
          BY SnapshotKnown DEF RunInv
        <5>2. Len(results) \in Nat /\ Resolved = 1 .. Len(results) /\ Len(results) <= Len(snapshot)
          BY ResultsKnown DEF RunInv, Progress, TypeOK
        <5>3. QED
          BY <5>1, <5>2
      <4>2. QED
        BY <4>1, SnapshotKnown DEF RunInv
    <3> DEFINE r == Resolution(results[i].status, results[i].latest)
               q == Resolution(results[j].status, results[j].latest)
    <3>7. /\ r.status = results[i].status /\ r.latest = results[i].latest
          /\ q.status = results[j].status /\ q.latest = results[j].latest
      BY DEF Resolution
    <3> HIDE DEF r, q, current, repo
    <3>8. r.status = q.status /\ r.latest.nums = q.latest.nums
      BY <2>4, <3>2, <3>4, <3>5, <3>6, ResolutionUnique DEF r, q
    <3>9. QED
      BY <3>7, <3>8
  <2>5. QED
    BY <2>3, <2>4
<1>2. QED
  BY <1>1, RunInvariant, PTL

\* Then the version beside a verdict is the one the verdict was derived from
\* (collector.go:367-396, resolver.go:209-229).
THEOREM VerdictAlwaysAboutReported == Spec => []VerdictIsAboutReported
<1>1. RunInv => VerdictIsAboutReported
  BY VerdictRests DEF VerdictIsAboutReported, Verdicts
<1>2. QED
  BY <1>1, RunInvariant, PTL

-----------------------------------------------------------------------------
\* With the documented labels a container is left out exactly when it is opted
\* out; no other label of the code plays a part then.
LEMMA ExcludedIsOptedOut ==
  ASSUME NEW c, c.labels \subseteq Documented
  PROVE  shouldExclude(watchByDefault, c) <=> OptedOut(c)
BY DEF shouldExclude, OptedOut, Documented, defaultExcludeLabels, defaultIncludeLabels

\* Then a finished run has one check for every observation, in order, and one
\* observation for every watched container (Collect, collector.go:115-144;
\* Resolve, resolver.go:73-123).
THEOREM EveryWatchedAlwaysOnce == Spec => []EveryWatchedOnce
<1>1. RunInv => EveryWatchedOnce
  <2> SUFFICES ASSUME RunInv, pc = "idle", runs > 0 PROVE EveryWatchedOnce
    BY DEF EveryWatchedOnce
  <2>1. runs # 0 /\ watchByDefault \in BOOLEAN
    BY DEF RunInv, TypeOK
  <2>2. taken \in Hosts /\ snapshot \in Snapshots(watchByDefault, taken)
    BY <2>1 DEF RunInv, SnapshotOfTaken
  <2>3. /\ Len(snapshot) \in Nat /\ DOMAIN snapshot = 1 .. Len(snapshot)
        /\ \A i \in DOMAIN snapshot :
             \E c \in taken : ~ shouldExclude(watchByDefault, c) /\ snapshot[i] = buildObservation(c)
        /\ \A c \in taken : ~ shouldExclude(watchByDefault, c) =>
             \E i \in DOMAIN snapshot : snapshot[i] = buildObservation(c)
        /\ \A i, j \in DOMAIN snapshot : snapshot[i] = snapshot[j] => i = j
    BY <2>1, <2>2, SnapshotFacts
  <2>4. [i \in Resolved |-> results[i].service] = [i \in DOMAIN snapshot |-> snapshot[i].service]
    <3>1. Resolved = DOMAIN snapshot
      BY <2>3, ResultsKnown DEF RunInv, Progress
    <3>2. \A i \in Resolved : results[i].service = snapshot[i].service
      BY DEF RunInv, ChecksFollow, Follows
    <3>3. QED
      BY <3>1, <3>2
  <2>5. ASSUME NEW c \in taken, c.labels \subseteq Documented
        PROVE  Cardinality({i \in DOMAIN snapshot : snapshot[i].container = c.name})
                 = IF OptedOut(c) THEN 0 ELSE 1
    <3> DEFINE mine == {i \in DOMAIN snapshot : snapshot[i].container = c.name}
    <3>1. \A d \in taken : buildObservation(d).container = d.name
      BY DEF buildObservation
    <3>2. \A d \in taken : d.name = c.name => d = c
      BY <2>2, NamesAssumption DEF NamesAssumption
    <3>3. \A i \in mine : snapshot[i] = buildObservation(c) /\ ~ shouldExclude(watchByDefault, c)
      BY <2>3, <3>1, <3>2
    <3>4. CASE OptedOut(c)
      <4>1. mine = {}
        BY <2>5, <3>3, <3>4, ExcludedIsOptedOut
      <4>2. QED
        BY <3>4, <4>1, FS_EmptySet
    <3>5. CASE ~ OptedOut(c)
      <4>1. PICK i \in DOMAIN snapshot : snapshot[i] = buildObservation(c)
        BY <2>3, <2>5, <3>5, ExcludedIsOptedOut
      <4>2. i \in mine
        BY <3>1, <4>1
      <4>3. mine = {i}
        BY <2>3, <3>3, <4>1, <4>2
      <4>4. QED
        BY <3>5, <4>3, FS_Singleton
    <3>6. QED
      BY <3>4, <3>5
  <2>6. QED
    BY <2>4, <2>5 DEF EveryWatchedOnce
<1>2. QED
  BY <1>1, RunInvariant, PTL
=============================================================================
