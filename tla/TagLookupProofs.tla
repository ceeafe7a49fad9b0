--------------------------- MODULE TagLookupProofs ---------------------------
(***************************************************************************)
(* Proofs about TagLookup, for texts of any length, any images Docker can  *)
(* write, and registries of any number of pages with any Link headers that *)
(* are true: the walk through the pages first, then where texts are cut.   *)
(***************************************************************************)
EXTENDS TagLookup, SequenceTheorems, WellFoundedInduction, TLAPS

\* A non-empty set of numbers has a least one.
LEMMA LeastNumber ==
  ASSUME NEW D, D \subseteq Nat, D # {}
  PROVE  \E i \in D : \A k \in D : i <= k
<1>1. PICK i \in D : \A k \in D : ~ (<<k, i>> \in OpToRel(<, Nat))
  BY NatLessThanWellFounded, WFMin
<1>2. ASSUME NEW k \in D
      PROVE  i <= k
  <2>1. ~ (k < i)
    BY <1>1 DEF OpToRel
  <2>2. QED
    BY <2>1
<1>3. QED
  BY <1>2

\* Induction up to n, for a set of numbers.
LEMMA UpTo ==
  ASSUME NEW n \in Nat, NEW G, 0 \in G, \A m \in 0 .. n - 1 : m \in G => m + 1 \in G
  PROVE  \A m \in 0 .. n : m \in G
<1>1. SUFFICES ASSUME 0 .. n \ G # {} PROVE FALSE
  OBVIOUS
<1>2. PICK m \in 0 .. n \ G : \A k \in 0 .. n \ G : m <= k
  <2>1. (0 .. n \ G) \subseteq Nat
    OBVIOUS
  <2>2. QED
    BY <1>1, <2>1, LeastNumber
<1>3. m # 0 /\ m \in Nat
  BY <1>2
<1>4. m - 1 \in 0 .. n - 1 /\ m - 1 \in 0 .. n /\ ~ (m <= m - 1) /\ m - 1 + 1 = m
  BY <1>2, <1>3
<1>5. m - 1 \in G
  BY <1>2, <1>4
<1>6. QED
  BY <1>2, <1>4, <1>5

\* The greatest number of a set.
LEMMA GreatestIsMax ==
  ASSUME NEW n \in Nat, NEW D, D \subseteq 0 .. n, D # {}
  PROVE  Max(D) \in D /\ \A k \in D : k <= Max(D)
<1> DEFINE C == {n - k : k \in D}
<1>1. C \subseteq Nat /\ C # {}
  <2>1. \A k \in D : n - k \in Nat
    OBVIOUS
  <2>2. PICK k : k \in D
    OBVIOUS
  <2>3. n - k \in C
    BY <2>2
  <2>4. QED
    BY <2>1, <2>3
<1>2. PICK c \in C : \A k \in C : c <= k
  <2> HIDE DEF C
  <2>1. QED
    BY <1>1, LeastNumber
<1>3. PICK m \in D : c = n - m
  BY <1>2
<1>4. \A k \in D : m >= k
  <2>1. ASSUME NEW k \in D
        PROVE  m >= k
    <3>1. c <= n - k /\ k \in 0 .. n /\ m \in 0 .. n
      BY <1>2
    <3>2. QED
      BY <1>3, <3>1
  <2>2. QED
    BY <2>1
<1>5. Max(D) \in D /\ \A k \in D : Max(D) >= k
  BY <1>4 DEF Max
<1>6. QED
  BY <1>5

\* The least number of a set.
LEMMA LeastIsMin ==
  ASSUME NEW D, D \subseteq Nat, D # {}
  PROVE  Min(D) \in D /\ \A k \in D : Min(D) <= k
<1>1. \E i \in D : \A k \in D : i <= k
  BY LeastNumber
<1>2. QED
  BY <1>1 DEF Min

\* A number of a set that is not above the others is its least one.
LEMMA MinIs ==
  ASSUME NEW D, D \subseteq Nat, NEW m \in D, \A k \in D : m <= k
  PROVE  Min(D) = m
<1>1. Min(D) \in D /\ Min(D) <= m /\ m <= Min(D) /\ Min(D) \in Nat /\ m \in Nat
  BY LeastIsMin
<1>2. QED
  BY <1>1

-----------------------------------------------------------------------------
(***************************************************************************)
(* The walk through the pages.                                             *)
(***************************************************************************)
\* g gives the registries of up to n pages.
RegistriesTo(n, g) ==
  \A j \in 0 .. n : g[j] = IF j = 0 THEN {<<>>} ELSE WithPage(g[j - 1], j)

\* There are such registries for any number of pages.
LEMMA RegistriesExist ==
  \E g : g = [j \in 0 .. LastPage |-> g[j]] /\ RegistriesTo(LastPage, g)
<1> DEFINE G == {m \in 0 .. LastPage : \E g : g = [j \in 0 .. m |-> g[j]] /\ RegistriesTo(m, g)}
<1>1. LastPage \in Nat
  BY LookupAssumption
<1>2. 0 \in G
  <2> DEFINE g0 == [j \in 0 .. 0 |-> {<<>>}]
  <2>1. g0 = [j \in 0 .. 0 |-> g0[j]] /\ g0[0] = {<<>>}
    OBVIOUS
  <2> HIDE DEF g0
  <2>2. RegistriesTo(0, g0)
    BY <2>1 DEF RegistriesTo
  <2>3. QED
    BY <1>1, <2>1, <2>2
<1>3. ASSUME NEW m \in 0 .. LastPage - 1, m \in G
      PROVE  m + 1 \in G
  <2>1. PICK g : g = [j \in 0 .. m |-> g[j]] /\ RegistriesTo(m, g)
    BY <1>3
  <2>2. m \in Nat /\ m + 1 \in 0 .. LastPage
    BY <1>1
  <2>3. PICK new : new = WithPage(g[m], m + 1)
    OBVIOUS
  <2> DEFINE k == [j \in 0 .. m + 1 |-> IF j \in 0 .. m THEN g[j] ELSE new]
  <2>4. k = [j \in 0 .. m + 1 |-> k[j]] /\ (\A j \in 0 .. m : k[j] = g[j]) /\ k[m + 1] = new
    BY <2>2
  <2> HIDE DEF k
  <2>5. ASSUME NEW j \in 0 .. m + 1
        PROVE  k[j] = IF j = 0 THEN {<<>>} ELSE WithPage(k[j - 1], j)
    <3>1. CASE j \in 0 .. m
      <4>1. j = 0 \/ j - 1 \in 0 .. m
        BY <2>2, <3>1
      <4>2. g[j] = IF j = 0 THEN {<<>>} ELSE WithPage(g[j - 1], j)
        BY <2>1, <3>1 DEF RegistriesTo
      <4>3. k[j] = g[j] /\ (j # 0 => k[j - 1] = g[j - 1])
        BY <2>4, <3>1, <4>1
      <4>4. QED
        BY <4>2, <4>3
    <3>2. CASE j = m + 1
      <4>1. j # 0 /\ j - 1 = m /\ m \in 0 .. m
        BY <2>2, <3>2
      <4>2. k[j] = new /\ k[j - 1] = g[m] /\ Headers[j] = Headers[m + 1]
        BY <2>4, <3>2, <4>1
      <4>3. QED
        BY <2>3, <4>1, <4>2
    <3>3. QED
      BY <2>2, <3>1, <3>2
  <2>6. RegistriesTo(m + 1, k)
    BY <2>5 DEF RegistriesTo
  <2>7. QED
    BY <2>2, <2>4, <2>6
<1>4. LastPage \in G
  <2> HIDE DEF G
  <2>1. \A m \in 0 .. LastPage : m \in G
    BY <1>1, <1>2, <1>3, UpTo
  <2>2. QED
    BY <1>1, <2>1
<1>5. QED
  BY <1>4

\* A registry has a header it may have on every page.
LEMMA RegistryHeaders ==
  ASSUME NEW h \in Registries[LastPage]
  PROVE  \A p \in Pages : h[p] \in Headers[p]
<1> DEFINE Eq(g) == g = [n \in 0 .. LastPage |->
                           IF n = 0 THEN {<<>>} ELSE WithPage(g[n - 1], n)]
           R == CHOOSE g : Eq(g)
<1>1. Registries = R
  BY DEF Registries
<1>2. PICK g : g = [j \in 0 .. LastPage |-> g[j]] /\ RegistriesTo(LastPage, g)
  BY RegistriesExist
<1>3. Eq(g)
  BY <1>2 DEF RegistriesTo
<1>4. Eq(R)
  <2> HIDE DEF Eq
  <2>1. QED
    BY <1>3
<1>5. /\ LastPage \in Nat
      /\ \A n \in 0 .. LastPage :
           R[n] = IF n = 0 THEN {<<>>} ELSE WithPage(R[n - 1], n)
  BY <1>4, LookupAssumption
<1> HIDE DEF R, Eq
<1> DEFINE Fields == UNION {Headers[p] : p \in Pages}
           G == {m \in 0 .. LastPage :
                   \A k \in R[m] : /\ k \in Seq(Fields) /\ Len(k) = m
                                   /\ \A p \in 1 .. m : k[p] \in Headers[p]}
<1>6. 0 \in G
  <2>1. R[0] = {<<>>} /\ 0 \in 0 .. LastPage
    BY <1>5
  <2>2. <<>> \in Seq(Fields) /\ Len(<<>>) = 0 /\ 1 .. 0 = {}
    OBVIOUS
  <2> HIDE DEF Fields
  <2>3. QED
    BY <2>1, <2>2
<1>7. ASSUME NEW m \in 0 .. LastPage - 1, m \in G
      PROVE  m + 1 \in G
  <2>1. m \in Nat /\ m + 1 \in 0 .. LastPage /\ m + 1 \in Pages /\ m + 1 # 0 /\ m + 1 - 1 = m
    BY <1>5 DEF Pages
  <2>2. R[m + 1] = WithPage(R[m], m + 1)
    BY <1>5, <2>1
  <2>3. ASSUME NEW k \in R[m], NEW f \in Headers[m + 1]
        PROVE  /\ Append(k, f) \in Seq(Fields) /\ Len(Append(k, f)) = m + 1
               /\ \A p \in 1 .. m + 1 : Append(k, f)[p] \in Headers[p]
    <3>1. k \in Seq(Fields) /\ Len(k) = m /\ \A p \in 1 .. m : k[p] \in Headers[p]
      BY <1>7
    <3>2. f \in Fields
      BY <2>1
    <3> HIDE DEF Fields
    <3>3. /\ Append(k, f) \in Seq(Fields) /\ Len(Append(k, f)) = m + 1
          /\ Append(k, f)[m + 1] = f /\ \A p \in 1 .. m : Append(k, f)[p] = k[p]
      BY <2>1, <3>1, <3>2
    <3>4. \A p \in 1 .. m + 1 : p \in 1 .. m \/ p = m + 1
      BY <2>1
    <3>5. QED
      BY <3>1, <3>3, <3>4
  <2> HIDE DEF Fields
  <2>4. \A k \in WithPage(R[m], m + 1) : \E e \in R[m], f \in Headers[m + 1] : k = Append(e, f)
    BY DEF WithPage
  <2>5. QED
    BY <2>1, <2>2, <2>3, <2>4
<1>8. LastPage \in G
  <2> HIDE DEF G
  <2>1. \A m \in 0 .. LastPage : m \in G
    BY <1>5, <1>6, <1>7, UpTo
  <2>2. QED
    BY <1>5, <2>1
<1>9. QED
  BY <1>1, <1>8 DEF Pages

\* A next link was misread on the way.
Shortened == \E p \in visited : Unseen(header[p]) \/ Misled(header[p])

\* What the walk knows: unless a link was misread, the pages in front of the one
\* it asks for have been visited, since a link leads one page on or back.
Walk ==
  /\ \A p \in Pages : header[p] \in Headers[p]
  /\ pc = "ask" => /\ nextURL = Elsewhere \/ \E p \in Pages : nextURL = URL(p)
                   /\ Shortened \/ \E p \in Pages : nextURL = URL(p) /\ 1 .. p - 1 \subseteq visited
  /\ visited \subseteq Pages
  /\ OnlyMisreadShortens

\* A page is followed by its neighbour or one in front of it; by another page, a
\* place that is no page or the end only if that is what was read.
LEMMA NextPage ==
  ASSUME NEW p \in Pages, NEW h \in Headers[p], NEW url, url = linkNextURL(GetLink(h))
  PROVE  /\ url \in {Elsewhere, None} \/ \E q \in Pages : url = URL(q)
         /\ \/ Unseen(h) \/ Misled(h)
            \/ url = None /\ p = LastPage
            \/ \E q \in Pages : url = URL(q) /\ q <= p + 1
<1>1. /\ h \in Seq(Seq(Link)) /\ \A k \in DOMAIN h : h[k] # <<>>
      /\ \A l \in Links(h) :
           l.to = [next |-> p + 1, prev |-> p - 1, first |-> 1, last |-> LastPage][l.rel]
      /\ p < LastPage => \E l \in Links(h) : l.rel = "next"
      /\ p \in Nat /\ LastPage \in Nat /\ p <= LastPage
  BY LookupAssumption DEF Pages
<1>2. \A k \in DOMAIN h : \A i \in DOMAIN h[k] : h[k][i] \in Links(h)
  BY DEF Links
<1>3. \A l \in Links(h) : \E k \in DOMAIN h : \E i \in DOMAIN h[k] : l = h[k][i]
  BY DEF Links
<1> DEFINE f == GetLink(h)
<1>4. CASE \E i \in DOMAIN f : Says(f[i])
  <2>1. h # <<>> /\ f = h[1]
    <3>1. h = <<>> => DOMAIN f = {}
      BY DEF GetLink
    <3>2. QED
      BY <1>4, <3>1 DEF GetLink
  <2>2. 1 \in DOMAIN h /\ f \in Seq(Link) /\ f # <<>>
    BY <1>1, <2>1
  <2>3. 1 \in DOMAIN f /\ f[1] \in Link /\ f[1] \in Links(h)
    BY <1>2, <2>1, <2>2
  <2>4. url = ResolveReference(f[1])
    BY <1>4 DEF linkNextURL
  <2>5. f[1].to \in Pages /\ (f[1].rel # "last" => f[1].to <= p + 1)
    <3>1. f[1].rel \in {"next", "prev", "first", "last"} /\ f[1].to \in Pages
      BY <2>3 DEF Link
    <3>2. f[1].rel # "last" => f[1].to \in {p + 1, p - 1, 1}
      BY <1>1, <2>3, <3>1
    <3>3. QED
      BY <1>1, <3>1, <3>2 DEF Pages
  <2>6. 1 \in Pages /\ 1 <= p + 1
    BY <1>1 DEF Pages
  <2>7. CASE f[1].form \in {"invalid", "astray"}
    <3>1. Misled(h)
      BY <1>4, <2>1, <2>7 DEF Misled
    <3>2. url \in {Elsewhere, None}
      BY <2>4, <2>7 DEF ResolveReference
    <3>3. QED
      BY <3>1, <3>2
  <2>8. CASE f[1].form = "cut"
    <3>1. url = URL(1)
      BY <2>4, <2>8 DEF ResolveReference
    <3>2. QED
      BY <2>6, <3>1
  <2>9. CASE f[1].form \notin {"invalid", "astray", "cut"}
    <3>1. url = URL(f[1].to)
      BY <2>4, <2>9 DEF ResolveReference
    <3>2. f[1].rel = "last" => Misled(h)
      BY <1>4, <2>1 DEF Misled
    <3>3. QED
      BY <2>5, <3>1, <3>2
  <2>10. QED
    BY <2>7, <2>8, <2>9
<1>5. CASE ~ \E i \in DOMAIN f : Says(f[i])
  <2>1. url = None
    BY <1>5 DEF linkNextURL
  <2>2. SUFFICES ASSUME p # LastPage
        PROVE  Unseen(h)
    BY <2>1
  <2>3. p < LastPage
    BY <1>1, <2>2
  <2>4. PICK k \in DOMAIN h : \E i \in DOMAIN h[k] : h[k][i].rel = "next"
    BY <1>1, <1>3, <2>3
  <2>5. PICK i \in DOMAIN h[k] : h[k][i].rel = "next"
    BY <2>4
  <2>6. DOMAIN h = 1 .. Len(h) /\ Len(h) \in Nat /\ h # <<>>
    BY <1>1
  <2>7. k = 1 => ~ h[k][i].exact
    <3>1. f = h[1]
      BY <2>6 DEF GetLink
    <3>2. QED
      BY <1>5, <2>5, <3>1 DEF Says
  <2>8. k = 1 \/ k > 1
    BY <2>6
  <2>9. QED
    BY <2>5, <2>7, <2>8 DEF Unseen
<1>6. QED
  BY <1>4, <1>5

\* A container's image is looked up in a registry that has its headers.
LEMMA WalkStarts == Init => Walk
<1> SUFFICES ASSUME Init
             PROVE  Walk
  OBVIOUS
<1>1. header = Usual \/ header \in Registries[LastPage]
  BY DEF Init
<1>2. \A p \in Pages : header[p] \in Headers[p]
  BY <1>1, RegistryHeaders, LookupAssumption
<1>3. QED
  BY <1>2 DEF Init, Walk, OnlyMisreadShortens

\* A page moves the walk by one, unless it is misread.
LEMMA PageStep ==
  ASSUME Walk, Page
  PROVE  Walk'
<1>1. PICK p \in Pages : nextURL = URL(p) /\ (Shortened \/ 1 .. p - 1 \subseteq visited)
  <2>1. \A p, q \in Pages : URL(p) = URL(q) => p = q
    BY DEF URL
  <2>2. PICK p \in Pages : nextURL = URL(p)
    BY DEF Walk, Page, Elsewhere
  <2>3. Shortened \/ 1 .. p - 1 \subseteq visited
    BY <2>1, <2>2 DEF Walk, Page
  <2>4. QED
    BY <2>2, <2>3
<1>2. header[p] \in Headers[p] /\ p = nextURL.page
  BY <1>1 DEF Walk, URL
<1>3. PICK url : url = linkNextURL(GetLink(header[p]))
  OBVIOUS
<1>4. /\ header' = header /\ visited' = visited \cup {p} /\ nextURL' = url
      /\ pc' = IF url = None THEN "listed" ELSE "ask"
  BY <1>2, <1>3 DEF Page
<1>5. p \in Nat /\ LastPage \in Nat
  BY LookupAssumption DEF Pages
<1>6. visited' \subseteq Pages
  BY <1>4 DEF Walk
<1>7. /\ url \in {Elsewhere, None} \/ \E q \in Pages : url = URL(q)
      /\ \/ Unseen(header[p]) \/ Misled(header[p])
         \/ url = None /\ p = LastPage
         \/ \E q \in Pages : url = URL(q) /\ q <= p + 1
  BY <1>2, <1>3, NextPage
<1>8. Shortened' <=> \E q \in visited' : Unseen(header[q]) \/ Misled(header[q])
  BY <1>4 DEF Shortened
<1>9. Shortened' \/ 1 .. p \subseteq visited'
  <2>1. Shortened => Shortened'
    BY <1>4, <1>8 DEF Shortened
  <2>2. 1 .. p - 1 \subseteq visited => 1 .. p \subseteq visited'
    BY <1>4, <1>5
  <2>3. QED
    BY <1>1, <2>1, <2>2
<1>10. ASSUME NEW q \in Pages, url = URL(q), q <= p + 1
       PROVE  Shortened' \/ 1 .. q - 1 \subseteq visited'
  <2>1. q \in Nat
    BY DEF Pages
  <2>2. QED
    BY <1>5, <1>9, <1>10, <2>1
<1>11. Unseen(header[p]) \/ Misled(header[p]) => Shortened'
  BY <1>4, <1>8
<1>12. CASE url = None
  <2>1. \A q \in Pages : url # URL(q)
    BY <1>12 DEF None, URL, Pages
  <2>2. Shortened' \/ p = LastPage
    BY <1>7, <1>11, <2>1
  <2>3. Shortened' \/ visited' = Pages
    BY <1>6, <1>9, <2>2 DEF Pages
  <2>4. OnlyMisreadShortens'
    BY <1>4, <1>8, <2>3 DEF OnlyMisreadShortens
  <2>5. QED
    BY <1>4, <1>6, <1>12, <2>4 DEF Walk
<1>13. CASE url # None
  <2>1. url = Elsewhere \/ \E q \in Pages : url = URL(q)
    BY <1>7, <1>13
  <2>2. Shortened' \/ \E q \in Pages : url = URL(q) /\ 1 .. q - 1 \subseteq visited'
    BY <1>7, <1>10, <1>11, <1>13
  <2>3. pc' = "ask"
    BY <1>4, <1>13
  <2>4. OnlyMisreadShortens'
    BY <2>3 DEF OnlyMisreadShortens
  <2>5. QED
    BY <1>4, <1>6, <2>1, <2>2, <2>4 DEF Walk
<1>14. QED
  BY <1>12, <1>13

\* A place that is no page is asked for only after a link was misread.
LEMMA NoPageStep ==
  ASSUME Walk, NoPage
  PROVE  Walk'
<1>1. \A p \in Pages : nextURL # URL(p)
  BY DEF NoPage, URL
<1>2. Shortened
  BY <1>1 DEF Walk, NoPage
<1>3. header' = header /\ visited' = visited /\ pc' \in {"error", "listed"}
  BY DEF NoPage
<1>4. OnlyMisreadShortens'
  BY <1>2, <1>3 DEF OnlyMisreadShortens, Shortened
<1>5. QED
  BY <1>3, <1>4 DEF Walk

\* Whatever Link headers a registry of any number of pages sends, as long as they
\* are true, a listing that returns without all pages has met a next link that was
\* not seen, or one that was seen behind a first target that leads nowhere or past
\* the next page; going back along a link, or to the start for a target that was
\* cut, loses nothing (linkNextURL, resolver.go:475; the loop of listTags,
\* resolver.go:346).
THEOREM OnlyMisreadEverShortens == Spec => []OnlyMisreadShortens
<1>1. Walk /\ [Next]_vars => Walk'
  <2> SUFFICES ASSUME Walk, [Next]_vars
               PROVE  Walk'
    OBVIOUS
  <2>1. CASE Collect
    BY <2>1 DEF Collect, Walk, OnlyMisreadShortens
  <2>2. CASE Resolve
    <3>1. /\ header' = header /\ visited' = visited
          /\ pc' = "unsupported" \/ (pc' = "ask" /\ nextURL' = URL(1))
      BY <2>2 DEF Resolve
    <3>2. 1 \in Pages /\ 1 .. 1 - 1 = {}
      BY LookupAssumption DEF Pages
    <3>3. QED
      BY <3>1, <3>2 DEF Walk, OnlyMisreadShortens
  <2>3. CASE UNCHANGED vars
    BY <2>3 DEF vars, Walk, OnlyMisreadShortens, Shortened
  <2>4. QED
    BY <2>1, <2>2, <2>3, PageStep, NoPageStep DEF Next
<1>2. Walk => OnlyMisreadShortens
  BY DEF Walk
<1>3. QED
  BY <1>1, <1>2, WalkStarts, PTL DEF Spec

-----------------------------------------------------------------------------
(***************************************************************************)
(* Parts of a text.                                                        *)
(***************************************************************************)
\* The words and separators of all texts.
Texts == Seq(STRING \cup {Colon, Slash, At, Space, "sha256", "library", "docker.io"})

\* A part of a text, and what stands where in it.
LEMMA PartOf ==
  ASSUME NEW t \in Texts, NEW m \in Nat \ {0}, NEW n \in Int, n <= Len(t)
  PROVE  /\ SubSeq(t, m, n) \in Texts
         /\ Len(SubSeq(t, m, n)) = (IF m <= n THEN n - m + 1 ELSE 0)
         /\ \A i \in 1 .. n - m + 1 : SubSeq(t, m, n)[i] = t[m + i - 1]
<1> DEFINE S == STRING \cup {Colon, Slash, At, Space, "sha256", "library", "docker.io"}
<1>1. t \in Seq(S) /\ Texts = Seq(S)
  BY DEF Texts
<1> HIDE DEF S
<1>2. Len(t) \in Nat
  BY <1>1
<1>3. \A i \in m .. n : t[i] \in S
  <2>1. \A i \in m .. n : i \in 1 .. Len(t)
    BY <1>2
  <2>2. QED
    BY <1>1, <2>1, ElementOfSeq
<1>4. QED
  BY <1>1, <1>3, SubSeqProperties

\* One word of a text.
LEMMA OneWord ==
  ASSUME NEW t \in Texts, NEW m \in Nat \ {0}, m <= Len(t)
  PROVE  SubSeq(t, m, m) = <<t[m]>>
<1>1. m \in Int /\ m <= m /\ m - m + 1 = 1 /\ m + 1 - 1 = m /\ 1 \in 1 .. 1
  OBVIOUS
<1>2. /\ SubSeq(t, m, m) \in Texts
      /\ Len(SubSeq(t, m, m)) = 1
      /\ \A k \in 1 .. 1 : SubSeq(t, m, m)[k] = t[m + k - 1]
  BY <1>1, PartOf
<1>3. PICK s : s = SubSeq(t, m, m)
  OBVIOUS
<1>4. s \in Texts /\ Len(s) = 1 /\ s[1] = t[m]
  BY <1>1, <1>2, <1>3
<1>5. s = <<t[m]>>
  BY <1>4 DEF Texts
<1>6. QED
  BY <1>3, <1>5

\* Two texts in a row.
LEMMA InARow ==
  ASSUME NEW t \in Texts, NEW u \in Texts
  PROVE  /\ Len(t) \in Nat /\ Len(u) \in Nat /\ t \o u \in Texts
         /\ Len(t \o u) = Len(t) + Len(u)
         /\ \A i \in 1 .. Len(t) : (t \o u)[i] = t[i]
         /\ \A i \in 1 .. Len(u) : (t \o u)[Len(t) + i] = u[i]
         /\ \A i \in 1 .. Len(t) + Len(u) :
              i \in 1 .. Len(t) \/ \E k \in 1 .. Len(u) : i = Len(t) + k
<1> DEFINE S == STRING \cup {Colon, Slash, At, Space, "sha256", "library", "docker.io"}
<1>1. t \in Seq(S) /\ u \in Seq(S) /\ Texts = Seq(S)
  BY DEF Texts
<1> HIDE DEF S
<1>2. Len(t) \in Nat /\ Len(u) \in Nat
  BY <1>1
<1>3. /\ t \o u \in Seq(S)
      /\ Len(t \o u) = Len(t) + Len(u)
      /\ \A i \in 1 .. Len(t) + Len(u) :
           (t \o u)[i] = IF i <= Len(t) THEN t[i] ELSE u[i - Len(t)]
  BY <1>1, ConcatProperties
<1>4. \A i \in 1 .. Len(t) : i \in 1 .. Len(t) + Len(u) /\ i <= Len(t)
  BY <1>2
<1>5. \A i \in 1 .. Len(u) : /\ Len(t) + i \in 1 .. Len(t) + Len(u) /\ ~ (Len(t) + i <= Len(t))
                             /\ Len(t) + i - Len(t) = i
  BY <1>2
<1>6. ASSUME NEW i \in 1 .. Len(t) + Len(u), i \notin 1 .. Len(t)
      PROVE  \E k \in 1 .. Len(u) : i = Len(t) + k
  <2>1. i - Len(t) \in 1 .. Len(u) /\ i = Len(t) + (i - Len(t))
    BY <1>2, <1>6
  <2>2. QED
    BY <2>1
<1>7. QED
  BY <1>1, <1>2, <1>3, <1>4, <1>5, <1>6

\* Equal texts.
LEMMA SameText ==
  ASSUME NEW t \in Texts, NEW u \in Texts, Len(t) = Len(u), \A i \in 1 .. Len(t) : t[i] = u[i]
  PROVE  t = u
BY SeqEqual DEF Texts

\* The first part of two in a row, and the second.
LEMMA PartsInARow ==
  ASSUME NEW t \in Texts, NEW u \in Texts
  PROVE  /\ SubSeq(t \o u, 1, Len(t)) = t
         /\ \A m \in {Len(t) + 1} : SubSeq(t \o u, m, Len(t \o u)) = u
<1> DEFINE w == t \o u
<1>1. /\ Len(t) \in Nat /\ Len(u) \in Nat /\ w \in Texts /\ Len(w) = Len(t) + Len(u)
      /\ \A i \in 1 .. Len(t) : w[i] = t[i]
      /\ \A i \in 1 .. Len(u) : w[Len(t) + i] = u[i]
  BY InARow
<1> HIDE DEF w
<1>2. SubSeq(w, 1, Len(t)) = t
  <2>1. /\ SubSeq(w, 1, Len(t)) \in Texts /\ Len(SubSeq(w, 1, Len(t))) = Len(t)
        /\ \A i \in 1 .. Len(t) : SubSeq(w, 1, Len(t))[i] = w[i]
    <3>1. 1 \in Nat \ {0} /\ Len(t) \in Int /\ Len(t) <= Len(w) /\ Len(t) - 1 + 1 = Len(t)
          /\ (~ (1 <= Len(t)) => Len(t) = 0)
      BY <1>1
    <3>2. \A i \in 1 .. Len(t) : 1 + i - 1 = i
      BY <1>1
    <3>3. QED
      BY <1>1, <3>1, <3>2, PartOf
  <2>2. QED
    BY <1>1, <2>1, SameText
<1>3. ASSUME NEW m, m = Len(t) + 1
      PROVE  SubSeq(w, m, Len(w)) = u
  <2>1. m \in Nat \ {0} /\ Len(w) \in Int /\ Len(w) <= Len(w) /\ Len(w) - m + 1 = Len(u)
        /\ (~ (m <= Len(w)) => Len(u) = 0)
    BY <1>1, <1>3
  <2>2. \A i \in 1 .. Len(u) : m + i - 1 = Len(t) + i
    BY <1>1, <1>3
  <2>3. PICK n : n = Len(w)
    OBVIOUS
  <2>4. /\ SubSeq(w, m, n) \in Texts
        /\ Len(SubSeq(w, m, n)) = (IF m <= n THEN n - m + 1 ELSE 0)
        /\ \A i \in 1 .. n - m + 1 : SubSeq(w, m, n)[i] = w[m + i - 1]
    BY <1>1, <2>1, <2>3, PartOf
  <2>5. Len(SubSeq(w, m, n)) = Len(u) /\ \A i \in 1 .. Len(u) : SubSeq(w, m, n)[i] = w[Len(t) + i]
    BY <2>1, <2>2, <2>3, <2>4
  <2>6. QED
    BY <1>1, <2>3, <2>4, <2>5, SameText
<1>4. QED
  BY <1>2, <1>3 DEF w

\* Where a separator stands last, and first.
LEMMA LastIndexFacts ==
  ASSUME NEW t \in Texts, NEW c
  PROVE  /\ LastIndex(t, c) \in 0 .. Len(t)
         /\ LastIndex(t, c) # 0 => t[LastIndex(t, c)] = c
         /\ \A i \in 1 .. Len(t) : t[i] = c => i <= LastIndex(t, c)
<1> DEFINE D == {0} \cup {i \in DOMAIN t : t[i] = c}
<1>1. Len(t) \in Nat /\ DOMAIN t = 1 .. Len(t)
  BY DEF Texts
<1>2. D \subseteq 0 .. Len(t) /\ D # {}
  BY <1>1
<1>3. Max(D) \in D /\ \A k \in D : k <= Max(D)
  <2> HIDE DEF D
  <2>1. QED
    BY <1>1, <1>2, GreatestIsMax
<1>4. LastIndex(t, c) = Max(D)
  BY DEF LastIndex
<1>5. PICK m : m = Max(D)
  OBVIOUS
<1>6. m \in 0 .. Len(t) /\ (m # 0 => t[m] = c)
  BY <1>2, <1>3, <1>5
<1>7. \A i \in 1 .. Len(t) : t[i] = c => i <= m
  BY <1>1, <1>3, <1>5
<1>8. QED
  BY <1>4, <1>5, <1>6, <1>7

\* A separator stands last where no other stands behind it.
LEMMA LastIndexIs ==
  ASSUME NEW t \in Texts, NEW c, NEW m \in 0 .. Len(t), m # 0 => t[m] = c,
         \A i \in 1 .. Len(t) : t[i] = c => i <= m
  PROVE  LastIndex(t, c) = m
<1>1. PICK l : l = LastIndex(t, c)
  OBVIOUS
<1>2. /\ l \in 0 .. Len(t) /\ (l # 0 => t[l] = c)
      /\ \A i \in 1 .. Len(t) : t[i] = c => i <= l
  BY <1>1, LastIndexFacts
<1>3. Len(t) \in Nat
  BY DEF Texts
<1>4. l <= m /\ m <= l
  BY <1>2, <1>3
<1>5. QED
  BY <1>1, <1>2, <1>3, <1>4

\* It stands first where no other stands before it.
LEMMA IndexIs ==
  ASSUME NEW t \in Texts, NEW c, NEW m \in 1 .. Len(t) + 1, m <= Len(t) => t[m] = c,
         \A i \in 1 .. m - 1 : t[i] # c
  PROVE  IndexOf(t, c) = m
<1> DEFINE D == {Len(t) + 1} \cup {i \in DOMAIN t : t[i] = c}
<1>1. Len(t) \in Nat /\ DOMAIN t = 1 .. Len(t)
  BY DEF Texts
<1>2. D \subseteq Nat /\ m \in D
  BY <1>1
<1>3. \A k \in D : m <= k
  BY <1>1
<1>4. Min(D) = m
  <2> HIDE DEF D
  <2>1. QED
    BY <1>2, <1>3, MinIs
<1>5. QED
  BY <1>4 DEF IndexOf

\* The first one stands in the text or, if there is none, behind it.
LEMMA IndexRange ==
  ASSUME NEW t \in Texts, NEW c
  PROVE  IndexOf(t, c) \in 1 .. Len(t) + 1
<1> DEFINE D == {Len(t) + 1} \cup {i \in DOMAIN t : t[i] = c}
<1>1. Len(t) \in Nat /\ DOMAIN t = 1 .. Len(t)
  BY DEF Texts
<1>2. D \subseteq Nat /\ D # {} /\ D \subseteq 1 .. Len(t) + 1
  BY <1>1
<1>3. Min(D) \in D
  <2> HIDE DEF D
  <2>1. QED
    BY <1>2, LeastIsMin
<1>4. QED
  BY <1>2, <1>3 DEF IndexOf

\* A text without blanks is left as it is.
LEMMA NothingToTrim ==
  ASSUME NEW t \in Texts, t # <<>>, \A i \in 1 .. Len(t) : t[i] # Space
  PROVE  TrimSpace(t) = t
<1> DEFINE D == {i \in DOMAIN t : t[i] # Space}
<1>1. Len(t) \in Nat /\ Len(t) # 0 /\ DOMAIN t = 1 .. Len(t)
  BY DEF Texts
<1>2. D = 1 .. Len(t) /\ 1 \in D /\ Len(t) \in D /\ D \subseteq Nat /\ D \subseteq 0 .. Len(t)
  BY <1>1
<1>3. Min(D) = 1 /\ Max(D) = Len(t)
  <2>1. \A k \in D : 1 <= k
    BY <1>1
  <2>2. \A k \in D : k <= Len(t)
    BY <1>1
  <2> HIDE DEF D
  <2>3. Max(D) \in D /\ \A k \in D : k <= Max(D)
    BY <1>1, <1>2, GreatestIsMax
  <2>4. Min(D) = 1
    BY <1>2, <2>1, MinIs
  <2>5. QED
    BY <1>1, <1>2, <2>2, <2>3, <2>4
<1>4. SubSeq(t, 1, Len(t)) = t
  BY <1>1 DEF Texts
<1>5. QED
  BY <1>2, <1>3, <1>4 DEF TrimSpace

\* Whatever the text, trimming and cutting leave a text.
LEMMA CutIsText ==
  ASSUME NEW t \in Texts
  PROVE  TrimSpace(t) \in Texts /\ WithoutDigest(t) \in Texts
<1>1. Len(t) \in Nat /\ DOMAIN t = 1 .. Len(t)
  BY DEF Texts
<1>2. TrimSpace(t) \in Texts
  <2> DEFINE D == {i \in DOMAIN t : t[i] # Space}
  <2>1. CASE D = {}
    <3>1. TrimSpace(t) = <<>> /\ <<>> \in Texts
      BY <2>1 DEF TrimSpace, Texts
    <3>2. QED
      BY <3>1
  <2>2. CASE D # {}
    <3>1. D \subseteq Nat /\ D \subseteq 0 .. Len(t) /\ D \subseteq 1 .. Len(t)
      BY <1>1
    <3>2. TrimSpace(t) = SubSeq(t, Min(D), Max(D))
      BY <2>2 DEF TrimSpace
    <3> HIDE DEF D
    <3>3. PICK lo, hi : lo = Min(D) /\ hi = Max(D)
      OBVIOUS
    <3>4. lo \in D /\ hi \in D
      BY <1>1, <2>2, <3>1, <3>3, LeastIsMin, GreatestIsMax
    <3>5. lo \in Nat \ {0} /\ hi \in Int /\ hi <= Len(t)
      BY <1>1, <3>1, <3>4
    <3>6. SubSeq(t, lo, hi) \in Texts
      BY <3>5, PartOf
    <3>7. QED
      BY <3>2, <3>3, <3>6
  <2>3. QED
    BY <2>1, <2>2
<1>3. WithoutDigest(t) \in Texts
  <2>1. IndexOf(t, At) \in 1 .. Len(t) + 1
    BY IndexRange
  <2>2. PICK n : n = IndexOf(t, At) - 1
    OBVIOUS
  <2>3. n \in Int /\ n <= Len(t) /\ 1 \in Nat \ {0}
    BY <1>1, <2>1, <2>2
  <2>4. SubSeq(t, 1, n) \in Texts
    BY <2>3, PartOf
  <2>5. QED
    BY <2>2, <2>4 DEF WithoutDigest
<1>4. QED
  BY <1>2, <1>3

-----------------------------------------------------------------------------
(***************************************************************************)
(* Both parsers, whatever the text.                                        *)
(***************************************************************************)
\* The name the collector keeps is the text the resolver looks the host up in.
LEMMA SameCut == ASSUME NEW t PROVE parseImageReference(t).name = normalizeImageReference(t)
BY DEF parseImageReference, normalizeImageReference

\* What is left of a text is a text.
LEMMA NameIsText ==
  ASSUME NEW t \in Texts
  PROVE  normalizeImageReference(t) \in Texts
<1> DEFINE v == WithoutDigest(TrimSpace(t))
           colon == LastIndex(v, Colon)
<1>1. v \in Texts
  BY CutIsText
<1>2. colon \in 0 .. Len(v) /\ Len(v) \in Nat
  <2> HIDE DEF v
  <2>1. QED
    BY <1>1, LastIndexFacts DEF Texts
<1>3. normalizeImageReference(t) =
        IF colon > LastIndex(v, Slash) THEN SubSeq(v, 1, colon - 1) ELSE v
  BY DEF normalizeImageReference
<1> HIDE DEF v, colon
<1>4. PICK n : n = colon - 1
  OBVIOUS
<1>5. n \in Int /\ n <= Len(v) /\ 1 \in Nat \ {0}
  BY <1>2, <1>4
<1>6. SubSeq(v, 1, n) \in Texts
  BY <1>1, <1>5, PartOf
<1>7. QED
  BY <1>1, <1>3, <1>4, <1>6

\* So is a repository.
LEMMA RepositoryIsText ==
  ASSUME NEW t \in Texts
  PROVE  splitRegistryHost(t).repository \in Texts
<1>1. PICK slash : slash = IndexOf(t, Slash)
  OBVIOUS
<1>2. PICK m, n : m = slash + 1 /\ n = Len(t)
  OBVIOUS
<1>3. slash \in 1 .. Len(t) + 1
  BY <1>1, IndexRange
<1>4. m \in Nat \ {0} /\ n \in Int /\ n <= Len(t)
  BY <1>2, <1>3 DEF Texts
<1>5. SubSeq(t, m, n) \in Texts
  BY <1>4, PartOf
<1>6. splitRegistryHost(t).repository \in {SubSeq(t, m, n), t}
  BY <1>1, <1>2 DEF splitRegistryHost
<1>7. QED
  BY <1>5, <1>6

\* A text is a suffix of what ends with it.
LEMMA SuffixOf ==
  ASSUME NEW x \in Texts, NEW r \in Texts
  PROVE  IsSuffix(r, x \o r)
<1>1. PICK w : w = x \o r
  OBVIOUS
<1>2. PICK n : n = Len(r)
  OBVIOUS
<1>3. /\ w \in Texts /\ Len(x) \in Nat /\ n \in Nat /\ Len(w) = Len(x) + n
      /\ \A i \in 1 .. n : w[Len(x) + i] = r[i]
  BY <1>1, <1>2, InARow
<1>4. ASSUME NEW t \in Texts
      PROVE  /\ Reverse(t) \in Texts /\ Len(Reverse(t)) = Len(t)
             /\ \A i \in 1 .. Len(t) : Reverse(t)[i] = t[Len(t) - i + 1]
  <2> DEFINE S == STRING \cup {Colon, Slash, At, Space, "sha256", "library", "docker.io"}
  <2>1. t \in Seq(S) /\ Texts = Seq(S) /\ Len(t) \in Nat
    BY DEF Texts
  <2> HIDE DEF S
  <2>2. \A i \in 1 .. Len(t) : t[Len(t) - i + 1] \in S
    <3>1. \A i \in 1 .. Len(t) : Len(t) - i + 1 \in 1 .. Len(t)
      BY <2>1
    <3>2. QED
      BY <2>1, <3>1, ElementOfSeq
  <2>3. QED
    BY <2>1, <2>2 DEF Reverse
<1>5. PICK a, b : a = Reverse(r) /\ b = Reverse(w)
  OBVIOUS
<1>6. /\ a \in Texts /\ Len(a) = n /\ \A i \in 1 .. n : a[i] = r[n - i + 1]
      /\ b \in Texts /\ Len(b) = Len(x) + n
      /\ \A i \in 1 .. Len(x) + n : b[i] = w[Len(x) + n - i + 1]
  BY <1>2, <1>3, <1>4, <1>5
<1>7. ASSUME NEW i \in 1 .. n
      PROVE  a[i] = b[i]
  <2>1. PICK k : k = n - i + 1
    OBVIOUS
  <2>2. k \in 1 .. n /\ Len(x) + k = Len(x) + n - i + 1 /\ i \in 1 .. Len(x) + n
    BY <1>3, <2>1
  <2>3. a[i] = r[k] /\ b[i] = w[Len(x) + k]
    BY <1>6, <2>1, <2>2
  <2>4. QED
    BY <1>3, <2>2, <2>3
<1>8. SubSeq(a, 1, n) = SubSeq(b, 1, n)
  <2>1. 1 \in Nat \ {0} /\ n \in Int /\ n <= Len(a) /\ n <= Len(b) /\ n - 1 + 1 = n
        /\ (~ (1 <= n) => n = 0)
    BY <1>3, <1>6
  <2>2. /\ SubSeq(a, 1, n) \in Texts /\ Len(SubSeq(a, 1, n)) = n
        /\ \A i \in 1 .. n : SubSeq(a, 1, n)[i] = a[1 + i - 1]
    BY <1>6, <2>1, PartOf
  <2>3. /\ SubSeq(b, 1, n) \in Texts /\ Len(SubSeq(b, 1, n)) = n
        /\ \A i \in 1 .. n : SubSeq(b, 1, n)[i] = b[1 + i - 1]
    BY <1>6, <2>1, PartOf
  <2>4. \A i \in 1 .. n : 1 + i - 1 = i
    BY <1>3
  <2>5. \A i \in 1 .. n : SubSeq(a, 1, n)[i] = SubSeq(b, 1, n)[i]
    BY <1>7, <2>2, <2>3, <2>4
  <2>6. QED
    BY <2>2, <2>3, <2>5, SameText
<1>9. Len(a) <= Len(b)
  BY <1>3, <1>6
<1>10. QED
  BY <1>1, <1>5, <1>6, <1>8, <1>9 DEF IsSuffix, IsPrefix

\* A repository that is asked for is a text.
LEMMA RepositoryAsked ==
  ASSUME NEW t \in Texts, parseRegistryReference(t) # Unsupported
  PROVE  parseRegistryReference(t).repository \in Texts
<1>1. PICK r : r = splitRegistryHost(normalizeImageReference(t)).repository
  OBVIOUS
<1>2. r \in Texts
  <2>1. normalizeImageReference(t) \in Texts
    BY NameIsText
  <2>2. QED
    BY <1>1, <2>1, RepositoryIsText
<1>3. \E x \in {<<"library", Slash>>, <<>>} : parseRegistryReference(t).repository = x \o r
  BY <1>1 DEF parseRegistryReference
<1>4. <<"library", Slash>> \in Texts /\ <<>> \in Texts
  BY DEF Texts
<1>5. \A x \in Texts : x \o r \in Texts
  BY <1>2, InARow
<1>6. QED
  BY <1>3, <1>4, <1>5

\* A repository that is asked for ends with what follows the host in the name the
\* collector keeps.
LEMMA RepositoryInName ==
  ASSUME NEW t \in Texts, parseRegistryReference(t) # Unsupported
  PROVE  IsSuffix(splitRegistryHost(parseImageReference(t).name).repository,
                  parseRegistryReference(t).repository)
<1>1. PICK u : u = normalizeImageReference(t)
  OBVIOUS
<1>2. PICK r : r = splitRegistryHost(u).repository
  OBVIOUS
<1>3. u \in Texts /\ r \in Texts
  BY <1>1, <1>2, NameIsText, RepositoryIsText
<1>4. parseImageReference(t).name = u
  BY <1>1, SameCut
<1>5. \E x \in {<<"library", Slash>>, <<>>} : parseRegistryReference(t).repository = x \o r
  BY <1>1, <1>2 DEF parseRegistryReference
<1>6. <<"library", Slash>> \in Texts /\ <<>> \in Texts
  BY DEF Texts
<1>7. QED
  BY <1>2, <1>3, <1>4, <1>5, <1>6, SuffixOf

-----------------------------------------------------------------------------
(***************************************************************************)
(* How an image is written.                                                *)
(***************************************************************************)
\* A list of some things is a list of more things.
LEMMA Wider ==
  ASSUME NEW A, NEW B, A \subseteq B, NEW t \in Seq(A)
  PROVE  t \in Seq(B)
<1>1. Len(t) \in Nat /\ \A i \in 1 .. Len(t) : t[i] \in A
  BY ElementOfSeq
<1>2. t \in [1 .. Len(t) -> B]
  BY <1>1, LenProperties
<1>3. QED
  BY <1>1, <1>2

\* The fields of an image.
LEMMA ImageFacts ==
  ASSUME NEW i \in Images
  PROVE  /\ i.host \in Texts /\ (\A k \in 1 .. Len(i.host) : i.host[k] \in Word \cup {Colon})
         /\ i.path \in Texts /\ i.path # <<>> /\ (\A k \in 1 .. Len(i.path) : i.path[k] \in Word)
         /\ i.tag \in Word /\ i.digest \in Word
         /\ i.host = <<>> => i.path[1] \notin Dotted \cup {"localhost"}
         /\ i.host # <<>> => isRegistryHost(i.host)
<1>1. /\ i.host \in Seq(Word \cup {Colon}) /\ i.path \in Seq(Word) /\ i.path # <<>>
      /\ i.tag \in Word /\ i.digest \in Word
      /\ i.host = <<>> => i.path[1] \notin Dotted \cup {"localhost"}
      /\ i.host # <<>> => isRegistryHost(i.host)
  BY LookupAssumption
<1> DEFINE S == STRING \cup {Colon, Slash, At, Space, "sha256", "library", "docker.io"}
<1>2. Word \subseteq S /\ Word \cup {Colon} \subseteq S /\ Texts = Seq(S)
  BY DEF Word, Texts
<1> HIDE DEF S
<1>3. i.host \in Texts /\ i.path \in Texts
  BY <1>1, <1>2, Wider
<1>4. \A k \in 1 .. Len(i.host) : i.host[k] \in Word \cup {Colon}
  BY <1>1, ElementOfSeq
<1>5. \A k \in 1 .. Len(i.path) : i.path[k] \in Word
  BY <1>1, ElementOfSeq
<1>6. QED
  BY <1>1, <1>3, <1>4, <1>5

\* A path has a slash between any two words.
LEMMA PathFacts ==
  ASSUME NEW p \in Texts, p # <<>>, \A k \in 1 .. Len(p) : p[k] \in Word,
         NEW t, t = PathText(p)
  PROVE  /\ t \in Texts /\ Len(t) \in Nat \ {0} /\ Len(t) = 2 * Len(p) - 1
         /\ \A k \in 1 .. Len(t) : t[k] \in Word \cup {Slash}
         /\ t[1] = p[1] /\ p[1] \in Word /\ t[Len(t)] = Last(p) /\ Last(p) \in Word
         /\ Len(t) > 1 => t[2] = Slash /\ \A m : m = Len(t) - 1 => t[m] = Slash
<1>1. PICK n : n = Len(p)
  OBVIOUS
<1>2. n \in Nat /\ n >= 1 /\ p[1] \in Word /\ p[n] \in Word
  <2>1. n \in Nat /\ n >= 1
    BY <1>1 DEF Texts
  <2>2. 1 \in 1 .. Len(p) /\ n \in 1 .. Len(p)
    BY <1>1, <2>1
  <2>3. QED
    BY <2>1, <2>2
<1>3. t = [k \in 1 .. 2 * n - 1 |-> IF k % 2 = 1 THEN p[(k + 1) \div 2] ELSE Slash]
  BY <1>1 DEF PathText
<1>4. \A k \in 1 .. 2 * n - 1 : t[k] = IF k % 2 = 1 THEN p[(k + 1) \div 2] ELSE Slash
  BY <1>3
<1>5. \A k \in 1 .. 2 * n - 1 : k % 2 = 1 => (k + 1) \div 2 \in 1 .. n
  BY <1>2
<1>6. \A k \in 1 .. 2 * n - 1 : t[k] \in Word \cup {Slash}
  <2>1. \A k \in 1 .. n : p[k] \in Word
    BY <1>1
  <2>2. QED
    BY <1>4, <1>5, <2>1
<1>7. t \in Texts /\ Len(t) = 2 * n - 1
  <2> DEFINE S == STRING \cup {Colon, Slash, At, Space, "sha256", "library", "docker.io"}
  <2>1. Word \cup {Slash} \subseteq S /\ Texts = Seq(S)
    BY DEF Word, Texts
  <2> HIDE DEF S
  <2>2. 2 * n - 1 \in Nat
    BY <1>2
  <2>3. PICK m : m = 2 * n - 1
    OBVIOUS
  <2>4. t \in [1 .. m -> S]
    BY <1>3, <1>6, <2>1, <2>3
  <2>5. t \in Seq(S) /\ Len(t) = m
    BY <2>2, <2>3, <2>4
  <2>6. QED
    BY <2>1, <2>3, <2>5
<1>8. t[1] = p[1]
  <2>1. 1 \in 1 .. 2 * n - 1 /\ 1 % 2 = 1 /\ (1 + 1) \div 2 = 1
    BY <1>2
  <2>2. QED
    BY <1>4, <2>1
<1>9. t[Len(t)] = p[n]
  <2>1. PICK k : k = 2 * n - 1
    OBVIOUS
  <2>2. k \in 1 .. 2 * n - 1 /\ k % 2 = 1 /\ (k + 1) \div 2 = n
    BY <1>2, <2>1
  <2>3. t[k] = p[n]
    BY <1>4, <2>2
  <2>4. QED
    BY <1>7, <2>1, <2>3
<1>10. ASSUME Len(t) > 1
       PROVE  t[2] = Slash /\ \A m : m = Len(t) - 1 => t[m] = Slash
  <2>1. n > 1
    BY <1>2, <1>7, <1>10
  <2>2. 2 \in 1 .. 2 * n - 1 /\ 2 % 2 # 1
    BY <1>2, <2>1
  <2>3. ASSUME NEW m, m = Len(t) - 1
        PROVE  t[m] = Slash
    <3>1. m \in 1 .. 2 * n - 1 /\ m % 2 # 1
      BY <1>2, <1>7, <2>1, <2>3
    <3>2. QED
      BY <1>4, <3>1
  <2>4. QED
    BY <1>4, <2>2, <2>3
<1>11. Len(t) \in Nat \ {0}
  BY <1>2, <1>7
<1>12. QED
  BY <1>1, <1>2, <1>6, <1>7, <1>8, <1>9, <1>10, <1>11 DEF Last

\* What stands before the path of an image.
HostText(i) == IF i.host = <<>> THEN <<>> ELSE Append(i.host, Slash)

\* A host is followed by a slash.
LEMMA HostFacts ==
  ASSUME NEW i \in Images, NEW t, t = HostText(i)
  PROVE  /\ t \in Texts /\ Len(t) \in Nat
         /\ i.host = <<>> => t = <<>> /\ Len(t) = 0
         /\ i.host # <<>> => Len(t) = Len(i.host) + 1 /\ t[Len(t)] = Slash
         /\ \A k \in 1 .. Len(i.host) : t[k] = i.host[k] /\ t[k] \in Word \cup {Colon}
<1> DEFINE S == STRING \cup {Colon, Slash, At, Space, "sha256", "library", "docker.io"}
           h == i.host
<1>1. h \in Seq(S) /\ Texts = Seq(S) /\ Slash \in S
  BY ImageFacts DEF Texts
<1>2. \A k \in 1 .. Len(h) : h[k] \in Word \cup {Colon}
  BY ImageFacts
<1> HIDE DEF S
<1>3. CASE h = <<>>
  <2>1. t = <<>> /\ t \in Seq(S) /\ Len(t) = 0 /\ Len(h) = 0
    BY <1>3 DEF HostText
  <2>2. QED
    BY <1>1, <1>3, <2>1
<1>4. CASE h # <<>>
  <2>1. t = Append(h, Slash)
    BY <1>4 DEF HostText
  <2> HIDE DEF h
  <2>2. /\ t \in Seq(S) /\ Len(t) = Len(h) + 1 /\ Len(t) \in Nat
        /\ \A k \in 1 .. Len(h) : t[k] = h[k]
    BY <1>1, <2>1
  <2>3. t[Len(t)] = Slash
    BY <1>1, <2>1, <2>2
  <2> USE DEF h
  <2>4. QED
    BY <1>1, <1>2, <1>4, <2>2, <2>3
<1>5. QED
  BY <1>3, <1>4

\* The name of an image: what is written in front of tag and digest.
NameText(i) == HostText(i) \o PathText(i.path)

\* The last part of a name begins behind its last slash.
LEMMA NameFacts ==
  ASSUME NEW i \in Images, NEW u, u = NameText(i)
  PROVE  /\ u \in Texts /\ Len(u) \in Nat \ {0}
         /\ \A k \in 1 .. Len(u) : u[k] \in Word \cup {Colon, Slash}
         /\ u[Len(u)] = Last(i.path) /\ Last(i.path) \in Word
         /\ \A m : m = Len(u) - 1 /\ m # 0 => u[m] = Slash
<1>1. PICK h, p : h = HostText(i) /\ p = PathText(i.path)
  OBVIOUS
<1>2. u = h \o p
  BY <1>1 DEF NameText
<1>3. /\ h \in Texts /\ Len(h) \in Nat
      /\ i.host = <<>> => h = <<>> /\ Len(h) = 0
      /\ i.host # <<>> => Len(h) = Len(i.host) + 1 /\ h[Len(h)] = Slash
      /\ \A k \in 1 .. Len(i.host) : h[k] \in Word \cup {Colon}
  BY <1>1, HostFacts
<1>4. i.path \in Texts /\ i.path # <<>> /\ \A k \in 1 .. Len(i.path) : i.path[k] \in Word
  BY ImageFacts
<1>5. /\ p \in Texts /\ Len(p) \in Nat \ {0}
      /\ \A k \in 1 .. Len(p) : p[k] \in Word \cup {Slash}
      /\ p[Len(p)] = Last(i.path) /\ Last(i.path) \in Word
      /\ Len(p) > 1 => \A m : m = Len(p) - 1 => p[m] = Slash
  BY <1>1, <1>4, PathFacts
<1>6. /\ u \in Texts /\ Len(u) = Len(h) + Len(p)
      /\ \A k \in 1 .. Len(h) : u[k] = h[k]
      /\ \A k \in 1 .. Len(p) : u[Len(h) + k] = p[k]
      /\ \A k \in 1 .. Len(h) + Len(p) : k \in 1 .. Len(h) \/ \E l \in 1 .. Len(p) : k = Len(h) + l
  <2>1. h \in Texts /\ p \in Texts
    BY <1>3, <1>5
  <2>2. /\ h \o p \in Texts /\ Len(h \o p) = Len(h) + Len(p)
        /\ \A k \in 1 .. Len(h) : (h \o p)[k] = h[k]
        /\ \A k \in 1 .. Len(p) : (h \o p)[Len(h) + k] = p[k]
        /\ \A k \in 1 .. Len(h) + Len(p) :
             k \in 1 .. Len(h) \/ \E l \in 1 .. Len(p) : k = Len(h) + l
    BY <2>1, InARow
  <2>3. QED
    BY <1>2, <2>2
<1>7. \A k \in 1 .. Len(h) : h[k] \in Word \cup {Colon, Slash}
  <2>1. i.host \in Texts /\ Len(i.host) \in Nat
    BY ImageFacts DEF Texts
  <2>2. CASE i.host = <<>>
    BY <1>3, <2>2
  <2>3. CASE i.host # <<>>
    <3>1. \A k \in 1 .. Len(h) : k \in 1 .. Len(i.host) \/ k = Len(h)
      BY <1>3, <2>1, <2>3
    <3>2. QED
      BY <1>3, <2>3, <3>1
  <2>4. QED
    BY <2>2, <2>3
<1>8. \A k \in 1 .. Len(u) : u[k] \in Word \cup {Colon, Slash}
  <2>1. ASSUME NEW k \in 1 .. Len(h) + Len(p)
        PROVE  u[k] \in Word \cup {Colon, Slash}
    <3>1. CASE k \in 1 .. Len(h)
      BY <1>6, <1>7, <3>1
    <3>2. CASE \E l \in 1 .. Len(p) : k = Len(h) + l
      BY <1>5, <1>6, <3>2
    <3>3. QED
      BY <1>6, <3>1, <3>2
  <2>2. QED
    BY <1>6, <2>1
<1>9. u[Len(u)] = p[Len(p)]
  <2>1. PICK n : n = Len(p)
    OBVIOUS
  <2>2. n \in 1 .. Len(p)
    BY <1>5, <2>1
  <2>3. QED
    BY <1>6, <2>1, <2>2
<1>10. ASSUME NEW m, m = Len(u) - 1, m # 0
       PROVE  u[m] = Slash
  <2>1. CASE Len(p) > 1
    <3>1. PICK l : l = Len(p) - 1
      OBVIOUS
    <3>2. l \in 1 .. Len(p) /\ m = Len(h) + l
      BY <1>3, <1>5, <1>6, <1>10, <2>1, <3>1
    <3>3. QED
      BY <1>5, <1>6, <2>1, <3>1, <3>2
  <2>2. CASE Len(p) = 1
    <3>1. m = Len(h) /\ m \in 1 .. Len(h)
      BY <1>3, <1>6, <1>10, <2>2
    <3>2. i.host # <<>>
      BY <1>3, <3>1
    <3>3. QED
      BY <1>3, <1>6, <3>1, <3>2
  <2>3. \A n \in Nat \ {0} : n > 1 \/ n = 1
    OBVIOUS
  <2>4. QED
    BY <1>5, <2>1, <2>2, <2>3
<1>11. Len(u) \in Nat \ {0}
  BY <1>3, <1>5, <1>6
<1>12. QED
  BY <1>5, <1>6, <1>8, <1>9, <1>10, <1>11

\* What is written behind the name.
TagText(i)    == IF i.tag = "" THEN <<>> ELSE <<Colon, i.tag>>
DigestText(i) == IF i.digest = "" THEN <<>> ELSE <<At, "sha256", Colon, i.digest>>

\* An image is written as its name, tag and digest.
LEMMA WrittenAs ==
  ASSUME NEW i
  PROVE  Written(i) = (NameText(i) \o TagText(i)) \o DigestText(i)
BY DEF Written, NameText, HostText, PathText, TagText, DigestText

\* Neither tag nor digest has a slash or a blank.
LEMMA EndFacts ==
  ASSUME NEW i \in Images, NEW c, c = TagText(i), NEW d, d = DigestText(i)
  PROVE  /\ c \in Texts /\ d \in Texts /\ Len(c) \in Nat /\ Len(d) \in Nat
         /\ \A k \in 1 .. Len(c) : c[k] \in Word \cup {Colon}
         /\ \A k \in 1 .. Len(d) : d[k] # Space
         /\ i.tag = "" => c = <<>> /\ Len(c) = 0
         /\ i.tag # "" => Len(c) = 2 /\ c[1] = Colon /\ c[2] = i.tag /\ c[2] \in Word
         /\ i.digest = "" => Len(d) = 0
         /\ i.digest # "" => Len(d) = 4 /\ d[1] = At
<1> DEFINE S == STRING \cup {Colon, Slash, At, Space, "sha256", "library", "docker.io"}
<1>1. i.tag \in Word /\ i.digest \in Word /\ i.tag \in S /\ i.digest \in S
  BY ImageFacts DEF Word
<1>2. Texts = Seq(S) /\ Colon \in S /\ At \in S /\ "sha256" \in S
  BY DEF Texts
<1> HIDE DEF S
<1>3. /\ c \in Texts /\ Len(c) \in Nat /\ \A k \in 1 .. Len(c) : c[k] \in Word \cup {Colon}
      /\ i.tag = "" => c = <<>> /\ Len(c) = 0
      /\ i.tag # "" => Len(c) = 2 /\ c[1] = Colon /\ c[2] = i.tag /\ c[2] \in Word
  <2>1. CASE i.tag = ""
    <3>1. c = <<>>
      BY <2>1 DEF TagText
    <3>2. <<>> \in Seq(S) /\ Len(<<>>) = 0 /\ 1 .. 0 = {}
      OBVIOUS
    <3>3. QED
      BY <1>2, <2>1, <3>1, <3>2
  <2>2. CASE i.tag # ""
    <3>1. c = <<Colon, i.tag>>
      BY <2>2 DEF TagText
    <3>2. c \in Seq(S) /\ Len(c) = 2 /\ c[1] = Colon /\ c[2] = i.tag
      BY <1>1, <1>2, <3>1
    <3>3. \A k \in 1 .. 2 : k = 1 \/ k = 2
      OBVIOUS
    <3>4. \A k \in 1 .. 2 : c[k] \in Word \cup {Colon}
      BY <1>1, <3>2, <3>3
    <3>5. c \in Texts /\ Len(c) \in Nat /\ \A k \in 1 .. Len(c) : c[k] \in Word \cup {Colon}
      BY <1>2, <3>2, <3>4
    <3>6. c[2] \in Word
      BY <1>1, <3>2
    <3>7. QED
      BY <2>2, <3>2, <3>5, <3>6
  <2>3. QED
    BY <2>1, <2>2
<1>4. /\ d \in Texts /\ Len(d) \in Nat /\ \A k \in 1 .. Len(d) : d[k] # Space
      /\ i.digest = "" => Len(d) = 0
      /\ i.digest # "" => Len(d) = 4 /\ d[1] = At
  <2>1. CASE i.digest = ""
    <3>1. d = <<>>
      BY <2>1 DEF DigestText
    <3>2. <<>> \in Seq(S) /\ Len(<<>>) = 0 /\ 1 .. 0 = {}
      OBVIOUS
    <3>3. QED
      BY <1>2, <2>1, <3>1, <3>2
  <2>2. CASE i.digest # ""
    <3>1. d = <<At, "sha256", Colon, i.digest>>
      BY <2>2 DEF DigestText
    <3>2. d \in Seq(S) /\ Len(d) = 4 /\ d[1] = At /\ d[2] = "sha256" /\ d[3] = Colon
          /\ d[4] = i.digest
      BY <1>1, <1>2, <3>1
    <3>3. At # Space /\ "sha256" # Space /\ Colon # Space /\ i.digest # Space
      BY <1>1 DEF At, Space, Colon, Word
    <3>4. \A k \in 1 .. 4 : k = 1 \/ k = 2 \/ k = 3 \/ k = 4
      OBVIOUS
    <3>5. \A k \in 1 .. 4 : d[k] # Space
      BY <3>2, <3>3, <3>4
    <3>6. d \in Texts /\ Len(d) \in Nat /\ \A k \in 1 .. Len(d) : d[k] # Space
      BY <1>2, <3>2, <3>5
    <3>7. QED
      BY <2>2, <3>2, <3>6
  <2>3. QED
    BY <2>1, <2>2
<1>5. QED
  BY <1>3, <1>4

\* w is t, of a words, and then u, of b words.
InRow(w, t, a, u, b) ==
  /\ a \in Nat /\ b \in Nat /\ w \in Texts /\ Len(w) = a + b
  /\ \A k \in 1 .. a : w[k] = t[k]
  /\ \A k \in 1 .. b : w[a + k] = u[k]
  /\ \A k \in 1 .. a + b : k \in 1 .. a \/ \E l \in 1 .. b : k = a + l

\* Two texts that are put together stand in a row.
LEMMA Joined ==
  ASSUME NEW t \in Texts, NEW u \in Texts
  PROVE  InRow(t \o u, t, Len(t), u, Len(u))
BY InARow DEF InRow

\* v is the name u with that tag: its last slash is in front of the last part of
\* u, its last colon is that of the tag, if it has one.
Marked(u, v, tag) ==
  /\ v \in Texts
  /\ LastIndex(u, Slash) = Len(u) - 1 /\ LastIndex(v, Slash) = Len(u) - 1
  /\ tag # "" => LastIndex(v, Colon) = Len(u) + 1
  /\ tag = "" => v = u /\ LastIndex(v, Colon) <= Len(u) - 1

\* So it is for every image.
LEMMA Marks ==
  ASSUME NEW i \in Images
  PROVE  Marked(NameText(i), NameText(i) \o TagText(i), i.tag)
<1> DEFINE u == NameText(i)
           c == TagText(i)
           v == u \o c
<1>0. u = NameText(i) /\ c = TagText(i) /\ v = u \o c
  OBVIOUS
<1> HIDE DEF u, c, v
<1>1. PICK n, b : n = Len(u) /\ b = Len(c)
  OBVIOUS
<1>2. /\ u \in Texts /\ n \in Nat \ {0}
      /\ \A k \in 1 .. n : u[k] \in Word \cup {Colon, Slash}
      /\ u[n] \in Word
      /\ \A m : m = n - 1 /\ m # 0 => u[m] = Slash
  BY <1>0, <1>1, NameFacts
<1>3. /\ c \in Texts /\ b \in Nat
      /\ \A k \in 1 .. b : c[k] \in Word \cup {Colon}
      /\ i.tag = "" => c = <<>> /\ b = 0
      /\ i.tag # "" => b = 2 /\ c[1] = Colon /\ c[2] \in Word
  BY <1>0, <1>1, EndFacts
<1>4. /\ v \in Texts /\ Len(v) = n + b
      /\ \A k \in 1 .. n : v[k] = u[k]
      /\ \A k \in 1 .. b : v[n + k] = c[k]
      /\ \A k \in 1 .. n + b : k \in 1 .. n \/ \E l \in 1 .. b : k = n + l
  <2>1. u \in Texts /\ c \in Texts
    BY <1>2, <1>3
  <2>2. InRow(u \o c, u, Len(u), c, Len(c))
    BY <2>1, Joined
  <2>3. InRow(v, u, n, c, b)
    BY <1>0, <1>1, <2>2
  <2>4. QED
    BY <2>3 DEF InRow
<1>5. \A w \in Word \cup {Colon} : w # Slash
  BY DEF Word, Slash, Colon
<1>6. \A w \in Word : w # Slash /\ w # Colon
  BY DEF Word
<1>7. PICK m : m = n - 1
  OBVIOUS
<1>8. /\ m \in 0 .. n /\ m \in 0 .. n + b /\ (m # 0 => m \in 1 .. n)
      /\ \A k \in 1 .. n : k <= m \/ k = n
  <2>1. n \in Nat \ {0} /\ b \in Nat
    BY <1>2, <1>3
  <2>2. QED
    BY <1>7, <2>1
<1>9. m # 0 => u[m] = Slash
  BY <1>2, <1>7
<1>10. \A k \in 1 .. n : u[k] = Slash => k <= m
  BY <1>2, <1>6, <1>8
<1>11. LastIndex(u, Slash) = m
  BY <1>1, <1>2, <1>8, <1>9, <1>10, LastIndexIs
<1>12. LastIndex(v, Slash) = m
  <2>1. m # 0 => v[m] = Slash
    BY <1>4, <1>8, <1>9
  <2>2. ASSUME NEW k \in 1 .. n + b, v[k] = Slash
        PROVE  k <= m
    <3>1. k \in 1 .. n \/ \E l \in 1 .. b : k = n + l
      BY <1>4
    <3>2. CASE k \in 1 .. n
      BY <1>4, <1>10, <2>2, <3>2
    <3>3. CASE \E l \in 1 .. b : k = n + l
      BY <1>3, <1>4, <1>5, <2>2, <3>3
    <3>4. QED
      BY <3>1, <3>2, <3>3
  <2>3. m \in 0 .. Len(v) /\ \A k \in 1 .. Len(v) : v[k] = Slash => k <= m
    BY <1>4, <1>8, <2>2
  <2>4. QED
    BY <1>4, <2>1, <2>3, LastIndexIs
<1>13. ASSUME i.tag # ""
       PROVE  LastIndex(v, Colon) = n + 1
  <2>1. b = 2 /\ c[1] = Colon /\ c[2] \in Word
    BY <1>3, <1>13
  <2>2. PICK x : x = n + 1
    OBVIOUS
  <2>3. n \in Nat
    BY <1>2
  <2>4. x \in 0 .. n + b /\ \A k \in 1 .. n + b : k <= x \/ k = n + 2
    BY <2>1, <2>2, <2>3
  <2>5. v[x] = Colon /\ v[n + 2] # Colon
    <3>1. 1 \in 1 .. b /\ 2 \in 1 .. b
      BY <2>1
    <3>2. v[n + 1] = c[1] /\ v[n + 2] = c[2]
      BY <1>4, <3>1
    <3>3. QED
      BY <1>6, <2>1, <2>2, <3>2
  <2>6. x \in 0 .. Len(v) /\ \A k \in 1 .. Len(v) : v[k] = Colon => k <= x
    BY <1>4, <2>4, <2>5
  <2>7. QED
    BY <1>4, <2>2, <2>5, <2>6, LastIndexIs
<1>14. ASSUME i.tag = ""
       PROVE  v = u /\ LastIndex(v, Colon) <= m
  <2>1. b = 0 /\ n \in Nat
    BY <1>2, <1>3, <1>14
  <2>2. Len(v) = n
    <3>1. n + 0 = n
      BY <2>1
    <3>2. QED
      BY <1>4, <2>1, <3>1
  <2>3. v = u
    BY <1>1, <1>2, <1>4, <2>2, SameText
  <2>4. PICK x : x = LastIndex(v, Colon)
    OBVIOUS
  <2>5. x \in 0 .. n /\ (x # 0 => u[x] = Colon)
    BY <1>1, <1>2, <2>3, <2>4, LastIndexFacts
  <2>6. x # n
    BY <1>2, <1>6, <2>5
  <2>7. x <= m
    BY <1>7, <2>1, <2>5, <2>6
  <2>8. QED
    BY <2>3, <2>4, <2>7
<1>15. Marked(u, v, i.tag)
  BY <1>1, <1>4, <1>7, <1>11, <1>12, <1>13, <1>14 DEF Marked
<1>16. QED
  BY <1>0, <1>15

\* The text of an image has no blanks, and what stands before its digest is its
\* name and its tag.
LEMMA DigestIsCut ==
  ASSUME NEW i \in Images
  PROVE  /\ Written(i) \in Texts /\ TrimSpace(Written(i)) = Written(i)
         /\ WithoutDigest(Written(i)) = NameText(i) \o TagText(i)
<1>1. PICK u, c, d : u = NameText(i) /\ c = TagText(i) /\ d = DigestText(i)
  OBVIOUS
<1>2. PICK v : v = u \o c
  OBVIOUS
<1>3. PICK w : w = v \o d
  OBVIOUS
<1>4. PICK n, b, a, e : n = Len(u) /\ b = Len(c) /\ a = Len(v) /\ e = Len(d)
  OBVIOUS
<1>5. Written(i) = w
  BY <1>1, <1>2, <1>3, WrittenAs
<1>6. /\ u \in Texts /\ n \in Nat \ {0}
      /\ \A k \in 1 .. n : u[k] \in Word \cup {Colon, Slash}
  BY <1>1, <1>4, NameFacts
<1>7. /\ c \in Texts /\ d \in Texts /\ b \in Nat /\ e \in Nat
      /\ \A k \in 1 .. b : c[k] \in Word \cup {Colon}
      /\ \A k \in 1 .. e : d[k] # Space
      /\ i.digest = "" => e = 0
      /\ i.digest # "" => e = 4 /\ d[1] = At
  BY <1>1, <1>4, EndFacts
<1>8. v \in Texts /\ InRow(v, u, n, c, b)
  <2>1. InRow(u \o c, u, Len(u), c, Len(c))
    BY <1>6, <1>7, Joined
  <2>2. InRow(v, u, n, c, b)
    BY <1>2, <1>4, <2>1
  <2>3. QED
    BY <2>2 DEF InRow
<1>9. w \in Texts /\ InRow(w, v, a, d, e)
  <2>1. InRow(v \o d, v, Len(v), d, Len(d))
    BY <1>7, <1>8, Joined
  <2>2. InRow(w, v, a, d, e)
    BY <1>3, <1>4, <2>1
  <2>3. QED
    BY <2>2 DEF InRow
<1>10. a \in Nat \ {0} /\ \A k \in 1 .. a : v[k] # Space /\ v[k] # At
  <2>1. \A x \in Word \cup {Colon, Slash} : x # Space /\ x # At
    BY DEF Word, Colon, Slash, Space, At
  <2>2. ASSUME NEW k \in 1 .. n + b
        PROVE  v[k] \in Word \cup {Colon, Slash}
    <3>1. k \in 1 .. n \/ \E l \in 1 .. b : k = n + l
      BY <1>8 DEF InRow
    <3>2. CASE k \in 1 .. n
      BY <1>6, <1>8, <3>2 DEF InRow
    <3>3. CASE \E l \in 1 .. b : k = n + l
      BY <1>7, <1>8, <3>3 DEF InRow
    <3>4. QED
      BY <3>1, <3>2, <3>3
  <2>3. a = n + b
    BY <1>4, <1>8 DEF InRow
  <2>4. n + b \in Nat \ {0}
    <3>1. n \in Nat \ {0} /\ b \in Nat
      BY <1>6, <1>7
    <3>2. QED
      BY <3>1
  <2>5. QED
    BY <2>1, <2>2, <2>3, <2>4
<1>11. Len(w) = a + e /\ a + e \in Nat \ {0}
  <2>1. Len(w) = a + e
    BY <1>9 DEF InRow
  <2>2. a + e \in Nat \ {0}
    <3>1. a \in Nat \ {0} /\ e \in Nat
      BY <1>7, <1>10
    <3>2. QED
      BY <3>1
  <2>3. QED
    BY <2>1, <2>2
<1>12. TrimSpace(w) = w
  <2>1. ASSUME NEW k \in 1 .. a + e
        PROVE  w[k] # Space
    <3>1. k \in 1 .. a \/ \E l \in 1 .. e : k = a + l
      BY <1>9 DEF InRow
    <3>2. CASE k \in 1 .. a
      BY <1>9, <1>10, <3>2 DEF InRow
    <3>3. CASE \E l \in 1 .. e : k = a + l
      <4>1. PICK l \in 1 .. e : k = a + l
        BY <3>3
      <4>2. w[a + l] = d[l]
        BY <1>9 DEF InRow
      <4>3. d[l] # Space
        BY <1>7
      <4>4. QED
        BY <4>1, <4>2, <4>3
    <3>4. QED
      BY <3>1, <3>2, <3>3
  <2>2. w # <<>>
    <3>1. Len(<<>>) = 0
      OBVIOUS
    <3>2. QED
      BY <1>11, <3>1
  <2>3. \A k \in 1 .. Len(w) : w[k] # Space
    BY <1>11, <2>1
  <2>4. QED
    BY <1>9, <2>2, <2>3, NothingToTrim
<1>13. WithoutDigest(w) = v
  <2>1. PICK at : at = a + 1
    OBVIOUS
  <2>2. at \in 1 .. a + e + 1 /\ at - 1 = a
    <3>1. a \in Nat \ {0} /\ e \in Nat
      BY <1>7, <1>10
    <3>2. QED
      BY <2>1, <3>1
  <2>3. at <= a + e => w[at] = At
    <3>1. SUFFICES ASSUME at <= a + e
                   PROVE  w[at] = At
      OBVIOUS
    <3>2. e # 0
      <4>1. a \in Nat \ {0} /\ e \in Nat
        BY <1>7, <1>10
      <4>2. QED
        BY <2>1, <3>1, <4>1
    <3>3. e = 4 /\ d[1] = At
      BY <1>7, <3>2
    <3>4. 1 \in 1 .. e
      BY <3>3
    <3>5. w[a + 1] = d[1]
      BY <1>9, <3>4 DEF InRow
    <3>6. QED
      BY <2>1, <3>3, <3>5
  <2>4. \A k \in 1 .. at - 1 : w[k] # At
    BY <1>9, <1>10, <2>2 DEF InRow
  <2>5. at \in 1 .. Len(w) + 1 /\ (at <= Len(w) => w[at] = At)
    BY <1>11, <2>2, <2>3
  <2>6. IndexOf(w, At) = at
    BY <1>9, <2>4, <2>5, IndexIs
  <2>7. SubSeq(w, 1, a) = v
    <3>1. SubSeq(v \o d, 1, Len(v)) = v
      BY <1>7, <1>8, PartsInARow
    <3>2. QED
      BY <1>3, <1>4, <3>1
  <2>8. QED
    BY <2>2, <2>6, <2>7 DEF WithoutDigest
<1>14. QED
  BY <1>1, <1>2, <1>5, <1>9, <1>12, <1>13

\* An image is cut into its name and its tag.
LEMMA ImageIsCut ==
  ASSUME NEW i \in Images
  PROVE  parseImageReference(Written(i)) =
           [name |-> NameText(i), tag |-> IF i.tag = "" THEN <<>> ELSE <<i.tag>>]
<1>1. PICK u, c : u = NameText(i) /\ c = TagText(i)
  OBVIOUS
<1>2. PICK v : v = u \o c
  OBVIOUS
<1>3. PICK n, b : n = Len(u) /\ b = Len(c)
  OBVIOUS
<1>4. PICK x, y : x = LastIndex(v, Colon) /\ y = LastIndex(v, Slash)
  OBVIOUS
<1>5. parseImageReference(Written(i)) =
        IF x > y
        THEN [name |-> SubSeq(v, 1, x - 1), tag |-> SubSeq(v, x + 1, Len(v))]
        ELSE [name |-> v, tag |-> <<>>]
  <2>1. PICK w : w = Written(i)
    OBVIOUS
  <2>2. TrimSpace(w) = w /\ WithoutDigest(w) = v
    BY <1>1, <1>2, <2>1, DigestIsCut
  <2>3. QED
    BY <1>4, <2>1, <2>2 DEF parseImageReference
<1>6. u \in Texts /\ n \in Nat \ {0}
  BY <1>1, <1>3, NameFacts
<1>7. c \in Texts /\ b \in Nat /\ (i.tag # "" => c = <<Colon, i.tag>> /\ b = 2 /\ c[2] = i.tag)
  BY <1>1, <1>3, EndFacts DEF TagText
<1>8. /\ v \in Texts /\ y = n - 1
      /\ i.tag # "" => x = n + 1
      /\ i.tag = "" => v = u /\ x <= n - 1
  <2>1. Marked(u, v, i.tag)
    BY <1>1, <1>2, Marks
  <2>2. QED
    BY <1>3, <1>4, <2>1 DEF Marked
<1>9. CASE i.tag = ""
  <2>1. x \in Nat
    <3>1. v \in Texts
      BY <1>8
    <3>2. LastIndex(v, Colon) \in 0 .. Len(v)
      BY <3>1, LastIndexFacts
    <3>3. QED
      BY <1>4, <3>2
  <2>2. x <= n - 1 /\ y = n - 1 /\ n \in Nat
    BY <1>6, <1>8, <1>9
  <2>3. ~ (x > y)
    BY <2>1, <2>2
  <2>4. QED
    BY <1>1, <1>5, <1>8, <1>9, <2>3
<1>10. CASE i.tag # ""
  <2>1. x = n + 1 /\ y = n - 1 /\ n \in Nat /\ b = 2
    BY <1>6, <1>7, <1>8, <1>10
  <2>2. x > y /\ x - 1 = n /\ x + 1 = n + 2 /\ n + b = n + 2
    BY <2>1
  <2>3. InRow(v, u, n, c, b)
    <3>1. InRow(u \o c, u, Len(u), c, Len(c))
      BY <1>6, <1>7, Joined
    <3>2. QED
      BY <1>2, <1>3, <3>1
  <2>4. SubSeq(v, 1, x - 1) = u
    <3>1. SubSeq(u \o c, 1, Len(u)) = u
      BY <1>6, <1>7, PartsInARow
    <3>2. QED
      BY <1>2, <1>3, <2>2, <3>1
  <2>5. SubSeq(v, x + 1, Len(v)) = <<i.tag>>
    <3>1. PICK m : m = n + 2
      OBVIOUS
    <3>2. Len(v) = m
      BY <2>2, <2>3, <3>1 DEF InRow
    <3>3. m \in Nat \ {0} /\ m <= m
      BY <2>1, <3>1
    <3>4. SubSeq(v, m, m) = <<v[m]>>
      BY <1>8, <3>2, <3>3, OneWord
    <3>5. v[m] = i.tag
      <4>1. 2 \in 1 .. b
        BY <2>1
      <4>2. v[n + 2] = c[2]
        BY <2>3, <4>1 DEF InRow
      <4>3. QED
        BY <1>7, <1>10, <3>1, <4>2
    <3>6. QED
      BY <2>2, <3>1, <3>2, <3>4, <3>5
  <2>6. QED
    BY <1>1, <1>5, <1>10, <2>2, <2>4, <2>5
<1>11. QED
  BY <1>9, <1>10

\* The artifact of an image is the last part of its path.
LEMMA ArtifactIsLast ==
  ASSUME NEW i \in Images
  PROVE  shortArtifactName(NameText(i)) = <<Last(i.path)>>
<1>1. PICK u, n : u = NameText(i) /\ n = Len(u)
  OBVIOUS
<1>2. /\ u \in Texts /\ n \in Nat \ {0}
      /\ \A k \in 1 .. n : u[k] \in Word \cup {Colon, Slash}
      /\ u[n] = Last(i.path) /\ u[n] \in Word
  BY <1>1, NameFacts
<1>3. LastIndex(u, Slash) = n - 1
  BY <1>1, Marks DEF Marked
<1>4. TrimSpace(u) = u
  <2>1. \A x \in Word \cup {Colon, Slash} : x # Space
    BY DEF Word, Colon, Slash, Space
  <2>2. u # <<>>
    <3>1. Len(<<>>) = 0
      OBVIOUS
    <3>2. QED
      BY <1>1, <1>2, <3>1
  <2>3. QED
    BY <1>1, <1>2, <2>1, <2>2, NothingToTrim
<1>5. Last(u) # Slash
  <2>1. Last(u) = u[n]
    BY <1>1 DEF Last
  <2>2. QED
    BY <1>2, <2>1 DEF Word
<1>6. PICK x : x = n - 1
  OBVIOUS
<1>7. shortArtifactName(u) = IF x \in 1 .. n - 1 THEN SubSeq(u, x + 1, n) ELSE u
  BY <1>1, <1>3, <1>4, <1>5, <1>6 DEF shortArtifactName
<1>8. x + 1 = n /\ (x \notin 1 .. n - 1 => n = 1)
  BY <1>2, <1>6
<1>9. CASE x \in 1 .. n - 1
  <2>1. SubSeq(u, n, n) = <<u[n]>>
    <3>1. n \in Nat \ {0} /\ n <= Len(u)
      BY <1>1, <1>2
    <3>2. QED
      BY <1>2, <3>1, OneWord
  <2>2. QED
    BY <1>1, <1>2, <1>7, <1>8, <1>9, <2>1
<1>10. CASE x \notin 1 .. n - 1
  <2>1. Len(u) = 1 /\ n = 1
    BY <1>1, <1>8, <1>10
  <2>2. u = <<u[1]>>
    BY <1>2, <2>1 DEF Texts
  <2>3. QED
    BY <1>1, <1>2, <1>7, <1>10, <2>1, <2>2
<1>11. QED
  BY <1>9, <1>10

\* The host an image really has, as the registry client writes it.
Host(i) == IF i.host = <<>> THEN <<"docker.io">> ELSE [k \in DOMAIN i.host |-> Lower[i.host[k]]]

\* A host has no blanks to trim.
LEMMA HostIsTrimmed ==
  ASSUME NEW i \in Images
  PROVE  TrimSpace(Host(i)) = Host(i)
<1>1. CASE i.host = <<>>
  <2>1. PICK hub : hub = "docker.io"
    OBVIOUS
  <2>2. Host(i) = <<hub>> /\ <<hub>> \in Texts
    <3>1. Host(i) = <<hub>>
      BY <1>1, <2>1 DEF Host
    <3>2. <<hub>> \in Texts
      BY <2>1 DEF Texts
    <3>3. QED
      BY <3>1, <3>2
  <2>3. <<hub>> # <<>> /\ Len(<<hub>>) = 1 /\ <<hub>>[1] = hub /\ hub # Space
    BY <2>1 DEF Space
  <2>4. \A k \in 1 .. Len(<<hub>>) : <<hub>>[k] # Space
    BY <2>3
  <2>5. QED
    BY <2>2, <2>3, <2>4, NothingToTrim
<1>2. CASE i.host # <<>>
  <2>1. PICK n, host : n = Len(i.host) /\ host = [k \in DOMAIN i.host |-> Lower[i.host[k]]]
    OBVIOUS
  <2>2. n \in Nat \ {0} /\ DOMAIN i.host = 1 .. n
    BY <1>2, <2>1, ImageFacts DEF Texts
  <2>3. \A k \in 1 .. n : host[k] \in Word \cup {Colon}
    BY <2>1, <2>2, LookupAssumption
  <2>4. Word \cup {Colon} \subseteq STRING \cup {Colon} /\ Space \notin Word \cup {Colon}
    BY DEF Word, Space, Colon
  <2>5. host \in Texts /\ Len(host) = n
    <3> DEFINE S == STRING \cup {Colon, Slash, At, Space, "sha256", "library", "docker.io"}
    <3>1. Texts = Seq(S) /\ \A k \in 1 .. n : host[k] \in S
      BY <2>3, <2>4 DEF Texts
    <3> HIDE DEF S
    <3>2. host = [k \in 1 .. n |-> host[k]]
      BY <2>1, <2>2
    <3>3. host \in [1 .. n -> S]
      BY <3>1, <3>2
    <3>4. QED
      BY <2>2, <3>1, <3>3
  <2>6. host # <<>>
    BY <2>2, <2>5
  <2>7. QED
    BY <1>2, <2>1, <2>2, <2>3, <2>4, <2>5, <2>6, NothingToTrim DEF Host
<1>3. QED
  BY <1>1, <1>2

\* A name is split where its host ends.
LEMMA HostIsSplit ==
  ASSUME NEW i \in Images
  PROVE  splitRegistryHost(NameText(i)) = [host |-> Host(i), repository |-> PathText(i.path)]
<1>1. PICK u, h, p : u = NameText(i) /\ h = HostText(i) /\ p = PathText(i.path)
  OBVIOUS
<1>2. PICK n, a, b : n = Len(u) /\ a = Len(h) /\ b = Len(p)
  OBVIOUS
<1>3. i.path \in Texts /\ i.path # <<>> /\ \A k \in 1 .. Len(i.path) : i.path[k] \in Word
  BY ImageFacts
<1>4. /\ p \in Texts /\ b \in Nat \ {0}
      /\ p[1] = i.path[1] /\ p[1] \in Word
      /\ b > 1 => p[2] = Slash
  BY <1>1, <1>2, <1>3, PathFacts
<1>5. /\ h \in Texts /\ a \in Nat
      /\ i.host = <<>> => h = <<>> /\ a = 0
      /\ i.host # <<>> => a = Len(i.host) + 1 /\ h[a] = Slash
      /\ \A k \in 1 .. Len(i.host) : h[k] = i.host[k] /\ h[k] \in Word \cup {Colon}
  BY <1>1, <1>2, HostFacts
<1>6. u = h \o p /\ u \in Texts /\ n = a + b /\ InRow(u, h, a, p, b)
  <2>1. InRow(h \o p, h, Len(h), p, Len(p))
    BY <1>4, <1>5, Joined
  <2>2. u = h \o p
    BY <1>1 DEF NameText
  <2>3. InRow(u, h, a, p, b)
    BY <1>2, <2>1, <2>2
  <2>4. QED
    BY <1>2, <2>2, <2>3 DEF InRow
<1>7. PICK slash : slash = IndexOf(u, Slash)
  OBVIOUS
<1>8. PICK first : first = SubSeq(u, 1, slash - 1)
  OBVIOUS
<1>9. splitRegistryHost(u) =
        IF slash <= n /\ isRegistryHost(first)
        THEN [host |-> [k \in DOMAIN first |-> Lower[first[k]]],
              repository |-> SubSeq(u, slash + 1, n)]
        ELSE [host |-> <<"docker.io">>, repository |-> u]
  BY <1>2, <1>7, <1>8 DEF splitRegistryHost
<1>10. CASE i.host # <<>>
  <2>1. a = Len(i.host) + 1 /\ h[a] = Slash /\ Len(i.host) \in Nat /\ i.host \in Texts
    BY <1>5, <1>10, ImageFacts DEF Texts
  <2>2. PICK m : m = Len(i.host)
    OBVIOUS
  <2>3. a = m + 1 /\ m \in Nat /\ b \in Nat \ {0} /\ n = a + b
    BY <1>4, <1>6, <2>1, <2>2
  <2>4. a \in 1 .. n /\ a \in 1 .. n + 1 /\ a <= n /\ a \in 1 .. a /\ a - 1 = m
    BY <2>3
  <2>5. u[a] = Slash
    BY <1>6, <2>1, <2>4 DEF InRow
  <2>6. \A k \in 1 .. a - 1 : u[k] = i.host[k] /\ u[k] # Slash
    <3>1. \A k \in 1 .. m : k \in 1 .. a
      BY <2>3
    <3>2. \A k \in 1 .. m : u[k] = h[k]
      BY <1>6, <3>1 DEF InRow
    <3>3. \A k \in 1 .. m : h[k] = i.host[k] /\ h[k] \in Word \cup {Colon}
      BY <1>5, <2>2
    <3>4. \A x \in Word \cup {Colon} : x # Slash
      BY DEF Word, Colon, Slash
    <3>5. QED
      BY <2>4, <3>2, <3>3, <3>4
  <2>7. slash = a
    <3>1. a \in 1 .. Len(u) + 1 /\ (a <= Len(u) => u[a] = Slash)
      BY <1>2, <2>4, <2>5
    <3>2. u \in Texts /\ \A k \in 1 .. a - 1 : u[k] # Slash
      BY <1>6, <2>6
    <3>3. IndexOf(u, Slash) = a
      BY <3>1, <3>2, IndexIs
    <3>4. QED
      BY <1>7, <3>3
  <2>8. first = i.host
    <3>1. 1 \in Nat \ {0} /\ m \in Int /\ m <= n /\ m - 1 + 1 = m /\ (~ (1 <= m) => m = 0)
      BY <2>3
    <3>2. u \in Texts /\ m <= Len(u)
      BY <1>2, <1>6, <3>1
    <3>3. /\ SubSeq(u, 1, m) \in Texts
          /\ Len(SubSeq(u, 1, m)) = (IF 1 <= m THEN m - 1 + 1 ELSE 0)
          /\ \A k \in 1 .. m - 1 + 1 : SubSeq(u, 1, m)[k] = u[1 + k - 1]
      BY <3>1, <3>2, PartOf
    <3>4. \A k \in 1 .. m : 1 + k - 1 = k
      BY <2>3
    <3>5. first \in Texts /\ Len(first) = m /\ \A k \in 1 .. m : first[k] = i.host[k]
      BY <1>8, <2>4, <2>6, <2>7, <3>1, <3>3, <3>4
    <3>6. QED
      BY <2>1, <2>2, <3>5, SameText
  <2>9. isRegistryHost(first)
    BY <1>10, <2>8, ImageFacts
  <2>10. SubSeq(u, slash + 1, n) = p
    <3>1. \A x \in {Len(h) + 1} : SubSeq(h \o p, x, Len(h \o p)) = p
      BY <1>4, <1>5, PartsInARow
    <3>2. QED
      BY <1>2, <1>6, <2>7, <3>1
  <2>11. QED
    BY <1>1, <1>9, <1>10, <2>4, <2>7, <2>8, <2>9, <2>10 DEF Host
<1>11. CASE i.host = <<>>
  <2>1. h = <<>> /\ a = 0 /\ i.path[1] \notin Dotted \cup {"localhost"}
    BY <1>5, <1>11, ImageFacts
  <2>2. u = p
    <3>1. \A k \in 1 .. b : u[0 + k] = p[k]
      BY <1>6, <2>1 DEF InRow
    <3>2. n = b /\ \A k \in 1 .. b : 0 + k = k
      BY <1>4, <1>6, <2>1
    <3>3. QED
      BY <1>2, <1>4, <1>6, <3>1, <3>2, SameText
  <2>3. slash <= n => ~ isRegistryHost(first)
    <3>1. SUFFICES ASSUME slash <= n
                   PROVE  ~ isRegistryHost(first)
      OBVIOUS
    <3>2. n = b
      BY <1>4, <1>6, <2>1
    <3>3. PICK s : s = (IF b > 1 THEN 2 ELSE b + 1)
      OBVIOUS
    <3>4. s \in 1 .. n + 1 /\ s - 1 = 1 /\ (s <= n => b > 1) /\ (b > 1 => s = 2)
      BY <1>4, <3>2, <3>3
    <3>5. u[1] \in Word /\ (s <= n => u[s] = Slash)
      BY <1>4, <2>2, <3>4
    <3>6. u[1] # Slash /\ u[1] # Colon
      BY <3>5 DEF Word
    <3>7. slash = s
      <4>1. s \in 1 .. Len(u) + 1 /\ (s <= Len(u) => u[s] = Slash)
        BY <1>2, <3>4, <3>5
      <4>2. \A k \in 1 .. s - 1 : u[k] # Slash
        BY <3>4, <3>6
      <4>3. QED
        BY <1>6, <1>7, <4>1, <4>2, IndexIs
    <3>8. first = <<u[1]>>
      <4>1. 1 \in Nat \ {0} /\ 1 <= Len(u)
        BY <1>2, <1>4, <3>2
      <4>2. SubSeq(u, 1, 1) = <<u[1]>>
        BY <1>6, <4>1, OneWord
      <4>3. QED
        BY <1>8, <3>4, <3>7, <4>2
    <3>9. u[1] \notin Dotted /\ u[1] # "localhost"
      BY <1>4, <2>1, <2>2
    <3>10. DOMAIN first = {1} /\ first[1] = u[1]
      BY <3>8
    <3>11. first # <<"localhost">>
      <4>1. <<"localhost">>[1] = "localhost"
        OBVIOUS
      <4>2. QED
        BY <3>9, <3>10, <4>1
    <3>12. QED
      BY <3>6, <3>9, <3>10, <3>11 DEF isRegistryHost
  <2>4. QED
    BY <1>1, <1>9, <1>11, <2>2, <2>3 DEF Host
<1>12. QED
  BY <1>10, <1>11

\* A path of one part has no slash, any other has.
LEMMA OnePart ==
  ASSUME NEW i \in Images
  PROVE  LastIndex(PathText(i.path), Slash) = 0 <=> Len(i.path) = 1
<1>1. PICK p, b, l : p = PathText(i.path) /\ b = Len(p) /\ l = Len(i.path)
  OBVIOUS
<1>2. i.path \in Texts /\ i.path # <<>> /\ \A k \in 1 .. Len(i.path) : i.path[k] \in Word
  BY ImageFacts
<1>3. l \in Nat
  BY <1>1, <1>2 DEF Texts
<1>4. p \in Texts /\ b \in Nat \ {0} /\ b = 2 * l - 1 /\ p[1] \in Word /\ (b > 1 => p[2] = Slash)
  BY <1>1, <1>2, PathFacts
<1>5. PICK x : x = LastIndex(p, Slash)
  OBVIOUS
<1>6. /\ x \in 0 .. b /\ (x # 0 => p[x] = Slash)
      /\ \A k \in 1 .. b : p[k] = Slash => k <= x
  BY <1>1, <1>4, <1>5, LastIndexFacts
<1>7. b = 1 => x = 0
  <2>1. p[1] # Slash
    BY <1>4 DEF Word
  <2>2. b = 1 => x = 0 \/ x = 1
    BY <1>6
  <2>3. QED
    BY <1>6, <2>1, <2>2
<1>8. b # 1 => x # 0
  <2>1. SUFFICES ASSUME b # 1
                 PROVE  x # 0
    OBVIOUS
  <2>2. b \in Nat \ {0}
    BY <1>4
  <2>3. b > 1 /\ 2 \in 1 .. b
    BY <2>1, <2>2
  <2>4. 2 <= x
    BY <1>4, <1>6, <2>3
  <2>5. QED
    BY <2>4
<1>9. b = 1 <=> l = 1
  <2>1. b = 2 * l - 1
    BY <1>4
  <2>2. QED
    BY <1>3, <2>1
<1>10. QED
  BY <1>1, <1>5, <1>7, <1>8, <1>9

\* An official image is in the library of Docker Hub.
LEMMA InLibrary ==
  ASSUME NEW i \in Images, Len(i.path) = 1
  PROVE  PathText(<<"library">> \o i.path) = <<"library", Slash>> \o PathText(i.path)
<1>1. PICK p, q, x : p = PathText(i.path) /\ q = <<"library">> \o i.path /\ x = i.path[1]
  OBVIOUS
<1>2. i.path \in Texts /\ i.path # <<>> /\ \A k \in 1 .. Len(i.path) : i.path[k] \in Word
  BY ImageFacts
<1>3. p \in Texts /\ Len(p) = 2 * Len(i.path) - 1 /\ p[1] = x
  BY <1>1, <1>2, PathFacts
<1>4. Len(p) = 1 /\ p = <<x>>
  <2>1. Len(p) = 1
    BY <1>3
  <2>2. QED
    BY <1>3, <2>1 DEF Texts
<1>5. i.path = p
  <2>1. i.path = <<x>>
    BY <1>1, <1>2 DEF Texts
  <2>2. QED
    BY <1>4, <2>1
<1>6. Len(q) = 2 /\ q[1] = "library" /\ q[2] = x
  <2>1. PICK l : l = <<"library">>
    OBVIOUS
  <2>2. l \in Texts /\ Len(l) = 1 /\ l[1] = "library"
    <3>1. <<"library">> \in Texts
      BY DEF Texts
    <3>2. QED
      BY <2>1, <3>1
  <2>3. InRow(l \o p, l, Len(l), p, Len(p))
    BY <1>3, <2>2, Joined
  <2>4. InRow(q, l, 1, p, 1)
    BY <1>1, <1>3, <1>4, <1>5, <2>1, <2>2, <2>3
  <2>5. 1 \in 1 .. 1 /\ 1 + 1 = 2
    OBVIOUS
  <2>6. Len(q) = 1 + 1 /\ q[1] = l[1] /\ q[1 + 1] = p[1]
    BY <2>4, <2>5 DEF InRow
  <2>7. QED
    BY <1>3, <2>2, <2>5, <2>6
<1>7. PICK f : f = PathText(q)
  OBVIOUS
<1>8. f = [k \in 1 .. 3 |-> f[k]] /\ f[1] = "library" /\ f[2] = Slash /\ f[3] = x
  <2>1. f = [k \in 1 .. 3 |-> IF k % 2 = 1 THEN q[(k + 1) \div 2] ELSE Slash]
    <3>1. 2 * Len(q) - 1 = 3
      BY <1>6
    <3>2. QED
      BY <1>7, <3>1 DEF PathText
  <2>2. /\ 1 \in 1 .. 3 /\ 1 % 2 = 1 /\ (1 + 1) \div 2 = 1
        /\ 2 \in 1 .. 3 /\ 2 % 2 # 1
        /\ 3 \in 1 .. 3 /\ 3 % 2 = 1 /\ (3 + 1) \div 2 = 2
    OBVIOUS
  <2>3. f = [k \in 1 .. 3 |-> f[k]]
    BY <2>1
  <2>4. \A k \in 1 .. 3 : f[k] = IF k % 2 = 1 THEN q[(k + 1) \div 2] ELSE Slash
    BY <2>1
  <2>5. QED
    BY <1>6, <2>2, <2>3, <2>4
<1>9. PICK lib, w : lib = <<"library", Slash>> /\ w = lib \o p
  OBVIOUS
<1>10. lib \in Texts /\ Len(lib) = 2 /\ lib[1] = "library" /\ lib[2] = Slash
  <2>1. <<"library", Slash>> \in Texts
    BY DEF Texts
  <2>2. QED
    BY <1>9, <2>1
<1>11. w \in Texts /\ Len(w) = 3 /\ w[1] = "library" /\ w[2] = Slash /\ w[3] = x
  <2>1. InRow(lib \o p, lib, Len(lib), p, Len(p))
    BY <1>3, <1>10, Joined
  <2>2. InRow(w, lib, 2, p, 1)
    BY <1>4, <1>9, <1>10, <2>1
  <2>3. 1 \in 1 .. 2 /\ 2 \in 1 .. 2 /\ 1 \in 1 .. 1 /\ 2 + 1 = 3
    OBVIOUS
  <2>4. w \in Texts /\ Len(w) = 2 + 1 /\ w[1] = lib[1] /\ w[2] = lib[2] /\ w[2 + 1] = p[1]
    BY <2>2, <2>3 DEF InRow
  <2>5. QED
    BY <1>3, <1>10, <2>3, <2>4
<1>12. f = w
  <2>1. w = [k \in 1 .. 3 |-> w[k]]
    BY <1>11 DEF Texts
  <2>2. \A k \in 1 .. 3 : k = 1 \/ k = 2 \/ k = 3
    OBVIOUS
  <2>3. \A k \in 1 .. 3 : f[k] = w[k]
    BY <1>8, <1>11, <2>2
  <2>4. QED
    BY <1>8, <2>1, <2>3
<1>13. QED
  BY <1>1, <1>7, <1>9, <1>12

\* Nothing in front of a text changes it.
LEMMA NothingBefore == ASSUME NEW t \in Texts PROVE <<>> \o t = t
BY DEF Texts

\* What an image is looked up as: by Docker's rules, where it really is.
LEMMA LookedUp ==
  ASSUME NEW i \in Images, NEW ref, ref = parseRegistryReference(Written(i))
  PROVE  /\ ref # Unsupported <=> Canonical(i).host \in {<<"docker.io">>, <<"ghcr.io">>}
         /\ ref # Unsupported =>
              /\ <<ref.registry>> = Canonical(i).host
              /\ ref.repository = PathText(Canonical(i).path)
<1>1. PICK p : p = PathText(i.path)
  OBVIOUS
<1>2. PICK host : host = [k \in DOMAIN i.host |-> Lower[i.host[k]]]
  OBVIOUS
<1>3. p \in Texts /\ p # <<>>
  <2>1. i.path \in Texts /\ i.path # <<>> /\ \A k \in 1 .. Len(i.path) : i.path[k] \in Word
    BY ImageFacts
  <2>2. p \in Texts /\ Len(p) # 0
    BY <1>1, <2>1, PathFacts
  <2>3. Len(<<>>) = 0
    OBVIOUS
  <2>4. QED
    BY <2>2, <2>3
<1>4. splitRegistryHost(normalizeImageReference(Written(i))) = [host |-> Host(i), repository |-> p]
  <2>1. PICK w, u : w = Written(i) /\ u = NameText(i)
    OBVIOUS
  <2>2. parseImageReference(w).name = u
    <3>1. PICK t : t = IF i.tag = "" THEN <<>> ELSE <<i.tag>>
      OBVIOUS
    <3>2. parseImageReference(w) = [name |-> u, tag |-> t]
      BY <2>1, <3>1, ImageIsCut
    <3>3. QED
      BY <3>2
  <2>3. normalizeImageReference(w) = u
    BY <2>2, SameCut
  <2>4. splitRegistryHost(u) = [host |-> Host(i), repository |-> p]
    BY <1>1, <2>1, HostIsSplit
  <2>5. QED
    BY <2>1, <2>3, <2>4
<1>5. Host(i) = IF i.host = <<>> THEN <<"docker.io">> ELSE host
  BY <1>2 DEF Host
<1>6. i.host = <<>> => host = <<>>
  <2>1. SUFFICES ASSUME i.host = <<>>
                 PROVE  host = <<>>
    OBVIOUS
  <2>2. host = [k \in {} |-> Lower[i.host[k]]]
    BY <1>2, <2>1
  <2>3. QED
    BY <2>2
<1>7. host \in DockerHub => Host(i) \in DockerHub
  BY <1>5 DEF DockerHub
<1>8. host \notin DockerHub => Host(i) = host
  BY <1>5, <1>6 DEF DockerHub
<1>9. PICK registry : registry = IF Host(i) \in DockerHub THEN "docker.io"
                                 ELSE IF Host(i) = <<"ghcr.io">> THEN "ghcr.io" ELSE "unsupported"
  OBVIOUS
<1>10. PICK official : official = (registry = "docker.io" /\ LastIndex(p, Slash) = 0)
  OBVIOUS
<1>11. ref = IF registry = "unsupported" THEN Unsupported
             ELSE [registry |-> registry,
                   repository |-> (IF registry = "docker.io" /\ LastIndex(p, Slash) = 0
                                   THEN <<"library", Slash>> ELSE <<>>) \o p]
  <2>1. TrimSpace(Host(i)) = Host(i)
    BY HostIsTrimmed
  <2>2. registry = resolveRegistryHost(Host(i))
    BY <1>9, <2>1 DEF resolveRegistryHost
  <2>3. QED
    BY <1>3, <1>4, <2>2 DEF parseRegistryReference
<1>12. Canonical(i) =
         IF host \in DockerHub
         THEN [host |-> <<"docker.io">>,
               path |-> IF Len(i.path) = 1 THEN <<"library">> \o i.path ELSE i.path]
         ELSE [host |-> host, path |-> i.path]
  BY <1>2 DEF Canonical
<1>13. CASE host \in DockerHub
  <2>1. registry = "docker.io"
    BY <1>7, <1>9, <1>13
  <2>2. ref = [registry |-> "docker.io",
               repository |-> (IF LastIndex(p, Slash) = 0 THEN <<"library", Slash>> ELSE <<>>) \o p]
    BY <1>11, <2>1
  <2>3. ref # Unsupported /\ ref.registry = "docker.io"
    BY <2>2 DEF Unsupported
  <2>4. ref.repository = PathText(Canonical(i).path)
    <3>1. CASE Len(i.path) = 1
      BY <1>1, <1>12, <1>13, <2>2, <3>1, OnePart, InLibrary
    <3>2. CASE Len(i.path) # 1
      <4>1. LastIndex(p, Slash) # 0
        BY <1>1, <3>2, OnePart
      <4>2. ref.repository = <<>> \o p /\ <<>> \o p = p
        BY <1>3, <2>2, <4>1, NothingBefore
      <4>3. Canonical(i).path = i.path
        BY <1>12, <1>13, <3>2
      <4>4. QED
        BY <1>1, <4>2, <4>3
    <3>3. QED
      BY <3>1, <3>2
  <2>5. Canonical(i).host = <<"docker.io">>
    BY <1>12, <1>13
  <2>6. QED
    BY <2>3, <2>4, <2>5
<1>14. CASE host \notin DockerHub /\ host = <<"ghcr.io">>
  <2>1. registry = "ghcr.io"
    BY <1>8, <1>9, <1>14
  <2>2. ref = [registry |-> "ghcr.io", repository |-> <<>> \o p]
    BY <1>11, <2>1
  <2>3. ref # Unsupported /\ ref.registry = "ghcr.io" /\ ref.repository = p
    BY <1>3, <2>2, NothingBefore DEF Unsupported
  <2>4. Canonical(i) = [host |-> host, path |-> i.path]
    BY <1>12, <1>14
  <2>5. QED
    BY <1>1, <1>14, <2>3, <2>4
<1>15. CASE host \notin DockerHub /\ host # <<"ghcr.io">>
  <2>1. registry = "unsupported"
    BY <1>8, <1>9, <1>15
  <2>2. ref = Unsupported
    BY <1>11, <2>1
  <2>3. Canonical(i) = [host |-> host, path |-> i.path]
    BY <1>12, <1>15
  <2>4. Canonical(i).host \notin {<<"docker.io">>, <<"ghcr.io">>}
    BY <1>15, <2>3 DEF DockerHub
  <2>5. QED
    BY <2>2, <2>4
<1>16. QED
  BY <1>13, <1>14, <1>15

\* The link of a repository of Docker Hub leads to its page.
LEMMA LinkLeads ==
  ASSUME NEW r \in Texts, NEW ref, ref.registry = "docker.io", ref.repository = r,
         NEW link, link = buildLatestVersionURL(ref)
  PROVE  r = (IF link.page = "_" THEN <<"library", Slash>> ELSE <<>>) \o link.name
<1>1. PICK n, lib : n = Len(r) /\ lib = <<"library", Slash>>
  OBVIOUS
<1>2. n \in Nat /\ lib \in Texts /\ Len(lib) = 2 /\ lib[1] = "library" /\ lib[2] = Slash
  <2>1. <<"library", Slash>> \in Texts
    BY DEF Texts
  <2>2. n \in Nat
    BY <1>1 DEF Texts
  <2>3. QED
    BY <1>1, <2>1, <2>2
<1>3. CASE IsPrefix(lib, r) /\ n > 2
  <2>1. link = [page |-> "_", name |-> SubSeq(r, 3, n)]
    BY <1>1, <1>3 DEF buildLatestVersionURL
  <2>2. 1 \in Nat \ {0} /\ 2 \in Int /\ 2 <= n /\ 3 \in Nat \ {0} /\ n \in Int /\ n <= n /\ 3 <= n
        /\ 2 - 1 + 1 = 2
    BY <1>2, <1>3
  <2>3. r[1] = lib[1] /\ r[2] = lib[2]
    <3>1. SubSeq(lib, 1, 2) = SubSeq(r, 1, 2)
      BY <1>2, <1>3 DEF IsPrefix
    <3>2. \A k \in 1 .. 2 - 1 + 1 : SubSeq(r, 1, 2)[k] = r[1 + k - 1]
      BY <1>1, <2>2, PartOf
    <3>3. 2 <= Len(lib)
      BY <1>2
    <3>4. \A k \in 1 .. 2 - 1 + 1 : SubSeq(lib, 1, 2)[k] = lib[1 + k - 1]
      BY <1>2, <2>2, <3>3, PartOf
    <3>5. 1 \in 1 .. 2 - 1 + 1 /\ 2 \in 1 .. 2 - 1 + 1 /\ 1 + 1 - 1 = 1 /\ 1 + 2 - 1 = 2
      OBVIOUS
    <3>6. QED
      BY <3>1, <3>2, <3>4, <3>5
  <2>4. PICK s : s = SubSeq(r, 3, n)
    OBVIOUS
  <2>5. PICK e : e = n - 2
    OBVIOUS
  <2>6. e \in Nat /\ n = 2 + e /\ n - 3 + 1 = e
    BY <2>2, <2>5
  <2>7. /\ s \in Texts /\ Len(s) = e
        /\ \A k \in 1 .. e : s[k] = r[2 + k]
    <3>1. /\ SubSeq(r, 3, n) \in Texts
          /\ Len(SubSeq(r, 3, n)) = (IF 3 <= n THEN n - 3 + 1 ELSE 0)
          /\ \A k \in 1 .. n - 3 + 1 : SubSeq(r, 3, n)[k] = r[3 + k - 1]
      BY <1>1, <2>2, PartOf
    <3>2. \A k \in 1 .. e : 3 + k - 1 = 2 + k
      BY <2>6
    <3>3. QED
      BY <2>2, <2>4, <2>6, <3>1, <3>2
  <2>8. lib \o s = r
    <3>1. PICK w : w = lib \o s
      OBVIOUS
    <3>2. InRow(w, lib, 2, s, e)
      <4>1. InRow(lib \o s, lib, Len(lib), s, Len(s))
        BY <1>2, <2>7, Joined
      <4>2. QED
        BY <1>2, <2>7, <3>1, <4>1
    <3>3. Len(w) = n /\ w \in Texts
      BY <2>6, <3>2 DEF InRow
    <3>4. ASSUME NEW k \in 1 .. 2 + e
          PROVE  w[k] = r[k]
      <4>1. k \in 1 .. 2 \/ \E l \in 1 .. e : k = 2 + l
        BY <3>2 DEF InRow
      <4>2. CASE k \in 1 .. 2
        <5>1. k = 1 \/ k = 2
          BY <4>2
        <5>2. w[k] = lib[k]
          BY <3>2, <4>2 DEF InRow
        <5>3. QED
          BY <2>3, <5>1, <5>2
      <4>3. CASE \E l \in 1 .. e : k = 2 + l
        <5>1. PICK l \in 1 .. e : k = 2 + l
          BY <4>3
        <5>2. w[2 + l] = s[l]
          BY <3>2 DEF InRow
        <5>3. QED
          BY <2>7, <5>1, <5>2
      <4>4. QED
        BY <4>1, <4>2, <4>3
    <3>5. \A k \in 1 .. Len(w) : w[k] = r[k]
      BY <2>6, <3>3, <3>4
    <3>6. w = r
      BY <1>1, <3>3, <3>5, SameText
    <3>7. QED
      BY <3>1, <3>6
  <2>9. PICK underscore : underscore = "_"
    OBVIOUS
  <2>10. link = [page |-> underscore, name |-> s]
    BY <2>1, <2>4, <2>9
  <2>11. link.page = underscore /\ link.name = s
    BY <2>10
  <2>12. QED
    BY <1>1, <2>8, <2>9, <2>11
<1>4. CASE ~ (IsPrefix(lib, r) /\ n > 2)
  <2>1. link = [page |-> "r", name |-> r]
    BY <1>1, <1>4 DEF buildLatestVersionURL
  <2>2. link.page # "_" /\ link.name = r
    BY <2>1
  <2>3. <<>> \o r = r
    BY NothingBefore
  <2>4. QED
    BY <2>2, <2>3
<1>5. QED
  BY <1>3, <1>4

-----------------------------------------------------------------------------
(***************************************************************************)
(* A lookup, from the text to the first request.                           *)
(***************************************************************************)
\* What the collector and the resolver find is what they find in the text.
Finds ==
  /\ text \in Texts
  /\ image # <<>> => image \in Images /\ text = Written(image)
  /\ pc # "collect" =>
       LET cut == parseImageReference(text)
       IN  observation = [name |-> cut.name, tag |-> cut.tag,
                          artifact |-> shortArtifactName(cut.name)]
  /\ pc \in {"ask", "listed", "unsupported", "error"} =>
       LET ref == parseRegistryReference(text)
       IN  /\ reference = [registry |-> ref.registry, repository |-> ref.repository,
                           link |-> buildLatestVersionURL(ref)]
           /\ pc = "unsupported" <=> ref = Unsupported

\* A lookup starts with a text, that of an image or another.
LEMMA FindsStarts == Init => Finds
<1> SUFFICES ASSUME Init
             PROVE  Finds
  OBVIOUS
<1>1. pc = "collect"
  BY DEF Init
<1>2. CASE image \in Images /\ text = Written(image)
  <2>1. text \in Texts
    BY <1>2, DigestIsCut
  <2>2. QED
    BY <1>1, <1>2, <2>1 DEF Finds
<1>3. CASE image = <<>> /\ text \in Others
  <2>1. text \in Seq(STRING)
    BY <1>3, LookupAssumption
  <2>2. text \in Texts
    <3> DEFINE S == STRING \cup {Colon, Slash, At, Space, "sha256", "library", "docker.io"}
    <3>1. STRING \subseteq S /\ Texts = Seq(S)
      BY DEF Texts
    <3> HIDE DEF S
    <3>2. QED
      BY <2>1, <3>1, Wider
  <2>3. QED
    BY <1>1, <1>3, <2>2 DEF Finds
<1>4. QED
  BY <1>2, <1>3, LookupAssumption DEF Init

\* No step finds anything else.
LEMMA FindsStep == Finds /\ [Next]_vars => Finds'
<1> SUFFICES ASSUME Finds, [Next]_vars
             PROVE  Finds'
  OBVIOUS
<1>1. CASE Collect
  <2>1. /\ text' = text /\ image' = image /\ pc' = "resolve"
        /\ LET cut == parseImageReference(text)
           IN  observation' = [name |-> cut.name, tag |-> cut.tag,
                               artifact |-> shortArtifactName(cut.name)]
    BY <1>1 DEF Collect, container
  <2>2. QED
    BY <2>1 DEF Finds
<1>2. CASE Resolve
  <2>1. PICK ref : ref = parseRegistryReference(text)
    OBVIOUS
  <2>2. /\ text' = text /\ image' = image /\ observation' = observation /\ pc = "resolve"
        /\ reference' = [registry |-> ref.registry, repository |-> ref.repository,
                         link |-> buildLatestVersionURL(ref)]
        /\ IF ref = Unsupported THEN pc' = "unsupported" ELSE pc' = "ask"
    BY <1>2, <2>1 DEF Resolve, container
  <2>3. ref = parseRegistryReference(text')
    BY <2>1, <2>2
  <2>4. pc' # "collect" /\ (pc' = "unsupported" <=> ref = Unsupported)
    BY <2>2
  <2>5. QED
    BY <2>2, <2>3, <2>4 DEF Finds
<1>3. CASE Page
  <2>1. /\ text' = text /\ image' = image /\ observation' = observation /\ reference' = reference
        /\ pc = "ask" /\ pc' \in {"listed", "ask"}
    BY <1>3 DEF Page, container
  <2>2. QED
    BY <2>1 DEF Finds
<1>4. CASE NoPage
  <2>1. /\ text' = text /\ image' = image /\ observation' = observation /\ reference' = reference
        /\ pc = "ask" /\ pc' \in {"error", "listed"}
    BY <1>4 DEF NoPage, container
  <2>2. QED
    BY <2>1 DEF Finds
<1>5. CASE UNCHANGED vars
  BY <1>5 DEF vars, container, Finds
<1>6. QED
  BY <1>1, <1>2, <1>3, <1>4, <1>5 DEF Next

\* Whatever the text, the name the collector keeps is the one that is looked up;
\* and the tag and artifact of an image are its tag and the last part of its path,
\* whatever stands in its host, path and digest (collector.go:398, resolver.go:288).
THEOREM CutsAlwaysAgree == Spec => []CutsAgree
<1>1. Finds => CutsAgree
  <2> SUFFICES ASSUME Finds
               PROVE  CutsAgree
    OBVIOUS
  <2>1. ASSUME pc \in {"ask", "listed"}
        PROVE  IsSuffix(splitRegistryHost(observation.name).repository, reference.repository)
    <3>1. PICK name, repository : /\ name = parseImageReference(text).name
                                  /\ repository = parseRegistryReference(text).repository
      OBVIOUS
    <3>2. observation.name = name /\ reference.repository = repository
      BY <2>1, <3>1 DEF Finds
    <3>3. text \in Texts /\ parseRegistryReference(text) # Unsupported
      BY <2>1 DEF Finds
    <3>4. IsSuffix(splitRegistryHost(name).repository, repository)
      BY <3>1, <3>3, RepositoryInName
    <3>5. QED
      BY <3>2, <3>4
  <2>2. ASSUME pc # "collect", image # <<>>
        PROVE  /\ observation.tag = IF image.tag = "" THEN <<>> ELSE <<image.tag>>
               /\ observation.artifact = <<Last(image.path)>>
    <3>1. PICK t : t = IF image.tag = "" THEN <<>> ELSE <<image.tag>>
      OBVIOUS
    <3>2. image \in Images /\ text = Written(image)
      BY <2>2 DEF Finds
    <3>3. PICK u, cut : u = NameText(image) /\ cut = parseImageReference(text)
      OBVIOUS
    <3>4. cut = [name |-> u, tag |-> t]
      BY <3>1, <3>2, <3>3, ImageIsCut
    <3>5. cut.name = u /\ cut.tag = t
      BY <3>4
    <3>6. shortArtifactName(u) = <<Last(image.path)>>
      BY <3>2, <3>3, ArtifactIsLast
    <3>7. observation = [name |-> cut.name, tag |-> cut.tag,
                         artifact |-> shortArtifactName(cut.name)]
      BY <2>2, <3>3 DEF Finds
    <3>8. observation.tag = t /\ observation.artifact = shortArtifactName(u)
      BY <3>5, <3>7
    <3>9. QED
      BY <3>1, <3>6, <3>8
  <2>3. QED
    BY <2>1, <2>2 DEF CutsAgree
<1>2. QED
  BY <1>1, FindsStarts, FindsStep, PTL DEF Spec

\* Every image, however it is written, is asked for where it is and nowhere else,
\* and the link leads to its repository (parseRegistryReference,
\* resolver.go:238-286; buildLatestVersionURL, resolver.go:183-207).
THEOREM AlwaysAskedWhereItIs == Spec => []AskedWhereItIs
<1>1. Finds => AskedWhereItIs
  <2> SUFFICES ASSUME Finds, pc \in {"ask", "listed", "unsupported"}, image # <<>>,
                      NEW c, c = Canonical(image)
               PROVE  /\ pc # "unsupported" <=> c.host \in {<<"docker.io">>, <<"ghcr.io">>}
                      /\ pc # "unsupported" =>
                           /\ <<reference.registry>> = c.host
                           /\ reference.repository = PathText(c.path)
                      /\ reference.registry = "docker.io" =>
                           reference.repository =
                             (IF reference.link.page = "_" THEN <<"library", Slash>> ELSE <<>>)
                             \o reference.link.name
    BY DEF AskedWhereItIs
  <2>1. image \in Images /\ text = Written(image)
    BY DEF Finds
  <2>2. PICK ref : ref = parseRegistryReference(text)
    OBVIOUS
  <2>3. PICK link : link = buildLatestVersionURL(ref)
    OBVIOUS
  <2>4. /\ reference = [registry |-> ref.registry, repository |-> ref.repository, link |-> link]
        /\ pc = "unsupported" <=> ref = Unsupported
    BY <2>2, <2>3 DEF Finds
  <2>5. /\ reference.registry = ref.registry /\ reference.repository = ref.repository
        /\ reference.link = link
    BY <2>4
  <2>6. /\ ref # Unsupported <=> c.host \in {<<"docker.io">>, <<"ghcr.io">>}
        /\ ref # Unsupported => <<ref.registry>> = c.host /\ ref.repository = PathText(c.path)
    BY <2>1, <2>2, LookedUp
  <2>7. ASSUME ref.registry = "docker.io"
        PROVE  ref.repository =
                 (IF link.page = "_" THEN <<"library", Slash>> ELSE <<>>) \o link.name
    <3>1. PICK r : r = ref.repository
      OBVIOUS
    <3>2. r \in Texts
      <4>1. ref # Unsupported
        BY <2>7 DEF Unsupported
      <4>2. QED
        BY <2>1, <2>2, <3>1, <4>1, RepositoryAsked DEF Finds
    <3>3. QED
      BY <2>3, <2>7, <3>1, <3>2, LinkLeads
  <2>8. QED
    BY <2>4, <2>5, <2>6, <2>7
<1>2. QED
  BY <1>1, FindsStarts, FindsStep, PTL DEF Spec
=============================================================================
