------------------------------ MODULE FleetProofs ------------------------------
(***************************************************************************)
(* Proofs about Fleet, for names of any length over any characters, any    *)
(* number of nodes and cycles: field topics never mix up two nodes, and    *)
(* discovery topics do not if the node ids are apart.                      *)
(***************************************************************************)
EXTENDS Fleet, FiniteSetTheorems, SequenceTheorems, TLAPS

-----------------------------------------------------------------------------
(***************************************************************************)
(* Topic names.                                                            *)
(***************************************************************************)
\* A function over the first numbers is a sequence.
LEMMA FunctionIsSeq == ASSUME NEW S, NEW k \in Nat, NEW q \in [1 .. k -> S] PROVE q \in Seq(S)
OBVIOUS

LEMMA SingleIsSeq == ASSUME NEW S, NEW x \in S PROVE <<x>> \in Seq(S)
OBVIOUS

\* Sanitising leaves only characters a segment may keep.
LEMMA SanitizedIsKept ==
  ASSUME NEW value \in Name
  PROVE  sanitizeTopicSegment(value) \in Seq(Kept)
<1> DEFINE body == {i \in DOMAIN value :
                      /\ \E j \in 1 .. i : value[j] \notin Blank
                      /\ \E j \in i .. Len(value) : value[j] \notin Blank}
           left == {i \in body : \/ value[i] \in Kept
                                 \/ i - 1 \notin body
                                 \/ value[i - 1] \in Kept}
           nth(k) == CHOOSE i \in left : Cardinality({j \in left : j <= i}) = k
           result == [k \in 1 .. Cardinality(left) |->
                        IF value[nth(k)] \in Kept THEN value[nth(k)] ELSE Joint]
<1>1. DOMAIN value = 1 .. Len(value) /\ Len(value) \in Nat
  BY DEF Name
<1>2. IsFiniteSet(DOMAIN value)
  BY <1>1, FS_Interval
<1>3. left \subseteq DOMAIN value
  OBVIOUS
<1>4. Cardinality(left) \in Nat
  BY <1>2, <1>3, FS_Subset, FS_CardinalityType
<1>5. sanitizeTopicSegment(value) = IF left = {} THEN <<"unknown">> ELSE result
  BY DEF sanitizeTopicSegment
<1> HIDE DEF body, left, nth
<1>6. \A k \in 1 .. Cardinality(left) :
        (IF value[nth(k)] \in Kept THEN value[nth(k)] ELSE Joint) \in Kept
  BY NamesAssumption DEF NamesAssumption
<1>7. result \in [1 .. Cardinality(left) -> Kept]
  BY <1>6
<1>8. result \in Seq(Kept)
  BY <1>4, <1>7, FunctionIsSeq
<1>9. <<"unknown">> \in Seq(Kept)
  BY NamesAssumption, SingleIsSeq DEF NamesAssumption
<1>10. QED
  BY <1>5, <1>8, <1>9

\* Two parts joined by a slash come apart again if the second is sanitised.
LEMMA JoinComesApart ==
  ASSUME NEW a \in Seq(Characters), NEW b \in Seq(Characters),
         NEW s \in Seq(Kept), NEW r \in Seq(Kept),
         a \o <<"/">> \o s = b \o <<"/">> \o r
  PROVE  a = b /\ s = r
<1> DEFINE x == a \o <<"/">> \o s
           y == b \o <<"/">> \o r
<1>1. /\ Len(x) = Len(a) + 1 + Len(s)
      /\ Len(y) = Len(b) + 1 + Len(r)
      /\ x[Len(a) + 1] = "/" /\ y[Len(b) + 1] = "/"
  OBVIOUS
<1>2. \A i \in 1 .. Len(s) : x[Len(a) + 1 + i] = s[i]
  OBVIOUS
<1>3. \A i \in 1 .. Len(r) : y[Len(b) + 1 + i] = r[i]
  OBVIOUS
<1>4. (\A i \in 1 .. Len(a) : x[i] = a[i]) /\ (\A i \in 1 .. Len(b) : y[i] = b[i])
  OBVIOUS
<1>5. x = y /\ Len(x) = Len(y)
  OBVIOUS
<1>6. /\ Len(a) \in Nat /\ Len(b) \in Nat /\ Len(s) \in Nat /\ Len(r) \in Nat
      /\ \A i \in 1 .. Len(s) : s[i] # "/"
      /\ \A i \in 1 .. Len(r) : r[i] # "/"
  <2>1. "/" \notin Kept
    BY NamesAssumption DEF NamesAssumption
  <2>2. (\A i \in 1 .. Len(s) : s[i] \in Kept) /\ (\A i \in 1 .. Len(r) : r[i] \in Kept)
    BY ElementOfSeq
  <2>3. QED
    BY <2>1, <2>2
<1> HIDE DEF x, y
<1>7. ~ (Len(a) < Len(b))
  <2> SUFFICES ASSUME Len(a) < Len(b) PROVE FALSE
    OBVIOUS
  <2>1. Len(b) - Len(a) \in 1 .. Len(s)
    BY <1>1, <1>5, <1>6
  <2>2. x[Len(a) + 1 + (Len(b) - Len(a))] = s[Len(b) - Len(a)]
    BY <1>2, <2>1
  <2>3. Len(a) + 1 + (Len(b) - Len(a)) = Len(b) + 1
    BY <1>6
  <2>4. QED
    BY <1>1, <1>5, <1>6, <2>1, <2>2, <2>3
<1>8. ~ (Len(b) < Len(a))
  <2> SUFFICES ASSUME Len(b) < Len(a) PROVE FALSE
    OBVIOUS
  <2>1. Len(a) - Len(b) \in 1 .. Len(r)
    BY <1>1, <1>5, <1>6
  <2>2. y[Len(b) + 1 + (Len(a) - Len(b))] = r[Len(a) - Len(b)]
    BY <1>3, <2>1
  <2>3. Len(b) + 1 + (Len(a) - Len(b)) = Len(a) + 1
    BY <1>6
  <2>4. QED
    BY <1>1, <1>5, <1>6, <2>1, <2>2, <2>3
<1>9. Len(a) = Len(b) /\ Len(s) = Len(r)
  BY <1>1, <1>5, <1>6, <1>7, <1>8
<1>10. \A i \in 1 .. Len(a) : a[i] = b[i]
  BY <1>4, <1>5, <1>9
<1>11. \A i \in 1 .. Len(s) : s[i] = r[i]
  BY <1>2, <1>3, <1>5, <1>9
<1>12. QED
  BY <1>9, <1>10, <1>11, SeqEqual

\* A field topic tells the node, the sanitised service and the field, although
\* the node id is written as it was configured and may hold slashes itself
\* (fieldTopic, publisher.go:314-322).
THEOREM FieldTopicsApart ==
  ASSUME NEW n \in Name, NEW m \in Name, NEW s \in Name, NEW r \in Name,
         NEW f, NEW g, fieldTopic(n, s, f) = fieldTopic(m, r, g)
  PROVE  n = m /\ sanitizeTopicSegment(s) = sanitizeTopicSegment(r) /\ f = g
<1> DEFINE v == sanitizeTopicSegment(s)
           w == sanitizeTopicSegment(r)
<1>1. f = g /\ n \o <<"/">> \o v = m \o <<"/">> \o w
  BY DEF fieldTopic
<1>2. v \in Seq(Kept) /\ w \in Seq(Kept)
  BY SanitizedIsKept
<1>3. n \in Seq(Characters) /\ m \in Seq(Characters)
  BY DEF Name
<1>4. n = m /\ v = w
  <2> HIDE DEF v, w
  <2>1. \A a, b \in Seq(Characters) : \A x, y \in Seq(Kept) :
          a \o <<"/">> \o x = b \o <<"/">> \o y => a = b /\ x = y
    BY JoinComesApart
  <2>2. \A x, y \in Seq(Kept) :
          n \o <<"/">> \o x = m \o <<"/">> \o y => n = m /\ x = y
    BY ONLY <1>3, <2>1
  <2>3. n \o <<"/">> \o v = m \o <<"/">> \o w => n = m /\ v = w
    BY ONLY <1>2, <2>2
  <2>4. QED
    BY ONLY <1>1, <2>3
<1>5. QED
  BY <1>1, <1>4 DEF v, w

\* Of two sequences joined to others by the same character, one equals or
\* continues the other.
LEMMA JoinContinues ==
  ASSUME NEW a \in Seq(Kept), NEW b \in Seq(Kept),
         NEW v \in Seq(Kept), NEW w \in Seq(Kept),
         a \o <<Joint>> \o v = b \o <<Joint>> \o w
  PROVE  a = b \/ Continues(a, b) \/ Continues(b, a)
<1> DEFINE x == a \o <<Joint>> \o v
           y == b \o <<Joint>> \o w
<1>1. x[Len(a) + 1] = Joint /\ y[Len(b) + 1] = Joint
  OBVIOUS
<1>2. (\A i \in 1 .. Len(a) : x[i] = a[i]) /\ (\A i \in 1 .. Len(b) : y[i] = b[i])
  OBVIOUS
<1>3. x = y
  OBVIOUS
<1>4. Len(a) \in Nat /\ Len(b) \in Nat
  OBVIOUS
<1> HIDE DEF x, y
<1>5. CASE Len(a) < Len(b)
  BY <1>1, <1>2, <1>3, <1>4, <1>5 DEF Continues
<1>6. CASE Len(b) < Len(a)
  BY <1>1, <1>2, <1>3, <1>4, <1>6 DEF Continues
<1>7. CASE Len(a) = Len(b)
  <2>1. \A i \in 1 .. Len(a) : a[i] = b[i]
    BY <1>2, <1>3, <1>7
  <2>2. QED
    BY <1>7, <2>1, SeqEqual
<1>8. QED
  BY <1>4, <1>5, <1>6, <1>7

\* Two nodes share a discovery topic only if the sanitised id of one equals or
\* continues that of the other, whatever their services are called
\* (publishHomeAssistantDiscovery, publisher.go:191-193, 223).
THEOREM DiscoveryTopicsApart ==
  ASSUME NEW n \in Name, NEW m \in Name, NEW s \in Name, NEW r \in Name,
         NEW d, NEW e, Apart(n, m)
  PROVE  discoveryTopic(n, s, d) # discoveryTopic(m, r, e)
<1> DEFINE a == sanitizeTopicSegment(n)
           b == sanitizeTopicSegment(m)
           v == sanitizeTopicSegment(s)
           w == sanitizeTopicSegment(r)
<1>1. a \in Seq(Kept) /\ b \in Seq(Kept) /\ v \in Seq(Kept) /\ w \in Seq(Kept)
  BY SanitizedIsKept
<1>2. a # b /\ ~ Continues(a, b) /\ ~ Continues(b, a)
  BY DEF Apart
<1>3. a \o <<Joint>> \o v # b \o <<Joint>> \o w
  <2> HIDE DEF a, b, v, w
  <2>1. \A p, q \in Seq(Kept) :
          a \o <<Joint>> \o p = b \o <<Joint>> \o q => a = b \/ Continues(a, b) \/ Continues(b, a)
    BY ONLY <1>1, JoinContinues
  <2>2. QED
    BY ONLY <1>1, <1>2, <2>1
<1>4. QED
  BY <1>3 DEF discoveryTopic

KindSet == FieldSet \cup EntitySet

\* The nodes, the services and the topics are what they should be.
LEMMA Names ==
  /\ \A n \in Nodes : n \in Name
  /\ \A s \in Services : s \in Name
  /\ \A n \in Nodes, s \in Services, k \in KindSet : TopicOf(n, s, k) \in Topics
<1>1. \A n \in Nodes : n \in Name
  BY FleetAssumption DEF FleetAssumption
<1>2. \A s \in Services : s \in Name
  BY FleetAssumption DEF FleetAssumption, Services
<1>3. ASSUME NEW n \in Nodes, NEW s \in Services, NEW k \in KindSet
      PROVE  TopicOf(n, s, k) \in Topics
  <2>1. CASE k \in FieldSet
    BY <2>1 DEF TopicOf, Topics, fieldTopics
  <2>2. CASE k \notin FieldSet
    BY <2>2 DEF TopicOf, Topics, discoveryTopics, KindSet
  <2>3. QED
    BY <2>1, <2>2
<1>4. QED
  BY <1>1, <1>2, <1>3

\* The topics of two nodes are apart, except for the discovery topics of nodes
\* that are not.
LEMMA TopicsTell ==
  ASSUME NEW n \in Nodes, NEW m \in Nodes, NEW s \in Services, NEW r \in Services,
         NEW k \in KindSet, NEW l \in KindSet, TopicOf(n, s, k) = TopicOf(m, r, l)
  PROVE  /\ k = l
         /\ k \in FieldSet =>
              n = m /\ sanitizeTopicSegment(s) = sanitizeTopicSegment(r)
         /\ k \in EntitySet /\ Alone(n) => n = m
<1>1. n \in Name /\ m \in Name /\ s \in Name /\ r \in Name
  BY Names
<1>2. \A i \in Nodes, p \in Services, j \in KindSet : TopicOf(i, p, j).kind = j
  BY DEF TopicOf, fieldTopic, discoveryTopic
<1>3. k = l
  BY <1>2
<1>4. CASE k \in FieldSet
  <2>1. fieldTopic(n, s, k) = fieldTopic(m, r, l)
    BY <1>3, <1>4 DEF TopicOf
  <2>2. n = m /\ sanitizeTopicSegment(s) = sanitizeTopicSegment(r)
    BY <1>1, <2>1, FieldTopicsApart
  <2>3. k \notin EntitySet
    BY <1>4, FleetAssumption DEF FleetAssumption
  <2>4. QED
    BY <1>3, <2>2, <2>3
<1>5. CASE k \notin FieldSet
  <2>1. discoveryTopic(n, s, k) = discoveryTopic(m, r, l)
    BY <1>3, <1>5 DEF TopicOf
  <2>2. ~ Apart(n, m)
    BY <1>1, <2>1, DiscoveryTopicsApart
  <2>3. QED
    BY <1>3, <1>5, <2>2 DEF Alone
<1>6. QED
  BY <1>4, <1>5

-----------------------------------------------------------------------------
(***************************************************************************)
(* The inductive invariant.                                                *)
(***************************************************************************)
\* A cycle under way is at one of its checks.
Position ==
  \A n \in Nodes :
    step[n] > 0 => check[n] \in 1 .. Len(batch[n]) /\ cycle[n] > 0

\* No message is newer than the cycle of its node.
NotAhead ==
  \A t \in Topics : broker[t] # Nothing =>
    broker[t].cycle > 0 /\ broker[t].cycle <= cycle[broker[t].node]

\* With messages b, topic k of service s shows cycle c of node n or a later
\* one, or is blank; of a discovery topic this is claimed only if the node is
\* alone.
Fresh(b, n, s, k, c) ==
  LET m == b[TopicOf(n, s, k)]
  IN  /\ k \in FieldSet => m.cycle >= c \/ (k \in Optional /\ m = Nothing)
      /\ k \in EntitySet /\ Alone(n) => m # Nothing /\ m.node = n /\ m.cycle >= c

\* What a cycle under way has written is fresh, and so is what the last cycle
\* that succeeded has.
Progress ==
  \A n \in Nodes :
    /\ step[n] > 0 =>
         /\ \A j \in 1 .. check[n] - 1, i \in 1 .. Len(Kinds) :
              Fresh(broker, n, batch[n][j], Kinds[i], cycle[n])
         /\ \A i \in 1 .. step[n] - 1 :
              Fresh(broker, n, batch[n][check[n]], Kinds[i], cycle[n])
    /\ \A s \in covered[n], k \in KindSet : Fresh(broker, n, s, k, done[n])

IInv == TypeOK /\ Position /\ NotAhead /\ FieldsAreOwn /\ Progress /\ EntityHasState

-----------------------------------------------------------------------------
\* The kinds are the fields and then the entities.
LEMMA KindsAre ==
  /\ Len(Kinds) \in Nat \ {0} /\ Len(Fields) \in Nat
  /\ \A i \in 1 .. Len(Kinds) :
       /\ Kinds[i] \in KindSet
       /\ Kinds[i] \in EntitySet => i > Len(Fields)
  /\ \A f \in FieldSet : \E i \in 1 .. Len(Fields) : i <= Len(Kinds) /\ Kinds[i] = f
  /\ \A k \in KindSet : \E i \in 1 .. Len(Kinds) : Kinds[i] = k
<1>1. /\ Fields \in Seq(STRING) /\ Fields # <<>> /\ Entities \in Seq(STRING)
      /\ FieldSet \cap EntitySet = {}
  BY FleetAssumption DEF FleetAssumption
<1>2. /\ Len(Fields) \in Nat \ {0} /\ Len(Entities) \in Nat
      /\ Len(Kinds) = Len(Fields) + Len(Entities)
      /\ \A i \in 1 .. Len(Kinds) :
           Kinds[i] = IF i <= Len(Fields) THEN Fields[i] ELSE Entities[i - Len(Fields)]
  BY <1>1, ConcatProperties, EmptySeq DEF Kinds
<1>3. /\ FieldSet = {Fields[i] : i \in 1 .. Len(Fields)}
      /\ EntitySet = {Entities[i] : i \in 1 .. Len(Entities)}
  BY <1>1 DEF FieldSet, EntitySet
<1>4. ASSUME NEW i \in 1 .. Len(Kinds)
      PROVE  Kinds[i] \in KindSet /\ (Kinds[i] \in EntitySet => i > Len(Fields))
  <2>1. CASE i <= Len(Fields)
    <3>1. i \in 1 .. Len(Fields) /\ Kinds[i] = Fields[i]
      BY <1>2, <2>1
    <3>2. Kinds[i] \in FieldSet
      BY <1>3, <3>1
    <3>3. QED
      BY <1>1, <3>2 DEF KindSet
  <2>2. CASE i > Len(Fields)
    <3>1. i - Len(Fields) \in 1 .. Len(Entities) /\ Kinds[i] = Entities[i - Len(Fields)]
      BY <1>2, <2>2
    <3>2. QED
      BY <1>3, <2>2, <3>1 DEF KindSet
  <2>3. QED
    BY <1>2, <2>1, <2>2
<1>5. \A f \in FieldSet : \E i \in 1 .. Len(Fields) : i <= Len(Kinds) /\ Kinds[i] = f
  BY <1>2, <1>3
<1>6. ASSUME NEW k \in EntitySet PROVE \E i \in 1 .. Len(Kinds) : Kinds[i] = k
  <2>1. PICK i \in 1 .. Len(Entities) : Entities[i] = k
    BY <1>3
  <2>2. i + Len(Fields) \in 1 .. Len(Kinds) /\ Kinds[i + Len(Fields)] = k
    BY <1>2, <2>1
  <2>3. QED
    BY <2>2
<1>7. QED
  BY <1>2, <1>4, <1>5, <1>6 DEF KindSet

\* The two forms of a topic.
LEMMA TopicForms ==
  \A n \in Nodes, s \in Services :
    /\ \A f \in FieldSet : fieldTopic(n, s, f) = TopicOf(n, s, f)
    /\ \A e \in EntitySet : discoveryTopic(n, s, e) = TopicOf(n, s, e)
BY FleetAssumption DEF FleetAssumption, TopicOf

\* A message has the cycle of a node; where there is none the cycle is zero.
LEMMA Messages ==
  /\ \A m \in Message : m # Nothing /\ m.node \in Nodes /\ m.service \in Services
                        /\ m.cycle \in Nat \ {0}
  /\ Nothing.cycle = 0
<1>1. \A m \in Message : /\ m.node \in Nodes /\ m.service \in Services
                         /\ m.cycle \in Nat \ {0}
  BY DEF Message
<1>2. Nothing.cycle = 0
  BY DEF Nothing
<1>3. QED
  BY <1>1, <1>2

-----------------------------------------------------------------------------
(***************************************************************************)
(* What a write does.                                                      *)
(***************************************************************************)
Now(n) == batch[n][check[n]]
NowKind(n) == Kinds[step[n]]
Target(n) == TopicOf(n, Now(n), NowKind(n))
Sent(n, blank) ==
  IF blank THEN Nothing ELSE [node |-> n, service |-> Now(n), cycle |-> cycle[n]]

\* A write changes one topic: the one of the current service and kind.
LEMMA WriteFacts ==
  ASSUME IInv, NEW n \in Nodes, NEW blank \in BOOLEAN, Write(n, blank)
  PROVE  /\ step[n] \in 1 .. Len(Kinds) /\ check[n] \in 1 .. Len(batch[n])
         /\ Now(n) \in Services /\ NowKind(n) \in KindSet /\ Target(n) \in Topics
         /\ \A t \in Topics :
              broker'[t] = IF t = Target(n) THEN Sent(n, blank) ELSE broker[t]
         /\ Sent(n, blank) \in Message \cup {Nothing}
         /\ IF blank
            THEN NowKind(n) \in Optional /\ Sent(n, blank) = Nothing
            ELSE /\ Sent(n, blank) # Nothing /\ Sent(n, blank).node = n
                 /\ Sent(n, blank).service = Now(n) /\ Sent(n, blank).cycle = cycle[n]
         /\ broker' \in [Topics -> Message \cup {Nothing}]
         /\ UNCHANGED <<present, batch, cycle>>
<1>1. step[n] \in 1 .. Len(Kinds) /\ check[n] \in 1 .. Len(batch[n])
      /\ cycle[n] \in Nat \ {0}
  BY KindsAre DEF Write, IInv, TypeOK, Position
<1>2. Now(n) \in Services /\ NowKind(n) \in KindSet
  <2>1. batch[n] \in Seq(Services)
    BY DEF IInv, TypeOK
  <2>2. QED
    BY <1>1, <2>1, ElementOfSeq, KindsAre DEF Now, NowKind
<1>3. Target(n) \in Topics
  BY <1>2, Names DEF Target
<1>4. broker' = [broker EXCEPT ![Target(n)] = Sent(n, blank)]
      /\ (blank => NowKind(n) \in Optional) /\ UNCHANGED <<present, batch, cycle>>
  BY DEF Write, Target, Sent, Now, NowKind
<1>5. broker \in [Topics -> Message \cup {Nothing}]
  BY DEF IInv, TypeOK
<1>6. CASE blank
  <2>1. Sent(n, blank) = Nothing
    BY <1>6 DEF Sent
  <2>2. QED
    BY <1>1, <1>2, <1>3, <1>4, <1>5, <1>6, <2>1
<1>7. CASE ~ blank
  <2>1. Sent(n, blank) = [node |-> n, service |-> Now(n), cycle |-> cycle[n]]
    BY <1>7 DEF Sent
  <2>2. Sent(n, blank) \in Message
    BY <1>1, <1>2, <2>1 DEF Message
  <2>3. Sent(n, blank) # Nothing
    BY <2>2, Messages
  <2>4. QED
    BY <1>1, <1>2, <1>3, <1>4, <1>5, <1>7, <2>1, <2>2, <2>3
<1>8. QED
  BY <1>6, <1>7

\* What is fresh stays fresh, whoever writes.
LEMMA FreshStays ==
  ASSUME IInv, NEW n \in Nodes, NEW blank \in BOOLEAN, Write(n, blank),
         NEW m \in Nodes, NEW s \in Services, NEW k \in KindSet, NEW c \in Nat,
         c <= cycle[m], Fresh(broker, m, s, k, c)
  PROVE  Fresh(broker', m, s, k, c)
<1>1. TopicOf(m, s, k) \in Topics
  BY Names
<1>2. CASE TopicOf(m, s, k) # Target(n)
  BY <1>1, <1>2, WriteFacts DEF Fresh
<1>3. CASE TopicOf(m, s, k) = Target(n)
  <2>1. broker'[TopicOf(m, s, k)] = Sent(n, blank)
    BY <1>1, <1>3, WriteFacts
  <2>2. /\ k = NowKind(n) /\ (k \in FieldSet => m = n)
        /\ k \in EntitySet /\ Alone(m) => m = n
    BY <1>3, WriteFacts, TopicsTell DEF Target
  <2>3. CASE blank
    <3>1. k \in Optional /\ k \in FieldSet /\ k \notin EntitySet /\ Sent(n, blank) = Nothing
      BY <2>2, <2>3, WriteFacts, FleetAssumption DEF FleetAssumption
    <3>2. QED
      BY <2>1, <3>1 DEF Fresh
  <2>4. CASE ~ blank
    <3>1. Sent(n, blank) # Nothing /\ Sent(n, blank).node = n /\ Sent(n, blank).cycle = cycle[n]
      BY <2>4, WriteFacts
    <3>2. QED
      BY <2>1, <2>2, <3>1 DEF Fresh
  <2>5. QED
    BY <2>3, <2>4
<1>4. QED
  BY <1>2, <1>3

\* What is written is fresh.
LEMMA FreshNow ==
  ASSUME IInv, NEW n \in Nodes, NEW blank \in BOOLEAN, Write(n, blank)
  PROVE  Fresh(broker', n, Now(n), NowKind(n), cycle[n])
<1>1. broker'[TopicOf(n, Now(n), NowKind(n))] = Sent(n, blank)
  BY WriteFacts DEF Target
<1>2. CASE blank
  <2>1. NowKind(n) \in Optional /\ NowKind(n) \notin EntitySet /\ Sent(n, blank) = Nothing
    BY <1>2, WriteFacts, FleetAssumption DEF FleetAssumption
  <2>2. QED
    BY <1>1, <2>1 DEF Fresh
<1>3. CASE ~ blank
  <2>1. Sent(n, blank) # Nothing /\ Sent(n, blank).node = n /\ Sent(n, blank).cycle = cycle[n]
    BY <1>3, WriteFacts
  <2>2. cycle[n] >= cycle[n]
    BY DEF IInv, TypeOK
  <2>3. QED
    BY <1>1, <2>1, <2>2 DEF Fresh
<1>4. QED
  BY <1>2, <1>3

\* What the cycle has written after this write.
LEMMA WrittenSoFar ==
  ASSUME IInv, NEW n \in Nodes, NEW blank \in BOOLEAN, Write(n, blank),
         NEW j \in 1 .. check[n], NEW i \in 1 .. Len(Kinds), j < check[n] \/ i <= step[n]
  PROVE  Fresh(broker', n, batch[n][j], Kinds[i], cycle[n])
<1>1. step[n] \in 1 .. Len(Kinds) /\ check[n] \in 1 .. Len(batch[n])
  BY WriteFacts
<1>2. batch[n][j] \in Services /\ Kinds[i] \in KindSet /\ cycle[n] \in Nat /\ cycle[n] <= cycle[n]
  <2>1. batch[n] \in Seq(Services) /\ cycle[n] \in Nat
    BY DEF IInv, TypeOK
  <2>2. batch[n][j] \in Services
    BY <1>1, <2>1, ElementOfSeq
  <2>3. QED
    BY <2>1, <2>2, KindsAre
<1>3. CASE j < check[n] \/ i < step[n]
  <2>1. Fresh(broker, n, batch[n][j], Kinds[i], cycle[n])
    <3>1. CASE j < check[n]
      BY <1>1, <3>1 DEF IInv, Progress
    <3>2. CASE j = check[n] /\ i < step[n]
      BY <1>1, <3>2, KindsAre DEF IInv, Progress
    <3>3. QED
      BY <1>1, <1>3, <3>1, <3>2
  <2>2. QED
    BY <1>2, <2>1, FreshStays
<1>4. CASE j = check[n] /\ i = step[n]
  BY <1>4, FreshNow DEF Now, NowKind
<1>5. QED
  BY <1>1, <1>3, <1>4, KindsAre

\* Where Advance leads.
LEMMA AdvanceCases ==
  ASSUME IInv, NEW n \in Nodes, NEW blank \in BOOLEAN, Write(n, blank)
  PROVE  /\ \A m \in Nodes \ {n} : /\ step'[m] = step[m] /\ check'[m] = check[m]
                                   /\ covered'[m] = covered[m] /\ done'[m] = done[m]
         /\ \/ /\ step[n] < Len(Kinds) /\ step'[n] = step[n] + 1
               /\ UNCHANGED <<check, covered, done>>
            \/ /\ step[n] = Len(Kinds) /\ check[n] < Len(batch[n])
               /\ step'[n] = 1 /\ check'[n] = check[n] + 1
               /\ UNCHANGED <<covered, done>>
            \/ /\ step[n] = Len(Kinds) /\ check[n] = Len(batch[n])
               /\ step'[n] = 0 /\ UNCHANGED check
               /\ covered'[n] = {batch[n][i] : i \in DOMAIN batch[n]}
               /\ done'[n] = cycle[n]
         /\ step' \in [Nodes -> 0 .. Len(Kinds)] /\ check' \in [Nodes -> Nat \ {0}]
         /\ covered' \in [Nodes -> SUBSET Services] /\ done' \in [Nodes -> Nat]
<1>1. step[n] \in 1 .. Len(Kinds) /\ check[n] \in 1 .. Len(batch[n])
  BY WriteFacts
<1>2. /\ step \in [Nodes -> 0 .. Len(Kinds)] /\ check \in [Nodes -> Nat \ {0}]
      /\ covered \in [Nodes -> SUBSET Services] /\ done \in [Nodes -> Nat]
      /\ cycle[n] \in Nat /\ batch[n] \in Seq(Services)
  BY DEF IInv, TypeOK
<1>3. {batch[n][i] : i \in DOMAIN batch[n]} \subseteq Services
  BY <1>2
<1>4. Len(Kinds) \in Nat /\ Len(batch[n]) \in Nat
  BY <1>2, KindsAre
<1>5. Advance(n)
  BY DEF Write
<1>6. CASE step[n] < Len(Kinds)
  <2>1. step' = [step EXCEPT ![n] = step[n] + 1] /\ UNCHANGED <<check, covered, done>>
    BY <1>5, <1>6 DEF Advance
  <2>2. QED
    BY <1>1, <1>2, <1>4, <1>6, <2>1
<1>7. CASE ~ (step[n] < Len(Kinds)) /\ check[n] < Len(batch[n])
  <2>1. /\ check' = [check EXCEPT ![n] = check[n] + 1] /\ step' = [step EXCEPT ![n] = 1]
        /\ UNCHANGED <<covered, done>>
    BY <1>5, <1>7 DEF Advance
  <2>2. QED
    BY <1>1, <1>2, <1>4, <1>7, <2>1
<1>8. CASE ~ (step[n] < Len(Kinds)) /\ ~ (check[n] < Len(batch[n]))
  <2>1. /\ step' = [step EXCEPT ![n] = 0]
        /\ covered' = [covered EXCEPT ![n] = {batch[n][i] : i \in DOMAIN batch[n]}]
        /\ done' = [done EXCEPT ![n] = cycle[n]]
        /\ UNCHANGED check
    BY <1>5, <1>8 DEF Advance
  <2>2. QED
    BY <1>1, <1>2, <1>3, <1>4, <1>8, <2>1
<1>9. QED
  BY <1>6, <1>7, <1>8

\* A write keeps the invariant.
LEMMA WriteKeeps ==
  ASSUME IInv, NEW n \in Nodes, NEW blank \in BOOLEAN, Write(n, blank)
  PROVE  IInv'
<1>1. /\ step[n] \in 1 .. Len(Kinds) /\ check[n] \in 1 .. Len(batch[n])
      /\ UNCHANGED <<present, batch, cycle>>
      /\ Len(Kinds) \in Nat /\ Len(batch[n]) \in Nat
      /\ cycle[n] \in Nat \ {0}
  <2>1. /\ step[n] \in 1 .. Len(Kinds) /\ check[n] \in 1 .. Len(batch[n])
        /\ UNCHANGED <<present, batch, cycle>> /\ Len(Kinds) \in Nat
    BY WriteFacts, KindsAre
  <2>2. batch[n] \in Seq(Services) /\ cycle[n] \in Nat
    BY DEF IInv, TypeOK
  <2>3. cycle[n] > 0
    BY <2>1 DEF IInv, Position
  <2>4. QED
    BY <2>1, <2>2, <2>3
<1>2. TypeOK'
  <2>1. ASSUME NEW m \in Nodes
        PROVE  /\ present'[m] \subseteq Hosted[m]
               /\ done'[m] <= cycle'[m] /\ cycle'[m] <= MaxCycles[m]
    <3>1. /\ present[m] \subseteq Hosted[m] /\ cycle[m] \in Nat
          /\ done[m] <= cycle[m] /\ cycle[m] <= MaxCycles[m]
      BY DEF IInv, TypeOK
    <3>2. done'[m] = done[m] \/ done'[m] = cycle[m]
      BY AdvanceCases
    <3>3. QED
      BY <1>1, <3>1, <3>2
  <2>2. broker' \in [Topics -> Message \cup {Nothing}]
    BY WriteFacts
  <2>3. QED
    BY <1>1, <2>1, <2>2, AdvanceCases DEF IInv, TypeOK
<1>3. Position'
  <2> SUFFICES ASSUME NEW m \in Nodes, step'[m] > 0
               PROVE  check'[m] \in 1 .. Len(batch[m]) /\ cycle[m] > 0
    BY <1>1 DEF Position
  <2>1. CASE m = n
    BY <1>1, <2>1, AdvanceCases
  <2>2. CASE m # n
    <3>1. step[m] > 0 /\ check'[m] = check[m]
      BY <2>2, AdvanceCases
    <3>2. QED
      BY <3>1 DEF IInv, Position
  <2>3. QED
    BY <2>1, <2>2
<1>4. NotAhead'
  <2> SUFFICES ASSUME NEW t \in Topics, broker'[t] # Nothing
               PROVE  broker'[t].cycle > 0 /\ broker'[t].cycle <= cycle'[broker'[t].node]
    BY DEF NotAhead
  <2>1. CASE t = Target(n)
    <3>1. broker'[t] = Sent(n, blank)
      BY <2>1, WriteFacts
    <3>2. ~ blank
      BY <3>1, WriteFacts
    <3>3. broker'[t].node = n /\ broker'[t].cycle = cycle[n]
      BY <3>1, <3>2, WriteFacts
    <3>4. QED
      BY <1>1, <3>3
  <2>2. CASE t # Target(n)
    <3>1. broker'[t] = broker[t]
      BY <2>2, WriteFacts
    <3>2. QED
      BY <1>1, <3>1 DEF IInv, NotAhead
  <2>3. QED
    BY <2>1, <2>2
<1>5. FieldsAreOwn'
  <2> SUFFICES ASSUME NEW m \in Nodes, NEW s \in Services, NEW f \in FieldSet,
                      broker'[fieldTopic(m, s, f)] # Nothing
               PROVE  /\ broker'[fieldTopic(m, s, f)].node = m
                      /\ sanitizeTopicSegment(broker'[fieldTopic(m, s, f)].service)
                           = sanitizeTopicSegment(s)
    BY DEF FieldsAreOwn
  <2> DEFINE t == fieldTopic(m, s, f)
  <2>1. t = TopicOf(m, s, f) /\ f \in KindSet /\ t \in Topics
    BY TopicForms, Names DEF KindSet
  <2>2. CASE t = Target(n)
    <3>1. m = n /\ sanitizeTopicSegment(s) = sanitizeTopicSegment(Now(n))
      <4>1. TopicOf(m, s, f) = TopicOf(n, Now(n), NowKind(n))
        BY <2>1, <2>2 DEF Target
      <4>2. Now(n) \in Services /\ NowKind(n) \in KindSet /\ f \in KindSet
        BY <2>1, WriteFacts
      <4>3. QED
        BY ONLY <4>1, <4>2, TopicsTell
    <3>2. broker'[t] = Sent(n, blank)
      BY <2>1, <2>2, WriteFacts
    <3>3. ~ blank
      BY <3>2, WriteFacts
    <3>4. QED
      BY <3>1, <3>2, <3>3, WriteFacts
  <2>3. CASE t # Target(n)
    <3>1. broker'[t] = broker[t]
      BY <2>1, <2>3, WriteFacts
    <3>2. QED
      BY <3>1 DEF IInv, FieldsAreOwn
  <2>4. QED
    BY <2>2, <2>3
<1>6. Progress'
  <2> SUFFICES ASSUME NEW m \in Nodes
               PROVE  /\ step'[m] > 0 =>
                           /\ \A j \in 1 .. check'[m] - 1, i \in 1 .. Len(Kinds) :
                                Fresh(broker', m, batch[m][j], Kinds[i], cycle[m])
                           /\ \A i \in 1 .. step'[m] - 1 :
                                Fresh(broker', m, batch[m][check'[m]], Kinds[i], cycle[m])
                      /\ \A s \in covered'[m], k \in KindSet :
                           Fresh(broker', m, s, k, done'[m])
    BY <1>1 DEF Progress
  <2>1. /\ cycle[m] \in Nat /\ cycle[m] <= cycle[m] /\ done[m] \in Nat /\ done[m] <= cycle[m]
        /\ batch[m] \in Seq(Services) /\ covered[m] \subseteq Services
        /\ check[m] \in Nat \ {0} /\ step[m] \in 0 .. Len(Kinds)
    BY DEF IInv, TypeOK
  <2>2. ASSUME NEW s \in covered[m], NEW k \in KindSet
        PROVE  Fresh(broker', m, s, k, done[m])
    <3>1. Fresh(broker, m, s, k, done[m])
      BY DEF IInv, Progress
    <3>2. QED
      BY <2>1, <3>1, FreshStays
  <2>3. CASE m # n
    <3>1. step'[m] = step[m] /\ check'[m] = check[m]
          /\ covered'[m] = covered[m] /\ done'[m] = done[m]
      BY <2>3, AdvanceCases
    <3>2. ASSUME step[m] > 0, NEW j \in 1 .. check[m], NEW i \in 1 .. Len(Kinds),
                 j < check[m] \/ i < step[m]
          PROVE  Fresh(broker', m, batch[m][j], Kinds[i], cycle[m])
      <4>1. check[m] \in 1 .. Len(batch[m])
        BY <3>2 DEF IInv, Position
      <4>2. batch[m][j] \in Services /\ Kinds[i] \in KindSet
        BY <2>1, <4>1, ElementOfSeq, KindsAre
      <4>3. Fresh(broker, m, batch[m][j], Kinds[i], cycle[m])
        <5>1. CASE j < check[m]
          BY <2>1, <3>2, <5>1 DEF IInv, Progress
        <5>2. CASE j = check[m] /\ i < step[m]
          BY <2>1, <3>2, <5>2 DEF IInv, Progress
        <5>3. QED
          BY <2>1, <3>2, <5>1, <5>2
      <4>4. QED
        BY <2>1, <4>2, <4>3, FreshStays
    <3>3. ASSUME step[m] > 0
          PROVE  /\ \A j \in 1 .. check[m] - 1, i \in 1 .. Len(Kinds) :
                      Fresh(broker', m, batch[m][j], Kinds[i], cycle[m])
                 /\ \A i \in 1 .. step[m] - 1 :
                      Fresh(broker', m, batch[m][check[m]], Kinds[i], cycle[m])
      <4>1. /\ \A j \in 1 .. check[m] - 1 : j \in 1 .. check[m] /\ j < check[m]
            /\ check[m] \in 1 .. check[m]
            /\ \A i \in 1 .. step[m] - 1 : i \in 1 .. Len(Kinds) /\ i < step[m]
        BY <1>1, <2>1
      <4>2. QED
        BY <3>2, <3>3, <4>1
    <3>4. QED
      BY <2>2, <3>1, <3>3
  <2>4. CASE m = n
    <3>1. CASE /\ step[n] < Len(Kinds) /\ step'[n] = step[n] + 1
               /\ UNCHANGED <<check, covered, done>>
      <4>1. \A j \in 1 .. check[n] - 1, i \in 1 .. Len(Kinds) :
              Fresh(broker', n, batch[n][j], Kinds[i], cycle[n])
        BY <1>1, WrittenSoFar
      <4>2. \A i \in 1 .. step[n] :
              Fresh(broker', n, batch[n][check[n]], Kinds[i], cycle[n])
        BY <1>1, WrittenSoFar
      <4>3. QED
        BY <1>1, <2>2, <2>4, <3>1, <4>1, <4>2
    <3>2. CASE /\ step[n] = Len(Kinds) /\ check[n] < Len(batch[n])
               /\ step'[n] = 1 /\ check'[n] = check[n] + 1
               /\ UNCHANGED <<covered, done>>
      <4>1. \A j \in 1 .. check[n], i \in 1 .. Len(Kinds) :
              Fresh(broker', n, batch[n][j], Kinds[i], cycle[n])
        BY <3>2, WrittenSoFar
      <4>2. QED
        BY <1>1, <2>2, <2>4, <3>2, <4>1
    <3>3. CASE /\ step[n] = Len(Kinds) /\ check[n] = Len(batch[n])
               /\ step'[n] = 0 /\ UNCHANGED check
               /\ covered'[n] = {batch[n][i] : i \in DOMAIN batch[n]}
               /\ done'[n] = cycle[n]
      <4>1. \A j \in 1 .. Len(batch[n]), i \in 1 .. Len(Kinds) :
              Fresh(broker', n, batch[n][j], Kinds[i], cycle[n])
        BY <3>3, WrittenSoFar
      <4>2. ASSUME NEW s \in covered'[n], NEW k \in KindSet
            PROVE  Fresh(broker', n, s, k, cycle[n])
        <5>1. DOMAIN batch[n] = 1 .. Len(batch[n])
          BY <2>1, <2>4
        <5>2. PICK j \in 1 .. Len(batch[n]) : s = batch[n][j]
          BY <3>3, <5>1
        <5>3. PICK i \in 1 .. Len(Kinds) : Kinds[i] = k
          BY KindsAre
        <5>4. QED
          BY <4>1, <5>2, <5>3
      <4>3. QED
        BY <2>4, <3>3, <4>2
    <3>4. QED
      BY <3>1, <3>2, <3>3, AdvanceCases
  <2>5. QED
    BY <2>3, <2>4
<1>7. EntityHasState'
  <2> SUFFICES ASSUME NEW m \in Nodes, NEW s \in Services, NEW e \in EntitySet,
                      NEW a, a = broker'[discoveryTopic(m, s, e)], a # Nothing,
                      NEW f \in FieldSet \ Optional
               PROVE  broker'[fieldTopic(a.node, a.service, f)].cycle >= a.cycle
    BY DEF EntityHasState
  <2> DEFINE d == TopicOf(m, s, e)
             t == TopicOf(a.node, a.service, f)
  <2>1. e \in KindSet /\ f \in KindSet /\ e # f
    BY FleetAssumption DEF FleetAssumption, KindSet
  <2>2. d \in Topics /\ a = broker'[d]
    BY <2>1, Names, TopicForms
  <2>3. a.node \in Nodes /\ a.service \in Services /\ a.cycle \in Nat
    <3>1. broker'[d] \in Message \cup {Nothing}
      BY <2>2, WriteFacts
    <3>2. QED
      BY <2>2, <3>1, Messages
  <2>4. t \in Topics /\ t = fieldTopic(a.node, a.service, f)
    BY <2>1, <2>3, Names, TopicForms
  <2> HIDE DEF d, t
  <2>5. CASE d = Target(n)
    <3>1. a = Sent(n, blank) /\ ~ blank
      BY <2>2, <2>5, WriteFacts
    <3>2. a.node = n /\ a.service = Now(n) /\ a.cycle = cycle[n]
      BY <3>1, WriteFacts
    <3>3. NowKind(n) = e
      BY <2>1, <2>5, WriteFacts, TopicsTell DEF Target, d
    <3>4. t # Target(n)
      BY <2>1, <2>3, <3>3, WriteFacts, TopicsTell DEF Target, t
    <3>5. PICK i \in 1 .. Len(Fields) : i <= Len(Kinds) /\ Kinds[i] = f
      BY KindsAre
    <3>6. i \in 1 .. step[n] - 1
      BY <1>1, <3>3, <3>5, KindsAre DEF NowKind
    <3>7. Fresh(broker, n, Now(n), f, cycle[n])
      BY <1>1, <3>5, <3>6 DEF IInv, Progress, Now
    <3>8. broker[t].cycle >= cycle[n]
      BY <3>2, <3>7 DEF Fresh, t
    <3>9. QED
      BY <2>4, <3>2, <3>4, <3>8, WriteFacts
  <2>6. CASE d # Target(n)
    <3>1. a = broker[d]
      BY <2>2, <2>6, WriteFacts
    <3>2. broker[fieldTopic(a.node, a.service, f)].cycle >= a.cycle
      <4>1. d = discoveryTopic(m, s, e)
        BY TopicForms DEF d
      <4>2. QED
        BY <3>1, <4>1 DEF IInv, EntityHasState
    <3>3. CASE t # Target(n)
      BY <2>4, <3>2, <3>3, WriteFacts
    <3>4. CASE t = Target(n)
      <4>1. a.node = n /\ NowKind(n) = f
        BY <2>1, <2>3, <3>4, WriteFacts, TopicsTell DEF Target, t
      <4>2. broker'[t] = Sent(n, blank) /\ ~ blank
        BY <2>4, <3>4, <4>1, WriteFacts
      <4>3. broker'[t].cycle = cycle[n]
        BY <4>2, WriteFacts
      <4>4. a.cycle <= cycle[n] /\ cycle[n] \in Nat
        BY <2>2, <3>1, <4>1 DEF IInv, TypeOK, NotAhead
      <4>5. QED
        BY <2>3, <2>4, <4>3, <4>4
    <3>5. QED
      BY <3>3, <3>4
  <2>7. QED
    BY <2>5, <2>6
<1>8. QED
  BY <1>2, <1>3, <1>4, <1>5, <1>6, <1>7 DEF IInv

-----------------------------------------------------------------------------
(***************************************************************************)
(* The other steps leave the broker alone.                                 *)
(***************************************************************************)
\* Nothing is written yet.
LEMMA InvInit == Init => IInv
<1> SUFFICES ASSUME Init PROVE IInv
  OBVIOUS
<1>1. /\ \A n \in Nodes : step[n] = 0 /\ covered[n] = {} /\ cycle[n] = 0 /\ done[n] = 0
      /\ \A t \in Topics : broker[t] = Nothing
  BY DEF Init
<1>2. TypeOK
  <2>1. Len(Kinds) \in Nat /\ \A n \in Nodes : MaxCycles[n] \in Nat
    BY KindsAre, FleetAssumption DEF FleetAssumption
  <2>2. \A n \in Nodes : /\ present[n] \subseteq Hosted[n]
                          /\ done[n] <= cycle[n] /\ cycle[n] <= MaxCycles[n]
    BY <1>1, <2>1 DEF Init
  <2>3. QED
    BY <2>1, <2>2 DEF Init, TypeOK
<1>3. Position /\ NotAhead /\ Progress
  BY <1>1 DEF Position, NotAhead, Progress
<1>4. FieldsAreOwn
  <2>1. \A n \in Nodes, s \in Services, f \in FieldSet : fieldTopic(n, s, f) \in Topics
    BY Names, TopicForms DEF KindSet
  <2>2. QED
    BY <1>1, <2>1 DEF FieldsAreOwn
<1>5. EntityHasState
  <2>1. \A n \in Nodes, s \in Services, e \in EntitySet : discoveryTopic(n, s, e) \in Topics
    BY Names, TopicForms DEF KindSet
  <2>2. QED
    BY <1>1, <2>1 DEF EntityHasState
<1>6. QED
  BY <1>2, <1>3, <1>4, <1>5 DEF IInv

\* A cycle begins: its batch is a list of services.
LEMMA PublishKeeps == ASSUME IInv, NEW n \in Nodes, Publish(n) PROVE IInv'
<1>1. /\ UNCHANGED <<present, covered, done, broker>>
      /\ cycle' = [cycle EXCEPT ![n] = @ + 1] /\ cycle[n] < MaxCycles[n]
      /\ check' = [check EXCEPT ![n] = 1] /\ step' = [step EXCEPT ![n] = 1]
      /\ step[n] = 0
  BY DEF Publish
<1>2. TypeOK /\ Len(Kinds) \in Nat \ {0} /\ \A m \in Nodes : MaxCycles[m] \in Nat
  BY KindsAre, FleetAssumption DEF IInv, FleetAssumption
<1>3. PICK b \in Orders(present[n]) : batch' = [batch EXCEPT ![n] = b]
  BY DEF Publish
<1>4. present[n] \subseteq Services /\ present[n] # {}
  BY <1>2 DEF TypeOK, Publish
<1>5. b \in Seq(Services) /\ Len(b) > 0
  <2>1. b \in [1 .. Cardinality(present[n]) -> present[n]]
        /\ present[n] = {b[i] : i \in DOMAIN b}
    BY DEF Orders
  <2>2. DOMAIN b = 1 .. Cardinality(present[n]) /\ DOMAIN b # {}
    BY <1>4, <2>1
  <2>3. Cardinality(present[n]) \in Nat
    <3>1. IsFiniteSet(present[n])
      BY FS_Subset, FleetAssumption DEF IInv, TypeOK, FleetAssumption
    <3>2. QED
      BY <3>1, FS_CardinalityType
  <2>4. b \in [1 .. Cardinality(present[n]) -> Services]
    BY <1>4, <2>1
  <2>5. b \in Seq(Services)
    BY <2>3, <2>4, FunctionIsSeq
  <2>6. DOMAIN b = 1 .. Len(b) /\ Len(b) \in Nat
    BY <2>5
  <2>7. PICK i \in 1 .. Len(b) : TRUE
    <3>1. \E i \in DOMAIN b : TRUE
      BY ONLY <2>2
    <3>2. QED
      BY ONLY <3>1, <2>6
  <2>8. Len(b) > 0
    BY ONLY <2>6, <2>7
  <2>9. QED
    BY ONLY <2>5, <2>8
<1>6. \A m \in Nodes : /\ cycle[m] \in Nat /\ done[m] \in Nat
                       /\ done[m] <= cycle[m] /\ cycle[m] <= MaxCycles[m]
                       /\ present[m] \subseteq Hosted[m]
  BY <1>2 DEF TypeOK
<1>7. \A m \in Nodes : /\ cycle'[m] = IF m = n THEN cycle[n] + 1 ELSE cycle[m]
                       /\ check'[m] = IF m = n THEN 1 ELSE check[m]
                       /\ step'[m] = IF m = n THEN 1 ELSE step[m]
                       /\ batch'[m] = IF m = n THEN b ELSE batch[m]
  BY <1>1, <1>2, <1>3 DEF TypeOK
<1>8. TypeOK'
  <2>1. /\ cycle' \in [Nodes -> Nat] /\ check' \in [Nodes -> Nat \ {0}]
        /\ step' \in [Nodes -> 0 .. Len(Kinds)] /\ batch' \in [Nodes -> Seq(Services)]
    BY <1>1, <1>2, <1>3, <1>5 DEF TypeOK
  <2>2. \A m \in Nodes : /\ present'[m] \subseteq Hosted[m]
                         /\ done'[m] <= cycle'[m] /\ cycle'[m] <= MaxCycles[m]
    BY <1>1, <1>2, <1>6, <1>7
  <2>3. QED
    BY <1>1, <1>2, <2>1, <2>2 DEF TypeOK
<1>9. Position'
  <2> SUFFICES ASSUME NEW m \in Nodes, step'[m] > 0
               PROVE  check'[m] \in 1 .. Len(batch'[m]) /\ cycle'[m] > 0
    BY DEF Position
  <2>1. CASE m = n
    <3>1. Len(b) \in Nat
      BY <1>5
    <3>2. QED
      BY <1>5, <1>6, <1>7, <2>1, <3>1
  <2>2. CASE m # n
    BY <1>7, <2>2 DEF IInv, Position
  <2>3. QED
    BY <2>1, <2>2
<1>10. NotAhead'
  <2> SUFFICES ASSUME NEW t \in Topics, broker[t] # Nothing
               PROVE  broker[t].cycle > 0 /\ broker[t].cycle <= cycle'[broker[t].node]
    BY <1>1 DEF NotAhead
  <2>1. broker[t].node \in Nodes /\ broker[t].cycle \in Nat
    BY <1>2, Messages DEF TypeOK
  <2>2. broker[t].cycle > 0 /\ broker[t].cycle <= cycle[broker[t].node]
    BY DEF IInv, NotAhead
  <2>3. cycle[broker[t].node] <= cycle'[broker[t].node]
        /\ cycle[broker[t].node] \in Nat /\ cycle'[broker[t].node] \in Nat
    BY <1>6, <1>7, <2>1
  <2>4. QED
    BY <2>1, <2>2, <2>3
<1>11. FieldsAreOwn' /\ EntityHasState'
  BY <1>1 DEF IInv, FieldsAreOwn, EntityHasState
<1>12. Progress'
  <2> SUFFICES ASSUME NEW m \in Nodes
               PROVE  /\ step'[m] > 0 =>
                           /\ \A j \in 1 .. check'[m] - 1, i \in 1 .. Len(Kinds) :
                                Fresh(broker, m, batch'[m][j], Kinds[i], cycle'[m])
                           /\ \A i \in 1 .. step'[m] - 1 :
                                Fresh(broker, m, batch'[m][check'[m]], Kinds[i], cycle'[m])
                      /\ \A s \in covered[m], k \in KindSet :
                           Fresh(broker, m, s, k, done[m])
    BY <1>1 DEF Progress
  <2>1. \A s \in covered[m], k \in KindSet : Fresh(broker, m, s, k, done[m])
    BY DEF IInv, Progress
  <2>2. CASE m = n
    BY <1>7, <2>1, <2>2
  <2>3. CASE m # n
    BY <1>7, <2>1, <2>3 DEF IInv, Progress
  <2>4. QED
    BY <2>2, <2>3
<1>13. QED
  BY <1>8, <1>9, <1>10, <1>11, <1>12 DEF IInv

\* A cycle without services ends at once: there is nothing it covers.
LEMMA PublishNothingKeeps == ASSUME IInv, NEW n \in Nodes, PublishNothing(n) PROVE IInv'
<1>1. /\ UNCHANGED <<present, batch, check, step, broker>>
      /\ cycle' = [cycle EXCEPT ![n] = @ + 1] /\ cycle[n] < MaxCycles[n]
      /\ covered' = [covered EXCEPT ![n] = {}] /\ done' = [done EXCEPT ![n] = cycle[n] + 1]
      /\ step[n] = 0
  BY DEF PublishNothing
<1>2. TypeOK /\ \A m \in Nodes : MaxCycles[m] \in Nat
  BY FleetAssumption DEF IInv, FleetAssumption
<1>3. \A m \in Nodes : /\ cycle[m] \in Nat /\ done[m] \in Nat
                       /\ done[m] <= cycle[m] /\ cycle[m] <= MaxCycles[m]
                       /\ present[m] \subseteq Hosted[m]
  BY <1>2 DEF TypeOK
<1>4. \A m \in Nodes : /\ cycle'[m] = IF m = n THEN cycle[n] + 1 ELSE cycle[m]
                       /\ done'[m] = IF m = n THEN cycle[n] + 1 ELSE done[m]
                       /\ covered'[m] = IF m = n THEN {} ELSE covered[m]
  BY <1>1, <1>2 DEF TypeOK
<1>5. TypeOK'
  <2>1. cycle' \in [Nodes -> Nat] /\ done' \in [Nodes -> Nat]
        /\ covered' \in [Nodes -> SUBSET Services]
    BY <1>1, <1>2, <1>3 DEF TypeOK
  <2>2. \A m \in Nodes : /\ present'[m] \subseteq Hosted[m]
                         /\ done'[m] <= cycle'[m] /\ cycle'[m] <= MaxCycles[m]
    BY <1>1, <1>2, <1>3, <1>4
  <2>3. QED
    BY <1>1, <1>2, <2>1, <2>2 DEF TypeOK
<1>6. Position'
  BY <1>1, <1>4 DEF IInv, Position
<1>7. NotAhead'
  <2> SUFFICES ASSUME NEW t \in Topics, broker[t] # Nothing
               PROVE  broker[t].cycle > 0 /\ broker[t].cycle <= cycle'[broker[t].node]
    BY <1>1 DEF NotAhead
  <2>1. broker[t].node \in Nodes /\ broker[t].cycle \in Nat
    BY <1>2, Messages DEF TypeOK
  <2>2. broker[t].cycle > 0 /\ broker[t].cycle <= cycle[broker[t].node]
    BY DEF IInv, NotAhead
  <2>3. cycle[broker[t].node] <= cycle'[broker[t].node]
        /\ cycle[broker[t].node] \in Nat /\ cycle'[broker[t].node] \in Nat
    BY <1>3, <1>4, <2>1
  <2>4. QED
    BY <2>1, <2>2, <2>3
<1>8. FieldsAreOwn' /\ EntityHasState'
  BY <1>1 DEF IInv, FieldsAreOwn, EntityHasState
<1>9. Progress'
  BY <1>1, <1>4 DEF IInv, Progress
<1>10. QED
  BY <1>5, <1>6, <1>7, <1>8, <1>9 DEF IInv

\* Services come and go.
LEMMA ChangeKeeps ==
  ASSUME IInv, NEW n \in Nodes, NEW s \in Hosted[n], Change(n, s)
  PROVE  IInv'
<1>1. UNCHANGED <<batch, check, step, cycle, covered, done, broker>>
      /\ present' = [present EXCEPT ![n] = IF s \in @ THEN @ \ {s} ELSE @ \cup {s}]
  BY DEF Change
<1>2. TypeOK'
  <2>1. s \in Services
    BY DEF Services
  <2>2. \A m \in Nodes : present'[m] \subseteq Hosted[m]
    BY <1>1 DEF IInv, TypeOK
  <2>3. present' \in [Nodes -> SUBSET Services]
    BY <1>1, <2>1 DEF IInv, TypeOK
  <2>4. QED
    BY <1>1, <2>2, <2>3 DEF IInv, TypeOK
<1>3. QED
  BY <1>1, <1>2
     DEF IInv, Position, NotAhead, FieldsAreOwn, Progress, EntityHasState

\* A cycle that fails covers nothing more.
LEMMA FailKeeps == ASSUME IInv, NEW n \in Nodes, Fail(n) PROVE IInv'
<1>1. UNCHANGED <<present, batch, check, cycle, covered, done, broker>>
      /\ step' = [step EXCEPT ![n] = 0]
  BY DEF Fail
<1>2. TypeOK' /\ \A m \in Nodes : step'[m] > 0 => step'[m] = step[m]
  <2>1. Len(Kinds) \in Nat
    BY KindsAre
  <2>2. QED
    BY <1>1, <2>1 DEF IInv, TypeOK
<1>3. Position'
  BY <1>1, <1>2 DEF IInv, Position
<1>4. Progress'
  BY <1>1, <1>2 DEF IInv, Progress
<1>5. QED
  BY <1>1, <1>2, <1>3, <1>4 DEF IInv, NotAhead, FieldsAreOwn, EntityHasState

\* Every step keeps the invariant.
LEMMA InvStep == IInv /\ [Next]_vars => IInv'
<1>1. ASSUME IInv, UNCHANGED vars PROVE IInv'
  BY <1>1 DEF IInv, TypeOK, Position, NotAhead, FieldsAreOwn, Progress, EntityHasState, vars
<1>2. QED
  BY <1>1, WriteKeeps, PublishKeeps, PublishNothingKeeps, ChangeKeeps, FailKeeps DEF Next

LEMMA Invariant == Spec => []IInv
BY InvInit, InvStep, PTL DEF Spec

-----------------------------------------------------------------------------
\* The variables keep their ranges (publisher.go:151-178).
THEOREM TypeCorrect == Spec => []TypeOK
<1>1. IInv => TypeOK
  BY DEF IInv
<1>2. QED
  BY <1>1, Invariant, PTL

\* A field topic only ever shows a check of the node and the service it names
\* (fieldTopic, publisher.go:314-322).
THEOREM FieldsStayOwn == Spec => []FieldsAreOwn
<1>1. IInv => FieldsAreOwn
  BY DEF IInv
<1>2. QED
  BY <1>1, Invariant, PTL

\* A topic older than the last cycle that succeeded is of a service that cycle
\* did not find (Publish, publisher.go:151-178).
THEOREM OldTopicsAreOfGoneServices == Spec => []StaleMeansGone
<1>1. IInv => StaleMeansGone
  <2> SUFFICES ASSUME IInv, NEW n \in Nodes, NEW s \in covered[n], NEW f \in FieldSet
               PROVE  LET m == broker[fieldTopic(n, s, f)]
                      IN  m.cycle >= done[n] \/ (f \in Optional /\ m = Nothing)
    BY DEF StaleMeansGone
  <2>1. s \in Services /\ f \in KindSet
    BY DEF IInv, TypeOK, KindSet
  <2>2. Fresh(broker, n, s, f, done[n])
    BY <2>1 DEF IInv, Progress
  <2>3. QED
    BY <2>1, <2>2, TopicForms DEF Fresh
<1>2. QED
  BY <1>1, Invariant, PTL

\* An entity is announced only after its states (publisher.go:163-175).
THEOREM EntitiesHaveStates == Spec => []EntityHasState
<1>1. IInv => EntityHasState
  BY DEF IInv
<1>2. QED
  BY <1>1, Invariant, PTL

\* The entities of a node whose id is apart from all others stay on its device,
\* whatever its services and those of the others are called (publisher.go:223).
THEOREM ApartNodesAreSafe == Spec => []ApartNodesKeepDevices
<1>1. IInv => ApartNodesKeepDevices
  <2> SUFFICES ASSUME IInv, NEW n \in Nodes, Alone(n), NEW s \in covered[n], NEW e \in EntitySet
               PROVE  LET m == broker[discoveryTopic(n, s, e)]
                      IN  m # Nothing /\ m.node = n /\ m.cycle >= done[n]
    BY DEF ApartNodesKeepDevices, OnItsDevice
  <2>1. s \in Services /\ e \in KindSet
    BY DEF IInv, TypeOK, KindSet
  <2>2. Fresh(broker, n, s, e, done[n])
    BY <2>1 DEF IInv, Progress
  <2>3. QED
    BY <2>1, <2>2, TopicForms DEF Fresh
<1>2. QED
  BY <1>1, Invariant, PTL
=============================================================================
