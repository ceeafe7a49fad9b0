-------------------------- MODULE PublisherProofs --------------------------
(***************************************************************************)
(* Proofs about Publisher, for any services, batches, settings and number  *)
(* of calls.  Where connections must not overlap, a theorem says so.       *)
(***************************************************************************)
EXTENDS PublisherInvariant, SequenceTheorems, TLAPS

\* The k-th packet of a check goes to topic k; there are six or ten.
LEMMA SequenceProperties ==
  ASSUME NEW c \in Config
  PROVE  /\ Len(Sequence(c)) \in 6 .. 10
         /\ \A k \in 1 .. Len(Sequence(c)) : Sequence(c)[k] = k
<1> USE DEF Sequence, publishedFields, publishHomeAssistantDiscovery, artifact_name,
            current_version, latest_version, latest_version_url, observed_at, check_status
<1>1. CASE c.ha
  BY <1>1
<1>2. CASE ~ c.ha
  BY <1>2
<1>3. QED
  BY <1>1, <1>2

\* A packet is about the check it is written for, and carries its topic and stamp.
LEMMA PacketProperties ==
  ASSUME TypeOK, NEW i \in 1 .. Len(batch), NEW k \in 1 .. Len(Sequence(cfg))
  PROVE  /\ PacketAt(i, k) \in Packet
         /\ PacketAt(i, k).service = batch[i].service
         /\ PacketAt(i, k).topic = k
         /\ PacketAt(i, k).stamp = base + i
<1>1. Sequence(cfg)[k] = k /\ k \in Topics
  <2>1. cfg \in Config
    BY DEF TypeOK
  <2>2. Len(Sequence(cfg)) \in 6 .. 10 /\ Sequence(cfg)[k] = k
    BY <2>1, SequenceProperties
  <2>3. QED
    BY <2>2 DEF Topics, FieldTopics, DiscoveryTopics
<1>2. batch[i].service \in Services
  <2>1. batch[i] \in Check
    BY ElementOfSeq DEF TypeOK
  <2>2. QED
    BY <2>1 DEF Check
<1>3. base + i \in Nat /\ cfg.retain \in BOOLEAN
  BY DEF TypeOK, Config
<1> DEFINE P(e, r) == [service |-> batch[i].service, topic |-> k, stamp |-> base + i,
                      empty |-> e, retain |-> r]
<1>4. \E e, r \in BOOLEAN : PacketAt(i, k) = P(e, r)
  <2>1. CASE k \in FieldTopics /\ k \in batch[i].empty
    BY <1>1, <2>1 DEF PacketAt, publishField, clearRetained
  <2>2. CASE k \in FieldTopics /\ k \notin batch[i].empty
    BY <1>1, <1>3, <2>2 DEF PacketAt, publishField
  <2>3. CASE k \notin FieldTopics
    BY <1>1, <2>3 DEF PacketAt, publishDiscovery
  <2>4. QED
    BY <2>1, <2>2, <2>3
<1>5. PICK e \in BOOLEAN, r \in BOOLEAN : PacketAt(i, k) = P(e, r)
  BY <1>4
<1>6. P(e, r) \in Packet
  BY <1>1, <1>2, <1>3 DEF Packet
<1>7. QED
  BY <1>5, <1>6

-----------------------------------------------------------------------------
\* The initial values are in their ranges.
LEMMA TypeInit == Init => TypeOK /\ Position
<1> SUFFICES ASSUME Init PROVE TypeOK /\ Position
  OBVIOUS
<1>1. /\ cfg \in Config /\ 0 \in 0 .. MaxCalls /\ pc = "idle"
      /\ step \in 1 .. 10 /\ check \in Nat \ {0}
  BY PublisherAssumption DEF PublisherAssumption, Init
<1>2. batch \in Seq(Check) /\ wire \in [Connections -> Seq(Packet)]
  BY DEF Init
<1>3. live \in [Services -> [Topics -> [stamp : Nat, empty : BOOLEAN]]]
  BY DEF Init
<1>4. kept \in [Services -> [Topics -> Nat]]
  BY DEF Init
<1>5. QED
  BY <1>1, <1>2, <1>3, <1>4 DEF Init, TypeOK, Position

\* Every step keeps them there, and the position within the batch; the packet
\* that is written needs both.
LEMMA TypeStep == ASSUME TypeOK, Position, [Next]_vars PROVE TypeOK' /\ Position'
<1> USE PublisherAssumption DEF PublisherAssumption, TypeOK, Position, network, Connections
<1>1. CASE PublishNothing
  BY <1>1 DEF PublishNothing
<1>2. ASSUME NEW cs \in Batches, Publish(cs)
      PROVE  TypeOK' /\ Position'
  <2>1. cs \in Seq(Check) /\ Len(cs) \in Nat \ {0} /\ Len(batch) \in Nat
    BY <1>2 DEF Publish
  <2>2. Len(Sequence(cfg)) \in 6 .. 10
    BY SequenceProperties
  <2>3. batch' = cs /\ base' = base + Len(batch) /\ check' = 1 /\ step' = 1
        /\ calls' \in Connections /\ pc' = "dial" /\ result' = "none"
        /\ UNCHANGED <<cfg, cancelled, wire, broken, live, kept>>
    BY <1>2 DEF Publish
  <2>4. 1 \in 1 .. Len(cs) /\ 1 \in 1 .. Len(Sequence(cfg)) /\ base + Len(batch) \in Nat
    <3>1. 1 \in 1 .. Len(cs)
      BY <2>1
    <3>2. 1 \in 1 .. Len(Sequence(cfg))
      <4> DEFINE last == Len(Sequence(cfg))
      <4>1. last \in 6 .. 10
        BY <2>2
      <4> HIDE DEF last
      <4>2. 1 \in 1 .. last
        BY <4>1
      <4>3. QED
        BY <4>2 DEF last
    <3>3. base + Len(batch) \in Nat
      BY <2>1
    <3>4. QED
      BY <3>1, <3>2, <3>3
  <2>5. Position'
    BY <2>3, <2>4
  <2>6. TypeOK'
    BY <2>1, <2>3, <2>4
  <2>7. QED
    BY <2>5, <2>6
<1>3. CASE DialSucceeds \/ ConnackAccepts
  BY <1>3 DEF DialSucceeds, ConnackAccepts
<1>4. CASE DialFails \/ ConnackRejects \/ ConnackTimesOut \/ WriteFails
  BY <1>4 DEF DialFails, ConnackRejects, ConnackTimesOut, WriteFails, Return
<1>5. CASE WritePacket
  <2>1. PacketAt(check, step) \in Packet
    BY <1>5, PacketProperties DEF WritePacket
  <2>2. wire' \in [Connections -> Seq(Packet)]
    <3>1. CASE calls \in broken
      BY <1>5, <3>1 DEF WritePacket
    <3>2. CASE calls \notin broken
      <4>1. Append(wire[calls], PacketAt(check, step)) \in Seq(Packet)
        BY <1>5, <2>1 DEF WritePacket
      <4>2. QED
        BY <1>5, <3>2, <4>1 DEF WritePacket
    <3>3. QED
      BY <3>1, <3>2
  <2>3. Len(Sequence(cfg)) \in 6 .. 10 /\ Len(batch) \in Nat
    BY SequenceProperties
  <2>4. UNCHANGED <<cfg, cancelled, calls, batch, base, broken, live, kept>>
    BY <1>5 DEF WritePacket
  <2>5. /\ pc' \in {"send", "idle"} /\ check' \in Nat \ {0} /\ step' \in 1 .. 10
        /\ result' \in {result, "ok"}
        /\ pc' = "send" => check' \in 1 .. Len(batch) /\ step' \in 1 .. Len(Sequence(cfg))
    <3>1. CASE step < Len(Sequence(cfg))
      <4>1. step' = step + 1 /\ pc' = pc /\ check' = check /\ result' = result
        BY <1>5, <3>1 DEF WritePacket, Advance
      <4>2. pc = "send" /\ check \in 1 .. Len(batch) /\ cfg' = cfg /\ step \in 1 .. 10
        BY <1>5 DEF WritePacket
      <4> DEFINE last == Len(Sequence(cfg))
      <4>3. last \in 6 .. 10 /\ step < last
        BY <2>3, <3>1
      <4> HIDE DEF last
      <4>4. step' \in 1 .. 10 /\ step' \in 1 .. last
        BY <4>1, <4>2, <4>3
      <4>5. step' \in 1 .. Len(Sequence(cfg))
        BY <4>4 DEF last
      <4>6. QED
        BY <4>1, <4>2, <4>4, <4>5
    <3>2. CASE ~ (step < Len(Sequence(cfg))) /\ check < Len(batch)
      BY <1>5, <2>3, <3>2 DEF WritePacket, Advance
    <3>3. CASE ~ (step < Len(Sequence(cfg))) /\ ~ (check < Len(batch))
      BY <1>5, <2>3, <3>3 DEF WritePacket, Advance
    <3>4. QED
      BY <3>1, <3>2, <3>3
  <2>6. QED
    BY <1>5, <2>2, <2>4, <2>5 DEF WritePacket
<1>6. CASE Cancel \/ Stop
  BY <1>6 DEF Cancel, Stop
<1>7. CASE Restart
  BY <1>7 DEF Restart
<1>8. ASSUME NEW c \in Connections, Deliver(c)
      PROVE  TypeOK' /\ Position'
  <2>1. Head(wire[c]) \in Packet /\ Tail(wire[c]) \in Seq(Packet)
    BY <1>8, HeadTailProperties DEF Deliver
  <2>2. UNCHANGED <<pc, cfg, cancelled, calls, batch, base, check, step, result, broken>>
    BY <1>8 DEF Deliver
  <2>3. wire' \in [Connections -> Seq(Packet)]
    BY <1>8, <2>1 DEF Deliver
  <2>4. live' \in [Services -> [Topics -> [stamp : Nat, empty : BOOLEAN]]]
    BY <1>8, <2>1 DEF Deliver, Packet
  <2>5. kept' \in [Services -> [Topics -> Nat]]
    BY <1>8, <2>1 DEF Deliver, Packet
  <2>6. QED
    BY <2>2, <2>3, <2>4, <2>5
<1>9. ASSUME NEW c \in Connections, Break(c)
      PROVE  TypeOK' /\ Position'
  BY <1>9 DEF Break
<1>10. CASE UNCHANGED vars
  BY <1>10 DEF vars
<1>11. QED
  BY <1>1, <1>2, <1>3, <1>4, <1>5, <1>6, <1>7, <1>8, <1>9, <1>10 DEF Next

\* TypeOK holds in every state: no packet is written for a check or a topic that
\* does not exist (Publish, publisher.go:163-175).
THEOREM TypeCorrect == Spec => [](TypeOK /\ Position)
BY TypeInit, TypeStep, PTL DEF Spec

-----------------------------------------------------------------------------
\* A packet that clears a field is retained, whatever is configured.
LEMMA PacketClears ==
  ASSUME NEW i, NEW k, PacketAt(i, k).empty
  PROVE  PacketAt(i, k).retain
BY DEF PacketAt, publishField, clearRetained, publishDiscovery

\* A delivery of a cleared field drops the retained value of that topic only.
LEMMA BlankDeliver ==
  ASSUME TypeOK, ClearsAreRetained, BlankIsBlankForEveryone,
         NEW d \in Connections, Deliver(d)
  PROVE  ClearsAreRetained' /\ BlankIsBlankForEveryone'
<1> DEFINE p == Head(wire[d])
<1>1. wire[d] \in Seq(Packet) /\ wire[d] # <<>> /\ Len(wire[d]) \in Nat
  BY DEF Deliver, TypeOK
<1>2. p = wire[d][1] /\ 1 \in 1 .. Len(wire[d]) /\ p \in Packet
  BY <1>1, HeadTailProperties
<1>3. p.service \in Services /\ p.topic \in Topics /\ p.empty \in BOOLEAN
  BY <1>2 DEF Packet
<1>4. p.empty => p.retain
  BY <1>2 DEF ClearsAreRetained
<1>5. /\ live' = [live EXCEPT ![p.service][p.topic] = [stamp |-> p.stamp, empty |-> p.empty]]
      /\ p.retain => kept' = [kept EXCEPT ![p.service][p.topic] = IF p.empty THEN 0 ELSE p.stamp]
      /\ ~ p.retain => kept' = kept
      /\ wire' = [wire EXCEPT ![d] = Tail(@)]
  BY DEF Deliver
<1>6. ASSUME NEW s \in Services, NEW t \in Topics, live'[s][t].empty
      PROVE  kept'[s][t] = 0
  <2> HIDE DEF p
  <2>1. CASE s = p.service /\ t = p.topic
    <3>1. live'[s][t] = [stamp |-> p.stamp, empty |-> p.empty]
      BY <1>3, <1>5, <2>1 DEF TypeOK
    <3>2. p.empty /\ p.retain
      BY <1>4, <1>6, <3>1
    <3>3. QED
      BY <1>3, <1>5, <2>1, <3>2 DEF TypeOK
  <2>2. CASE ~ (s = p.service /\ t = p.topic)
    <3>1. live'[s][t] = live[s][t]
      BY <1>3, <1>5, <2>2 DEF TypeOK
    <3>2. kept'[s][t] = kept[s][t]
      BY <1>3, <1>5, <2>2 DEF TypeOK
    <3>3. QED
      BY <1>6, <3>1, <3>2 DEF BlankIsBlankForEveryone
  <2>3. QED
    BY <2>1, <2>2
<1>7. ASSUME NEW c \in Connections, NEW n \in 1 .. Len(wire'[c]), wire'[c][n].empty
      PROVE  wire'[c][n].retain
  <2>1. CASE c = d
    <3>1. wire'[d] = Tail(wire[d])
      BY <1>5 DEF TypeOK
    <3>2. n + 1 \in 1 .. Len(wire[d]) /\ wire'[c][n] = wire[d][n + 1]
      BY <1>1, <1>7, <2>1, <3>1, HeadTailProperties
    <3>3. QED
      BY <1>7, <3>2 DEF ClearsAreRetained
  <2>2. CASE c # d
    <3>1. wire'[c] = wire[c]
      BY <1>5, <2>2 DEF TypeOK
    <3>2. QED
      BY <1>7, <3>1 DEF ClearsAreRetained
  <2>3. QED
    BY <2>1, <2>2
<1>8. QED
  BY <1>6, <1>7 DEF ClearsAreRetained, BlankIsBlankForEveryone

\* No step loses the retain flag of a clearing packet or brings a cleared value back.
LEMMA BlankStep ==
  ASSUME TypeOK, Position, ClearsAreRetained, BlankIsBlankForEveryone, [Next]_vars
  PROVE  ClearsAreRetained' /\ BlankIsBlankForEveryone'
<1>1. CASE WritePacket
  <2>1. UNCHANGED <<live, kept>> /\ calls \in Connections
    BY <1>1 DEF WritePacket, Position
  <2>2. ASSUME NEW c \in Connections, NEW n \in 1 .. Len(wire'[c]), wire'[c][n].empty
        PROVE  wire'[c][n].retain
    <3> DEFINE q == PacketAt(check, step)
    <3>1. q.empty => q.retain
      BY PacketClears
    <3> HIDE DEF q
    <3>2. CASE c = calls /\ calls \notin broken
      <4>1. wire[c] \in Seq(Packet) /\ Len(wire[c]) \in Nat
        BY DEF TypeOK
      <4>2. wire'[c] = Append(wire[c], q)
        BY <1>1, <3>2 DEF WritePacket, TypeOK, q
      <4>3. \/ n \in 1 .. Len(wire[c]) /\ wire'[c][n] = wire[c][n]
            \/ wire'[c][n] = q
        BY <2>2, <4>1, <4>2
      <4>4. QED
        BY <2>2, <3>1, <4>3 DEF ClearsAreRetained
    <3>3. CASE ~ (c = calls /\ calls \notin broken)
      <4>1. wire'[c] = wire[c]
        BY <1>1, <3>3 DEF WritePacket, TypeOK
      <4>2. QED
        BY <2>2, <4>1 DEF ClearsAreRetained
    <3>4. QED
      BY <3>2, <3>3
  <2>3. QED
    BY <2>1, <2>2 DEF ClearsAreRetained, BlankIsBlankForEveryone
<1>2. CASE \E c \in Connections : Deliver(c)
  BY <1>2, BlankDeliver
<1>3. ASSUME NEW d \in Connections, Break(d)
      PROVE  ClearsAreRetained' /\ BlankIsBlankForEveryone'
  <2>1. UNCHANGED <<live, kept>>
    BY <1>3 DEF Break
  <2>2. \A c \in Connections : wire'[c] = wire[c] \/ Len(wire'[c]) = 0
    BY <1>3 DEF Break, TypeOK
  <2>3. QED
    BY <2>1, <2>2 DEF ClearsAreRetained, BlankIsBlankForEveryone
<1>4. CASE UNCHANGED <<wire, live, kept>>
  BY <1>4 DEF ClearsAreRetained, BlankIsBlankForEveryone
<1>5. QED
  BY <1>1, <1>2, <1>3, <1>4 DEF Next, Publish, DialSucceeds, ConnackAccepts, PublishNothing,
     DialFails, ConnackRejects, ConnackTimesOut, WriteFails, Return, Cancel, Stop, Restart,
     network, vars

\* Also when connections overlap and packets of several calls arrive in any
\* order: a field that was last cleared for the subscribers has no retained
\* value for those who join later (clearRetained, publisher.go:295).
THEOREM BlankForEveryone == Spec => []BlankIsBlankForEveryone
<1>1. Init => ClearsAreRetained /\ BlankIsBlankForEveryone
  BY DEF Init, ClearsAreRetained, BlankIsBlankForEveryone
<1>2. TypeOK /\ Position /\ ClearsAreRetained /\ BlankIsBlankForEveryone /\ [Next]_vars
      => (ClearsAreRetained /\ BlankIsBlankForEveryone)'
  BY BlankStep
<1>3. QED
  BY <1>1, <1>2, TypeCorrect, PTL DEF Spec

-----------------------------------------------------------------------------
(***************************************************************************)
(* Backing is an invariant when a connection is drained before the next    *)
(* one is dialled, and what follows from it.                               *)
(***************************************************************************)

\* What TypeOK says of a packet under way and of the broker.
LEMMA WireTyped ==
  ASSUME TypeOK, NEW c \in Connections
  PROVE  /\ Len(wire[c]) \in Nat
         /\ wire[c] \in Seq(Packet)
         /\ \A n \in 1 .. Len(wire[c]) :
              /\ wire[c][n].service \in Services
              /\ wire[c][n].topic \in Topics
              /\ wire[c][n].stamp \in Nat
<1>1. wire[c] \in Seq(Packet)
  BY DEF TypeOK
<1>2. Len(wire[c]) \in Nat
  BY <1>1
<1>3. ASSUME NEW n \in 1 .. Len(wire[c])
      PROVE  wire[c][n] \in Packet
  BY <1>1, ElementOfSeq
<1>4. QED
  BY <1>1, <1>2, <1>3 DEF Packet

\* Every stamp the broker shows is a number.
LEMMA LiveTyped ==
  ASSUME TypeOK, NEW s \in Services, NEW t \in Topics
  PROVE  live[s][t].stamp \in Nat
BY DEF TypeOK

\* The topics are numbered in the order in which they are written.
LEMMA TopicsOrdered == Topics = 1 .. 10
BY DEF Topics, FieldTopics, DiscoveryTopics

-----------------------------------------------------------------------------
\* A broker that has every topic of the staircase never shows a verdict or a
\* discovery topic ahead of a field.
LEMMA StaircaseBacks == ASSUME TypeOK, Staircase PROVE VerdictIsBacked
<1> SUFFICES ASSUME NEW s \in Services, NEW f \in FieldTopics
             PROVE  /\ live[s][f].stamp >= live[s][check_status].stamp
                    /\ \A d \in DiscoveryTopics : live[s][f].stamp >= live[s][d].stamp
  BY DEF VerdictIsBacked
<1>1. f \in Topics /\ f \in 1 .. 6 /\ 6 \in Topics
  BY TopicsOrdered DEF FieldTopics
<1>2. live[s][f].stamp \in Nat
  BY <1>1, LiveTyped
<1>3. f < 6 => live[s][f].stamp >= live[s][6].stamp
  BY <1>1 DEF Staircase
<1>4. live[s][f].stamp >= live[s][check_status].stamp
  BY <1>1, <1>2, <1>3 DEF check_status
<1>5. ASSUME NEW d \in DiscoveryTopics
      PROVE  live[s][f].stamp >= live[s][d].stamp
  <2>1. d \in Topics /\ f < d
    BY <1>1, TopicsOrdered DEF DiscoveryTopics
  <2>2. QED
    BY <1>1, <2>1 DEF Staircase
<1>6. QED
  BY <1>4, <1>5

-----------------------------------------------------------------------------
\* Before the first call nothing is under way and the broker knows nothing.
LEMMA BackingInit == Init => Backing
<1> SUFFICES ASSUME Init PROVE Backing
  OBVIOUS
<1>1. Position
  BY TypeInit
<1>2. \A c \in Connections : wire[c] = <<>>
  BY DEF Init
<1>3. \A s \in Services, t \in Topics : live[s][t].stamp = 0
  BY DEF Init
<1>4. NewestStamp = 0
  BY DEF Init, NewestStamp
<1>5. OneWire /\ FirstPacket
  BY <1>2 DEF OneWire, FirstPacket, Init
<1>6. InOrder /\ Newer
  BY <1>2, <1>3, <1>4 DEF InOrder, Newer
<1>7. NoGap
  BY <1>2 DEF NoGap, Init
<1>8. Staircase
  BY <1>3 DEF Staircase
<1>9. QED
  BY <1>1, <1>5, <1>6, <1>7, <1>8 DEF Backing

-----------------------------------------------------------------------------
\* A delivery takes the head of the one connection with packets; the broker has
\* everything that was written before it for its check, and nothing newer.
LEMMA DeliverBacks ==
  ASSUME TypeOK, Backing, NEW d \in Connections, Deliver(d)
  PROVE  Backing'
<1> DEFINE p == wire[d][1]
<1>1. wire[d] # <<>> /\ Head(wire[d]) = p /\ Len(wire[d]) \in Nat \ {0}
      /\ wire[d] \in Seq(Packet)
  <2>1. wire[d] \in Seq(Packet) /\ wire[d] # <<>>
    BY WireTyped DEF Deliver
  <2>2. QED
    BY <2>1
<1>2. /\ p.service \in Services /\ p.topic \in Topics /\ p.stamp \in Nat
      /\ 1 \in 1 .. Len(wire[d])
  BY <1>1, WireTyped
<1>3. UNCHANGED <<pc, cfg, calls, batch, base, check, step, broken>>
  BY DEF Deliver
<1>4. \A c \in Connections : c # d => wire[c] = <<>> /\ wire'[c] = <<>>
  <2>1. \A c \in Connections : c # d => wire[c] = <<>>
    BY <1>1 DEF Backing, OneWire
  <2>2. wire \in [Connections -> Seq(Packet)]
    BY DEF TypeOK
  <2>3. QED
    BY <2>1, <2>2 DEF Deliver
<1>5. /\ Len(wire'[d]) = Len(wire[d]) - 1
      /\ \A n \in 1 .. Len(wire'[d]) : n + 1 \in 1 .. Len(wire[d]) /\ wire'[d][n] = wire[d][n + 1]
  <2>1. wire'[d] = Tail(wire[d])
    BY DEF Deliver, TypeOK
  <2>2. Len(Tail(wire[d])) = Len(wire[d]) - 1
        /\ \A n \in 1 .. Len(Tail(wire[d])) : Tail(wire[d])[n] = wire[d][n + 1]
    BY <1>1, HeadTailProperties
  <2>3. QED
    BY <1>1, <2>1, <2>2
<1>6. \A s \in Services, t \in Topics :
        live'[s][t].stamp = IF s = p.service /\ t = p.topic THEN p.stamp ELSE live[s][t].stamp
  <2>1. live' = [live EXCEPT ![p.service][p.topic] = [stamp |-> p.stamp, empty |-> p.empty]]
    BY <1>1 DEF Deliver
  <2>2. QED
    BY <1>2, <2>1 DEF TypeOK
<1>7. \A s \in Services, t \in Topics :
        live[s][t].stamp \in Nat /\ live'[s][t].stamp \in Nat
        /\ live'[s][t].stamp >= live[s][t].stamp
  <2>1. \A t \in Topics : live[p.service][t].stamp <= p.stamp
    BY <1>2 DEF Backing, Newer
  <2>2. \A s \in Services, t \in Topics : live[s][t].stamp \in Nat
    BY LiveTyped
  <2>3. QED
    BY <1>2, <1>6, <2>1, <2>2
<1> HIDE DEF p
<1>8. Position' /\ FirstPacket'
  BY <1>3 DEF Backing, Position, FirstPacket
<1>9. OneWire'
  BY <1>1, <1>3, <1>4 DEF Backing, OneWire
<1>10. InOrder'
  <2>1. NewestStamp' = NewestStamp
    BY <1>3 DEF NewestStamp
  <2>2. p.stamp <= NewestStamp /\ \A s \in Services, t \in Topics : live[s][t].stamp <= NewestStamp
    BY <1>2 DEF Backing, InOrder, p
  <2>3. \A s \in Services, t \in Topics : live'[s][t].stamp <= NewestStamp'
    BY <1>6, <2>1, <2>2
  <2>4. ASSUME NEW n \in 1 .. Len(wire'[d])
        PROVE  /\ wire'[d][n].stamp <= NewestStamp'
               /\ \A m \in 1 .. Len(wire'[d]) :
                    m < n => Before(wire'[d][m], wire'[d][n].stamp, wire'[d][n].topic)
               /\ pc' = "send" => Before(wire'[d][n], base' + check', step')
    <3>1. n + 1 \in 1 .. Len(wire[d]) /\ wire'[d][n] = wire[d][n + 1]
      BY <1>5
    <3>2. wire'[d][n].stamp <= NewestStamp'
      BY <2>1, <3>1 DEF Backing, InOrder
    <3>3. ASSUME NEW m \in 1 .. Len(wire'[d]), m < n
          PROVE  Before(wire'[d][m], wire'[d][n].stamp, wire'[d][n].topic)
      <4>1. m + 1 \in 1 .. Len(wire[d]) /\ wire'[d][m] = wire[d][m + 1] /\ m + 1 < n + 1
        BY <1>1, <1>5, <3>3
      <4>2. Before(wire[d][m + 1], wire[d][n + 1].stamp, wire[d][n + 1].topic)
        BY <3>1, <4>1 DEF Backing, InOrder
      <4>3. QED
        BY <3>1, <4>1, <4>2
    <3>4. pc' = "send" => Before(wire'[d][n], base' + check', step')
      BY <1>3, <3>1 DEF Backing, InOrder
    <3>5. QED
      BY <3>2, <3>3, <3>4
  <2>5. \A c \in Connections : c # d => Len(wire'[c]) = 0
    BY <1>4
  <2>6. QED
    BY <2>3, <2>4, <2>5 DEF InOrder, Before
<1>11. \A n \in 1 .. Len(wire'[d]) :
         /\ wire'[d][n].service \in Services /\ wire'[d][n].topic \in Topics
         /\ wire'[d][n].stamp \in Nat /\ p.stamp <= wire'[d][n].stamp
  <2>1. TAKE n \in 1 .. Len(wire'[d])
  <2>2. n + 1 \in 1 .. Len(wire[d]) /\ wire'[d][n] = wire[d][n + 1] /\ 1 < n + 1
    BY <1>1, <1>5
  <2>3. Before(p, wire[d][n + 1].stamp, wire[d][n + 1].topic)
    BY <1>2, <2>2 DEF Backing, InOrder, p
  <2>4. wire[d][n + 1].service \in Services /\ wire[d][n + 1].topic \in Topics
        /\ wire[d][n + 1].stamp \in Nat
    BY <2>2, WireTyped
  <2>5. p.stamp <= wire[d][n + 1].stamp
    BY <1>2, <2>3, <2>4 DEF Before
  <2>6. QED
    BY <2>2, <2>4, <2>5
<1>12. Newer'
  <2>1. ASSUME NEW n \in 1 .. Len(wire'[d]), NEW t \in Topics
        PROVE  live'[wire'[d][n].service][t].stamp <= wire'[d][n].stamp
    <3>1. n + 1 \in 1 .. Len(wire[d]) /\ wire'[d][n] = wire[d][n + 1]
      BY <1>5
    <3>2. live[wire'[d][n].service][t].stamp <= wire'[d][n].stamp
      BY <3>1 DEF Backing, Newer
    <3>3. QED
      BY <1>6, <1>11, <3>2
  <2>2. \A c \in Connections : c # d => Len(wire'[c]) = 0
    BY <1>4
  <2>3. QED
    BY <2>1, <2>2 DEF Newer
<1> DEFINE Arrived(s, t, st, n) ==
      \/ live'[s][t].stamp >= st
      \/ \E m \in 1 .. Len(wire'[d]) :
           /\ m < n
           /\ wire'[d][m].service = s /\ wire'[d][m].topic = t /\ wire'[d][m].stamp = st
<1>13. ASSUME NEW s \in Services, NEW t \in Topics, NEW st \in Nat, NEW n \in Nat,
              Ahead(s, t, st, d, n + 1)
       PROVE  Arrived(s, t, st, n)
  <2>1. CASE live[s][t].stamp >= st
    BY <1>7, <2>1
  <2>2. ASSUME NEW m \in 1 .. Len(wire[d]), m < n + 1, wire[d][m].service = s,
               wire[d][m].topic = t, wire[d][m].stamp = st
        PROVE  Arrived(s, t, st, n)
    <3>1. CASE m = 1
      <4>1. live'[s][t].stamp = st
        BY <1>6, <2>2, <3>1 DEF p
      <4>2. QED
        BY <4>1
    <3>2. CASE m # 1
      <4>1. m - 1 \in 1 .. Len(wire'[d]) /\ m - 1 < n /\ (m - 1) + 1 = m
        BY <1>1, <1>5, <2>2, <3>2
      <4>2. wire'[d][m - 1] = wire[d][m]
        BY <1>5, <4>1
      <4>3. QED
        BY <2>2, <4>1, <4>2
    <3>3. QED
      BY <3>1, <3>2
  <2>3. QED
    BY <1>13, <2>1, <2>2 DEF Ahead
<1>14. NoGap'
  <2> HIDE DEF Arrived
  <2>1. ASSUME NEW n \in 1 .. Len(wire'[d]), NEW t \in Topics, t < wire'[d][n].topic
        PROVE  Arrived(wire'[d][n].service, t, wire'[d][n].stamp, n)
    <3>1. n + 1 \in 1 .. Len(wire[d]) /\ wire'[d][n] = wire[d][n + 1]
      BY <1>5
    <3>2. Ahead(wire[d][n + 1].service, t, wire[d][n + 1].stamp, d, n + 1)
      BY <2>1, <3>1 DEF Backing, NoGap
    <3>3. Ahead(wire'[d][n].service, t, wire'[d][n].stamp, d, n + 1)
      BY <3>1, <3>2
    <3>4. n \in Nat
      BY <1>1, <1>5
    <3>5. QED
      BY <1>11, <1>13, <3>3, <3>4
  <2>2. ASSUME pc = "send", calls \notin broken, NEW t \in Topics, t < step
        PROVE  calls = d /\ Arrived(batch[check].service, t, base + check, Len(wire'[d]) + 1)
    <3>1. calls = d
      BY <1>1, <2>2 DEF Backing, OneWire
    <3>2. Ahead(batch[check].service, t, base + check, d, Len(wire[d]) + 1)
      BY <2>2, <3>1 DEF Backing, NoGap
    <3>3. batch[check].service \in Services /\ base + check \in Nat
      <4>1. check \in 1 .. Len(batch) /\ batch \in Seq(Check) /\ base \in Nat
        BY <2>2 DEF Backing, Position, TypeOK
      <4>2. batch[check] \in Check
        BY <4>1, ElementOfSeq
      <4>3. QED
        BY <4>1, <4>2 DEF Check
    <3>4. Len(wire[d]) \in Nat /\ (Len(wire[d]) - 1) + 1 = Len(wire[d])
      BY <1>1
    <3>5. Ahead(batch[check].service, t, base + check, d, (Len(wire'[d]) + 1) + 1)
          /\ Len(wire'[d]) + 1 \in Nat
      BY <1>5, <3>2, <3>4
    <3>6. QED
      BY <1>13, <3>1, <3>3, <3>5
  <2>3. \A c \in Connections : c # d => Len(wire'[c]) = 0
    BY <1>4
  <2>4. ASSUME NEW c \in Connections, NEW n \in 1 .. Len(wire'[c]), NEW t \in Topics,
               t < wire'[c][n].topic
        PROVE  Ahead(wire[c][n].service, t, wire[c][n].stamp, c, n)'
    <3>1. c = d
      BY <2>3, <2>4
    <3>2. Arrived(wire'[d][n].service, t, wire'[d][n].stamp, n)
      BY <2>1, <2>4, <3>1
    <3>3. QED
      BY <3>1, <3>2 DEF Ahead, Arrived
  <2>5. ASSUME pc = "send", calls \notin broken, NEW t \in Topics, t < step
        PROVE  Ahead(batch[check].service, t, base + check, calls, Len(wire[calls]) + 1)'
    BY <1>3, <2>2, <2>5 DEF Ahead, Arrived
  <2>6. QED
    BY <1>3, <2>4, <2>5 DEF NoGap
<1>15. Staircase'
  <2>1. SUFFICES ASSUME NEW s \in Services, NEW t \in Topics, NEW u \in Topics, t < u
                 PROVE  live'[s][t].stamp >= live'[s][u].stamp
    BY DEF Staircase
  <2>2. live[s][t].stamp >= live[s][u].stamp
    BY <2>1 DEF Backing, Staircase
  <2>3. CASE s = p.service /\ u = p.topic
    <3>1. Ahead(p.service, t, p.stamp, d, 1)
      BY <1>2, <2>1, <2>3 DEF Backing, NoGap, p
    <3>2. live[s][t].stamp >= p.stamp
      BY <1>1, <2>3, <3>1 DEF Ahead
    <3>3. QED
      BY <1>6, <1>7, <1>2, <2>3, <3>2
  <2>4. CASE ~ (s = p.service /\ u = p.topic)
    <3>1. live'[s][u].stamp = live[s][u].stamp
      BY <1>6, <2>4
    <3>2. QED
      BY <1>7, <2>2, <3>1
  <2>5. QED
    BY <2>3, <2>4
<1>16. QED
  BY <1>8, <1>9, <1>10, <1>12, <1>14, <1>15 DEF Backing

-----------------------------------------------------------------------------
\* A connection that is lost takes the end of the sequence with it.
LEMMA BreakBacks ==
  ASSUME TypeOK, Backing, NEW d \in Connections, Break(d)
  PROVE  Backing'
<1>1. /\ UNCHANGED <<pc, cfg, calls, batch, base, check, step, live>>
      /\ broken' = broken \cup {d}
      /\ wire'[d] = <<>>
      /\ \A c \in Connections : c # d => wire'[c] = wire[c]
  BY DEF Break, TypeOK
<1>2. Position' /\ FirstPacket' /\ Staircase'
  BY <1>1 DEF Backing, Position, FirstPacket, Staircase
<1>3. OneWire'
  BY <1>1 DEF Backing, OneWire
<1>4. \A n \in 1 .. Len(wire'[d]) : FALSE
  BY <1>1
<1>5. InOrder'
  BY <1>1, <1>4 DEF Backing, InOrder, NewestStamp, Before
<1>6. Newer'
  BY <1>1, <1>4 DEF Backing, Newer
<1>7. NoGap'
  <2>1. ASSUME NEW c \in Connections, NEW n \in 1 .. Len(wire'[c]), NEW t \in Topics,
               t < wire'[c][n].topic
        PROVE  Ahead(wire[c][n].service, t, wire[c][n].stamp, c, n)'
    <3>1. c # d
      BY <1>4, <2>1
    <3>2. Ahead(wire[c][n].service, t, wire[c][n].stamp, c, n)
      BY <1>1, <2>1, <3>1 DEF Backing, NoGap
    <3>3. QED
      BY <1>1, <3>1, <3>2 DEF Ahead
  <2>2. ASSUME pc = "send", calls \notin broken', NEW t \in Topics, t < step
        PROVE  Ahead(batch[check].service, t, base + check, calls, Len(wire[calls]) + 1)'
    <3>1. calls # d /\ calls \notin broken /\ calls \in Connections
      BY <1>1, <2>2 DEF Backing, Position
    <3>2. Ahead(batch[check].service, t, base + check, calls, Len(wire[calls]) + 1)
      BY <2>2, <3>1 DEF Backing, NoGap
    <3>3. QED
      BY <1>1, <3>1, <3>2 DEF Ahead
  <2>3. QED
    BY <1>1, <2>1, <2>2 DEF NoGap
<1>8. QED
  BY <1>2, <1>3, <1>5, <1>6, <1>7 DEF Backing

-----------------------------------------------------------------------------
\* Steps that leave connections and broker alone.
LEMMA OtherBacks ==
  ASSUME TypeOK, Backing, Position', UNCHANGED <<wire, broken, live>>,
         \/ \E cs \in Batches : Publish(cs)
         \/ ~ Overlap /\ DialSucceeds
         \/ ConnackAccepts
         \/ PublishNothing \/ DialFails \/ ConnackRejects \/ ConnackTimesOut \/ WriteFails
         \/ Cancel \/ Stop \/ Restart
         \/ UNCHANGED vars
  PROVE  Backing'
<1>1. base \in Nat /\ Len(batch) \in Nat /\ check \in Nat
      /\ (pc \in {"dial", "connect", "send"} => check \in 1 .. Len(batch))
  BY DEF TypeOK, Backing, Position
<1>2. FirstPacket'
  BY DEF Backing, FirstPacket, Publish, DialSucceeds, ConnackAccepts, PublishNothing, DialFails,
         ConnackRejects, ConnackTimesOut, WriteFails, Return, Cancel, Stop, Restart, vars
<1>3. NewestStamp <= NewestStamp' /\ NewestStamp \in Nat /\ NewestStamp' \in Nat
  <2>1. CASE \E cs \in Batches : Publish(cs)
    BY <1>1, <2>1 DEF NewestStamp, Publish, TypeOK
  <2>2. CASE ~ Overlap /\ DialSucceeds
    BY <1>1, <2>2 DEF NewestStamp, DialSucceeds
  <2>3. CASE ConnackAccepts
    BY <1>1, <2>3 DEF NewestStamp, ConnackAccepts
  <2>4. CASE PublishNothing \/ Cancel \/ UNCHANGED vars
    BY <1>1, <2>4 DEF NewestStamp, PublishNothing, Cancel, vars
  <2>5. CASE DialFails \/ ConnackRejects \/ ConnackTimesOut \/ WriteFails
    BY <1>1, <2>5 DEF NewestStamp, DialFails, ConnackRejects, ConnackTimesOut, WriteFails, Return
  <2>6. CASE Stop \/ Restart
    BY <1>1, <2>6 DEF NewestStamp, Stop, Restart
  <2>7. QED
    BY <2>1, <2>2, <2>3, <2>4, <2>5, <2>6
<1>4. pc' = "send" =>
        \/ pc = "send" /\ UNCHANGED <<calls, batch, base, check, step>>
        \/ step' = 1 /\ \A c \in Connections : wire[c] = <<>>
  BY DEF Backing, OneWire, FirstPacket, Publish, DialSucceeds, ConnackAccepts, PublishNothing, DialFails,
         ConnackRejects, ConnackTimesOut, WriteFails, Return, Cancel, Stop, Restart, vars
<1>5. OneWire'
  <2>1. pc' = "connect" => \A c \in Connections : wire[c] = <<>>
    BY DEF Backing, OneWire, Publish, DialSucceeds, ConnackAccepts, PublishNothing, DialFails,
           ConnackRejects, ConnackTimesOut, WriteFails, Return, Cancel, Stop, Restart, vars
  <2>2. QED
    BY <1>4, <2>1 DEF Backing, OneWire
<1>6. InOrder'
  <2>1. ASSUME NEW s \in Services, NEW t \in Topics
        PROVE  live'[s][t].stamp <= NewestStamp'
    <3>1. live[s][t].stamp <= NewestStamp /\ live[s][t].stamp \in Nat
      BY LiveTyped DEF Backing, InOrder
    <3>2. QED
      BY <1>3, <3>1
  <2>2. ASSUME NEW c \in Connections, NEW n \in 1 .. Len(wire'[c])
        PROVE  /\ wire'[c][n].stamp <= NewestStamp'
               /\ \A m \in 1 .. Len(wire'[c]) :
                    m < n => Before(wire'[c][m], wire'[c][n].stamp, wire'[c][n].topic)
               /\ pc' = "send" => Before(wire'[c][n], base' + check', step')
    <3>1. wire'[c] = wire[c] /\ n \in 1 .. Len(wire[c])
      OBVIOUS
    <3>2. wire[c][n].stamp <= NewestStamp /\ wire[c][n].stamp \in Nat
      BY <3>1, WireTyped DEF Backing, InOrder
    <3>3. wire'[c][n].stamp <= NewestStamp'
      BY <1>3, <3>1, <3>2
    <3>4. \A m \in 1 .. Len(wire[c]) :
            m < n => Before(wire[c][m], wire[c][n].stamp, wire[c][n].topic)
      BY <3>1 DEF Backing, InOrder
    <3>5. pc' = "send" => Before(wire[c][n], base' + check', step')
      <4>1. wire[c] # <<>>
        BY <3>1
      <4>2. QED
        BY <1>4, <3>1, <4>1 DEF Backing, InOrder
    <3>6. QED
      BY <3>1, <3>3, <3>4, <3>5
  <2>3. QED
    BY <2>1, <2>2 DEF InOrder, Before
<1>7. Newer'
  BY DEF Backing, Newer
<1>8. NoGap'
  <2>1. \A c \in Connections : \A n \in 1 .. Len(wire[c]) : \A t \in Topics :
          t < wire[c][n].topic => Ahead(wire[c][n].service, t, wire[c][n].stamp, c, n)'
    BY DEF Backing, NoGap, Ahead
  <2>2. ASSUME pc' = "send", calls' \notin broken', NEW t \in Topics, t < step'
        PROVE  Ahead(batch[check].service, t, base + check, calls, Len(wire[calls]) + 1)'
    <3>1. pc = "send" /\ UNCHANGED <<calls, batch, base, check, step>>
      BY <1>4, <2>2, TopicsOrdered
    <3>2. Ahead(batch[check].service, t, base + check, calls, Len(wire[calls]) + 1)
      BY <2>2, <3>1 DEF Backing, NoGap
    <3>3. QED
      BY <3>1, <3>2 DEF Ahead
  <2>3. QED
    BY <2>1, <2>2 DEF NoGap
<1>9. Staircase'
  BY DEF Backing, Staircase
<1>10. QED
  BY <1>2, <1>5, <1>6, <1>7, <1>8, <1>9 DEF Backing

-----------------------------------------------------------------------------
\* The packet that is written comes after everything under way.
LEMMA WriteBacks ==
  ASSUME TypeOK, Backing, Position', WritePacket
  PROVE  Backing'
<1> DEFINE p == PacketAt(check, step)
           len == Len(wire[calls])
<1>1. /\ pc = "send" /\ calls \in Connections /\ check \in 1 .. Len(batch)
      /\ step \in 1 .. Len(Sequence(cfg)) /\ step \in 1 .. 10
      /\ base \in Nat /\ check \in Nat /\ Len(batch) \in Nat /\ base + check \in Nat
  BY DEF WritePacket, Backing, Position, TypeOK
<1>2. /\ p.service = batch[check].service /\ p.topic = step /\ p.stamp = base + check
      /\ p \in Packet
  BY <1>1, PacketProperties
<1>3. p.service \in Services /\ p.topic \in Topics /\ p.stamp \in Nat
  BY <1>2 DEF Packet
<1> HIDE DEF p
<1>4. /\ UNCHANGED <<cfg, calls, batch, base, broken, live>>
      /\ len \in Nat
      /\ \A c \in Connections : c # calls => wire[c] = <<>> /\ wire'[c] = <<>>
  <2>1. \A c \in Connections : c # calls => wire[c] = <<>>
    BY <1>1 DEF Backing, OneWire
  <2>2. wire \in [Connections -> Seq(Packet)]
    BY DEF TypeOK
  <2>3. len \in Nat
    BY <1>1, WireTyped
  <2>4. QED
    BY <2>1, <2>2, <2>3 DEF WritePacket
<1>5. calls \in broken => wire' = wire
  BY DEF WritePacket
<1>6. calls \notin broken =>
        /\ Len(wire'[calls]) = len + 1
        /\ wire'[calls][len + 1] = p
        /\ \A n \in 1 .. len : wire'[calls][n] = wire[calls][n]
  <2>1. wire[calls] \in Seq(Packet)
    BY <1>1, WireTyped
  <2>2. calls \notin broken => wire'[calls] = Append(wire[calls], p)
    BY <1>1 DEF WritePacket, TypeOK, p
  <2>3. QED
    BY <1>2, <2>1, <2>2, AppendProperties
<1> HIDE DEF len
<1>7. \/ pc' = "send" /\ check' = check /\ step' = step + 1
      \/ pc' = "send" /\ check' = check + 1 /\ step' = 1
      \/ pc' = "idle"
  BY <1>1 DEF WritePacket, Advance
<1>8. /\ NewestStamp = base + check /\ NewestStamp' \in Nat /\ NewestStamp <= NewestStamp'
  BY <1>1, <1>4, <1>7 DEF NewestStamp
<1>9. Position' /\ FirstPacket'
  BY <1>7 DEF FirstPacket
<1>10. OneWire'
  <2>1. pc' # "connect"
    BY <1>7
  <2>2. QED
    BY <1>4, <2>1 DEF OneWire
\* What is on the connection afterwards is what was there, or the new packet.
<1>11. ASSUME NEW n \in 1 .. Len(wire'[calls])
       PROVE  \/ n \in 1 .. len /\ wire'[calls][n] = wire[calls][n]
              \/ n = len + 1 /\ wire'[calls][n] = p /\ calls \notin broken
  BY <1>4, <1>5, <1>6 DEF len
<1>12. ASSUME NEW n \in 1 .. len
       PROVE  /\ n \in 1 .. Len(wire'[calls]) /\ n \in 1 .. Len(wire[calls])
              /\ wire'[calls][n] = wire[calls][n]
  BY <1>4, <1>5, <1>6 DEF len
<1>13. ASSUME NEW n \in 1 .. len
       PROVE  /\ wire[calls][n].service \in Services /\ wire[calls][n].topic \in Topics
              /\ wire[calls][n].stamp \in Nat /\ wire[calls][n].topic \in Nat
              /\ wire[calls][n].stamp <= base + check
              /\ Before(wire[calls][n], base + check, step)
  <2>1. n \in 1 .. Len(wire[calls])
    BY <1>12
  <2>2. /\ wire[calls][n].service \in Services /\ wire[calls][n].topic \in Topics
        /\ wire[calls][n].stamp \in Nat
    BY <1>1, <2>1, WireTyped
  <2>3. wire[calls][n].topic \in Nat
    BY <2>2, TopicsOrdered
  <2>4. QED
    BY <1>1, <1>8, <2>1, <2>2, <2>3 DEF Backing, InOrder
<1>14. InOrder'
  <2>1. ASSUME NEW s \in Services, NEW t \in Topics
        PROVE  live'[s][t].stamp <= NewestStamp'
    <3>1. live[s][t].stamp <= NewestStamp /\ live[s][t].stamp \in Nat
      BY LiveTyped DEF Backing, InOrder
    <3>2. QED
      BY <1>1, <1>4, <1>8, <3>1
  <2>2. ASSUME NEW n \in 1 .. Len(wire'[calls])
        PROVE  /\ wire'[calls][n].stamp <= NewestStamp'
               /\ \A m \in 1 .. Len(wire'[calls]) :
                    m < n => Before(wire'[calls][m], wire'[calls][n].stamp, wire'[calls][n].topic)
               /\ pc' = "send" => Before(wire'[calls][n], base' + check', step')
    <3>1. wire'[calls][n].stamp <= NewestStamp'
      <4>1. CASE n \in 1 .. len /\ wire'[calls][n] = wire[calls][n]
        <5>1. wire[calls][n].stamp \in Nat /\ wire[calls][n].stamp <= base + check
          BY <1>13, <4>1
        <5>2. QED
          BY <1>1, <1>8, <4>1, <5>1
      <4>2. CASE wire'[calls][n] = p
        BY <1>1, <1>2, <1>8, <4>2
      <4>3. QED
        BY <1>11, <4>1, <4>2
    <3>2. ASSUME NEW m \in 1 .. Len(wire'[calls]), m < n
          PROVE  Before(wire'[calls][m], wire'[calls][n].stamp, wire'[calls][n].topic)
      <4>1. m \in 1 .. len /\ wire'[calls][m] = wire[calls][m]
        BY <1>4, <1>11, <3>2
      <4>2. CASE n \in 1 .. len /\ wire'[calls][n] = wire[calls][n]
        <5>1. n \in 1 .. Len(wire[calls]) /\ m \in 1 .. Len(wire[calls])
          BY <1>12, <4>1, <4>2
        <5>2. Before(wire[calls][m], wire[calls][n].stamp, wire[calls][n].topic)
          BY <1>1, <3>2, <5>1 DEF Backing, InOrder
        <5>3. QED
          BY <4>1, <4>2, <5>2
      <4>3. CASE wire'[calls][n] = p
        BY <1>2, <1>13, <4>1, <4>3
      <4>4. QED
        BY <1>11, <4>2, <4>3
    <3>3. pc' = "send" => Before(wire'[calls][n], base' + check', step')
      <4>1. CASE n \in 1 .. len /\ wire'[calls][n] = wire[calls][n]
        <5> DEFINE q == wire[calls][n]
        <5>1. q.stamp \in Nat /\ q.topic \in Nat /\ Before(q, base + check, step)
          BY <1>13, <4>1
        <5> HIDE DEF q
        <5>2. pc' = "send" => Before(q, base' + check', step')
          BY <1>1, <1>4, <1>7, <5>1 DEF Before
        <5>3. QED
          BY <4>1, <5>2 DEF q
      <4>2. CASE wire'[calls][n] = p
        BY <1>1, <1>2, <1>4, <1>7, <4>2 DEF Before
      <4>3. QED
        BY <1>11, <4>1, <4>2
    <3>4. QED
      BY <3>1, <3>2, <3>3
  <2>3. \A c \in Connections : c # calls => Len(wire'[c]) = 0
    BY <1>4
  <2>4. QED
    BY <2>1, <2>2, <2>3 DEF InOrder, Before
<1>15. Newer'
  <2>1. ASSUME NEW n \in 1 .. Len(wire'[calls]), NEW t \in Topics
        PROVE  live'[wire'[calls][n].service][t].stamp <= wire'[calls][n].stamp
    <3>1. CASE n \in 1 .. len /\ wire'[calls][n] = wire[calls][n]
      BY <1>1, <1>4, <1>12, <3>1 DEF Backing, Newer
    <3>2. CASE wire'[calls][n] = p
      BY <1>2, <1>3, <1>4, <1>8, <3>2 DEF Backing, InOrder
    <3>3. QED
      BY <1>11, <3>1, <3>2
  <2>2. \A c \in Connections : c # calls => Len(wire'[c]) = 0
    BY <1>4
  <2>3. QED
    BY <2>1, <2>2 DEF Newer
<1> DEFINE OnItsWay(s, t, st, n) ==
      \/ live[s][t].stamp >= st
      \/ \E m \in 1 .. Len(wire'[calls]) :
           /\ m < n
           /\ wire'[calls][m].service = s /\ wire'[calls][m].topic = t
           /\ wire'[calls][m].stamp = st
<1>16. ASSUME NEW s, NEW t, NEW st, NEW n \in Nat, NEW k \in Nat, n <= k,
              Ahead(s, t, st, calls, n)
       PROVE  OnItsWay(s, t, st, k)
  <2>1. CASE live[s][t].stamp >= st
    BY <2>1
  <2>2. ASSUME NEW m \in 1 .. Len(wire[calls]), m < n, wire[calls][m].service = s,
               wire[calls][m].topic = t, wire[calls][m].stamp = st
        PROVE  OnItsWay(s, t, st, k)
    <3>1. m \in 1 .. len /\ m < k
      BY <1>4, <1>16, <2>2 DEF len
    <3>2. m \in 1 .. Len(wire'[calls]) /\ wire'[calls][m] = wire[calls][m]
      BY <1>12, <3>1
    <3>3. QED
      BY <2>2, <3>1, <3>2
  <2>3. QED
    BY <1>16, <2>1, <2>2 DEF Ahead
\* Everything written for this check before the new packet arrives before it.
<1>17. ASSUME calls \notin broken, NEW t \in Topics, t < step, NEW k \in Nat, len + 1 <= k
       PROVE  OnItsWay(p.service, t, p.stamp, k)
  <2>1. Ahead(batch[check].service, t, base + check, calls, len + 1)
    BY <1>1, <1>17 DEF Backing, NoGap, len
  <2>2. len + 1 \in Nat
    BY <1>4
  <2>3. QED
    BY <1>2, <1>16, <1>17, <2>1, <2>2
<1>18. NoGap'
  <2>1. ASSUME NEW n \in 1 .. Len(wire'[calls]), NEW t \in Topics, t < wire'[calls][n].topic
        PROVE  OnItsWay(wire'[calls][n].service, t, wire'[calls][n].stamp, n)
    <3>1. CASE n \in 1 .. len /\ wire'[calls][n] = wire[calls][n]
      <4>1. n \in 1 .. Len(wire[calls]) /\ n \in Nat /\ n <= n
        BY <1>12, <3>1
      <4>2. Ahead(wire[calls][n].service, t, wire[calls][n].stamp, calls, n)
        BY <1>1, <2>1, <3>1, <4>1 DEF Backing, NoGap
      <4>3. QED
        BY <1>16, <3>1, <4>1, <4>2
    <3>2. CASE n = len + 1 /\ wire'[calls][n] = p /\ calls \notin broken
      <4>1. t < step /\ len + 1 \in Nat /\ len + 1 <= len + 1
        BY <1>2, <1>4, <2>1, <3>2
      <4>2. QED
        BY <1>17, <3>2, <4>1
    <3>3. QED
      BY <1>11, <3>1, <3>2
  <2>2. ASSUME pc' = "send", calls \notin broken, NEW t \in Topics, t < step'
        PROVE  OnItsWay(batch[check'].service, t, base + check', Len(wire'[calls]) + 1)
    <3>1. check' = check /\ step' = step + 1
      BY <1>7, <2>2, TopicsOrdered
    <3>2. Len(wire'[calls]) = len + 1 /\ len + 1 \in 1 .. Len(wire'[calls])
          /\ len + 2 \in Nat /\ len + 1 < len + 2 /\ len + 1 <= len + 2
          /\ (len + 1) + 1 = len + 2
      BY <1>4, <1>6, <2>2
    <3>3. t < step \/ t = step
      BY <1>1, <2>2, <3>1, TopicsOrdered
    <3>4. OnItsWay(p.service, t, p.stamp, len + 2)
      <4>1. CASE t < step
        BY <1>17, <2>2, <3>2, <4>1
      <4>2. CASE t = step
        <5>1. wire'[calls][len + 1] = p /\ p.topic = t
          BY <1>2, <1>6, <2>2, <4>2
        <5>2. QED
          BY <3>2, <5>1
      <4>3. QED
        BY <3>3, <4>1, <4>2
    <3> HIDE DEF OnItsWay
    <3>5. QED
      BY <1>2, <3>1, <3>2, <3>4
  <2>3. \A c \in Connections : c # calls => Len(wire'[c]) = 0
    BY <1>4
  <2>4. ASSUME NEW c \in Connections, NEW n \in 1 .. Len(wire'[c]), NEW t \in Topics,
               t < wire'[c][n].topic
        PROVE  Ahead(wire[c][n].service, t, wire[c][n].stamp, c, n)'
    <3>1. c = calls
      BY <2>3, <2>4
    <3>2. OnItsWay(wire'[calls][n].service, t, wire'[calls][n].stamp, n)
      BY <2>1, <2>4, <3>1
    <3>3. QED
      BY <1>4, <3>1, <3>2 DEF Ahead
  <2>5. ASSUME pc' = "send", calls' \notin broken', NEW t \in Topics, t < step'
        PROVE  Ahead(batch[check].service, t, base + check, calls, Len(wire[calls]) + 1)'
    <3>1. OnItsWay(batch[check'].service, t, base + check', Len(wire'[calls]) + 1)
      BY <1>4, <2>2, <2>5
    <3>2. QED
      BY <1>4, <3>1 DEF Ahead
  <2>6. QED
    BY <2>4, <2>5 DEF NoGap
<1>19. Staircase'
  BY <1>4 DEF Backing, Staircase
<1>20. QED
  BY <1>9, <1>10, <1>14, <1>15, <1>18, <1>19 DEF Backing

-----------------------------------------------------------------------------
\* The induction step: whatever happens, what the broker has stays in order.
LEMMA BackingStep ==
  ASSUME ~ Overlap, TypeOK, Backing, [Next]_vars
  PROVE  TypeOK' /\ Backing'
<1>1. TypeOK' /\ Position'
  BY TypeStep DEF Backing
<1>2. CASE WritePacket
  BY <1>1, <1>2, WriteBacks
<1>3. CASE \E c \in Connections : Deliver(c)
  BY <1>1, <1>3, DeliverBacks
<1>4. CASE \E c \in Connections : Break(c)
  BY <1>1, <1>4, BreakBacks
<1>5. CASE \/ \E cs \in Batches : Publish(cs)
           \/ DialSucceeds \/ ConnackAccepts
           \/ PublishNothing \/ DialFails \/ ConnackRejects \/ ConnackTimesOut \/ WriteFails
           \/ Cancel \/ Stop \/ Restart
           \/ UNCHANGED vars
  <2>1. UNCHANGED <<wire, broken, live>>
    BY <1>5 DEF Publish, DialSucceeds, ConnackAccepts, PublishNothing, DialFails,
                ConnackRejects, ConnackTimesOut, WriteFails, Cancel, Stop, Restart, network, vars
  <2>2. QED
    BY <1>1, <1>5, <2>1, OtherBacks
<1>6. QED
  BY <1>2, <1>3, <1>4, <1>5 DEF Next

\* While every connection is drained before the next one is dialled, Backing
\* holds at every point of every run, however calls end (Publish,
\* publisher.go:151-178).
THEOREM BackingInvariant == ASSUME ~ Overlap PROVE Spec => [](TypeOK /\ Backing)
<1>1. Init => TypeOK /\ Backing
  BY TypeInit, BackingInit
<1>2. TypeOK /\ Backing /\ [Next]_vars => (TypeOK /\ Backing)'
  BY BackingStep
<1>3. QED
  BY <1>1, <1>2, PTL DEF Spec

\* Then a check_status on the broker is always backed by fields at least as
\* new, and a discovery topic never runs ahead of a field (Publish,
\* publisher.go:163-175).
THEOREM VerdictAlwaysBacked == ASSUME ~ Overlap PROVE Spec => []VerdictIsBacked
<1>1. Spec => [](TypeOK /\ Backing)
  BY BackingInvariant
<1>2. TypeOK /\ Backing => VerdictIsBacked
  BY StaircaseBacks DEF Backing
<1>3. QED
  BY <1>1, <1>2, PTL

\* Then the broker never goes back to an older check on any topic (Publish,
\* publisher.go:151-178).
THEOREM NeverOldNews == ASSUME ~ Overlap PROVE Spec => NoOldNews
<1> DEFINE Grows == \A s \in Services, t \in Topics : live'[s][t].stamp >= live[s][t].stamp
<1>1. Spec => [](TypeOK /\ Backing)
  BY BackingInvariant
<1>2. TypeOK /\ Backing /\ [Next]_vars => [Grows]_vars
  <2> SUFFICES ASSUME TypeOK, Backing, [Next]_vars PROVE Grows
    OBVIOUS
  <2>1. \A s \in Services, t \in Topics : live[s][t].stamp \in Nat
    BY LiveTyped
  <2>2. ASSUME NEW d \in Connections, Deliver(d)
        PROVE  Grows
    <3> DEFINE p == wire[d][1]
    <3>1. wire[d] \in Seq(Packet) /\ wire[d] # <<>>
      BY <2>2, WireTyped DEF Deliver
    <3>2. Head(wire[d]) = p /\ 1 \in 1 .. Len(wire[d])
      BY <3>1
    <3>3. p.service \in Services /\ p.topic \in Topics /\ p.stamp \in Nat
      BY <3>2, WireTyped
    <3>4. live' = [live EXCEPT ![p.service][p.topic] = [stamp |-> p.stamp, empty |-> p.empty]]
      BY <2>2, <3>2 DEF Deliver
    <3>5. \A t \in Topics : live[p.service][t].stamp <= p.stamp
      BY <3>2 DEF Backing, Newer
    <3> HIDE DEF p
    <3>6. QED
      BY <2>1, <3>3, <3>4, <3>5 DEF TypeOK
  <2>3. CASE UNCHANGED live
    BY <2>1, <2>3
  <2>4. QED
    BY <2>2, <2>3 DEF Next, Publish, DialSucceeds, ConnackAccepts, PublishNothing, DialFails,
         ConnackRejects, ConnackTimesOut, WriteFails, WritePacket, Break, Cancel, Stop, Restart,
         network, vars
<1>3. QED
  BY <1>1, <1>2, PTL DEF Spec, NoOldNews

\* Then the broker is a board: every delivery shows one topic of one service a
\* check that all topics before it have (Publish, publisher.go:151-178).
THEOREM BoardImplemented == ASSUME ~ Overlap PROVE Spec => ImplementsBoard
<1> DEFINE shown == [s \in Services |-> [t \in Topics |-> live[s][t].stamp]]
<1>1. Spec => [](TypeOK /\ Backing)
  BY BackingInvariant
<1>2. Init => Shown!Init
  BY DEF Init, Shown!Init
<1>3. TypeOK /\ Backing /\ [Next]_vars => [Shown!Next]_shown
  <2> SUFFICES ASSUME TypeOK, Backing, [Next]_vars PROVE Shown!Next \/ UNCHANGED shown
    OBVIOUS
  <2>1. \A s \in Services, t \in Topics : live[s][t].stamp \in Nat
    BY LiveTyped
  <2>2. ASSUME NEW d \in Connections, Deliver(d)
        PROVE  Shown!Next \/ UNCHANGED shown
    <3> DEFINE p == wire[d][1]
    <3>1. wire[d] \in Seq(Packet) /\ wire[d] # <<>>
      BY <2>2, WireTyped DEF Deliver
    <3>2. Head(wire[d]) = p /\ 1 \in 1 .. Len(wire[d])
      BY <3>1
    <3>3. p.service \in Services /\ p.topic \in Topics /\ p.stamp \in Nat
      BY <3>2, WireTyped
    <3>4. live' = [live EXCEPT ![p.service][p.topic] = [stamp |-> p.stamp, empty |-> p.empty]]
      BY <2>2, <3>2 DEF Deliver
    <3>5. live[p.service][p.topic].stamp <= p.stamp
      BY <3>2, <3>3 DEF Backing, Newer
    <3>6. ASSUME NEW u \in Topics, u < p.topic
          PROVE  live[p.service][u].stamp >= p.stamp
      <4>1. Ahead(p.service, u, p.stamp, d, 1)
        BY <3>2, <3>6 DEF Backing, NoGap
      <4>2. ~ \E m \in 1 .. Len(wire[d]) : m < 1
        OBVIOUS
      <4>3. QED
        BY <4>1, <4>2 DEF Ahead
    <3> HIDE DEF p
    <3>7. PICK s \in Services, t \in Topics, n \in Nat :
            s = p.service /\ t = p.topic /\ n = p.stamp
      BY <3>3
    <3>8. shown' = [shown EXCEPT ![s][t] = n] /\ shown'[s][t] = n
      <4>1. live \in [Services -> [Topics -> [stamp : Nat, empty : BOOLEAN]]]
        BY DEF TypeOK
      <4>2. QED
        BY <3>4, <3>7, <4>1
    <3>9. CASE live[s][t].stamp = n
      <4>1. shown[s][t] = n /\ shown \in [Services -> [Topics -> Nat]]
        BY <2>1, <3>9
      <4> HIDE DEF shown
      <4>2. shown' = shown
        BY <3>8, <4>1
      <4>3. QED
        BY <4>2 DEF shown
    <3>10. CASE live[s][t].stamp < n
      <4>1. Shown!Show(s, t)
        BY <3>6, <3>7, <3>8, <3>10 DEF Shown!Show
      <4>2. QED
        BY <4>1 DEF Shown!Next
    <3>11. QED
      BY <2>1, <3>5, <3>7, <3>9, <3>10
  <2>3. CASE UNCHANGED live
    BY <2>3
  <2>4. QED
    BY <2>2, <2>3 DEF Next, Publish, DialSucceeds, ConnackAccepts, PublishNothing, DialFails,
         ConnackRejects, ConnackTimesOut, WriteFails, WritePacket, Break, Cancel, Stop, Restart,
         network, vars
<1>4. QED
  BY <1>1, <1>2, <1>3, PTL DEF Spec, ImplementsBoard, Shown!Spec
-----------------------------------------------------------------------------
\* A packet says blank exactly when the check leaves its topic blank.
LEMMA PacketContent ==
  ASSUME TypeOK, NEW i \in 1 .. Len(batch), NEW k \in 1 .. Len(Sequence(cfg))
  PROVE  PacketAt(i, k).empty = (k \in batch[i].empty)
<1>1. cfg \in Config /\ batch[i] \in Check
  BY ElementOfSeq DEF TypeOK
<1>2. Sequence(cfg)[k] = k
  BY <1>1, SequenceProperties
<1>3. batch[i].empty \subseteq FieldTopics
  BY <1>1 DEF Check, OptionalFields, FieldTopics, artifact_name, current_version,
              latest_version, latest_version_url
<1>4. CASE k \in FieldTopics /\ k \in batch[i].empty
  BY <1>2, <1>4 DEF PacketAt, publishField, clearRetained
<1>5. CASE k \in FieldTopics /\ k \notin batch[i].empty
  <2>1. PacketAt(i, k).empty = FALSE
    BY <1>2, <1>5 DEF PacketAt, publishField
  <2>2. (k \in batch[i].empty) = FALSE
    BY <1>5, SMT
  <2>3. QED
    BY <2>1, <2>2, Zenon
<1>6. CASE k \notin FieldTopics
  <2>1. PacketAt(i, k).empty = FALSE
    BY <1>2, <1>6 DEF PacketAt, publishDiscovery
  <2>2. (k \in batch[i].empty) = FALSE
    BY <1>3, <1>6, SMT
  <2>3. QED
    BY <2>1, <2>2, Zenon
<1>7. QED
  BY <1>4, <1>5, <1>6

\* A call that wrote all of a batch, with nothing under way, is shown whole.
LEMMA DeliveryIsWhole == ASSUME TypeOK, Delivery PROVE SuccessIsWhole
<1> SUFFICES ASSUME pc = "idle", result = "ok", calls > 0, calls \notin broken,
                    \A c \in Connections : wire[c] = <<>>,
                    NEW i \in DOMAIN batch,
                    \A j \in DOMAIN batch : j > i => batch[j].service # batch[i].service,
                    NEW t \in FieldTopics \cup (IF cfg.ha THEN DiscoveryTopics ELSE {})
             PROVE  live[batch[i].service][t] =
                      [stamp |-> base + i, empty |-> t \in batch[i].empty]
  BY DEF SuccessIsWhole
<1>1. DOMAIN batch = 1 .. Len(batch)
  BY DEF TypeOK
<1>2. t \in 1 .. Len(Sequence(cfg))
  <2> USE DEF Sequence, publishedFields, publishHomeAssistantDiscovery, artifact_name,
              current_version, latest_version, latest_version_url, observed_at, check_status
  <2>1. CASE cfg.ha
    BY <2>1 DEF FieldTopics, DiscoveryTopics
  <2>2. CASE ~ cfg.ha
    BY <2>2 DEF FieldTopics
  <2>3. QED
    BY <2>1, <2>2
<1>3. Arrives(i, t)
  BY <1>1, <1>2 DEF Delivery, NothingMissing, InCall, IsLastOfService, Written
<1>4. calls \in Connections
  BY DEF TypeOK, Connections
<1>5. wire[calls] = <<>>
  BY <1>4
<1>6. QED
  BY <1>3, <1>5 DEF Arrives

-----------------------------------------------------------------------------
\* A delivery shows a packet of the call; it only replaces a value of its own
\* check or of an older one.
LEMMA DeliverDelivers ==
  ASSUME TypeOK, Backing, Delivery, NEW d \in Connections, Deliver(d)
  PROVE  Delivery'
<1> DEFINE p == wire[d][1]
<1>1. UNCHANGED <<pc, cfg, calls, batch, base, check, step, result, broken>>
  BY DEF Deliver
<1>2. wire[d] \in Seq(Packet) /\ wire[d] # <<>> /\ Len(wire[d]) \in Nat
  BY WireTyped DEF Deliver
<1>3. Head(wire[d]) = p /\ 1 \in 1 .. Len(wire[d])
  BY <1>2
<1>4. p.service \in Services /\ p.topic \in Topics /\ p.stamp \in Nat
  BY <1>3, WireTyped
<1>5. live' = [live EXCEPT ![p.service][p.topic] = [stamp |-> p.stamp, empty |-> p.empty]]
  BY <1>3 DEF Deliver
<1>6. wire' = [wire EXCEPT ![d] = Tail(@)]
  BY DEF Deliver
<1>7. InCall' = InCall
  BY <1>1 DEF InCall
<1>8. \A i, k : PacketAt(i, k)' = PacketAt(i, k)
  BY <1>1 DEF PacketAt, publishField, clearRetained, publishDiscovery
<1> SUFFICES ASSUME InCall PROVE Delivery'
  BY <1>7 DEF Delivery, OwnPackets, NothingMissing
<1>9. d = calls
  BY <1>2 DEF Delivery, OwnPackets
<1>10. /\ wire'[calls] = Tail(wire[calls])
       /\ \A n \in 1 .. Len(wire'[calls]) :
            n + 1 \in 1 .. Len(wire[calls]) /\ wire'[calls][n] = wire[calls][n + 1]
       /\ \A n \in 1 .. Len(wire[calls]) :
            n # 1 => n - 1 \in 1 .. Len(wire'[calls]) /\ wire'[calls][n - 1] = wire[calls][n]
  <2>1. wire'[calls] = Tail(wire[calls])
    BY <1>6, <1>9 DEF TypeOK
  <2>2. Len(Tail(wire[calls])) = Len(wire[calls]) - 1
        /\ \A n \in 1 .. Len(Tail(wire[calls])) : Tail(wire[calls])[n] = wire[calls][n + 1]
    BY <1>2, <1>9, HeadTailProperties
  <2>3. QED
    BY <1>2, <1>9, <2>1, <2>2
<1>11. OwnPackets'
  <2>1. \A c \in Connections : c # calls' => wire'[c] = <<>>
    BY <1>1, <1>6, <1>9 DEF Delivery, OwnPackets, TypeOK
  <2>2. ASSUME NEW n \in 1 .. Len(wire'[calls'])
        PROVE  \E i \in 1 .. Len(batch'), k \in 1 .. Len(Sequence(cfg')) :
                 wire'[calls'][n] = PacketAt(i, k)'
    <3>1. n + 1 \in 1 .. Len(wire[calls]) /\ wire'[calls][n] = wire[calls][n + 1]
      BY <1>1, <1>10, <2>2
    <3>2. \E i \in 1 .. Len(batch), k \in 1 .. Len(Sequence(cfg)) :
            wire[calls][n + 1] = PacketAt(i, k)
      BY <3>1 DEF Delivery, OwnPackets
    <3>3. QED
      BY <1>1, <1>8, <3>1, <3>2
  <2>3. QED
    BY <2>1, <2>2 DEF OwnPackets
<1>12. PICK j \in 1 .. Len(batch), l \in 1 .. Len(Sequence(cfg)) : p = PacketAt(j, l)
  BY <1>3, <1>9 DEF Delivery, OwnPackets
<1>13. /\ p.service = batch[j].service /\ p.topic = l /\ p.stamp = base + j
       /\ p.empty = (l \in batch[j].empty)
  BY <1>12, PacketProperties, PacketContent
<1>14. \A t \in Topics : live[p.service][t].stamp <= p.stamp
  BY <1>3 DEF Backing, Newer
<1> HIDE DEF p
<1>15. ASSUME calls \notin broken, NEW i \in 1 .. Len(batch), NEW k \in 1 .. Len(Sequence(cfg)),
              IsLastOfService(i), Written(i, k)
       PROVE  Arrives(i, k)'
  <2> DEFINE shown == [stamp |-> base + i, empty |-> k \in batch[i].empty]
  <2>1. base \in Nat /\ batch[i].service \in Services /\ k \in Topics
    <3>1. cfg \in Config /\ batch[i] \in Check /\ base \in Nat
      BY ElementOfSeq DEF TypeOK
    <3>2. k \in 1 .. 10
      <4> DEFINE last == Len(Sequence(cfg))
      <4>1. last \in 6 .. 10 /\ k \in 1 .. last
        BY <3>1, SequenceProperties
      <4> HIDE DEF last
      <4>2. QED
        BY <4>1
    <3>3. QED
      BY <3>1, <3>2, TopicsOrdered DEF Check
  <2>2. Arrives(i, k)' <=>
          \/ live'[batch[i].service][k] = shown
          \/ \E n \in 1 .. Len(wire'[calls]) : wire'[calls][n] = PacketAt(i, k)
    BY <1>1, <1>8 DEF Arrives
  <2>3. Arrives(i, k)
    BY <1>15 DEF Delivery, NothingMissing
  <2>4. ASSUME NEW n \in 1 .. Len(wire[calls]), wire[calls][n] = PacketAt(i, k), n # 1
        PROVE  Arrives(i, k)'
    BY <1>10, <2>2, <2>4
  <2>5. CASE p = PacketAt(i, k)
    <3>1. p.service = batch[i].service /\ p.topic = k /\ p.stamp = base + i
          /\ p.empty = (k \in batch[i].empty)
      BY <2>5, PacketProperties, PacketContent
    <3>2. live'[batch[i].service][k] = shown
      BY <1>4, <1>5, <3>1 DEF TypeOK
    <3>3. QED
      BY <2>2, <3>2
  <2>6. CASE live[batch[i].service][k] = shown
    <3>1. CASE p.service = batch[i].service /\ p.topic = k
      <4>1. base + i <= base + j
        BY <1>13, <1>14, <2>1, <2>6, <3>1
      <4>2. j <= i
        <5>1. ~ (j > i)
          BY <1>13, <1>15, <3>1 DEF IsLastOfService
        <5>2. Len(batch) \in Nat
          BY DEF TypeOK
        <5>3. QED
          BY <5>1, <5>2
      <4>3. p = PacketAt(i, k)
        BY <1>12, <1>13, <2>1, <3>1, <4>1, <4>2
      <4>4. QED
        BY <2>5, <4>3
    <3>2. CASE ~ (p.service = batch[i].service /\ p.topic = k)
      <4>1. live'[batch[i].service][k] = live[batch[i].service][k]
        BY <1>4, <1>5, <2>1, <3>2 DEF TypeOK
      <4>2. QED
        BY <2>2, <2>6, <4>1
    <3>3. QED
      BY <3>1, <3>2
  <2>7. QED
    BY <1>9, <2>3, <2>4, <2>5, <2>6 DEF Arrives, p
<1>16. NothingMissing'
  BY <1>1, <1>15 DEF NothingMissing, IsLastOfService, Written
<1>17. QED
  BY <1>11, <1>16 DEF Delivery

\* A write puts the next packet behind the others, or the connection is lost.
LEMMA WriteDelivers ==
  ASSUME TypeOK, Backing, Delivery, WritePacket
  PROVE  Delivery'
<1> DEFINE p == PacketAt(check, step)
<1>1. /\ pc = "send" /\ calls \in Connections /\ check \in 1 .. Len(batch)
      /\ step \in 1 .. Len(Sequence(cfg)) /\ InCall
  BY DEF WritePacket, Backing, Position, InCall
<1>2. UNCHANGED <<cfg, calls, batch, base, broken, live>>
  BY DEF WritePacket
<1>3. \A i, k : PacketAt(i, k)' = PacketAt(i, k)
  BY <1>2 DEF PacketAt, publishField, clearRetained, publishDiscovery
<1>4. wire[calls] \in Seq(Packet) /\ Len(wire[calls]) \in Nat
  BY <1>1, WireTyped
<1>5. /\ calls \in broken => wire' = wire
      /\ calls \notin broken =>
           /\ wire'[calls] = Append(wire[calls], p)
           /\ Len(wire'[calls]) = Len(wire[calls]) + 1
           /\ wire'[calls][Len(wire[calls]) + 1] = p
           /\ \A n \in 1 .. Len(wire[calls]) : wire'[calls][n] = wire[calls][n]
  <2>1. calls \notin broken => wire'[calls] = Append(wire[calls], p)
    BY <1>1 DEF WritePacket, TypeOK
  <2>2. calls \in broken => wire' = wire
    BY DEF WritePacket
  <2> HIDE DEF p
  <2>3. QED
    BY <1>4, <2>1, <2>2, AppendProperties
<1>6. OwnPackets'
  <2>1. \A c \in Connections : c # calls' => wire'[c] = <<>>
    BY <1>1, <1>2 DEF Delivery, OwnPackets, WritePacket, TypeOK
  <2>2. ASSUME NEW n \in 1 .. Len(wire'[calls'])
        PROVE  \E i \in 1 .. Len(batch'), k \in 1 .. Len(Sequence(cfg')) :
                 wire'[calls'][n] = PacketAt(i, k)'
    <3>1. \/ n \in 1 .. Len(wire[calls]) /\ wire'[calls][n] = wire[calls][n]
          \/ wire'[calls][n] = p
      <4> HIDE DEF p
      <4>1. QED
        BY <1>2, <1>4, <1>5, <2>2
    <3>2. \E i \in 1 .. Len(batch), k \in 1 .. Len(Sequence(cfg)) :
            wire'[calls][n] = PacketAt(i, k)
      BY <1>1, <3>1 DEF Delivery, OwnPackets
    <3>3. QED
      BY <1>2, <1>3, <3>2
  <2>3. QED
    BY <2>1, <2>2 DEF OwnPackets
<1>7. Len(Sequence(cfg)) \in Nat /\ Len(batch) \in Nat
  BY SequenceProperties DEF TypeOK
\* What is written afterwards was written before, or is the new packet.
<1>8. ASSUME NEW i \in 1 .. Len(batch), NEW k \in 1 .. Len(Sequence(cfg)), Written(i, k)'
      PROVE  Written(i, k) \/ (i = check /\ k = step)
  <2> DEFINE last == Len(Sequence(cfg))
  <2>1. last \in Nat /\ step \in 1 .. last /\ k \in 1 .. last
    BY <1>1, <1>7
  <2>2. CASE step < Len(Sequence(cfg))
    <3>1. pc' = "send" /\ check' = check /\ step' = step + 1
      BY <1>1, <2>2 DEF WritePacket, Advance
    <3>2. i < check \/ (i = check /\ k < step + 1)
      BY <1>8, <3>1 DEF Written
    <3> HIDE DEF last
    <3>3. QED
      BY <1>1, <2>1, <3>2 DEF Written
  <2>3. CASE ~ (step < last) /\ check < Len(batch)
    <3>1. pc' = "send" /\ check' = check + 1 /\ step' = 1
      BY <1>1, <2>3 DEF WritePacket, Advance
    <3>2. i < check + 1 \/ (i = check + 1 /\ k < 1)
      BY <1>8, <3>1 DEF Written
    <3> HIDE DEF last
    <3>3. QED
      BY <1>1, <1>7, <2>1, <2>3, <3>2 DEF Written
  <2>4. CASE ~ (step < last) /\ ~ (check < Len(batch))
    <3> HIDE DEF last
    <3>1. QED
      BY <1>1, <1>7, <2>1, <2>4 DEF Written
  <2>5. QED
    BY <2>2, <2>3, <2>4
<1>9. ASSUME calls \notin broken, NEW i \in 1 .. Len(batch), NEW k \in 1 .. Len(Sequence(cfg)),
             IsLastOfService(i), Written(i, k)'
      PROVE  Arrives(i, k)'
  <2>1. Arrives(i, k)' <=>
          \/ live[batch[i].service][k] = [stamp |-> base + i, empty |-> k \in batch[i].empty]
          \/ \E n \in 1 .. Len(wire'[calls]) : wire'[calls][n] = PacketAt(i, k)
    BY <1>2, <1>3 DEF Arrives
  <2>2. CASE Written(i, k)
    <3>1. Arrives(i, k)
      BY <1>1, <1>9, <2>2 DEF Delivery, NothingMissing
    <3>2. \A n \in 1 .. Len(wire[calls]) :
            n \in 1 .. Len(wire'[calls]) /\ wire'[calls][n] = wire[calls][n]
      <4> HIDE DEF p
      <4>1. QED
        BY <1>4, <1>5, <1>9
    <3>3. QED
      BY <2>1, <3>1, <3>2 DEF Arrives
  <2>3. CASE i = check /\ k = step
    <3>1. Len(wire[calls]) + 1 \in 1 .. Len(wire'[calls])
      <4> HIDE DEF p
      <4>1. QED
        BY <1>4, <1>5, <1>9
    <3>2. QED
      BY <1>5, <1>9, <2>1, <2>3, <3>1
  <2>4. QED
    BY <1>8, <1>9, <2>2, <2>3
<1>10. NothingMissing'
  BY <1>2, <1>9 DEF NothingMissing, IsLastOfService
<1>11. QED
  BY <1>6, <1>10 DEF Delivery

\* A lost connection loses its packets, but is known as broken; the call that
\* is under way, or was the last, has no packets on another one.
LEMMA BreakDelivers ==
  ASSUME TypeOK, Backing, Delivery, NEW d \in Connections, Break(d)
  PROVE  Delivery'
<1>1. UNCHANGED <<pc, cfg, calls, batch, base, check, step, result, live>>
  BY DEF Break
<1>2. wire' = [wire EXCEPT ![d] = <<>>] /\ broken' = broken \cup {d}
  BY DEF Break
<1>3. InCall' = InCall
  BY <1>1 DEF InCall
<1> SUFFICES ASSUME InCall PROVE Delivery'
  BY <1>3 DEF Delivery, OwnPackets, NothingMissing
<1>4. d = calls
  BY DEF Break, Delivery, OwnPackets
<1>5. wire'[calls] = <<>> /\ \A c \in Connections : c # calls => wire'[c] = <<>>
  BY <1>2, <1>4 DEF Delivery, OwnPackets, TypeOK
<1>6. OwnPackets'
  BY <1>1, <1>5 DEF OwnPackets
<1>7. NothingMissing'
  BY <1>1, <1>2, <1>4 DEF NothingMissing
<1>8. QED
  BY <1>6, <1>7 DEF Delivery

\* Another step starts a call with nothing written and nothing under way, ends
\* one without success, or leaves the call alone.
LEMMA OtherDelivers ==
  ASSUME TypeOK, Backing, Delivery, UNCHANGED <<wire, broken, live>>,
         \/ \E cs \in Batches : Publish(cs)
         \/ DialSucceeds \/ ConnackAccepts
         \/ PublishNothing \/ DialFails \/ ConnackRejects \/ ConnackTimesOut \/ WriteFails
         \/ Cancel \/ Stop \/ Restart
         \/ UNCHANGED vars
  PROVE  Delivery'
<1>1. CASE InCall' /\ pc' = pc /\ UNCHANGED <<cfg, calls, batch, base, check, step, result>>
  <2>1. InCall
    BY <1>1 DEF InCall
  <2>2. \A i, k : PacketAt(i, k)' = PacketAt(i, k)
    BY <1>1 DEF PacketAt, publishField, clearRetained, publishDiscovery
  <2>3. \A i, k : Written(i, k)' = Written(i, k) /\ Arrives(i, k)' = Arrives(i, k)
    BY <1>1, <2>2 DEF Written, Arrives
  <2>4. OwnPackets'
    BY <1>1, <2>1, <2>2 DEF Delivery, OwnPackets
  <2>5. NothingMissing'
    BY <1>1, <2>1, <2>3 DEF Delivery, NothingMissing, IsLastOfService
  <2>6. QED
    BY <2>4, <2>5 DEF Delivery
<1>2. CASE ConnackAccepts
  <2>1. /\ \A c \in Connections : wire'[c] = <<>>
        /\ pc' = "send" /\ check' = 1 /\ step' = 1 /\ calls' \in Connections
    BY <1>2 DEF ConnackAccepts, Backing, OneWire, FirstPacket, Position
  <2>2. OwnPackets'
    BY <2>1 DEF OwnPackets
  <2>3. ASSUME NEW i \in Nat \ {0}, NEW k \in Nat \ {0}
        PROVE  ~ Written(i, k)'
    BY <2>1 DEF Written
  <2>4. NothingMissing'
    BY <2>3 DEF NothingMissing
  <2>5. QED
    BY <2>2, <2>4 DEF Delivery
<1>3. CASE ~ InCall'
  BY <1>3 DEF Delivery, OwnPackets, NothingMissing
<1>4. CASE \/ \E cs \in Batches : Publish(cs)
           \/ DialSucceeds \/ PublishNothing
           \/ DialFails \/ ConnackRejects \/ ConnackTimesOut \/ WriteFails
           \/ Stop \/ Restart
  <2>1. ~ InCall'
    BY <1>4 DEF InCall, Publish, DialSucceeds, PublishNothing, DialFails, ConnackRejects,
                ConnackTimesOut, WriteFails, Return, Stop, Restart
  <2>2. QED
    BY <1>3, <2>1
<1>5. CASE Cancel \/ UNCHANGED vars
  <2>1. pc' = pc /\ UNCHANGED <<cfg, calls, batch, base, check, step, result>>
    BY <1>5 DEF Cancel, vars
  <2>2. QED
    BY <1>1, <1>3, <2>1
<1>6. QED
  BY <1>2, <1>4, <1>5

\* The induction step of Delivery.
LEMMA DeliveryStep ==
  ASSUME TypeOK, Backing, Delivery, [Next]_vars
  PROVE  Delivery'
<1>1. CASE WritePacket
  BY <1>1, WriteDelivers
<1>2. CASE \E c \in Connections : Deliver(c)
  BY <1>2, DeliverDelivers
<1>3. CASE \E c \in Connections : Break(c)
  BY <1>3, BreakDelivers
<1>4. CASE \/ \E cs \in Batches : Publish(cs)
           \/ DialSucceeds \/ ConnackAccepts
           \/ PublishNothing \/ DialFails \/ ConnackRejects \/ ConnackTimesOut \/ WriteFails
           \/ Cancel \/ Stop \/ Restart
           \/ UNCHANGED vars
  <2>1. UNCHANGED <<wire, broken, live>>
    BY <1>4 DEF Publish, DialSucceeds, ConnackAccepts, PublishNothing, DialFails,
                ConnackRejects, ConnackTimesOut, WriteFails, Return, Cancel, Stop, Restart,
                network, vars
  <2>2. QED
    BY <1>4, <2>1, OtherDelivers
<1>5. QED
  BY <1>1, <1>2, <1>3, <1>4 DEF Next

\* Then a Publish that returned nil is complete: once its connection is drained
\* every topic of every service shows the service's last check, blank where the
\* check is blank, whatever older calls left behind (Publish, publisher.go:151-178).
THEOREM SuccessAlwaysWhole == ASSUME ~ Overlap PROVE Spec => []SuccessIsWhole
<1>1. Spec => [](TypeOK /\ Backing)
  BY BackingInvariant
<1>2. Init => Delivery
  BY DEF Init, Delivery, OwnPackets, NothingMissing, InCall
<1>3. TypeOK /\ Backing /\ Delivery /\ [Next]_vars => Delivery'
  BY DeliveryStep
<1>4. TypeOK /\ Delivery => SuccessIsWhole
  BY DeliveryIsWhole
<1>5. QED
  BY <1>1, <1>2, <1>3, <1>4, PTL DEF Spec

-----------------------------------------------------------------------------
(***************************************************************************)
(* The lengths in the packets the publisher writes (MqttFraming), for a    *)
(* packet of any length.                                                   *)
(***************************************************************************)
VARIABLES packet, phase, rest, digit, got, multiplier

Framing == INSTANCE MqttFraming WITH pc <- phase

\* What a digit of a length may be worth.
Weights == {1, 128, 16384, 2097152}

\* What the reader has is smaller than the weight of the next digit.
FrameBounded ==
  /\ got >= 0
  /\ phase \in {"write", "read"} => got < multiplier

FrameInv == Framing!TypeOK /\ Framing!Lockstep /\ FrameBounded /\ Framing!LengthArrives

-----------------------------------------------------------------------------
\* The length of a packet is a natural number.
LEMMA LengthIsNat == ASSUME NEW p \in Framing!Packet PROVE Framing!RemainingLength(p) \in Nat
BY DEF Framing!Packet, Framing!RemainingLength

\* A number is its low digit and 128 times the rest of it.
LEMMA Digits ==
  ASSUME NEW n \in Nat
  PROVE  /\ n % 128 \in 0 .. 127
         /\ n \div 128 \in Nat
         /\ n = (n % 128) + 128 * (n \div 128)
OBVIOUS

\* Init establishes the invariant.
LEMMA FrameInit == Framing!Init => FrameInv
<1> SUFFICES ASSUME Framing!Init PROVE FrameInv
  OBVIOUS
<1>1. Framing!RemainingLength(packet) \in Nat
  BY LengthIsNat DEF Framing!Init
<1>2. QED
  BY <1>1 DEF Framing!Init, FrameInv, Framing!TypeOK, Framing!Lockstep, FrameBounded, Framing!LengthArrives

\* A digit that goes out takes its value from the rest to itself.
LEMMA WriteKeeps == ASSUME FrameInv, Framing!WriteDigit PROVE FrameInv'
<1> DEFINE d == rest % 128
           r == rest \div 128
<1>1. d \in 0 .. 127 /\ r \in Nat /\ rest = d + 128 * r
  BY Digits DEF FrameInv, Framing!TypeOK
<1>2. digit' = d + (IF r > 0 THEN 128 ELSE 0) /\ rest' = r
  BY DEF Framing!WriteDigit
<1> HIDE DEF d, r
<1>3. digit' \in 0 .. 255 /\ digit' % 128 = d /\ (digit' >= 128 <=> r > 0)
  BY <1>1, <1>2
<1>4. phase = "write" /\ phase' = "read" /\ UNCHANGED <<packet, got, multiplier>>
  BY DEF Framing!WriteDigit
<1>5. Framing!TypeOK'
  BY <1>1, <1>2, <1>3, <1>4 DEF FrameInv, Framing!TypeOK
<1>6. Framing!RemainingLength(packet)' = got' + multiplier' * ((digit' % 128) + 128 * rest')
  BY <1>1, <1>2, <1>3, <1>4 DEF FrameInv, Framing!Lockstep, Framing!RemainingLength
<1>7. Framing!Lockstep'
  BY <1>2, <1>3, <1>4, <1>6 DEF Framing!Lockstep
<1>8. QED
  BY <1>4, <1>5, <1>7 DEF FrameInv, FrameBounded, Framing!LengthArrives

\* What a digit adds stays below the next weight, whatever the weight is.
LEMMA AddIsBounded ==
  ASSUME NEW m \in Weights, NEW g \in Nat, g < m, NEW d \in 0 .. 127
  PROVE  g + d * m \in Nat /\ g + d * m < m * 128
<1>1. CASE m = 1
  BY <1>1
<1>2. CASE m = 128
  BY <1>2
<1>3. CASE m = 16384
  BY <1>3
<1>4. CASE m = 2097152
  BY <1>4
<1>5. QED
  BY <1>1, <1>2, <1>3, <1>4 DEF Weights

\* A digit that is read moves its value to the reader; only a reader that
\* goes on needs the weight of the next one.
LEMMA ReadKeeps ==
  ASSUME FrameInv, Framing!ReadLast \/ Framing!ReadMore \/ Framing!ReadRefuses
  PROVE  FrameInv'
<1> DEFINE d == digit % 128
<1>1. digit \in 0 .. 255 /\ d \in 0 .. 127
  BY DEF FrameInv, Framing!TypeOK
<1>2. phase = "read" /\ got' = got + d * multiplier /\ UNCHANGED <<packet, rest, digit>>
  BY DEF Framing!ReadLast, Framing!ReadMore, Framing!ReadRefuses, Framing!Add
<1>3. /\ rest \in Nat /\ multiplier \in Weights /\ got \in Nat /\ got < multiplier
      /\ Framing!RemainingLength(packet) = got + multiplier * (d + 128 * rest)
      /\ digit >= 128 <=> rest > 0
  BY <1>2 DEF FrameInv, Framing!TypeOK, Framing!Lockstep, FrameBounded, Weights
<1> HIDE DEF d
<1>4. got' \in Nat /\ got' < multiplier * 128
  BY <1>1, <1>2, <1>3, AddIsBounded
<1>5. CASE Framing!ReadLast
  <2>1. phase' = "done" /\ rest = 0 /\ multiplier' = multiplier
    BY <1>1, <1>3, <1>5 DEF Framing!ReadLast
  <2>2. Framing!RemainingLength(packet)' = got' /\ got' < 268435456
    BY <1>1, <1>2, <1>3, <1>4, <2>1 DEF Framing!RemainingLength, Weights
  <2>3. QED
    BY <1>2, <1>3, <1>4, <2>1, <2>2
       DEF FrameInv, Framing!TypeOK, Framing!Lockstep, FrameBounded, Framing!LengthArrives, Weights
<1>6. CASE Framing!ReadMore
  <2>1. multiplier' = multiplier * 128 /\ phase' = "write" /\ ~ Framing!TooManyDigits
    BY <1>6 DEF Framing!ReadMore
  <2>2. multiplier' \in Weights
    BY <1>3, <2>1 DEF Framing!TooManyDigits, Weights
  <2>3. Framing!TypeOK' /\ FrameBounded'
    BY <1>2, <1>3, <1>4, <2>1, <2>2 DEF FrameInv, Framing!TypeOK, FrameBounded, Weights
  <2>4. Framing!RemainingLength(packet)' = got' + multiplier' * rest'
    <3>1. Framing!RemainingLength(packet)' = Framing!RemainingLength(packet)
      BY <1>2 DEF Framing!RemainingLength
    <3>2. multiplier * (d + 128 * rest) = d * multiplier + (multiplier * 128) * rest
      BY <1>1, <1>3 DEF Weights
    <3>3. QED
      BY <1>1, <1>2, <1>3, <2>1, <3>1, <3>2 DEF Weights
  <2>5. QED
    BY <2>1, <2>3, <2>4 DEF FrameInv, Framing!Lockstep, Framing!LengthArrives
<1>7. CASE Framing!ReadRefuses
  <2>1. phase' = "malformed" /\ rest > 0 /\ multiplier = 2097152 /\ multiplier' = multiplier
    BY <1>3, <1>7 DEF Framing!ReadRefuses, Framing!TooManyDigits, Weights
  <2>2. Framing!RemainingLength(packet)' >= 268435456
    BY <1>1, <1>2, <1>3, <2>1 DEF Framing!RemainingLength
  <2>3. QED
    BY <1>2, <1>3, <1>4, <2>1, <2>2
       DEF FrameInv, Framing!TypeOK, Framing!Lockstep, FrameBounded, Framing!LengthArrives, Weights
<1>8. QED
  BY <1>5, <1>6, <1>7

\* Every step keeps the invariant.
LEMMA FrameStep == FrameInv /\ [Framing!Next]_(Framing!vars) => FrameInv'
<1>1. ASSUME FrameInv, UNCHANGED Framing!vars PROVE FrameInv'
  BY <1>1 DEF FrameInv, Framing!TypeOK, Framing!Lockstep, FrameBounded, Framing!LengthArrives, Framing!RemainingLength, Framing!vars
<1>2. QED
  BY <1>1, WriteKeeps, ReadKeeps DEF Framing!Next

\* The invariant holds in every state.
LEMMA FrameInvariant == Framing!Spec => []FrameInv
BY FrameInit, FrameStep, PTL DEF Framing!Spec

\* The variables keep their ranges, the weight of a digit one of four values
\* (client.go:112-166).
THEOREM FrameTypes == Framing!Spec => []Framing!TypeOK
<1>1. FrameInv => Framing!TypeOK
  BY DEF FrameInv
<1>2. QED
  BY <1>1, FrameInvariant, PTL

\* Writer and reader stop together, for every length (client.go:120-135, 152-166).
THEOREM DigitsInLockstep == Framing!Spec => []Framing!Lockstep
<1>1. FrameInv => Framing!Lockstep
  BY DEF FrameInv
<1>2. QED
  BY <1>1, FrameInvariant, PTL

\* A length that is read is the length written, and one is refused exactly if it
\* needs a fifth digit (client.go:120-135, 152-166).
THEOREM FrameLength == Framing!Spec => []Framing!LengthArrives
<1>1. FrameInv => Framing!LengthArrives
  BY DEF FrameInv
<1>2. QED
  BY <1>1, FrameInvariant, PTL

-----------------------------------------------------------------------------
\* Two bytes hold a length exactly if it is below 65536.
LEMMA TwoBytes ==
  ASSUME NEW n \in Nat
  PROVE  256 * ((n \div 256) % 256) + (n % 256) = n <=> n < 65536
<1>1. n = 256 * (n \div 256) + (n % 256) /\ n \div 256 \in Nat /\ n % 256 \in 0 .. 255
  OBVIOUS
<1>2. (n \div 256) % 256 \in 0 .. 255
  BY <1>1
<1>3. (n \div 256) % 256 = n \div 256 <=> n \div 256 < 256
  BY <1>1
<1>4. QED
  BY <1>1, <1>2, <1>3

\* A topic arrives whole, with its payload behind it, exactly if its length fits
\* two bytes (encodeString, client.go:144-150).
THEOREM TopicLength == Framing!Spec => []Framing!TopicEndsRight
<1>1. ASSUME FrameInv PROVE Framing!TopicEndsRight
  <2>1. packet \in Framing!Packet /\ packet.topic \in Nat /\ packet.payload \in Nat
    BY <1>1 DEF FrameInv, Framing!TypeOK, Framing!Packet
  <2>2. Framing!TopicRead(packet) = packet.topic <=> packet.topic < 65536
    BY <2>1, TwoBytes DEF Framing!TopicRead, Framing!encodeString
  <2>3. phase = "done" => got = 2 + packet.topic + packet.payload
    BY <1>1 DEF FrameInv, Framing!LengthArrives, Framing!RemainingLength
  <2>4. QED
    BY <2>1, <2>2, <2>3 DEF Framing!TopicEndsRight
<1>2. QED
  BY <1>1, FrameInvariant, PTL
=============================================================================
