-------------------------------- MODULE Fleet --------------------------------
(***************************************************************************)
(* Several agents, each with a node id of its own, publish to one broker   *)
(* while services appear and disappear (publisher.go).  What is written    *)
(* arrives at once: the packets of one agent on their way are Publisher's  *)
(* subject, here it is whose topics they are.                              *)
(***************************************************************************)
EXTENDS TopicNames

CONSTANTS
  Nodes,       \* the node ids, all different
  Hosted,      \* per node, the names of services it may have
  Fields,      \* the fields of a check, in the order they are written
  Optional,    \* those that may be blank
  Entities,    \* the discovery topics, in the order they are written
  MaxCycles    \* per node, a bound on the cycles of its agent

\* Mutant: the entities are announced before the fields are written.
EntitiesFirst == Entities \o Fields

Kinds == Fields \o Entities
FieldSet == {Fields[i] : i \in DOMAIN Fields}
EntitySet == {Entities[i] : i \in DOMAIN Entities}

ASSUME FleetAssumption ==
  /\ Nodes \subseteq Name
  /\ Hosted \in [Nodes -> SUBSET Name] /\ \A n \in Nodes : IsFiniteSet(Hosted[n])
  /\ Fields \in Seq(STRING) \ {<<>>} /\ Entities \in Seq(STRING)
  /\ FieldSet \cap EntitySet = {}
  /\ Optional \subseteq FieldSet
  /\ MaxCycles \in [Nodes -> Nat]

Services == UNION {Hosted[n] : n \in Nodes}

fieldTopics == {fieldTopic(n, s, f) : n \in Nodes, s \in Services, f \in FieldSet}
discoveryTopics ==
  {discoveryTopic(n, s, e) : n \in Nodes, s \in Services, e \in EntitySet}
Topics == fieldTopics \cup discoveryTopics

Nothing == [cycle |-> 0]   \* the topic was never written, or cleared
Message == [node : Nodes, service : Services, cycle : Nat \ {0}]

VARIABLES
  present,   \* per node, the services a collector would find
  batch,     \* per node, the checks handed to its last Publish, by service
  check,     \* per node, the index in batch of the check being written
  step,      \* per node, the index in Kinds of its next topic, 0 between cycles
  cycle,     \* per node, the number of its cycles so far
  covered,   \* per node, the services of its last cycle that succeeded ...
  done,      \* ... and the number of that cycle
  broker     \* per topic, the message it shows

vars == <<present, batch, check, step, cycle, covered, done, broker>>

Orders(S) == {b \in [1 .. Cardinality(S) -> S] : S = {b[i] : i \in DOMAIN b}}

-----------------------------------------------------------------------------
Init ==
  /\ present \in {p \in [Nodes -> SUBSET Services] : \A n \in Nodes : p[n] \subseteq Hosted[n]}
  /\ batch = [n \in Nodes |-> <<>>]
  /\ check = [n \in Nodes |-> 1]
  /\ step = [n \in Nodes |-> 0]
  /\ cycle = [n \in Nodes |-> 0]
  /\ covered = [n \in Nodes |-> {}]
  /\ done = [n \in Nodes |-> 0]
  /\ broker = [t \in Topics |-> Nothing]

\* A container is created or removed, a package enters or leaves the list.
\* What is there after the last cycle of the bound makes no difference.
Change(n, s) ==
  /\ cycle[n] < MaxCycles[n]
  /\ present' = [present EXCEPT ![n] = IF s \in @ THEN @ \ {s} ELSE @ \cup {s}]
  /\ UNCHANGED <<batch, check, step, cycle, covered, done, broker>>

\* Nothing was collected: Publish returns nil and writes nothing.
PublishNothing(n) ==
  /\ step[n] = 0
  /\ cycle[n] < MaxCycles[n]
  /\ present[n] = {}
  /\ cycle' = [cycle EXCEPT ![n] = @ + 1]
  /\ covered' = [covered EXCEPT ![n] = {}]
  /\ done' = [done EXCEPT ![n] = cycle[n] + 1]
  /\ UNCHANGED <<present, batch, check, step, broker>>

\* A cycle collects what is there now and publishes it, in any order.
Publish(n) ==
  /\ step[n] = 0
  /\ cycle[n] < MaxCycles[n]
  /\ present[n] # {}
  /\ \E b \in Orders(present[n]) : batch' = [batch EXCEPT ![n] = b]
  /\ cycle' = [cycle EXCEPT ![n] = @ + 1]
  /\ check' = [check EXCEPT ![n] = 1]
  /\ step' = [step EXCEPT ![n] = 1]
  /\ UNCHANGED <<present, covered, done, broker>>

TopicOf(n, s, k) ==
  IF k \in FieldSet THEN fieldTopic(n, s, k) ELSE discoveryTopic(n, s, k)

\* Mutant: the step counts one too many.
AdvanceTooFar(n) ==
  IF step[n] <= Len(Kinds)
  THEN step' = [step EXCEPT ![n] = @ + 1] /\ UNCHANGED <<check, covered, done>>
  ELSE step' = [step EXCEPT ![n] = 0] /\ UNCHANGED <<check, covered, done>>

Advance(n) ==
  IF step[n] < Len(Kinds)
  THEN /\ step' = [step EXCEPT ![n] = @ + 1]
       /\ UNCHANGED <<check, covered, done>>
  ELSE IF check[n] < Len(batch[n])
  THEN /\ check' = [check EXCEPT ![n] = @ + 1]
       /\ step' = [step EXCEPT ![n] = 1]
       /\ UNCHANGED <<covered, done>>
  ELSE /\ step' = [step EXCEPT ![n] = 0]
       /\ covered' = [covered EXCEPT ![n] = {batch[n][i] : i \in DOMAIN batch[n]}]
       /\ done' = [done EXCEPT ![n] = cycle[n]]
       /\ UNCHANGED check

\* A topic is written, or cleared if its field is blank.
Write(n, blank) ==
  /\ step[n] > 0
  /\ LET s == batch[n][check[n]]
         k == Kinds[step[n]]
     IN  /\ blank => k \in Optional
         /\ broker' = [broker EXCEPT ![TopicOf(n, s, k)] =
                         IF blank THEN Nothing
                         ELSE [node |-> n, service |-> s, cycle |-> cycle[n]]]
  /\ Advance(n)
  /\ UNCHANGED <<present, batch, cycle>>

\* Mutant: the error of a write is not returned.
FailUnnoticed(n) ==
  /\ step[n] > 0
  /\ step' = [step EXCEPT ![n] = 0]
  /\ covered' = [covered EXCEPT ![n] = {batch[n][i] : i \in DOMAIN batch[n]}]
  /\ done' = [done EXCEPT ![n] = cycle[n]]
  /\ UNCHANGED <<present, batch, check, cycle, broker>>

\* Dialling or a write fails, or the process dies: the rest is not written.
Fail(n) ==
  /\ step[n] > 0
  /\ step' = [step EXCEPT ![n] = 0]
  /\ UNCHANGED <<present, batch, check, cycle, covered, done, broker>>

Next == \E n \in Nodes :
  \/ \E s \in Hosted[n] : Change(n, s)
  \/ PublishNothing(n)
  \/ Publish(n)
  \/ \E blank \in BOOLEAN : Write(n, blank)
  \/ Fail(n)

Spec == Init /\ [][Next]_vars

-----------------------------------------------------------------------------
TypeOK ==
  /\ present \in [Nodes -> SUBSET Services]
  /\ batch \in [Nodes -> Seq(Services)]
  /\ check \in [Nodes -> Nat \ {0}]
  /\ step \in [Nodes -> 0 .. Len(Kinds)]
  /\ cycle \in [Nodes -> Nat]
  /\ covered \in [Nodes -> SUBSET Services]
  /\ done \in [Nodes -> Nat]
  /\ \A n \in Nodes : /\ present[n] \subseteq Hosted[n]
                        /\ done[n] <= cycle[n] /\ cycle[n] <= MaxCycles[n]
  /\ broker \in [Topics -> Message \cup {Nothing}]

\* A field topic only ever shows a check of the node it names, about a service
\* with the name it shows, whatever characters the node ids hold: that the node
\* id is not sanitised there mixes up no two nodes (fieldTopic, publisher.go:314).
FieldsAreOwn ==
  \A n \in Nodes, s \in Services, f \in FieldSet :
    LET m == broker[fieldTopic(n, s, f)]
    IN  m # Nothing => /\ m.node = n
                       /\ sanitizeTopicSegment(m.service) = sanitizeTopicSegment(s)

\* After a cycle that succeeded, every field of every service it covered shows
\* that cycle or a later one, or was cleared as blank: a topic left behind by an
\* older cycle can only be of a service that was not there any more, although
\* nothing ever clears it (Publish, publisher.go:151-178).
StaleMeansGone ==
  \A n \in Nodes : \A s \in covered[n], f \in FieldSet :
    LET m == broker[fieldTopic(n, s, f)]
    IN  m.cycle >= done[n] \/ (f \in Optional /\ m = Nothing)

\* An entity is announced only when the states it points to are there, and no
\* older than the announcement, whoever else wrote to its discovery topic
\* (publishHomeAssistantDiscovery after publishField, publisher.go:163-175).
EntityHasState ==
  \A n \in Nodes, s \in Services, e \in EntitySet :
    LET m == broker[discoveryTopic(n, s, e)]
    IN  m # Nothing =>
          \A f \in FieldSet \ Optional :
            broker[fieldTopic(m.node, m.service, f)].cycle >= m.cycle

\* One sanitised node id goes on where the other ends, with an underscore.
Continues(a, b) ==
  /\ Len(a) < Len(b)
  /\ \A i \in 1 .. Len(a) : a[i] = b[i]
  /\ b[Len(a) + 1] = Joint

Apart(n, m) ==
  LET a == sanitizeTopicSegment(n)
      b == sanitizeTopicSegment(m)
  IN  a # b /\ ~ Continues(a, b) /\ ~ Continues(b, a)

Alone(n) == \A m \in Nodes \ {n} : Apart(n, m)

OnItsDevice(n) ==
  \A s \in covered[n], e \in EntitySet :
    LET m == broker[discoveryTopic(n, s, e)]
    IN  m # Nothing /\ m.node = n /\ m.cycle >= done[n]

\* The entities of a node stay on its device if its sanitised id neither equals
\* that of another node nor continues it, nor the reverse: the names of the
\* services do not matter (publisher.go:191-193, 223).
ApartNodesKeepDevices == \A n \in Nodes : Alone(n) => OnItsDevice(n)

\* README.md:203: all services of a node are found under its device.  Node ids
\* that continue each other break it: the later writer takes the entity over
\* (publisher.go:223).
ServicesOnTheirDevice == \A n \in Nodes : OnItsDevice(n)
=============================================================================
