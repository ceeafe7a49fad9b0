------------------------------ MODULE Publisher ------------------------------
(***************************************************************************)
(* The MQTT publisher (publisher/mqtt): one Publish call dials the broker, *)
(* performs the CONNECT handshake and writes, check by check, the field    *)
(* topics of a service and then its Home Assistant discovery topics.  All  *)
(* packets are QoS 0: a successful write only says that the packet left    *)
(* the process.  The network and the broker are external; a connection     *)
(* delivers a prefix of what was written to it, in order.                  *)
(*                                                                         *)
(* Payloads are abstracted to the check they come from: every check that   *)
(* is published gets a stamp, and stamps grow from check to check.         *)
(***************************************************************************)
EXTENDS Integers, Sequences

CONSTANTS
  Services,   \* service names, as they appear in a topic
  Batches,    \* the argument of Publish: the check lists a job run can hand over
  Configs,    \* the publisher settings a process may be started with
  MaxCalls,   \* bound on the number of Publish calls
  Overlap     \* may a call connect while an older connection still holds
              \* packets the broker has not processed?

(***************************************************************************)
(* The topics of one service.  The four discovery topics are the config    *)
(* topics of the update entity and of the three sensors.                   *)
(***************************************************************************)
artifact_name      == 1
current_version    == 2
latest_version     == 3
latest_version_url == 4
observed_at        == 5
check_status       == 6
FieldTopics        == 1 .. 6
DiscoveryTopics    == 7 .. 10
Topics             == FieldTopics \cup DiscoveryTopics

\* A resolver always fills observed_at and check_status; the others may be blank.
OptionalFields == {artifact_name, current_version, latest_version, latest_version_url}

Check  == [service : Services, empty : SUBSET OptionalFields]
Config == [retain : BOOLEAN, ha : BOOLEAN]

ASSUME PublisherAssumption ==
  /\ Batches \subseteq Seq(Check)
  /\ Configs \subseteq Config
  /\ MaxCalls \in Nat
  /\ Overlap \in BOOLEAN

VARIABLES
  pc,         \* where the process is in a Publish call
  cfg,        \* settings of the running process
  cancelled,  \* the context handed to Publish is cancelled (SIGINT, SIGTERM)
  calls,      \* Publish calls that had something to publish; names the connection
  batch,      \* the checks of the last such call
  base,       \* number of checks handed over by the calls before it
  check,      \* index in batch of the check being written
  step,       \* index in Sequence(cfg) of the packet to be written next
  result,     \* how the last call ended
  wire,       \* per connection, packets written but not processed by the broker
  broken,     \* connections that were lost
  live,       \* per topic, the last message the broker distributed
  kept        \* per topic, the stamp of the retained message, 0 if there is none

vars == <<pc, cfg, cancelled, calls, batch, base, check, step, result,
          wire, broken, live, kept>>

Connections == 1 .. MaxCalls
Packet == [service : Services, topic : Topics, stamp : Nat,
           empty : BOOLEAN, retain : BOOLEAN]

-----------------------------------------------------------------------------
(***************************************************************************)
(* What Publish writes for one check, in this order.                       *)
(***************************************************************************)
\* Mutant: the verdict goes out before what it was derived from.
StatusFirst == <<check_status, artifact_name, current_version, latest_version,
                 latest_version_url, observed_at>>

publishedFields == <<artifact_name, current_version, latest_version,
                     latest_version_url, observed_at, check_status>>

publishHomeAssistantDiscovery == <<7, 8, 9, 10>>

\* Mutant: the last topic is forgotten.
SequenceStopsShort(c) ==
  IF c.ha THEN publishedFields \o <<7, 8, 9>> ELSE SubSeq(publishedFields, 1, 5)

Sequence(c) ==
  publishedFields \o (IF c.ha THEN publishHomeAssistantDiscovery ELSE <<>>)

\* Mutant: clearing follows the retain setting.
ClearIfRetained(t, st, s) ==
  [service |-> s, topic |-> t, stamp |-> st, empty |-> TRUE, retain |-> cfg.retain]

\* A blank field is published as an empty retained message, which makes the
\* broker drop the retained value, whatever the retain setting is.
clearRetained(t, st, s) ==
  [service |-> s, topic |-> t, stamp |-> st, empty |-> TRUE, retain |-> TRUE]

publishField(t, st, ck) ==
  IF t \in ck.empty
  THEN clearRetained(t, st, ck.service)
  ELSE [service |-> ck.service, topic |-> t, stamp |-> st,
        empty |-> FALSE, retain |-> cfg.retain]

publishDiscovery(t, st, ck) ==
  [service |-> ck.service, topic |-> t, stamp |-> st,
   empty |-> FALSE, retain |-> TRUE]

\* Mutant: the checks are written from the last to the first.
PacketFromEnd(i, k) ==
  LET t == Sequence(cfg)[k]
      n == Len(batch) + 1 - i
  IN  IF t \in FieldTopics THEN publishField(t, base + n, batch[n])
                           ELSE publishDiscovery(t, base + n, batch[n])

PacketAt(i, k) ==
  LET t == Sequence(cfg)[k]
  IN  IF t \in FieldTopics THEN publishField(t, base + i, batch[i])
                           ELSE publishDiscovery(t, base + i, batch[i])

-----------------------------------------------------------------------------
Init ==
  /\ pc = "idle"
  /\ cfg \in Configs
  /\ cancelled = FALSE
  /\ calls = 0
  /\ batch = <<>>
  /\ base = 0
  /\ check = 1
  /\ step = 1
  /\ result = "none"
  /\ wire = [c \in Connections |-> <<>>]
  /\ broken = {}
  /\ live = [s \in Services |-> [t \in Topics |-> [stamp |-> 0, empty |-> FALSE]]]
  /\ kept = [s \in Services |-> [t \in Topics |-> 0]]

network == <<wire, broken, live, kept>>

\* Publish without checks returns at once and opens no connection.
PublishNothing ==
  /\ pc = "idle"
  /\ <<>> \in Batches
  /\ result' = "nothing"
  /\ UNCHANGED <<pc, cfg, cancelled, calls, batch, base, check, step, network>>

Publish(cs) ==
  /\ pc = "idle"
  /\ cs # <<>>
  /\ calls < MaxCalls
  /\ pc' = "dial"
  /\ calls' = calls + 1
  /\ batch' = cs
  /\ base' = base + Len(batch)
  /\ check' = 1
  /\ step' = 1
  /\ result' = "none"
  /\ UNCHANGED <<cfg, cancelled, network>>

\* DialContext refuses a cancelled context; nothing after it looks at the context.
DialSucceeds ==
  /\ pc = "dial"
  /\ ~ cancelled
  /\ Overlap \/ \A c \in Connections : wire[c] = <<>>
  /\ pc' = "connect"
  /\ UNCHANGED <<cfg, cancelled, calls, batch, base, check, step, result, network>>

Return(r) ==
  /\ pc' = "idle"
  /\ result' = r
  /\ UNCHANGED <<cfg, cancelled, calls, batch, base, check, step>>

DialFails ==
  /\ pc = "dial"
  /\ Return("error")
  /\ UNCHANGED network

\* CONNECT was written and the broker answered with return code 0.
ConnackAccepts ==
  /\ pc = "connect"
  /\ pc' = "send"
  /\ UNCHANGED <<cfg, cancelled, calls, batch, base, check, step, result, network>>

\* A non-zero return code, another packet, or a connection that went away.
ConnackRejects ==
  /\ pc = "connect"
  /\ Return("error")
  /\ UNCHANGED network

\* Mutant: the connection has no deadline during the handshake.
ConnackNeverTimesOut == FALSE

\* The deadline set for the handshake expires.
ConnackTimesOut ==
  /\ pc = "connect"
  /\ Return("error")
  /\ UNCHANGED network

\* Mutant: the next check starts one packet too early.
AdvanceFromZero ==
  IF step < Len(Sequence(cfg))
  THEN step' = step + 1 /\ UNCHANGED <<pc, check, result>>
  ELSE IF check < Len(batch)
  THEN check' = check + 1 /\ step' = 0 /\ UNCHANGED <<pc, result>>
  ELSE pc' = "idle" /\ result' = "ok" /\ UNCHANGED <<check, step>>

Advance ==
  IF step < Len(Sequence(cfg))
  THEN /\ step' = step + 1
       /\ UNCHANGED <<pc, check, result>>
  ELSE IF check < Len(batch)
  THEN /\ check' = check + 1
       /\ step' = 1
       /\ UNCHANGED <<pc, result>>
  ELSE /\ pc' = "idle"           \* the deferred Close
       /\ result' = "ok"
       /\ UNCHANGED <<check, step>>

\* Write returns without error; if the connection is gone the packet is lost.
WritePacket ==
  /\ pc = "send"
  /\ wire' = IF calls \in broken THEN wire
             ELSE [wire EXCEPT ![calls] = Append(@, PacketAt(check, step))]
  /\ Advance
  /\ UNCHANGED <<cfg, cancelled, calls, batch, base, broken, live, kept>>

\* Write reports an error or its deadline expires.  What was written before
\* may still be delivered; a half-written packet is discarded by the broker.
WriteFails ==
  /\ pc = "send"
  /\ Return("error")
  /\ UNCHANGED network

-----------------------------------------------------------------------------
(***************************************************************************)
(* The environment: signals, process death and restart, network, broker.   *)
(***************************************************************************)
Cancel ==
  /\ pc # "down"
  /\ ~ cancelled
  /\ cancelled' = TRUE
  /\ UNCHANGED <<pc, cfg, calls, batch, base, check, step, result, network>>

Stop ==
  /\ pc # "down"
  /\ pc' = "down"
  /\ UNCHANGED <<cfg, cancelled, calls, batch, base, check, step, result, network>>

Restart ==
  /\ pc = "down"
  /\ pc' = "idle"
  /\ cfg' \in Configs
  /\ cancelled' = FALSE
  /\ result' = "none"
  /\ UNCHANGED <<calls, batch, base, check, step, network>>

\* The broker processes the oldest packet of a connection.
Deliver(c) ==
  /\ wire[c] # <<>>
  /\ LET p == Head(wire[c])
     IN  /\ live' = [live EXCEPT ![p.service][p.topic] =
                       [stamp |-> p.stamp, empty |-> p.empty]]
         /\ kept' = IF p.retain
                    THEN [kept EXCEPT ![p.service][p.topic] =
                            IF p.empty THEN 0 ELSE p.stamp]
                    ELSE kept
  /\ wire' = [wire EXCEPT ![c] = Tail(@)]
  /\ UNCHANGED <<pc, cfg, cancelled, calls, batch, base, check, step, result, broken>>

\* A connection is lost with everything still on it.
Break(c) ==
  /\ c \notin broken
  /\ wire[c] # <<>> \/ (c = calls /\ pc = "send")
  /\ wire' = [wire EXCEPT ![c] = <<>>]
  /\ broken' = broken \cup {c}
  /\ UNCHANGED <<pc, cfg, cancelled, calls, batch, base, check, step, result, live, kept>>

-----------------------------------------------------------------------------
Next ==
  \/ PublishNothing
  \/ \E cs \in Batches : Publish(cs)
  \/ DialSucceeds
  \/ DialFails
  \/ ConnackAccepts
  \/ ConnackRejects
  \/ ConnackTimesOut
  \/ WritePacket
  \/ WriteFails
  \/ Cancel
  \/ Stop
  \/ Restart
  \/ \E c \in Connections : Deliver(c)
  \/ \E c \in Connections : Break(c)

\* Only the deadlines of the dialer, of the handshake and of each write are
\* guaranteed to fire; neither an answer of the broker nor a delivery is.
Fairness ==
  /\ WF_vars(DialFails)
  /\ WF_vars(ConnackTimesOut)
  /\ WF_vars(WriteFails)

Spec == Init /\ [][Next]_vars /\ Fairness

-----------------------------------------------------------------------------
TypeOK ==
  /\ pc \in {"idle", "dial", "connect", "send", "down"}
  /\ cfg \in Config
  /\ cancelled \in BOOLEAN
  /\ calls \in 0 .. MaxCalls
  /\ batch \in Seq(Check)
  /\ base \in Nat
  /\ check \in Nat \ {0}
  /\ step \in 1 .. 10
  /\ result \in {"none", "nothing", "ok", "error"}
  /\ wire \in [Connections -> Seq(Packet)]
  /\ broken \in SUBSET Connections
  /\ live \in [Services -> [Topics -> [stamp : Nat, empty : BOOLEAN]]]
  /\ kept \in [Services -> [Topics -> Nat]]

\* A verdict on the broker is backed by the values it was derived from: the
\* other fields of a service never come from an older check than its
\* check_status, and its discovery topics never from a newer check than any of
\* its fields, however many calls were cut short (Publish, publisher.go:163-175).
VerdictIsBacked ==
  \A s \in Services :
    /\ \A f \in FieldTopics : live[s][f].stamp >= live[s][check_status].stamp
    /\ \A d \in DiscoveryTopics, f \in FieldTopics :
         live[s][f].stamp >= live[s][d].stamp

\* A subscriber that joins late never finds a value for a field the last
\* delivered check left blank, even when ordinary values are not retained and
\* the value was left by an earlier process (clearRetained, publisher.go:295).
BlankIsBlankForEveryone ==
  \A s \in Services, t \in Topics : live[s][t].empty => kept[s][t] = 0

\* When Publish returned nil and its connection was drained, every topic of
\* every service it published shows that service's last check, and no topic of
\* the set is left over from an earlier call (Publish, publisher.go:151-178).
SuccessIsWhole ==
  (/\ pc = "idle" /\ result = "ok" /\ calls > 0 /\ calls \notin broken
   /\ \A c \in Connections : wire[c] = <<>>)
  => \A i \in DOMAIN batch :
       (\A j \in DOMAIN batch : j > i => batch[j].service # batch[i].service)
       => \A t \in FieldTopics \cup (IF cfg.ha THEN DiscoveryTopics ELSE {}) :
            live[batch[i].service][t] =
              [stamp |-> base + i, empty |-> t \in batch[i].empty]

\* The broker never goes back to an older check of a service: the sequence of
\* stamps on a topic only grows, across failures and restarts.
NoOldNews ==
  [][\A s \in Services, t \in Topics : live'[s][t].stamp >= live[s][t].stamp]_vars

\* Every call returns, whatever the broker does (the deadlines, client.go:39-43,72).
CallReturns == (pc \in {"dial", "connect", "send"}) ~> (pc \in {"idle", "down"})
=============================================================================
