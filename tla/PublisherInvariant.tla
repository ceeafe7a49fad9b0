------------------------- MODULE PublisherInvariant -------------------------
(***************************************************************************)
(* Why the properties of Publisher hold when a connection is drained       *)
(* before the next one is dialled: an invariant that every step preserves. *)
(***************************************************************************)
EXTENDS Publisher

\* The position of a call lies within its batch and its sequence of topics.
Position ==
  pc \in {"dial", "connect", "send"} =>
    /\ calls \in Connections
    /\ check \in 1 .. Len(batch)
    /\ step \in 1 .. Len(Sequence(cfg))

\* A call begins with the first packet of its first check.
FirstPacket == pc \in {"dial", "connect"} => check = 1 /\ step = 1

\* At most one connection holds packets, the one of the call that is sending.
OneWire ==
  /\ \A c, d \in Connections : wire[c] # <<>> /\ wire[d] # <<>> => c = d
  /\ pc = "connect" => \A c \in Connections : wire[c] = <<>>
  /\ pc = "send" => \A c \in Connections : c # calls => wire[c] = <<>>

\* The newest stamp that may be under way.
NewestStamp ==
  IF pc = "send" THEN base + check
  ELSE IF pc \in {"dial", "connect"} THEN base ELSE base + Len(batch)

Before(p, st, t) == p.stamp < st \/ (p.stamp = st /\ p.topic < t)

\* Nothing is newer than the check being sent; packets wait in order behind
\* each other, and the next one to be sent comes after all of them.
InOrder ==
  /\ \A s \in Services, t \in Topics : live[s][t].stamp <= NewestStamp
  /\ \A c \in Connections : \A n \in 1 .. Len(wire[c]) :
       /\ wire[c][n].stamp <= NewestStamp
       /\ \A m \in 1 .. Len(wire[c]) :
            m < n => Before(wire[c][m], wire[c][n].stamp, wire[c][n].topic)
       /\ pc = "send" => Before(wire[c][n], base + check, step)

\* A packet is at least as new as anything the broker has of its service.
Newer ==
  \A c \in Connections : \A n \in 1 .. Len(wire[c]) : \A t \in Topics :
    live[wire[c][n].service][t].stamp <= wire[c][n].stamp

\* The broker has topic t of check st of service s, or gets it before packet n.
Ahead(s, t, st, c, n) ==
  \/ live[s][t].stamp >= st
  \/ \E m \in 1 .. Len(wire[c]) :
       m < n /\ wire[c][m].service = s /\ wire[c][m].topic = t /\ wire[c][m].stamp = st

\* No packet arrives before those that are written before it for its check.
NoGap ==
  /\ \A c \in Connections : \A n \in 1 .. Len(wire[c]) : \A t \in Topics :
       t < wire[c][n].topic =>
         Ahead(wire[c][n].service, t, wire[c][n].stamp, c, n)
  /\ pc = "send" /\ calls \notin broken =>
       \A t \in Topics : t < step =>
         Ahead(batch[check].service, t, base + check, calls, Len(wire[calls]) + 1)

\* A topic that is written later never shows a newer check.
Staircase ==
  \A s \in Services : \A t, u \in Topics :
    t < u => live[s][t].stamp >= live[s][u].stamp

\* The inductive invariant behind VerdictIsBacked and NoOldNews: whatever was
\* cut short, what the broker has of a service is a staircase of checks in the
\* order of the topics, and what is under way continues it
\* (Publish, publisher.go:151-178).
Backing ==
  Position /\ FirstPacket /\ OneWire /\ InOrder /\ Newer /\ NoGap /\ Staircase

-----------------------------------------------------------------------------
\* A call is writing, or the last one returned nil.
InCall == pc = "send" \/ (pc = "idle" /\ result = "ok" /\ calls > 0)

\* Packet k of check i has been written; all of them when the call returned nil.
Written(i, k) == pc = "send" => i < check \/ (i = check /\ k < step)

\* What is on the connection of the call was written by the call, and nothing
\* is on any other connection.
OwnPackets ==
  InCall =>
    /\ \A c \in Connections : c # calls => wire[c] = <<>>
    /\ \A n \in 1 .. Len(wire[calls]) :
         \E i \in 1 .. Len(batch), k \in 1 .. Len(Sequence(cfg)) :
           wire[calls][n] = PacketAt(i, k)

\* The broker has packet k of check i, or gets it.
Arrives(i, k) ==
  \/ live[batch[i].service][k] = [stamp |-> base + i, empty |-> k \in batch[i].empty]
  \/ \E n \in 1 .. Len(wire[calls]) : wire[calls][n] = PacketAt(i, k)

IsLastOfService(i) ==
  \A j \in 1 .. Len(batch) : j > i => batch[j].service # batch[i].service

\* Nothing that was written for the last check of a service gets lost or
\* overwritten as long as the connection holds.
NothingMissing ==
  InCall /\ calls \notin broken =>
    \A i \in 1 .. Len(batch), k \in 1 .. Len(Sequence(cfg)) :
      IsLastOfService(i) /\ Written(i, k) => Arrives(i, k)

\* The inductive invariant behind SuccessIsWhole, on top of Backing
\* (Publish, publisher.go:151-178).
Delivery == OwnPackets /\ NothingMissing

\* A blank field travels as a retained message, whatever the settings say; the
\* inductive invariant behind BlankIsBlankForEveryone (clearRetained,
\* publisher.go:295).
ClearsAreRetained ==
  \A c \in Connections : \A n \in 1 .. Len(wire[c]) :
    wire[c][n].empty => wire[c][n].retain

-----------------------------------------------------------------------------
\* The board of a subscriber: the check each topic of the broker shows.
Shown == INSTANCE Board WITH
           Services <- Services, Topics <- Topics,
           board <- [s \in Services |-> [t \in Topics |-> live[s][t].stamp]]

\* Drained connections make the broker a board: calls that fail halfway, lost
\* packets, restarts and changed settings never show a topic ahead of those
\* written before it (Publish, publisher.go:151-178).
ImplementsBoard == Shown!Spec
=============================================================================
