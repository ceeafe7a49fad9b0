------------------------------ MODULE TopicNames ------------------------------
(***************************************************************************)
(* How the publisher names its topics (publisher.go): names are sequences  *)
(* of characters.  A field topic holds the node id as it was configured,   *)
(* between slashes; a discovery topic holds its sanitised form, joined     *)
(* with the service by an underscore.  The configured prefixes in front    *)
(* are the same for every topic and left out.                              *)
(***************************************************************************)
EXTENDS Integers, Sequences, FiniteSets

CONSTANTS
  Characters,   \* what names are made of
  Kept,         \* the characters a topic segment may keep
  Blank         \* white space

Joint == "_"   \* replaces what may not be kept, and joins node and service

ASSUME NamesAssumption ==
  /\ Kept \subseteq Characters /\ Blank \subseteq Characters \ Kept
  /\ {Joint, "unknown"} \subseteq Kept
  /\ "/" \in Characters \ Kept

Name == Seq(Characters)

\* The characters between leading and trailing white space; of a run of those
\* that are not kept only the first is left, as an underscore.
sanitizeTopicSegment(value) ==
  LET body == {i \in DOMAIN value :
                 /\ \E j \in 1 .. i : value[j] \notin Blank
                 /\ \E j \in i .. Len(value) : value[j] \notin Blank}
      left == {i \in body : \/ value[i] \in Kept
                            \/ i - 1 \notin body
                            \/ value[i - 1] \in Kept}
      nth(k) == CHOOSE i \in left : Cardinality({j \in left : j <= i}) = k
  IN  IF left = {} THEN <<"unknown">>
      ELSE [k \in 1 .. Cardinality(left) |->
              IF value[nth(k)] \in Kept THEN value[nth(k)] ELSE Joint]

\* Mutant: the node id is sanitised as it is for discovery.
fieldTopicSanitized(node, service, field) ==
  [kind |-> field,
   path |-> sanitizeTopicSegment(node) \o <<"/">> \o sanitizeTopicSegment(service)]

\* The last segment, a field name without special characters, is the kind.
fieldTopic(node, service, field) ==
  [kind |-> field, path |-> node \o <<"/">> \o sanitizeTopicSegment(service)]

\* Mutant: the node id is not part of the topic.
discoveryTopicOfService(node, service, entity) ==
  [kind |-> entity, path |-> sanitizeTopicSegment(service)]

\* The kind stands for the entity type in front and the suffix behind; of the
\* suffixes _check_status, _current_version and _latest_version none ends with
\* another, so that they tell the topics apart as a kind does.
discoveryTopic(node, service, entity) ==
  [kind |-> entity,
   path |-> sanitizeTopicSegment(node) \o <<Joint>> \o sanitizeTopicSegment(service)]
=============================================================================
