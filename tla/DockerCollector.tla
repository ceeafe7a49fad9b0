-------------------------- MODULE DockerCollector --------------------------
(***************************************************************************)
(* The docker collector: which containers of the host it watches and which *)
(* observation it makes of each.                                           *)
(*                                                                         *)
(* A container is [name, service, custom, repo, tag, version, labels]: its *)
(* name, the name of its compose service and its custom name (NoName when  *)
(* missing), the repository and tag of its image (Blank without tag), its  *)
(* version label (Blank when missing) and the labels that select it.       *)
(* Names are numbers in the order of the strings.                          *)
(***************************************************************************)
EXTENDS DockerVersions, FiniteSets

NoName == 0

defaultExcludeLabels == {"up2date.watch=false", "up2date.enable=false", "up2date.ignore=true"}
defaultIncludeLabels == {"up2date.watch=true", "up2date.enable=true"}

\* Mutant: only the label that opts in is looked at.
excludeUnlessWatched(watchByDefault, c) ==
  ~ watchByDefault /\ c.labels \cap defaultIncludeLabels = {}

shouldExclude(watchByDefault, c) ==
  IF watchByDefault
  THEN c.labels \cap defaultExcludeLabels # {}
  ELSE c.labels \cap defaultIncludeLabels = {}

\* The collector's own pattern has no limit for the numbers.
parseVersionTag(text) == text.nums # <<>>

\* Mutant: the version label comes first.
detectLabelFirst(c) ==
  IF c.version # Blank THEN c.version
  ELSE IF c.tag # Blank THEN c.tag ELSE Word("unknown")

\* Mutant: nothing is reported for an image without tag and version label.
detectOrBlank(c) == IF parseVersionTag(c.tag) THEN c.tag ELSE c.version

detectVersion(c) ==
  IF parseVersionTag(c.tag) THEN c.tag
  ELSE IF c.version # Blank THEN c.version
  ELSE IF c.tag # Blank THEN c.tag ELSE Word("unknown")

serviceName(c) ==
  IF c.custom # NoName THEN c.custom
  ELSE IF c.service # NoName THEN c.service ELSE c.name

buildObservation(c) ==
  [service |-> serviceName(c), container |-> c.name, repo |-> c.repo,
   tag |-> c.tag, current |-> detectVersion(c)]

\* The observations of a snapshot in the orders its sorts may leave them in:
\* by service name; which of two images of one service comes first is left open.
Snapshots(watchByDefault, host) ==
  LET obs == {buildObservation(c) :
                c \in {d \in host : ~ shouldExclude(watchByDefault, d)}}
  IN  {s \in [1 .. Cardinality(obs) -> obs] :
         \A i, j \in DOMAIN s :
           i < j => s[i] # s[j] /\ s[i].service <= s[j].service}
=============================================================================
