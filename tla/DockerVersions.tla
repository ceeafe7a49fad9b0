--------------------------- MODULE DockerVersions ---------------------------
(***************************************************************************)
(* Version texts of the docker resolver: how a tag is parsed, when two     *)
(* tags can be compared, and which verdict a list of tags leads to.        *)
(*                                                                         *)
(* A text that matches the pattern of a release tag is represented by what *)
(* the pattern takes apart: an optional leading v, the numbers between the *)
(* dots and a suffix.  A text that does not match has no numbers; Blank is *)
(* the empty one.                                                          *)
(***************************************************************************)
EXTENDS Integers, Sequences

CONSTANT MaxInt   \* largest number strconv.Atoi accepts

ASSUME VersionsAssumption == MaxInt \in Nat

Release(v, nums, suffix) == [v |-> v, nums |-> nums, suffix |-> suffix]
Word(w) == [v |-> FALSE, nums |-> <<>>, suffix |-> w]
Blank   == Word("")

-----------------------------------------------------------------------------
\* The text matches versionRe and every number fits into an int.
Parses(text) ==
  /\ text.nums # <<>>
  /\ \A i \in DOMAIN text.nums : text.nums[i] <= MaxInt

\* The first number that differs decides; called with equally many numbers.
compareNumbers(left, right) ==
  LET differ == {i \in DOMAIN left : left[i] # right[i]}
  IN  IF differ = {} THEN 0
      ELSE LET first == CHOOSE i \in differ : \A k \in differ : i <= k
           IN  IF left[first] < right[first] THEN -1 ELSE 1

SameScheme(candidate, current) ==
  /\ Len(candidate.nums) = Len(current.nums)
  /\ candidate.suffix = current.suffix

Resolution(status, latest) == [status |-> status, latest |-> latest]

\* Mutant: the candidates are not sorted.
resolutionUnsorted(current, tags) ==
  LET filtered == {t \in tags : Parses(t) /\ SameScheme(t, current)}
  IN  IF ~ Parses(current) THEN {Resolution("unsupported", Blank)}
      ELSE IF filtered = {} THEN {Resolution("unknown", Blank)}
      ELSE {Resolution(IF compareNumbers(current.nums, t.nums) < 0
                       THEN "outdated" ELSE "current", t) : t \in filtered}

\* The resolutions a list of tags may lead to: the candidates are sorted by an
\* unstable sort, so any of the greatest ones may come last.
determineResolution(current, tags) ==
  LET candidates == {t \in tags : Parses(t)}
      filtered   == {t \in candidates : SameScheme(t, current)}
      greatest   == {t \in filtered :
                       \A u \in filtered : compareNumbers(u.nums, t.nums) <= 0}
  IN  IF ~ Parses(current) THEN {Resolution("unsupported", Blank)}
      ELSE IF filtered = {} THEN {Resolution("unknown", Blank)}
      ELSE {Resolution(IF compareNumbers(current.nums, t.nums) < 0
                       THEN "outdated" ELSE "current", t) : t \in greatest}

-----------------------------------------------------------------------------
(***************************************************************************)
(* An observation carries the version the collector detected and the tag   *)
(* of the image, Blank when there is none.                                 *)
(***************************************************************************)
selectReportedCurrentVersion(o) ==
  IF Parses(o.current) THEN o.current
  ELSE IF Parses(o.tag) THEN o.tag
  ELSE IF o.current # Blank THEN o.current ELSE o.tag

selectComparisonVersion(o) == IF o.tag # Blank THEN o.tag ELSE o.current
=============================================================================
