---------------------------- MODULE ConfigValues ----------------------------
(***************************************************************************)
(* The texts a configuration is made of and how the code reads them        *)
(* (config.go, config_file.go).  A text is a word, with or without capital *)
(* letters, with or without white space around it.                         *)
(***************************************************************************)
EXTENDS Integers, Sequences, FiniteSetsExt, SequencesExt

CONSTANTS
  Unset,      \* a variable, key or value that is not there
  Malformed,  \* what reading a text as a number, duration or boolean may give
  Numbers,    \* the words strconv.Atoi understands, and what they are
  Wholes,     \* the JSON numbers that are whole, as 1e3 is, and what they are
  Durations   \* the words time.ParseDuration understands, in seconds

\* A word, with or without capital letters and white space.
Text == [word : STRING, cased : BOOLEAN, padded : BOOLEAN]

Plain(w) == [word |-> w, cased |-> FALSE, padded |-> FALSE]
Empty    == Plain("")

\* What the standard library makes of a word is a number; neither a missing nor a
\* malformed value is a text (the empty one and the kind of a mapping are named
\* for the provers, which know of no string that it is in STRING), a list, a
\* number, a boolean or the Home Assistant settings.
ASSUME ValuesAssumption ==
  /\ \A w \in DOMAIN Numbers : Numbers[w] \in Int
  /\ \A w \in DOMAIN Wholes : Wholes[w] \in Int
  /\ \A w \in DOMAIN Durations : Durations[w] \in Int
  /\ Unset # Malformed
  /\ \A v \in {Unset, Malformed} :
       /\ v # Empty /\ v # "map" /\ v \notin Text /\ v \notin Seq(Text)
       /\ v \notin Int /\ v \notin BOOLEAN
       /\ v \notin [enabled : BOOLEAN \cup {Malformed}, prefix : Text \cup {Empty}]

TrimSpace(t) == [t EXCEPT !.padded = FALSE]
ToLower(t)   == [t EXCEPT !.cased = FALSE]

firstNonEmpty(t, u) == IF t # Empty THEN t ELSE u

Atoi(t) ==
  IF ~ t.cased /\ ~ t.padded /\ t.word \in DOMAIN Numbers
  THEN Numbers[t.word] ELSE Malformed

ParseDuration(t) ==
  IF ~ t.cased /\ ~ t.padded /\ t.word \in DOMAIN Durations
  THEN Durations[t.word] ELSE Malformed

\* Mutant: zero and negative durations are let through.
AnyDuration(t) == ParseDuration(TrimSpace(t))

\* A duration that is not positive is as wrong as one that cannot be read.
PositiveDuration(t) ==
  LET d == ParseDuration(TrimSpace(t))
  IN  IF d # Malformed /\ d > 0 THEN d ELSE Malformed

parseBooleanValue(t) ==
  LET w == TrimSpace(ToLower(t)).word
  IN  IF w \in {"1", "true", "yes", "on"} THEN TRUE
      ELSE IF w \in {"0", "false", "no", "off"} THEN FALSE
      ELSE Malformed

\* The items of a list that are not blank, each trimmed.
NonBlankItems(texts) ==
  FlattenSeq([i \in DOMAIN texts |->
                LET t == TrimSpace(texts[i]) IN IF t = Empty THEN <<>> ELSE <<t>>])

\* A nil pointer stands for the default.
Default(v, d) == IF v = Unset THEN d ELSE v

\* Checks are made in order, and the first that fails is the one reported.
FirstRefusal(checks) ==
  LET failed == {i \in DOMAIN checks : checks[i].fails}
  IN  IF failed = {} THEN "none" ELSE checks[Min(failed)].of

Refuse(what, cond) == <<[of |-> what, fails |-> cond]>>

-----------------------------------------------------------------------------
defaultInterval == 60

\* Mutant: without a manager the resolver is derived for Homebrew.
EmptyMeansBrew(t) ==
  LET m == TrimSpace(ToLower(t)) IN IF m = Empty THEN Plain("brew") ELSE m

normalizePackageManager(t) ==
  LET m == TrimSpace(ToLower(t)) IN IF m = Empty THEN Plain("dpkg") ELSE m

\* The resolver a collector implies; Empty if there is none.
defaultResolverTypeForCollector(type, manager) ==
  IF type = Plain("docker") THEN Plain("docker")
  ELSE IF type # Plain("package") THEN Empty
  ELSE IF normalizePackageManager(manager).word \in {"brew", "homebrew"}
  THEN Plain("brew_formula")
  ELSE IF normalizePackageManager(manager) = Plain("dpkg") THEN Plain("none")
  ELSE Empty
=============================================================================
