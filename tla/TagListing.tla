----------------------------- MODULE TagListing -----------------------------
(***************************************************************************)
(* What the docker resolver needs of a tag listing: while the tags of a    *)
(* repository are pushed and deleted, a listing that is asked for ends     *)
(* with an error or with a set of tags that misses none that was there all *)
(* the time and invents none that was never there meanwhile.               *)
(***************************************************************************)
EXTENDS Integers

CONSTANT Tags   \* the tags a repository may have

VARIABLES
  tags,    \* the tags of the repository now
  steady,  \* the tags that have been there since the listing began
  seen,    \* the tags that were there at some moment since it began
  answer   \* "none" | "busy" | "error", or the set of tags listed

vars == <<tags, steady, seen, answer>>

Answers == [kind : {"none", "busy", "error"}, tags : {{}}]
             \cup [kind : {"ok"}, tags : SUBSET Tags]

Ended(k) == [kind |-> k, tags |-> {}]
Listed(S) == [kind |-> "ok", tags |-> S]

Init ==
  /\ tags \in SUBSET Tags
  /\ steady = tags
  /\ seen = tags
  /\ answer = Ended("none")

Ask ==
  /\ answer.kind # "busy"
  /\ answer' = Ended("busy")
  /\ steady' = tags
  /\ seen' = tags
  /\ UNCHANGED tags

AnswerTags ==
  /\ answer.kind = "busy"
  /\ \E S \in SUBSET Tags : steady \subseteq S /\ S \subseteq seen /\ answer' = Listed(S)
  /\ UNCHANGED <<tags, steady, seen>>

AnswerError ==
  /\ answer.kind = "busy"
  /\ answer' = Ended("error")
  /\ UNCHANGED <<tags, steady, seen>>

Push(t) ==
  /\ t \notin tags
  /\ tags' = tags \cup {t}
  /\ seen' = seen \cup {t}
  /\ UNCHANGED <<steady, answer>>

Delete(t) ==
  /\ t \in tags
  /\ tags' = tags \ {t}
  /\ steady' = steady \ {t}
  /\ UNCHANGED <<seen, answer>>

Next ==
  \/ Ask \/ AnswerTags \/ AnswerError
  \/ \E t \in Tags : Push(t) \/ Delete(t)

Spec == Init /\ [][Next]_vars
=============================================================================
