------------------------ MODULE RegistryClientProofs ------------------------
(***************************************************************************)
(* Proofs about RegistryClient, for repositories of any size, any kind of  *)
(* registry and any number of listings and expiries: the listing is        *)
(* complete, and it implements TagListing.                                 *)
(***************************************************************************)
EXTENDS RegistryClient, TLAPS

\* The initial values are in their ranges.
LEMMA TypeInit == Init => TypeOK
<1>1. 0 \in 0 .. LastTag /\ 0 \in 0 .. MaxExpiries /\ 0 \in 0 .. MaxListings
  BY RegistryAssumption DEF RegistryAssumption
<1>2. TL!Ended("none") \in TL!Answers
  BY DEF TL!Ended, TL!Answers
<1>3. QED
  BY <1>1, <1>2 DEF Init, TypeOK

\* Every step keeps them there; a page moves the cursor to an existing tag.
LEMMA TypeStep == ASSUME TypeOK, [Next]_vars PROVE TypeOK'
<1> USE RegistryAssumption DEF RegistryAssumption, TypeOK, Tags, repo, bounds
<1>1. CASE ListTags
  BY <1>1 DEF ListTags, TL!Answers, TL!Ended
<1>2. ASSUME NEW last \in 0 .. LastTag, Page(last)
      PROVE  TypeOK'
  <2> DEFINE all == tagSet \cup {t \in tags : cursor < t /\ t <= last}
  <2>1. all \in SUBSET Tags
    OBVIOUS
  <2>2. TL!Listed(all) \in TL!Answers
    BY <2>1 DEF TL!Listed, TL!Answers
  <2>3. tagSet' = all /\ cursor' \in {cursor, last} /\ pc' \in {pc, "idle"}
        /\ answer' \in {answer, TL!Listed(all)}
    BY <1>2 DEF Page, HasNext, Return
  <2>4. UNCHANGED <<repo, cancelled, token, bounds>>
    BY <1>2 DEF Page, HasNext
  <2>5. QED
    BY <2>1, <2>2, <2>3, <2>4
<1>3. CASE Unauthorized \/ TokenGranted
  BY <1>3 DEF Unauthorized, TokenGranted
<1>4. CASE RequestFails
  BY <1>4 DEF RequestFails, Return, TL!Ended, TL!Answers
<1>5. CASE Expire
  BY <1>5 DEF Expire
<1>6. ASSUME NEW t \in Tags, Push(t) \/ Delete(t)
      PROVE  TypeOK'
  BY <1>6 DEF Push, Delete, TL!Push, TL!Delete
<1>7. CASE Cancel \/ UNCHANGED vars
  BY <1>7 DEF Cancel, vars
<1>8. QED
  BY <1>1, <1>2, <1>3, <1>4, <1>5, <1>6, <1>7 DEF Next, Answered

\* TypeOK holds in every state: the cursor stays within the repository and an
\* answer is an error without tags or a set of tags (listTags, resolver.go:341-393).
THEOREM TypeCorrect == Spec => []TypeOK
BY TypeInit, TypeStep, PTL DEF Spec

-----------------------------------------------------------------------------
\* A call is under way exactly as long as it has not answered.
Busy == pc # "idle" <=> answer.kind = "busy"

IInv == TypeOK /\ Busy /\ Collected

\* Before the first call nothing is asked for and nothing is collected.
LEMMA InvInit == Init => IInv
BY TypeInit DEF Init, IInv, Busy, Collected, TL!Ended

\* What is collected stays complete up to the cursor: a token fetched between
\* two pages moves nothing, a page moves both.
LEMMA InvStep == ASSUME IInv, [Next]_vars PROVE IInv'
<1> USE DEF IInv, repo, bounds
<1>1. TypeOK'
  BY TypeStep
<1>2. CASE ListTags
  BY <1>1, <1>2 DEF ListTags, Busy, Collected, TL!Ended, TypeOK, Tags
<1>3. ASSUME NEW last \in 0 .. LastTag, Page(last)
      PROVE  IInv'
  <2> DEFINE all == tagSet \cup {t \in tags : cursor < t /\ t <= last}
  <2>1. tagSet' = all /\ UNCHANGED repo
    BY <1>3 DEF Page, HasNext
  <2>2. \/ cursor' = last /\ UNCHANGED <<pc, answer>>
        \/ pc' = "idle" /\ answer' = TL!Listed(all)
    BY <1>3 DEF Page, HasNext, Return
  <2>3. pc = "request"
    BY <1>3 DEF Page, HasNext
  <2>4. Busy'
    BY <2>2, <2>3 DEF Busy, TL!Listed
  <2>5. Collected'
    <3>1. steady' \subseteq tags' /\ tags' \subseteq seen'
      BY <2>1 DEF Collected
    <3>2. tagSet' \subseteq seen'
      BY <2>1, <2>3 DEF Collected
    <3>3. ASSUME NEW t \in steady, cursor' = last, t <= last
          PROVE  t \in all
      <4>1. t \in tags /\ t \in Int /\ cursor \in Int
        BY DEF Collected, TypeOK, Tags
      <4>2. CASE t <= cursor
        BY <2>3, <4>2 DEF Collected
      <4>3. CASE cursor < t
        BY <3>3, <4>1, <4>3
      <4>4. QED
        BY <4>1, <4>2, <4>3
    <3>4. QED
      BY <2>1, <2>2, <3>1, <3>2, <3>3 DEF Collected
  <2>6. QED
    BY <1>1, <2>4, <2>5
<1>4. CASE Unauthorized \/ TokenGranted
  BY <1>1, <1>4 DEF Unauthorized, TokenGranted, Busy, Collected
<1>5. CASE RequestFails
  BY <1>1, <1>5 DEF RequestFails, Return, Busy, Collected, TL!Ended
<1>6. CASE Expire \/ Cancel \/ UNCHANGED vars
  BY <1>1, <1>6 DEF Expire, Cancel, vars, Busy, Collected
<1>7. ASSUME NEW t \in Tags, Push(t) \/ Delete(t)
      PROVE  IInv'
  BY <1>1, <1>7 DEF Push, Delete, TL!Push, TL!Delete, Busy, Collected
<1>8. QED
  BY <1>2, <1>3, <1>4, <1>5, <1>6, <1>7 DEF Next, Answered

\* The inductive invariant holds in every state (listTags, resolver.go:341-393).
THEOREM Invariant == Spec => []IInv
BY InvInit, InvStep, PTL DEF Spec

\* What was in the repository all along is collected up to the cursor, whenever
\* tokens are fetched and tags are pushed or deleted (listTags, resolver.go:346-385).
THEOREM CollectsAll == Spec => []Collected
<1>1. IInv => Collected
  BY DEF IInv
<1>2. QED
  BY <1>1, Invariant, PTL

-----------------------------------------------------------------------------
\* Both start with a repository of any tags and no listing asked for.
LEMMA RefinesInit == Init => TL!Init
BY DEF Init, TL!Init

\* The last page is the answer of the abstract listing, other pages and tokens
\* are stutters.
LEMMA RefinesStep == ASSUME IInv, [Next]_vars PROVE [TL!Next]_(TL!vars)
<1> USE DEF repo, bounds, TL!vars
<1>1. CASE ListTags
  <2>1. TL!Ask
    BY <1>1 DEF ListTags, TL!Ask, IInv, Busy
  <2>2. QED
    BY <2>1 DEF TL!Next
<1>2. ASSUME NEW last \in 0 .. LastTag, Page(last)
      PROVE  [TL!Next]_(TL!vars)
  <2> DEFINE all == tagSet \cup {t \in tags : cursor < t /\ t <= last}
             more == \E t \in tags : t > last
  <2>1. UNCHANGED repo /\ pc = "request"
    BY <1>2 DEF Page, HasNext
  <2>2. CASE more
    BY <1>2, <2>1, <2>2 DEF Page, HasNext
  <2>3. CASE ~ more
    <3>1. answer' = TL!Listed(all)
      BY <1>2, <2>3 DEF Page, HasNext, Return
    <3>2. all \in SUBSET Tags
      BY DEF IInv, TypeOK
    <3>3. all \subseteq seen
      BY <2>1 DEF IInv, Collected
    <3>4. steady \subseteq all
      <4> SUFFICES ASSUME NEW t \in steady PROVE t \in all
        OBVIOUS
      <4>1. t \in tags /\ t \in Int /\ last \in Int /\ cursor \in Int
        BY DEF IInv, Collected, TypeOK, Tags
      <4>2. t <= last
        BY <2>3, <4>1
      <4>3. CASE t <= cursor
        BY <2>1, <4>3 DEF IInv, Collected
      <4>4. CASE cursor < t
        BY <4>1, <4>2, <4>4
      <4>5. QED
        BY <4>1, <4>3, <4>4
    <3>5. answer.kind = "busy"
      BY <2>1 DEF IInv, Busy
    <3>6. TL!AnswerTags
      BY <2>1, <3>1, <3>2, <3>3, <3>4, <3>5 DEF TL!AnswerTags
    <3>7. QED
      BY <3>6 DEF TL!Next
  <2>4. QED
    BY <2>2, <2>3
<1>3. CASE RequestFails
  <2>1. TL!AnswerError
    BY <1>3 DEF RequestFails, Return, TL!AnswerError, IInv, Busy
  <2>2. QED
    BY <2>1 DEF TL!Next
<1>4. CASE Unauthorized \/ TokenGranted \/ Expire \/ Cancel \/ UNCHANGED vars
  BY <1>4 DEF Unauthorized, TokenGranted, Expire, Cancel, vars
<1>5. ASSUME NEW t \in Tags, Push(t) \/ Delete(t)
      PROVE  [TL!Next]_(TL!vars)
  BY <1>5 DEF Push, Delete, TL!Next
<1>6. QED
  BY <1>1, <1>2, <1>3, <1>4, <1>5 DEF Next, Answered

\* listTags implements the listing the resolver relies on: an answer misses no
\* tag that was there all along and shows none that never was, whatever the page
\* sizes, tokens and changes in the repository (resolver.go:341-393).
THEOREM Refinement == Spec => ImplementsTagListing
BY Invariant, RefinesInit, RefinesStep, PTL DEF Spec, ImplementsTagListing, TL!Spec
=============================================================================
