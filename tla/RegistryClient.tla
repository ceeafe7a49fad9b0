--------------------------- MODULE RegistryClient ---------------------------
(***************************************************************************)
(* listTags of the docker resolver against an OCI registry.  The client    *)
(* asks for one page after the other along the Link headers and collects   *)
(* the tags; a 401 makes it fetch a token for the challenge and ask for    *)
(* the same page again.  Tags are pushed and deleted meanwhile, tokens     *)
(* expire, every request may fail.                                         *)
(*                                                                         *)
(* The registry is external.  It lists tags in order, and a Link names the *)
(* last tag of the page it came with, as the distribution API asks; tags   *)
(* are numbered in that order.  A page may be shorter than the 1000 tags   *)
(* the client asks for.                                                    *)
(***************************************************************************)
EXTENDS Integers

CONSTANTS
  LastTag,       \* tags are numbered 1 .. LastTag
  Registries,    \* kinds of registry: subset of {"open", "token", "refuse"}
  MaxExpiries,   \* bound on the number of times a token expires
  MaxListings    \* bound on the number of calls of listTags

RegistryKinds == {"open", "token", "refuse"}

ASSUME RegistryAssumption ==
  /\ LastTag \in Nat
  /\ Registries \subseteq RegistryKinds
  /\ MaxExpiries \in Nat
  /\ MaxListings \in Nat

Tags == 1 .. LastTag

VARIABLES
  registry,   \* does it serve anyone, whoever has a fresh token, or nobody?
  tags,       \* the tags of the repository now
  steady,     \* history: the tags there since the listing began
  seen,       \* history: the tags there at some moment since it began
  cancelled,  \* the context is cancelled
  pc,         \* "idle" | "request" | "token": the request that is under way
  token,      \* "none" | "fresh" | "stale"
  cursor,     \* nextURL: tags up to here are not asked for again
  tagSet,     \* the tags collected
  answer,     \* what the last call returned
  expiries,   \* number of expiries so far
  listings    \* number of calls so far

TL == INSTANCE TagListing WITH Tags <- Tags, tags <- tags, steady <- steady,
                              seen <- seen, answer <- answer

vars == <<registry, tags, steady, seen, cancelled, pc, token, cursor, tagSet,
          answer, expiries, listings>>

repo   == <<registry, tags, steady, seen>>
bounds == <<expiries, listings>>

Init ==
  /\ registry \in Registries
  /\ tags \in SUBSET Tags
  /\ steady = tags
  /\ seen = tags
  /\ cancelled = FALSE
  /\ pc = "idle"
  /\ token = "none"
  /\ cursor = 0
  /\ tagSet = {}
  /\ answer = TL!Ended("none")
  /\ expiries = 0
  /\ listings = 0

-----------------------------------------------------------------------------
(***************************************************************************)
(* listTags                                                                *)
(***************************************************************************)
\* Every call starts without a token and on the first page.
ListTags ==
  /\ pc = "idle"
  /\ listings < MaxListings
  /\ listings' = listings + 1
  /\ pc' = "request"
  /\ token' = "none"
  /\ cursor' = 0
  /\ tagSet' = {}
  /\ answer' = TL!Ended("busy")
  /\ steady' = tags
  /\ seen' = tags
  /\ UNCHANGED <<registry, tags, cancelled, expiries>>

Return(a) ==
  /\ pc' = "idle"
  /\ answer' = a

\* Mutant: requests are made without the context.
SentAnyway == TRUE

\* A request that starts with a cancelled context is not sent.
Sent == ~ cancelled

Serves == registry = "open" \/ (registry = "token" /\ token = "fresh")

\* The Link header of a page that ends with this tag: linkNextURL finds the
\* next page in it when more tags follow, and nothing otherwise.
HasNext(last) == \E t \in tags : t > last

\* Mutant: each page replaces the one before.
LastPageOnly(last) ==
  /\ pc = "request" /\ Sent
  /\ Serves
  /\ LET more == HasNext(last)
         page == {t \in tags : cursor < t /\ t <= last}
     IN  /\ last > cursor \/ (last = cursor /\ ~ more)
         /\ tagSet' = page
         /\ IF more
            THEN cursor' = last /\ UNCHANGED <<pc, answer>>
            ELSE Return(TL!Listed(page)) /\ UNCHANGED cursor
  /\ UNCHANGED <<repo, cancelled, token, bounds>>

\* Mutant: the next page is asked for one tag too late.
PageSkips(last) ==
  /\ pc = "request" /\ Sent
  /\ Serves
  /\ LET more == HasNext(last)
         all  == tagSet \cup {t \in tags : cursor < t /\ t <= last}
     IN  /\ last > cursor \/ (last = cursor /\ ~ more)
         /\ tagSet' = all
         /\ IF more
            THEN cursor' = last + 1 /\ UNCHANGED <<pc, answer>>
            ELSE Return(TL!Listed(all)) /\ UNCHANGED cursor
  /\ UNCHANGED <<repo, cancelled, token, bounds>>

\* The registry shows the tags after the cursor, up to some tag; without a next
\* page the loop ends.
Page(last) ==
  /\ pc = "request" /\ Sent
  /\ Serves
  /\ LET more == HasNext(last)
         all  == tagSet \cup {t \in tags : cursor < t /\ t <= last}
     IN  /\ last > cursor \/ (last = cursor /\ ~ more)
         /\ tagSet' = all
         /\ IF more
            THEN cursor' = last /\ UNCHANGED <<pc, answer>>
            ELSE Return(TL!Listed(all)) /\ UNCHANGED cursor
  /\ UNCHANGED <<repo, cancelled, token, bounds>>

\* 401 with a challenge header.
Unauthorized ==
  /\ pc = "request" /\ Sent
  /\ ~ Serves
  /\ pc' = "token"
  /\ UNCHANGED <<repo, cancelled, token, cursor, tagSet, answer, bounds>>

\* Mutant: the new token is not used.
TokenIgnored ==
  /\ pc = "token" /\ Sent
  /\ pc' = "request"
  /\ UNCHANGED <<repo, cancelled, token, cursor, tagSet, answer, bounds>>

\* The token endpoint hands out a token, also one that will not be accepted.
TokenGranted ==
  /\ pc = "token" /\ Sent
  /\ token' = "fresh"
  /\ pc' = "request"
  /\ UNCHANGED <<repo, cancelled, cursor, tagSet, answer, bounds>>

\* Mutant: what was collected is returned beside the error.
RequestFailsWithTags ==
  /\ pc \in {"request", "token"}
  /\ Return([kind |-> "error", tags |-> tagSet])
  /\ UNCHANGED <<repo, cancelled, token, cursor, tagSet, bounds>>

\* Any other outcome of a request: the context is cancelled, the client times
\* out, a status of 400 or more, a 401 without challenge, an unusable body or
\* an answer without token.  What was collected is dropped.
RequestFails ==
  /\ pc \in {"request", "token"}
  /\ Return(TL!Ended("error"))
  /\ UNCHANGED <<repo, cancelled, token, cursor, tagSet, bounds>>

-----------------------------------------------------------------------------
(***************************************************************************)
(* The environment                                                         *)
(***************************************************************************)
Expire ==
  /\ token = "fresh"
  /\ expiries < MaxExpiries
  /\ expiries' = expiries + 1
  /\ token' = "stale"
  /\ UNCHANGED <<repo, cancelled, pc, cursor, tagSet, answer, listings>>

Push(t) ==
  /\ TL!Push(t)
  /\ UNCHANGED <<registry, cancelled, pc, token, cursor, tagSet, bounds>>

Delete(t) ==
  /\ TL!Delete(t)
  /\ UNCHANGED <<registry, cancelled, pc, token, cursor, tagSet, bounds>>

Cancel ==
  /\ ~ cancelled
  /\ cancelled' = TRUE
  /\ UNCHANGED <<repo, pc, token, cursor, tagSet, answer, bounds>>

\* A request ends: the http client has a timeout of 20 seconds.
Answered ==
  \/ \E last \in 0 .. LastTag : Page(last)
  \/ Unauthorized
  \/ TokenGranted
  \/ RequestFails

Next ==
  \/ ListTags
  \/ Answered
  \/ Expire
  \/ \E t \in Tags : Push(t) \/ Delete(t)
  \/ Cancel

Fairness == WF_vars(Answered)

Spec == Init /\ [][Next]_vars /\ Fairness

-----------------------------------------------------------------------------
TypeOK ==
  /\ registry \in Registries
  /\ tags \in SUBSET Tags
  /\ steady \in SUBSET Tags
  /\ seen \in SUBSET Tags
  /\ cancelled \in BOOLEAN
  /\ pc \in {"idle", "request", "token"}
  /\ token \in {"none", "fresh", "stale"}
  /\ cursor \in 0 .. LastTag
  /\ tagSet \in SUBSET Tags
  /\ answer \in TL!Answers
  /\ expiries \in 0 .. MaxExpiries
  /\ listings \in 0 .. MaxListings

\* Why a listing is complete: what was there up to the cursor all along has
\* been collected, across tokens fetched between two pages (resolver.go:346-385).
Collected ==
  /\ steady \subseteq tags /\ tags \subseteq seen
  /\ pc # "idle" => /\ \A t \in steady : t <= cursor => t \in tagSet
                    /\ tagSet \subseteq seen

\* listTags implements the abstract listing, however often it has to fetch a
\* token between two pages (resolver.go:341-393).
ImplementsTagListing == TL!Spec

\* README.md:316: the resolver's result, also an error, ends up in a check; so
\* every listing has to end (resolver.go:346-385).
ListingReturns == (pc # "idle") ~> (pc = "idle")

\* Every other listing ends: of a registry that accepts what it hands out,
\* whatever is pushed or deleted meanwhile, unless tokens expire for ever (here
\* at most MaxExpiries times); and, once the context is cancelled, even of one
\* that answers each new token with a 401
\* (resolver.go:346-385, 445-460).
ListingEnds == (pc # "idle" /\ (registry # "refuse" \/ cancelled)) ~> (pc = "idle")
=============================================================================
