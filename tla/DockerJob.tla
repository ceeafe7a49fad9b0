----------------------------- MODULE DockerJob -----------------------------
(***************************************************************************)
(* A run of the docker job up to its checks: the collector takes a         *)
(* snapshot of the host, the docker resolver goes through it observation   *)
(* by observation, asks the registry for the tags of a repository it has   *)
(* not listed yet and derives a verdict.  Containers are replaced and tags *)
(* are pushed and deleted meanwhile.                                       *)
(*                                                                         *)
(* A listing is taken at its word, as TagListing has it: it misses no tag  *)
(* that was there all along and shows none that was never there.           *)
(***************************************************************************)
EXTENDS DockerCollector

CONSTANTS
  Repos,        \* repositories of the registries the resolver supports
  Hosts,        \* sets of containers the host may run
  Tags,         \* tags a repository may have
  MaxChanges,   \* bound on the number of pushes and deletions
  MaxRuns       \* bound on the number of runs

\* A host runs finitely many containers; what the pattern finds in a text are
\* numbers.
ASSUME JobAssumption ==
  /\ MaxChanges \in Nat
  /\ MaxRuns \in Nat
  /\ \A t \in Tags : t.nums \in Seq(Nat)
  /\ \A H \in Hosts : /\ IsFiniteSet(H)
                      /\ \A c \in H : {c.tag.nums, c.version.nums} \subseteq Seq(Nat)

\* No two containers of a host have the same name: docker refuses the second.
ASSUME NamesAssumption == \A H \in Hosts : \A c, d \in H : c.name = d.name => c = d

VARIABLES
  watchByDefault,  \* the collector's setting
  host,            \* the containers the host runs now
  registry,        \* the tags of each repository now
  steady, seen,    \* history: per repository, the tags there all along and
                   \* at some moment since its last listing began
  pc,              \* "idle" | "resolve" | "list"
  taken,           \* history: the containers the snapshot was taken of
  snapshot,        \* the observations of the run
  cache,           \* per repository, {} or the set of its one tag list
  results,         \* the checks so far
  changes, runs    \* counters for the bounds

vars == <<watchByDefault, host, registry, steady, seen, pc, taken, snapshot,
          cache, results, changes, runs>>

world == <<watchByDefault, host, registry>>
bounds == <<changes, runs>>

Init ==
  /\ watchByDefault \in BOOLEAN
  /\ host \in Hosts
  /\ registry \in [Repos -> {S \in SUBSET Tags : S # {}}]
  /\ steady = registry
  /\ seen = registry
  /\ pc = "idle"
  /\ taken = {}
  /\ snapshot = <<>>
  /\ cache = [r \in Repos |-> {}]
  /\ results = <<>>
  /\ changes = 0
  /\ runs = 0

-----------------------------------------------------------------------------
\* The collector asks the docker API once; the resolver starts with an empty
\* cache.
Collect ==
  /\ pc = "idle"
  /\ runs < MaxRuns
  /\ runs' = runs + 1
  /\ snapshot' \in Snapshots(watchByDefault, host)
  /\ taken' = host
  /\ cache' = [r \in Repos |-> {}]
  /\ results' = <<>>
  /\ pc' = "resolve"
  /\ UNCHANGED <<world, steady, seen, changes>>

observation == snapshot[Len(results) + 1]
More == pc = "resolve" /\ Len(results) < Len(snapshot)

Check(status, latest) ==
  [service |-> observation.service,
   current |-> selectReportedCurrentVersion(observation),
   latest  |-> latest,
   status  |-> status]

Supported == observation.repo \in Repos
Comparable == Parses(selectComparisonVersion(observation))

Unsupported ==
  /\ More
  /\ ~ Supported \/ ~ Comparable
  /\ results' = Append(results, Check("unsupported", Blank))
  /\ UNCHANGED <<world, steady, seen, pc, taken, snapshot, cache, bounds>>

AskForTags ==
  /\ More
  /\ Supported /\ Comparable
  /\ cache[observation.repo] = {}
  /\ pc' = "list"
  /\ steady' = [steady EXCEPT ![observation.repo] = registry[observation.repo]]
  /\ seen' = [seen EXCEPT ![observation.repo] = registry[observation.repo]]
  /\ UNCHANGED <<world, taken, snapshot, cache, results, bounds>>

\* A failed listing is not remembered: the next observation asks again.
ListingFails ==
  /\ pc = "list"
  /\ pc' = "resolve"
  /\ results' = Append(results, Check("error", Blank))
  /\ UNCHANGED <<world, steady, seen, taken, snapshot, cache, bounds>>

Resolves(tags) ==
  \E r \in determineResolution(selectComparisonVersion(observation), tags) :
    results' = Append(results, Check(r.status, r.latest))

\* Mutant: the tags are not kept for the next observation.
ListingForgotten ==
  /\ pc = "list"
  /\ \E tags \in SUBSET seen[observation.repo] :
       /\ steady[observation.repo] \subseteq tags
       /\ Resolves(tags)
  /\ pc' = "resolve"
  /\ UNCHANGED <<world, steady, seen, taken, snapshot, cache, bounds>>

ListingAnswers ==
  /\ pc = "list"
  /\ \E tags \in SUBSET seen[observation.repo] :
       /\ steady[observation.repo] \subseteq tags
       /\ cache' = [cache EXCEPT ![observation.repo] = {tags}]
       /\ Resolves(tags)
  /\ pc' = "resolve"
  /\ UNCHANGED <<world, steady, seen, taken, snapshot, bounds>>

FromCache ==
  /\ More
  /\ Supported /\ Comparable
  /\ \E tags \in cache[observation.repo] : Resolves(tags)
  /\ UNCHANGED <<world, steady, seen, pc, taken, snapshot, cache, bounds>>

\* Resolve returns the checks.
Finish ==
  /\ pc = "resolve"
  /\ Len(results) = Len(snapshot)
  /\ pc' = "idle"
  /\ UNCHANGED <<world, steady, seen, taken, snapshot, cache, results, bounds>>

-----------------------------------------------------------------------------
(***************************************************************************)
(* The environment                                                         *)
(***************************************************************************)
Redeploy ==
  /\ pc # "idle"
  /\ host' \in Hosts \ {host}
  /\ UNCHANGED <<watchByDefault, registry, steady, seen, pc, taken, snapshot,
                 cache, results, bounds>>

Push(r, t) ==
  /\ changes < MaxChanges
  /\ t \notin registry[r]
  /\ registry' = [registry EXCEPT ![r] = @ \cup {t}]
  /\ seen' = [seen EXCEPT ![r] = @ \cup {t}]
  /\ changes' = changes + 1
  /\ UNCHANGED <<watchByDefault, host, steady, pc, taken, snapshot, cache, results, runs>>

Delete(r, t) ==
  /\ changes < MaxChanges
  /\ t \in registry[r]
  /\ registry' = [registry EXCEPT ![r] = @ \ {t}]
  /\ steady' = [steady EXCEPT ![r] = @ \ {t}]
  /\ changes' = changes + 1
  /\ UNCHANGED <<watchByDefault, host, seen, pc, taken, snapshot, cache, results, runs>>

Next ==
  \/ Collect
  \/ Unsupported \/ AskForTags \/ ListingFails \/ ListingAnswers \/ FromCache
  \/ Finish
  \/ Redeploy
  \/ \E r \in Repos, t \in Tags : Push(r, t) \/ Delete(r, t)

Spec == Init /\ [][Next]_vars

-----------------------------------------------------------------------------
TypeOK ==
  /\ watchByDefault \in BOOLEAN
  /\ host \in Hosts
  /\ registry \in [Repos -> SUBSET Tags]
  /\ steady \in [Repos -> SUBSET Tags]
  /\ seen \in [Repos -> SUBSET Tags]
  /\ pc \in {"idle", "resolve", "list"}
  /\ taken \in Hosts \cup {{}}
  /\ Len(results) <= Len(snapshot)
  /\ \A r \in Repos : cache[r] = {} \/ \E S \in SUBSET Tags : cache[r] = {S}
  /\ \A i \in DOMAIN results :
       /\ results[i].current # Blank
       /\ results[i].latest \in Tags \cup {Blank}
       /\ results[i].status \in {"unsupported", "unknown", "current", "outdated", "error"}
  /\ changes \in 0 .. MaxChanges
  /\ runs \in 0 .. MaxRuns

Verdicts == {"current", "outdated"}

\* Observation i was resolved; the i-th check is the one made of it.
Resolved == DOMAIN results

Newer(t, current) == SameScheme(t, current) /\ compareNumbers(current.nums, t.nums) < 0

\* A verdict is true of the registry at the time its listing ran: the latest
\* version of an outdated service was there and is newer, and a service is
\* called current only if no newer release of its scheme was there all along.
\* If its own tag was there all along, the latest version beside it equals it,
\* whichever of several equal tags is picked: an older latest beside a newer
\* current can only mean that the deployed tag was deleted (Resolve and
\* determineResolution, resolver.go:69-181).
VerdictsAreTrue ==
  \A i \in Resolved :
    LET ck == results[i]
        o  == snapshot[i]
    IN  /\ ck.status = "outdated" =>
             ck.latest \in seen[o.repo] /\ Newer(ck.latest, selectComparisonVersion(o))
        /\ ck.status \in {"current", "unknown"} =>
             \A t \in steady[o.repo] :
               Parses(t) => ~ Newer(t, selectComparisonVersion(o))
        /\ ck.status = "current" /\ selectComparisonVersion(o) \in steady[o.repo] =>
             compareNumbers(selectComparisonVersion(o).nums, ck.latest.nums) = 0

\* Two containers of one image get the same verdict within a run, whatever
\* happens in the registry between them (the cache of Resolve, resolver.go:71).
SameImageSameVerdict ==
  \A i, j \in Resolved :
    /\ snapshot[i].repo = snapshot[j].repo /\ snapshot[i].tag = snapshot[j].tag
    /\ snapshot[i].current = snapshot[j].current
    /\ results[i].status # "error" /\ results[j].status # "error"
    => /\ results[i].status = results[j].status
       /\ results[i].latest.nums = results[j].latest.nums

\* The version a verdict was derived from is the one that is published beside
\* it, although collector and resolver parse versions differently and prefer
\* label and tag differently (collector.go:367-396, resolver.go:209-229).
VerdictIsAboutReported ==
  \A i \in Resolved :
    results[i].status \in Verdicts =>
      results[i].current = selectComparisonVersion(snapshot[i])

Documented == {"up2date.watch=true", "up2date.watch=false", "up2date.ignore=true"}

OptedOut(c) ==
  IF watchByDefault
  THEN c.labels \cap {"up2date.watch=false", "up2date.ignore=true"} # {}
  ELSE "up2date.watch=true" \notin c.labels

\* The checks of a finished run are about the containers the snapshot was taken
\* of, every watched one once and in the order of the snapshot, whatever was
\* redeployed and whichever listing failed meanwhile; a container that is opted
\* out never shows up (collector.go:115-144, resolver.go:73-123).
EveryWatchedOnce ==
  (pc = "idle" /\ runs > 0) =>
    /\ [i \in Resolved |-> results[i].service] = [i \in DOMAIN snapshot |-> snapshot[i].service]
    /\ \A c \in taken :
         c.labels \subseteq Documented =>
           Cardinality({i \in DOMAIN snapshot : snapshot[i].container = c.name})
             = IF OptedOut(c) THEN 0 ELSE 1

\* README.md:303: with watch_by_default=false only containers with the label
\* up2date.watch=true are observed (shouldExclude, collector.go:331-347).
OptInNeedsWatchLabel ==
  ~ watchByDefault =>
    \A c \in taken : \A i \in DOMAIN snapshot :
      snapshot[i].container = c.name => "up2date.watch=true" \in c.labels

-----------------------------------------------------------------------------
(***************************************************************************)
(* Why these properties hold: an invariant that every step preserves.      *)
(***************************************************************************)
\* The observations are those of a host that was there when the run began.
SnapshotOfTaken ==
  IF runs = 0 THEN pc = "idle" /\ taken = {} /\ snapshot = <<>>
  ELSE taken \in Hosts /\ snapshot \in Snapshots(watchByDefault, taken)

Statuses == {"unsupported", "unknown", "current", "outdated", "error"}

\* A check carries a name and a version of some observation.
CheckRecords ==
  LET observed == {snapshot[i] : i \in DOMAIN snapshot}
  IN  [service : {o.service : o \in observed},
       current : {selectReportedCurrentVersion(o) : o \in observed},
       latest  : Tags \cup {Blank},
       status  : Statuses]

\* A listing is under way only for an observation that needs one, and a run
\* ends with its last observation.
Progress ==
  /\ results \in Seq(CheckRecords)
  /\ pc = "list" =>
       /\ Len(results) < Len(snapshot)
       /\ Supported /\ Comparable
       /\ cache[observation.repo] = {}
  /\ pc = "idle" => Len(results) = Len(snapshot)

\* A cached listing misses no tag that was there all along since it began and
\* has none that never was.
CacheIsHonest ==
  /\ cache \in [Repos -> SUBSET SUBSET Tags]
  /\ \A r \in Repos : \A tags \in cache[r] : steady[r] \subseteq tags /\ tags \subseteq seen[r]

\* A check is what the resolver makes of an observation and of the tags that
\* are still cached for its repository.
Follows(ck, o) ==
  LET current == selectComparisonVersion(o)
  IN  /\ ck.service = o.service
      /\ ck.current = selectReportedCurrentVersion(o)
      /\ \/ ck.status = "error" /\ ck.latest = Blank
         \/ /\ o.repo \notin Repos \/ ~ Parses(current)
            /\ ck.status = "unsupported" /\ ck.latest = Blank
         \/ /\ o.repo \in Repos /\ Parses(current)
            /\ \E tags \in cache[o.repo] :
                 Resolution(ck.status, ck.latest) \in determineResolution(current, tags)

ChecksFollow == \A i \in Resolved : Follows(results[i], snapshot[i])

\* The inductive invariant behind the five properties of a run (Collect,
\* collector.go:115-144; Resolve, resolver.go:69-124).
RunInv == TypeOK /\ SnapshotOfTaken /\ Progress /\ CacheIsHonest /\ ChecksFollow
=============================================================================
