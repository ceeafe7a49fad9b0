----------------------------- MODULE PackageJob -----------------------------
(***************************************************************************)
(* A run of the package job up to its checks.  The collector asks the      *)
(* package manager for one package after the other; a package that is not  *)
(* installed is observed without version, any other failure fails the run. *)
(* Then the resolver goes through the observations: none has no opinion,   *)
(* brew_formula asks brew again, up to twice for each formula.  Every      *)
(* question is a process of its own, and packages are installed, upgraded  *)
(* and removed between any two of them.                                    *)
(*                                                                         *)
(* The package manager is external.  Versions are numbered in the order    *)
(* they are released; 0 is the blank version.  The names the collector     *)
(* asks for are distinct, so the caches of brew_formula never answer and   *)
(* are left out.                                                           *)
(***************************************************************************)
EXTENDS Integers, Sequences

CONSTANTS
  NPackages,    \* packages to ask for, numbered in the order of their names
  MaxVersion,   \* versions are 0 .. MaxVersion
  MaxRuns       \* bound on the number of runs

ASSUME PackageAssumption ==
  /\ NPackages \in Nat \ {0}
  /\ MaxVersion \in Nat \ {0}
  /\ MaxRuns \in Nat

Packages == 1 .. NPackages
Versions == 0 .. MaxVersion

VARIABLES
  manager,    \* "dpkg" | "brew"
  resolver,   \* "none" | "brew_formula"
  installed,  \* per package, the version installed, 0 when none is
  newest,     \* per package, the newest version the manager knows
  upgraded,   \* history: packages that changed since they were collected
  pc,         \* "idle" | "collect" | "resolve" | "outdated"
  observed,   \* the versions collected so far, by package
  checks,     \* the checks so far, by package
  asked,      \* history: newest when the resolver last asked
  runs        \* number of runs so far

vars == <<manager, resolver, installed, newest, upgraded, pc, observed, checks,
          asked, runs>>

settings == <<manager, resolver>>
system   == <<installed, newest>>

Init ==
  /\ manager \in {"dpkg", "brew"}
  /\ resolver \in {"none", "brew_formula"}
  /\ newest \in [Packages -> Versions \ {0}]
  /\ installed \in [Packages -> Versions]
  /\ \A p \in Packages : installed[p] <= newest[p]
  /\ upgraded = {}
  /\ pc = "idle"
  /\ observed = <<>>
  /\ checks = <<>>
  /\ asked = 0
  /\ runs = 0

-----------------------------------------------------------------------------
(***************************************************************************)
(* Collect                                                                 *)
(***************************************************************************)
Start ==
  /\ pc = "idle"
  /\ runs < MaxRuns
  /\ runs' = runs + 1
  /\ pc' = "collect"
  /\ observed' = <<>>
  /\ checks' = <<>>
  /\ UNCHANGED <<settings, system, upgraded, asked>>

\* Version of the next package, or errPackageNotInstalled.
CollectPackage ==
  /\ pc = "collect"
  /\ LET p == Len(observed) + 1
     IN  /\ observed' = Append(observed, installed[p])
         /\ upgraded' = upgraded \ {p}
         /\ pc' = IF p = NPackages THEN "resolve" ELSE "collect"
  /\ UNCHANGED <<settings, system, checks, asked, runs>>

\* The command is missing, is killed, or prints something unexpected.
CollectFails ==
  /\ pc = "collect"
  /\ pc' = "idle"
  /\ observed' = <<>>
  /\ UNCHANGED <<settings, system, upgraded, checks, asked, runs>>

-----------------------------------------------------------------------------
(***************************************************************************)
(* Resolve                                                                 *)
(***************************************************************************)
package == Len(checks) + 1

Check(status, latest) ==
  [current |-> observed[package], latest |-> latest, status |-> status]

\* The check of the package is finished; the last one ends Resolve.
Done(status, latest) ==
  /\ checks' = Append(checks, Check(status, latest))
  /\ pc' = IF package = NPackages THEN "idle" ELSE "resolve"

ResolveNone ==
  /\ pc = "resolve" /\ resolver = "none"
  /\ Done("unknown", 0)
  /\ UNCHANGED <<settings, system, upgraded, observed, asked, runs>>

ResolveUnsupported ==
  /\ pc = "resolve" /\ resolver = "brew_formula" /\ manager # "brew"
  /\ Done("unsupported", 0)
  /\ UNCHANGED <<settings, system, upgraded, observed, asked, runs>>

Outdated(p) == installed[p] # 0 /\ installed[p] < newest[p]

\* Mutant: the flag of brew info is not looked at.
ResolveInfoBlindly ==
  /\ pc = "resolve" /\ resolver = "brew_formula" /\ manager = "brew"
  /\ asked' = newest[package]
  /\ IF installed[package] = 0 \/ observed[package] = 0
     THEN Done("unknown", 0) ELSE Done("current", observed[package])
  /\ UNCHANGED <<settings, system, upgraded, observed, runs>>

\* brew info: without the outdated flag the version collected is the latest.
ResolveInfo ==
  /\ pc = "resolve" /\ resolver = "brew_formula" /\ manager = "brew"
  /\ asked' = newest[package]
  /\ CASE installed[package] = 0 \/ observed[package] = 0 -> Done("unknown", 0)
       [] installed[package] # 0 /\ observed[package] # 0 /\ ~ Outdated(package) ->
            Done("current", observed[package])
       [] OTHER -> pc' = "outdated" /\ UNCHANGED checks
  /\ UNCHANGED <<settings, system, upgraded, observed, runs>>

\* Mutant: an empty answer is taken for the version that is known.
ResolveOutdatedBlindly ==
  /\ pc = "outdated"
  /\ Done("outdated", IF Outdated(package) THEN newest[package] ELSE observed[package])
  /\ UNCHANGED <<settings, system, upgraded, observed, asked, runs>>

\* brew outdated: an empty answer leaves no latest version.
ResolveOutdated ==
  /\ pc = "outdated"
  /\ IF Outdated(package) THEN Done("outdated", newest[package]) ELSE Done("unknown", 0)
  /\ UNCHANGED <<settings, system, upgraded, observed, asked, runs>>

\* Mutant: the first command that fails ends Resolve.
ResolveGivesUp ==
  /\ \/ pc = "outdated"
     \/ pc = "resolve" /\ resolver = "brew_formula" /\ manager = "brew"
  /\ pc' = "idle"
  /\ UNCHANGED <<settings, system, upgraded, observed, checks, asked, runs>>

\* A brew command fails: the others are still asked for.
ResolveFails ==
  /\ \/ pc = "outdated"
     \/ pc = "resolve" /\ resolver = "brew_formula" /\ manager = "brew"
  /\ Done("error", 0)
  /\ UNCHANGED <<settings, system, upgraded, observed, asked, runs>>

-----------------------------------------------------------------------------
(***************************************************************************)
(* The environment: what an administrator does.  Packages are not          *)
(* downgraded.                                                             *)
(***************************************************************************)
InstallOrUpgrade(p) ==
  /\ installed[p] < newest[p]
  /\ installed' = [installed EXCEPT ![p] = newest[p]]
  /\ upgraded' = upgraded \cup {p}
  /\ UNCHANGED <<settings, newest, pc, observed, checks, asked, runs>>

Remove(p) ==
  /\ installed[p] # 0
  /\ installed' = [installed EXCEPT ![p] = 0]
  /\ upgraded' = upgraded \cup {p}
  /\ UNCHANGED <<settings, newest, pc, observed, checks, asked, runs>>

\* A new version becomes known; brew updates itself when the collector asks.
Release(p) ==
  /\ newest[p] < MaxVersion
  /\ newest' = [newest EXCEPT ![p] = @ + 1]
  /\ UNCHANGED <<settings, installed, upgraded, pc, observed, checks, asked, runs>>

Next ==
  \/ Start \/ CollectPackage \/ CollectFails
  \/ ResolveNone \/ ResolveUnsupported \/ ResolveInfo \/ ResolveOutdated \/ ResolveFails
  \/ \E p \in Packages : InstallOrUpgrade(p) \/ Remove(p) \/ Release(p)

Spec == Init /\ [][Next]_vars

-----------------------------------------------------------------------------
Statuses == {"unknown", "unsupported", "current", "outdated", "error"}

TypeOK ==
  /\ manager \in {"dpkg", "brew"}
  /\ resolver \in {"none", "brew_formula"}
  /\ installed \in [Packages -> Versions]
  /\ newest \in [Packages -> Versions]
  /\ upgraded \in SUBSET Packages
  /\ pc \in {"idle", "collect", "resolve", "outdated"}
  /\ observed \in Seq(Versions)
  /\ checks \in Seq([current : Versions, latest : Versions, status : Statuses])
  /\ asked \in Versions
  /\ runs \in 0 .. MaxRuns

\* A run hands over a check for every package or none at all
\* (Collect, collector.go:69-84).
AllOrNothing ==
  pc = "idle" => Len(checks) \in {0, NPackages} /\ Len(checks) = Len(observed)

\* A latest version is only published beside a current one, and an outdated
\* package is older than the latest version beside it, although three commands
\* at three times are behind the check (resolver.go:55-131).
LatestIsNewer ==
  \A p \in DOMAIN checks :
    /\ checks[p].latest # 0 => checks[p].current # 0
    /\ checks[p].status = "outdated" => checks[p].current < checks[p].latest
    /\ checks[p].status \in {"current", "outdated"} <=> checks[p].latest # 0

\* A package called current has the newest version there was when brew was
\* asked, unless it was upgraded, removed or installed between the collector's
\* question and the resolver's (collector.go:72, resolver.go:70-98).
CurrentUnlessTouched ==
  [][(/\ Len(checks') > Len(checks)
      /\ checks'[package].status = "current"
      /\ package \notin upgraded)
     => checks'[package].current = asked']_vars
=============================================================================
