--------------------------- MODULE PackageJobProofs ---------------------------
(***************************************************************************)
(* Proofs about PackageJob, for any number of packages, versions and runs: *)
(* a run hands over all checks or none, and what a check says of a package *)
(* is right although several questions at several times are behind it.     *)
(***************************************************************************)
EXTENDS PackageJob, TLAPS

\* How far collector and resolver are.
Progress ==
  /\ pc = "idle" => Len(checks) \in {0, NPackages} /\ Len(checks) = Len(observed)
  /\ pc = "collect" => checks = <<>> /\ Len(observed) < NPackages
  /\ pc \in {"resolve", "outdated"} => Len(observed) = NPackages /\ Len(checks) < NPackages

\* Nothing is installed that is newer than the newest.
Known == \A p \in Packages : installed[p] <= newest[p]

\* Packages are not downgraded: what was observed is not newer than what is
\* installed, unless it was removed, and is just that if nothing was touched.
Aging ==
  \A p \in DOMAIN observed :
    /\ observed[p] <= newest[p]
    /\ installed[p] # 0 => observed[p] <= installed[p]
    /\ p \notin upgraded => observed[p] = installed[p]

\* brew outdated is only asked about packages that were installed.
Asking == pc = "outdated" => observed[package] # 0

\* What LatestIsNewer says of one check.
Sound(ck) ==
  /\ ck.latest # 0 => ck.current # 0
  /\ ck.status = "outdated" => ck.current < ck.latest
  /\ ck.status \in {"current", "outdated"} <=> ck.latest # 0

AllSound == \A p \in DOMAIN checks : Sound(checks[p])

IInv == TypeOK /\ Progress /\ Known /\ Aging /\ Asking /\ AllSound

Checks == [current : Versions, latest : Versions, status : Statuses]

-----------------------------------------------------------------------------
\* Init establishes the invariant.
LEMMA InvInit == Init => IInv
<1> SUFFICES ASSUME Init PROVE IInv
  OBVIOUS
<1>1. /\ newest \in [Packages -> Versions] /\ installed \in [Packages -> Versions]
      /\ 0 \in Versions /\ 0 \in 0 .. MaxRuns
  BY PackageAssumption DEF PackageAssumption, Init, Versions
<1>2. TypeOK
  BY <1>1 DEF Init, TypeOK
<1>3. QED
  BY <1>2 DEF Init, IInv, Progress, Known, Aging, Asking, AllSound

\* A step that finishes the check of a package keeps the invariant if the check
\* is sound: every outcome of every question is such a step.
LEMMA DoneKeeps ==
  ASSUME IInv, pc \in {"resolve", "outdated"},
         NEW status \in Statuses, NEW latest \in Versions,
         Done(status, latest),
         Sound(Check(status, latest)),
         asked' \in Versions,
         UNCHANGED <<settings, system, upgraded, observed, runs>>
  PROVE  IInv'
<1> DEFINE ck == Check(status, latest)
<1>1. /\ observed \in Seq(Versions) /\ checks \in Seq(Checks)
      /\ Len(observed) = NPackages /\ Len(checks) < NPackages /\ NPackages \in Nat
      /\ Len(checks) \in Nat
  BY PackageAssumption DEF PackageAssumption, IInv, TypeOK, Progress, Checks
<1>2. package \in 1 .. Len(observed)
  BY <1>1 DEF package
<1>3. ck \in Checks
  BY <1>1, <1>2 DEF Check, Checks
<1>4. checks' = Append(checks, ck) /\ pc' = IF package = NPackages THEN "idle" ELSE "resolve"
  BY DEF Done
<1> HIDE DEF ck
<1>5. checks' \in Seq(Checks) /\ Len(checks') = Len(checks) + 1
  BY <1>1, <1>3, <1>4
<1>6. TypeOK'
  BY <1>4, <1>5 DEF IInv, TypeOK, Checks, settings, system
<1>7. Progress'
  BY <1>1, <1>4, <1>5 DEF Progress, package
<1>8. Known' /\ Aging'
  BY DEF IInv, Known, Aging, system
<1>9. AllSound'
  <2>1. Sound(ck)
    BY DEF ck
  <2>2. SUFFICES ASSUME NEW p \in DOMAIN checks' PROVE Sound(checks'[p])
    BY DEF AllSound, Sound
  <2>3. CASE p \in DOMAIN checks
    BY <1>1, <1>3, <1>4, <2>3 DEF IInv, AllSound
  <2>4. CASE p \notin DOMAIN checks
    BY <1>1, <1>3, <1>4, <1>5, <2>1, <2>2, <2>4
  <2>5. QED
    BY <2>3, <2>4
<1>10. QED
  BY <1>4, <1>6, <1>7, <1>8, <1>9 DEF IInv, Asking

\* The collector's steps: what is observed is what is installed at that moment.
LEMMA StartKeeps == ASSUME IInv, Start PROVE IInv'
<1>1. NPackages \in Nat \ {0} /\ runs' \in 0 .. MaxRuns
  BY PackageAssumption DEF PackageAssumption, IInv, TypeOK, Start
<1>2. QED
  BY <1>1 DEF IInv, TypeOK, Progress, Known, Aging, Asking, AllSound, Start, settings, system

LEMMA CollectKeeps == ASSUME IInv, CollectPackage PROVE IInv'
<1> DEFINE p == Len(observed) + 1
<1>1. /\ observed \in Seq(Versions) /\ NPackages \in Nat /\ p \in Packages
      /\ Len(observed) < NPackages /\ checks = <<>>
  BY PackageAssumption DEF PackageAssumption, IInv, TypeOK, Progress, CollectPackage, Packages
<1>2. /\ observed' = Append(observed, installed[p]) /\ upgraded' = upgraded \ {p}
      /\ pc' = IF p = NPackages THEN "resolve" ELSE "collect"
      /\ UNCHANGED <<settings, system, checks, asked, runs>>
  BY DEF CollectPackage
<1>3. installed[p] \in Versions /\ installed[p] <= newest[p] /\ installed[p] \in Nat
  BY <1>1, PackageAssumption DEF PackageAssumption, IInv, TypeOK, Known, Versions
<1>4. observed' \in Seq(Versions) /\ Len(observed') = p
  BY <1>1, <1>2, <1>3
<1>5. TypeOK'
  BY <1>2, <1>4 DEF IInv, TypeOK, settings, system
<1>6. Progress'
  BY <1>1, <1>2, <1>4 DEF Progress
<1>7. Aging'
  <2> SUFFICES ASSUME NEW q \in DOMAIN observed'
               PROVE  /\ observed'[q] <= newest[q]
                      /\ installed[q] # 0 => observed'[q] <= installed[q]
                      /\ q \notin upgraded' => observed'[q] = installed[q]
    BY <1>2 DEF Aging, system
  <2>1. CASE q = p
    BY <1>1, <1>2, <1>3, <2>1
  <2>2. CASE q # p
    <3>1. q \in DOMAIN observed /\ observed'[q] = observed[q]
      BY <1>1, <1>2, <1>3, <1>4, <2>2
    <3>2. QED
      BY <1>2, <2>2, <3>1 DEF IInv, Aging
  <2>3. QED
    BY <2>1, <2>2
<1>8. QED
  BY <1>1, <1>2, <1>5, <1>6, <1>7 DEF IInv, Known, Asking, AllSound, system

LEMMA CollectFailsKeeps == ASSUME IInv, CollectFails PROVE IInv'
<1>1. observed' = <<>> /\ pc' = "idle" /\ checks' = <<>> /\ checks = <<>>
  BY DEF IInv, Progress, CollectFails
<1>2. QED
  BY <1>1 DEF IInv, TypeOK, Progress, Known, Aging, Asking, AllSound, CollectFails, settings, system

-----------------------------------------------------------------------------
\* What the resolvers know of the package they are at.
LEMMA AtPackage ==
  ASSUME IInv, pc \in {"resolve", "outdated"}
  PROVE  /\ package \in Packages /\ package \in DOMAIN observed
         /\ observed[package] \in Versions /\ installed[package] \in Versions
         /\ newest[package] \in Versions /\ Versions \subseteq Nat /\ 0 \in Versions
<1>1. /\ observed \in Seq(Versions) /\ NPackages \in Nat /\ Len(checks) \in Nat
      /\ Len(observed) = NPackages /\ Len(checks) < NPackages
  BY PackageAssumption DEF PackageAssumption, IInv, TypeOK, Progress
<1>2. package \in 1 .. NPackages
  BY <1>1 DEF package
<1>3. QED
  BY <1>1, <1>2, PackageAssumption DEF PackageAssumption, IInv, TypeOK, Packages, Versions

\* The resolvers that ask nobody, and a question that fails.
LEMMA NoVerdictKeeps ==
  ASSUME IInv, ResolveNone \/ ResolveUnsupported \/ ResolveFails
  PROVE  IInv'
<1>1. PICK status \in {"unknown", "unsupported", "error"} : Done(status, 0)
  BY DEF ResolveNone, ResolveUnsupported, ResolveFails
<1>2. /\ pc \in {"resolve", "outdated"} /\ asked' = asked
      /\ UNCHANGED <<settings, system, upgraded, observed, runs>>
  BY DEF ResolveNone, ResolveUnsupported, ResolveFails
<1>3. status \in Statuses /\ 0 \in Versions /\ asked' \in Versions
  BY <1>1, <1>2, AtPackage DEF IInv, TypeOK, Statuses
<1>4. Sound(Check(status, 0))
  BY <1>1 DEF Sound, Check
<1>5. QED
  BY <1>1, <1>2, <1>3, <1>4, DoneKeeps

\* brew info: without the flag, the version that was observed is the latest.
LEMMA InfoKeeps == ASSUME IInv, ResolveInfo PROVE IInv'
<1>1. /\ pc = "resolve" /\ asked' = newest[package]
      /\ UNCHANGED <<settings, system, upgraded, observed, runs>>
  BY DEF ResolveInfo
<1>2. asked' \in Versions
  BY <1>1, AtPackage
<1>3. CASE installed[package] = 0 \/ observed[package] = 0
  <2>1. Done("unknown", 0)
    BY <1>3 DEF ResolveInfo
  <2>2. Sound(Check("unknown", 0)) /\ "unknown" \in Statuses
    BY DEF Sound, Check, Statuses
  <2>3. QED
    BY <1>1, <1>2, <2>1, <2>2, AtPackage, DoneKeeps
<1>4. CASE installed[package] # 0 /\ observed[package] # 0 /\ ~ Outdated(package)
  <2>1. Done("current", observed[package])
    BY <1>4 DEF ResolveInfo
  <2>2. Sound(Check("current", observed[package])) /\ "current" \in Statuses
    BY <1>4 DEF Sound, Check, Statuses
  <2>3. QED
    BY <1>1, <1>2, <2>1, <2>2, AtPackage, DoneKeeps
<1>5. CASE installed[package] # 0 /\ observed[package] # 0 /\ Outdated(package)
  <2>1. pc' = "outdated" /\ checks' = checks
    BY <1>5 DEF ResolveInfo
  <2>2. TypeOK' /\ Progress'
    BY <1>1, <1>2, <2>1 DEF IInv, TypeOK, Progress, settings, system
  <2>3. Known' /\ Aging' /\ Asking' /\ AllSound'
    BY <1>1, <1>5, <2>1 DEF IInv, Known, Aging, Asking, AllSound, package, system
  <2>4. QED
    BY <2>2, <2>3 DEF IInv
<1>6. QED
  BY <1>3, <1>4, <1>5

\* brew outdated: the newest version is newer than the one that was observed.
LEMMA OutdatedKeeps == ASSUME IInv, ResolveOutdated PROVE IInv'
<1>1. /\ pc = "outdated" /\ asked' = asked
      /\ UNCHANGED <<settings, system, upgraded, observed, runs>>
  BY DEF ResolveOutdated
<1>2. asked' \in Versions
  BY <1>1 DEF IInv, TypeOK
<1>3. CASE Outdated(package)
  <2>1. Done("outdated", newest[package])
    BY <1>3 DEF ResolveOutdated
  <2>2. observed[package] # 0 /\ observed[package] < newest[package]
    BY <1>1, <1>3, AtPackage DEF IInv, Asking, Aging, Outdated
  <2>3. newest[package] # 0
    BY <1>1, <2>2, AtPackage
  <2>4. Sound(Check("outdated", newest[package])) /\ "outdated" \in Statuses
    BY <2>2, <2>3 DEF Sound, Check, Statuses
  <2>5. QED
    BY <1>1, <1>2, <2>1, <2>4, AtPackage, DoneKeeps
<1>4. CASE ~ Outdated(package)
  <2>1. Done("unknown", 0)
    BY <1>4 DEF ResolveOutdated
  <2>2. Sound(Check("unknown", 0)) /\ "unknown" \in Statuses
    BY DEF Sound, Check, Statuses
  <2>3. QED
    BY <1>1, <1>2, <2>1, <2>2, AtPackage, DoneKeeps
<1>5. QED
  BY <1>3, <1>4

-----------------------------------------------------------------------------
\* Whatever an administrator does, versions only grow until they are removed.
LEMMA EnvironmentKeeps ==
  ASSUME IInv, NEW p \in Packages, InstallOrUpgrade(p) \/ Remove(p) \/ Release(p)
  PROVE  IInv'
<1>1. UNCHANGED <<settings, pc, observed, checks, asked, runs>>
  BY DEF InstallOrUpgrade, Remove, Release
<1>2. /\ installed \in [Packages -> Versions] /\ newest \in [Packages -> Versions]
      /\ MaxVersion \in Nat /\ observed \in Seq(Versions) /\ NPackages \in Nat
      /\ upgraded \in SUBSET Packages
  BY PackageAssumption DEF PackageAssumption, IInv, TypeOK
<1>3. /\ installed' \in [Packages -> Versions] /\ newest' \in [Packages -> Versions]
      /\ upgraded' \in SUBSET Packages
  <2>1. CASE InstallOrUpgrade(p)
    BY <1>2, <2>1 DEF InstallOrUpgrade
  <2>2. CASE Remove(p)
    <3>1. 0 \in Versions
      BY <1>2 DEF Versions
    <3>2. QED
      BY <1>2, <2>2, <3>1 DEF Remove
  <2>3. CASE Release(p)
    <3>1. newest[p] + 1 \in Versions
      BY <1>2, <2>3 DEF Release, Versions
    <3>2. QED
      BY <1>2, <2>3, <3>1 DEF Release
  <2>4. QED
    BY <2>1, <2>2, <2>3
<1>4. TypeOK'
  BY <1>1, <1>3 DEF IInv, TypeOK, settings
<1>5. \A q \in Packages :
        /\ installed'[q] <= newest'[q] /\ newest[q] <= newest'[q]
        /\ installed'[q] = installed[q] \/ installed'[q] = 0 \/ installed'[q] = newest[q]
        /\ q \notin upgraded' => q \notin upgraded /\ installed'[q] = installed[q]
  BY <1>2 DEF IInv, Known, InstallOrUpgrade, Remove, Release, Versions
<1>6. Known'
  BY <1>5 DEF Known
<1>7. Aging'
  <2> SUFFICES ASSUME NEW q \in DOMAIN observed
               PROVE  /\ observed[q] <= newest'[q]
                      /\ installed'[q] # 0 => observed[q] <= installed'[q]
                      /\ q \notin upgraded' => observed[q] = installed'[q]
    BY <1>1 DEF Aging
  <2>1. q \in Packages /\ observed[q] \in Nat /\ newest[q] \in Nat /\ newest'[q] \in Nat
    <3>1. Len(observed) <= NPackages
      BY <1>2 DEF IInv, Progress, TypeOK
    <3>2. q \in Packages /\ observed[q] \in Versions
      BY <1>2, <3>1 DEF Packages
    <3>3. QED
      BY <1>2, <1>3, <3>2 DEF Versions
  <2>2. QED
    BY <1>5, <2>1 DEF IInv, Aging
<1>8. QED
  BY <1>1, <1>4, <1>6, <1>7 DEF IInv, Progress, Asking, AllSound, package

\* Every step keeps the invariant.
LEMMA InvStep == IInv /\ [Next]_vars => IInv'
<1>1. ASSUME IInv, UNCHANGED vars PROVE IInv'
  BY <1>1 DEF IInv, TypeOK, Progress, Known, Aging, Asking, AllSound, package, vars
<1>2. QED
  BY <1>1, StartKeeps, CollectKeeps, CollectFailsKeeps, NoVerdictKeeps, InfoKeeps,
     OutdatedKeeps, EnvironmentKeeps DEF Next

\* The invariant holds in every state.
LEMMA Invariant == Spec => []IInv
BY InvInit, InvStep, PTL DEF Spec

-----------------------------------------------------------------------------
\* The variables keep their ranges (collector.go:69-112, resolver.go:55-131).
THEOREM TypeCorrect == Spec => []TypeOK
<1>1. IInv => TypeOK
  BY DEF IInv
<1>2. QED
  BY <1>1, Invariant, PTL

\* A run hands over a check for every package or none at all, whichever question
\* fails (Collect, collector.go:69-84).
THEOREM WholeSnapshots == Spec => []AllOrNothing
<1>1. IInv => AllOrNothing
  BY DEF IInv, Progress, AllOrNothing
<1>2. QED
  BY <1>1, Invariant, PTL

\* An outdated package is older than the latest version beside it, and a latest
\* version is never published without a current one, whatever is upgraded or
\* removed between the questions (resolver.go:55-131).
THEOREM LatestStaysNewer == Spec => []LatestIsNewer
<1>1. IInv => LatestIsNewer
  BY DEF IInv, AllSound, Sound, LatestIsNewer
<1>2. QED
  BY <1>1, Invariant, PTL

\* A package that is called current and was left alone since it was collected has
\* the newest version there was when brew was asked (resolver.go:70-98).
THEOREM CurrentIsNewest == Spec => CurrentUnlessTouched
<1> DEFINE Verdict == /\ Len(checks') > Len(checks)
                      /\ checks'[package].status = "current"
                      /\ package \notin upgraded
<1>1. ASSUME IInv, Next, Verdict PROVE checks'[package].current = asked'
  <2>1. checks \in Seq(Checks) /\ Len(checks) \in Nat
    BY <1>1 DEF IInv, TypeOK, Checks
  <2>2. ResolveInfo /\ Done("current", observed[package]) /\ ~ Outdated(package)
        /\ installed[package] # 0
    <3>1. CASE Start \/ CollectPackage \/ CollectFails
      BY <1>1, <2>1, <3>1 DEF Start, CollectPackage, CollectFails
    <3>2. CASE ResolveNone \/ ResolveUnsupported \/ ResolveFails \/ ResolveOutdated
      <4>1. PICK status \in {"unknown", "unsupported", "error", "outdated"} :
              \E latest : Done(status, latest)
        BY <3>2 DEF ResolveNone, ResolveUnsupported, ResolveFails, ResolveOutdated
      <4>2. checks'[package].status = status
        BY <2>1, <4>1 DEF Done, Check, package
      <4>3. QED
        BY <1>1, <4>1, <4>2
    <3>3. CASE ResolveInfo
      <4>1. CASE installed[package] = 0 \/ observed[package] = 0
        <5>1. Done("unknown", 0)
          BY <3>3, <4>1 DEF ResolveInfo
        <5>2. checks'[package].status = "unknown"
          BY <2>1, <5>1 DEF Done, Check, package
        <5>3. QED
          BY <1>1, <5>2
      <4>2. CASE installed[package] # 0 /\ observed[package] # 0 /\ Outdated(package)
        BY <1>1, <2>1, <3>3, <4>2 DEF ResolveInfo
      <4>3. CASE installed[package] # 0 /\ observed[package] # 0 /\ ~ Outdated(package)
        BY <3>3, <4>3 DEF ResolveInfo
      <4>4. QED
        BY <4>1, <4>2, <4>3
    <3>4. CASE \E p \in Packages : InstallOrUpgrade(p) \/ Remove(p) \/ Release(p)
      BY <1>1, <2>1, <3>4 DEF InstallOrUpgrade, Remove, Release
    <3>5. QED
      BY <1>1, <3>1, <3>2, <3>3, <3>4 DEF Next
  <2>3. checks'[package].current = observed[package] /\ asked' = newest[package]
        /\ pc = "resolve"
    BY <2>1, <2>2 DEF Done, Check, ResolveInfo, package
  <2>4. observed[package] = installed[package] /\ installed[package] <= newest[package]
    BY <1>1, <2>3, AtPackage DEF IInv, Aging, Known
  <2>5. installed[package] >= newest[package]
    BY <1>1, <2>2, <2>3, AtPackage DEF Outdated
  <2>6. QED
    BY <1>1, <2>3, <2>4, <2>5, AtPackage
<1>2. ASSUME IInv, UNCHANGED vars PROVE Verdict => checks'[package].current = asked'
  BY <1>2 DEF vars, IInv, TypeOK
<1>3. IInv /\ [Next]_vars => [Verdict => checks'[package].current = asked']_vars
  BY <1>1, <1>2
<1>4. QED
  BY <1>3, Invariant, PTL DEF Spec, CurrentUnlessTouched
=============================================================================
