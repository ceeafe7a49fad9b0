---------------------------- MODULE Orchestrator ----------------------------
(***************************************************************************)
(* The orchestrator and the process around it: Run starts the jobs, one    *)
(* after the other (-once) or each in a goroutine that runs the job, waits *)
(* for its ticker and runs it again, until SIGINT or SIGTERM cancels the   *)
(* context.  A job run collects a snapshot, resolves it and hands the      *)
(* checks to every publisher; the first error ends the run.                *)
(*                                                                         *)
(* What collectors, resolvers and publishers compute is left out; what     *)
(* they do with the context is not: a collector that starts with a         *)
(* cancelled context fails, a resolver turns the failure into checks with  *)
(* an error verdict and carries on, a publisher does not dial.             *)
(***************************************************************************)
EXTENDS Integers

CONSTANTS
  NJobs,        \* jobs; Build makes one
  NPublishers   \* publishers of each job; Build makes one

ASSUME OrchestratorAssumption ==
  /\ NJobs \in Nat \ {0}
  /\ NPublishers \in Nat \ {0}

Jobs == 1 .. NJobs

VARIABLES
  once,       \* the -once flag
  cancelled,  \* the context is cancelled
  main,       \* where Run is
  exit,       \* the exit code of the process
  at,         \* per job, where its run or its loop is
  checks,     \* per job, whether the current run has something to publish
  tainted,    \* per job, whether its checks were resolved under a cancelled context
  pub,        \* per job, the publisher that is next
  tick,       \* per job, whether the channel of its ticker holds a tick
  outcome     \* per job, how its last run ended

vars == <<once, cancelled, main, exit, at, checks, tainted, pub, tick, outcome>>

\* "idle" is a job without goroutine, "wait" the select of loop.
Running   == {"collect", "resolve", "publish", "send"}
JobStates == Running \cup {"idle", "wait"}

Init ==
  /\ once \in BOOLEAN
  /\ cancelled = FALSE
  /\ main = "run"
  /\ exit = -1
  /\ at = [j \in Jobs |-> "idle"]
  /\ checks = [j \in Jobs |-> FALSE]
  /\ tainted = [j \in Jobs |-> FALSE]
  /\ pub = [j \in Jobs |-> 1]
  /\ tick = [j \in Jobs |-> FALSE]
  /\ outcome = [j \in Jobs |-> "none"]

run   == <<at, checks, tainted, pub, tick, outcome>>
world == <<once, cancelled, main, exit>>

-----------------------------------------------------------------------------
(***************************************************************************)
(* runJob                                                                  *)
(***************************************************************************)
\* Mutant: a run that fails ends the loop of its job.
EndRunAndLoop(j, ok) ==
  /\ outcome' = [outcome EXCEPT ![j] = IF ok THEN "ok" ELSE "failed"]
  /\ at' = [at EXCEPT ![j] = IF once \/ ~ ok THEN "idle" ELSE "wait"]

\* Where control goes when a run is over: back to Run, or to the select of
\* loop, which has made its ticker after the first run.
EndRun(j, ok) ==
  /\ outcome' = [outcome EXCEPT ![j] = IF ok THEN "ok" ELSE "failed"]
  /\ at' = [at EXCEPT ![j] = IF once THEN "idle" ELSE "wait"]

CollectSucceeds(j) ==
  /\ at[j] = "collect"
  /\ ~ cancelled
  /\ at' = [at EXCEPT ![j] = "resolve"]
  /\ \E some \in BOOLEAN : checks' = [checks EXCEPT ![j] = some]
  /\ UNCHANGED <<tainted, pub, tick, outcome, world>>

CollectFails(j) ==
  /\ at[j] = "collect"
  /\ EndRun(j, FALSE)
  /\ UNCHANGED <<checks, tainted, pub, tick, world>>

ResolveSucceeds(j) ==
  /\ at[j] = "resolve"
  /\ at' = [at EXCEPT ![j] = "publish"]
  /\ tainted' = [tainted EXCEPT ![j] = cancelled /\ checks[j]]
  /\ pub' = [pub EXCEPT ![j] = 1]
  /\ UNCHANGED <<checks, tick, outcome, world>>

ResolveFails(j) ==
  /\ at[j] = "resolve"
  /\ EndRun(j, FALSE)
  /\ UNCHANGED <<checks, tainted, pub, tick, world>>

\* Mutant: one publisher too many.
NextPublisherTooFar(j) ==
  IF pub[j] <= NPublishers
  THEN /\ pub' = [pub EXCEPT ![j] = @ + 1]
       /\ at' = [at EXCEPT ![j] = "publish"]
       /\ UNCHANGED outcome
  ELSE EndRun(j, TRUE) /\ UNCHANGED pub

\* The loop over the publishers of the job.
NextPublisher(j) ==
  IF pub[j] < NPublishers
  THEN /\ pub' = [pub EXCEPT ![j] = @ + 1]
       /\ at' = [at EXCEPT ![j] = "publish"]
       /\ UNCHANGED outcome
  ELSE EndRun(j, TRUE) /\ UNCHANGED pub

\* Publish with no checks returns nil, whatever the context says.
PublishesNothing(j) ==
  /\ at[j] = "publish"
  /\ ~ checks[j]
  /\ NextPublisher(j)
  /\ UNCHANGED <<checks, tainted, tick, world>>

\* Mutant: the broker is dialled without the context.
DialsAnyway(j) ==
  /\ at[j] = "publish"
  /\ checks[j]
  /\ at' = [at EXCEPT ![j] = "send"]
  /\ UNCHANGED <<checks, tainted, pub, tick, outcome, world>>

\* The context is last looked at while the broker is dialled.
Dials(j) ==
  /\ at[j] = "publish"
  /\ checks[j]
  /\ ~ cancelled
  /\ at' = [at EXCEPT ![j] = "send"]
  /\ UNCHANGED <<checks, tainted, pub, tick, outcome, world>>

PublishSucceeds(j) ==
  /\ at[j] = "send"
  /\ NextPublisher(j)
  /\ UNCHANGED <<checks, tainted, tick, world>>

PublishFails(j) ==
  /\ at[j] = "send" \/ (at[j] = "publish" /\ checks[j])
  /\ EndRun(j, FALSE)
  /\ UNCHANGED <<checks, tainted, pub, tick, world>>

-----------------------------------------------------------------------------
(***************************************************************************)
(* Run and loop                                                            *)
(***************************************************************************)
\* Mutant: a job that failed does not keep the next one from running.
OnceStartsAnyway(j) ==
  /\ once /\ main = "run"
  /\ outcome[j] = "none" /\ at[j] = "idle"
  /\ \A i \in 1 .. (j - 1) : outcome[i] # "none"
  /\ at' = [at EXCEPT ![j] = "collect"]
  /\ UNCHANGED <<checks, tainted, pub, tick, outcome, world>>

\* Run with once: the jobs in order, as long as they succeed.
OnceStarts(j) ==
  /\ once /\ main = "run"
  /\ outcome[j] = "none" /\ at[j] = "idle"
  /\ \A i \in 1 .. (j - 1) : outcome[i] = "ok"
  /\ at' = [at EXCEPT ![j] = "collect"]
  /\ UNCHANGED <<checks, tainted, pub, tick, outcome, world>>

Exit(code) ==
  /\ main' = "exited"
  /\ exit' = code
  /\ UNCHANGED <<once, cancelled, run>>

OnceFails ==
  /\ once /\ main = "run"
  /\ \E j \in Jobs : outcome[j] = "failed"
  /\ Exit(1)

OnceEnds ==
  /\ once /\ main = "run"
  /\ \A j \in Jobs : outcome[j] = "ok"
  /\ Exit(0)

\* Run without once: a goroutine for each job.
Launch ==
  /\ ~ once /\ main = "run"
  /\ main' = "wait"
  /\ at' = [j \in Jobs |-> "collect"]
  /\ UNCHANGED <<once, cancelled, exit, checks, tainted, pub, tick, outcome>>

\* Mutant: a timer that is set again only after a successful run.
TickAfterSuccess(j) ==
  /\ ~ once /\ at[j] # "idle" /\ outcome[j] = "ok"
  /\ ~ tick[j]
  /\ tick' = [tick EXCEPT ![j] = TRUE]
  /\ UNCHANGED <<at, checks, tainted, pub, outcome, world>>

\* The ticker sends into a channel of one slot and drops what does not fit.
Tick(j) ==
  /\ ~ once /\ at[j] # "idle" /\ outcome[j] # "none"
  /\ ~ tick[j]
  /\ tick' = [tick EXCEPT ![j] = TRUE]
  /\ UNCHANGED <<at, checks, tainted, pub, outcome, world>>

\* select takes either case when both are ready.
LoopTicks(j) ==
  /\ at[j] = "wait"
  /\ tick[j]
  /\ tick' = [tick EXCEPT ![j] = FALSE]
  /\ at' = [at EXCEPT ![j] = "collect"]
  /\ UNCHANGED <<checks, tainted, pub, outcome, world>>

\* Mutant: the context is only looked at when no tick is pending.
LoopReturnsUnlessTick(j) ==
  /\ at[j] = "wait"
  /\ cancelled /\ ~ tick[j]
  /\ at' = [at EXCEPT ![j] = "idle"]
  /\ UNCHANGED <<checks, tainted, pub, tick, outcome, world>>

\* The deferred calls stop the ticker and leave the wait group.
LoopReturns(j) ==
  /\ at[j] = "wait"
  /\ cancelled
  /\ at' = [at EXCEPT ![j] = "idle"]
  /\ tick' = [tick EXCEPT ![j] = FALSE]
  /\ UNCHANGED <<checks, tainted, pub, outcome, world>>

RunSeesCancel ==
  /\ main = "wait"
  /\ cancelled
  /\ main' = "join"
  /\ UNCHANGED <<once, cancelled, exit, run>>

\* Mutant: Run does not wait for the goroutines.
JoinedAtOnce ==
  /\ main = "join"
  /\ Exit(0)

Joined ==
  /\ main = "join"
  /\ \A j \in Jobs : at[j] = "idle"
  /\ Exit(0)

\* SIGINT or SIGTERM; a second one changes nothing.
Cancel ==
  /\ main # "exited"
  /\ ~ cancelled
  /\ cancelled' = TRUE
  /\ UNCHANGED <<once, main, exit, run>>

-----------------------------------------------------------------------------
RunStep(j) ==
  \/ CollectSucceeds(j) \/ CollectFails(j)
  \/ ResolveSucceeds(j) \/ ResolveFails(j)
  \/ PublishesNothing(j) \/ Dials(j) \/ PublishSucceeds(j) \/ PublishFails(j)

MainStep ==
  \/ \E j \in Jobs : OnceStarts(j)
  \/ OnceFails \/ OnceEnds \/ Launch \/ RunSeesCancel \/ Joined

Next ==
  \/ \E j \in Jobs : RunStep(j) \/ Tick(j) \/ LoopTicks(j) \/ LoopReturns(j)
  \/ MainStep
  \/ Cancel

(***************************************************************************)
(* A run step is only certain to end once the context is cancelled: a      *)
(* package manager that hangs has no deadline of its own.  select chooses  *)
(* at random, so a case that is ready again and again is taken.            *)
(***************************************************************************)
Fairness ==
  /\ WF_vars(MainStep)
  /\ \A j \in Jobs :
       /\ WF_vars(cancelled /\ RunStep(j))
       /\ WF_vars(Tick(j))
       /\ WF_vars(LoopTicks(j))
       /\ SF_vars(LoopReturns(j))

Spec == Init /\ [][Next]_vars /\ Fairness

-----------------------------------------------------------------------------
TypeOK ==
  /\ once \in BOOLEAN
  /\ cancelled \in BOOLEAN
  /\ main \in {"run", "wait", "join", "exited"}
  /\ exit \in {-1, 0, 1}
  /\ at \in [Jobs -> JobStates]
  /\ checks \in [Jobs -> BOOLEAN]
  /\ tainted \in [Jobs -> BOOLEAN]
  /\ pub \in [Jobs -> 1 .. NPublishers]
  /\ tick \in [Jobs -> BOOLEAN]
  /\ outcome \in [Jobs -> {"none", "ok", "failed"}]

\* The error verdicts a resolver makes up while the process shuts down never
\* reach the broker (runJob, orchestrator.go:103-112, and Dial, client.go:25).
NoShutdownVerdicts ==
  \A j \in Jobs : at[j] = "send" => ~ tainted[j]

\* The process ends only when every job has left its run and its loop: no
\* publication is cut short by the end of Run (orchestrator.go:62-74).
NothingCutShort ==
  main = "exited" => \A j \in Jobs : at[j] = "idle"

\* With -once at most one job runs at a time, a job runs only after all before
\* it succeeded, and the exit code is 0 exactly when all did
\* (orchestrator.go:53-60, main.go:53-58).
OnceExitTellsAll ==
  once =>
    /\ \A i, j \in Jobs : (i < j /\ (at[j] # "idle" \/ outcome[j] # "none"))
                          => outcome[i] = "ok" /\ at[i] = "idle"
    /\ main = "exited" =>
         (exit = 0 <=> \A j \in Jobs : outcome[j] = "ok")

\* A failing run ends neither its own loop nor the process: without a signal a
\* continuous job never goes back to idle (loop, orchestrator.go:77-95).
FailureEndsNothing ==
  [][(~ once /\ ~ cancelled) =>
       /\ main' # "exited"
       /\ \A j \in Jobs : at[j] # "idle" => at'[j] # "idle"]_vars

\* A signal ends the process, although a tick that is pending may win the
\* select and start another run first (orchestrator.go:85-94).
SignalEndsProcess == cancelled ~> (main = "exited")

\* A loop that waits starts another run or sees the signal.
LoopGoesOn ==
  \A j \in Jobs : (at[j] = "wait") ~> (at[j] # "wait")
=============================================================================
