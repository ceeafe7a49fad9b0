------------------------- MODULE OrchestratorProofs -------------------------
(***************************************************************************)
(* Proofs about Orchestrator, for any number of jobs and publishers.       *)
(***************************************************************************)
EXTENDS Orchestrator, TLAPS

\* The initial values are in their ranges.
LEMMA TypeInit == Init => TypeOK
<1>1. 1 \in 1 .. NPublishers
  BY OrchestratorAssumption DEF OrchestratorAssumption
<1>2. QED
  BY <1>1 DEF Init, TypeOK, JobStates, Running

\* Every step keeps them there, the loop over the publishers in particular.
LEMMA TypeStep == ASSUME TypeOK, [Next]_vars PROVE TypeOK'
<1> USE OrchestratorAssumption DEF TypeOK, JobStates, Running, world, run
<1>1. ASSUME NEW j \in Jobs, RunStep(j)
      PROVE  TypeOK'
  <2>1. CASE CollectSucceeds(j) \/ CollectFails(j)
    BY <2>1 DEF CollectSucceeds, CollectFails, EndRun
  <2>2. CASE ResolveSucceeds(j) \/ ResolveFails(j)
    BY <2>2 DEF ResolveSucceeds, ResolveFails, EndRun
  <2>3. CASE PublishesNothing(j)
    BY <2>3 DEF PublishesNothing, NextPublisher, EndRun
  <2>4. CASE Dials(j)
    BY <2>4 DEF Dials
  <2>5. CASE PublishSucceeds(j)
    BY <2>5 DEF PublishSucceeds, NextPublisher, EndRun
  <2>6. CASE PublishFails(j)
    BY <2>6 DEF PublishFails, EndRun
  <2>7. QED
    BY <1>1, <2>1, <2>2, <2>3, <2>4, <2>5, <2>6 DEF RunStep
<1>2. ASSUME NEW j \in Jobs, Tick(j) \/ LoopTicks(j) \/ LoopReturns(j)
      PROVE  TypeOK'
  BY <1>2 DEF Tick, LoopTicks, LoopReturns
<1>3. CASE MainStep
  <2>1. ASSUME NEW j \in Jobs, OnceStarts(j)
        PROVE  TypeOK'
    BY <2>1 DEF OnceStarts
  <2>2. CASE OnceFails \/ OnceEnds \/ Joined
    BY <2>2 DEF OnceFails, OnceEnds, Joined, Exit
  <2>3. CASE Launch \/ RunSeesCancel
    BY <2>3 DEF Launch, RunSeesCancel
  <2>4. QED
    BY <1>3, <2>1, <2>2, <2>3 DEF MainStep
<1>4. CASE Cancel
  BY <1>4 DEF Cancel
<1>5. CASE UNCHANGED vars
  BY <1>5 DEF vars
<1>6. QED
  BY <1>1, <1>2, <1>3, <1>4, <1>5 DEF Next

\* TypeOK holds in every state: the program counters, the index of the next
\* publisher and the exit code stay in their ranges (runJob, orchestrator.go:97-121).
THEOREM TypeCorrect == Spec => []TypeOK
BY TypeInit, TypeStep, PTL DEF Spec

-----------------------------------------------------------------------------
(***************************************************************************)
(* The safety properties need each other: that nothing is cut short by the *)
(* exit of a -once process rests on the order of its jobs.                 *)
(***************************************************************************)
\* Only a cancelled context taints a run, and checks are never sent tainted.
Taint ==
  \A j \in Jobs : /\ tainted[j] => cancelled
                  /\ at[j] = "send" => ~ tainted[j]

\* The jobs before one that has started are over and went well.
InOrder ==
  \A i, j \in Jobs : (i < j /\ (at[j] # "idle" \/ outcome[j] # "none"))
                        => outcome[i] = "ok" /\ at[i] = "idle"

\* With -once a job runs once and never waits for a ticker.
RunsOnce ==
  \A j \in Jobs : /\ at[j] # "wait"
                  /\ outcome[j] # "none" => at[j] = "idle"

Once ==
  once => /\ InOrder
          /\ RunsOnce
          /\ main \in {"run", "exited"}
          /\ main = "exited" => (exit = 0 <=> \A j \in Jobs : outcome[j] = "ok")

Exits ==
  /\ NothingCutShort
  /\ ~ once /\ main \in {"join", "exited"} => cancelled

IInv == TypeOK /\ Taint /\ Once /\ Exits

\* No job has run and the process has not exited.
LEMMA InvInit == ASSUME Init, TypeOK PROVE IInv
<1>1. Taint
  BY DEF Init, Taint
<1>2. Once
  BY DEF Init, Once, InOrder, RunsOnce
<1>3. Exits
  BY DEF Init, Exits, NothingCutShort
<1>4. QED
  BY <1>1, <1>2, <1>3 DEF IInv

\* Steps of a run preserve the order of jobs and end no process.
LEMMA RunStepInv ==
  ASSUME IInv, TypeOK', NEW j \in Jobs, RunStep(j)
  PROVE  IInv'
<1> USE DEF IInv, TypeOK, JobStates, Running, world
<1>1. UNCHANGED world /\ at[j] \in Running
  BY DEF RunStep, CollectSucceeds, CollectFails, ResolveSucceeds, ResolveFails,
         PublishesNothing, Dials, PublishSucceeds, PublishFails
<1>2. main # "exited"
  BY <1>1 DEF Exits, NothingCutShort
<1>3. \A k \in Jobs \ {j} : at'[k] = at[k] /\ outcome'[k] = outcome[k]
  BY DEF RunStep, CollectSucceeds, CollectFails, ResolveSucceeds, ResolveFails,
         PublishesNothing, Dials, PublishSucceeds, PublishFails, NextPublisher, EndRun
<1>4. Taint'
  <2>1. CASE Dials(j)
    BY <2>1 DEF Dials, Taint
  <2>2. CASE ResolveSucceeds(j)
    BY <2>2 DEF ResolveSucceeds, Taint
  <2>3. CASE ~ Dials(j) /\ ~ ResolveSucceeds(j)
    BY <2>3 DEF RunStep, CollectSucceeds, CollectFails, ResolveFails,
       PublishesNothing, PublishSucceeds, PublishFails, NextPublisher, EndRun, Taint
  <2>4. QED
    BY <2>1, <2>2, <2>3
<1>5. ASSUME once
      PROVE  \/ at'[j] \in Running /\ outcome'[j] = outcome[j]
             \/ at'[j] = "idle" /\ outcome'[j] # "none"
  <2>1. CASE CollectSucceeds(j) \/ ResolveSucceeds(j) \/ Dials(j)
    BY <2>1 DEF CollectSucceeds, ResolveSucceeds, Dials
  <2>2. CASE CollectFails(j) \/ ResolveFails(j) \/ PublishFails(j)
    BY <1>5, <2>2 DEF CollectFails, ResolveFails, PublishFails, EndRun
  <2>3. CASE PublishesNothing(j) \/ PublishSucceeds(j)
    BY <1>5, <2>3 DEF PublishesNothing, PublishSucceeds, NextPublisher, EndRun
  <2>4. QED
    BY <2>1, <2>2, <2>3 DEF RunStep
<1>6. once => InOrder'
  <2> SUFFICES ASSUME once, NEW i \in Jobs, NEW k \in Jobs, i < k,
                      at'[k] # "idle" \/ outcome'[k] # "none"
               PROVE  outcome'[i] = "ok" /\ at'[i] = "idle"
    BY DEF InOrder
  <2>1. InOrder
    BY DEF Once
  <2>2. i # j
    <3> SUFFICES ASSUME i = j PROVE FALSE
      OBVIOUS
    <3>1. k # j
      BY DEF Jobs
    <3>2. QED
      BY <2>1, <3>1, <1>1, <1>3 DEF InOrder
  <2>3. at[k] # "idle" \/ outcome[k] # "none"
    BY <1>1, <1>3
  <2>4. QED
    BY <2>1, <2>2, <2>3, <1>3 DEF InOrder
<1>7. once => RunsOnce'
  BY <1>1, <1>3, <1>5 DEF Once, RunsOnce
<1>8. Once' /\ Exits'
  BY <1>1, <1>2, <1>6, <1>7 DEF Once, Exits, NothingCutShort
<1>9. QED
  BY <1>4, <1>8

\* Loops, and the starts and ends of the process.
LEMMA OtherStepInv ==
  ASSUME IInv, TypeOK',
         \/ \E j \in Jobs : Tick(j) \/ LoopTicks(j) \/ LoopReturns(j)
         \/ MainStep \/ Cancel \/ UNCHANGED vars
  PROVE  IInv'
<1> USE DEF IInv, TypeOK, JobStates, Running, world, run
<1>1. ASSUME NEW j \in Jobs, Tick(j) \/ LoopTicks(j) \/ LoopReturns(j)
      PROVE  IInv'
  BY <1>1 DEF Tick, LoopTicks, LoopReturns, Taint, Once, InOrder, RunsOnce,
              Exits, NothingCutShort
<1>2. ASSUME NEW j \in Jobs, OnceStarts(j)
      PROVE  IInv'
  <2>1. UNCHANGED <<tainted, outcome, world>> /\ once /\ main = "run"
    BY <1>2 DEF OnceStarts
  <2>2. at' = [at EXCEPT ![j] = "collect"] /\ outcome[j] = "none"
    BY <1>2 DEF OnceStarts
  <2>3. InOrder /\ RunsOnce
    BY <2>1 DEF Once
  <2>4. \A i \in Jobs : i < j => outcome[i] = "ok"
    BY <1>2 DEF OnceStarts, Jobs
  <2>5. InOrder'
    BY <2>1, <2>2, <2>3, <2>4 DEF InOrder, RunsOnce
  <2>6. QED
    BY <2>1, <2>2, <2>3, <2>5 DEF Once, RunsOnce, Taint, Exits, NothingCutShort
<1>3. CASE OnceFails
  BY <1>3 DEF OnceFails, Exit, Taint, Once, InOrder, RunsOnce, Exits, NothingCutShort, Jobs
<1>4. CASE OnceEnds
  BY <1>4 DEF OnceEnds, Exit, Taint, Once, InOrder, RunsOnce, Exits, NothingCutShort
<1>5. CASE Launch \/ RunSeesCancel \/ Joined
  BY <1>5 DEF Launch, RunSeesCancel, Joined, Exit, Taint, Once, Exits, NothingCutShort
<1>6. CASE Cancel \/ UNCHANGED vars
  BY <1>6 DEF Cancel, vars, Taint, Once, InOrder, RunsOnce, Exits, NothingCutShort
<1>7. QED
  BY <1>1, <1>2, <1>3, <1>4, <1>5, <1>6 DEF MainStep

-----------------------------------------------------------------------------
\* The strengthened invariant holds in every state.
THEOREM Invariant == Spec => []IInv
<1>1. Init => IInv
  BY TypeInit, InvInit
<1>2. IInv /\ [Next]_vars => IInv'
  <2> SUFFICES ASSUME IInv, [Next]_vars PROVE IInv'
    OBVIOUS
  <2>1. TypeOK'
    BY TypeStep DEF IInv
  <2>2. QED
    BY <2>1, RunStepInv, OtherStepInv DEF Next
<1>3. QED
  BY <1>1, <1>2, PTL DEF Spec

\* Error verdicts made up during a shutdown are never sent, with any number of
\* jobs and publishers (runJob, orchestrator.go:103-112; Dial, client.go:25).
THEOREM ShutdownVerdictsStay == Spec => []NoShutdownVerdicts
<1>1. IInv => NoShutdownVerdicts
  BY DEF IInv, Taint, NoShutdownVerdicts
<1>2. QED
  BY <1>1, Invariant, PTL

\* No job is in a run when the process exits (Run, orchestrator.go:52-74).
THEOREM ExitCutsNothingShort == Spec => []NothingCutShort
<1>1. IInv => NothingCutShort
  BY DEF IInv, Exits
<1>2. QED
  BY <1>1, Invariant, PTL

\* With -once, jobs run in order up to the first that fails, and the exit code
\* tells whether one did (Run, orchestrator.go:53-60; run, main.go:53-58).
THEOREM OnceExitIsHonest == Spec => []OnceExitTellsAll
<1>1. IInv => OnceExitTellsAll
  BY DEF IInv, Once, InOrder, OnceExitTellsAll
<1>2. QED
  BY <1>1, Invariant, PTL

\* Without a signal neither a continuous process nor one of its loops ends,
\* whatever fails (loop, orchestrator.go:77-95).
THEOREM OnlySignalsEnd == Spec => FailureEndsNothing
<1>1. IInv /\ [Next]_vars =>
        [(~ once /\ ~ cancelled) =>
           /\ main' # "exited"
           /\ \A j \in Jobs : at[j] # "idle" => at'[j] # "idle"]_vars
  <2> SUFFICES ASSUME IInv, Next, ~ once, ~ cancelled
               PROVE  /\ main' # "exited"
                      /\ \A j \in Jobs : at[j] # "idle" => at'[j] # "idle"
    BY DEF vars
  <2> USE DEF IInv, TypeOK, JobStates, Running, world, run
  <2>1. main \notin {"join", "exited"}
    BY DEF Exits
  <2>2. ASSUME NEW j \in Jobs, RunStep(j)
        PROVE  main' = main /\ at'[j] # "idle" /\ \A k \in Jobs \ {j} : at'[k] = at[k]
    BY <2>2 DEF RunStep, CollectSucceeds, CollectFails, ResolveSucceeds, ResolveFails,
       PublishesNothing, Dials, PublishSucceeds, PublishFails, NextPublisher, EndRun
  <2>3. ASSUME NEW j \in Jobs, Tick(j) \/ LoopTicks(j) \/ LoopReturns(j)
        PROVE  main' = main /\ \A k \in Jobs : at[k] # "idle" => at'[k] # "idle"
    BY <2>3 DEF Tick, LoopTicks, LoopReturns
  <2>4. CASE MainStep
    BY <2>1, <2>4 DEF MainStep, OnceStarts, OnceFails, OnceEnds, Launch,
       RunSeesCancel, Joined
  <2>5. CASE Cancel
    BY <2>1, <2>5 DEF Cancel
  <2>6. QED
    BY <2>1, <2>2, <2>3, <2>4, <2>5 DEF Next
<1>2. QED
  BY <1>1, Invariant, PTL DEF Spec, FailureEndsNothing
=============================================================================
