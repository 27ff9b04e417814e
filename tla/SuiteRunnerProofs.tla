------------------------- MODULE SuiteRunnerProofs -------------------------
(***************************************************************************)
(* Theorems about SuiteRunner, for every number of checks, every           *)
(* dependency graph and every max_parallel.                                *)
(***************************************************************************)
EXTENDS ValidatedRun, FiniteSetTheorems, SequenceTheorems, TLAPS

(* The statuses a run can end with.                                         *)
LEMMA RecomputeType == ASSUME NEW S PROVE Recompute(S) \in RunStatus
BY DEF Recompute, RunStatus

LEMMA InitType == Init => TypeOK
<1> SUFFICES ASSUME Init PROVE TypeOK
  OBVIOUS
<1>1. deps \in [Checks -> SUBSET Checks] /\ maxParallel \in Int
  BY GraphsAssumption, LimitsAssumption DEF Init
<1>2. QED
  BY <1>1 DEF Init, TypeOK, Phases, Futures, RunStatus

(* What every step of the main thread leaves well typed.                    *)
LEMMA MainType == TypeOK /\ Main => TypeOK'
<1> SUFFICES ASSUME TypeOK, Main PROVE TypeOK'
  OBVIOUS
<1> USE DEF TypeOK, config, planning, pool, results, SkipAll, Announce, Wave, Phases
<1>1. CASE Select
  BY <1>1, RecomputeType DEF Select, CheckStatus
<1>2. CASE PlanWave
  BY <1>2 DEF PlanWave
<1>3. CASE Planned
  BY <1>3 DEF Planned
<1>4. CASE SkipWave
  BY <1>4 DEF SkipWave, CheckStatus
<1>5. CASE Partition
  BY <1>5 DEF Partition, CheckStatus
<1>6. ASSUME NEW c \in Checks, Submit(c) PROVE TypeOK'
  BY <1>6 DEF Submit, Futures
<1>7. ASSUME NEW c \in Checks, Collect(c) PROVE TypeOK'
  <2>1. /\ completed' = [completed EXCEPT ![c] = future[c]]
        /\ emitted' = [emitted EXCEPT ![c] = @ + 1]
        /\ future[c] \in CheckStatus
    BY <1>7 DEF Collect, CollectStopping, Verdicts
  <2>2. aborted' \in BOOLEAN /\ phase' \in Phases /\ toCancel' \in SUBSET Checks
    BY <1>7 DEF Collect, CollectStopping
  <2>3. UNCHANGED <<config, planning, wave, runnable, future, status>>
    BY <1>7 DEF Collect, CollectStopping
  <2> QED
    BY <2>1, <2>2, <2>3
<1>8. ASSUME NEW c \in Checks, Cancel(c) PROVE TypeOK'
  BY <1>8 DEF Cancel, CancelInto, Futures
<1>9. CASE AllCollected
  BY <1>9 DEF AllCollected
<1>10. CASE Drained
  BY <1>10 DEF Drained
<1>11. CASE WrapUp
  BY <1>11 DEF WrapUp, WrapUpWith, CheckStatus
<1>12. CASE Report
  BY <1>12, RecomputeType DEF Report
<1>13. QED
  BY <1>1, <1>2, <1>3, <1>4, <1>5, <1>6, <1>7, <1>8, <1>9, <1>10, <1>11, <1>12 DEF Main

LEMMA WorkerType == ASSUME NEW c \in Checks PROVE TypeOK /\ Worker(c) => TypeOK'
BY DEF Worker, Start, Discard, Finish, TypeOK, Futures, config, planning, pool, results

(* TypeOK: every variable keeps its type in every run.                      *)
THEOREM TypeCorrect == Spec => []TypeOK
<1>1. TypeOK /\ UNCHANGED vars => TypeOK'
  BY DEF TypeOK, vars, config, planning, pool, results
<1>2. TypeOK /\ [Next]_vars => TypeOK'
  BY <1>1, MainType, WorkerType DEF Next, Returned
<1>3. QED
  BY InitType, <1>2, PTL DEF Spec
---------------------------------------------------------------------------
(* The inductive invariant *)

LEMMA InitInv == Init => IInv
<1> SUFFICES ASSUME Init PROVE IInv
  OBVIOUS
<1>1. TypeOK
  BY InitType
<1>2. PlanInv
  BY <1>1 DEF Init, PlanInv, PlanOrdered, PlanTight, Awaited, TypeOK, Remaining, InWave
<1>3. ProgressInv
  BY <1>1 DEF Init, ProgressInv, Completed, Before, InWave
<1>4. FutureInv
  BY <1>1 DEF Init, FutureInv
<1>5. VerdictInv
  BY <1>1 DEF Init, VerdictInv, Completed
<1>6. EmitInv
  BY <1>1 DEF Init, EmitInv, Completed
<1>7. OutcomeInv
  BY <1>1 DEF Init, OutcomeInv
<1>8. QED
  BY <1>1, <1>2, <1>3, <1>4, <1>5, <1>6, <1>7 DEF IInv

LEMMA NextType == TypeOK /\ [Next]_vars => TypeOK'
<1>1. TypeOK /\ UNCHANGED vars => TypeOK'
  BY DEF TypeOK, vars, config, planning, pool, results
<1>2. QED
  BY <1>1, MainType, WorkerType DEF Next, Returned

(* Planning a wave keeps the plan sound.                                    *)
LEMMA PlanWavePlan == IInv /\ PlanWave => PlanInv'
<1> SUFFICES ASSUME IInv, PlanWave PROVE PlanInv'
  OBVIOUS
<1> USE DEF IInv, TypeOK, config
<1>1. CASE NextWave = {}
  BY <1>1 DEF PlanWave, PlanInv, PlanOrdered, PlanTight, planning, Remaining, Awaited, InWave
<1>2. CASE NextWave # {}
  <2>1. /\ waves' = waves + 1
        /\ waveOf' = [c \in Checks |-> IF c \in NextWave THEN waves' ELSE waveOf[c]]
        /\ phase' = phase /\ phase = "plan"
        /\ UNCHANGED config
    BY <1>2 DEF PlanWave
  <2>2. Remaining' = Remaining \ NextWave
    BY <2>1 DEF Remaining, NextWave
  <2>3. \A c \in Checks : waveOf'[c] <= waves' /\ (c \notin chosen' => waveOf'[c] = 0)
    BY <2>1 DEF PlanInv, NextWave, Remaining
  <2>4. \A c \in Remaining' : \E d \in Awaited(c)' : waveOf'[d] \in {0, waves'}
    <3> SUFFICES ASSUME NEW c \in Remaining' PROVE \E d \in Awaited(c)' : waveOf'[d] \in {0, waves'}
      OBVIOUS
    <3>1. PICK d \in Awaited(c) \cap Remaining : TRUE
      BY <2>2 DEF NextWave
    <3>2. d \in Awaited(c)' /\ waveOf'[d] \in {0, waves'}
      BY <2>1, <3>1 DEF Awaited, Remaining
    <3>3. QED
      BY <3>2
  <2>5. ASSUME NEW S \in SUBSET chosen', \A c \in S : deps'[c] \cap S # {}
        PROVE  S \subseteq Remaining'
    <3>1. S \subseteq Remaining
      BY <2>1, <2>5 DEF PlanInv
    <3>2. S \cap NextWave = {}
      BY <2>1, <2>5, <3>1 DEF NextWave, Awaited, Remaining
    <3>3. QED
      BY <2>2, <3>1, <3>2
  <2>6. PlanOrdered'
    <3> SUFFICES ASSUME NEW c \in chosen, NEW d \in Awaited(c), waveOf'[c] # 0
                 PROVE  waveOf'[d] # 0 /\ waveOf'[d] < waveOf'[c]
      BY <2>1 DEF PlanOrdered, Awaited
    <3>1. CASE c \in NextWave
      <4>1. d \notin Remaining
        BY <3>1 DEF NextWave
      <4>2. QED
        BY <2>1, <3>1, <4>1 DEF Awaited, Remaining, NextWave, PlanInv
    <3>2. CASE c \notin NextWave
      BY <2>1, <3>2 DEF Awaited, Remaining, NextWave, PlanInv, PlanOrdered
    <3>3. QED
      BY <3>1, <3>2
  <2>7. PlanTight'
    <3> SUFFICES ASSUME NEW c \in chosen, waveOf'[c] > 1
                 PROVE  \E d \in Awaited(c) : waveOf'[d] = waveOf'[c] - 1
      BY <2>1 DEF PlanTight, Awaited
    <3>1. CASE c \in NextWave
      <4>1. PICK d \in Awaited(c) : waveOf[d] \in {0, waves}
        BY <2>1, <3>1 DEF NextWave, PlanInv
      <4>2. d \notin Remaining /\ d \in Checks /\ d \in chosen
        BY <3>1, <4>1 DEF NextWave, Awaited
      <4>3. waveOf'[d] = waves /\ waveOf'[c] = waves + 1
        BY <2>1, <3>1, <4>1, <4>2 DEF Remaining, NextWave
      <4>4. QED
        BY <4>1, <4>3
    <3>2. CASE c \notin NextWave
      <4>1. PICK d \in Awaited(c) : waveOf[d] = waveOf[c] - 1
        BY <2>1, <3>2 DEF PlanInv, PlanTight
      <4>2. waveOf'[d] = waveOf[d] /\ waveOf'[c] = waveOf[c]
        BY <2>1, <3>2, <4>1 DEF NextWave, Remaining, Awaited
      <4>3. QED
        BY <4>1, <4>2
    <3>3. QED
      BY <3>1, <3>2
  <2>8. QED
    BY <2>1, <2>3, <2>4, <2>5, <2>6, <2>7 DEF PlanInv, InWave
<1>3. QED
  BY <1>1, <1>2

(* No other step changes the plan.                                          *)
LEMMA OtherPlan == IInv /\ [Next]_vars /\ ~PlanWave => PlanInv'
<1> SUFFICES ASSUME IInv, [Next]_vars, ~PlanWave PROVE PlanInv'
  OBVIOUS
<1>1. UNCHANGED <<deps, chosen, waveOf, waves>>
  BY DEF Next, Main, Worker, Returned, vars, config, planning, Select, Planned, SkipWave,
         Partition, Submit, Collect, CollectStopping, Cancel, CancelInto, AllCollected,
         Drained, WrapUp, WrapUpWith, Report, Start, Discard, Finish
<1>2. phase' \in {"waves"} \cup InWave => phase \in {"waves"} \cup InWave \/ Remaining = {}
  BY DEF Next, Main, Worker, Returned, vars, InWave, Select, Planned, SkipWave,
         Partition, Submit, Collect, CollectStopping, Cancel, CancelInto, AllCollected,
         Drained, WrapUp, WrapUpWith, Report, Start, Discard, Finish
<1>3. QED
  BY <1>1, <1>2 DEF IInv, PlanInv, PlanOrdered, PlanTight, Remaining, Awaited

LEMMA ProgressStep == IInv /\ [Next]_vars => ProgressInv'
<1> SUFFICES ASSUME IInv, [Next]_vars PROVE ProgressInv'
  OBVIOUS
<1> USE DEF IInv, TypeOK, ProgressInv, Before, InWave, config, planning, pool, results,
            Completed, Wave
<1>1. CASE Select
  BY <1>1 DEF Select, SkipAll
<1>2. CASE PlanWave
  <2>1. waves' >= waves /\ \A c \in Checks : waveOf[c] # 0 => waveOf'[c] = waveOf[c]
    BY <1>2 DEF PlanWave, NextWave, Remaining
  <2>2. QED
    BY <1>2, <2>1 DEF PlanWave
<1>3. CASE Planned
  BY <1>3 DEF Planned, Remaining
<1>4. CASE SkipWave
  BY <1>4 DEF SkipWave, SkipAll
<1>5. CASE Partition
  <2> DEFINE blocked == {c \in Wave(wave') : Blockers(c) # {}}
  <2>1. /\ wave' = wave + 1 /\ wave < waves /\ phase = "waves"
        /\ \A c \in Checks : completed'[c] = IF c \in blocked THEN "skipped" ELSE completed[c]
        /\ runnable' = Wave(wave') \ blocked
        /\ phase' = IF runnable' = {} THEN "waves" ELSE "submit"
        /\ UNCHANGED <<config, planning, future, toCancel, aborted>>
    BY <1>5 DEF Partition, SkipAll
  <2>2. Completed' = Completed \cup blocked
    BY <2>1
  <2>3. Completed' \cup runnable' = {c \in chosen : waveOf[c] <= wave'}
    BY <2>1, <2>2
  <2>4. Wave(wave)' = Wave(wave')
    BY <2>1
  <2>5. QED
    BY <2>1, <2>2, <2>3, <2>4
<1>6. ASSUME NEW c \in Checks, Submit(c) PROVE ProgressInv'
  BY <1>6 DEF Submit
<1>7. ASSUME NEW c \in Checks, Collect(c) PROVE ProgressInv'
  <2>1. /\ completed' = [completed EXCEPT ![c] = future[c]]
        /\ future[c] # "none" /\ c \in runnable
        /\ phase = "collect" /\ phase' \in {"collect", "cancel"}
        /\ UNCHANGED <<config, planning, wave, runnable, future>>
    BY <1>7 DEF Collect, CollectStopping, Verdicts, CheckStatus
  <2>2. Completed' = Completed \cup {c}
    BY <2>1
  <2>3. QED
    BY <2>1, <2>2
<1>8. ASSUME NEW c \in Checks, Cancel(c) PROVE ProgressInv'
  BY <1>8 DEF Cancel, CancelInto
<1>9. CASE AllCollected
  BY <1>9 DEF AllCollected
<1>10. CASE Drained
  BY <1>10 DEF Drained
<1>11. CASE WrapUp
  BY <1>11 DEF WrapUp, WrapUpWith, SkipAll, FutureInv
<1>12. CASE Report
  BY <1>12 DEF Report
<1>13. ASSUME NEW c \in Checks, Worker(c) PROVE ProgressInv'
  BY <1>13 DEF Worker, Start, Discard, Finish, FutureInv
<1>14. CASE UNCHANGED vars
  BY <1>14 DEF vars
<1>15. QED
  BY <1>1, <1>2, <1>3, <1>4, <1>5, <1>6, <1>7, <1>8, <1>9, <1>10, <1>11, <1>12, <1>13, <1>14
     DEF Next, Main, Returned

LEMMA FutureStep == IInv /\ [Next]_vars => FutureInv'
<1> SUFFICES ASSUME IInv, [Next]_vars PROVE FutureInv'
  OBVIOUS
<1> USE DEF IInv, TypeOK, FutureInv, InWave, config, planning, pool, results, Completed
<1>1. CASE Select
  BY <1>1 DEF Select, ProgressInv, Before
<1>2. CASE PlanWave
  BY <1>2 DEF PlanWave, ProgressInv, Before
<1>3. CASE Planned
  BY <1>3 DEF Planned
<1>4. CASE SkipWave
  BY <1>4 DEF SkipWave
<1>5. CASE Partition
  <2>1. /\ wave' = wave + 1 /\ phase = "waves" /\ ~aborted
        /\ runnable' \subseteq Wave(wave') /\ phase' \in {"waves", "submit"}
        /\ UNCHANGED <<config, planning, future, toCancel, aborted>>
        /\ \A c \in runnable' : completed'[c] = completed[c]
    BY <1>5 DEF Partition, SkipAll, Wave
  <2>2. \A c \in Checks : future[c] \notin {"queued", "running", "cancelled"}
    BY <2>1
  <2>3. runnable' \cap Completed' = {}
    BY <2>1 DEF ProgressInv, Wave
  <2>4. QED
    BY <2>1, <2>2, <2>3
<1>6. ASSUME NEW c \in Checks, Submit(c) PROVE FutureInv'
  <2>1. /\ future' = [future EXCEPT ![c] = "queued"]
        /\ c \in runnable /\ phase = "submit"
        /\ phase' = IF \E d \in runnable \ {c} : future[d] = "idle" THEN "submit" ELSE "collect"
        /\ UNCHANGED <<config, planning, wave, runnable, toCancel, results>>
    BY <1>6 DEF Submit, First
  <2>2. c \in chosen /\ waveOf[c] \in 1 .. wave
    BY <2>1 DEF ProgressInv, Wave
  <2>3. QED
    BY <2>1, <2>2
<1>7. ASSUME NEW c \in Checks, Collect(c) PROVE FutureInv'
  <2>1. /\ phase = "collect"
        /\ \/ phase' = "collect" /\ aborted' = aborted /\ toCancel' = toCancel
           \/ phase' = "cancel" /\ aborted' = TRUE /\ toCancel' = runnable
        /\ UNCHANGED <<config, planning, wave, runnable, future>>
    BY <1>7 DEF Collect, CollectStopping
  <2>2. CASE phase' = "collect"
    BY <2>1, <2>2
  <2>3. CASE phase' = "cancel"
    BY <2>1, <2>3
  <2>4. QED
    BY <2>1, <2>2, <2>3
<1>8. ASSUME NEW c \in Checks, Cancel(c) PROVE FutureInv'
  <2>1. /\ phase = "cancel" /\ c \in toCancel /\ toCancel' = toCancel \ {c}
        /\ future' = [future EXCEPT ![c] = IF @ = "queued" THEN "cancelled" ELSE @]
        /\ phase' = IF toCancel' = {} THEN "drain" ELSE "cancel"
        /\ UNCHANGED <<config, planning, wave, runnable, results>>
    BY <1>8 DEF Cancel, CancelInto, First
  <2>2. QED
    BY <2>1
<1>9. CASE AllCollected
  <2>1. \A c \in runnable : completed[c] = future[c] /\ completed[c] \in CheckStatus
    BY <1>9 DEF AllCollected, VerdictInv
  <2>2. \A c \in Checks : future[c] \notin {"queued", "running", "cancelled"}
    BY <1>9, <2>1 DEF AllCollected, CheckStatus
  <2>3. QED
    BY <1>9, <2>2 DEF AllCollected
<1>10. CASE Drained
  <2>1. \A c \in Checks : future[c] \notin {"queued", "running", "cancelled"}
    BY <1>10 DEF Drained, Settled, Verdicts, CheckStatus
  <2>2. QED
    BY <1>10, <2>1 DEF Drained
<1>11. CASE WrapUp
  BY <1>11 DEF WrapUp, WrapUpWith
<1>12. CASE Report
  BY <1>12 DEF Report
<1>13. ASSUME NEW c \in Checks, Start(c) PROVE FutureInv'
  BY <1>13 DEF Start
<1>14. ASSUME NEW c \in Checks, Discard(c) PROVE FutureInv'
  BY <1>14 DEF Discard
<1>15. ASSUME NEW c \in Checks, NEW v \in Verdicts, Finish(c, v) PROVE FutureInv'
  BY <1>15 DEF Finish, Verdicts, CheckStatus
<1>16. CASE UNCHANGED vars
  BY <1>16 DEF vars
<1>17. QED
  BY <1>1, <1>2, <1>3, <1>4, <1>5, <1>6, <1>7, <1>8, <1>9, <1>10, <1>11, <1>12, <1>13,
     <1>14, <1>15, <1>16 DEF Next, Main, Worker, Returned

LEMMA VerdictStep == IInv /\ [Next]_vars => VerdictInv'
<1> SUFFICES ASSUME IInv, [Next]_vars PROVE VerdictInv'
  OBVIOUS
<1> USE DEF IInv, TypeOK, VerdictInv, InWave, config, planning, pool, results, Completed,
            Started, Awaited
<1>1. CASE Select
  BY <1>1 DEF Select, SkipAll, ProgressInv, Before, Verdicts, CheckStatus
<1>2. CASE PlanWave
  BY <1>2 DEF PlanWave
<1>3. CASE Planned
  BY <1>3 DEF Planned, ProgressInv, Before
<1>4. CASE SkipWave
  BY <1>4 DEF SkipWave, SkipAll, Wave, ProgressInv, Failing, Ok
<1>5. CASE Partition
  <2> DEFINE blocked == {c \in Wave(wave') : Blockers(c) # {}}
  <2>1. /\ wave' = wave + 1 /\ phase = "waves" /\ ~aborted
        /\ \A c \in Checks : completed'[c] = IF c \in blocked THEN "skipped" ELSE completed[c]
        /\ runnable' = Wave(wave') \ blocked /\ phase' \in {"waves", "submit"}
        /\ UNCHANGED <<config, planning, future, toCancel, aborted>>
    BY <1>5 DEF Partition, SkipAll
  <2>2. \A c \in Completed : waveOf[c] <= wave /\ completed'[c] = completed[c]
    BY <2>1 DEF ProgressInv, Wave
  <2>3. ASSUME NEW c \in runnable', NEW d \in Awaited(c)
        PROVE  completed[d] \in Ok /\ d \in Completed
    <3>1. waveOf[d] < waveOf[c] /\ waveOf[c] = wave + 1
      BY <2>1 DEF Wave, PlanInv, PlanOrdered
    <3>2. d \in Completed
      BY <2>1, <3>1 DEF ProgressInv
    <3>3. Blockers(c) = {}
      BY <2>1
    <3>4. QED
      BY <3>2, <3>3 DEF Blockers
  <2>4. \A c \in Checks : future[c] # "idle" => c \notin blocked
    BY <2>1 DEF FutureInv, Wave
  <2>5. \A c \in runnable' : c \notin Completed'
    BY <2>1 DEF ProgressInv, Wave
  <2>6. \A c \in Checks : c \in runnable' \/ future[c] # "idle" =>
          \A d \in Awaited(c) : completed'[d] \in Ok
    BY <2>1, <2>2, <2>3 DEF Ok
  <2>7. QED
    BY <2>1, <2>2, <2>4, <2>5, <2>6 DEF Verdicts, CheckStatus
<1>6. ASSUME NEW c \in Checks, Submit(c) PROVE VerdictInv'
  BY <1>6 DEF Submit, First, FutureInv
<1>7. ASSUME NEW c \in Checks, Collect(c) PROVE VerdictInv'
  <2>1. /\ completed' = [completed EXCEPT ![c] = future[c]]
        /\ future[c] \in Verdicts /\ c \in runnable /\ c \notin Completed
        /\ phase = "collect"
        /\ aborted' => failFast /\ future[c] \in Failing
        /\ UNCHANGED <<config, planning, wave, runnable, future>>
    BY <1>7 DEF Collect, CollectStopping, Stops, FutureInv
  <2>2. QED
    BY <2>1 DEF Ok, FutureInv
<1>8. ASSUME NEW c \in Checks, Cancel(c) PROVE VerdictInv'
  <2>1. /\ future' = [future EXCEPT ![c] = IF @ = "queued" THEN "cancelled" ELSE @]
        /\ phase = "cancel" /\ phase' \in InWave /\ c \in toCancel
        /\ UNCHANGED <<config, planning, wave, runnable, results>>
    BY <1>8 DEF Cancel, CancelInto, First
  <2>2. QED
    BY <2>1 DEF FutureInv, CheckStatus, Verdicts
<1>9. CASE AllCollected
  BY <1>9 DEF AllCollected
<1>10. CASE Drained
  BY <1>10 DEF Drained
<1>11. CASE WrapUp
  BY <1>11 DEF WrapUp, WrapUpWith, SkipAll, FutureInv, Failing, Ok
<1>12. CASE Report
  BY <1>12 DEF Report
<1>13. ASSUME NEW c \in Checks, Start(c) PROVE VerdictInv'
  BY <1>13 DEF Start, FutureInv, CheckStatus
<1>14. ASSUME NEW c \in Checks, Discard(c) PROVE VerdictInv'
  BY <1>14 DEF Discard, FutureInv, CheckStatus
<1>15. ASSUME NEW c \in Checks, NEW v \in Verdicts, Finish(c, v) PROVE VerdictInv'
  BY <1>15 DEF Finish, FutureInv, CheckStatus
<1>16. CASE UNCHANGED vars
  BY <1>16 DEF vars
<1>17. QED
  BY <1>1, <1>2, <1>3, <1>4, <1>5, <1>6, <1>7, <1>8, <1>9, <1>10, <1>11, <1>12, <1>13,
     <1>14, <1>15, <1>16 DEF Next, Main, Worker, Returned

LEMMA EmitStep == IInv /\ [Next]_vars => EmitInv'
<1> SUFFICES ASSUME IInv, [Next]_vars PROVE EmitInv'
  OBVIOUS
<1> USE DEF IInv, TypeOK, EmitInv, config, planning, pool, results, Completed
<1>1. CASE Select
  BY <1>1 DEF Select, SkipAll, ProgressInv, Before
<1>2. CASE PlanWave
  BY <1>2 DEF PlanWave
<1>3. CASE Planned
  BY <1>3 DEF Planned
<1>4. CASE SkipWave
  BY <1>4 DEF SkipWave, SkipAll
<1>5. CASE Partition
  <2> DEFINE blocked == {c \in Wave(wave') : Blockers(c) # {}}
  <2>1. /\ wave' = wave + 1 /\ phase = "waves"
        /\ \A c \in Checks : completed'[c] = IF c \in blocked THEN "skipped" ELSE completed[c]
        /\ \A c \in Checks : emitted'[c] = emitted[c] + IF c \in blocked THEN 1 ELSE 0
        /\ UNCHANGED <<config, planning, aborted>>
    BY <1>5 DEF Partition, SkipAll, Announce
  <2>2. blocked \cap Completed = {}
    BY <2>1 DEF ProgressInv, Wave
  <2>3. QED
    BY <2>1, <2>2
<1>6. ASSUME NEW c \in Checks, Submit(c) PROVE EmitInv'
  BY <1>6 DEF Submit
<1>7. ASSUME NEW c \in Checks, Collect(c) PROVE EmitInv'
  <2>1. /\ completed' = [completed EXCEPT ![c] = future[c]]
        /\ emitted' = [emitted EXCEPT ![c] = @ + 1]
        /\ future[c] # "none" /\ c \notin Completed
        /\ phase = "collect" /\ UNCHANGED config
    BY <1>7 DEF Collect, CollectStopping, Verdicts, CheckStatus
  <2>2. ~aborted
    BY <2>1 DEF FutureInv
  <2>3. QED
    BY <2>1, <2>2
<1>8. ASSUME NEW c \in Checks, Cancel(c) PROVE EmitInv'
  BY <1>8 DEF Cancel, CancelInto
<1>9. CASE AllCollected
  BY <1>9 DEF AllCollected
<1>10. CASE Drained
  BY <1>10 DEF Drained
<1>11. CASE WrapUp
  <2> DEFINE missing == IF aborted THEN runnable \ Completed ELSE {}
  <2>1. /\ \A c \in Checks : completed'[c] = IF c \in missing THEN "skipped" ELSE completed[c]
        /\ \A c \in Checks : emitted'[c] = emitted[c] + IF c \in missing THEN 1 ELSE 0
        /\ UNCHANGED <<config, aborted>>
    BY <1>11 DEF WrapUp, WrapUpWith, SkipAll, Announce
  <2>2. QED
    BY <2>1
<1>12. CASE Report
  BY <1>12 DEF Report
<1>13. ASSUME NEW c \in Checks, Worker(c) PROVE EmitInv'
  BY <1>13 DEF Worker, Start, Discard, Finish
<1>14. CASE UNCHANGED vars
  BY <1>14 DEF vars
<1>15. QED
  BY <1>1, <1>2, <1>3, <1>4, <1>5, <1>6, <1>7, <1>8, <1>9, <1>10, <1>11, <1>12, <1>13, <1>14
     DEF Next, Main, Returned

LEMMA OutcomeStep == IInv /\ [Next]_vars => OutcomeInv'
<1> SUFFICES ASSUME IInv, [Next]_vars PROVE OutcomeInv'
  OBVIOUS
<1> USE DEF IInv, TypeOK, OutcomeInv, Cyclic, config, planning, pool, results, Completed
<1>1. CASE Select
  <2>1. CASE chosen = {}
    <3>1. phase' = "done" /\ status' = Recompute({}) /\ UNCHANGED <<completed, config>>
      BY <1>1, <2>1 DEF Select
    <3>2. {completed'[c] : c \in chosen'} = {} /\ Completed' = {}
      BY <1>1, <2>1, <3>1 DEF Select, ProgressInv, Before
    <3>3. QED
      BY <2>1, <3>1, <3>2
  <2>2. CASE chosen # {}
    BY <1>1, <2>2 DEF Select
  <2>3. QED
    BY <2>1, <2>2
<1>2. CASE PlanWave
  <2>1. CASE NextWave = {}
    <3>1. Remaining # {} /\ Remaining \in SUBSET chosen
          /\ \A c \in Remaining : deps[c] \cap Remaining # {}
      BY <1>2, <2>1 DEF PlanWave, NextWave, Awaited, Remaining
    <3>2. Cyclic
      BY <3>1
    <3>3. QED
      BY <1>2, <2>1, <3>2 DEF PlanWave
  <2>2. CASE NextWave # {}
    BY <1>2, <2>2 DEF PlanWave
  <2>3. QED
    BY <2>1, <2>2
<1>3. CASE Planned
  BY <1>3 DEF Planned
<1>4. CASE SkipWave
  BY <1>4 DEF SkipWave
<1>5. CASE Partition
  BY <1>5 DEF Partition
<1>6. ASSUME NEW c \in Checks, Submit(c) PROVE OutcomeInv'
  BY <1>6 DEF Submit
<1>7. ASSUME NEW c \in Checks, Collect(c) PROVE OutcomeInv'
  BY <1>7 DEF Collect, CollectStopping
<1>8. ASSUME NEW c \in Checks, Cancel(c) PROVE OutcomeInv'
  BY <1>8 DEF Cancel, CancelInto
<1>9. CASE AllCollected
  BY <1>9 DEF AllCollected
<1>10. CASE Drained
  BY <1>10 DEF Drained
<1>11. CASE WrapUp
  BY <1>11 DEF WrapUp, WrapUpWith
<1>12. CASE Report
  <2>1. /\ status' = Recompute({completed[c] : c \in chosen \cap Completed})
        /\ phase' = "done" /\ UNCHANGED <<config, results>>
    BY <1>12 DEF Report
  <2>2. Completed = chosen
    BY <1>12 DEF Report, ProgressInv, PlanInv
  <2>3. QED
    BY <2>1, <2>2
<1>13. ASSUME NEW c \in Checks, Worker(c) PROVE OutcomeInv'
  <2>1. phase # "done"
    BY <1>13 DEF Worker, Start, Discard, Finish, FutureInv, InWave, Idle, Queue
  <2>2. QED
    BY <1>13, <2>1 DEF Worker, Start, Discard, Finish
<1>14. CASE UNCHANGED vars
  BY <1>14 DEF vars
<1>15. QED
  BY <1>1, <1>2, <1>3, <1>4, <1>5, <1>6, <1>7, <1>8, <1>9, <1>10, <1>11, <1>12, <1>13, <1>14
     DEF Next, Main, Returned

LEMMA StepInv == IInv /\ [Next]_vars => IInv'
BY NextType, PlanWavePlan, OtherPlan, ProgressStep, FutureStep, VerdictStep, EmitStep,
   OutcomeStep DEF IInv

(* IInv: the strengthening of all the safety invariants holds in every run. *)
THEOREM Invariance == Spec => []IInv
BY InitInv, StepInv, PTL DEF Spec
---------------------------------------------------------------------------
(* The safety invariants *)

(* DependencyGate: no check is evaluated while a dependency the selection   *)
(* contains is unfinished, failed, warned or errored.                       *)
THEOREM DependencyGateHolds == Spec => []DependencyGate
<1>1. IInv => DependencyGate
  BY DEF IInv, VerdictInv, DependencyGate, Started, Verdicts, CheckStatus
<1>2. QED
  BY Invariance, <1>1, PTL

(* PlanOrdered: a check is in a later wave than its dependencies.           *)
THEOREM PlanSound == Spec => []PlanOrdered
<1>1. IInv => PlanOrdered
  BY DEF IInv, PlanInv
<1>2. QED
  BY Invariance, <1>1, PTL

(* PlanTight: no check waits for a wave longer than the graph makes it.     *)
THEOREM PlanShort == Spec => []PlanTight
<1>1. IInv => PlanTight
  BY DEF IInv, PlanInv
<1>2. QED
  BY Invariance, <1>1, PTL

(* RefusedIffCyclic: a graph is refused exactly when it has a cycle, before *)
(* anything ran.                                                            *)
THEOREM RefusalExact == Spec => []RefusedIffCyclic
<1>1. IInv => RefusedIffCyclic
  <2>1. ASSUME IInv, phase = "refused" PROVE Cyclic /\ Started = {} /\ Completed = {}
    BY <2>1 DEF IInv, OutcomeInv, ProgressInv, Before, Started, Verdicts, CheckStatus
  <2>2. ASSUME IInv, phase \notin {"select", "plan", "refused", "report", "done"} PROVE ~Cyclic
    <3>1. Remaining = {}
      BY <2>2 DEF IInv, TypeOK, Phases, PlanInv, InWave
    <3>2. QED
      BY <2>2, <3>1 DEF IInv, PlanInv, Cyclic
  <2>3. QED
    BY <2>1, <2>2 DEF RefusedIffCyclic
<1>2. QED
  BY Invariance, <1>1, PTL

(* The report of a finished run names every selected check, shows what the  *)
(* checks found unless fail_fast stopped the run, and never passes over a   *)
(* failure.                                                                 *)
LEMMA Reported ==
    IInv => EveryCheckAccounted /\ ReportsWhatRan /\ NoHiddenFailure
<1>1. ASSUME IInv, phase = "done"
      PROVE  /\ Completed = chosen
             /\ ~aborted => \A c \in Started : completed[c] = future[c]
             /\ (\E c \in Checks : future[c] \in Failing) => ExitCode(status) = 1
  <2>1. Completed = chosen /\ status = Recompute({completed[c] : c \in chosen})
    BY <1>1 DEF IInv, OutcomeInv
  <2>2. Started \subseteq chosen
    BY <1>1 DEF IInv, FutureInv, Started, Verdicts, CheckStatus
  <2>3. ~aborted => \A c \in Started : completed[c] = future[c]
    BY <1>1, <2>1, <2>2 DEF IInv, VerdictInv
  <2>4. ASSUME NEW c \in Checks, future[c] \in Failing PROVE ExitCode(status) = 1
    <3>1. c \in Started
      BY <2>4 DEF Started, Failing, Verdicts, CheckStatus
    <3>2. \E d \in chosen : completed[d] \in Failing
      BY <1>1, <2>2, <2>3, <2>4, <3>1 DEF IInv, VerdictInv
    <3>3. status \in {"errored", "failed"}
      BY <2>1, <3>2 DEF Recompute, Failing
    <3>4. QED
      BY <3>3 DEF ExitCode
  <2>5. QED
    BY <2>1, <2>3, <2>4
<1>2. QED
  BY <1>1 DEF EveryCheckAccounted, ReportsWhatRan, NoHiddenFailure

(* EveryCheckAccounted: whatever happened, every selected check has a       *)
(* result in the report of a finished run.                                  *)
THEOREM ReportComplete == Spec => []EveryCheckAccounted
  BY Invariance, Reported, PTL

(* ReportsWhatRan: unless fail_fast stopped the run, each evaluated check   *)
(* is reported with its own verdict.                                        *)
THEOREM ReportFaithful == Spec => []ReportsWhatRan
  BY Invariance, Reported, PTL

(* NoHiddenFailure: a run with a failing verdict, reported or not, does not *)
(* exit with 0.                                                             *)
THEOREM ReportHonest == Spec => []NoHiddenFailure
  BY Invariance, Reported, PTL

(* EmittedOnce: the callback hears of each result at most once, after it is *)
(* recorded, and of every one unless fail_fast stopped the run.             *)
THEOREM EmissionHonest == Spec => []EmittedOnce
<1>1. IInv => EmittedOnce
  BY DEF IInv, EmitInv, OutcomeInv, EmittedOnce, TypeOK
<1>2. QED
  BY Invariance, <1>1, PTL

(* ReturnsQuiet: when run() is over no check is being evaluated.            *)
THEOREM QuietReturn == Spec => []ReturnsQuiet
<1>1. IInv => ReturnsQuiet
  BY DEF IInv, FutureInv, InWave, ReturnsQuiet, Over, InFlight
<1>2. QED
  BY Invariance, <1>1, PTL
---------------------------------------------------------------------------
(* The cap on checks in flight *)

LEMMA FiniteChecks == ASSUME NEW S \in SUBSET Checks
                      PROVE  IsFiniteSet(S) /\ Cardinality(S) \in Nat
<1>1. IsFiniteSet(Checks)
  BY NAssumption, FS_Interval DEF Checks
<1>2. IsFiniteSet(S)
  BY <1>1, FS_Subset
<1>3. QED
  BY <1>2, FS_CardinalityType

LEMMA WorkersCapped == TypeOK => Workers \in Nat /\ Workers <= IF maxParallel < 1 THEN 1 ELSE maxParallel
BY FiniteChecks DEF TypeOK, Workers

LEMMA CapStep == IInv /\ InFlightBounded /\ [Next]_vars => InFlightBounded'
<1> SUFFICES ASSUME IInv, InFlightBounded, [Next]_vars PROVE InFlightBounded'
  OBVIOUS
<1> USE DEF InFlightBounded, IInv
<1>1. UNCHANGED maxParallel
  BY DEF Next, Main, Worker, Returned, vars, config, Select, PlanWave, Planned, SkipWave,
         Partition, Submit, Collect, CollectStopping, Cancel, CancelInto, AllCollected,
         Drained, WrapUp, WrapUpWith, Report, Start, Discard, Finish
<1>2. ASSUME NEW c \in Checks, Start(c) PROVE InFlightBounded'
  <2>1. InFlight' = InFlight \cup {c} /\ c \notin InFlight
    BY <1>2 DEF Start, InFlight, TypeOK
  <2>2. runnable \cap InFlight = InFlight
    BY DEF FutureInv, InFlight
  <2>3. Cardinality(InFlight) < Workers
    BY <1>2, <2>2 DEF Start, Idle
  <2>4. Cardinality(InFlight') = Cardinality(InFlight) + 1
    BY <2>1, FiniteChecks, FS_AddElement DEF InFlight
  <2>5. Cardinality(InFlight) \in Nat
    BY FiniteChecks DEF InFlight
  <2>6. QED
    BY <1>1, <2>3, <2>4, <2>5, WorkersCapped DEF TypeOK
<1>3. ASSUME ~ \E c \in Checks : Start(c) PROVE InFlightBounded'
  <2>1. InFlight' \subseteq InFlight
    BY <1>3 DEF Next, Main, Worker, Returned, vars, pool, TypeOK, InFlight, Select, PlanWave,
         Planned, SkipWave, Partition, Submit, Collect, CollectStopping, Cancel, CancelInto,
         AllCollected, Drained, WrapUp, WrapUpWith, Report, Discard, Finish, Verdicts, CheckStatus
  <2>2. /\ Cardinality(InFlight') <= Cardinality(InFlight)
        /\ Cardinality(InFlight') \in Nat /\ Cardinality(InFlight) \in Nat
    BY <2>1, FiniteChecks, FS_Subset DEF InFlight
  <2>3. QED
    BY <1>1, <2>2 DEF TypeOK
<1>4. QED
  BY <1>2, <1>3

(* InFlightBounded: the checks in flight never outnumber max_parallel,      *)
(* whatever the sizes of the waves and the moment of a cancellation.        *)
THEOREM CapHolds == Spec => []InFlightBounded
<1>1. Init => InFlightBounded
  <2> SUFFICES ASSUME Init PROVE InFlightBounded
    OBVIOUS
  <2>1. InFlight = {}
    BY DEF Init, InFlight
  <2>2. QED
    BY <2>1, FS_EmptySet, LimitsAssumption DEF Init, InFlightBounded
<1>2. QED
  BY <1>1, CapStep, Invariance, PTL DEF Spec
---------------------------------------------------------------------------
(* What a step may never do *)

(* ResultsFinal: a recorded result is never replaced.                       *)
THEOREM ResultsStayFinal == Spec => ResultsFinal
<1>1. IInv /\ [Next]_vars => [\A c \in Completed : completed'[c] = completed[c]]_vars
  <2> SUFFICES ASSUME IInv, [Next]_vars, NEW c \in Completed
               PROVE  completed'[c] = completed[c]
    OBVIOUS
  <2> USE DEF IInv, TypeOK, Completed, results
  <2>1. CASE Select
    BY <2>1 DEF Select, ProgressInv, Before
  <2>2. CASE SkipWave \/ Partition
    BY <2>2 DEF SkipWave, Partition, SkipAll, ProgressInv, Wave
  <2>3. CASE \E d \in Checks : Collect(d)
    BY <2>3 DEF Collect, CollectStopping
  <2>4. CASE WrapUp
    BY <2>4 DEF WrapUp, WrapUpWith, SkipAll
  <2>5. CASE ~Select /\ ~SkipWave /\ ~Partition /\ ~WrapUp /\ ~(\E d \in Checks : Collect(d))
    BY <2>5 DEF Next, Main, Worker, Returned, vars, PlanWave, Planned, Submit, Cancel, CancelInto,
         AllCollected, Drained, Report, Start, Discard, Finish
  <2>6. QED
    BY <2>1, <2>2, <2>3, <2>4, <2>5
<1>2. QED
  BY <1>1, Invariance, PTL DEF Spec, ResultsFinal

(* AbortIsFinal: once fail_fast has cancelled the queue no check starts.    *)
THEOREM AbortStaysFinal == Spec => AbortIsFinal
<1>1. IInv /\ [Next]_vars => [aborted /\ phase # "cancel" => Started' = Started]_vars
  <2> SUFFICES ASSUME IInv, [Next]_vars, aborted, phase # "cancel"
               PROVE  Started' = Started
    OBVIOUS
  <2>1. \A c \in Checks : future[c] # "queued"
    BY DEF IInv, FutureInv, InWave
  <2>2. CASE \E c \in Checks : Submit(c) \/ Cancel(c)
    BY <2>2 DEF IInv, FutureInv, Submit, Cancel, CancelInto
  <2>3. CASE \E c \in Checks : Worker(c)
    BY <2>1, <2>3 DEF IInv, TypeOK, Worker, Start, Discard, Finish, Started, Verdicts, CheckStatus
  <2>4. CASE ~(\E c \in Checks : Worker(c) \/ Submit(c) \/ Cancel(c))
    <3>1. UNCHANGED future
      BY <2>4 DEF Next, Main, Returned, vars, pool, Select, PlanWave, Planned, SkipWave, Partition,
           Collect, CollectStopping, AllCollected, Drained, WrapUp, WrapUpWith, Report
    <3>2. QED
      BY <3>1 DEF Started
  <2>5. QED
    BY <2>2, <2>3, <2>4
<1>2. QED
  BY <1>1, Invariance, PTL DEF Spec, AbortIsFinal
---------------------------------------------------------------------------
(* SuiteRunner implements RunContract *)

LEMMA ContractInit == Init => Contract!Init
BY GraphsAssumption DEF Init, Contract!Init, Started, Verdicts, CheckStatus

LEMMA ContractStep == IInv /\ [Next]_vars => [Contract!Next]_(Contract!vars)
<1> SUFFICES ASSUME IInv, [Next]_vars, ~UNCHANGED Contract!vars PROVE Contract!Next
  OBVIOUS
<1> USE DEF config, planning, pool, results, Contract!options, Contract!vars, Contract!Open
<1>a. TypeOK /\ PlanInv /\ ProgressInv /\ FutureInv /\ VerdictInv /\ OutcomeInv
  BY DEF IInv
<1>b. phase \notin {"done", "refused"} =>
        (IF phase = "refused" THEN "refused" ELSE status) = "running"
  BY <1>a DEF OutcomeInv
<1>c. /\ Contract!Ok = Ok /\ Contract!Failing = Failing /\ Contract!Verdicts = Verdicts
      /\ \A S : Contract!Recompute(S) = Recompute(S)
  BY DEF Ok, Failing, Verdicts, CheckStatus, Recompute, Contract!Ok, Contract!Failing,
         Contract!Verdicts, Contract!CheckStatus, Contract!Recompute
<1>1. CASE Select
  <2>1. Completed = {} /\ phase = "select"
    BY <1>1, <1>a DEF Select, ProgressInv, Before
  <2>2. CASE chosen = {}
    <3>1. /\ status' = Recompute({}) /\ phase' = "done"
          /\ UNCHANGED <<config, future, completed>>
      BY <1>1, <2>2 DEF Select
    <3>2. {completed[c] : c \in chosen} = {}
      BY <2>2
    <3>3. Contract!Close
      BY <1>b, <1>c, <2>1, <2>2, <3>1, <3>2 DEF Contract!Close, Started
    <3>4. QED
      BY <3>3 DEF Contract!Next
  <2>3. CASE chosen # {} /\ dryRun
    <3>1. Contract!Skip(chosen)
      BY <1>1, <1>a, <1>b, <2>1, <2>3
         DEF Select, SkipAll, Contract!Skip, Contract!MayBeSkipped, Started, Completed, TypeOK
    <3>2. QED
      BY <1>a, <3>1 DEF Contract!Next, TypeOK
  <2>4. CASE chosen # {} /\ ~dryRun
    BY <1>1, <2>1, <2>4 DEF Select, Started
  <2>5. QED
    BY <2>2, <2>3, <2>4
<1>2. CASE PlanWave
  <2>1. CASE NextWave = {}
    <3>1. /\ phase = "plan" /\ phase' = "refused"
          /\ UNCHANGED <<config, pool, results, status>>
      BY <1>2, <2>1 DEF PlanWave
    <3>2. Completed = {} /\ Started = {}
      BY <1>a, <3>1 DEF ProgressInv, Before, Started, Verdicts, CheckStatus
    <3>3. Remaining # {} /\ Remaining \in SUBSET chosen
          /\ \A c \in Remaining : deps[c] \cap Remaining # {}
      BY <1>2, <1>a, <2>1 DEF PlanWave, NextWave, Awaited, Remaining, TypeOK
    <3>4. Contract!Refuse
      BY <1>b, <3>1, <3>2, <3>3 DEF Contract!Refuse, Started, Completed
    <3>5. QED
      BY <3>4 DEF Contract!Next
  <2>2. CASE NextWave # {}
    BY <1>2, <2>2 DEF PlanWave, Started
  <2>3. QED
    BY <2>1, <2>2
<1>3. CASE Planned
  BY <1>3 DEF Planned, Started
<1>4. CASE SkipWave
  <2>1. /\ phase = "waves" /\ phase' = phase /\ aborted /\ UNCHANGED <<config, pool, status>>
        /\ completed' = [c \in Checks |-> IF c \in Wave(wave') THEN "skipped" ELSE completed[c]]
        /\ wave' = wave + 1
    BY <1>4 DEF SkipWave, SkipAll
  <2>2. \A c \in Wave(wave') : c \in chosen /\ completed[c] = "none"
    BY <1>a, <2>1 DEF ProgressInv, Wave, Completed, TypeOK
  <2>3. failFast /\ \E d \in chosen : completed[d] \in Failing
    BY <1>a, <2>1 DEF VerdictInv
  <2>4. Contract!Skip(Wave(wave'))
    BY <1>b, <1>c, <2>1, <2>2, <2>3 DEF Contract!Skip, Contract!MayBeSkipped, Started
  <2>5. QED
    BY <1>a, <2>4 DEF Contract!Next, Wave, TypeOK
<1>5. CASE Partition
  <2> DEFINE blocked == {c \in Wave(wave') : Blockers(c) # {}}
  <2>1. /\ phase = "waves" /\ phase' \in {"waves", "submit"} /\ wave' = wave + 1
        /\ completed' = [c \in Checks |-> IF c \in blocked THEN "skipped" ELSE completed[c]]
        /\ UNCHANGED <<config, future, status>>
    BY <1>5 DEF Partition, SkipAll
  <2>2. \A c \in blocked : c \in chosen /\ completed[c] = "none"
    BY <1>a, <2>1 DEF ProgressInv, Wave, Completed, TypeOK
  <2>3. \A c \in blocked : c \notin Started
    BY <1>a, <2>1 DEF FutureInv, Wave, Started, Verdicts, CheckStatus, TypeOK
  <2>4. \A c \in blocked : \E d \in deps[c] \cap chosen : completed[d] \in {"failed", "warned", "errored"}
    BY <1>a DEF Blockers, Completed, Wave, TypeOK, CheckStatus, Ok, ProgressInv
  <2>5. Contract!Skip(blocked)
    BY <1>b, <2>1, <2>2, <2>3, <2>4 DEF Contract!Skip, Contract!MayBeSkipped, Started
  <2>6. QED
    BY <1>a, <2>5 DEF Contract!Next, Wave, TypeOK
<1>6. ASSUME NEW c \in Checks, Submit(c) PROVE Contract!Next
  <2>1. Started' = Started
    BY <1>6, <1>a DEF Submit, First, Started, TypeOK, Verdicts, CheckStatus
  <2>2. QED
    BY <1>6, <2>1 DEF Submit
<1>7. ASSUME NEW c \in Checks, Collect(c) PROVE Contract!Next
  <2>1. /\ completed' = [completed EXCEPT ![c] = future[c]]
        /\ future[c] \in Verdicts /\ c \in runnable /\ c \notin Completed
        /\ phase = "collect" /\ phase' \in {"collect", "cancel"}
        /\ UNCHANGED <<config, future, status>>
    BY <1>7 DEF Collect, CollectStopping
  <2>2. c \in Started /\ c \in chosen /\ completed[c] = "none"
    BY <1>a, <2>1 DEF Started, Completed, ProgressInv, Wave, InWave
  <2>3. Contract!Land(c)
    BY <1>b, <1>c, <2>1, <2>2 DEF Contract!Land, Started
  <2>4. QED
    BY <2>3 DEF Contract!Next
<1>8. ASSUME NEW c \in Checks, Cancel(c) PROVE Contract!Next
  <2>1. Started' = Started
    BY <1>8, <1>a DEF Cancel, CancelInto, Started, TypeOK, Verdicts, CheckStatus
  <2>2. QED
    BY <1>8, <2>1 DEF Cancel, CancelInto
<1>9. CASE AllCollected
  BY <1>9 DEF AllCollected, Started
<1>10. CASE Drained
  BY <1>10 DEF Drained, Started
<1>11. CASE WrapUp
  <2> DEFINE missing == IF aborted THEN runnable \ Completed ELSE {}
  <2>1. /\ phase = "wrapup" /\ phase' = "waves"
        /\ completed' = [c \in Checks |-> IF c \in missing THEN "skipped" ELSE completed[c]]
        /\ UNCHANGED <<config, future, status>>
    BY <1>11 DEF WrapUp, WrapUpWith, SkipAll
  <2>2. \A c \in missing : c \in chosen /\ completed[c] = "none"
    BY <1>a, <2>1 DEF ProgressInv, Wave, Completed, TypeOK, InWave
  <2>3. missing # {} => failFast /\ \E d \in chosen : completed[d] \in Failing
    BY <1>a DEF VerdictInv
  <2>4. Contract!Skip(missing)
    BY <1>b, <1>c, <2>1, <2>2, <2>3 DEF Contract!Skip, Contract!MayBeSkipped, Started
  <2>5. QED
    BY <1>a, <2>4 DEF Contract!Next, TypeOK
<1>12. CASE Report
  <2>1. /\ status' = Recompute({completed[c] : c \in chosen \cap Completed})
        /\ phase \in {"report", "waves"} /\ phase' = "done"
        /\ UNCHANGED <<config, pool, results>>
    BY <1>12 DEF Report
  <2>2. Completed = chosen
    <3>1. CASE phase = "report"
      BY <1>a, <3>1 DEF ProgressInv
    <3>2. CASE phase = "waves"
      <4>1. wave = waves /\ Completed = {c \in chosen : waveOf[c] <= wave}
        BY <1>12, <1>a, <3>2 DEF Report, ProgressInv
      <4>2. \A c \in chosen : waveOf[c] <= waves
        BY <1>a DEF PlanInv, TypeOK
      <4>3. QED
        BY <4>1, <4>2
    <3>3. QED
      BY <2>1, <3>1, <3>2
  <2>3. chosen \cap Completed = chosen /\ \A c \in chosen : completed[c] # "none"
    BY <2>2 DEF Completed
  <2>4. Contract!Close
    BY <1>b, <1>c, <2>1, <2>3 DEF Contract!Close, Started
  <2>5. QED
    BY <2>4 DEF Contract!Next
<1>13. ASSUME NEW c \in Checks, Start(c) PROVE Contract!Next
  <2>1. /\ future' = [future EXCEPT ![c] = "running"] /\ future[c] = "queued"
        /\ UNCHANGED <<config, phase, completed, status>>
    BY <1>13 DEF Start
  <2>2. Started' = Started \cup {c} /\ c \notin Started
    BY <1>a, <2>1 DEF Started, TypeOK, Verdicts, CheckStatus
  <2>3. c \in chosen /\ c \in runnable /\ phase \in InWave /\ ~dryRun
    BY <1>a, <2>1 DEF FutureInv, ProgressInv
  <2>4. completed[c] = "none"
    BY <1>a, <2>1, <2>3 DEF VerdictInv, TypeOK, Completed, CheckStatus
  <2>5. \A d \in deps[c] \cap chosen : completed[d] \in Ok
    BY <1>a, <2>3 DEF VerdictInv, Awaited
  <2>6. Contract!Start(c)
    BY <1>b, <1>c, <2>1, <2>2, <2>3, <2>4, <2>5 DEF Contract!Start, InWave
  <2>7. QED
    BY <2>6 DEF Contract!Next
<1>14. ASSUME NEW c \in Checks, Discard(c) PROVE Contract!Next
  <2>1. Started' = Started
    BY <1>14, <1>a DEF Discard, Started, TypeOK, Verdicts, CheckStatus
  <2>2. QED
    BY <1>14, <2>1 DEF Discard
<1>15. ASSUME NEW c \in Checks, NEW v \in Verdicts, Finish(c, v) PROVE Contract!Next
  <2>1. Started' = Started
    BY <1>15, <1>a DEF Finish, Started, TypeOK
  <2>2. QED
    BY <1>15, <2>1 DEF Finish
<1>16. CASE UNCHANGED vars
  BY <1>16 DEF vars, Started
<1>17. QED
  BY <1>1, <1>2, <1>3, <1>4, <1>5, <1>6, <1>7, <1>8, <1>9, <1>10, <1>11, <1>12, <1>13,
     <1>14, <1>15, <1>16 DEF Next, Main, Worker, Returned

(* ImplementsContract: with futures read as "has it started", the recorded  *)
(* results as verdicts and the status as outcome, every run of the engine   *)
(* is a run the contract allows.                                            *)
THEOREM Implementation == Spec => ImplementsContract
BY ContractInit, ContractStep, Invariance, PTL DEF Spec, ImplementsContract, Contract!Spec

---------------------------------------------------------------------------
(* The linter                                                               *)
(*                                                                          *)
(* _detect_cycles finds a cycle in exactly the graphs that have one.  The   *)
(* search is a recursive function, so three things are shown: that there is *)
(* a function that satisfies its equation, whatever the graph (its value is *)
(* the outcome of the run of steps from a state, where that run ends); that *)
(* every step keeps SearchInv; and that the steps end, since each leaves    *)
(* fewer white checks or as many and a shorter stack.                       *)

AnyGraph == [Checks -> SUBSET Checks]

(* The states of the search, its step and the equation of DetectCycles.     *)
White(s) == {c \in Checks : s.colour[c] = "white"}
Exhausted(s) == s.stack = <<>> /\ White(s) = {}
Advance(g, s) == IF s.stack # <<>> THEN Visit(g, s) ELSE [s EXCEPT !.stack = <<Min(White(s))>>]
Unsearched == [stack |-> <<>>, colour |-> [c \in Checks |-> "white"], cycles |-> {}]
Searches(g, f) == f = [s \in Search |-> IF Exhausted(s) THEN s.cycles ELSE f[Advance(g, s)]]

(* What DetectCycles returns is the value of some function that satisfies   *)
(* the equation, if there is one.                                           *)
LEMMA Unfold ==
  ASSUME NEW g, \E f : Searches(g, f)
  PROVE \E f : Searches(g, f) /\ DetectCycles(g) = f[Unsearched]
<1> DEFINE body(f) == [s \in Search |->
             IF s.stack # <<>> THEN f[Visit(g, s)]
             ELSE LET left == {c \in Checks : s.colour[c] = "white"}
                  IN  IF left = {} THEN s.cycles ELSE f[[s EXCEPT !.stack = <<Min(left)>>]]]
           search == CHOOSE f : f = body(f)
<1>1. DetectCycles(g) = search[Unsearched]
  BY DEF DetectCycles, Unsearched
<1>2. ASSUME NEW f PROVE Searches(g, f) <=> f = body(f)
  BY DEF Searches, Exhausted, White, Advance
<1> HIDE DEF body
<1>3. PICK f : f = body(f)
  BY <1>2
<1>4. search = body(search)
  BY <1>3
<1> HIDE DEF search
<1>5. Searches(g, search)
  BY <1>2, <1>4
<1>6. QED
  BY <1>1, <1>5

(* A non-empty set of numbers has a least one.                              *)
LEMMA LeastIndex ==
  ASSUME NEW S \in SUBSET Nat, S # {}
  PROVE \E i \in S : \A j \in S : i <= j
<1>1. IsWellFoundedOn(OpToRel(<, Nat), Nat)
  BY NatLessThanWellFounded
<1>2. PICK i \in S : \A j \in S : ~ (<<j, i>> \in OpToRel(<, Nat))
  BY <1>1, WFMin
<1>3. \A j \in S : ~ (j < i)
  BY <1>2 DEF OpToRel
<1>4. QED
  BY <1>3

LEMMA MinIn == ASSUME NEW S \in SUBSET Nat, S # {} PROVE Min(S) \in S
  BY LeastIndex DEF Min

(* The sequence made of a finite set lists each of its elements.            *)
LEMMA Listed ==
  ASSUME NEW S, IsFiniteSet(S)
  PROVE /\ SetToSeq(S) \in Seq(S)
        /\ \A x \in S : \E i \in 1 .. Len(SetToSeq(S)) : SetToSeq(S)[i] = x
<1> DEFINE n == Cardinality(S)  q == SetToSeq(S)
<1>1. n \in Nat /\ ExistsBijection(1 .. n, S)
  BY FS_CountingElements, FS_CardinalityType
<1>2. q \in [1 .. n -> S] /\ IsInjective(q)
  <2>1. \E f \in [1 .. n -> S] : IsInjective(f)
    BY <1>1 DEF ExistsBijection, Bijection, Injection
  <2>2. QED
    BY <2>1 DEF SetToSeq
<1>3. q \in Injection(1 .. n, S)
  BY <1>2 DEF Injection
<1>4. Cardinality(1 .. n) = n
  BY <1>1, FS_Interval
<1>5. q \in Surjection(1 .. n, S)
  BY <1>3, <1>4, FS_Injection
<1>6. \A x \in S : \E i \in 1 .. n : q[i] = x
  BY <1>5 DEF Surjection
<1>7. q \in Seq(S) /\ Len(q) = n
  <2> HIDE DEF n, q
  <2> QED
  BY <1>1, <1>2
<1>8. QED
  BY <1>6, <1>7

(* The stack after a pop, and after a set of checks is pushed.              *)
LEMMA Popped ==
  ASSUME NEW q \in Seq(Checks), q # <<>>
  PROVE /\ Len(q) \in Nat \ {0} /\ Last(q) = q[Len(q)] /\ Last(q) \in Checks
        /\ Front(q) \in Seq(Checks) /\ Len(Front(q)) = Len(q) - 1
        /\ \A i \in 1 .. Len(q) - 1 : Front(q)[i] = q[i]
<1>1. Len(q) \in Nat \ {0}
  BY EmptySeq
<1>2. PICK n \in Nat \ {0} : n = Len(q)
  BY <1>1
<1>3. \A i \in 1 .. n : q[i] \in Checks
  BY <1>2, ElementOfSeq
<1>4. /\ SubSeq(q, 1, n - 1) \in Seq(Checks)
      /\ Len(SubSeq(q, 1, n - 1)) = IF 1 <= n - 1 THEN n - 1 - 1 + 1 ELSE 0
      /\ \A i \in 1 .. n - 1 - 1 + 1 : SubSeq(q, 1, n - 1)[i] = q[1 + i - 1]
  <2>1. n - 1 \in Int /\ \A i \in 1 .. n - 1 : q[i] \in Checks
    BY <1>3
  <2>2. QED
    BY <2>1, SubSeqProperties
<1>5. Front(q) = SubSeq(q, 1, n - 1)
  BY <1>2 DEF Front
<1>6. Len(Front(q)) = n - 1 /\ \A i \in 1 .. n - 1 : Front(q)[i] = q[i]
  BY <1>4, <1>5
<1>7. q[n] \in Checks
  BY <1>3
<1>8. QED
  BY <1>2, <1>4, <1>5, <1>6, <1>7 DEF Last

PushedOn(q, D, r, n, k) ==
    /\ r \in Seq(Checks) /\ Len(r) = n + k
    /\ \A i \in 1 .. n : r[i] = q[i]
    /\ \A i \in n + 1 .. n + k : r[i] \in D
    /\ \A d \in D : \E i \in n + 1 .. n + k : r[i] = d

LEMMA Pushed ==
  ASSUME NEW q \in Seq(Checks), NEW n \in Nat, n = Len(q), NEW D \in SUBSET Checks,
         NEW r, r = q \o SetToSeq(D)
  PROVE \E k \in Nat : PushedOn(q, D, r, n, k)
<1> DEFINE e == SetToSeq(D)
<1>1. e \in Seq(D) /\ \A d \in D : \E i \in 1 .. Len(e) : e[i] = d
  BY FiniteChecks, Listed
<1>2. e \in Seq(Checks)
  BY <1>1, SeqMonotonic
<1>0. r = q \o e
  OBVIOUS
<1> HIDE DEF e
<1>3. PICK k \in Nat : k = Len(e)
  BY <1>1, LenProperties
<1>4. /\ r \in Seq(Checks) /\ Len(r) = n + k
      /\ \A i \in 1 .. n + k : r[i] = IF i <= n THEN q[i] ELSE e[i - n]
  BY <1>0, <1>2, <1>3, ConcatProperties
<1>5. \A i \in 1 .. k : e[i] \in D
  BY <1>1, <1>3, ElementOfSeq
<1>6. \A i \in 1 .. n : r[i] = q[i]
  BY <1>4
<1>7. \A i \in n + 1 .. n + k : r[i] \in D
  <2> SUFFICES ASSUME NEW i \in n + 1 .. n + k PROVE r[i] \in D
    OBVIOUS
  <2>1. i \in 1 .. n + k /\ ~ (i <= n) /\ i - n \in 1 .. k
    OBVIOUS
  <2>2. QED
    BY <1>4, <1>5, <2>1
<1>8. ASSUME NEW d \in D PROVE \E i \in n + 1 .. n + k : r[i] = d
  <2>1. PICK j \in 1 .. k : e[j] = d
    BY <1>1, <1>3
  <2>2. n + j \in 1 .. n + k /\ ~ (n + j <= n) /\ (n + j) - n = j /\ n + j \in n + 1 .. n + k
    OBVIOUS
  <2>3. r[n + j] = d
    BY <1>4, <2>1, <2>2
  <2>4. QED
    BY <2>2, <2>3
<1>9. QED
  BY <1>3, <1>4, <1>6, <1>7, <1>8 DEF PushedOn

(* A step goes from a state of the search to a state of the search.         *)
LEMMA AdvanceType ==
  ASSUME NEW g \in AnyGraph, NEW s \in Search, ~ Exhausted(s)
  PROVE  Advance(g, s) \in Search
<1>1. s.stack \in Seq(Checks) /\ s.colour \in [Checks -> Colours] /\ s.cycles \in SUBSET (Checks \X Checks)
  BY DEF Search
<1>2. CASE s.stack = <<>>
  <2>1. Min(White(s)) \in Checks
    <3>1. White(s) # {} /\ White(s) \in SUBSET Checks
      BY <1>2 DEF Exhausted, White
    <3>2. Checks \subseteq Nat
      BY NAssumption DEF Checks
    <3>3. QED
      BY <3>1, <3>2, MinIn
  <2>2. <<Min(White(s))>> \in Seq(Checks)
    BY <2>1
  <2>3. QED
    BY <1>2, <2>2 DEF Advance, Search
<1>3. CASE s.stack # <<>>
  <2> DEFINE node == Last(s.stack)
  <2>1. node \in Checks /\ Front(s.stack) \in Seq(Checks)
    BY <1>1, <1>3, Popped
  <2> HIDE DEF node
  <2> DEFINE colour == [s.colour EXCEPT ![node] = "grey"]
             D == {d \in g[node] : colour[d] = "white"}
             E == {d \in g[node] : colour[d] = "grey"}
  <2>2. colour \in [Checks -> Colours] /\ [s.colour EXCEPT ![node] = "black"] \in [Checks -> Colours]
    BY <1>1, <2>1 DEF Colours
  <2>3. s.stack \o SetToSeq(D) \in Seq(Checks)
    <3>1. D \in SUBSET Checks
      BY <2>1 DEF AnyGraph
    <3> HIDE DEF D
    <3>2. Len(s.stack) \in Nat
      BY <1>1, LenProperties
    <3>3. QED
      BY <1>1, <3>1, <3>2, Pushed DEF PushedOn
  <2>4. s.cycles \cup {<<node, d>> : d \in E} \in SUBSET (Checks \X Checks)
    BY <1>1, <2>1 DEF AnyGraph
  <2>5. Advance(g, s) = Visit(g, s)
    BY <1>3 DEF Advance
  <2>6. CASE s.colour[node] = "black"
    <3>1. Visit(g, s) = [s EXCEPT !.stack = Front(s.stack)]
      BY <2>6 DEF Visit, node
    <3>2. QED
      BY <2>1, <2>5, <3>1 DEF Search
  <2>7. CASE s.colour[node] = "grey"
    <3>1. Visit(g, s) = [s EXCEPT !.stack = Front(s.stack), !.colour[node] = "black"]
      BY <2>7 DEF Visit, node
    <3>2. QED
      BY <1>1, <2>1, <2>2, <2>5, <3>1 DEF Search
  <2>8. CASE s.colour[node] \notin {"black", "grey"}
    <3>1. Visit(g, s) = [stack |-> s.stack \o SetToSeq(D), colour |-> colour,
                         cycles |-> s.cycles \cup {<<node, d>> : d \in E}]
      BY <2>8 DEF Visit, node
    <3> HIDE DEF colour, D, E
    <3>2. QED
      BY <2>2, <2>3, <2>4, <2>5, <3>1 DEF Search
  <2>9. QED
    BY <2>6, <2>7, <2>8
<1>4. QED
  BY <1>2, <1>3

(* r leads from s to an exhausted state in n steps, with the cycles v.       *)
Leads(g, s, v, n, r) ==
    /\ r[0] = s
    /\ \A i \in Nat : i < n => ~ Exhausted(r[i]) /\ r[i + 1] = Advance(g, r[i])
    /\ Exhausted(r[n]) /\ r[n].cycles = v
Outcomes(g, s) == {v \in SUBSET (Checks \X Checks) : \E n \in Nat, r \in [Nat -> Search] : Leads(g, s, v, n, r)}

(* An exhausted state has one outcome, any other those of its successor.    *)
LEMMA EndsHere ==
  ASSUME NEW g, NEW s \in Search, Exhausted(s)
  PROVE  Outcomes(g, s) = {s.cycles}
<1>1. ASSUME NEW v \in SUBSET (Checks \X Checks), NEW n \in Nat, NEW r \in [Nat -> Search], Leads(g, s, v, n, r)
      PROVE  v = s.cycles
  <2>1. n = 0
    BY <1>1 DEF Leads
  <2>2. QED
    BY <1>1, <2>1 DEF Leads
<1>2. s.cycles \in SUBSET (Checks \X Checks)
  BY DEF Search
<1>3. Leads(g, s, s.cycles, 0, [i \in Nat |-> s])
  BY DEF Leads
<1>4. [i \in Nat |-> s] \in [Nat -> Search]
  OBVIOUS
<1>5. QED
  BY <1>1, <1>2, <1>3, <1>4 DEF Outcomes

LEMMA EndsLater ==
  ASSUME NEW g \in AnyGraph, NEW s \in Search, ~ Exhausted(s)
  PROVE  Outcomes(g, s) = Outcomes(g, Advance(g, s))
<1> DEFINE t == Advance(g, s)
<1>0. t \in Search
  BY AdvanceType
<1>a. t = Advance(g, s)
  OBVIOUS
<1> HIDE DEF t
<1>1. ASSUME NEW v \in SUBSET (Checks \X Checks), NEW n \in Nat, NEW r \in [Nat -> Search], Leads(g, s, v, n, r)
      PROVE  v \in Outcomes(g, t)
  <2> DEFINE q == [i \in Nat |-> r[i + 1]]
  <2>1. n # 0
    BY <1>1 DEF Leads
  <2>2. PICK m \in Nat : n = m + 1
    <3>1. n - 1 \in Nat /\ n = (n - 1) + 1
      BY <2>1
    <3>2. QED
      BY <3>1
  <2>3. q \in [Nat -> Search]
    OBVIOUS
  <2>4. q[0] = t
    BY <1>1, <1>a, <2>2 DEF Leads
  <2>5. ASSUME NEW i \in Nat, i < m PROVE ~ Exhausted(q[i]) /\ q[i + 1] = Advance(g, q[i])
    <3>1. i + 1 \in Nat /\ i + 1 < n
      BY <2>2, <2>5
    <3>2. ~ Exhausted(r[i + 1]) /\ r[(i + 1) + 1] = Advance(g, r[i + 1])
      BY <1>1, <3>1 DEF Leads
    <3>3. q[i] = r[i + 1] /\ q[i + 1] = r[(i + 1) + 1]
      OBVIOUS
    <3>4. QED
      BY <3>2, <3>3
  <2>6. q[m] = r[n]
    BY <2>2
  <2>7. Leads(g, t, v, m, q)
    <3> HIDE DEF q
    <3>1. QED
      BY <1>1, <2>4, <2>5, <2>6 DEF Leads
  <2>8. QED
    BY <2>3, <2>7 DEF Outcomes
<1>2. ASSUME NEW v \in SUBSET (Checks \X Checks), NEW n \in Nat, NEW r \in [Nat -> Search], Leads(g, t, v, n, r)
      PROVE  v \in Outcomes(g, s)
  <2> DEFINE q == [i \in Nat |-> IF i = 0 THEN s ELSE r[i - 1]]
  <2>3. q \in [Nat -> Search] /\ q[0] = s
    OBVIOUS
  <2>4. \A i \in Nat : q[i + 1] = r[i]
    OBVIOUS
  <2> HIDE DEF q
  <2>5. ASSUME NEW i \in Nat, i < n + 1 PROVE ~ Exhausted(q[i]) /\ q[i + 1] = Advance(g, q[i])
    <3>1. CASE i = 0
      <4>1. q[i + 1] = r[0] /\ r[0] = t
        BY <1>2, <2>4, <3>1 DEF Leads
      <4>2. QED
        BY <1>a, <2>3, <3>1, <4>1
    <3>2. CASE i # 0
      <4>1. PICK j \in Nat : i = j + 1
        <5>1. i - 1 \in Nat /\ i = (i - 1) + 1
          BY <3>2
        <5>2. QED
          BY <5>1
      <4>2. ~ Exhausted(r[j]) /\ r[j + 1] = Advance(g, r[j])
        BY <1>2, <2>5, <4>1 DEF Leads
      <4>3. q[i] = r[j] /\ q[i + 1] = r[j + 1]
        BY <2>4, <4>1
      <4>4. QED
        BY <4>2, <4>3
    <3>3. QED
      BY <3>1, <3>2
  <2>7. Leads(g, s, v, n + 1, q)
    BY <1>2, <2>3, <2>4, <2>5 DEF Leads
  <2>8. QED
    BY <2>3, <2>7 DEF Outcomes
<1>3. QED
  BY <1>1, <1>2, <1>a DEF Outcomes

LEMMA SearchExists ==
  ASSUME NEW g \in AnyGraph
  PROVE  \E f : Searches(g, f)
<1> DEFINE Pick(V) == CHOOSE v \in V : TRUE
           f == [s \in Search |-> Pick(Outcomes(g, s))]
<1>1. ASSUME NEW s \in Search PROVE f[s] = IF Exhausted(s) THEN s.cycles ELSE f[Advance(g, s)]
  <2>0. f[s] = Pick(Outcomes(g, s))
    OBVIOUS
  <2>1. CASE Exhausted(s)
    <3>1. Outcomes(g, s) = {s.cycles}
      BY <2>1, EndsHere
    <3>2. QED
      BY <2>0, <2>1, <3>1
  <2>2. CASE ~ Exhausted(s)
    <3>1. Advance(g, s) \in Search
      BY <2>2, AdvanceType
    <3>2. Outcomes(g, s) = Outcomes(g, Advance(g, s))
      BY <2>2, EndsLater
    <3>3. f[Advance(g, s)] = Pick(Outcomes(g, Advance(g, s)))
      BY <3>1
    <3> HIDE DEF Pick, f
    <3>4. QED
      BY <2>0, <2>2, <3>2, <3>3
  <2>3. QED
    BY <2>1, <2>2
<1>2. f = [s \in Search |-> f[s]]
  OBVIOUS
<1> HIDE DEF f
<1>3. QED
  BY <1>1, <1>2 DEF Searches

(* The upper part of the stack of a check under way: the place where the    *)
(* check was put back when it was coloured grey.                            *)
Marker(s, i) ==
    /\ i \in 1 .. Len(s.stack)
    /\ s.colour[s.stack[i]] = "grey"
    /\ \A j \in i + 1 .. Len(s.stack) : s.stack[j] # s.stack[i]
(* Every check of S depends on one of S.                                    *)
Loop(g, S) == S # {} /\ \A c \in S : g[c] \cap S # {}
Black(s) == {c \in Checks : s.colour[c] = "black"}

(* Each grey check has its marker; what lies above a marker, up to the next *)
(* one, are checks it depends on; while no cycle was met, the dependencies  *)
(* of a grey check are black or lie above its marker, those of a black one  *)
(* are black, and no set of black checks is a loop; a cycle that was met is *)
(* a loop.                                                                  *)
MarkedInv(s) == \A c \in Checks : s.colour[c] = "grey" => \E i \in 1 .. Len(s.stack) : Marker(s, i) /\ s.stack[i] = c
TrailInv(g, s) ==
    \A i, j \in 1 .. Len(s.stack) :
        Marker(s, i) /\ i < j /\ (\A k \in i + 1 .. j - 1 : ~ Marker(s, k)) => s.stack[j] \in g[s.stack[i]]
OwedInv(g, s) ==
    s.cycles = {} => \A i \in 1 .. Len(s.stack) : Marker(s, i) =>
        \A d \in g[s.stack[i]] : d \in Black(s) \/ \E j \in i + 1 .. Len(s.stack) : s.stack[j] = d
BlackInv(g, s) ==
    s.cycles = {} => /\ \A c \in Black(s) : g[c] \subseteq Black(s)
                     /\ \A S \in SUBSET Black(s) : ~ Loop(g, S)
FoundInv(g, s) == s.cycles # {} => \E S \in SUBSET Checks : Loop(g, S)
SearchInv(g, s) == MarkedInv(s) /\ TrailInv(g, s) /\ OwedInv(g, s) /\ BlackInv(g, s) /\ FoundInv(g, s)

(* A check that is met again: it is black afterwards, in either case.       *)
LEMMA PopKeeps ==
  ASSUME NEW g \in AnyGraph, NEW s \in Search, NEW t \in Search, SearchInv(g, s),
         NEW n \in Nat \ {0}, n = Len(s.stack), Len(t.stack) = n - 1,
         \A i \in 1 .. n - 1 : t.stack[i] = s.stack[i],
         t.cycles = s.cycles,
         s.stack[n] \in Checks,
         s.colour[s.stack[n]] # "white",
         \A c \in Checks : t.colour[c] = IF c = s.stack[n] THEN "black" ELSE s.colour[c]
  PROVE  SearchInv(g, t)
<1> DEFINE x == s.stack[n]
<1>0. x \in Checks /\ (s.colour[x] = "black" \/ s.colour[x] = "grey") /\ t.colour[x] = "black"
  BY DEF Search, Colours
<1>1. \A i \in 1 .. n : s.stack[i] \in Checks
  BY ElementOfSeq DEF Search
<1>b. Black(t) = Black(s) \cup {x}
  BY <1>0 DEF Black
<1>2. ASSUME NEW i \in 1 .. n - 1 PROVE Marker(t, i) <=> Marker(s, i)
  <2>1. i \in 1 .. n /\ s.stack[i] \in Checks /\ t.stack[i] = s.stack[i] /\ n \in i + 1 .. n
    BY <1>1
  <2>2. CASE s.stack[i] = x
    <3>1. ~ Marker(t, i)
      BY <1>0, <2>1, <2>2 DEF Marker
    <3>2. ~ Marker(s, i)
      BY <2>1, <2>2 DEF Marker
    <3>3. QED
      BY <3>1, <3>2
  <2>3. CASE s.stack[i] # x
    <3>1. t.colour[t.stack[i]] = s.colour[s.stack[i]]
      BY <2>1, <2>3
    <3>2. (\A j \in i + 1 .. n : s.stack[j] # s.stack[i]) <=> (\A j \in i + 1 .. n - 1 : s.stack[j] # s.stack[i])
      BY <2>3
    <3>3. \A j \in i + 1 .. n - 1 : t.stack[j] = s.stack[j]
      OBVIOUS
    <3>4. QED
      BY <2>1, <3>1, <3>2, <3>3 DEF Marker
  <2>4. QED
    BY <2>2, <2>3
<1> HIDE DEF x
<1>3. MarkedInv(t)
  <2> SUFFICES ASSUME NEW c \in Checks, t.colour[c] = "grey"
               PROVE  \E i \in 1 .. n - 1 : Marker(t, i) /\ t.stack[i] = c
    BY DEF MarkedInv
  <2>1. c # x /\ s.colour[c] = "grey"
    BY <1>0 DEF x
  <2>2. PICK i \in 1 .. n : Marker(s, i) /\ s.stack[i] = c
    BY <2>1 DEF SearchInv, MarkedInv
  <2>3. i \in 1 .. n - 1
    BY <2>1, <2>2 DEF x
  <2>4. QED
    BY <1>2, <2>2, <2>3
<1>4. TrailInv(g, t)
  <2> SUFFICES ASSUME NEW i \in 1 .. n - 1, NEW j \in 1 .. n - 1, Marker(t, i), i < j,
                      \A k \in i + 1 .. j - 1 : ~ Marker(t, k)
               PROVE  t.stack[j] \in g[t.stack[i]]
    BY DEF TrailInv
  <2>1. i \in 1 .. n /\ j \in 1 .. n /\ Marker(s, i) /\ t.stack[i] = s.stack[i] /\ t.stack[j] = s.stack[j]
    BY <1>2
  <2>2. \A k \in i + 1 .. j - 1 : ~ Marker(s, k)
    BY <1>2
  <2>3. QED
    BY <2>1, <2>2 DEF SearchInv, TrailInv
<1>5. OwedInv(g, t)
  <2> SUFFICES ASSUME t.cycles = {}, NEW i \in 1 .. n - 1, Marker(t, i), NEW d \in g[t.stack[i]]
               PROVE  d \in Black(t) \/ \E j \in i + 1 .. n - 1 : t.stack[j] = d
    BY DEF OwedInv
  <2>1. i \in 1 .. n /\ Marker(s, i) /\ t.stack[i] = s.stack[i]
    BY <1>2
  <2>2. d \in Black(s) \/ \E j \in i + 1 .. n : s.stack[j] = d
    BY <2>1 DEF SearchInv, OwedInv
  <2>3. CASE d \in Black(s)
    BY <1>b, <2>3
  <2>4. ASSUME NEW j \in i + 1 .. n, s.stack[j] = d
        PROVE  d \in Black(t) \/ \E k \in i + 1 .. n - 1 : t.stack[k] = d
    <3>1. CASE j = n
      BY <1>b, <2>4, <3>1 DEF x
    <3>2. CASE j # n
      <4>1. j \in i + 1 .. n - 1 /\ t.stack[j] = s.stack[j]
        BY <3>2
      <4>2. QED
        BY <2>4, <4>1
    <3>3. QED
      BY <3>1, <3>2
  <2>5. QED
    BY <2>2, <2>3, <2>4
<1>6. BlackInv(g, t)
  <2> SUFFICES ASSUME s.cycles = {}
               PROVE  /\ \A c \in Black(t) : g[c] \subseteq Black(t)
                      /\ \A S \in SUBSET Black(t) : ~ Loop(g, S)
    BY DEF BlackInv
  <2>1. /\ \A c \in Black(s) : g[c] \subseteq Black(s)
        /\ \A S \in SUBSET Black(s) : ~ Loop(g, S)
    BY DEF SearchInv, BlackInv
  <2>2. CASE x \in Black(s)
    <3>1. Black(t) = Black(s)
      BY <1>b, <2>2
    <3>2. QED
      BY <2>1, <3>1
  <2>3. CASE x \notin Black(s)
    <3>1. s.colour[x] = "grey"
      BY <1>0, <2>3 DEF Black
    <3>2. Marker(s, n)
      <4>1. n \in 1 .. n /\ \A j \in n + 1 .. n : FALSE
        OBVIOUS
      <4>2. QED
        BY <3>1, <4>1 DEF Marker, x
    <3>3. g[x] \subseteq Black(s)
      <4>1. n \in 1 .. n /\ \A j \in n + 1 .. n : FALSE
        OBVIOUS
      <4>2. QED
        BY <3>2, <4>1 DEF SearchInv, OwedInv, x
    <3>4. \A c \in Black(t) : g[c] \subseteq Black(t)
      BY <1>b, <2>1, <3>3
    <3>5. ASSUME NEW S \in SUBSET Black(t), Loop(g, S) PROVE FALSE
      <4> DEFINE R == S \ {x}
      <4>1. \A c \in S : g[c] \subseteq Black(s)
        BY <1>b, <2>1, <3>3
      <4>2. \A c \in S : g[c] \cap R # {}
        BY <2>3, <3>5, <4>1 DEF Loop
      <4>3. R # {} /\ R \in SUBSET Black(s)
        BY <1>b, <3>5, <4>2 DEF Loop
      <4>4. Loop(g, R)
        BY <4>2, <4>3 DEF Loop
      <4>5. QED
        BY <2>1, <4>3, <4>4
    <3>6. QED
      BY <3>4, <3>5
  <2>4. QED
    BY <2>2, <2>3
<1>7. FoundInv(g, t)
  BY DEF SearchInv, FoundInv
<1>8. QED
  BY <1>3, <1>4, <1>5, <1>6, <1>7 DEF SearchInv

(* A white check: grey from now on, with its grey dependencies recorded.    *)
EnterStep(g, s, t, n, D, E) ==
    /\ s.stack[n] \in Checks /\ s.colour[s.stack[n]] = "white"
    /\ \A c \in Checks : t.colour[c] = IF c = s.stack[n] THEN "grey" ELSE s.colour[c]
    /\ D \in SUBSET g[s.stack[n]] /\ \A d \in g[s.stack[n]] : d \in D <=> t.colour[d] = "white"
    /\ E \in SUBSET g[s.stack[n]] /\ \A d \in g[s.stack[n]] : d \in E <=> t.colour[d] = "grey"
    /\ t.cycles = {} => s.cycles = {} /\ E = {}
    /\ E = {} => t.cycles = s.cycles

LEMMA EnterKeeps ==
  ASSUME NEW g \in AnyGraph, NEW s \in Search, NEW t \in Search, SearchInv(g, s),
         NEW n \in Nat \ {0}, n = Len(s.stack), NEW m \in Nat, NEW D, NEW E,
         EnterStep(g, s, t, n, D, E), PushedOn(s.stack, D, t.stack, n, m)
  PROVE  SearchInv(g, t)
<1>e. /\ s.stack[n] \in Checks /\ s.colour[s.stack[n]] = "white"
      /\ \A c \in Checks : t.colour[c] = IF c = s.stack[n] THEN "grey" ELSE s.colour[c]
      /\ D \in SUBSET g[s.stack[n]] /\ \A d \in g[s.stack[n]] : d \in D <=> t.colour[d] = "white"
      /\ E \in SUBSET g[s.stack[n]] /\ \A d \in g[s.stack[n]] : d \in E <=> t.colour[d] = "grey"
      /\ t.cycles = {} => s.cycles = {} /\ E = {}
      /\ E = {} => t.cycles = s.cycles
  BY DEF EnterStep
<1>p. /\ Len(t.stack) = n + m
      /\ \A i \in 1 .. n : t.stack[i] = s.stack[i]
      /\ \A i \in n + 1 .. n + m : t.stack[i] \in D
      /\ \A d \in D : \E i \in n + 1 .. n + m : t.stack[i] = d
  BY DEF PushedOn
<1> USE <1>e, <1>p
<1> DEFINE x == s.stack[n]
<1>0. x \in Checks /\ g[x] \in SUBSET Checks /\ s.colour[x] = "white" /\ t.colour[x] = "grey"
  BY DEF AnyGraph
<1>1. \A i \in 1 .. n : s.stack[i] \in Checks /\ t.stack[i] = s.stack[i]
  BY ElementOfSeq DEF Search
<1>b. Black(t) = Black(s)
  BY <1>0 DEF Black
<1>w. \A d \in D : d \in Checks /\ t.colour[d] = "white"
  BY <1>0
<1>d. t.cycles = {} => s.cycles = {} /\ E = {}
  OBVIOUS
<1>2. ASSUME NEW i \in 1 .. n - 1 PROVE Marker(t, i) <=> Marker(s, i)
  <2>1. /\ i \in 1 .. n /\ s.stack[i] \in Checks /\ t.stack[i] = s.stack[i] /\ n \in i + 1 .. n
        /\ i \in 1 .. n + m /\ n \in i + 1 .. n + m
    BY <1>1
  <2>2. CASE s.stack[i] = x
    <3>1. ~ Marker(s, i)
      BY <1>0, <2>1, <2>2 DEF Marker
    <3>2. t.stack[n] = t.stack[i]
      <4>1. n \in 1 .. n /\ t.stack[n] = s.stack[n]
        BY <1>p
      <4>2. QED
        BY <2>1, <2>2, <4>1
    <3>3. ~ Marker(t, i)
      BY <2>1, <3>2 DEF Marker
    <3>4. QED
      BY <3>1, <3>3
  <2>3. CASE s.stack[i] # x
    <3>1. t.colour[t.stack[i]] = s.colour[s.stack[i]]
      BY <2>1, <2>3
    <3>2. ASSUME Marker(t, i) PROVE Marker(s, i)
      <4>1. \A j \in i + 1 .. n : j \in i + 1 .. n + m /\ t.stack[j] = s.stack[j]
        BY <1>1
      <4>2. QED
        BY <2>1, <3>1, <3>2, <4>1 DEF Marker
    <3>3. ASSUME Marker(s, i) PROVE Marker(t, i)
      <4>1. s.colour[s.stack[i]] = "grey" /\ \A j \in i + 1 .. n : s.stack[j] # s.stack[i]
        BY <3>3 DEF Marker
      <4>2. ASSUME NEW j \in i + 1 .. n + m PROVE t.stack[j] # t.stack[i]
        <5>1. CASE j \in i + 1 .. n
          BY <1>1, <2>1, <4>1, <5>1
        <5>2. CASE j \in n + 1 .. n + m
          <6>1. t.colour[t.stack[j]] = "white"
            BY <1>w, <5>2
          <6>2. QED
            BY <3>1, <4>1, <6>1
        <5>3. QED
          BY <5>1, <5>2
      <4>3. QED
        BY <2>1, <3>1, <4>1, <4>2 DEF Marker
    <3>4. QED
      BY <3>2, <3>3
  <2>4. QED
    BY <2>2, <2>3
<1> HIDE DEF x
<1>3. Marker(t, n) /\ t.stack[n] = x
  <2>1. n \in 1 .. n + m /\ t.stack[n] = x /\ t.colour[t.stack[n]] = "grey"
    <3>1. n \in 1 .. n /\ n \in 1 .. n + m
      OBVIOUS
    <3>2. t.stack[n] = x
      BY <1>1, <3>1 DEF x
    <3>3. QED
      BY <1>0, <3>1, <3>2
  <2>2. ASSUME NEW j \in n + 1 .. n + m PROVE t.stack[j] # t.stack[n]
    BY <1>w, <2>1
  <2>3. QED
    BY <2>1, <2>2 DEF Marker
<1>4. \A i \in n + 1 .. n + m : ~ Marker(t, i)
  BY <1>w DEF Marker
<1>5. MarkedInv(t)
  <2> SUFFICES ASSUME NEW c \in Checks, t.colour[c] = "grey"
               PROVE  \E i \in 1 .. n + m : Marker(t, i) /\ t.stack[i] = c
    BY DEF MarkedInv
  <2>1. CASE c = x
    <3>1. n \in 1 .. n + m
      OBVIOUS
    <3>2. QED
      BY <1>3, <2>1, <3>1
  <2>2. CASE c # x
    <3>1. s.colour[c] = "grey"
      BY <2>2 DEF x
    <3>2. PICK i \in 1 .. n : Marker(s, i) /\ s.stack[i] = c
      BY <3>1 DEF SearchInv, MarkedInv
    <3>3. i \in 1 .. n - 1 /\ i \in 1 .. n + m
      BY <2>2, <3>2 DEF x
    <3>4. QED
      BY <1>1, <1>2, <3>2, <3>3
  <2>3. QED
    BY <2>1, <2>2
<1>6. TrailInv(g, t)
  <2> SUFFICES ASSUME NEW i \in 1 .. n + m, NEW j \in 1 .. n + m, Marker(t, i), i < j,
                      \A k \in i + 1 .. j - 1 : ~ Marker(t, k)
               PROVE  t.stack[j] \in g[t.stack[i]]
    BY DEF TrailInv
  <2>1. i \in 1 .. n
    BY <1>4
  <2>2. CASE i = n
    <3>1. j \in n + 1 .. n + m
      BY <2>2
    <3>2. t.stack[j] \in g[x]
      BY <3>1 DEF x
    <3>3. QED
      BY <1>3, <2>2, <3>2
  <2>3. CASE i # n
    <3>1. i \in 1 .. n - 1 /\ Marker(s, i)
      BY <1>2, <2>1, <2>3
    <3>2. j \in 1 .. n
      BY <1>3, <3>1
    <3>3. \A k \in i + 1 .. j - 1 : ~ Marker(s, k)
      BY <1>2, <3>1, <3>2
    <3>4. s.stack[j] \in g[s.stack[i]]
      BY <2>1, <3>1, <3>2, <3>3 DEF SearchInv, TrailInv
    <3>5. QED
      BY <1>1, <2>1, <3>2, <3>4
  <2>4. QED
    BY <2>2, <2>3
<1>7. OwedInv(g, t)
  <2> SUFFICES ASSUME t.cycles = {}, NEW i \in 1 .. n + m, Marker(t, i), NEW d \in g[t.stack[i]]
               PROVE  d \in Black(t) \/ \E j \in i + 1 .. n + m : t.stack[j] = d
    BY DEF OwedInv
  <2>1. i \in 1 .. n
    BY <1>4
  <2>2. CASE i = n
    <3>1. d \in g[x] /\ d \in Checks
      BY <1>0, <1>3, <2>2
    <3>2. t.colour[d] # "grey"
      BY <1>d, <3>1 DEF x
    <3>3. t.colour[d] \in Colours
      BY <3>1 DEF Search
    <3>4. CASE t.colour[d] = "white"
      BY <2>2, <3>1, <3>4 DEF x
    <3>5. CASE t.colour[d] = "black"
      BY <3>1, <3>5 DEF Black
    <3>6. QED
      BY <3>2, <3>3, <3>4, <3>5 DEF Colours
  <2>3. CASE i # n
    <3>1. i \in 1 .. n - 1 /\ Marker(s, i) /\ t.stack[i] = s.stack[i]
      BY <1>1, <1>2, <2>1, <2>3
    <3>2. d \in Black(s) \/ \E j \in i + 1 .. n : s.stack[j] = d
      BY <1>d, <2>1, <3>1 DEF SearchInv, OwedInv
    <3>3. ASSUME NEW j \in i + 1 .. n, s.stack[j] = d PROVE j \in i + 1 .. n + m /\ t.stack[j] = d
      <4>1. j \in 1 .. n /\ j \in i + 1 .. n + m
        BY <2>1
      <4>2. QED
        BY <1>1, <3>3, <4>1
    <3>4. QED
      BY <1>b, <3>2, <3>3
  <2>4. QED
    BY <2>2, <2>3
<1>8. BlackInv(g, t)
  BY <1>b, <1>d DEF SearchInv, BlackInv
<1>9. FoundInv(g, t)
  <2>1. CASE E = {}
    <3>1. t.cycles = s.cycles
      BY <2>1
    <3>2. QED
      BY <3>1 DEF SearchInv, FoundInv
  <2>2. CASE E # {}
    <3>1. PICK d \in g[x] : t.colour[d] = "grey"
      BY <2>2 DEF x
    <3>2. PICK p \in 1 .. n + m : Marker(t, p) /\ t.stack[p] = d
      BY <1>0, <1>5, <3>1 DEF MarkedInv
    <3>3. p \in 1 .. n
      BY <1>4, <3>2
    <3> DEFINE Q == {i \in p .. n : Marker(t, i)}
               S == {t.stack[i] : i \in Q}
    <3>4. n \in Q /\ p \in Q
      BY <1>3, <3>2, <3>3
    <3>5. ASSUME NEW i \in Q PROVE g[t.stack[i]] \cap S # {}
      <4>1. CASE i = n
        <5>1. d \in S /\ t.stack[i] = x
          BY <1>3, <3>2, <3>4, <4>1
        <5>2. QED
          BY <3>1, <5>1
      <4>2. CASE i # n
        <5> DEFINE R == {k \in Q : i < k}
        <5>1. R \in SUBSET Nat /\ n \in R
          BY <3>4, <4>2
        <5>2. PICK j \in R : \A k \in R : j <= k
          <6> HIDE DEF R, Q
          <6> QED
            BY <5>1, LeastIndex
        <5>3. j \in Q /\ i < j /\ Marker(t, i)
          OBVIOUS
        <5>4. ASSUME NEW k \in i + 1 .. j - 1 PROVE ~ Marker(t, k)
          <6>1. k \in p .. n /\ i < k /\ k \notin R
            BY <5>2
          <6>2. QED
            BY <6>1
        <5>5. i \in 1 .. n + m /\ j \in 1 .. n + m
          BY <3>3
        <5>6. t.stack[j] \in g[t.stack[i]]
          <6> HIDE DEF R, Q
          <6> QED
            BY <1>6, <5>3, <5>4, <5>5 DEF TrailInv
        <5>7. QED
          BY <5>3, <5>6
      <4>3. QED
        BY <4>1, <4>2
    <3>6. S \in SUBSET Checks
      <4>1. \A i \in Q : i \in 1 .. n
        BY <3>3
      <4> HIDE DEF Q
      <4>2. \A i \in Q : t.stack[i] \in Checks
        BY <1>1, <4>1
      <4>3. QED
        BY <4>2
    <3>7. Loop(g, S)
      <4>1. t.stack[n] \in S
        BY <3>4
      <4>2. \A c \in S : \E i \in Q : c = t.stack[i]
        OBVIOUS
      <4> HIDE DEF Q, S
      <4>3. ASSUME NEW c \in S PROVE g[c] \cap S # {}
        <5>1. PICK i \in Q : c = t.stack[i]
          BY <4>2
        <5>2. QED
          BY <3>5, <5>1
      <4> HIDE <1>e, <1>p
      <4>4. QED
        BY <4>1, <4>3 DEF Loop
    <3> HIDE DEF S
    <3>8. QED
      BY <3>6, <3>7 DEF FoundInv
  <2>3. QED
    BY <2>1, <2>2
<1>10. QED
  BY <1>5, <1>6, <1>7, <1>8, <1>9 DEF SearchInv

(* How a step comes closer to the end.                                      *)
Shorter(s, t) == White(t) = White(s) /\ Len(t.stack) < Len(s.stack)
Fewer(s, t) == White(t) \subseteq White(s) /\ White(t) # White(s)

LEMMA VisitPops ==
  ASSUME NEW g \in AnyGraph, NEW s \in Search, s.stack # <<>>, SearchInv(g, s), s.colour[Last(s.stack)] # "white"
  PROVE  SearchInv(g, Visit(g, s)) /\ Shorter(s, Visit(g, s))
<1>0. /\ s.stack \in Seq(Checks) /\ s.colour \in [Checks -> Colours] /\ Exhausted(s) = FALSE
      /\ s = [stack |-> s.stack, colour |-> s.colour, cycles |-> s.cycles]
  BY DEF Search, Exhausted
<1> DEFINE t == Visit(g, s)  x == Last(s.stack)  front == Front(s.stack)
<1>1. PICK n \in Nat \ {0} : /\ n = Len(s.stack) /\ x = s.stack[n] /\ x \in Checks
                             /\ front \in Seq(Checks) /\ Len(front) = n - 1
                             /\ \A i \in 1 .. n - 1 : front[i] = s.stack[i]
  BY <1>0, Popped
<1>2. t \in Search
  BY <1>0, AdvanceType DEF Advance
<1>3. /\ t.stack = front /\ t.cycles = s.cycles
      /\ \A c \in Checks : t.colour[c] = IF c = x THEN "black" ELSE s.colour[c]
  <2>1. CASE s.colour[x] = "black"
    <3>1. t = [s EXCEPT !.stack = front]
      BY <2>1 DEF Visit
    <3> HIDE DEF t, x, front
    <3>2. t.stack = front /\ t.cycles = s.cycles /\ t.colour = s.colour
      BY <1>0, <3>1
    <3>3. QED
      BY <2>1, <3>2
  <2>2. CASE s.colour[x] = "grey"
    <3>1. t = [s EXCEPT !.stack = front, !.colour[x] = "black"]
      BY <2>2 DEF Visit
    <3> HIDE DEF t, x, front
    <3>2. t.stack = front /\ t.cycles = s.cycles /\ t.colour = [s.colour EXCEPT ![x] = "black"]
      BY <1>0, <3>1
    <3>3. QED
      BY <1>0, <3>2
  <2>3. QED
    BY <1>0, <1>1, <2>1, <2>2 DEF Colours
<1> HIDE DEF t, x, front
<1>4. SearchInv(g, t)
  <2>1. s.colour[s.stack[n]] # "white"
    BY <1>1 DEF x
  <2>2. \A c \in Checks : t.colour[c] = IF c = s.stack[n] THEN "black" ELSE s.colour[c]
    BY <1>1, <1>3
  <2>3. Len(t.stack) = n - 1 /\ \A i \in 1 .. n - 1 : t.stack[i] = s.stack[i]
    BY <1>1, <1>3
  <2>4. QED
    BY <1>1, <1>2, <1>3, <2>1, <2>2, <2>3, PopKeeps
<1>5. Shorter(s, t)
  <2>1. s.colour[x] # "white"
    BY DEF x
  <2>2. White(t) = White(s)
    BY <1>3, <2>1 DEF White
  <2>3. QED
    BY <1>1, <1>3, <2>2 DEF Shorter
<1>6. QED
  BY <1>4, <1>5 DEF t

LEMMA VisitEnters ==
  ASSUME NEW g \in AnyGraph, NEW s \in Search, s.stack # <<>>, SearchInv(g, s), s.colour[Last(s.stack)] = "white"
  PROVE  SearchInv(g, Visit(g, s)) /\ Fewer(s, Visit(g, s))
<1>0. s.stack \in Seq(Checks) /\ s.colour \in [Checks -> Colours] /\ Exhausted(s) = FALSE
  BY DEF Search, Exhausted
<1> DEFINE t == Visit(g, s)  x == Last(s.stack)
           colour == [s.colour EXCEPT ![x] = "grey"]
           D == {d \in g[x] : colour[d] = "white"}
           E == {d \in g[x] : colour[d] = "grey"}
<1>1. PICK n \in Nat \ {0} : n = Len(s.stack) /\ x = s.stack[n] /\ x \in Checks
  BY <1>0, Popped
<1>2. t \in Search
  BY <1>0, AdvanceType DEF Advance
<1>3. t = [stack |-> s.stack \o SetToSeq(D), colour |-> colour, cycles |-> s.cycles \cup {<<x, d>> : d \in E}]
  BY DEF Visit
<1>4. \A c \in Checks : colour[c] = IF c = x THEN "grey" ELSE s.colour[c]
  BY <1>0, <1>1
<1>5. D \in SUBSET Checks
  BY <1>1 DEF AnyGraph
<1>d. D = {d \in g[x] : colour[d] = "white"} /\ E = {d \in g[x] : colour[d] = "grey"}
  OBVIOUS
<1>x. s.colour[x] = "white"
  OBVIOUS
<1> HIDE DEF t, x, colour, D, E
<1>6. t.stack = s.stack \o SetToSeq(D) /\ t.colour = colour /\ t.cycles = s.cycles \cup {<<x, d>> : d \in E}
  BY <1>3
<1>7. PICK k \in Nat : PushedOn(s.stack, D, t.stack, n, k)
  BY <1>0, <1>1, <1>5, <1>6, Pushed
<1>8. SearchInv(g, t)
  <2>1. /\ s.colour[s.stack[n]] = "white"
        /\ \A c \in Checks : t.colour[c] = IF c = s.stack[n] THEN "grey" ELSE s.colour[c]
        /\ D \in SUBSET g[s.stack[n]] /\ \A d \in g[s.stack[n]] : d \in D <=> t.colour[d] = "white"
        /\ E \in SUBSET g[s.stack[n]] /\ \A d \in g[s.stack[n]] : d \in E <=> t.colour[d] = "grey"
    BY <1>1, <1>4, <1>6, <1>d, <1>x
  <2>2. s.stack[n] \in Checks
    BY <1>1
  <2>3. ASSUME t.cycles = {}, NEW e \in E PROVE FALSE
    <3>1. <<x, e>> \in {<<x, d>> : d \in E}
      OBVIOUS
    <3>2. QED
      BY <1>6, <2>3, <3>1
  <2>4. (t.cycles = {} => s.cycles = {} /\ E = {}) /\ (E = {} => t.cycles = s.cycles)
    BY <1>6, <2>3
  <2>5. EnterStep(g, s, t, n, D, E)
    BY <2>1, <2>2, <2>4 DEF EnterStep
  <2>6. QED
    BY <1>1, <1>2, <1>7, <2>5, EnterKeeps
<1>9. Fewer(s, t)
  <2>1. x \in White(s) /\ x \notin White(t) /\ White(t) \subseteq White(s)
    BY <1>1, <1>4, <1>6, <1>x DEF White
  <2>2. QED
    BY <2>1 DEF Fewer
<1>10. QED
  BY <1>8, <1>9 DEF t

(* The outer loop of _detect_cycles: the next start is a white check.       *)
LEMMA RestartKeeps ==
  ASSUME NEW g \in AnyGraph, NEW s \in Search, s.stack = <<>>, ~ Exhausted(s), SearchInv(g, s), NEW t, t = Advance(g, s)
  PROVE  /\ t \in Search /\ SearchInv(g, t) /\ White(t) = White(s)
         /\ t.stack # <<>> /\ t.colour[Last(t.stack)] = "white"
<1> DEFINE c == Min(White(s))
<1>0. t \in Search
  BY AdvanceType
<1>1. c \in White(s)
  <2>1. White(s) # {} /\ White(s) \in SUBSET Checks
    BY DEF Exhausted, White
  <2>2. Checks \subseteq Nat
    BY NAssumption DEF Checks
  <2>3. QED
    BY <2>1, <2>2, MinIn
<1>2. t = [s EXCEPT !.stack = <<c>>]
  BY DEF Advance
<1> HIDE DEF c
<1>3. t.stack = <<c>> /\ t.colour = s.colour /\ t.cycles = s.cycles
  BY <1>2 DEF Search
<1>4. c \in Checks /\ s.colour[c] = "white"
  BY <1>1 DEF White
<1>5. White(t) = White(s) /\ Black(t) = Black(s)
  BY <1>3 DEF White, Black
<1>6. t.stack # <<>> /\ Last(t.stack) = c /\ Len(t.stack) = 1 /\ t.stack[1] = c
  BY <1>3 DEF Last
<1>7. \A d \in Checks : s.colour[d] # "grey"
  <2>1. \A i \in 1 .. Len(s.stack) : FALSE
    OBVIOUS
  <2>2. QED
    BY <2>1 DEF SearchInv, MarkedInv
<1>8. \A i \in 1 .. Len(t.stack) : ~ Marker(t, i)
  BY <1>3, <1>4, <1>6 DEF Marker
<1>9. SearchInv(g, t)
  <2>1. MarkedInv(t)
    BY <1>3, <1>7 DEF MarkedInv
  <2>2. TrailInv(g, t) /\ OwedInv(g, t)
    BY <1>8 DEF TrailInv, OwedInv
  <2>3. BlackInv(g, t) /\ FoundInv(g, t)
    BY <1>3, <1>5 DEF SearchInv, BlackInv, FoundInv
  <2>4. QED
    BY <2>1, <2>2, <2>3 DEF SearchInv
<1>10. QED
  BY <1>0, <1>3, <1>4, <1>5, <1>6, <1>9

LEMMA ExhaustedExact ==
  ASSUME NEW g \in AnyGraph, NEW s \in Search, Exhausted(s), SearchInv(g, s)
  PROVE  s.cycles # {} <=> \E S \in SUBSET Checks : Loop(g, S)
<1>1. \A c \in Checks : s.colour[c] # "grey"
  <2>1. s.stack = <<>>
    BY DEF Exhausted
  <2>2. \A i \in 1 .. Len(s.stack) : FALSE
    BY <2>1
  <2>3. QED
    BY <2>2 DEF SearchInv, MarkedInv
<1>2. Black(s) = Checks
  BY <1>1 DEF Exhausted, White, Black, Search, Colours
<1>3. QED
  BY <1>2 DEF SearchInv, BlackInv, FoundInv

(* From any state with the invariant the search ends with cycles exactly    *)
(* when the graph has a loop: take a wrong one with the fewest white checks *)
(* and, of these, the shortest stack; a step leads to a smaller one.        *)
LEMMA SearchCorrect ==
  ASSUME NEW g \in AnyGraph, NEW f, Searches(g, f), NEW s \in Search, SearchInv(g, s)
  PROVE  f[s] # {} <=> \E S \in SUBSET Checks : Loop(g, S)
<1> DEFINE Right(u) == f[u] # {} <=> \E S \in SUBSET Checks : Loop(g, S)
           Bad == {u \in Search : SearchInv(g, u) /\ ~ Right(u)}
           Whites == {Cardinality(White(u)) : u \in Bad}
<1> SUFFICES ASSUME Bad # {} PROVE FALSE
  OBVIOUS
<1>1. \A u \in Search : f[u] = IF Exhausted(u) THEN u.cycles ELSE f[Advance(g, u)]
  BY DEF Searches
<1>2. \A u \in Search : IsFiniteSet(White(u)) /\ Cardinality(White(u)) \in Nat
  BY FiniteChecks DEF White
<1>b. \A u \in Search : u \in Bad <=> SearchInv(g, u) /\ ~ Right(u)
  OBVIOUS
<1>c. Bad \subseteq Search
  OBVIOUS
<1> HIDE DEF Bad
<1>3. PICK k \in Whites : \A j \in Whites : k <= j
  <2>1. Whites \in SUBSET Nat /\ Whites # {}
    BY <1>2, <1>c
  <2> HIDE DEF Whites
  <2>2. QED
    BY <2>1, LeastIndex
<1> DEFINE Least == {u \in Bad : Cardinality(White(u)) = k}
           Lengths == {Len(u.stack) : u \in Least}
<1>4. PICK n \in Lengths : \A j \in Lengths : n <= j
  <2>1. Lengths # {}
    OBVIOUS
  <2>2. \A u \in Search : Len(u.stack) \in Nat
    BY LenProperties DEF Search
  <2>3. Lengths \in SUBSET Nat
    BY <1>c, <2>2
  <2> HIDE DEF Lengths
  <2>4. QED
    BY <2>1, <2>3, LeastIndex
<1>5. PICK u \in Bad : Cardinality(White(u)) = k /\ Len(u.stack) = n
  OBVIOUS
<1>6. u \in Search /\ SearchInv(g, u) /\ ~ Right(u)
  BY <1>b, <1>c, <1>5
<1>n. n \in Nat
  BY <1>5, <1>6, LenProperties DEF Search
<1>7. ~ Exhausted(u)
  BY <1>1, <1>6, ExhaustedExact
<1>8. ASSUME NEW v \in Search, SearchInv(g, v), f[v] = f[u], Fewer(u, v) PROVE FALSE
  <2>1. v \in Bad
    BY <1>6, <1>8, <1>b
  <2>2. k <= Cardinality(White(v))
    BY <1>3, <2>1
  <2>3. Cardinality(White(v)) <= Cardinality(White(u)) /\ Cardinality(White(v)) # Cardinality(White(u))
    BY <1>2, <1>6, <1>8, FS_Subset DEF Fewer
  <2>4. QED
    BY <1>2, <1>5, <1>6, <2>2, <2>3
<1>9. ASSUME NEW v \in Search, SearchInv(g, v), f[v] = f[u], Shorter(u, v) PROVE FALSE
  <2>1. v \in Bad
    BY <1>6, <1>9, <1>b
  <2>2. v \in Least
    BY <1>5, <1>9, <2>1 DEF Shorter
  <2>3. n <= Len(v.stack)
    BY <1>4, <2>2
  <2>4. Len(v.stack) \in Nat /\ Len(v.stack) < n
    BY <1>5, <1>9, LenProperties DEF Search, Shorter
  <2>5. QED
    BY <1>n, <2>3, <2>4
<1> HIDE DEF Least, Lengths, Whites, Right
<1>10. CASE u.stack # <<>>
  <2> DEFINE v == Visit(g, u)
  <2>1. v \in Search /\ f[v] = f[u]
    BY <1>1, <1>6, <1>7, <1>10, AdvanceType DEF Advance
  <2>2. SearchInv(g, v) /\ (Shorter(u, v) \/ Fewer(u, v))
    BY <1>6, <1>10, VisitPops, VisitEnters
  <2> HIDE DEF v
  <2>3. QED
    BY <1>8, <1>9, <2>1, <2>2
<1>11. CASE u.stack = <<>>
  <2> DEFINE r == Advance(g, u)  v == Visit(g, r)
  <2>1. /\ r \in Search /\ SearchInv(g, r) /\ White(r) = White(u)
        /\ r.stack # <<>> /\ r.colour[Last(r.stack)] = "white"
    BY <1>6, <1>7, <1>11, RestartKeeps
  <2>2. f[r] = f[u]
    BY <1>1, <1>6, <1>7
  <2>r. ~ Exhausted(r)
    BY <2>1 DEF Exhausted
  <2> HIDE DEF r
  <2>3. v \in Search /\ f[v] = f[r]
    BY <1>1, <2>1, <2>r, AdvanceType DEF Advance
  <2>4. SearchInv(g, v) /\ Fewer(r, v)
    BY <2>1, VisitEnters
  <2>5. Fewer(u, v)
    BY <2>1, <2>4 DEF Fewer
  <2> HIDE DEF v
  <2>6. QED
    BY <1>8, <2>2, <2>3, <2>4, <2>5
<1>12. QED
  BY <1>10, <1>11

(* The depth-first search of validate_suite is sound and complete: it       *)
(* reports a cycle exactly when some checks all depend on one another,      *)
(* whatever the graph, checks that name themselves included.                *)
THEOREM LinterExact ==
  ASSUME NEW g \in AnyGraph
  PROVE  DetectCycles(g) # {} <=> \E S \in SUBSET Checks : Loop(g, S)
<1>1. PICK f : Searches(g, f) /\ DetectCycles(g) = f[Unsearched]
  BY SearchExists, Unfold
<1>2. Unsearched \in Search
  <2>1. <<>> \in Seq(Checks) /\ [c \in Checks |-> "white"] \in [Checks -> Colours]
    BY DEF Colours
  <2>2. QED
    BY <2>1 DEF Unsearched, Search
<1>3. SearchInv(g, Unsearched)
  <2> DEFINE s == Unsearched
  <2>1. s.stack = <<>> /\ s.cycles = {} /\ \A c \in Checks : s.colour[c] = "white"
    BY DEF Unsearched
  <2>2. Black(s) = {} /\ \A i \in 1 .. Len(s.stack) : FALSE
    BY <2>1 DEF Black
  <2> HIDE DEF s
  <2>3. MarkedInv(s) /\ TrailInv(g, s) /\ OwedInv(g, s)
    BY <2>1, <2>2 DEF MarkedInv, TrailInv, OwedInv
  <2>4. BlackInv(g, s) /\ FoundInv(g, s)
    BY <2>1, <2>2 DEF BlackInv, FoundInv, Loop
  <2>5. QED
    BY <2>3, <2>4 DEF SearchInv, s
<1>4. QED
  BY <1>1, <1>2, <1>3, SearchCorrect

(* LinterAgrees: a run is refused only when validate_suite reports a cycle, *)
(* and no run of the whole suite gets past planning when it does.           *)
THEOREM LinterAgreement == Spec => []LinterAgrees
<1>1. IInv => LinterAgrees
  <2> SUFFICES ASSUME IInv PROVE LinterAgrees
    OBVIOUS
  <2>1. deps \in AnyGraph /\ chosen \in SUBSET Checks
    BY DEF IInv, TypeOK, AnyGraph
  <2>2. DetectCycles(deps) # {} <=> \E S \in SUBSET Checks : Loop(deps, S)
    BY <2>1, LinterExact
  <2>3. ASSUME phase = "refused" PROVE DetectCycles(deps) # {}
    <3>1. Cyclic
      BY <2>3 DEF IInv, OutcomeInv
    <3>2. \E S \in SUBSET Checks : Loop(deps, S)
      BY <2>1, <3>1 DEF Cyclic, Loop
    <3>3. QED
      BY <2>2, <3>2
  <2>4. ASSUME phase = "waves", chosen = Checks PROVE DetectCycles(deps) = {}
    <3>1. Remaining = {}
      BY <2>4 DEF IInv, TypeOK, Phases, PlanInv, InWave
    <3>2. ~ Cyclic
      BY <2>4, <3>1 DEF IInv, PlanInv, Cyclic
    <3>3. QED
      BY <2>2, <2>4, <3>2 DEF Cyclic, Loop
  <2>5. QED
    BY <2>3, <2>4 DEF LinterAgrees
<1>2. QED
  BY Invariance, <1>1, PTL
---------------------------------------------------------------------------
(* Termination                                                              *)
(*                                                                          *)
(* The two halves of Terminates that need no temporal reasoning: every step *)
(* lowers a rank that cannot fall for ever, and until the call is over the  *)
(* guard of some action holds.  A rank is read from the left: the stage of  *)
(* the call, the checks still to plan, the waves still to run, where the    *)
(* main thread is in the wave, and what its checks have still to do.        *)

(* Where the call is: selection, planning, waves, over.                     *)
Stage ==
    CASE phase = "select" -> 3
      [] phase = "plan" -> 2
      [] Over -> 0
      [] OTHER -> 1

(* Where the main thread is in a wave.                                      *)
Turn ==
    CASE phase = "submit" -> 5
      [] phase = "collect" -> 4
      [] phase = "cancel" -> 3
      [] phase = "drain" -> 2
      [] phase = "wrapup" -> 1
      [] OTHER -> 0

(* The checks of the suite by what is still to happen to them.              *)
Unsubmitted == {c \in Checks : future[c] = "idle"}
Untaken     == {c \in Checks : future[c] \in {"idle", "queued"}}
Unsettled   == {c \in Checks : ~ Settled(c)}
Unrecorded  == Checks \ Completed

Total(A, B, C, D, E) == Cardinality(A) + Cardinality(B) + Cardinality(C) + Cardinality(D) + Cardinality(E)
Work == Total(Unsubmitted, Untaken, Unsettled, Unrecorded, toCancel)

Rank == <<Stage, Cardinality(Remaining), waves - wave, Turn, Work>>
Below == LexProductOrdering(OpToRel(<, Nat), Nat, 5)

LEMMA BelowWellFounded == IsWellFoundedOn(Below, [1 .. 5 -> Nat])
BY NatLessThanWellFounded, WFLexProductOrdering DEF Below

(* A rank that falls at one place, and is the same to the left of it.       *)
LEMMA Fall ==
  ASSUME NEW a \in [1 .. 5 -> Nat], NEW b \in [1 .. 5 -> Nat], NEW j \in 1 .. 5,
         \A i \in 1 .. j - 1 : a[i] = b[i], a[j] < b[j]
  PROVE  <<a, b>> \in Below
<1>1. <<a[j], b[j]>> \in OpToRel(<, Nat)
  BY DEF OpToRel
<1>2. QED
  BY <1>1 DEF Below, LexProductOrdering

LEMMA TotalType ==
  ASSUME NEW A \in SUBSET Checks, NEW B \in SUBSET Checks, NEW C \in SUBSET Checks,
         NEW D \in SUBSET Checks, NEW E \in SUBSET Checks
  PROVE  Total(A, B, C, D, E) \in Nat
<1>1. /\ Cardinality(A) \in Nat /\ Cardinality(B) \in Nat /\ Cardinality(C) \in Nat
      /\ Cardinality(D) \in Nat /\ Cardinality(E) \in Nat
  BY FiniteChecks
<1>2. QED
  BY <1>1 DEF Total

LEMMA CardFalls ==
  ASSUME NEW A \in SUBSET Checks, NEW S \in SUBSET A
  PROVE  /\ Cardinality(A) \in Nat /\ Cardinality(S) \in Nat /\ Cardinality(S) <= Cardinality(A)
         /\ S # A => Cardinality(S) < Cardinality(A)
<1>1. IsFiniteSet(A) /\ Cardinality(A) \in Nat /\ Cardinality(S) \in Nat
  BY FiniteChecks
<1>2. Cardinality(S) <= Cardinality(A) /\ (S # A => Cardinality(S) # Cardinality(A))
  BY <1>1, FS_Subset
<1>3. QED
  BY <1>1, <1>2

LEMMA TotalFalls ==
  ASSUME NEW A \in SUBSET Checks, NEW B \in SUBSET Checks, NEW C \in SUBSET Checks,
         NEW D \in SUBSET Checks, NEW E \in SUBSET Checks,
         NEW P \in SUBSET A, NEW Q \in SUBSET B, NEW R \in SUBSET C, NEW S \in SUBSET D, NEW T \in SUBSET E,
         P # A \/ Q # B \/ R # C \/ S # D \/ T # E
  PROVE  Total(P, Q, R, S, T) < Total(A, B, C, D, E)
<1>1. \A X \in SUBSET Checks : \A Y \in SUBSET X :
        /\ Cardinality(X) \in Nat /\ Cardinality(Y) \in Nat /\ Cardinality(Y) <= Cardinality(X)
        /\ Y # X => Cardinality(Y) < Cardinality(X)
  BY CardFalls
<1>2. /\ Cardinality(A) \in Nat /\ Cardinality(P) \in Nat /\ Cardinality(P) <= Cardinality(A)
      /\ P # A => Cardinality(P) < Cardinality(A)
  BY <1>1
<1>3. /\ Cardinality(B) \in Nat /\ Cardinality(Q) \in Nat /\ Cardinality(Q) <= Cardinality(B)
      /\ Q # B => Cardinality(Q) < Cardinality(B)
  BY <1>1
<1>4. /\ Cardinality(C) \in Nat /\ Cardinality(R) \in Nat /\ Cardinality(R) <= Cardinality(C)
      /\ R # C => Cardinality(R) < Cardinality(C)
  BY <1>1
<1>5. /\ Cardinality(D) \in Nat /\ Cardinality(S) \in Nat /\ Cardinality(S) <= Cardinality(D)
      /\ S # D => Cardinality(S) < Cardinality(D)
  BY <1>1
<1>6. /\ Cardinality(E) \in Nat /\ Cardinality(T) \in Nat /\ Cardinality(T) <= Cardinality(E)
      /\ T # E => Cardinality(T) < Cardinality(E)
  BY <1>1
<1>7. QED
  BY <1>2, <1>3, <1>4, <1>5, <1>6 DEF Total

Falls == <<Rank', Rank>> \in Below

LEMMA RankType == IInv => Rank \in [1 .. 5 -> Nat]
<1> SUFFICES ASSUME IInv PROVE Rank \in [1 .. 5 -> Nat]
  OBVIOUS
<1>1. Stage \in Nat /\ Turn \in Nat
  BY DEF Stage, Turn
<1>2. Cardinality(Remaining) \in Nat
  BY FiniteChecks DEF IInv, TypeOK, Remaining
<1>3. waves - wave \in Nat
  BY DEF IInv, TypeOK, ProgressInv
<1>4. Work \in Nat
  BY TotalType DEF IInv, TypeOK, Work, Unsubmitted, Untaken, Unsettled, Unrecorded
<1>5. QED
  BY <1>1, <1>2, <1>3, <1>4 DEF Rank


(* What the rank of the next state has to be for a step to fall.            *)
LEMMA FallsIf ==
  ASSUME IInv, IInv',
         \/ Stage' < Stage
         \/ Stage' = Stage /\ Cardinality(Remaining)' < Cardinality(Remaining)
         \/ /\ Stage' = Stage /\ Cardinality(Remaining)' = Cardinality(Remaining)
            /\ waves' - wave' < waves - wave
         \/ /\ Stage' = Stage /\ Cardinality(Remaining)' = Cardinality(Remaining)
            /\ waves' - wave' = waves - wave /\ Turn' < Turn
         \/ /\ Stage' = Stage /\ Cardinality(Remaining)' = Cardinality(Remaining)
            /\ waves' - wave' = waves - wave /\ Turn' = Turn /\ Work' < Work
  PROVE  Falls
<1> DEFINE a == Rank'  b == Rank
<1>1. a \in [1 .. 5 -> Nat] /\ b \in [1 .. 5 -> Nat]
  <2>1. (IInv => Rank \in [1 .. 5 -> Nat])'
    BY RankType, PTL
  <2>2. QED
    BY RankType, <2>1
<1>2. /\ a[1] = Stage' /\ a[2] = Cardinality(Remaining)' /\ a[3] = waves' - wave' /\ a[4] = Turn' /\ a[5] = Work'
      /\ b[1] = Stage /\ b[2] = Cardinality(Remaining) /\ b[3] = waves - wave /\ b[4] = Turn /\ b[5] = Work
  BY DEF Rank
<1> HIDE DEF a, b
<1>3. \E j \in 1 .. 5 : a[j] < b[j] /\ \A i \in 1 .. j - 1 : a[i] = b[i]
  <2>1. CASE a[1] < b[1]
    BY <2>1
  <2>2. CASE a[1] = b[1] /\ a[2] < b[2]
    BY <2>2
  <2>3. CASE a[1] = b[1] /\ a[2] = b[2] /\ a[3] < b[3]
    BY <2>3
  <2>4. CASE a[1] = b[1] /\ a[2] = b[2] /\ a[3] = b[3] /\ a[4] < b[4]
    BY <2>4
  <2>5. CASE a[1] = b[1] /\ a[2] = b[2] /\ a[3] = b[3] /\ a[4] = b[4] /\ a[5] < b[5]
    BY <2>5
  <2>6. QED
    BY <1>2, <2>1, <2>2, <2>3, <2>4, <2>5
<1>4. <<a, b>> \in Below
  BY <1>1, <1>3, Fall
<1>5. QED
  BY <1>4 DEF a, b, Falls

(* Work falls when a check moves on, and nothing moves back.                *)
LEMMA WorkFalls ==
  ASSUME IInv, IInv',
         Unsubmitted' \subseteq Unsubmitted, Untaken' \subseteq Untaken, Unsettled' \subseteq Unsettled,
         Unrecorded' \subseteq Unrecorded, toCancel' \subseteq toCancel,
         \/ Unsubmitted' # Unsubmitted \/ Untaken' # Untaken \/ Unsettled' # Unsettled
         \/ Unrecorded' # Unrecorded \/ toCancel' # toCancel
  PROVE  Work' < Work
<1>1. /\ Unsubmitted \in SUBSET Checks /\ Untaken \in SUBSET Checks /\ Unsettled \in SUBSET Checks
      /\ Unrecorded \in SUBSET Checks /\ toCancel \in SUBSET Checks
  BY DEF IInv, TypeOK, Unsubmitted, Untaken, Unsettled, Unrecorded
<1>2. Total(Unsubmitted', Untaken', Unsettled', Unrecorded', toCancel')
        < Total(Unsubmitted, Untaken, Unsettled, Unrecorded, toCancel)
  BY <1>1, TotalFalls
<1>3. QED
  BY <1>2 DEF Work, Total

LEMMA WorkerFalls == IInv /\ IInv' /\ (\E c \in Checks : Worker(c)) => Falls
<1> SUFFICES ASSUME IInv, IInv', NEW c \in Checks, Worker(c) PROVE Falls
  OBVIOUS
<1>1. /\ UNCHANGED <<config, phase, planning, wave, runnable, toCancel, results, status>>
      /\ \/ future[c] = "queued" /\ future' = [future EXCEPT ![c] = "running"]
         \/ future[c] = "cancelled" /\ future' = [future EXCEPT ![c] = "dead"]
         \/ \E v \in Verdicts : future[c] = "running" /\ future' = [future EXCEPT ![c] = v]
  BY DEF Worker, Start, Discard, Finish
<1>2. future \in [Checks -> Futures]
  BY DEF IInv, TypeOK
<1>3. Stage' = Stage /\ Turn' = Turn /\ Cardinality(Remaining)' = Cardinality(Remaining) /\ waves' - wave' = waves - wave
  BY <1>1 DEF Stage, Turn, Over, Remaining, config, planning
<1>4. Unrecorded' = Unrecorded /\ toCancel' = toCancel
  BY <1>1 DEF Unrecorded, Completed, results
<1>5. CASE future[c] = "queued" /\ future' = [future EXCEPT ![c] = "running"]
  <2>1. \A d \in Checks : future'[d] = IF d = c THEN "running" ELSE future[d]
    BY <1>2, <1>5
  <2>2. /\ Unsubmitted' = Unsubmitted /\ Untaken' = Untaken \ {c} /\ c \in Untaken
        /\ Unsettled' = Unsettled
    BY <1>5, <2>1 DEF Unsubmitted, Untaken, Unsettled, Settled, Verdicts, CheckStatus
  <2>3. Work' < Work
    BY <1>4, <2>2, WorkFalls
  <2>4. QED
    BY <1>3, <2>3, FallsIf
<1>6. ASSUME NEW v \in Verdicts \cup {"dead"}, future[c] \in {"cancelled", "running"},
             future' = [future EXCEPT ![c] = v]
      PROVE  Falls
  <2>1. \A d \in Checks : future'[d] = IF d = c THEN v ELSE future[d]
    BY <1>2, <1>6
  <2>2. /\ Unsubmitted' = Unsubmitted /\ Untaken' = Untaken
        /\ Unsettled' = Unsettled \ {c} /\ c \in Unsettled
    BY <1>6, <2>1 DEF Unsubmitted, Untaken, Unsettled, Settled, Verdicts, CheckStatus
  <2>3. Work' < Work
    BY <1>4, <2>2, WorkFalls
  <2>4. QED
    BY <1>3, <2>3, FallsIf
<1>7. QED
  BY <1>1, <1>5, <1>6

LEMMA MainFalls == IInv /\ IInv' /\ Main => Falls
<1> SUFFICES ASSUME IInv, IInv', Main PROVE Falls
  OBVIOUS
<1> USE DEF config, planning, pool, results
<1>1. CASE Select
  <2>1. Stage' < Stage
    BY <1>1 DEF Select, Stage, Over
  <2>2. QED
    BY <2>1, FallsIf
<1>2. CASE PlanWave
  <2>1. CASE NextWave = {}
    <3>1. Stage' < Stage
      BY <1>2, <2>1 DEF PlanWave, Stage, Over
    <3>2. QED
      BY <3>1, FallsIf
  <2>2. CASE NextWave # {}
    <3>1. Stage' = Stage
      BY <1>2, <2>2 DEF PlanWave, Stage, Over
    <3>2. waves' = waves + 1 /\ waves \in Nat /\ chosen' = chosen /\ chosen \in SUBSET Checks
          /\ waveOf' = [c \in Checks |-> IF c \in NextWave THEN waves' ELSE waveOf[c]]
      BY <1>2, <2>2 DEF PlanWave, IInv, TypeOK
    <3>3. Remaining' = Remaining \ NextWave
      BY <3>2 DEF Remaining, NextWave
    <3>4. Remaining' \in SUBSET Remaining /\ Remaining' # Remaining /\ Remaining \in SUBSET Checks
      BY <2>2, <3>2, <3>3 DEF Remaining, NextWave
    <3>5. Cardinality(Remaining') < Cardinality(Remaining)
      BY <3>4, CardFalls
    <3>6. QED
      BY <3>1, <3>5, FallsIf
  <2>3. QED
    BY <2>1, <2>2
<1>3. CASE Planned
  <2>1. Stage' < Stage
    BY <1>3 DEF Planned, Stage, Over
  <2>2. QED
    BY <2>1, FallsIf
<1>4. CASE SkipWave \/ Partition
  <2>1. /\ wave' = wave + 1 /\ waves' = waves /\ waveOf' = waveOf /\ chosen' = chosen
        /\ phase = "waves" /\ phase' \in {"waves", "submit"}
    BY <1>4 DEF SkipWave, Partition
  <2>2. waves' - wave' < waves - wave
    BY <2>1 DEF IInv, TypeOK
  <2>3. Stage' = Stage /\ Cardinality(Remaining)' = Cardinality(Remaining)
    BY <2>1 DEF Stage, Over, Remaining
  <2>4. QED
    BY <2>2, <2>3, FallsIf
<1> DEFINE Still == /\ Stage' = Stage /\ Cardinality(Remaining)' = Cardinality(Remaining)
                    /\ waves' - wave' = waves - wave
<1>5. ASSUME NEW c \in Checks, Submit(c) PROVE Falls
  <2>1. /\ phase = "submit" /\ future[c] = "idle" /\ future' = [future EXCEPT ![c] = "queued"]
        /\ phase' \in {"submit", "collect"}
        /\ UNCHANGED <<config, planning, wave, runnable, toCancel, results, status>>
    BY <1>5 DEF Submit, First
  <2>2. Still
    BY <2>1 DEF Stage, Over, Remaining
  <2>3. CASE phase' = "collect"
    <3>1. Turn' < Turn
      BY <2>1, <2>3 DEF Turn
    <3>2. QED
      BY <2>2, <3>1, FallsIf
  <2>4. CASE phase' = "submit"
    <3>1. Turn' = Turn
      BY <2>1, <2>4 DEF Turn
    <3>2. \A d \in Checks : future'[d] = IF d = c THEN "queued" ELSE future[d]
      BY <2>1 DEF IInv, TypeOK
    <3>3. /\ Unsubmitted' = Unsubmitted \ {c} /\ c \in Unsubmitted
          /\ Untaken' = Untaken /\ Unsettled' = Unsettled
      BY <2>1, <3>2 DEF Unsubmitted, Untaken, Unsettled, Settled, Verdicts, CheckStatus
    <3>4. Unrecorded' = Unrecorded /\ toCancel' = toCancel
      BY <2>1 DEF Unrecorded, Completed
    <3>5. Work' < Work
      BY <3>3, <3>4, WorkFalls
    <3>6. QED
      BY <2>2, <3>1, <3>5, FallsIf
  <2>5. QED
    BY <2>1, <2>3, <2>4
<1>6. ASSUME NEW c \in Checks, Collect(c) PROVE Falls
  <2>1. /\ phase = "collect" /\ c \notin Completed /\ future[c] \in Verdicts
        /\ completed' = [completed EXCEPT ![c] = future[c]]
        /\ phase' = "cancel" \/ (phase' = "collect" /\ toCancel' = toCancel)
        /\ UNCHANGED <<config, planning, wave, runnable, future, status>>
    BY <1>6 DEF Collect, CollectStopping
  <2>2. Still
    BY <2>1 DEF Stage, Over, Remaining
  <2>3. CASE phase' = "cancel"
    <3>1. Turn' < Turn
      BY <2>1, <2>3 DEF Turn
    <3>2. QED
      BY <2>2, <3>1, FallsIf
  <2>4. CASE phase' = "collect" /\ toCancel' = toCancel
    <3>1. Turn' = Turn
      BY <2>1, <2>4 DEF Turn
    <3>2. \A d \in Checks : completed'[d] = IF d = c THEN future[c] ELSE completed[d]
      BY <2>1 DEF IInv, TypeOK
    <3>3. Unrecorded' = Unrecorded \ {c} /\ c \in Unrecorded
      BY <2>1, <3>2 DEF Unrecorded, Completed, Verdicts, CheckStatus
    <3>4. Unsubmitted' = Unsubmitted /\ Untaken' = Untaken /\ Unsettled' = Unsettled
      BY <2>1 DEF Unsubmitted, Untaken, Unsettled, Settled
    <3>5. Work' < Work
      BY <2>4, <3>3, <3>4, WorkFalls
    <3>6. QED
      BY <2>2, <3>1, <3>5, FallsIf
  <2>5. QED
    BY <2>1, <2>3, <2>4
<1>7. ASSUME NEW c \in Checks, Cancel(c) PROVE Falls
  <2>1. /\ phase = "cancel" /\ c \in toCancel /\ toCancel' = toCancel \ {c}
        /\ future' = [future EXCEPT ![c] = IF @ = "queued" THEN "cancelled" ELSE @]
        /\ phase' \in {"drain", "cancel"}
        /\ UNCHANGED <<config, planning, wave, runnable, results, status>>
    BY <1>7 DEF Cancel, CancelInto, First
  <2>2. Still
    BY <2>1 DEF Stage, Over, Remaining
  <2>3. CASE phase' = "drain"
    <3>1. Turn' < Turn
      BY <2>1, <2>3 DEF Turn
    <3>2. QED
      BY <2>2, <3>1, FallsIf
  <2>4. CASE phase' = "cancel"
    <3>1. Turn' = Turn
      BY <2>1, <2>4 DEF Turn
    <3>2. \A d \in Checks : future'[d] = IF d = c /\ future[c] = "queued" THEN "cancelled" ELSE future[d]
      BY <2>1 DEF IInv, TypeOK
    <3>3. /\ Unsubmitted' = Unsubmitted /\ Untaken' \subseteq Untaken /\ Unsettled' = Unsettled
      BY <3>2 DEF Unsubmitted, Untaken, Unsettled, Settled, Verdicts, CheckStatus
    <3>4. Unrecorded' = Unrecorded /\ toCancel' \subseteq toCancel /\ toCancel' # toCancel
      BY <2>1 DEF Unrecorded, Completed
    <3>5. Work' < Work
      BY <3>3, <3>4, WorkFalls
    <3>6. QED
      BY <2>2, <3>1, <3>5, FallsIf
  <2>5. QED
    BY <2>1, <2>3, <2>4
<1>8. CASE AllCollected \/ Drained \/ WrapUp
  <2>1. /\ UNCHANGED <<config, planning, wave>>
        /\ \/ phase \in {"collect", "drain"} /\ phase' = "wrapup"
           \/ phase = "wrapup" /\ phase' = "waves"
    BY <1>8 DEF AllCollected, Drained, WrapUp, WrapUpWith
  <2>2. Still
    BY <2>1 DEF Stage, Over, Remaining
  <2>3. Turn' < Turn
    BY <2>1 DEF Turn
  <2>4. QED
    BY <2>2, <2>3, FallsIf
<1>9. CASE Report
  <2>1. Stage' < Stage
    BY <1>9 DEF Report, Stage, Over
  <2>2. QED
    BY <2>1, FallsIf
<1>10. QED
  BY <1>1, <1>2, <1>3, <1>4, <1>5, <1>6, <1>7, <1>8, <1>9 DEF Main

NoEndlessRun == [][Falls]_vars

(* run() cannot go on for ever, whatever the graph, the verdicts and the    *)
(* interleaving with the workers: every step lowers the rank, the ranks are *)
(* five natural numbers, and their order is well founded.                   *)
THEOREM RunsAreFinite ==
    IsWellFoundedOn(Below, [1 .. 5 -> Nat]) /\ (Spec => [](Rank \in [1 .. 5 -> Nat]) /\ NoEndlessRun)
<1>1. IInv /\ IInv' /\ [Next]_vars => [Falls]_vars
  <2> SUFFICES ASSUME IInv, IInv', Next, vars' # vars PROVE Falls
    OBVIOUS
  <2>1. QED
    BY MainFalls, WorkerFalls DEF Next, Returned
<1>2. Spec => NoEndlessRun
  BY Invariance, <1>1, PTL DEF Spec, NoEndlessRun
<1>3. Spec => [](Rank \in [1 .. 5 -> Nat])
  BY Invariance, RankType, PTL
<1>4. QED
  BY BelowWellFounded, <1>2, <1>3

(* What the guards of Main and of Worker(c) ask for.                        *)
MainReady ==
    \/ phase \in {"select", "plan", "wrapup", "report"}
    \/ phase = "waves" /\ wave <= waves
    \/ phase = "submit" /\ \E c \in Checks : First({d \in runnable : future[d] = "idle"}, c)
    \/ phase = "collect" /\ \/ runnable \subseteq Completed
                            \/ \E c \in runnable \ Completed : future[c] \in Verdicts
    \/ phase = "cancel" /\ \E c \in Checks : First(toCancel, c)
    \/ phase = "drain" /\ \A c \in runnable : Settled(c)

WorkerReady(c) == Idle(c) \/ future[c] = "running"

SomeoneMoves == Over \/ MainReady \/ \E c \in Checks : WorkerReady(c)

(* What that rests on: the phases are entered with something to do, and a   *)
(* future is cancelled only by an abort.                                    *)
ReadyInv ==
    /\ phase = "submit" => \E c \in runnable : future[c] = "idle"
    /\ phase = "cancel" => toCancel # {}
    /\ phase = "drain" => \A c \in runnable : future[c] # "idle"
    /\ \A c \in Checks : future[c] \in {"cancelled", "dead"} => aborted

LEMMA FirstOf ==
  ASSUME NEW S \in SUBSET Checks, S # {}
  PROVE  \E c \in Checks : First(S, c)
<1>1. S \in SUBSET Nat
  BY NAssumption DEF Checks
<1>2. QED
  BY <1>1, LeastIndex DEF First

(* With no check in flight a queued or cancelled one is next for a worker.  *)
LEMMA QueueServed ==
  ASSUME IInv, Queue # {}
  PROVE  \E c \in Checks : WorkerReady(c)
<1>1. CASE InFlight # {}
  BY <1>1 DEF InFlight, WorkerReady
<1>2. CASE InFlight = {}
  <2>1. PICK c \in Checks : First(Queue, c)
    BY FirstOf DEF IInv, TypeOK, Queue
  <2>2. Cardinality(runnable \cap InFlight) = 0
    BY <1>2, FS_EmptySet
  <2>3. Workers \in Nat /\ 1 <= Workers
    BY FiniteChecks DEF IInv, TypeOK, Workers
  <2>4. Idle(c)
    BY <2>1, <2>2, <2>3 DEF Idle, First
  <2>5. QED
    BY <2>4 DEF WorkerReady
<1>3. QED
  BY <1>1, <1>2

LEMMA ReadyMoves == IInv /\ ReadyInv => SomeoneMoves
<1> SUFFICES ASSUME IInv, ReadyInv, ~ Over, ~ MainReady PROVE \E c \in Checks : WorkerReady(c)
  BY DEF SomeoneMoves
<1>1. phase \in {"submit", "collect", "cancel", "drain"}
  BY DEF IInv, TypeOK, Phases, ProgressInv, Over, MainReady
<1>2. phase # "submit"
  <2> SUFFICES ASSUME phase = "submit" PROVE FALSE
    OBVIOUS
  <2> DEFINE S == {d \in runnable : future[d] = "idle"}
  <2>1. S \in SUBSET Checks /\ S # {}
    BY DEF IInv, TypeOK, ReadyInv
  <2> HIDE DEF S
  <2>2. \E c \in Checks : First(S, c)
    BY <2>1, FirstOf
  <2>3. QED
    BY <2>2 DEF MainReady, S
<1>3. phase # "cancel"
  BY FirstOf DEF MainReady, IInv, TypeOK, ReadyInv
<1>4. PICK c \in runnable : /\ c \in Checks /\ future[c] \notin {"idle", "dead"} \cup Verdicts
  <2>1. CASE phase = "collect"
    <3>1. PICK c \in runnable \ Completed : future[c] \notin Verdicts
      BY <2>1 DEF MainReady
    <3>2. c \in Checks /\ future[c] # "idle"
      BY <2>1, <3>1 DEF IInv, TypeOK, FutureInv
    <3>3. future[c] # "dead"
      BY <2>1, <3>2 DEF IInv, FutureInv, ReadyInv
    <3>4. QED
      BY <3>1, <3>2, <3>3
  <2>2. CASE phase = "drain"
    <3>1. PICK c \in runnable : ~ Settled(c)
      BY <2>2 DEF MainReady
    <3>2. c \in Checks /\ future[c] # "idle"
      BY <2>2, <3>1 DEF IInv, TypeOK, ReadyInv
    <3>3. QED
      BY <3>1, <3>2 DEF Settled
  <2>3. QED
    BY <1>1, <1>2, <1>3, <2>1, <2>2
<1>5. future[c] \in {"queued", "running", "cancelled"}
  BY <1>4 DEF IInv, TypeOK, Futures
<1>6. CASE future[c] = "running"
  BY <1>4, <1>6 DEF WorkerReady
<1>7. CASE future[c] # "running"
  <2>1. c \in Queue
    BY <1>4, <1>5, <1>7 DEF Queue
  <2>2. QED
    BY <2>1, QueueServed
<1>8. QED
  BY <1>6, <1>7

LEMMA ReadyStep == IInv /\ ReadyInv /\ [Next]_vars => ReadyInv'
<1> SUFFICES ASSUME IInv, ReadyInv, [Next]_vars PROVE ReadyInv'
  OBVIOUS
<1> USE DEF ReadyInv, config, planning, pool, results
<1>1. CASE Select \/ PlanWave \/ Planned \/ SkipWave \/ AllCollected \/ Drained \/ WrapUp \/ Report
  <2>1. /\ phase' \notin {"submit", "cancel", "drain"}
        /\ future' = future /\ aborted' = aborted
    BY <1>1 DEF Select, PlanWave, Planned, SkipWave, AllCollected, Drained, WrapUp, WrapUpWith, Report, IInv, TypeOK, Phases
  <2>2. QED
    BY <2>1
<1>2. CASE Partition
  <2>1. /\ wave' = wave + 1 /\ runnable' \subseteq Wave(wave') /\ (phase' = "submit" => runnable' # {})
        /\ phase' \in {"waves", "submit"} /\ UNCHANGED <<config, planning, future, toCancel, aborted>>
    BY <1>2 DEF Partition
  <2>2. ASSUME NEW c \in runnable' PROVE future[c] = "idle"
    <3>1. c \in Checks /\ waveOf[c] = wave + 1
      BY <2>1 DEF Wave, IInv, TypeOK
    <3>2. wave \in Nat
      BY DEF IInv, TypeOK
    <3>3. QED
      BY <3>1, <3>2 DEF IInv, FutureInv
  <2>3. QED
    BY <2>1, <2>2
<1>3. ASSUME NEW c \in Checks, Submit(c) PROVE ReadyInv'
  <2>1. /\ phase = "submit" /\ future' = [future EXCEPT ![c] = "queued"]
        /\ phase' = IF \E d \in runnable \ {c} : future[d] = "idle" THEN "submit" ELSE "collect"
        /\ runnable' = runnable /\ aborted' = aborted
    BY <1>3 DEF Submit
  <2>2. \A d \in Checks : future'[d] = IF d = c THEN "queued" ELSE future[d]
    BY <2>1 DEF IInv, TypeOK
  <2>3. runnable \subseteq Checks
    BY DEF IInv, TypeOK
  <2>4. QED
    BY <2>1, <2>2, <2>3
<1>4. ASSUME NEW c \in Checks, Collect(c) PROVE ReadyInv'
  <2>1. /\ phase = "collect" /\ c \in runnable /\ future' = future
        /\ \/ phase' = "collect" /\ aborted' = aborted
           \/ phase' = "cancel" /\ aborted' = TRUE /\ toCancel' = runnable
    BY <1>4 DEF Collect, CollectStopping
  <2>2. QED
    BY <2>1
<1>5. ASSUME NEW c \in Checks, Cancel(c) PROVE ReadyInv'
  <2>1. /\ phase = "cancel" /\ toCancel' = toCancel \ {c} /\ runnable' = runnable /\ aborted' = aborted
        /\ future' = [future EXCEPT ![c] = IF @ = "queued" THEN "cancelled" ELSE @]
        /\ phase' = IF toCancel' = {} THEN "drain" ELSE "cancel"
    BY <1>5 DEF Cancel, CancelInto
  <2>2. \A d \in Checks : future'[d] = IF d = c /\ future[c] = "queued" THEN "cancelled" ELSE future[d]
    BY <2>1 DEF IInv, TypeOK
  <2>3. aborted /\ runnable \subseteq Checks /\ \A d \in runnable : future[d] # "idle"
    BY <2>1 DEF IInv, TypeOK, FutureInv
  <2>4. QED
    BY <2>1, <2>2, <2>3
<1>6. ASSUME NEW c \in Checks, Worker(c) PROVE ReadyInv'
  <2>1. /\ UNCHANGED <<phase, runnable, toCancel, aborted>>
        /\ \E v \in {"running", "dead"} \cup Verdicts :
             /\ future[c] # "idle" /\ future' = [future EXCEPT ![c] = v]
             /\ v = "dead" => future[c] = "cancelled"
    BY <1>6 DEF Worker, Start, Discard, Finish, Verdicts, CheckStatus
  <2>2. PICK v \in {"running", "dead"} \cup Verdicts :
             /\ future[c] # "idle" /\ v # "idle" /\ v # "cancelled"
             /\ v = "dead" => future[c] = "cancelled"
             /\ \A d \in Checks : future'[d] = IF d = c THEN v ELSE future[d]
    BY <2>1 DEF IInv, TypeOK, Verdicts, CheckStatus
  <2>3. runnable \subseteq Checks /\ (v = "dead" => aborted)
    BY <2>2 DEF IInv, TypeOK
  <2>4. QED
    BY <2>1, <2>2, <2>3
<1>7. CASE UNCHANGED vars
  BY <1>7 DEF vars
<1>8. QED
  BY <1>1, <1>2, <1>3, <1>4, <1>5, <1>6, <1>7 DEF Next, Main, Returned

(* The as_completed loop and the exit of the pool never wait for a future   *)
(* nobody will settle: until the call is over the main thread can go on, a  *)
(* worker can take the head of the queue, or a check is in flight.          *)
THEOREM NeverStuck == Spec => []SomeoneMoves
<1>1. Init => ReadyInv
  BY DEF Init, ReadyInv
<1>2. QED
  BY <1>1, ReadyStep, ReadyMoves, Invariance, PTL DEF Spec
=============================================================================
