---------------------------- MODULE SuiteRunner ----------------------------
(***************************************************************************)
(* core/engine.py: one call of SuiteRunner.run.                            *)
(*                                                                         *)
(* Two kinds of actor.  The main thread selects the checks, plans the      *)
(* dependency waves and walks through them; in each wave it submits the    *)
(* runnable checks to a ThreadPoolExecutor, collects the futures as they   *)
(* complete and, under fail_fast, cancels the futures still queued.  The   *)
(* worker threads of the pool take the queue in submission order.  A wave  *)
(* of one check is run by the main thread itself: it takes the same steps  *)
(* as a pool of one worker, so it has no actions of its own.               *)
(*                                                                         *)
(* Checks are numbered in declaration order, which is also the order in    *)
(* which a wave is submitted and its queue served.                         *)
(***************************************************************************)
EXTENDS CheckResults, Integers, FiniteSets

CONSTANTS
    N,               \* number of checks the suite declares
    Graphs,          \* the depends_on graphs considered
    ParallelLimits   \* the effective max_parallel values considered

Checks == 1 .. N

ASSUME NAssumption == N \in Nat
ASSUME GraphsAssumption == Graphs \subseteq [Checks -> SUBSET Checks]
\* 0 is falsy and replaced by the suite's value; the command line takes any other.
ASSUME LimitsAssumption == ParallelLimits \subseteq Int \ {0}

VARIABLES
    deps,         \* depends_on of each check
    chosen,       \* the checks the selection kept
    maxParallel,  \* effective cap on in-flight checks
    failFast,     \* effective fail_fast
    dryRun        \* whether the plan is only reported

VARIABLES
    phase,        \* where the main thread is
    waveOf,       \* the wave each check was planned into, 0 when none yet
    waves,        \* number of waves planned
    wave,         \* number of the wave being run or run last
    runnable,     \* the checks of that wave handed to _execute
    future,       \* the future of each check: idle, queued, running, dead or a verdict
    toCancel,     \* futures the cancelling loop has still to visit
    completed,    \* result recorded for each check, "none" when there is none
    emitted,      \* how many times on_result was called with the check's result
    aborted,      \* fail_fast has stopped the run
    status        \* RunResult.status

config   == <<deps, chosen, maxParallel, failFast, dryRun>>
planning == <<waveOf, waves>>
pool     == <<runnable, future, toCancel>>
results  == <<completed, emitted, aborted>>
vars     == <<config, phase, planning, wave, pool, results, status>>

Phases == {"select", "plan", "waves", "submit", "collect", "cancel", "drain",
           "wrapup", "report", "done", "refused"}

\* "dead": cancelled, the worker that takes it off the queue only discards it.
Futures == {"idle", "queued", "running", "cancelled", "dead"} \cup Verdicts

---------------------------------------------------------------------------
(* Derived state *)

Completed == {c \in Checks : completed[c] # "none"}
Started   == {c \in Checks : future[c] \in {"running"} \cup Verdicts}
InFlight  == {c \in Checks : future[c] = "running"}
Wave(w)   == {c \in chosen : waveOf[c] = w}
Remaining == {c \in chosen : waveOf[c] = 0}

(* The dependencies a check waits for: those outside the selection are      *)
(* treated as already satisfied.                                            *)
Awaited(c) == deps[c] \cap chosen

First(S, c) == c \in S /\ \A d \in S : c <= d

\* Mutant: as many workers as the wave has checks.
WorkersUncapped == Cardinality(runnable)

(* The pool is bounded by the caller's cap and by the size of the wave.     *)
Workers ==
    LET n == Cardinality(runnable)
        m == IF maxParallel < n THEN maxParallel ELSE n
    IN  IF m < 1 THEN 1 ELSE m

Queue == {c \in runnable : future[c] \in {"queued", "cancelled"}}

Idle(c) == c \in Queue /\ First(Queue, c)
           /\ Cardinality(runnable \cap InFlight) < Workers

Settled(c) == future[c] \in {"dead"} \cup Verdicts

(* Record a set of checks as skipped; call on_result for a set of checks.   *)
SkipAll(S)  == completed' = [c \in Checks |-> IF c \in S THEN "skipped" ELSE completed[c]]
Announce(S) == emitted' = [c \in Checks |-> emitted[c] + IF c \in S THEN 1 ELSE 0]
---------------------------------------------------------------------------
(* The main thread: selection and planning *)

Select ==
    /\ phase = "select"
    /\ IF chosen = {}
         THEN /\ phase' = "done" /\ status' = Recompute({})
              /\ UNCHANGED completed
         ELSE IF dryRun
           THEN /\ phase' = "report"
                /\ SkipAll(chosen)
                /\ UNCHANGED status
           ELSE /\ phase' = "plan"
                /\ UNCHANGED <<completed, status>>
    /\ UNCHANGED <<config, planning, wave, pool, emitted, aborted>>

(* The next wave of plan_waves: every remaining check whose dependencies    *)
(* are all in earlier waves.                                                *)
\* Mutants: one satisfied dependency is enough; one check per wave; waiting
\* for dependencies the selection left out.
NextWaveAny      == {c \in Remaining : Awaited(c) \subseteq Remaining => Awaited(c) = {}}
NextWaveSerial   == {c \in Remaining : First({d \in Remaining : Awaited(d) \cap Remaining = {}}, c)}
NextWaveUnpruned == {c \in Remaining : deps[c] \subseteq chosen \ Remaining}

NextWave == {c \in Remaining : Awaited(c) \cap Remaining = {}}

\* Mutant: an empty wave is not an error, the planning loop just goes on.
PlanWaveForever ==
    /\ phase = "plan" /\ Remaining # {} /\ NextWave # {}
    /\ waves' = waves + 1
    /\ waveOf' = [c \in Checks |-> IF c \in NextWave THEN waves' ELSE waveOf[c]]
    /\ UNCHANGED <<config, phase, wave, pool, results, status>>

PlanWave ==
    /\ phase = "plan" /\ Remaining # {}
    /\ IF NextWave = {}
         THEN phase' = "refused" /\ UNCHANGED planning
         ELSE /\ waves' = waves + 1
              /\ waveOf' = [c \in Checks |-> IF c \in NextWave THEN waves' ELSE waveOf[c]]
              /\ UNCHANGED phase
    /\ UNCHANGED <<config, wave, pool, results, status>>

Planned ==
    /\ phase = "plan" /\ Remaining = {}
    /\ phase' = "waves"
    /\ UNCHANGED <<config, planning, wave, pool, results, status>>
---------------------------------------------------------------------------
(* The main thread: the wave loop *)

(* After an abort the remaining waves are recorded as skipped, without a    *)
(* call of on_result.                                                       *)
SkipWave ==
    /\ phase = "waves" /\ wave < waves /\ aborted
    /\ wave' = wave + 1
    /\ SkipAll(Wave(wave'))
    /\ UNCHANGED <<config, phase, planning, pool, emitted, aborted, status>>

(* The dependencies that keep a check from running: their result is there   *)
(* and is not ok.                                                           *)
\* Mutant: only "failed" blocks.
BlockersFailed(c) == {d \in deps[c] \cap Completed : completed[d] = "failed"}

Blockers(c) == {d \in deps[c] \cap Completed : completed[d] \notin Ok}

\* Mutant: a blocked check is recorded but not announced.
PartitionSilent ==
    /\ phase = "waves" /\ wave < waves /\ ~aborted
    /\ wave' = wave + 1
    /\ LET blocked == {c \in Wave(wave') : Blockers(c) # {}}
       IN  SkipAll(blocked) /\ runnable' = Wave(wave') \ blocked
    /\ phase' = IF runnable' = {} THEN "waves" ELSE "submit"
    /\ UNCHANGED <<config, planning, future, toCancel, emitted, aborted, status>>

Partition ==
    /\ phase = "waves" /\ wave < waves /\ ~aborted
    /\ wave' = wave + 1
    /\ LET blocked == {c \in Wave(wave') : Blockers(c) # {}}
       IN  /\ SkipAll(blocked)
           /\ Announce(blocked)
           /\ runnable' = Wave(wave') \ blocked
    /\ phase' = IF runnable' = {} THEN "waves" ELSE "submit"
    /\ UNCHANGED <<config, planning, future, toCancel, aborted, status>>

Submit(c) ==
    /\ phase = "submit"
    /\ First({d \in runnable : future[d] = "idle"}, c)
    /\ future' = [future EXCEPT ![c] = "queued"]
    /\ phase' = IF \E d \in runnable \ {c} : future[d] = "idle" THEN "submit" ELSE "collect"
    /\ UNCHANGED <<config, planning, wave, runnable, toCancel, results, status>>

(* One turn of the as_completed loop: the result is recorded and emitted;   *)
(* a failing one under fail_fast aborts the run and starts the cancelling.  *)
CollectStopping(c, stops, recorded) ==
    /\ phase = "collect"
    /\ c \in runnable \ Completed /\ future[c] \in Verdicts
    /\ completed' = [completed EXCEPT ![c] = IF recorded THEN future[c] ELSE @]
    /\ emitted' = [emitted EXCEPT ![c] = @ + IF recorded THEN 1 ELSE 0]
    /\ IF stops
         THEN aborted' = TRUE /\ phase' = "cancel" /\ toCancel' = runnable
         ELSE UNCHANGED <<aborted, phase, toCancel>>
    /\ UNCHANGED <<config, planning, wave, runnable, future, status>>

Stops(c) == failFast /\ future[c] \in Failing

\* Mutants: stopping before the failure is recorded; stopping without fail_fast.
CollectStopFirst(c) == CollectStopping(c, Stops(c), ~Stops(c))
CollectStopAny(c)   == CollectStopping(c, future[c] \in Failing, TRUE)

Collect(c) == CollectStopping(c, Stops(c), TRUE)

\* Mutant: the first completed future ends the loop.
AllCollectedEarly ==
    /\ phase = "collect" /\ runnable \cap Completed # {}
    /\ phase' = "wrapup"
    /\ UNCHANGED <<config, planning, wave, pool, results, status>>

AllCollected ==
    /\ phase = "collect" /\ runnable \subseteq Completed
    /\ phase' = "wrapup"
    /\ UNCHANGED <<config, planning, wave, pool, results, status>>

(* One turn of "for pending in futures: pending.cancel()": only a future    *)
(* that no worker has taken can be cancelled.                               *)
CancelInto(c, cancelled) ==
    /\ phase = "cancel"
    /\ First(toCancel, c)
    /\ toCancel' = toCancel \ {c}
    /\ future' = [future EXCEPT ![c] = IF @ = "queued" THEN cancelled ELSE @]
    /\ phase' = IF toCancel' = {} THEN "drain" ELSE "cancel"
    /\ UNCHANGED <<config, planning, wave, runnable, results, status>>

\* Mutant: the queue is left as it is.
CancelNothing(c) == CancelInto(c, "queued")

Cancel(c) == CancelInto(c, "cancelled")

(* The as_completed loop and the exit of the pool wait for every future;    *)
(* the results that arrive meanwhile are dropped.                           *)
\* Mutant: the pool is left without waiting for the running checks.
DrainedEarly ==
    /\ phase = "drain"
    /\ phase' = "wrapup"
    /\ UNCHANGED <<config, planning, wave, pool, results, status>>

Drained ==
    /\ phase = "drain" /\ \A c \in runnable : Settled(c)
    /\ phase' = "wrapup"
    /\ UNCHANGED <<config, planning, wave, pool, results, status>>

(* The end of a wave: whatever an abort left without a result is skipped.   *)
WrapUpWith(missing) ==
    /\ phase = "wrapup"
    /\ SkipAll(missing)
    /\ Announce(missing)
    /\ phase' = "waves"
    /\ UNCHANGED <<config, planning, wave, pool, aborted, status>>

\* Mutants: no result for the cancelled checks; skipping the finished ones too.
WrapUpForgetting  == WrapUpWith({})
WrapUpOverwriting == WrapUpWith(IF aborted THEN runnable ELSE {})

WrapUp == WrapUpWith(IF aborted THEN runnable \ Completed ELSE {})

Report ==
    /\ phase = "report" \/ (phase = "waves" /\ wave = waves)
    /\ status' = Recompute({completed[c] : c \in chosen \cap Completed})
    /\ phase' = "done"
    /\ UNCHANGED <<config, planning, wave, pool, results>>
---------------------------------------------------------------------------
(* The worker threads *)

Start(c) ==
    /\ Idle(c) /\ future[c] = "queued"
    /\ future' = [future EXCEPT ![c] = "running"]
    /\ UNCHANGED <<config, phase, planning, wave, runnable, toCancel, results, status>>

Discard(c) ==
    /\ Idle(c) /\ future[c] = "cancelled"
    /\ future' = [future EXCEPT ![c] = "dead"]
    /\ UNCHANGED <<config, phase, planning, wave, runnable, toCancel, results, status>>

Finish(c, verdict) ==
    /\ future[c] = "running"
    /\ future' = [future EXCEPT ![c] = verdict]
    /\ UNCHANGED <<config, phase, planning, wave, runnable, toCancel, results, status>>
---------------------------------------------------------------------------
Init ==
    /\ deps \in Graphs
    /\ chosen \in SUBSET Checks
    /\ maxParallel \in ParallelLimits
    /\ failFast \in BOOLEAN
    /\ dryRun \in BOOLEAN
    /\ phase = "select"
    /\ waveOf = [c \in Checks |-> 0]
    /\ waves = 0 /\ wave = 0
    /\ runnable = {} /\ toCancel = {}
    /\ future = [c \in Checks |-> "idle"]
    /\ completed = [c \in Checks |-> "none"]
    /\ emitted = [c \in Checks |-> 0]
    /\ aborted = FALSE
    /\ status = "running"

Main ==
    \/ Select \/ PlanWave \/ Planned
    \/ SkipWave \/ Partition
    \/ \E c \in Checks : Submit(c) \/ Collect(c) \/ Cancel(c)
    \/ AllCollected \/ Drained \/ WrapUp \/ Report

Worker(c) == Start(c) \/ Discard(c) \/ \E v \in Verdicts : Finish(c, v)

Over == phase \in {"done", "refused"}

(* The call has returned or raised. *)
Returned == Over /\ UNCHANGED vars

Next == Main \/ (\E c \in Checks : Worker(c)) \/ Returned

Spec == Init /\ [][Next]_vars

(* The main thread never blocks but on the futures, and the threads of the  *)
(* pool run whenever they have work; that a started check ends is the       *)
(* assumption on the connector (see the README).                            *)
FairSpec == Spec /\ WF_vars(Main) /\ \A c \in Checks : WF_vars(Worker(c))
---------------------------------------------------------------------------
(* Properties *)

TypeOK ==
    /\ deps \in [Checks -> SUBSET Checks]
    /\ chosen \in SUBSET Checks
    /\ maxParallel \in Int
    /\ failFast \in BOOLEAN /\ dryRun \in BOOLEAN
    /\ phase \in Phases
    /\ waveOf \in [Checks -> Nat]
    /\ waves \in Nat /\ wave \in Nat
    /\ runnable \in SUBSET Checks /\ toCancel \in SUBSET Checks
    /\ future \in [Checks -> Futures]
    /\ completed \in [Checks -> CheckStatus \cup {"none"}]
    /\ emitted \in [Checks -> Nat]
    /\ aborted \in BOOLEAN
    /\ status \in RunStatus

(* plan_waves: a planned check comes strictly after every dependency the    *)
(* selection contains.                                                      *)
PlanOrdered ==
    \A c \in chosen : \A d \in Awaited(c) :
        waveOf[c] # 0 => waveOf[d] # 0 /\ waveOf[d] < waveOf[c]

(* plan_waves: no check waits longer than its dependencies make it: one in  *)
(* a later wave depends on a check of the wave just before.                 *)
PlanTight ==
    \A c \in chosen : waveOf[c] > 1 => \E d \in Awaited(c) : waveOf[d] = waveOf[c] - 1

(* A set of selected checks none of which could ever be first.              *)
Cyclic == \E S \in SUBSET chosen : S # {} /\ \A c \in S : deps[c] \cap S # {}

(* plan_waves: the run is refused exactly when the selected part of the     *)
(* graph has a cycle (a cycle through checks left out does not count), and  *)
(* a refused run has touched nothing.                                       *)
RefusedIffCyclic ==
    /\ phase = "refused" => Cyclic /\ Started = {} /\ Completed = {}
    /\ phase \notin {"select", "plan", "refused", "report", "done"} => ~Cyclic

(* _partition and the wave loop: when a check is running or has run, every  *)
(* selected dependency had its result recorded, and it was ok.              *)
DependencyGate ==
    \A c \in Started : \A d \in Awaited(c) : completed[d] \in Ok

(* _execute: no more checks in flight than max_parallel allows, over all    *)
(* waves together.                                                          *)
InFlightBounded ==
    Cardinality(InFlight) <= IF maxParallel < 1 THEN 1 ELSE maxParallel

(* The pool is left only when its workers are: nothing runs on a warehouse  *)
(* connection after run() has returned.                                     *)
ReturnsQuiet == Over => InFlight = {}

(* The report accounts for every selected check, and for no other.          *)
EveryCheckAccounted == phase = "done" => Completed = chosen

(* A run that no fail_fast stopped reports each check that ran with the     *)
(* verdict the check gave.                                                  *)
ReportsWhatRan ==
    phase = "done" /\ ~aborted => \A c \in Started : completed[c] = future[c]

(* fail_fast drops the verdicts that arrive after the first failure, but no *)
(* failing verdict can be dropped from a run that then counts as passed.    *)
NoHiddenFailure ==
    phase = "done" /\ (\E c \in Checks : future[c] \in Failing) => ExitCode(status) = 1

(* on_result: a result is never announced twice, never announced before it  *)
(* is recorded, and in a run that was not stopped none is left out.         *)
EmittedOnce ==
    /\ \A c \in Checks : emitted[c] <= 1 /\ (emitted[c] = 1 => c \in Completed)
    /\ phase = "done" /\ ~aborted /\ ~dryRun => \A c \in chosen : emitted[c] = 1

(* A recorded result is final: no later wave, cancellation or late verdict  *)
(* changes it.                                                              *)
ResultsFinal ==
    [][\A c \in Completed : completed'[c] = completed[c]]_vars

(* fail_fast: once the queued futures are cancelled no check starts again,  *)
(* in this wave or in a later one.                                          *)
AbortIsFinal ==
    [][aborted /\ phase # "cancel" => Started' = Started]_vars

(* run() returns or raises: the as_completed loop never waits for a future  *)
(* nobody will settle.                                                      *)
Terminates == <>Over

(* What the caller was promised. *)
Contract == INSTANCE RunContract WITH
    started <- Started,
    verdict <- completed,
    outcome <- IF phase = "refused" THEN "refused" ELSE status

ImplementsContract == Contract!Spec

(* The inductive invariant behind the safety properties above: how far the  *)
(* plan, the wave loop and the futures have got, and what that implies.     *)

Before == {"select", "plan", "refused"}                     \* no wave yet
InWave == {"submit", "collect", "cancel", "drain", "wrapup"}

PlanInv ==
    /\ PlanOrdered /\ PlanTight
    /\ \A c \in Checks : waveOf[c] <= waves /\ (c \notin chosen => waveOf[c] = 0)
    /\ \A c \in Remaining : waves > 0 => \E d \in Awaited(c) : waveOf[d] \in {0, waves}
    /\ phase \in {"waves"} \cup InWave => Remaining = {}
    \* A cyclic set of checks is never planned, not even in part.
    /\ \A S \in SUBSET chosen :
         (\A c \in S : deps[c] \cap S # {}) => S \subseteq Remaining

ProgressInv ==
    /\ wave <= waves
    /\ phase \in Before => wave = 0 /\ Completed = {} /\ ~aborted
    /\ phase \in Before \cup {"report"} =>
         runnable = {} /\ \A c \in Checks : future[c] = "idle"
    /\ phase \in {"plan", "refused", "waves"} \cup InWave => ~dryRun
    /\ phase = "report" => dryRun /\ Completed = chosen /\ ~aborted
    /\ phase \in InWave => wave > 0 /\ Wave(wave) \cap runnable = runnable
    /\ Completed \subseteq chosen
    /\ phase = "waves" => Completed = {c \in chosen : waveOf[c] <= wave}
    /\ phase \in InWave =>
         Completed \cup runnable = {c \in chosen : waveOf[c] <= wave}

FutureInv ==
    /\ \A c \in Checks : future[c] # "idle" => c \in chosen /\ waveOf[c] \in 1 .. wave
    /\ \A c \in Checks : future[c] \in {"queued", "running", "cancelled"} =>
         c \in runnable /\ phase \in InWave \ {"wrapup"}
    /\ phase = "submit" => runnable \cap Completed = {}
    /\ phase \in {"collect", "cancel"} => \A c \in runnable : future[c] # "idle"
    /\ phase = "cancel" => \A c \in runnable \ toCancel : future[c] # "queued"
    /\ phase = "drain" => \A c \in runnable : future[c] # "queued"
    /\ phase \in {"submit", "collect"} => ~aborted
    /\ phase \in {"cancel", "drain"} => aborted
    /\ phase = "wrapup" /\ ~aborted => runnable \subseteq Completed

VerdictInv ==
    /\ \A c \in Checks : c \in runnable \/ future[c] # "idle" =>
         \A d \in Awaited(c) : completed[d] \in Ok
    /\ aborted => failFast /\ \E c \in chosen : completed[c] \in Failing
    /\ \A c \in Completed \cap Started : ~aborted => completed[c] = future[c]
    /\ \A c \in Completed : phase \in InWave /\ c \in runnable => completed[c] = future[c]

EmitInv ==
    /\ \A c \in Checks : emitted[c] \in {0, 1} /\ (emitted[c] = 1 => c \in Completed)
    /\ ~aborted /\ ~dryRun => \A c \in Completed : emitted[c] = 1

OutcomeInv ==
    /\ phase = "done" =>
         Completed = chosen /\ status = Recompute({completed[c] : c \in chosen})
    /\ phase # "done" => status = "running"
    /\ phase = "refused" => Cyclic

IInv == TypeOK /\ PlanInv /\ ProgressInv /\ FutureInv /\ VerdictInv /\ EmitInv /\ OutcomeInv

(* core/engine.py:37: the callback is "called with each result as it lands" *)
(* - so when the run is over it has been called for each result.            *)
EveryResultEmitted ==
    phase = "done" /\ ~dryRun => \A c \in Completed : emitted[c] = 1

(* docs/checks.md:28: depends_on names "checks that must pass first".       *)
DependenciesPassed ==
    \A c \in Started : \A d \in Awaited(c) : completed[d] = "passed"
=============================================================================
