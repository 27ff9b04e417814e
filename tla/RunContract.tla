---------------------------- MODULE RunContract ----------------------------
(***************************************************************************)
(* What SuiteRunner.run promises whoever calls it, without waves, pools,   *)
(* futures or a main thread: which checks may start, which may be skipped  *)
(* and why, and what the status of the run says.  From the docstrings of   *)
(* core/engine.py, as its code keeps them.                                 *)
(***************************************************************************)
EXTENDS CheckResults

CONSTANT Checks

VARIABLES
    deps, chosen, failFast, dryRun,  \* the suite and the options of the run
    started,                         \* checks whose evaluation has begun
    verdict,                         \* the reported result of each check
    outcome                          \* running, refused or the run's final status

options == <<deps, chosen, failFast, dryRun>>
vars    == <<options, started, verdict, outcome>>

Open(c) == c \in chosen /\ verdict[c] = "none"

(* A check starts only when every selected dependency has been reported ok. *)
Start(c) ==
    /\ outcome = "running" /\ ~dryRun
    /\ Open(c) /\ c \notin started
    /\ \A d \in deps[c] \cap chosen : verdict[d] \in Ok
    /\ started' = started \cup {c}
    /\ UNCHANGED <<options, verdict, outcome>>

Land(c) ==
    /\ outcome = "running"
    /\ Open(c) /\ c \in started
    /\ \E v \in Verdicts : verdict' = [verdict EXCEPT ![c] = v]
    /\ UNCHANGED <<options, started, outcome>>

(* The only reasons for a check to be reported without a verdict.           *)
MayBeSkipped(c) ==
    \/ dryRun
    \/ failFast /\ \E d \in chosen : verdict[d] \in Failing
    \/ c \notin started /\ \E d \in deps[c] \cap chosen : verdict[d] \in {"failed", "warned", "errored"}

Skip(S) ==
    /\ outcome = "running"
    /\ \A c \in S : Open(c) /\ MayBeSkipped(c)
    /\ verdict' = [c \in Checks |-> IF c \in S THEN "skipped" ELSE verdict[c]]
    /\ UNCHANGED <<options, started, outcome>>

(* The run ends when every selected check is accounted for.                 *)
Close ==
    /\ outcome = "running"
    /\ \A c \in chosen : verdict[c] # "none"
    /\ outcome' = Recompute({verdict[c] : c \in chosen})
    /\ UNCHANGED <<options, started, verdict>>

(* A dependency cycle is refused before anything is run or reported.        *)
Refuse ==
    /\ outcome = "running"
    /\ started = {} /\ \A c \in Checks : verdict[c] = "none"
    /\ \E S \in SUBSET chosen : S # {} /\ \A c \in S : deps[c] \cap S # {}
    /\ outcome' = "refused"
    /\ UNCHANGED <<options, started, verdict>>

Init ==
    /\ deps \in [Checks -> SUBSET Checks]
    /\ chosen \in SUBSET Checks
    /\ failFast \in BOOLEAN
    /\ dryRun \in BOOLEAN
    /\ started = {}
    /\ verdict = [c \in Checks |-> "none"]
    /\ outcome = "running"

Next ==
    \/ \E c \in Checks : Start(c) \/ Land(c)
    \/ \E S \in SUBSET Checks : Skip(S)
    \/ Close
    \/ Refuse

Spec == Init /\ [][Next]_vars
=============================================================================
