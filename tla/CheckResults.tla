---------------------------- MODULE CheckResults ----------------------------
(***************************************************************************)
(* The vocabulary of outcomes shared by every module: the statuses of      *)
(* core/enums.py and how core/models.py folds the results of a run into    *)
(* the status of the run and the exit code seen by CI.                     *)
(***************************************************************************)

CheckStatus == {"passed", "failed", "warned", "errored", "skipped"}

RunStatus == {"pending", "running", "passed", "failed", "errored", "cancelled"}

(* CheckStatus.ok: a skipped check counts as ok. *)
Ok == {"passed", "skipped"}

(* The statuses that stop a fail_fast run and that RunResult.failures()     *)
(* lists.                                                                   *)
Failing == {"failed", "errored"}

(* What Check.run can answer: it traps every exception as "errored".        *)
Verdicts == CheckStatus \ {"skipped"}

(* The status of a run whose own status is still open, from the set of      *)
(* statuses of its results: errored beats failed, and warned or skipped     *)
(* results leave the run passed.                                            *)
\* Mutant: a warning becomes the status of the run.
RecomputeWarned(statuses) ==
    IF "errored" \in statuses THEN "errored"
    ELSE IF "failed" \in statuses THEN "failed"
    ELSE IF "warned" \in statuses THEN "warned" ELSE "passed"

Recompute(statuses) ==
    CASE "errored" \in statuses -> "errored"
      [] "failed" \in statuses /\ "errored" \notin statuses -> "failed"
      [] OTHER -> "passed"

ExitCode(status) == IF status \in {"errored", "failed"} THEN 1 ELSE 0
=============================================================================
