---------------------------- MODULE MCScheduler ----------------------------
(* Instances of Scheduler for TLC. *)
EXTENDS Scheduler

Job(n, cron) == [name |-> n, suite |-> n, cron |-> cron, enabled |-> TRUE]

NoRequests == {}

\* "schedule run": jobs as add_suites makes them, one with a slot at every
\* unit of time and one, or two, with fewer.
TwoJobs   == <<Job("a", 1), Job("b", 2)>>
ThreeJobs == TwoJobs \o <<Job("c", 2)>>

\* An embedding program that re-registers "a" with fewer slots, or adds a
\* second job.
OneJob   == <<Job("a", 1)>>
Changes  == {Job("a", 2), Job("b", 2)}
TwoEnds  == {"passed", "raised"}
Passes   == {"passed"}
=============================================================================
