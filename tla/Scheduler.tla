----------------------------- MODULE Scheduler -----------------------------
(***************************************************************************)
(* scheduler/scheduler.py: the cron scheduler, and the schedules table it  *)
(* keeps up to date (metastore/repository.py).                             *)
(*                                                                         *)
(* Actors: the loop threads (the foreground of "nexassure schedule run",   *)
(* or one per start(block=False)), a daemon thread per fired job, and the  *)
(* clients, the threads that call the scheduler's methods.  Everything     *)
(* under Scheduler._lock is one step; a metastore write, a callback, a     *)
(* read of the clock or of _threads outside the lock is a step of its own. *)
(*                                                                         *)
(* Jobs are objects: re-registering a name makes a new object, while the   *)
(* thread of a run goes on with the object it was given.  A cron           *)
(* expression is the period of its slots; one croniter rejects makes add() *)
(* raise before anything has changed, and has no step.                     *)
(***************************************************************************)
EXTENDS Integers, FiniteSets, Sequences

CONSTANTS
    Names, Suites,  \* of jobs and of suites
    Crons,          \* the periods of the cron expressions
    Preset,         \* the registrations made before the loop starts
    Requests,       \* the registrations clients may make later
    Clients,
    Foreground,     \* "schedule run": the one client runs the loop itself
    MaxWorkers,     \* Scheduler(max_workers=...)
    Outcomes,       \* how a run may end
    MetastoreFails, \* whether a best-effort metastore write may be lost
    MaxTime,        \* bound on the clock
    MaxObjects,     \* bound on the registrations
    MaxLoops        \* bound on the calls of start()

Request == [name : Names, suite : Suites, cron : Crons, enabled : BOOLEAN]

ASSUME CronsAssumption == Crons \subseteq Nat \ {0}
ASSUME RequestsAssumption == Requests \subseteq Request /\ Preset \in Seq(Request)
ASSUME PresetAssumption ==
    \A i, j \in DOMAIN Preset : Preset[i].name = Preset[j].name => i = j
ASSUME ForegroundAssumption == Foreground \in BOOLEAN /\ MetastoreFails \in BOOLEAN
ASSUME WorkersAssumption == MaxWorkers \in Int
ASSUME OutcomesAssumption == Outcomes \subseteq {"passed", "failed", "raised"}
ASSUME BoundsAssumption ==
    MaxTime \in Nat /\ MaxObjects \in Nat /\ MaxLoops \in Nat
    /\ MaxLoops > 0 /\ Len(Preset) <= MaxObjects

Loops == 1 .. MaxLoops

VARIABLES
    now,       \* the clock
    created,   \* number of ScheduledJob objects made
    jobs,      \* the objects in Scheduler._jobs
    obj,       \* the fields of each object
    loop,      \* per loop thread: where it is, its "now", the batch to dispatch
    stopFlag,  \* Scheduler._stop
    threads,   \* the job threads alive
    tracked,   \* Scheduler._threads
    client,    \* per client: where it is in its call
    row        \* the schedules table: last_status of each row

vars == <<now, created, jobs, obj, loop, stopFlag, threads, tracked, client, row>>

(* croniter: the first slot strictly after t. *)
\* Mutants: the slot at t itself counts; the slot before t.
NextFireAt(cron, t)   == ((t + cron - 1) \div cron) * cron
NextFirePrev(cron, t) == ((t \div cron) - 1) * cron

NextFire(cron, t) == ((t \div cron) + 1) * cron

(* A new ScheduledJob.  "place" is its position in the dictionary.  Two      *)
(* fields are not in the code: "fired" numbers the threads made for the     *)
(* job, "since" is the time it was registered.                              *)
Fresh(r, place, t) ==
    [name |-> r.name, suite |-> r.suite, cron |-> r.cron, enabled |-> r.enabled,
     running |-> FALSE, next |-> NextFire(r.cron, t), status |-> "never",
     runs |-> 0, fired |-> 0, place |-> place, since |-> t]

Objects == 1 .. created

Idle(c) == client[c].at = "idle"
At(where, arg) == [at |-> where, arg |-> arg, waits |-> {}]

Named(n)  == {o \in jobs : obj[o].name = n}
LoopId(l) == <<0, l>>                  \* an entry of _threads
JobId(t)  == <<t.job, t.run>>

Alive == {JobId(t) : t \in threads} \cup
         {LoopId(l) : l \in {k \in Loops : loop[k].at \notin {"off", "exited"}}}

(* A write the metastore loses is logged and forgotten. *)
Write(n, value) ==
    \/ row' = [row EXCEPT ![n] = value]
    \/ MetastoreFails /\ row' = row
---------------------------------------------------------------------------
(* Calls of the clients *)

Add(c, r) ==
    /\ Idle(c) /\ ~Foreground /\ created < MaxObjects
    /\ created' = created + 1
    /\ LET old   == Named(r.name)
           place == IF old = {} THEN created + 1 ELSE obj[CHOOSE o \in old : TRUE].place
       IN  /\ jobs' = (jobs \ old) \cup {created + 1}
           /\ obj' = [o \in 1 .. created + 1 |->
                        IF o = created + 1 THEN Fresh(r, place, now) ELSE obj[o]]
    /\ client' = [client EXCEPT ![c] = At("upsert", r.name)]
    /\ UNCHANGED <<now, loop, stopFlag, threads, tracked, row>>

(* upsert_schedule: an existing row keeps its last outcome. *)
Upsert(c) ==
    /\ client[c].at = "upsert"
    /\ LET n == client[c].arg IN Write(n, IF row[n] = "absent" THEN "never" ELSE row[n])
    /\ client' = [client EXCEPT ![c] = At("idle", "none")]
    /\ UNCHANGED <<now, created, jobs, obj, loop, stopFlag, threads, tracked>>

Remove(c, n) ==
    /\ Idle(c) /\ ~Foreground /\ Named(n) # {}
    /\ jobs' = jobs \ Named(n)
    /\ client' = [client EXCEPT ![c] = At("delete", n)]
    /\ UNCHANGED <<now, created, obj, loop, stopFlag, threads, tracked, row>>

Delete(c) ==
    /\ client[c].at = "delete"
    /\ Write(client[c].arg, "absent")
    /\ client' = [client EXCEPT ![c] = At("idle", "none")]
    /\ UNCHANGED <<now, created, jobs, obj, loop, stopFlag, threads, tracked>>

(* run_now: the lock covers only the lookup; the run is on the caller's     *)
(* own thread and leaves no trace in the job.                               *)
RunNow(c, n) ==
    /\ Idle(c) /\ ~Foreground /\ Named(n) # {}
    /\ \E o \in Named(n) : client' = [client EXCEPT ![c] = At("manual", obj[o].suite)]
    /\ UNCHANGED <<now, created, jobs, obj, loop, stopFlag, threads, tracked, row>>

RunNowEnds(c) ==
    /\ client[c].at = "manual"
    /\ client' = [client EXCEPT ![c] = At("idle", "none")]
    /\ UNCHANGED <<now, created, jobs, obj, loop, stopFlag, threads, tracked, row>>

(* start(block=False): every call makes another loop thread. *)
StartLoop(c, l) ==
    /\ Idle(c) /\ ~Foreground
    /\ loop[l].at = "off" /\ \A k \in 1 .. l - 1 : loop[k].at # "off"
    /\ stopFlag' = FALSE
    /\ loop' = [loop EXCEPT ![l].at = "top"]
    /\ tracked' = tracked \cup {LoopId(l)}
    /\ UNCHANGED <<now, created, jobs, obj, threads, client, row>>

(* SIGINT or SIGTERM: the handler of start(block=True). *)
Signal ==
    /\ Foreground /\ ~stopFlag
    /\ stopFlag' = TRUE
    /\ UNCHANGED <<now, created, jobs, obj, loop, threads, tracked, client, row>>

(* stop(): called at any time, or by "schedule run" once the loop is left.  *)
Stop(c) ==
    /\ IF Foreground THEN client[c].at = "foreground" /\ loop[1].at = "exited"
                     ELSE Idle(c)
    /\ stopFlag' = TRUE
    /\ client' = [client EXCEPT ![c].at = "stopping"]
    /\ UNCHANGED <<now, created, jobs, obj, loop, threads, tracked, row>>

Snapshot(c) ==
    /\ client[c].at = "stopping"
    /\ client' = [client EXCEPT ![c].at = "joining", ![c].waits = tracked]
    /\ UNCHANGED <<now, created, jobs, obj, loop, stopFlag, threads, tracked, row>>

\* Mutant: the joins of stop() wait for one thread only.
JoinedAny(c) ==
    /\ client[c].at = "joining"
    /\ client[c].waits \cap Alive = {} \/ client[c].waits \ Alive # {}
    /\ client' = [client EXCEPT ![c].at = "joined"]
    /\ UNCHANGED <<now, created, jobs, obj, loop, stopFlag, threads, tracked, row>>

Joined(c) ==
    /\ client[c].at = "joining" /\ client[c].waits \cap Alive = {}
    /\ client' = [client EXCEPT ![c].at = "joined"]
    /\ UNCHANGED <<now, created, jobs, obj, loop, stopFlag, threads, tracked, row>>

\* Mutant: no timeout on the joins.
NeverGaveUp(c) ==
    /\ client[c].at = "joining" /\ client[c].waits \cap Alive = {}
    /\ client' = [client EXCEPT ![c].at = "gaveup"]
    /\ UNCHANGED <<now, created, jobs, obj, loop, stopFlag, threads, tracked, row>>

GaveUp(c) ==
    /\ client[c].at = "joining" /\ client[c].waits \cap Alive # {}
    /\ client' = [client EXCEPT ![c].at = "gaveup"]
    /\ UNCHANGED <<now, created, jobs, obj, loop, stopFlag, threads, tracked, row>>

Stopped(c) ==
    /\ client[c].at \in {"joined", "gaveup"}
    /\ tracked' = tracked \cap Alive
    /\ client' = [client EXCEPT ![c] = At(IF Foreground THEN "closed" ELSE "idle", "none")]
    /\ UNCHANGED <<now, created, jobs, obj, loop, stopFlag, threads, row>>
---------------------------------------------------------------------------
(* The loop threads *)

(* The test of the stop flag, then the clock, read before the lock. *)
LoopTop(l) ==
    /\ loop[l].at = "top"
    /\ loop' = [loop EXCEPT ![l] = IF stopFlag THEN [@ EXCEPT !.at = "exited"]
                                   ELSE [@ EXCEPT !.at = "pick", !.seen = now]]
    /\ UNCHANGED <<now, created, jobs, obj, stopFlag, threads, tracked, client, row>>

\* Mutant: no test of the running flag.
IsDueRunning(o, t) == obj[o].enabled /\ t >= obj[o].next

IsDue(o, t) == obj[o].enabled /\ ~obj[o].running /\ t >= obj[o].next

Active   == {o \in jobs : obj[o].running}

\* Mutant: the running jobs are not counted.
CapacityWhole == IF MaxWorkers < 0 THEN 0 ELSE MaxWorkers

Capacity == LET free == MaxWorkers - Cardinality(Active)
            IN  IF free < 0 THEN 0 ELSE free

(* The due jobs that find a free worker: the first ones of the dictionary.  *)
Taken(due) ==
    {o \in due : Cardinality({p \in due : obj[p].place < obj[o].place}) < Capacity}

Flag(S) == obj' = [o \in Objects |-> IF o \in S THEN [obj[o] EXCEPT !.running = TRUE]
                                                ELSE obj[o]]

(* Under the lock: the batch is chosen and its jobs flagged. *)
DueJobs(l) ==
    /\ loop[l].at = "pick"
    /\ LET due   == {o \in jobs : IsDue(o, loop[l].seen)}
           taken == Taken(due)
       IN  /\ Flag(taken)
           /\ loop' = [loop EXCEPT ![l] = [@ EXCEPT
                 !.at = IF taken = {} THEN "wait" ELSE "dispatch",
                 !.seen = 0, !.batch = taken]]
    /\ UNCHANGED <<now, created, jobs, stopFlag, threads, tracked, client, row>>

(* A daemon thread is started and tracked; the dead ones are forgotten.     *)
Dispatch(l, o) ==
    /\ loop[l].at = "dispatch" /\ o \in loop[l].batch
    /\ \A p \in loop[l].batch : obj[o].place <= obj[p].place
    /\ LET t    == [job |-> o, run |-> obj[o].fired + 1, stage |-> "run", status |-> "never"]
           rest == loop[l].batch \ {o}
       IN  /\ threads' = threads \cup {t}
           /\ tracked' = (tracked \cap Alive) \cup {JobId(t)}
           /\ loop' = [loop EXCEPT ![l] = [@ EXCEPT
                 !.at = IF rest = {} THEN "wait" ELSE "dispatch", !.batch = rest]]
    /\ obj' = [obj EXCEPT ![o].fired = @ + 1]
    /\ UNCHANGED <<now, created, jobs, stopFlag, client, row>>

(* _stop.wait(TICK_SECONDS): over when the tick has passed, or at once when *)
(* the flag is up.                                                          *)
Wake(l) ==
    /\ loop[l].at = "wait"
    /\ loop' = [loop EXCEPT ![l].at = "top"]
    /\ UNCHANGED <<now, created, jobs, obj, stopFlag, threads, tracked, client, row>>
---------------------------------------------------------------------------
(* The job threads *)

Becomes(t, stage, status) ==
    threads' = (threads \ {t}) \cup {[t EXCEPT !.stage = stage, !.status = status]}

(* The run is over, or has raised; under the lock the job is made ready for *)
(* its next slot after the present time.                                    *)
RecordAs(t, outcome, running) ==
    /\ t.stage = "run"
    /\ LET job == obj[t.job]
       IN  obj' = [obj EXCEPT ![t.job] = [job EXCEPT !.running = running,
             !.runs = job.runs + 1, !.status = outcome, !.next = NextFire(job.cron, now)]]
    /\ Becomes(t, "mark", outcome)
    /\ UNCHANGED <<now, created, jobs, loop, stopFlag, tracked, client, row>>

\* Mutant: the flag is lowered only when the run has not raised.
RecordUnlessRaised(t, outcome) == RecordAs(t, outcome, outcome = "raised")

Record(t, outcome) == RecordAs(t, outcome, FALSE)

(* mark_schedule_run updates the row of that name, whatever object it is of *)
(* by now.  A run that raised has no result for the callback.               *)
MarkRow(t, touched) ==
    /\ t.stage = "mark"
    /\ LET n == obj[t.job].name
       IN  IF n \in touched THEN Write(n, t.status) ELSE UNCHANGED row
    /\ IF t.status = "raised" THEN threads' = threads \ {t} ELSE Becomes(t, "notify", t.status)
    /\ UNCHANGED <<now, created, jobs, obj, loop, stopFlag, tracked, client>>

\* Mutant: an upsert in place of the update.
MarkRunUpsert(t) == MarkRow(t, Names)

MarkRun(t) == MarkRow(t, {n \in Names : row[n] # "absent"})

Notify(t) ==
    /\ t.stage = "notify"
    /\ threads' = threads \ {t}
    /\ UNCHANGED <<now, created, jobs, obj, loop, stopFlag, tracked, client, row>>
---------------------------------------------------------------------------
Tick ==
    /\ now < MaxTime
    /\ now' = now + 1
    /\ UNCHANGED <<created, jobs, obj, loop, stopFlag, threads, tracked, client, row>>

(* add_suites has registered the preset jobs, rows included; "schedule run" *)
(* is about to enter its loop.                                              *)
Init ==
    /\ now = 0
    /\ created = Len(Preset)
    /\ jobs = 1 .. Len(Preset)
    /\ obj = [o \in Objects |-> Fresh(Preset[o], o, 0)]
    /\ loop = [l \in Loops |-> [at |-> IF Foreground /\ l = 1 THEN "top" ELSE "off",
                               seen |-> 0, batch |-> {}]]
    /\ stopFlag = FALSE
    /\ threads = {} /\ tracked = {}
    /\ client = [c \in Clients |-> At(IF Foreground THEN "foreground" ELSE "idle", "none")]
    /\ row = [n \in Names |-> IF \E o \in jobs : obj[o].name = n THEN "never" ELSE "absent"]

Calls(c) ==
    \/ \E r \in Requests : Add(c, r)
    \/ \E n \in Names : Remove(c, n) \/ RunNow(c, n)
    \/ Upsert(c) \/ Delete(c) \/ RunNowEnds(c)
    \/ \E l \in Loops : StartLoop(c, l)

Stopping(c) == Stop(c) \/ Snapshot(c) \/ Joined(c) \/ GaveUp(c) \/ Stopped(c)

Looping(l) == LoopTop(l) \/ DueJobs(l) \/ (\E o \in Objects : Dispatch(l, o)) \/ Wake(l)

Running(t) == (\E s \in Outcomes : Record(t, s)) \/ MarkRun(t) \/ Notify(t)

(* "schedule run" has returned. *)
Closed == (\E c \in Clients : client[c].at = "closed") /\ UNCHANGED vars

Next ==
    \/ \E c \in Clients : Calls(c) \/ Stopping(c)
    \/ \E l \in Loops : Looping(l)
    \/ \E t \in threads : Running(t)
    \/ Signal \/ Tick \/ Closed

Spec == Init /\ [][Next]_vars

(* Threads are scheduled and time passes; stop() joins with a timeout, so   *)
(* it goes on whether or not a thread ends.                                 *)
FairSpec ==
    /\ Spec /\ WF_vars(Tick)
    /\ \A l \in Loops : WF_vars(Looping(l))
    /\ \A c \in Clients : WF_vars(Foreground /\ Stopping(c))

---------------------------------------------------------------------------
(* Properties *)

Stages == {"run", "mark", "notify"}
JobRecord ==
    [name : Names, suite : Suites, cron : Crons, enabled : BOOLEAN, running : BOOLEAN,
     next : Nat, status : Outcomes \cup {"never"}, runs : Nat, fired : Nat,
     place : Nat, since : Nat]

LoopRecord ==
    [at : {"off", "top", "pick", "dispatch", "wait", "exited"},
     seen : 0 .. MaxTime, batch : SUBSET Objects]

ThreadRecord ==
    [job : Objects, run : Nat, stage : Stages, status : Outcomes \cup {"never"}]
ThreadIds == (0 .. created) \X Nat

ClientRecord ==
    [at : {"idle", "upsert", "delete", "manual", "foreground",
           "stopping", "joining", "joined", "gaveup", "closed"},
     arg : Names \cup Suites \cup {"none"}, waits : SUBSET ThreadIds]

TypeOK ==
    /\ now \in 0 .. MaxTime
    /\ created \in 0 .. MaxObjects
    /\ jobs \in SUBSET Objects
    /\ obj \in [Objects -> JobRecord]
    /\ loop \in [Loops -> LoopRecord]
    /\ stopFlag \in BOOLEAN
    /\ threads \subseteq ThreadRecord
    /\ tracked \subseteq ThreadIds
    /\ client \in [Clients -> ClientRecord]
    /\ row \in [Names -> Outcomes \cup {"absent", "never"}]

Executing == {t \in threads : t.stage = "run"}
RunsOf(o) == {t \in Executing : t.job = o}
InBatch(o) == {l \in Loops : o \in loop[l].batch}

(* A job never overlaps itself, however many loops are running, and nobody  *)
(* is about to fire a job that is being run.                                *)
NoOverlap ==
    \A o \in Objects :
        /\ \A t, u \in RunsOf(o) : t = u
        /\ \A k, l \in InBatch(o) : k = l
        /\ RunsOf(o) = {} \/ InBatch(o) = {}

(* A job flagged as running has a thread that will lower the flag, or a     *)
(* loop that is about to start one: no job is left out of every later tick. *)
NoStuckJob == \A o \in Objects : obj[o].running => RunsOf(o) # {} \/ InBatch(o) # {}

(* No catch-up: a job has been fired at most once for each slot that passed *)
(* since it was registered, after delays and overruns too.                  *)
OncePerSlot ==
    \A o \in Objects :
        LET slots == now \div obj[o].cron - obj[o].since \div obj[o].cron
        IN  obj[o].fired + (IF InBatch(o) = {} THEN 0 ELSE 1) <= slots

(* Two runs of one suite at once, run_now included.                         *)
Overlapping(s) ==
    Cardinality({t \in Executing : obj[t.job].suite = s})
        + Cardinality({c \in Clients : client[c].at = "manual" /\ client[c].arg = s}) > 1

(* scheduler.py:13, README.md:368: "The scheduler never overlaps a suite    *)
(* with itself".                                                            *)
SuiteNoOverlap == \A s \in Suites : ~Overlapping(s)

(* scheduler.py:130: max_workers is a "ceiling on concurrently executing    *)
(* suites", those fired by the loop.                                        *)
WorkerCeiling == Cardinality(Executing) <= IF MaxWorkers < 0 THEN 0 ELSE MaxWorkers

(* stop() "wait[s] for in-flight runs to finish" (scheduler.py:218): unless *)
(* its timeout expires, it leaves no job thread alive.                      *)
StopWaits == \A c \in Clients : client[c].at = "joined" => threads = {}

(* remove(): as long as no write is lost, the schedules table lists the     *)
(* registered jobs and no other between two calls; the late outcome of a    *)
(* removed job does not bring its row back.                                 *)
RowsFollowJobs ==
    (\A c \in Clients : client[c].at \notin {"upsert", "delete"}) =>
        {n \in Names : row[n] # "absent"} = {n \in Names : Named(n) # {}}

(* The inductive invariant behind the safety properties above.              *)

(* The flag of a job stands for exactly one thread or one place in a batch; *)
(* a thread made later has a new number.                                    *)
FlagInv ==
    /\ \A o \in Objects : obj[o].running <=> RunsOf(o) # {} \/ InBatch(o) # {}
    /\ NoOverlap
    /\ \A t \in threads : t.run <= obj[t.job].fired
    /\ \A l \in Loops : loop[l].batch # {} => loop[l].at = "dispatch"

(* The slots used up: those fired, and while a job waits also those up to   *)
(* the one it waits for.                                                    *)
Spent(o) == obj[o].since \div obj[o].cron
              + obj[o].fired + IF InBatch(o) = {} THEN 0 ELSE 1

SlotsOf(o) ==
    /\ Spent(o) <= now \div obj[o].cron
    /\ ~obj[o].running => Spent(o) < obj[o].next \div obj[o].cron

SlotInv == (\A l \in Loops : loop[l].seen <= now) /\ \A o \in Objects : SlotsOf(o)

(* "schedule run": the registrations stay, one loop runs, and stop() comes  *)
(* after it, when no thread is made any more.                               *)
ForegroundInv ==
    Foreground =>
        /\ jobs = Objects /\ created = Len(Preset)
        /\ \A o \in Objects : obj[o].suite = Preset[o].suite
        /\ \A l \in Loops \ {1} : loop[l].at = "off"
        /\ \A c \in Clients :
             /\ client[c].at \notin {"idle", "upsert", "delete", "manual"}
             /\ client[c].at # "foreground" => loop[1].at = "exited"
             /\ client[c].at \in {"joining", "joined"} =>
                  \A t \in threads : JobId(t) \in client[c].waits
             /\ client[c].at = "joined" => threads = {}
        /\ \A t \in threads : JobId(t) \in tracked

(* The jobs of the dictionary have a name and a place of their own, and     *)
(* those flagged as running are as many as there are workers, or fewer.     *)
WorkersInv ==
    /\ \A o, p \in jobs : obj[o].place = obj[p].place \/ obj[o].name = obj[p].name => o = p
    /\ \A o \in jobs : obj[o].place <= created
    /\ Cardinality(Active) <= IF MaxWorkers < 0 THEN 0 ELSE MaxWorkers

IInv == TypeOK /\ FlagInv /\ SlotInv /\ ForegroundInv /\ WorkersInv

(* One caller, whose writes are not lost: the row of a name is there when   *)
(* the job is, but for the write of the call under way.                     *)
Pending(where, n) == \E c \in Clients : client[c].at = where /\ client[c].arg = n

RowsInv ==
    \A n \in Names :
        /\ Pending("upsert", n) => Named(n) # {}
        /\ Pending("delete", n) => Named(n) = {}
        /\ ~Pending("upsert", n) /\ ~Pending("delete", n) =>
             (row[n] # "absent" <=> Named(n) # {})

(* A stop request ends "schedule run", even if a run never ends.            *)
ShutdownCompletes == stopFlag ~> \E c \in Clients : client[c].at = "closed"

(* With a worker for every job, and if each run comes to an end, a job      *)
(* whose slot has come is run, unless the scheduler is being stopped.       *)
RunsEnd == \A o \in 1 .. MaxObjects : WF_vars(\E t \in threads : t.job = o /\ Running(t))
Overdue(o) == o \in jobs /\ obj[o].enabled /\ obj[o].next <= now

DueJobsRun ==
    RunsEnd => \A o \in 1 .. MaxObjects : Overdue(o) ~> (~Overdue(o) \/ stopFlag)

(* README.md:120: the schedules table holds the jobs' "last outcome".       *)
RowHoldsLastOutcome ==
    threads = {} => \A o \in jobs : row[obj[o].name] = obj[o].status
=============================================================================
