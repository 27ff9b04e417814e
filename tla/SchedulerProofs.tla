-------------------------- MODULE SchedulerProofs --------------------------
(***************************************************************************)
(* Theorems about Scheduler, for any jobs, crons, clients, loop threads,   *)
(* number of workers and bounds.                                           *)
(***************************************************************************)
EXTENDS Scheduler, FiniteSetTheorems, WellFoundedInduction, TLAPS

(* Division by the period of a cron.                                        *)
LEMMA SlotOrder == \A a, b \in Nat, c \in Nat \ {0} : a <= b => a \div c <= b \div c
BY SMT

LEMMA SlotType == \A a \in Nat, c \in Nat \ {0} : a \div c \in Nat
BY SMT

LEMMA SlotExact == \A k \in Nat, c \in Nat \ {0} : (k * c) \div c = k
BY SMT

(* The next slot is the one after that of the present time.                 *)
LEMMA NextFireSlot ==
    ASSUME NEW cron \in Crons, NEW t \in Nat
    PROVE  NextFire(cron, t) \in Nat /\ NextFire(cron, t) \div cron = (t \div cron) + 1
<1>1. cron \in Nat \ {0} /\ t \div cron \in Nat
  BY CronsAssumption, SlotType
<1>2. (t \div cron) + 1 \in Nat
  BY <1>1
<1>3. NextFire(cron, t) \in Nat
  BY <1>1, <1>2 DEF NextFire
<1> QED
  BY <1>1, <1>2, <1>3, SlotExact DEF NextFire

LEMMA FreshType ==
    ASSUME NEW r \in Request, NEW place \in Nat, NEW t \in Nat
    PROVE  /\ Fresh(r, place, t) \in JobRecord
           /\ Fresh(r, place, t).suite = r.suite /\ Fresh(r, place, t).name = r.name
           /\ Fresh(r, place, t).running = FALSE /\ Fresh(r, place, t).fired = 0
           /\ Fresh(r, place, t).since = t
           /\ Fresh(r, place, t).cron = r.cron
           /\ Fresh(r, place, t).next = NextFire(r.cron, t)
BY NextFireSlot DEF Fresh, JobRecord, Request
---------------------------------------------------------------------------
(* Types.  The records of a loop, of a client and of a job, updated field   *)
(* by field.                                                                *)

LEMMA LoopUpdate ==
    ASSUME NEW r \in LoopRecord,
           NEW at \in {"off", "top", "pick", "dispatch", "wait", "exited"},
           NEW seen \in 0 .. MaxTime, NEW batch \in SUBSET Objects
    PROVE  /\ [r EXCEPT !.at = at] \in LoopRecord
           /\ [r EXCEPT !.at = at, !.seen = seen] \in LoopRecord
           /\ [r EXCEPT !.at = at, !.batch = batch] \in LoopRecord
           /\ [r EXCEPT !.at = at, !.seen = seen, !.batch = batch] \in LoopRecord
BY DEF LoopRecord

LEMMA ClientUpdate ==
    ASSUME NEW r \in ClientRecord, NEW waits \in SUBSET ThreadIds,
           NEW arg \in Names \cup Suites \cup {"none"},
           NEW at \in {"idle", "upsert", "delete", "manual", "foreground",
                       "stopping", "joining", "joined", "gaveup", "closed"}
    PROVE  /\ [r EXCEPT !.at = at] \in ClientRecord
           /\ [r EXCEPT !.at = at, !.waits = waits] \in ClientRecord
           /\ At(at, arg) \in ClientRecord
BY DEF ClientRecord, At

LEMMA JobUpdate ==
    ASSUME NEW r \in JobRecord, NEW running \in BOOLEAN, NEW n \in Nat,
           NEW status \in Outcomes \cup {"never"}
    PROVE  /\ [r EXCEPT !.running = running] \in JobRecord
           /\ [r EXCEPT !.fired = r.fired + 1] \in JobRecord
           /\ [r EXCEPT !.running = running, !.runs = r.runs + 1,
                        !.status = status, !.next = n] \in JobRecord
<1>1. r.runs + 1 \in Nat /\ r.fired + 1 \in Nat
  BY DEF JobRecord
<1>2. \A k \in Nat : [r EXCEPT !.running = running, !.runs = k, !.status = status, !.next = n]
                      \in JobRecord
  BY DEF JobRecord
<1>3. \A k \in Nat : [r EXCEPT !.fired = k] \in JobRecord
  BY DEF JobRecord
<1>4. [r EXCEPT !.running = running] \in JobRecord
  BY DEF JobRecord
<1> QED
  BY <1>1, <1>2, <1>3, <1>4

LEMMA ThreadUpdate ==
    ASSUME NEW t \in ThreadRecord, NEW stage \in Stages,
           NEW status \in Outcomes \cup {"never"}
    PROVE  /\ [t EXCEPT !.stage = stage, !.status = status] \in ThreadRecord
           /\ [t EXCEPT !.stage = stage, !.status = status].job = t.job
           /\ [t EXCEPT !.stage = stage, !.status = status].run = t.run
           /\ [t EXCEPT !.stage = stage, !.status = status].stage = stage
BY DEF ThreadRecord, Stages

LEMMA InitType == Init => TypeOK
<1> SUFFICES ASSUME Init PROVE TypeOK
  OBVIOUS
<1>1. created \in 0 .. MaxObjects /\ now \in 0 .. MaxTime /\ jobs = Objects
  BY BoundsAssumption, RequestsAssumption DEF Init, Objects
<1>2. obj \in [Objects -> JobRecord]
  <2> SUFFICES ASSUME NEW o \in Objects PROVE Fresh(Preset[o], o, 0) \in JobRecord
    BY DEF Init
  <2>1. Preset[o] \in Request /\ o \in Nat
    BY RequestsAssumption DEF Init, Objects
  <2> QED
    BY <2>1, FreshType
<1>3. loop \in [Loops -> LoopRecord]
  BY BoundsAssumption DEF Init, LoopRecord
<1>4. client \in [Clients -> ClientRecord]
  BY DEF Init, At, ClientRecord
<1> QED
  BY <1>1, <1>2, <1>3, <1>4 DEF Init, TypeOK

LEMMA AddType ==
    ASSUME TypeOK, NEW c \in Clients, NEW r \in Requests, Add(c, r)
    PROVE  /\ TypeOK'
           /\ Objects' = Objects \cup {created + 1} /\ created + 1 \notin Objects
           /\ \E place \in Nat : obj'[created + 1] = Fresh(r, place, now)
           /\ \A o \in Objects : obj'[o] = obj[o]
<1> DEFINE old == Named(r.name)
           place == IF old = {} THEN created + 1 ELSE obj[CHOOSE o \in old : TRUE].place
<1> HIDE DEF place
<1>1. r \in Request /\ created \in Nat /\ now \in Nat
  BY RequestsAssumption, BoundsAssumption DEF TypeOK
<1>2. place \in Nat
  BY <1>1 DEF place, Named, TypeOK, JobRecord
<1>3. Fresh(r, place, now) \in JobRecord
  BY <1>1, <1>2, FreshType
<1>4. /\ obj' = [o \in 1 .. created + 1 |->
                   IF o = created + 1 THEN Fresh(r, place, now) ELSE obj[o]]
      /\ created' = created + 1 /\ created < MaxObjects
      /\ jobs' = (jobs \ old) \cup {created + 1}
      /\ client' = [client EXCEPT ![c] = At("upsert", r.name)]
  BY DEF Add, place
<1>5. /\ created' \in 0 .. MaxObjects /\ Objects' = Objects \cup {created + 1}
      /\ 1 .. created + 1 = Objects' /\ created + 1 \notin Objects
  BY <1>1, <1>4, BoundsAssumption DEF Objects
<1>6. obj' \in [Objects' -> JobRecord]
  BY <1>3, <1>4, <1>5 DEF TypeOK
<1>7. jobs \subseteq Objects
  BY DEF TypeOK
<1>8. jobs' \subseteq Objects'
  BY <1>4, <1>5, <1>7
<1>9. LoopRecord \subseteq LoopRecord' /\ ThreadRecord \subseteq ThreadRecord'
  BY <1>5 DEF LoopRecord, ThreadRecord
<1>10. ThreadIds \subseteq ThreadIds'
  BY <1>1, <1>4 DEF ThreadIds
<1>11. ClientRecord \subseteq ClientRecord'
  BY <1>10 DEF ClientRecord
<1>12. loop' \in [Loops -> LoopRecord'] /\ threads' \subseteq ThreadRecord' /\ tracked' \subseteq ThreadIds'
  BY <1>9, <1>10 DEF Add, TypeOK
<1>13. At("upsert", r.name) \in ClientRecord
  BY <1>1 DEF At, ClientRecord, Request
<1>14. client' \in [Clients -> ClientRecord']
  BY <1>4, <1>11, <1>13 DEF TypeOK
<1>15. now' \in 0 .. MaxTime /\ stopFlag' \in BOOLEAN /\ row' \in [Names -> Outcomes \cup {"absent", "never"}]
  BY DEF Add, TypeOK
<1>16. JobRecord' = JobRecord
  BY DEF JobRecord
<1>17. TypeOK'
  BY <1>5, <1>6, <1>8, <1>12, <1>14, <1>15, <1>16 DEF TypeOK
<1>18. \A o \in Objects : obj'[o] = obj[o]
  BY <1>4, <1>5
<1>19. obj'[created + 1] = Fresh(r, place, now)
  BY <1>4, <1>5
<1> QED
  BY <1>2, <1>5, <1>17, <1>18, <1>19

(* What a step that makes no new object has to show.                        *)
LEMMA SameObjects ==
    ASSUME TypeOK, created' = created,
           now' \in 0 .. MaxTime, jobs' \subseteq Objects, obj' \in [Objects -> JobRecord],
           loop' \in [Loops -> LoopRecord], stopFlag' \in BOOLEAN,
           threads' \subseteq ThreadRecord, tracked' \subseteq ThreadIds,
           client' \in [Clients -> ClientRecord],
           row' \in [Names -> Outcomes \cup {"absent", "never"}]
    PROVE  TypeOK'
<1>1. /\ Objects' = Objects /\ LoopRecord' = LoopRecord /\ ThreadRecord' = ThreadRecord
      /\ ThreadIds' = ThreadIds /\ ClientRecord' = ClientRecord /\ JobRecord' = JobRecord
  BY DEF Objects, LoopRecord, ThreadRecord, ThreadIds, ClientRecord, JobRecord
<1> QED
  BY <1>1 DEF TypeOK

LEMMA CallType ==
    ASSUME TypeOK, NEW c \in Clients, Calls(c) \/ Stopping(c)
    PROVE  TypeOK'
<1>0. /\ created \in 0 .. MaxObjects /\ now \in 0 .. MaxTime /\ jobs \subseteq Objects
      /\ obj \in [Objects -> JobRecord] /\ loop \in [Loops -> LoopRecord] /\ stopFlag \in BOOLEAN
      /\ threads \subseteq ThreadRecord /\ tracked \subseteq ThreadIds
      /\ client \in [Clients -> ClientRecord]
      /\ row \in [Names -> Outcomes \cup {"absent", "never"}]
  BY DEF TypeOK
<1>1. ASSUME NEW r \in Requests, Add(c, r) PROVE TypeOK'
  BY <1>1, AddType
<1>2. ASSUME NEW n \in Names, Remove(c, n) PROVE TypeOK'
  <2>1. At("delete", n) \in ClientRecord
    BY DEF At, ClientRecord
  <2> QED
    BY <1>0, <1>2, <2>1, SameObjects DEF Remove
<1>3. ASSUME NEW n \in Names, RunNow(c, n) PROVE TypeOK'
  <2>1. \A o \in Named(n) : At("manual", obj[o].suite) \in ClientRecord
    BY <1>0 DEF At, ClientRecord, Named, JobRecord
  <2> QED
    BY <1>0, <1>3, <2>1, SameObjects DEF RunNow
<1>4. At("idle", "none") \in ClientRecord /\ At("closed", "none") \in ClientRecord
  BY DEF At, ClientRecord
<1>6. CASE Upsert(c)
  <2>1. row' \in [Names -> Outcomes \cup {"absent", "never"}]
    BY <1>0, <1>6 DEF Upsert, Write
  <2> QED
    BY <1>0, <1>4, <1>6, <2>1, SameObjects DEF Upsert
<1>7. CASE Delete(c)
  <2>1. row' \in [Names -> Outcomes \cup {"absent", "never"}]
    BY <1>0, <1>7 DEF Delete, Write
  <2> QED
    BY <1>0, <1>4, <1>7, <2>1, SameObjects DEF Delete
<1>8. CASE RunNowEnds(c)
  BY <1>0, <1>4, <1>8, SameObjects DEF RunNowEnds
<1>9. ASSUME NEW l \in Loops, StartLoop(c, l) PROVE TypeOK'
  <2>1. [loop[l] EXCEPT !.at = "top"] \in LoopRecord
    BY <1>0 DEF LoopRecord
  <2>2. loop' = [loop EXCEPT ![l] = [loop[l] EXCEPT !.at = "top"]]
    BY <1>0, <1>9 DEF StartLoop
  <2>3. LoopId(l) \in ThreadIds
    BY <1>0, BoundsAssumption DEF LoopId, ThreadIds, Loops
  <2> QED
    BY <1>0, <1>9, <2>1, <2>2, <2>3, SameObjects DEF StartLoop
<1>10. \A at \in {"stopping", "joined", "gaveup"} : [client[c] EXCEPT !.at = at] \in ClientRecord
  BY <1>0 DEF ClientRecord
<1>11. CASE Stop(c)
  <2>1. client' = [client EXCEPT ![c] = [client[c] EXCEPT !.at = "stopping"]]
    BY <1>0, <1>11 DEF Stop
  <2> QED
    BY <1>0, <1>10, <1>11, <2>1, SameObjects DEF Stop
<1>12. CASE Snapshot(c)
  <2>1. [client[c] EXCEPT !.at = "joining", !.waits = tracked] \in ClientRecord
    BY <1>0 DEF ClientRecord
  <2>2. client' = [client EXCEPT ![c] = [client[c] EXCEPT !.at = "joining", !.waits = tracked]]
    BY <1>0, <1>12 DEF Snapshot
  <2> QED
    BY <1>0, <1>12, <2>1, <2>2, SameObjects DEF Snapshot
<1>13. CASE Joined(c)
  <2>1. client' = [client EXCEPT ![c] = [client[c] EXCEPT !.at = "joined"]]
    BY <1>0, <1>13 DEF Joined
  <2> QED
    BY <1>0, <1>10, <1>13, <2>1, SameObjects DEF Joined
<1>14. CASE GaveUp(c)
  <2>1. client' = [client EXCEPT ![c] = [client[c] EXCEPT !.at = "gaveup"]]
    BY <1>0, <1>14 DEF GaveUp
  <2> QED
    BY <1>0, <1>10, <1>14, <2>1, SameObjects DEF GaveUp
<1>15. CASE Stopped(c)
  BY <1>0, <1>4, <1>15, SameObjects DEF Stopped
<1> QED
  BY <1>1, <1>2, <1>3, <1>6, <1>7, <1>8, <1>9, <1>11, <1>12, <1>13, <1>14, <1>15
     DEF Calls, Stopping

LEMMA LoopType ==
    ASSUME TypeOK, NEW l \in Loops, Looping(l)
    PROVE  TypeOK'
<1>0. /\ created \in 0 .. MaxObjects /\ now \in 0 .. MaxTime /\ jobs \subseteq Objects
      /\ obj \in [Objects -> JobRecord] /\ loop \in [Loops -> LoopRecord] /\ stopFlag \in BOOLEAN
      /\ threads \subseteq ThreadRecord /\ tracked \subseteq ThreadIds
      /\ client \in [Clients -> ClientRecord] /\ 0 \in 0 .. MaxTime
      /\ row \in [Names -> Outcomes \cup {"absent", "never"}]
      /\ loop[l].batch \subseteq Objects
  BY BoundsAssumption DEF TypeOK, LoopRecord
<1>1. CASE LoopTop(l)
  <2>1. /\ [loop[l] EXCEPT !.at = "exited"] \in LoopRecord
        /\ [loop[l] EXCEPT !.at = "pick", !.seen = now] \in LoopRecord
    BY <1>0 DEF LoopRecord
  <2>2. loop' \in [Loops -> LoopRecord]
    BY <1>0, <1>1, <2>1 DEF LoopTop
  <2> QED
    BY <1>0, <1>1, <2>2, SameObjects DEF LoopTop
<1>2. CASE DueJobs(l)
  <2> DEFINE taken == Taken({o \in jobs : IsDue(o, loop[l].seen)})
             at == IF taken = {} THEN "wait" ELSE "dispatch"
  <2>1. taken \in SUBSET Objects
    BY <1>0 DEF Taken
  <2>2. /\ obj' = [o \in Objects |-> IF o \in taken THEN [obj[o] EXCEPT !.running = TRUE]
                                                    ELSE obj[o]]
        /\ loop' = [loop EXCEPT ![l] = [loop[l] EXCEPT !.at = at, !.seen = 0, !.batch = taken]]
    BY <1>0, <1>2 DEF DueJobs, Flag
  <2>3. at \in {"off", "top", "pick", "dispatch", "wait", "exited"}
    OBVIOUS
  <2> HIDE DEF taken, at
  <2>4. [loop[l] EXCEPT !.at = at, !.seen = 0, !.batch = taken] \in LoopRecord
    BY <1>0, <2>1, <2>3, LoopUpdate
  <2>5. ASSUME NEW o \in Objects PROVE [obj[o] EXCEPT !.running = TRUE] \in JobRecord
    <3>1. PICK j \in JobRecord : j = obj[o]
      BY <1>0
    <3>2. [j EXCEPT !.running = TRUE] \in JobRecord
      BY DEF JobRecord
    <3> QED
      BY <3>1, <3>2
  <2>6. obj' \in [Objects -> JobRecord] /\ loop' \in [Loops -> LoopRecord]
    BY <1>0, <2>2, <2>4, <2>5
  <2> QED
    BY <1>0, <1>2, <2>6, SameObjects DEF DueJobs
<1>3. ASSUME NEW o \in Objects, Dispatch(l, o) PROVE TypeOK'
  <2> DEFINE t == [job |-> o, run |-> obj[o].fired + 1, stage |-> "run", status |-> "never"]
             rest == loop[l].batch \ {o}
             at == IF rest = {} THEN "wait" ELSE "dispatch"
  <2>1. obj[o] \in JobRecord /\ obj[o].fired \in Nat /\ o \in 0 .. created
    BY <1>0 DEF JobRecord, Objects
  <2>2. t \in ThreadRecord /\ JobId(t) \in ThreadIds
    BY <2>1 DEF ThreadRecord, Stages, ThreadIds, JobId
  <2>3. /\ threads' = threads \cup {t} /\ tracked' = (tracked \cap Alive) \cup {JobId(t)}
        /\ loop' = [loop EXCEPT ![l] = [loop[l] EXCEPT !.at = at, !.batch = rest]]
        /\ obj' = [obj EXCEPT ![o] = [obj[o] EXCEPT !.fired = obj[o].fired + 1]]
        /\ UNCHANGED <<now, created, jobs, stopFlag, client, row>>
    BY <1>0, <1>3 DEF Dispatch
  <2>4. at \in {"off", "top", "pick", "dispatch", "wait", "exited"} /\ rest \in SUBSET Objects
    BY <1>0
  <2> HIDE DEF t, at, rest
  <2>5. [loop[l] EXCEPT !.at = at, !.batch = rest] \in LoopRecord
    BY <1>0, <2>4, LoopUpdate
  <2>6. [obj[o] EXCEPT !.fired = obj[o].fired + 1] \in JobRecord
    BY <2>1, JobUpdate DEF JobRecord
  <2> QED
    BY <1>0, <2>2, <2>3, <2>5, <2>6, SameObjects
<1>4. CASE Wake(l)
  <2>1. [loop[l] EXCEPT !.at = "top"] \in LoopRecord
    BY <1>0 DEF LoopRecord
  <2>2. loop' = [loop EXCEPT ![l] = [loop[l] EXCEPT !.at = "top"]]
    BY <1>0, <1>4 DEF Wake
  <2> QED
    BY <1>0, <1>4, <2>1, <2>2, SameObjects DEF Wake
<1> QED
  BY <1>1, <1>2, <1>3, <1>4 DEF Looping

LEMMA ThreadType ==
    ASSUME TypeOK, NEW t \in threads, Running(t)
    PROVE  TypeOK'
<1>0. /\ created \in 0 .. MaxObjects /\ now \in 0 .. MaxTime /\ now \in Nat /\ jobs \subseteq Objects
      /\ obj \in [Objects -> JobRecord] /\ loop \in [Loops -> LoopRecord] /\ stopFlag \in BOOLEAN
      /\ threads \subseteq ThreadRecord /\ tracked \subseteq ThreadIds
      /\ client \in [Clients -> ClientRecord] /\ t \in ThreadRecord
      /\ row \in [Names -> Outcomes \cup {"absent", "never"}]
      /\ t.job \in Objects /\ t.status \in Outcomes \cup {"never"}
  BY BoundsAssumption DEF TypeOK, ThreadRecord
<1>1. ASSUME NEW s \in Outcomes, Record(t, s) PROVE TypeOK'
  <2> DEFINE r == obj[t.job]
             n == NextFire(r.cron, now)
  <2>1. r \in JobRecord /\ n \in Nat
    BY <1>0, NextFireSlot DEF JobRecord
  <2>2. /\ obj' = [obj EXCEPT ![t.job] = [r EXCEPT !.running = FALSE, !.runs = r.runs + 1,
                                                   !.status = s, !.next = n]]
        /\ threads' = (threads \ {t}) \cup {[t EXCEPT !.stage = "mark", !.status = s]}
        /\ UNCHANGED <<now, created, jobs, loop, stopFlag, tracked, client, row>>
    <3>1. RecordAs(t, s, FALSE)
      BY <1>1 DEF Record
    <3>2. obj' = [obj EXCEPT ![t.job] = [r EXCEPT !.running = FALSE, !.runs = r.runs + 1,
                                                  !.status = s, !.next = n]]
      BY <3>1 DEF RecordAs
    <3> QED
      BY <3>1, <3>2 DEF RecordAs, Becomes
  <2>3. s \in Outcomes \cup {"never"} /\ "mark" \in Stages
    BY DEF Stages
  <2> HIDE DEF r, n
  <2>4. [r EXCEPT !.running = FALSE, !.runs = r.runs + 1, !.status = s, !.next = n] \in JobRecord
    BY <2>1, <2>3, JobUpdate
  <2>5. [t EXCEPT !.stage = "mark", !.status = s] \in ThreadRecord
    BY <1>0, <2>3, ThreadUpdate
  <2> QED
    BY <1>0, <2>2, <2>4, <2>5, SameObjects
<1>2. CASE MarkRun(t)
  <2>1. [t EXCEPT !.stage = "notify", !.status = t.status] \in ThreadRecord
    BY <1>0, ThreadUpdate DEF Stages
  <2>2. threads' \subseteq ThreadRecord
    BY <1>0, <1>2, <2>1 DEF MarkRun, MarkRow, Becomes
  <2>3. row' \in [Names -> Outcomes \cup {"absent", "never"}]
    BY <1>0, <1>2 DEF MarkRun, MarkRow, Write
  <2> QED
    BY <1>0, <1>2, <2>2, <2>3, SameObjects DEF MarkRun, MarkRow
<1>3. CASE Notify(t)
  BY <1>0, <1>3, SameObjects DEF Notify
<1> QED
  BY <1>1, <1>2, <1>3 DEF Running

LEMMA NextType == TypeOK /\ [Next]_vars => TypeOK'
<1> SUFFICES ASSUME TypeOK, [Next]_vars PROVE TypeOK'
  OBVIOUS
<1>0. /\ now \in 0 .. MaxTime /\ jobs \subseteq Objects
      /\ obj \in [Objects -> JobRecord] /\ loop \in [Loops -> LoopRecord] /\ stopFlag \in BOOLEAN
      /\ threads \subseteq ThreadRecord /\ tracked \subseteq ThreadIds
      /\ client \in [Clients -> ClientRecord]
      /\ row \in [Names -> Outcomes \cup {"absent", "never"}]
  BY DEF TypeOK
<1>1. CASE Signal
  BY <1>0, <1>1, SameObjects DEF Signal
<1>2. CASE Tick
  BY <1>0, <1>2, BoundsAssumption, SameObjects DEF Tick
<1>3. CASE UNCHANGED vars
  BY <1>0, <1>3, SameObjects DEF vars
<1> QED
  BY <1>1, <1>2, <1>3, CallType, LoopType, ThreadType DEF Next, Closed

(* TypeOK: every variable keeps its type in every run.                      *)
THEOREM TypeCorrect == Spec => []TypeOK
<1>1. QED
  BY InitType, NextType, PTL DEF Spec
---------------------------------------------------------------------------
(* The flags: FlagInv *)

(* The steps that touch neither a job, nor a run, nor a batch.              *)
LEMMA FlagSame ==
    ASSUME TypeOK, FlagInv, UNCHANGED <<created, obj>>, Executing' = Executing,
           \A t \in threads' : \E u \in threads : t.job = u.job /\ t.run = u.run,
           \A l \in Loops : /\ loop'[l].batch = loop[l].batch
                            /\ loop[l].batch # {} => loop'[l].at = loop[l].at
    PROVE  FlagInv'
<1>1. Objects' = Objects /\ \A o \in Objects : RunsOf(o)' = RunsOf(o) /\ InBatch(o)' = InBatch(o)
  BY DEF Objects, RunsOf, InBatch
<1>2. \A t \in threads' : t.run <= obj'[t.job].fired
  BY DEF FlagInv
<1> QED
  BY <1>1, <1>2 DEF FlagInv, NoOverlap

LEMMA FlagInit == Init => FlagInv
<1> SUFFICES ASSUME Init PROVE FlagInv
  OBVIOUS
<1>1. threads = {} /\ (\A l \in Loops : loop[l].batch = {}) /\ \A o \in Objects : obj[o].running = FALSE
  BY DEF Init, Objects, Fresh
<1>2. \A o \in Objects : RunsOf(o) = {} /\ InBatch(o) = {}
  BY <1>1 DEF RunsOf, InBatch, Executing
<1> QED
  BY <1>1, <1>2 DEF FlagInv, NoOverlap

LEMMA FlagAdd ==
    ASSUME TypeOK, FlagInv, NEW c \in Clients, NEW r \in Requests, Add(c, r)
    PROVE  FlagInv'
<1> DEFINE new == created + 1
<1>1. /\ Objects' = Objects \cup {new} /\ new \notin Objects
      /\ \A o \in Objects : obj'[o] = obj[o]
      /\ obj'[new].running = FALSE
  <2>1. r \in Request /\ now \in Nat
    BY RequestsAssumption, BoundsAssumption DEF TypeOK
  <2>2. PICK place \in Nat : obj'[new] = Fresh(r, place, now)
    BY AddType
  <2>3. Fresh(r, place, now).running = FALSE
    BY <2>1, FreshType
  <2>4. /\ Objects' = Objects \cup {new} /\ new \notin Objects
        /\ \A o \in Objects : obj'[o] = obj[o]
    BY AddType
  <2> QED
    BY <2>2, <2>3, <2>4
<1>2. threads' = threads /\ loop' = loop
  BY DEF Add
<1>3. /\ \A t \in threads : t.job \in Objects
      /\ \A l \in Loops : loop[l].batch \subseteq Objects
  BY DEF TypeOK, ThreadRecord, LoopRecord
<1>4. \A o \in Objects \cup {new} : RunsOf(o)' = RunsOf(o) /\ InBatch(o)' = InBatch(o)
  BY <1>2 DEF RunsOf, InBatch, Executing
<1>5. RunsOf(new) = {} /\ InBatch(new) = {}
  BY <1>1, <1>3 DEF RunsOf, InBatch, Executing
<1>6. \A t \in threads' : t.run <= obj'[t.job].fired
  BY <1>1, <1>2, <1>3 DEF FlagInv
<1>7. \A l \in Loops : loop'[l].batch # {} => loop'[l].at = "dispatch"
  BY <1>2 DEF FlagInv
<1>8. \A o \in Objects' : obj'[o].running <=> RunsOf(o)' # {} \/ InBatch(o)' # {}
  BY <1>1, <1>4, <1>5 DEF FlagInv
<1>9. NoOverlap'
  BY <1>1, <1>4, <1>5 DEF FlagInv, NoOverlap
<1> QED
  BY <1>6, <1>7, <1>8, <1>9 DEF FlagInv

LEMMA FlagCall ==
    ASSUME TypeOK, FlagInv, NEW c \in Clients, Calls(c) \/ Stopping(c)
    PROVE  FlagInv'
<1>1. ASSUME NEW r \in Requests, Add(c, r) PROVE FlagInv'
  BY <1>1, FlagAdd
<1>2. ASSUME UNCHANGED <<created, obj, loop, threads>> PROVE FlagInv'
  <2>1. Executing' = Executing
    BY <1>2 DEF Executing
  <2> QED
    BY <1>2, <2>1, FlagSame
<1>3. ASSUME NEW l \in Loops, StartLoop(c, l) PROVE FlagInv'
  <2>1. UNCHANGED <<created, obj, threads>> /\ Executing' = Executing
    BY <1>3 DEF StartLoop, Executing
  <2>2. loop[l].batch = {}
    BY <1>3 DEF FlagInv, StartLoop
  <2>3. \A k \in Loops : loop'[k].batch = loop[k].batch /\ (k # l => loop'[k] = loop[k])
    BY <1>3 DEF StartLoop, TypeOK, LoopRecord
  <2> QED
    BY <2>1, <2>2, <2>3, FlagSame
<1> QED
  BY <1>1, <1>2, <1>3
     DEF Calls, Stopping, Remove, RunNow, Upsert, Delete, RunNowEnds,
         Stop, Snapshot, Joined, GaveUp, Stopped

LEMMA FlagLoop ==
    ASSUME TypeOK, FlagInv, NEW l \in Loops, Looping(l)
    PROVE  FlagInv'
<1>0. /\ loop \in [Loops -> LoopRecord] /\ obj \in [Objects -> JobRecord]
      /\ threads \subseteq ThreadRecord /\ jobs \subseteq Objects
  BY DEF TypeOK
<1>1. ASSUME UNCHANGED <<created, obj, threads>>, loop[l].at # "dispatch",
             \A k \in Loops : loop'[k].batch = loop[k].batch /\ (k # l => loop'[k] = loop[k])
      PROVE  FlagInv'
  <2>1. Executing' = Executing /\ loop[l].batch = {}
    BY <1>1 DEF Executing, FlagInv
  <2> QED
    BY <1>1, <2>1, FlagSame
<1>2. CASE LoopTop(l)
  BY <1>0, <1>1, <1>2 DEF LoopTop, LoopRecord
<1>3. CASE Wake(l)
  BY <1>0, <1>1, <1>3 DEF Wake, LoopRecord
<1>4. CASE DueJobs(l)
  <2> DEFINE taken == Taken({o \in jobs : IsDue(o, loop[l].seen)})
  <2>1. /\ obj' = [o \in Objects |-> IF o \in taken THEN [obj[o] EXCEPT !.running = TRUE]
                                                    ELSE obj[o]]
        /\ loop' = [loop EXCEPT ![l] = [loop[l] EXCEPT
              !.at = IF taken = {} THEN "wait" ELSE "dispatch", !.seen = 0, !.batch = taken]]
        /\ UNCHANGED <<created, threads>> /\ loop[l].at = "pick"
    BY <1>0, <1>4 DEF DueJobs, Flag
  <2>2. taken \subseteq Objects /\ \A o \in taken : ~obj[o].running
    BY <1>0 DEF Taken, IsDue
  <2> HIDE DEF taken
  <2>3. loop[l].batch = {}
    BY <2>1 DEF FlagInv
  <2>4. /\ loop'[l].batch = taken /\ (taken # {} => loop'[l].at = "dispatch")
        /\ \A k \in Loops \ {l} : loop'[k] = loop[k]
    BY <1>0, <2>1 DEF LoopRecord
  <2>5. \A o \in Objects : /\ obj'[o].fired = obj[o].fired
                           /\ obj'[o].running = (obj[o].running \/ o \in taken)
    BY <1>0, <2>1 DEF JobRecord
  <2>6. Objects' = Objects /\ \A o \in Objects : RunsOf(o)' = RunsOf(o)
    BY <2>1 DEF Objects, RunsOf, Executing
  <2>7. \A o \in taken : RunsOf(o) = {} /\ InBatch(o) = {} /\ InBatch(o)' = {l}
    <3>1. \A o \in taken : RunsOf(o) = {} /\ InBatch(o) = {}
      BY <2>2 DEF FlagInv
    <3> QED
      BY <3>1, <2>4 DEF InBatch
  <2>8. \A o \in Objects \ taken : InBatch(o)' = InBatch(o)
    BY <2>3, <2>4 DEF InBatch
  <2>9. \A o \in Objects : obj'[o].running <=> RunsOf(o)' # {} \/ InBatch(o)' # {}
    BY <2>2, <2>5, <2>6, <2>7, <2>8 DEF FlagInv
  <2>10. NoOverlap'
    BY <2>6, <2>7, <2>8 DEF FlagInv, NoOverlap
  <2>11. \A t \in threads' : t.run <= obj'[t.job].fired
    BY <1>0, <2>1, <2>5 DEF FlagInv, ThreadRecord
  <2>12. \A k \in Loops : loop'[k].batch # {} => loop'[k].at = "dispatch"
    BY <2>4 DEF FlagInv
  <2> QED
    BY <2>6, <2>9, <2>10, <2>11, <2>12 DEF FlagInv
<1>5. ASSUME NEW o \in Objects, Dispatch(l, o) PROVE FlagInv'
  <2> DEFINE t == [job |-> o, run |-> obj[o].fired + 1, stage |-> "run", status |-> "never"]
             rest == loop[l].batch \ {o}
  <2>1. /\ threads' = threads \cup {t}
        /\ loop' = [loop EXCEPT ![l] = [loop[l] EXCEPT
              !.at = IF rest = {} THEN "wait" ELSE "dispatch", !.batch = rest]]
        /\ obj' = [obj EXCEPT ![o] = [obj[o] EXCEPT !.fired = obj[o].fired + 1]]
        /\ created' = created /\ o \in loop[l].batch
    BY <1>0, <1>5 DEF Dispatch
  <2>2. t.job = o /\ t.stage = "run" /\ t.run = obj[o].fired + 1 /\ obj[o].fired \in Nat
    BY <1>0 DEF JobRecord
  <2> HIDE DEF t
  <2>3. /\ loop'[l].batch = rest /\ (rest # {} => loop'[l].at = "dispatch")
        /\ \A k \in Loops \ {l} : loop'[k] = loop[k]
    BY <1>0, <2>1 DEF LoopRecord
  <2>4. \A p \in Objects : /\ obj'[p].running = obj[p].running
                           /\ obj'[p].fired = IF p = o THEN obj[o].fired + 1 ELSE obj[p].fired
    BY <1>0, <2>1 DEF JobRecord
  <2>5. Objects' = Objects /\ Executing' = Executing \cup {t}
    BY <2>1, <2>2 DEF Objects, Executing
  <2>6. RunsOf(o) = {} /\ InBatch(o) = {l}
    BY <2>1 DEF FlagInv, NoOverlap, InBatch
  <2>7. RunsOf(o)' = {t} /\ InBatch(o)' = {}
    BY <2>2, <2>3, <2>5, <2>6 DEF RunsOf, InBatch
  <2>8. \A p \in Objects \ {o} : RunsOf(p)' = RunsOf(p) /\ InBatch(p)' = InBatch(p)
    BY <2>2, <2>3, <2>5 DEF RunsOf, InBatch
  <2>9. \A p \in Objects : obj'[p].running <=> RunsOf(p)' # {} \/ InBatch(p)' # {}
    BY <2>4, <2>6, <2>7, <2>8 DEF FlagInv
  <2>10. NoOverlap'
    BY <2>5, <2>7, <2>8 DEF FlagInv, NoOverlap
  <2>11. \A u \in threads' : u.run <= obj'[u.job].fired
    <3>1. ASSUME NEW u \in threads PROVE u.run <= obj'[u.job].fired
      <4>1. u.job \in Objects /\ u.run \in Nat /\ u.run <= obj[u.job].fired
        BY <1>0 DEF FlagInv, ThreadRecord
      <4> QED
        BY <1>0, <2>2, <2>4, <4>1 DEF JobRecord
    <3> QED
      BY <2>1, <2>2, <2>4, <3>1
  <2>12. \A k \in Loops : loop'[k].batch # {} => loop'[k].at = "dispatch"
    BY <2>3 DEF FlagInv
  <2> QED
    BY <2>5, <2>9, <2>10, <2>11, <2>12 DEF FlagInv
<1> QED
  BY <1>2, <1>3, <1>4, <1>5 DEF Looping

LEMMA FlagThread ==
    ASSUME TypeOK, FlagInv, NEW t \in threads, Running(t)
    PROVE  FlagInv'
<1>0. /\ obj \in [Objects -> JobRecord] /\ threads \subseteq ThreadRecord
      /\ t \in ThreadRecord /\ t.job \in Objects
  BY DEF TypeOK, ThreadRecord
<1>1. ASSUME NEW s \in Outcomes, Record(t, s) PROVE FlagInv'
  <2> DEFINE r == obj[t.job]
             q == [r EXCEPT !.running = FALSE, !.runs = r.runs + 1,
                            !.status = s, !.next = NextFire(r.cron, now)]
             m == [t EXCEPT !.stage = "mark", !.status = s]
  <2>1. RecordAs(t, s, FALSE)
    BY <1>1 DEF Record
  <2>2. /\ obj' = [obj EXCEPT ![t.job] = q]
        /\ threads' = (threads \ {t}) \cup {m}
        /\ UNCHANGED <<created, loop>> /\ t.stage = "run"
    BY <2>1 DEF RecordAs, Becomes
  <2>3. m.job = t.job /\ m.run = t.run /\ m.stage = "mark"
    BY <1>0 DEF ThreadRecord
  <2>4. q.running = FALSE /\ q.fired = r.fired
    BY <1>0 DEF JobRecord
  <2> HIDE DEF q, m
  <2>5. \A p \in Objects : /\ obj'[p].fired = obj[p].fired
                           /\ obj'[p].running = IF p = t.job THEN FALSE ELSE obj[p].running
    BY <1>0, <2>2, <2>4
  <2>6. Objects' = Objects /\ Executing' = Executing \ {t} /\ t \in RunsOf(t.job)
    BY <2>2, <2>3 DEF Objects, Executing, RunsOf
  <2>7. RunsOf(t.job)' = {} /\ InBatch(t.job) = {}
    BY <1>0, <2>6 DEF FlagInv, NoOverlap, RunsOf
  <2>8. \A p \in Objects : InBatch(p)' = InBatch(p) /\ (p # t.job => RunsOf(p)' = RunsOf(p))
    BY <2>2, <2>6 DEF InBatch, RunsOf
  <2>9. \A p \in Objects : obj'[p].running <=> RunsOf(p)' # {} \/ InBatch(p)' # {}
    <3>1. \A p \in Objects \ {t.job} : obj[p].running <=> RunsOf(p)' # {} \/ InBatch(p)' # {}
      BY <2>8 DEF FlagInv
    <3>2. obj'[t.job].running = FALSE /\ RunsOf(t.job)' = {} /\ InBatch(t.job)' = {}
      BY <1>0, <2>5, <2>7, <2>8
    <3>3. \A p \in Objects \ {t.job} : obj'[p].running = obj[p].running
      BY <2>5
    <3> QED
      BY <3>1, <3>2, <3>3
  <2>10. NoOverlap'
    BY <2>6, <2>7, <2>8 DEF FlagInv, NoOverlap
  <2>11. \A u \in threads' : u.run <= obj'[u.job].fired
    <3>1. \A u \in threads : u.job \in Objects /\ u.run <= obj[u.job].fired
      BY <1>0 DEF FlagInv, ThreadRecord
    <3>2. m.job \in Objects /\ m.run <= obj[m.job].fired
      BY <1>0, <2>3, <3>1
    <3>3. \A u \in threads' : u \in threads \/ u = m
      BY <2>2
    <3> QED
      BY <2>5, <3>1, <3>2, <3>3
  <2>12. \A k \in Loops : loop'[k].batch # {} => loop'[k].at = "dispatch"
    BY <2>2 DEF FlagInv
  <2> QED
    BY <2>6, <2>9, <2>10, <2>11, <2>12 DEF FlagInv
<1>2. ASSUME t.stage # "run", UNCHANGED <<created, obj, loop>>,
             threads' = threads \ {t} \/ Becomes(t, "notify", t.status)
      PROVE  FlagInv'
  <2> DEFINE m == [t EXCEPT !.stage = "notify", !.status = t.status]
  <2>1. m.job = t.job /\ m.run = t.run /\ m.stage = "notify"
    BY <1>0 DEF ThreadRecord
  <2>2. threads' = threads \ {t} \/ threads' = (threads \ {t}) \cup {m}
    BY <1>2 DEF Becomes
  <2> HIDE DEF m
  <2>3. Executing' = Executing
    BY <1>2, <2>1, <2>2 DEF Executing
  <2>4. \A u \in threads' : \E v \in threads : u.job = v.job /\ u.run = v.run
    BY <2>1, <2>2
  <2> QED
    BY <1>2, <2>3, <2>4, FlagSame
<1>3. CASE MarkRun(t)
  BY <1>2, <1>3 DEF MarkRun, MarkRow
<1>4. CASE Notify(t)
  BY <1>2, <1>4 DEF Notify
<1> QED
  BY <1>1, <1>3, <1>4 DEF Running

LEMMA FlagNext == TypeOK /\ FlagInv /\ [Next]_vars => FlagInv'
<1> SUFFICES ASSUME TypeOK, FlagInv, [Next]_vars PROVE FlagInv'
  OBVIOUS
<1>1. ASSUME UNCHANGED <<created, obj, loop, threads>> PROVE FlagInv'
  <2>1. Executing' = Executing
    BY <1>1 DEF Executing
  <2> QED
    BY <1>1, <2>1, FlagSame
<1> QED
  BY <1>1, FlagCall, FlagLoop, FlagThread DEF Next, Signal, Tick, Closed, vars

(* NoOverlap (Scheduler._due_jobs, _execute): whatever calls are made while *)
(* jobs run, and however many loops there are, a job has at most one run at *)
(* a time.                                                                  *)
THEOREM FlagsHonest == Spec => []NoOverlap
<1>1. FlagInv => NoOverlap
  BY DEF FlagInv
<1>2. QED
  BY <1>1, InitType, NextType, FlagInit, FlagNext, PTL DEF Spec

(* NoStuckJob: the flag of a job never stays up without a thread that will  *)
(* lower it, so that no job is left out for good.                           *)
THEOREM FlagsComeDown == Spec => []NoStuckJob
<1>1. FlagInv => NoStuckJob
  BY DEF FlagInv, NoStuckJob
<1>2. QED
  BY <1>1, InitType, NextType, FlagInit, FlagNext, PTL DEF Spec
---------------------------------------------------------------------------
(* The slots: SlotInv *)

LEMMA JobTypes ==
    ASSUME TypeOK, NEW o \in Objects
    PROVE  /\ obj[o].cron \in Crons /\ obj[o].cron \in Nat \ {0}
           /\ obj[o].since \in Nat /\ obj[o].fired \in Nat /\ obj[o].next \in Nat
           /\ obj[o].since \div obj[o].cron \in Nat
           /\ Spent(o) \in Nat /\ now \in Nat
<1>1. /\ obj[o].cron \in Crons /\ obj[o].cron \in Nat \ {0}
      /\ obj[o].since \in Nat /\ obj[o].fired \in Nat /\ obj[o].next \in Nat
  BY CronsAssumption DEF TypeOK, JobRecord
<1>4. now \in Nat
  BY BoundsAssumption DEF TypeOK
<1>2. obj[o].since \div obj[o].cron \in Nat
  BY <1>1, SlotType
<1>3. Spent(o) \in Nat
  BY <1>1, <1>2 DEF Spent
<1> QED
  BY <1>1, <1>2, <1>3, <1>4

(* A job that a step leaves alone, while time passes.                       *)
LEMMA SlotKept ==
    ASSUME TypeOK, NEW o \in Objects, SlotsOf(o), obj'[o] = obj[o],
           InBatch(o)' = InBatch(o), now' \in Nat, now <= now'
    PROVE  SlotsOf(o)'
<1>1. Spent(o)' = Spent(o)
  BY DEF Spent
<1>2. /\ now \div obj[o].cron <= now' \div obj[o].cron
      /\ now \div obj[o].cron \in Nat /\ now' \div obj[o].cron \in Nat
  BY JobTypes, SlotOrder, SlotType
<1>3. Spent(o) <= now' \div obj[o].cron
  BY <1>2, JobTypes DEF SlotsOf
<1> QED
  BY <1>1, <1>3 DEF SlotsOf

LEMMA SlotSame ==
    ASSUME TypeOK, SlotInv, UNCHANGED <<created, obj>>, now' \in Nat, now <= now',
           \A l \in Loops : loop'[l].seen <= now' /\ loop'[l].batch = loop[l].batch
    PROVE  SlotInv'
<1>1. Objects' = Objects /\ \A o \in Objects : InBatch(o)' = InBatch(o)
  BY DEF Objects, InBatch
<1>2. \A o \in Objects : SlotsOf(o)'
  BY <1>1, SlotKept DEF SlotInv
<1> QED
  BY <1>1, <1>2 DEF SlotInv

LEMMA SlotInit == Init => SlotInv
<1> SUFFICES ASSUME Init PROVE SlotInv
  OBVIOUS
<1>1. ASSUME NEW o \in Objects
      PROVE  /\ obj[o].since = 0 /\ obj[o].fired = 0 /\ InBatch(o) = {}
             /\ obj[o].cron \in Crons /\ obj[o].next = NextFire(obj[o].cron, 0)
  <2>1. Preset[o] \in Request /\ o \in Nat /\ obj[o] = Fresh(Preset[o], o, 0)
    BY RequestsAssumption DEF Init, Objects
  <2>2. InBatch(o) = {}
    BY DEF Init, InBatch
  <2> QED
    BY <2>1, <2>2 DEF Fresh, Request
<1>2. now = 0 /\ \A l \in Loops : loop[l].seen = 0
  BY DEF Init
<1>3. ASSUME NEW o \in Objects
      PROVE  0 \div obj[o].cron \in Nat /\ obj[o].next \div obj[o].cron = (0 \div obj[o].cron) + 1
  BY <1>1, NextFireSlot, SlotType, CronsAssumption
<1>4. ASSUME NEW o \in Objects PROVE SlotsOf(o)
  <2>1. Spent(o) = 0 \div obj[o].cron
    BY <1>1, <1>3 DEF Spent
  <2> QED
    BY <1>2, <1>3, <2>1 DEF SlotsOf
<1> QED
  BY <1>2, <1>4 DEF SlotInv

LEMMA SlotAdd ==
    ASSUME TypeOK, SlotInv, NEW c \in Clients, NEW r \in Requests, Add(c, r)
    PROVE  SlotInv'
<1>0. PICK new : new = created + 1
  OBVIOUS
<1>1. r \in Request /\ now \in Nat /\ r.cron \in Crons
  BY RequestsAssumption, BoundsAssumption DEF TypeOK, Request
<1>2. /\ Objects' = Objects \cup {new} /\ new \notin Objects
      /\ \A o \in Objects : obj'[o] = obj[o]
  BY <1>0, AddType
<1>3. PICK place \in Nat : obj'[new] = Fresh(r, place, now)
  BY <1>0, AddType
<1>4. /\ obj'[new].fired = 0 /\ obj'[new].since = now /\ obj'[new].cron = r.cron
      /\ obj'[new].next = NextFire(r.cron, now)
  BY <1>3 DEF Fresh
<1>5. loop' = loop /\ now' = now
  BY DEF Add
<1>6. \A l \in Loops : loop[l].batch \subseteq Objects
  BY DEF TypeOK, LoopRecord
<1>7. (\A o \in Objects : InBatch(o)' = InBatch(o)) /\ InBatch(new)' = {}
  BY <1>2, <1>5, <1>6 DEF InBatch
<1>8. now \div r.cron \in Nat /\ NextFire(r.cron, now) \div r.cron = (now \div r.cron) + 1
  BY <1>1, NextFireSlot, SlotType, CronsAssumption
<1>9. SlotsOf(new)'
  <2>1. Spent(new)' = now \div r.cron
    BY <1>4, <1>7, <1>8 DEF Spent
  <2> QED
    BY <1>4, <1>5, <1>8, <2>1 DEF SlotsOf
<1>10. ASSUME NEW o \in Objects PROVE SlotsOf(o)'
  BY <1>1, <1>2, <1>5, <1>7, SlotKept DEF SlotInv
<1>11. \A l \in Loops : loop'[l].seen <= now'
  BY <1>5 DEF SlotInv
<1> QED
  BY <1>2, <1>9, <1>10, <1>11 DEF SlotInv

LEMMA SlotCall ==
    ASSUME TypeOK, SlotInv, NEW c \in Clients, Calls(c) \/ Stopping(c)
    PROVE  SlotInv'
<1>0. now \in Nat /\ loop \in [Loops -> LoopRecord]
  BY BoundsAssumption DEF TypeOK
<1>1. ASSUME NEW r \in Requests, Add(c, r) PROVE SlotInv'
  BY <1>1, SlotAdd
<1>2. ASSUME UNCHANGED <<now, created, obj, loop>> PROVE SlotInv'
  BY <1>0, <1>2, SlotSame DEF SlotInv
<1>3. ASSUME NEW l \in Loops, StartLoop(c, l) PROVE SlotInv'
  <2>1. \A k \in Loops : loop'[k].batch = loop[k].batch /\ loop'[k].seen = loop[k].seen
    BY <1>0, <1>3 DEF StartLoop, LoopRecord
  <2> QED
    BY <1>0, <1>3, <2>1, SlotSame DEF SlotInv, StartLoop
<1> QED
  BY <1>1, <1>2, <1>3
     DEF Calls, Stopping, Remove, RunNow, Upsert, Delete, RunNowEnds,
         Stop, Snapshot, Joined, GaveUp, Stopped

LEMMA SlotLoop ==
    ASSUME TypeOK, FlagInv, SlotInv, NEW l \in Loops, Looping(l)
    PROVE  SlotInv'
<1>0. /\ now \in Nat /\ loop \in [Loops -> LoopRecord] /\ jobs \subseteq Objects
      /\ obj \in [Objects -> JobRecord] /\ (\A k \in Loops : loop[k].seen <= now)
      /\ loop[l].seen \in Nat /\ loop[l].batch \subseteq Objects
  BY BoundsAssumption DEF TypeOK, SlotInv, LoopRecord
<1>1. CASE LoopTop(l) \/ Wake(l)
  <2>1. PICK q \in {[loop[l] EXCEPT !.at = "exited"], [loop[l] EXCEPT !.at = "top"],
                    [loop[l] EXCEPT !.at = "pick", !.seen = now]} :
              loop' = [loop EXCEPT ![l] = q]
    BY <1>0, <1>1 DEF LoopTop, Wake
  <2>2. q.batch = loop[l].batch /\ (q.seen = loop[l].seen \/ q.seen = now)
    BY <1>0 DEF LoopRecord
  <2>3. \A k \in Loops : loop'[k].batch = loop[k].batch
                          /\ (loop'[k].seen = loop[k].seen \/ loop'[k].seen = now)
    BY <1>0, <2>1, <2>2
  <2>4. UNCHANGED <<now, created, obj>>
    BY <1>1 DEF LoopTop, Wake
  <2> QED
    BY <1>0, <2>3, <2>4, SlotSame
<1>2. CASE DueJobs(l)
  <2> DEFINE taken == Taken({o \in jobs : IsDue(o, loop[l].seen)})
  <2>1. /\ obj' = [o \in Objects |-> IF o \in taken THEN [obj[o] EXCEPT !.running = TRUE]
                                                    ELSE obj[o]]
        /\ loop' = [loop EXCEPT ![l] = [loop[l] EXCEPT
              !.at = IF taken = {} THEN "wait" ELSE "dispatch", !.seen = 0, !.batch = taken]]
        /\ UNCHANGED <<now, created>> /\ loop[l].at = "pick"
    BY <1>0, <1>2 DEF DueJobs, Flag
  <2>2. taken \subseteq Objects /\ \A o \in taken : ~obj[o].running /\ loop[l].seen >= obj[o].next
    BY <1>0 DEF Taken, IsDue
  <2> HIDE DEF taken
  <2>3. loop[l].batch = {}
    BY <2>1 DEF FlagInv
  <2>4. /\ loop'[l].batch = taken /\ loop'[l].seen = 0
        /\ \A k \in Loops \ {l} : loop'[k] = loop[k]
    BY <1>0, <2>1 DEF LoopRecord
  <2>5. ASSUME NEW o \in Objects \ taken PROVE SlotsOf(o)'
    <3>1. obj'[o] = obj[o] /\ InBatch(o)' = InBatch(o)
      BY <2>1, <2>3, <2>4 DEF InBatch
    <3> QED
      BY <1>0, <2>1, <3>1, SlotKept DEF SlotInv
  <2>6. ASSUME NEW o \in taken PROVE SlotsOf(o)'
    <3>1. obj[o] \in JobRecord /\ obj'[o] = [obj[o] EXCEPT !.running = TRUE]
      BY <1>0, <2>1, <2>2
    <3>2. /\ obj'[o].since = obj[o].since /\ obj'[o].cron = obj[o].cron
          /\ obj'[o].fired = obj[o].fired /\ obj'[o].running
      BY <3>1 DEF JobRecord
    <3>3. InBatch(o) = {} /\ l \in InBatch(o)'
      BY <2>2, <2>4 DEF FlagInv, InBatch
    <3>4. Spent(o)' = Spent(o) + 1
      BY <2>2, <3>2, <3>3, JobTypes DEF Spent
    <3>5. Spent(o) < obj[o].next \div obj[o].cron
      BY <2>2 DEF SlotInv, SlotsOf
    <3>6. obj[o].next <= now
      BY <1>0, <2>2, JobTypes
    <3>7. /\ obj[o].next \div obj[o].cron <= now \div obj[o].cron
          /\ obj[o].next \div obj[o].cron \in Nat /\ now \div obj[o].cron \in Nat
      BY <2>2, <3>6, JobTypes, SlotOrder, SlotType
    <3>8. Spent(o) \in Nat
      BY <2>2, JobTypes
    <3>9. Spent(o) + 1 <= now \div obj[o].cron
      BY <3>5, <3>7, <3>8
    <3> QED
      BY <2>1, <3>2, <3>4, <3>9 DEF SlotsOf
  <2>7. \A k \in Loops : loop'[k].seen <= now'
    BY <1>0, <2>1, <2>4
  <2>8. Objects' = Objects
    BY <2>1 DEF Objects
  <2> QED
    BY <2>5, <2>6, <2>7, <2>8 DEF SlotInv
<1>3. ASSUME NEW o \in Objects, Dispatch(l, o) PROVE SlotInv'
  <2> DEFINE rest == loop[l].batch \ {o}
  <2>1. /\ loop' = [loop EXCEPT ![l] = [loop[l] EXCEPT
              !.at = IF rest = {} THEN "wait" ELSE "dispatch", !.batch = rest]]
        /\ obj' = [obj EXCEPT ![o] = [obj[o] EXCEPT !.fired = obj[o].fired + 1]]
        /\ UNCHANGED <<now, created>> /\ o \in loop[l].batch
    BY <1>0, <1>3 DEF Dispatch
  <2>2. /\ loop'[l].batch = rest /\ loop'[l].seen = loop[l].seen
        /\ \A k \in Loops \ {l} : loop'[k] = loop[k]
    BY <1>0, <2>1 DEF LoopRecord
  <2>3. InBatch(o) = {l}
    BY <2>1 DEF FlagInv, NoOverlap, InBatch
  <2>4. InBatch(o)' = {} /\ \A p \in Objects \ {o} : InBatch(p)' = InBatch(p)
    BY <2>2, <2>3 DEF InBatch
  <2>5. ASSUME NEW p \in Objects \ {o} PROVE SlotsOf(p)'
    BY <1>0, <2>1, <2>4, SlotKept DEF SlotInv
  <2>6. SlotsOf(o)'
    <3>1. /\ obj'[o].since = obj[o].since /\ obj'[o].cron = obj[o].cron
          /\ obj'[o].fired = obj[o].fired + 1 /\ obj'[o].running = obj[o].running
          /\ obj'[o].next = obj[o].next
      BY <1>0, <2>1 DEF JobRecord
    <3>2. Spent(o)' = Spent(o)
      BY <2>3, <2>4, <3>1, JobTypes DEF Spent
    <3>3. SlotsOf(o)
      BY DEF SlotInv
    <3> QED
      BY <2>1, <3>1, <3>2, <3>3 DEF SlotsOf
  <2>7. \A k \in Loops : loop'[k].seen <= now'
    BY <1>0, <2>1, <2>2
  <2>8. Objects' = Objects
    BY <2>1 DEF Objects
  <2> QED
    BY <2>5, <2>6, <2>7, <2>8 DEF SlotInv
<1> QED
  BY <1>1, <1>2, <1>3 DEF Looping

LEMMA SlotThread ==
    ASSUME TypeOK, FlagInv, SlotInv, NEW t \in threads, Running(t)
    PROVE  SlotInv'
<1>0. /\ obj \in [Objects -> JobRecord] /\ t.job \in Objects /\ now \in Nat
  BY BoundsAssumption DEF TypeOK, ThreadRecord
<1>1. ASSUME NEW s \in Outcomes, Record(t, s) PROVE SlotInv'
  <2> DEFINE r == obj[t.job]
             n == NextFire(r.cron, now)
             q == [r EXCEPT !.running = FALSE, !.runs = r.runs + 1, !.status = s, !.next = n]
  <2>1. /\ obj' = [obj EXCEPT ![t.job] = q]
        /\ UNCHANGED <<now, created, loop>> /\ t.stage = "run"
    BY <1>1 DEF Record, RecordAs
  <2>2. /\ q.fired = r.fired /\ q.since = r.since /\ q.cron = r.cron /\ q.next = n
    BY <1>0 DEF JobRecord
  <2>3. obj'[t.job] = q /\ \A o \in Objects \ {t.job} : obj'[o] = obj[o]
    BY <1>0, <2>1
  <2>4. now \div r.cron \in Nat /\ n \div r.cron = (now \div r.cron) + 1
    BY <1>0, JobTypes, NextFireSlot, SlotType
  <2> HIDE DEF q, n
  <2>5. InBatch(t.job) = {} /\ \A o \in Objects : InBatch(o)' = InBatch(o)
    <3>1. t \in RunsOf(t.job)
      BY <2>1 DEF RunsOf, Executing
    <3> QED
      BY <1>0, <2>1, <3>1 DEF FlagInv, NoOverlap, InBatch
  <2>6. ASSUME NEW o \in Objects \ {t.job} PROVE SlotsOf(o)'
    BY <1>0, <2>1, <2>3, <2>5, SlotKept DEF SlotInv
  <2>7. SlotsOf(t.job)'
    <3>1. Spent(t.job)' = Spent(t.job)
      BY <1>0, <2>2, <2>3, <2>5 DEF Spent
    <3>2. Spent(t.job) <= now \div r.cron /\ Spent(t.job) \in Nat
      BY <1>0, JobTypes DEF SlotInv, SlotsOf
    <3>3. Spent(t.job) < n \div r.cron
      BY <2>4, <3>2
    <3> QED
      BY <2>1, <2>2, <2>3, <3>1, <3>2, <3>3 DEF SlotsOf
  <2>8. Objects' = Objects /\ \A k \in Loops : loop'[k].seen <= now'
    BY <2>1 DEF Objects, SlotInv
  <2> QED
    BY <1>0, <2>6, <2>7, <2>8 DEF SlotInv
<1>2. ASSUME UNCHANGED <<now, created, obj, loop>> PROVE SlotInv'
  BY <1>0, <1>2, SlotSame DEF SlotInv
<1> QED
  BY <1>1, <1>2 DEF Running, MarkRun, MarkRow, Notify

LEMMA SlotNext == TypeOK /\ FlagInv /\ SlotInv /\ [Next]_vars => SlotInv'
<1> SUFFICES ASSUME TypeOK, FlagInv, SlotInv, [Next]_vars PROVE SlotInv'
  OBVIOUS
<1>0. now \in Nat /\ \A l \in Loops : loop[l].seen <= now /\ loop[l].seen \in Nat
  BY BoundsAssumption DEF TypeOK, SlotInv, LoopRecord
<1>1. ASSUME UNCHANGED <<now, created, obj, loop>> PROVE SlotInv'
  BY <1>0, <1>1, SlotSame
<1>2. CASE Tick
  <2>1. UNCHANGED <<created, obj, loop>> /\ now' \in Nat /\ now <= now'
    BY <1>0, <1>2 DEF Tick
  <2>2. \A l \in Loops : loop'[l].seen <= now'
    BY <1>0, <2>1
  <2> QED
    BY <2>1, <2>2, SlotSame
<1> QED
  BY <1>1, <1>2, SlotCall, SlotLoop, SlotThread DEF Next, Signal, Closed, vars

(* OncePerSlot (Scheduler._due_jobs, _execute, ScheduledJob.compute_next):  *)
(* a job is fired at most once per slot of its cron, whatever delays the    *)
(* ticks, the lock or an overrunning run bring about.                       *)
THEOREM OneFirePerSlot == Spec => []OncePerSlot
<1>1. TypeOK /\ SlotInv => OncePerSlot
  <2> SUFFICES ASSUME TypeOK, SlotInv, NEW o \in Objects
               PROVE  LET slots == now \div obj[o].cron - obj[o].since \div obj[o].cron
                      IN  obj[o].fired + (IF InBatch(o) = {} THEN 0 ELSE 1) <= slots
    BY DEF OncePerSlot
  <2>1. Spent(o) <= now \div obj[o].cron
    BY DEF SlotInv, SlotsOf
  <2>2. now \div obj[o].cron \in Nat
    BY JobTypes, SlotType
  <2> QED
    BY <2>1, <2>2, JobTypes DEF Spent
<1>2. QED
  BY <1>1, InitType, NextType, FlagInit, FlagNext, SlotInit, SlotNext, PTL DEF Spec
---------------------------------------------------------------------------
(* "schedule run": ForegroundInv *)

LEMMA ForegroundInit == Init => ForegroundInv
<1> SUFFICES ASSUME Init, Foreground PROVE ForegroundInv
  BY DEF ForegroundInv
<1>1. \A o \in Objects : obj[o].suite = Preset[o].suite
  BY DEF Init, Fresh
<1>2. \A l \in Loops \ {1} : loop[l].at = "off"
  BY DEF Init
<1>3. \A c \in Clients : client[c].at = "foreground"
  BY DEF Init, At
<1>4. jobs = Objects /\ created = Len(Preset) /\ threads = {}
  BY DEF Init, Objects
<1> QED
  BY <1>1, <1>2, <1>3, <1>4 DEF ForegroundInv

(* A step of a client, which makes no thread.                               *)
LEMMA ForegroundCall ==
    ASSUME TypeOK, ForegroundInv, NEW c \in Clients, Calls(c) \/ Stopping(c)
    PROVE  ForegroundInv'
<1> SUFFICES ASSUME Foreground PROVE ForegroundInv'
  BY DEF ForegroundInv
<1>0. /\ client \in [Clients -> ClientRecord]
      /\ client[c].at \notin {"idle", "upsert", "delete", "manual"}
      /\ \A t \in threads : JobId(t) \in tracked /\ JobId(t) \in Alive
  BY DEF TypeOK, ForegroundInv, Alive
<1>1. ~Calls(c)
  BY <1>0 DEF Calls, Add, Remove, RunNow, Upsert, Delete, RunNowEnds, StartLoop, Idle
<1>2. ASSUME NEW r, client' = [client EXCEPT ![c] = r],
             r.at \in {"stopping", "joining", "joined", "gaveup", "closed"},
             loop[1].at = "exited",
             r.at \in {"joining", "joined"} => \A t \in threads : JobId(t) \in r.waits,
             r.at = "joined" => threads = {},
             \A t \in threads : JobId(t) \in tracked',
             UNCHANGED <<created, jobs, obj, loop, threads>>
      PROVE  ForegroundInv'
  <2>1. \A d \in Clients : client'[d] = IF d = c THEN r ELSE client[d]
    BY <1>0, <1>2
  <2>2. \A d \in Clients :
             /\ client'[d].at \notin {"idle", "upsert", "delete", "manual"}
             /\ client'[d].at # "foreground" => loop'[1].at = "exited"
             /\ client'[d].at \in {"joining", "joined"} =>
                  \A t \in threads' : JobId(t)' \in client'[d].waits
             /\ client'[d].at = "joined" => threads' = {}
    BY <1>2, <2>1 DEF ForegroundInv, JobId
  <2>3. Objects' = Objects
    BY <1>2 DEF Objects
  <2> QED
    BY <1>2, <2>2, <2>3 DEF ForegroundInv, JobId
<1>3. client[c].at # "foreground" => loop[1].at = "exited"
  BY DEF ForegroundInv
<1>4. /\ \A at : /\ [client[c] EXCEPT !.at = at].at = at
                 /\ [client[c] EXCEPT !.at = at].waits = client[c].waits
      /\ \A at, waits : /\ [client[c] EXCEPT !.at = at, !.waits = waits].at = at
                        /\ [client[c] EXCEPT !.at = at, !.waits = waits].waits = waits
  <2>1. client[c] \in ClientRecord
    BY <1>0
  <2> QED
    BY <2>1 DEF ClientRecord
<1>5. CASE Stop(c)
  <2> DEFINE r == [client[c] EXCEPT !.at = "stopping"]
  <2>1. client' = [client EXCEPT ![c] = r]
    BY <1>0, <1>5 DEF Stop
  <2>2. r.at = "stopping" /\ r.waits = client[c].waits
    BY <1>4
  <2>3. /\ loop[1].at = "exited" /\ UNCHANGED <<created, jobs, obj, loop, threads>>
        /\ tracked' = tracked
    BY <1>3, <1>5 DEF Stop
  <2> HIDE DEF r
  <2> QED
    BY <1>0, <1>2, <2>1, <2>2, <2>3
<1>6. CASE Snapshot(c)
  <2> DEFINE r == [client[c] EXCEPT !.at = "joining", !.waits = tracked]
  <2>1. client' = [client EXCEPT ![c] = r]
    BY <1>0, <1>6 DEF Snapshot
  <2>2. r.at = "joining" /\ r.waits = tracked
    BY <1>4
  <2>3. /\ loop[1].at = "exited" /\ UNCHANGED <<created, jobs, obj, loop, threads>>
        /\ tracked' = tracked
    BY <1>3, <1>6 DEF Snapshot
  <2> HIDE DEF r
  <2> QED
    BY <1>0, <1>2, <2>1, <2>2, <2>3
<1>7. CASE Joined(c)
  <2> DEFINE r == [client[c] EXCEPT !.at = "joined"]
  <2>1. client' = [client EXCEPT ![c] = r]
    BY <1>0, <1>7 DEF Joined
  <2>2. r.at = "joined" /\ r.waits = client[c].waits
    BY <1>4
  <2>3. /\ loop[1].at = "exited" /\ UNCHANGED <<created, jobs, obj, loop, threads>>
        /\ tracked' = tracked
    BY <1>3, <1>7 DEF Joined
  <2> HIDE DEF r
  <2>4. \A t \in threads : JobId(t) \in client[c].waits
    BY <1>7 DEF Joined, ForegroundInv
  <2>5. threads = {}
    BY <1>0, <1>7, <2>4 DEF Joined
  <2> QED
    BY <1>0, <1>2, <2>1, <2>2, <2>3, <2>5
<1>8. CASE GaveUp(c)
  <2> DEFINE r == [client[c] EXCEPT !.at = "gaveup"]
  <2>1. client' = [client EXCEPT ![c] = r]
    BY <1>0, <1>8 DEF GaveUp
  <2>2. r.at = "gaveup" /\ r.waits = client[c].waits
    BY <1>4
  <2>3. /\ loop[1].at = "exited" /\ UNCHANGED <<created, jobs, obj, loop, threads>>
        /\ tracked' = tracked
    BY <1>3, <1>8 DEF GaveUp
  <2> HIDE DEF r
  <2> QED
    BY <1>0, <1>2, <2>1, <2>2, <2>3
<1>9. CASE Stopped(c)
  <2>1. client' = [client EXCEPT ![c] = At("closed", "none")]
    BY <1>9 DEF Stopped
  <2>2. \A t \in threads : JobId(t) \in tracked'
    BY <1>0, <1>9 DEF Stopped
  <2> QED
    BY <1>0, <1>2, <1>3, <1>9, <2>1, <2>2 DEF Stopped, At
<1> QED
  BY <1>1, <1>5, <1>6, <1>7, <1>8, <1>9 DEF Stopping

(* A step of the loop: no client has left the foreground yet.               *)
LEMMA ForegroundLoop ==
    ASSUME TypeOK, ForegroundInv, NEW l \in Loops, Looping(l)
    PROVE  ForegroundInv'
<1> SUFFICES ASSUME Foreground PROVE ForegroundInv'
  BY DEF ForegroundInv
<1>0. /\ loop \in [Loops -> LoopRecord] /\ obj \in [Objects -> JobRecord]
      /\ loop[l].at \notin {"off", "exited"}
  BY DEF TypeOK, Looping, LoopTop, DueJobs, Dispatch, Wake
<1>1. l = 1
  BY <1>0 DEF ForegroundInv
<1>2. \A c \in Clients : client[c].at = "foreground"
  BY <1>0, <1>1 DEF ForegroundInv
<1>3. /\ UNCHANGED <<jobs, created, client>>
      /\ \E r : loop' = [loop EXCEPT ![l] = r]
  BY DEF Looping, LoopTop, DueJobs, Dispatch, Wake
<1>4. \A k \in Loops \ {1} : loop'[k].at = "off"
  BY <1>0, <1>1, <1>3 DEF ForegroundInv
<1>5. \A o \in Objects : obj'[o].suite = obj[o].suite
  <2>1. CASE LoopTop(l) \/ Wake(l)
    BY <2>1 DEF LoopTop, Wake
  <2>2. CASE DueJobs(l)
    BY <1>0, <2>2 DEF DueJobs, Flag, JobRecord
  <2>3. ASSUME NEW o \in Objects, Dispatch(l, o) PROVE \A p \in Objects : obj'[p].suite = obj[p].suite
    <3>1. obj' = [obj EXCEPT ![o] = [obj[o] EXCEPT !.fired = obj[o].fired + 1]]
      BY <1>0, <2>3 DEF Dispatch
    <3> QED
      BY <1>0, <3>1 DEF JobRecord
  <2> QED
    BY <2>1, <2>2, <2>3 DEF Looping
<1>6. \A t \in threads' : JobId(t) \in tracked'
  <2>0. \A t \in threads : JobId(t) \in tracked /\ JobId(t) \in Alive
    BY DEF ForegroundInv, Alive
  <2>1. CASE UNCHANGED <<threads, tracked>>
    BY <2>0, <2>1
  <2>2. ASSUME NEW o \in Objects, Dispatch(l, o) PROVE \A t \in threads' : JobId(t) \in tracked'
    <3>1. \E u : threads' = threads \cup {u} /\ tracked' = (tracked \cap Alive) \cup {JobId(u)}
      BY <2>2 DEF Dispatch
    <3> QED
      BY <2>0, <3>1
  <2> QED
    BY <2>1, <2>2 DEF Looping, LoopTop, DueJobs, Wake
<1>7. Objects' = Objects
  BY <1>3 DEF Objects
<1> QED
  BY <1>2, <1>3, <1>4, <1>5, <1>6, <1>7 DEF ForegroundInv, JobId

(* A step that leaves the loops, the clients and the names of the threads.  *)
LEMMA ForegroundSame ==
    ASSUME ForegroundInv, UNCHANGED <<created, jobs, loop, tracked, client>>,
           \A o \in Objects : obj'[o].suite = obj[o].suite,
           \A t \in threads' : \E u \in threads : t.job = u.job /\ t.run = u.run
    PROVE  ForegroundInv'
<1>1. Objects' = Objects
  BY DEF Objects
<1>2. \A t \in threads' : \E u \in threads : JobId(t) = JobId(u)
  BY DEF JobId
<1> QED
  BY <1>1, <1>2 DEF ForegroundInv, JobId

LEMMA ForegroundThread ==
    ASSUME TypeOK, ForegroundInv, NEW t \in threads, Running(t)
    PROVE  ForegroundInv'
<1>0. /\ obj \in [Objects -> JobRecord] /\ t \in ThreadRecord /\ t.job \in Objects
  BY DEF TypeOK, ThreadRecord
<1>1. UNCHANGED <<created, jobs, loop, tracked, client>>
  BY DEF Running, Record, RecordAs, MarkRun, MarkRow, Notify
<1>2. \A o \in Objects : obj'[o].suite = obj[o].suite
  <2>1. ASSUME NEW s \in Outcomes, Record(t, s) PROVE \A o \in Objects : obj'[o].suite = obj[o].suite
    <3>1. obj[t.job] \in JobRecord
      BY <1>0
    <3>2. obj' = [obj EXCEPT ![t.job] = [obj[t.job] EXCEPT !.running = FALSE,
             !.runs = obj[t.job].runs + 1, !.status = s, !.next = NextFire(obj[t.job].cron, now)]]
      BY <2>1 DEF Record, RecordAs
    <3> QED
      BY <1>0, <3>1, <3>2 DEF JobRecord
  <2> QED
    BY <2>1 DEF Running, MarkRun, MarkRow, Notify
<1>3. \E stage, status : threads' = threads \ {t}
                         \/ threads' = (threads \ {t}) \cup {[t EXCEPT !.stage = stage, !.status = status]}
  BY DEF Running, Record, RecordAs, MarkRun, MarkRow, Notify, Becomes
<1>4. \A stage, status : /\ [t EXCEPT !.stage = stage, !.status = status].job = t.job
                         /\ [t EXCEPT !.stage = stage, !.status = status].run = t.run
  BY <1>0 DEF ThreadRecord
<1>5. \A u \in threads' : \E v \in threads : u.job = v.job /\ u.run = v.run
  <2>1. PICK stage, status :
             threads' = threads \ {t}
             \/ threads' = (threads \ {t}) \cup {[t EXCEPT !.stage = stage, !.status = status]}
    BY <1>3
  <2> DEFINE m == [t EXCEPT !.stage = stage, !.status = status]
  <2>2. m.job = t.job /\ m.run = t.run
    BY <1>4
  <2>3. threads' = threads \ {t} \/ threads' = (threads \ {t}) \cup {m}
    BY <2>1
  <2> HIDE DEF m
  <2> QED
    BY <2>2, <2>3
<1> QED
  BY <1>1, <1>2, <1>5, ForegroundSame

LEMMA ForegroundNext == TypeOK /\ ForegroundInv /\ [Next]_vars => ForegroundInv'
<1> SUFFICES ASSUME TypeOK, ForegroundInv, [Next]_vars PROVE ForegroundInv'
  OBVIOUS
<1>1. ASSUME UNCHANGED <<created, jobs, obj, loop, threads, tracked, client>> PROVE ForegroundInv'
  BY <1>1, ForegroundSame
<1> QED
  BY <1>1, ForegroundCall, ForegroundLoop, ForegroundThread DEF Next, Signal, Tick, Closed, vars

(* StopWaits (Scheduler.stop, cli.py "schedule run"): when the foreground   *)
(* command is stopped, and the joins do not time out, no run is cut short.  *)
THEOREM ForegroundStopWaits == Spec => [](Foreground => StopWaits)
<1>1. ForegroundInv => (Foreground => StopWaits)
  BY DEF ForegroundInv, StopWaits
<1>2. QED
  BY <1>1, InitType, NextType, ForegroundInit, ForegroundNext, PTL DEF Spec

(* SuiteNoOverlap (scheduler.py:13): the documented promise, as far as the  *)
(* code keeps it.  Under "schedule run", with no suite given to two jobs, a *)
(* suite is never run by two threads at once.                               *)
THEOREM SuitesApart ==
    ASSUME \A i, j \in DOMAIN Preset : Preset[i].suite = Preset[j].suite => i = j
    PROVE  Spec => [](Foreground => SuiteNoOverlap)
<1>1. TypeOK /\ FlagInv /\ ForegroundInv => (Foreground => SuiteNoOverlap)
  <2> SUFFICES ASSUME TypeOK, FlagInv, ForegroundInv, Foreground, NEW s \in Suites
               PROVE  ~Overlapping(s)
    BY DEF SuiteNoOverlap
  <2> DEFINE E == {t \in Executing : obj[t.job].suite = s}
             M == {c \in Clients : client[c].at = "manual" /\ client[c].arg = s}
  <2>1. M = {}
    BY DEF ForegroundInv
  <2>2. Objects = DOMAIN Preset
    BY RequestsAssumption DEF ForegroundInv, Objects
  <2>3. \A t, u \in E : t = u
    <3> SUFFICES ASSUME NEW t \in E, NEW u \in E PROVE t = u
      OBVIOUS
    <3>1. t \in Executing /\ u \in Executing /\ t.job \in Objects /\ u.job \in Objects
      BY DEF Executing, TypeOK, ThreadRecord
    <3>2. Preset[t.job].suite = s /\ Preset[u.job].suite = s
      BY <3>1 DEF ForegroundInv
    <3>3. t.job = u.job
      BY <2>2, <3>1, <3>2
    <3> QED
      BY <3>1, <3>3 DEF FlagInv, NoOverlap, RunsOf
  <2>4. E = {} \/ \E t : E = {t}
    BY <2>3
  <2>5. Cardinality(M) = 0 /\ (Cardinality(E) = 0 \/ Cardinality(E) = 1)
    BY <2>1, <2>4, FS_EmptySet, FS_Singleton
  <2> QED
    BY <2>5 DEF Overlapping
<1>2. QED
  BY <1>1, InitType, NextType, FlagInit, FlagNext, ForegroundInit, ForegroundNext, PTL DEF Spec
---------------------------------------------------------------------------
(* The workers: WorkersInv                                                  *)

(* The elements of S with fewer than k others before them are at most k:    *)
(* how many are before it tells each of them from the rest.                 *)
LEMMA FirstOnes ==
    ASSUME NEW S, IsFiniteSet(S), NEW place \in [S -> Nat],
           \A o, p \in S : place[o] = place[p] => o = p, NEW k \in Nat
    PROVE  LET first == {o \in S : Cardinality({p \in S : place[p] < place[o]}) < k}
           IN  IsFiniteSet(first) /\ Cardinality(first) <= k
<1> DEFINE Before(o) == {p \in S : place[p] < place[o]}
           first == {o \in S : Cardinality(Before(o)) < k}
           rank  == [o \in first |-> Cardinality(Before(o))]
<1>1. \A o \in S : IsFiniteSet(Before(o)) /\ Cardinality(Before(o)) \in Nat
  BY FS_Subset, FS_CardinalityType
<1>2. ASSUME NEW o \in S, NEW p \in S, place[o] < place[p]
      PROVE  Cardinality(Before(o)) < Cardinality(Before(p))
  <2>1. Before(o) \in SUBSET Before(p) /\ o \in Before(p) /\ o \notin Before(o)
    BY <1>2
  <2>2. Cardinality(Before(o)) <= Cardinality(Before(p))
    BY <1>1, <2>1, FS_Subset
  <2>3. Cardinality(Before(o)) # Cardinality(Before(p))
    BY <1>1, <2>1, FS_Subset
  <2> QED
    BY <1>1, <2>2, <2>3
<1>3. rank \in [first -> 0 .. k - 1]
  BY <1>1
<1>4. \A o, p \in first : rank[o] = rank[p] => o = p
  <2> SUFFICES ASSUME NEW o \in first, NEW p \in first, o # p PROVE rank[o] # rank[p]
    OBVIOUS
  <2>1. place[o] < place[p] \/ place[p] < place[o]
    OBVIOUS
  <2>2. rank[o] = Cardinality(Before(o)) /\ rank[p] = Cardinality(Before(p))
    OBVIOUS
  <2> HIDE DEF rank, Before
  <2> QED
    BY <1>1, <1>2, <2>1, <2>2
<1>5. IsFiniteSet(0 .. k - 1) /\ Cardinality(0 .. k - 1) = k
  BY FS_Interval
<1>6. rank \in Injection(first, 0 .. k - 1)
  BY <1>3, <1>4 DEF Injection, IsInjective
<1>7. IsFiniteSet(first) /\ Cardinality(first) <= k
  <2> HIDE DEF rank, first
  <2> QED
    BY <1>5, <1>6, FS_Injection
<1> QED
  BY <1>7

LEMMA JobsFinite ==
    ASSUME TypeOK, NEW S \in SUBSET Objects
    PROVE  IsFiniteSet(S) /\ Cardinality(S) \in Nat
<1>1. created \in Int
  BY BoundsAssumption DEF TypeOK
<1>2. IsFiniteSet(Objects)
  BY <1>1, FS_Interval DEF Objects
<1> QED
  BY <1>2, FS_Subset, FS_CardinalityType

Ceiling == IF MaxWorkers < 0 THEN 0 ELSE MaxWorkers

(* What a step that registers no job has to show.                           *)
LEMMA WorkersSame ==
    ASSUME TypeOK, WorkersInv, created' = created, jobs' \subseteq jobs,
           \A o \in jobs : /\ obj'[o].place = obj[o].place /\ obj'[o].name = obj[o].name
                           /\ obj'[o].running => obj[o].running
    PROVE  WorkersInv'
<1>1. Active' \in SUBSET Active /\ jobs \subseteq Objects
  BY DEF Active, TypeOK
<1>2. IsFiniteSet(Active)
  BY <1>1, JobsFinite DEF Active
<1>3. Cardinality(Active') <= Cardinality(Active) /\ Cardinality(Active') \in Nat /\ Cardinality(Active) \in Nat
  BY <1>1, <1>2, FS_Subset, FS_CardinalityType
<1>4. Cardinality(Active') <= Ceiling /\ Ceiling \in Nat
  BY <1>3, WorkersAssumption DEF WorkersInv, Ceiling
<1> QED
  BY <1>4 DEF WorkersInv, Ceiling

LEMMA WorkersInit == Init => WorkersInv
<1> SUFFICES ASSUME Init PROVE WorkersInv
  OBVIOUS
<1>1. /\ jobs = Objects /\ created = Len(Preset) /\ Objects = DOMAIN Preset
      /\ obj = [o \in Objects |-> Fresh(Preset[o], o, 0)]
  BY RequestsAssumption DEF Init, Objects
<1>2. \A o \in Objects : /\ obj[o].place = o /\ obj[o].name = Preset[o].name
                         /\ obj[o].running = FALSE /\ o <= created
  BY <1>1, RequestsAssumption DEF Fresh, Objects
<1>3. Active = {} /\ Cardinality({}) = 0
  BY <1>1, <1>2, FS_EmptySet DEF Active
<1>4. Cardinality(Active) <= IF MaxWorkers < 0 THEN 0 ELSE MaxWorkers
  BY <1>3, WorkersAssumption
<1> QED
  BY <1>1, <1>2, <1>4, PresetAssumption DEF WorkersInv

(* add(): a name registered again keeps its place in the dictionary.        *)
LEMMA WorkersAdd ==
    ASSUME TypeOK, WorkersInv, NEW c \in Clients, NEW r \in Requests, Add(c, r)
    PROVE  WorkersInv'
<1> DEFINE new == created + 1
           old == Named(r.name)
           place == IF old = {} THEN new ELSE obj[CHOOSE o \in old : TRUE].place
<1>0. created \in Nat /\ r \in Request /\ now \in Nat /\ jobs \subseteq Objects
  BY RequestsAssumption, BoundsAssumption DEF TypeOK
<1>1. obj' = [o \in 1 .. new |-> IF o = new THEN Fresh(r, place, now) ELSE obj[o]]
  BY DEF Add
<1>2. created' = new /\ jobs' = (jobs \ old) \cup {new}
  BY DEF Add
<1>3. new \in 1 .. new /\ new \notin Objects /\ \A o \in Objects : o \in 1 .. new /\ o # new
  BY <1>0 DEF Objects
<1>4. (old = {} /\ place = new) \/ \E o \in old : place = obj[o].place
  OBVIOUS
<1> HIDE DEF place
<1>5. obj'[new].place = place /\ obj'[new].name = r.name /\ obj'[new].running = FALSE
  BY <1>1, <1>3 DEF Fresh
<1>6. \A o \in jobs : obj'[o] = obj[o]
  BY <1>0, <1>1, <1>3
<1>7. \A o \in jobs : obj[o].place \in Nat /\ obj[o].place <= created
  BY <1>0 DEF WorkersInv, TypeOK, JobRecord
<1>8. ASSUME NEW o \in jobs, o \notin old PROVE obj'[o].place # place /\ obj'[o].name # r.name
  <2>1. obj'[o].name # r.name
    BY <1>6, <1>8 DEF Named
  <2>2. obj[o].place # new
    BY <1>0, <1>7
  <2>3. \A p \in old : obj[o].place # obj[p].place
    BY <1>8 DEF WorkersInv, Named
  <2> QED
    BY <1>4, <1>6, <2>1, <2>2, <2>3
<1>9. \A o, p \in jobs' : obj'[o].place = obj'[p].place \/ obj'[o].name = obj'[p].name => o = p
  <2>1. \A o, p \in jobs \ old : obj'[o].place = obj'[p].place \/ obj'[o].name = obj'[p].name => o = p
    BY <1>6 DEF WorkersInv
  <2> QED
    BY <1>2, <1>5, <1>8, <2>1
<1>10. \A o \in jobs' : obj'[o].place <= created'
  <2>1. place <= new
    BY <1>0, <1>4, <1>7 DEF Named
  <2>2. \A o \in jobs : obj'[o].place <= new
    BY <1>0, <1>6, <1>7
  <2> QED
    BY <1>2, <1>5, <2>1, <2>2
<1>11. Active' \in SUBSET Active
  BY <1>2, <1>5, <1>6 DEF Active
<1>12. Cardinality(Active') <= Cardinality(Active) /\ Cardinality(Active') \in Nat /\ Cardinality(Active) \in Nat
  <2>1. IsFiniteSet(Active)
    BY <1>0, JobsFinite DEF Active
  <2> QED
    BY <1>11, <2>1, FS_Subset, FS_CardinalityType
<1>13. Cardinality(Active') <= Ceiling
  <2>1. Cardinality(Active) <= Ceiling /\ Ceiling \in Nat
    BY WorkersAssumption DEF WorkersInv, Ceiling
  <2> QED
    BY <1>12, <2>1
<1> QED
  BY <1>9, <1>10, <1>13 DEF WorkersInv, Ceiling

(* _due_jobs: the batch fills the workers left, counted under the lock the  *)
(* flags are raised under.                                                  *)
LEMMA WorkersDue ==
    ASSUME TypeOK, WorkersInv, NEW l \in Loops, DueJobs(l)
    PROVE  WorkersInv'
<1> DEFINE due   == {o \in jobs : IsDue(o, loop[l].seen)}
           taken == Taken(due)
           place == [o \in due |-> obj[o].place]
<1>0. obj \in [Objects -> JobRecord] /\ jobs \subseteq Objects
  BY DEF TypeOK
<1>1. /\ obj' = [o \in Objects |-> IF o \in taken THEN [obj[o] EXCEPT !.running = TRUE] ELSE obj[o]]
      /\ jobs' = jobs /\ created' = created
  BY DEF DueJobs, Flag
<1>2. taken \subseteq due /\ due \subseteq jobs /\ \A o \in taken : ~obj[o].running
  BY DEF Taken, IsDue
<1>3. IsFiniteSet(Active) /\ Cardinality(Active) \in Nat /\ IsFiniteSet(due)
  BY <1>0, <1>2, JobsFinite DEF Active
<1>4. Capacity \in Nat /\ Cardinality(Active) + Capacity <= Ceiling
  <2>1. Cardinality(Active) <= IF MaxWorkers < 0 THEN 0 ELSE MaxWorkers
    BY DEF WorkersInv
  <2> QED
    BY <1>3, <2>1, WorkersAssumption DEF Capacity, Ceiling
<1>5. IsFiniteSet(taken) /\ Cardinality(taken) <= Capacity
  <2>1. place \in [due -> Nat] /\ \A o, p \in due : place[o] = place[p] => o = p
    BY <1>0, <1>2 DEF WorkersInv, JobRecord
  <2>2. taken = {o \in due : Cardinality({p \in due : place[p] < place[o]}) < Capacity}
    BY DEF Taken
  <2> HIDE DEF due, place, taken
  <2> QED
    BY <1>3, <1>4, <2>1, <2>2, FirstOnes
<1> HIDE DEF taken
<1>6. \A o \in Objects : /\ obj'[o].place = obj[o].place /\ obj'[o].name = obj[o].name
                         /\ obj'[o].running = (obj[o].running \/ o \in taken)
  BY <1>0, <1>1 DEF JobRecord
<1>7. Active' = Active \cup taken /\ Active \cap taken = {}
  BY <1>0, <1>1, <1>2, <1>6 DEF Active
<1>8. Cardinality(Active') = Cardinality(Active) + Cardinality(taken)
  <2>1. Cardinality(Active \cup taken) = Cardinality(Active) + Cardinality(taken) - Cardinality({})
    BY <1>3, <1>5, <1>7, FS_Union
  <2> QED
    BY <1>3, <1>5, <1>7, <2>1, FS_EmptySet, FS_CardinalityType
<1>9. Cardinality(Active') <= Ceiling
  <2>1. Cardinality(taken) \in Nat /\ Ceiling \in Nat
    BY <1>5, FS_CardinalityType, WorkersAssumption DEF Ceiling
  <2> QED
    BY <1>3, <1>4, <1>5, <1>8, <2>1
<1>10. \A o, p \in jobs' : obj'[o].place = obj'[p].place \/ obj'[o].name = obj'[p].name => o = p
  BY <1>0, <1>1, <1>6 DEF WorkersInv
<1>11. \A o \in jobs' : obj'[o].place <= created'
  BY <1>0, <1>1, <1>6 DEF WorkersInv
<1> QED
  BY <1>9, <1>10, <1>11 DEF WorkersInv, Ceiling

LEMMA WorkersNext == TypeOK /\ WorkersInv /\ [Next]_vars => WorkersInv'
<1> SUFFICES ASSUME TypeOK, WorkersInv, [Next]_vars PROVE WorkersInv'
  OBVIOUS
<1>0. /\ obj \in [Objects -> JobRecord] /\ jobs \subseteq Objects
      /\ \A t \in threads : t.job \in Objects
  BY DEF TypeOK, ThreadRecord
<1>1. ASSUME UNCHANGED <<created, obj>>, jobs' \subseteq jobs PROVE WorkersInv'
  BY <1>1, WorkersSame
<1>2. ASSUME NEW c \in Clients, Calls(c) \/ Stopping(c) PROVE WorkersInv'
  BY <1>1, <1>2, WorkersAdd
     DEF Calls, Stopping, Remove, RunNow, Upsert, Delete, RunNowEnds, StartLoop,
         Stop, Snapshot, Joined, GaveUp, Stopped
<1>3. ASSUME NEW l \in Loops, NEW o \in Objects, Dispatch(l, o) PROVE WorkersInv'
  <2>1. obj' = [obj EXCEPT ![o] = [obj[o] EXCEPT !.fired = obj[o].fired + 1]]
    BY <1>0, <1>3 DEF Dispatch
  <2>2. \A p \in Objects : /\ obj'[p].place = obj[p].place /\ obj'[p].name = obj[p].name
                           /\ obj'[p].running => obj[p].running
    BY <1>0, <2>1 DEF JobRecord
  <2> QED
    BY <1>0, <1>3, <2>2, WorkersSame DEF Dispatch
<1>4. ASSUME NEW t \in threads, NEW s \in Outcomes, Record(t, s) PROVE WorkersInv'
  <2> DEFINE r == obj[t.job]
             q == [r EXCEPT !.running = FALSE, !.runs = r.runs + 1,
                            !.status = s, !.next = NextFire(r.cron, now)]
  <2>1. obj' = [obj EXCEPT ![t.job] = q] /\ UNCHANGED <<created, jobs>>
    BY <1>4 DEF Record, RecordAs
  <2>2. q.place = r.place /\ q.name = r.name /\ q.running = FALSE
    BY <1>0 DEF JobRecord
  <2> HIDE DEF q
  <2>3. \A p \in Objects : /\ obj'[p].place = obj[p].place /\ obj'[p].name = obj[p].name
                           /\ obj'[p].running => obj[p].running
    BY <1>0, <2>1, <2>2
  <2> QED
    BY <1>0, <2>1, <2>3, WorkersSame
<1>5. ASSUME NEW t \in threads, MarkRun(t) \/ Notify(t) PROVE WorkersInv'
  BY <1>1, <1>5 DEF MarkRun, MarkRow, Notify
<1>6. ASSUME NEW l \in Loops, LoopTop(l) \/ Wake(l) PROVE WorkersInv'
  BY <1>1, <1>6 DEF LoopTop, Wake
<1>7. ASSUME UNCHANGED vars \/ Signal \/ Tick \/ Closed PROVE WorkersInv'
  BY <1>1, <1>7 DEF vars, Signal, Tick, Closed
<1> QED
  BY <1>2, <1>3, <1>4, <1>5, <1>6, <1>7, WorkersDue DEF Next, Looping, Running

(* When some of S have k others or more before them, k of S do not.         *)
LEMMA FirstOnesFill ==
    ASSUME NEW S, IsFiniteSet(S), NEW place \in [S -> Nat], NEW k \in Nat, NEW first,
           first = {o \in S : Cardinality({p \in S : place[p] < place[o]}) < k},
           NEW late \in S \ first
    PROVE  k <= Cardinality(first)
<1> DEFINE Before(o) == {p \in S : place[p] < place[o]}
           places == {place[o] : o \in S \ first}
<1>1. \A o \in S : IsFiniteSet(Before(o)) /\ Cardinality(Before(o)) \in Nat
  BY FS_Subset, FS_CardinalityType
<1>2. IsFiniteSet(first) /\ Cardinality(first) \in Nat
  BY FS_Subset, FS_CardinalityType
<1>3. PICK n \in places : \A m \in places : n <= m
  <2>1. places \in SUBSET Nat /\ places # {}
    OBVIOUS
  <2> HIDE DEF places
  <2>2. PICK n \in places : \A m \in places : ~(<<m, n>> \in OpToRel(<, Nat))
    BY <2>1, NatLessThanWellFounded, WFMin
  <2>3. \A m \in places : ~(m < n)
    BY <2>1, <2>2 DEF OpToRel
  <2> QED
    BY <2>1, <2>3
<1>4. PICK q \in S \ first : place[q] = n
  BY <1>3
<1>5. Before(q) \in SUBSET first
  <2> SUFFICES ASSUME NEW p \in S, place[p] < place[q] PROVE p \in first
    OBVIOUS
  <2>1. p \notin first => place[p] \in places
    OBVIOUS
  <2> HIDE DEF places
  <2>2. place[p] \in Nat /\ place[q] \in Nat
    BY <1>4
  <2> QED
    BY <1>3, <1>4, <2>1, <2>2
<1>6. ~(Cardinality(Before(q)) < k)
  BY <1>4
<1>7. Cardinality(Before(q)) <= Cardinality(first)
  <2> HIDE DEF Before
  <2> QED
    BY <1>2, <1>5, FS_Subset
<1>8. Cardinality(Before(q)) \in Nat
  BY <1>1, <1>4
<1>9. k <= Cardinality(first)
  <2> HIDE DEF Before
  <2> QED
    BY <1>2, <1>6, <1>7, <1>8
<1> QED
  BY <1>9

(* A tick that leaves a due job out has filled the pool.                    *)
LEMMA DueFills ==
    ASSUME TypeOK, WorkersInv, NEW l \in Loops, DueJobs(l),
           NEW late \in jobs, IsDue(late, loop[l].seen), ~obj'[late].running
    PROVE  Cardinality(Active') = Ceiling
<1> DEFINE due   == {o \in jobs : IsDue(o, loop[l].seen)}
           taken == Taken(due)
           place == [o \in due |-> obj[o].place]
<1>0. obj \in [Objects -> JobRecord] /\ jobs \subseteq Objects
  BY DEF TypeOK
<1>1. /\ obj' = [o \in Objects |-> IF o \in taken THEN [obj[o] EXCEPT !.running = TRUE] ELSE obj[o]]
      /\ jobs' = jobs
  BY DEF DueJobs, Flag
<1>2. taken \subseteq due /\ due \subseteq jobs /\ \A o \in taken : ~obj[o].running
  BY DEF Taken, IsDue
<1>3. /\ IsFiniteSet(Active) /\ Cardinality(Active) \in Nat /\ IsFiniteSet(due)
      /\ IsFiniteSet(taken) /\ Cardinality(taken) \in Nat
  BY <1>0, <1>2, JobsFinite DEF Active
<1>4. \A o \in Objects : obj'[o].running = (obj[o].running \/ o \in taken)
  <2> HIDE DEF taken
  <2> QED
    BY <1>0, <1>1 DEF JobRecord
<1>5. late \in due \ taken
  BY <1>0, <1>4
<1>6. Capacity <= Cardinality(taken)
  <2>1. place \in [due -> Nat]
    BY <1>0, <1>2 DEF JobRecord
  <2>2. taken = {o \in due : Cardinality({p \in due : place[p] < place[o]}) < Capacity}
    BY DEF Taken
  <2>3. Capacity \in Nat
    BY <1>3, WorkersAssumption DEF Capacity
  <2> HIDE DEF due, place, taken
  <2>4. IsFiniteSet(due) /\ late \in due \ taken
    BY <1>3, <1>5
  <2> QED
    BY <2>1, <2>2, <2>3, <2>4, FirstOnesFill
<1> HIDE DEF taken, due
<1>7. Active' = Active \cup taken /\ Active \cap taken = {}
  BY <1>0, <1>1, <1>2, <1>4 DEF Active
<1>8. Cardinality(Active') = Cardinality(Active) + Cardinality(taken)
  <2>1. Cardinality(Active \cup taken) = Cardinality(Active) + Cardinality(taken) - Cardinality({})
    BY <1>3, <1>7, FS_Union
  <2> QED
    BY <1>3, <1>7, <2>1, FS_EmptySet
<1>9. Cardinality(Active') <= Ceiling
  BY WorkersDue DEF WorkersInv, Ceiling
<1>10. Ceiling <= Cardinality(Active) + Capacity /\ Capacity \in Nat /\ Ceiling \in Nat
  BY <1>3, WorkersAssumption DEF Capacity, Ceiling
<1> QED
  BY <1>3, <1>6, <1>8, <1>9, <1>10

NoIdleWorker ==
    [][\A l \in Loops : DueJobs(l) =>
           \/ Cardinality(Active') = Ceiling
           \/ \A o \in jobs : IsDue(o, loop[l].seen) => obj'[o].running]_vars

(* _due_jobs never skips a due job while a worker is free: after a tick     *)
(* every job that was due is flagged, or as many as there are workers are,  *)
(* however many loops and whatever was registered or removed.               *)
THEOREM TicksFillThePool == Spec => NoIdleWorker
<1>1. TypeOK /\ WorkersInv /\ [Next]_vars
        => [\A l \in Loops : DueJobs(l) =>
              \/ Cardinality(Active') = Ceiling
              \/ \A o \in jobs : IsDue(o, loop[l].seen) => obj'[o].running]_vars
  BY DueFills
<1>2. QED
  BY <1>1, InitType, NextType, WorkersInit, WorkersNext, PTL DEF Spec, NoIdleWorker

(* The ceiling the scheduler keeps: of the jobs registered at a time, no    *)
(* more than max_workers are flagged as running, however many loops share   *)
(* the lock and whatever is registered or removed meanwhile.                *)
THEOREM RegisteredCeiling == Spec => [](Cardinality(Active) <= IF MaxWorkers < 0 THEN 0 ELSE MaxWorkers)
<1>1. WorkersInv => Cardinality(Active) <= IF MaxWorkers < 0 THEN 0 ELSE MaxWorkers
  BY DEF WorkersInv
<1>2. QED
  BY <1>1, InitType, NextType, WorkersInit, WorkersNext, PTL DEF Spec

(* WorkerCeiling (scheduler.py:130): under "schedule run", where no job is  *)
(* removed or replaced, max_workers is a ceiling on the runs themselves.    *)
THEOREM ForegroundCeiling == Spec => [](Foreground => WorkerCeiling)
<1>1. TypeOK /\ FlagInv /\ ForegroundInv /\ WorkersInv => (Foreground => WorkerCeiling)
  <2> SUFFICES ASSUME TypeOK, FlagInv, ForegroundInv, WorkersInv, Foreground PROVE WorkerCeiling
    OBVIOUS
  <2> DEFINE job == [t \in Executing |-> t.job]
  <2>1. \A t \in Executing : t.job \in Objects /\ t \in RunsOf(t.job)
    BY DEF Executing, RunsOf, TypeOK, ThreadRecord
  <2>2. \A t \in Executing : t.job \in Active
    BY <2>1 DEF Active, FlagInv, ForegroundInv
  <2>3. \A t, u \in Executing : t.job = u.job => t = u
    BY <2>1 DEF FlagInv, NoOverlap
  <2>4. job \in Injection(Executing, Active)
    BY <2>2, <2>3 DEF Injection, IsInjective
  <2>5. IsFiniteSet(Active) /\ Cardinality(Active) \in Nat
    BY JobsFinite DEF Active, TypeOK
  <2>6. Cardinality(Executing) <= Cardinality(Active) /\ Cardinality(Executing) \in Nat
    <3> HIDE DEF job
    <3> QED
      BY <2>4, <2>5, FS_Injection, FS_CardinalityType
  <2>7. Cardinality(Active) <= Ceiling /\ Ceiling \in Nat
    BY WorkersAssumption DEF WorkersInv, Ceiling
  <2>8. Cardinality(Executing) <= Ceiling
    BY <2>5, <2>6, <2>7
  <2> QED
    BY <2>8 DEF WorkerCeiling, Ceiling
<1>2. QED
  BY <1>1, InitType, NextType, FlagInit, FlagNext, ForegroundInit, ForegroundNext,
     WorkersInit, WorkersNext, PTL DEF Spec
---------------------------------------------------------------------------
(* The schedules table: RowsInv, of one caller whose writes are not lost.   *)

(* The steps that leave the registrations, the calls under way and the      *)
(* names in the table.                                                      *)
LEMMA RowsSame ==
    ASSUME RowsInv, jobs' = jobs, \A o \in jobs : obj'[o].name = obj[o].name,
           \A c \in Clients, where \in {"upsert", "delete"}, n \in Names :
             (client'[c].at = where /\ client'[c].arg = n) <=> (client[c].at = where /\ client[c].arg = n),
           \A n \in Names : row'[n] = "absent" <=> row[n] = "absent"
    PROVE  RowsInv'
<1>1. \A n \in Names : Named(n)' = Named(n)
  BY DEF Named
<1>2. \A n \in Names : Pending("upsert", n)' = Pending("upsert", n) /\ Pending("delete", n)' = Pending("delete", n)
  BY DEF Pending
<1> QED
  BY <1>1, <1>2 DEF RowsInv

LEMMA RowsInit == Init => RowsInv
<1> SUFFICES ASSUME Init, NEW n \in Names
             PROVE  ~Pending("upsert", n) /\ ~Pending("delete", n) /\ (row[n] # "absent" <=> Named(n) # {})
  BY DEF RowsInv
<1>1. ~Pending("upsert", n) /\ ~Pending("delete", n)
  BY DEF Init, At, Pending
<1>2. row[n] = IF \E o \in jobs : obj[o].name = n THEN "never" ELSE "absent"
  BY DEF Init
<1> QED
  BY <1>1, <1>2 DEF Named

(* A call's own steps: what it is about to write says how its registration  *)
(* left the job.                                                            *)
LEMMA RowsCall ==
    ASSUME TypeOK, RowsInv, ~MetastoreFails, \A c, d \in Clients : c = d,
           NEW c \in Clients, Calls(c) \/ Stopping(c)
    PROVE  RowsInv'
<1>0. client \in [Clients -> ClientRecord] /\ Clients = {c}
  BY DEF TypeOK
<1>1. \A n \in Names : \A where : Pending(where, n) <=> client[c].at = where /\ client[c].arg = n
  BY <1>0 DEF Pending
<1>2. \A n \in Names : \A where : Pending(where, n)' <=> client'[c].at = where /\ client'[c].arg = n
  BY <1>0 DEF Pending
<1>3. ASSUME NEW r, client' = [client EXCEPT ![c] = r], r.at \notin {"upsert", "delete"},
             client[c].at \notin {"upsert", "delete"}, UNCHANGED <<jobs, obj, row>>
      PROVE  RowsInv'
  <2>1. client'[c].at \notin {"upsert", "delete"}
    BY <1>0, <1>3
  <2>2. \A d \in Clients : d = c
    BY <1>0
  <2> QED
    BY <1>3, <2>1, <2>2, RowsSame
<1>4. \A at, waits : /\ [client[c] EXCEPT !.at = at].at = at
                     /\ [client[c] EXCEPT !.at = at, !.waits = waits].at = at
  BY <1>0 DEF ClientRecord
<1>5. ASSUME NEW r \in Requests, Add(c, r) PROVE RowsInv'
  <2>1. r.name \in Names /\ client'[c] = At("upsert", r.name)
    BY <1>0, <1>5, RequestsAssumption DEF Add, Request
  <2>2. created + 1 \notin jobs /\ obj'[created + 1].name = r.name /\ \A o \in jobs : obj'[o] = obj[o]
    <3>1. /\ \A o \in Objects : obj'[o] = obj[o]
          /\ created + 1 \notin Objects
      BY <1>5, AddType
    <3>2. PICK place \in Nat : obj'[created + 1] = Fresh(r, place, now)
      BY <1>5, AddType
    <3> QED
      BY <3>1, <3>2 DEF TypeOK, Fresh
  <2>3. jobs' = (jobs \ Named(r.name)) \cup {created + 1}
    BY <1>5 DEF Add
  <2>4. \A n \in Names : Named(n)' = IF n = r.name THEN {created + 1} ELSE Named(n)
    BY <2>2, <2>3 DEF Named
  <2>5. client'[c].at = "upsert" /\ client'[c].arg = r.name /\ client[c].at = "idle" /\ row' = row
    BY <1>5, <2>1 DEF Add, At, Idle
  <2> QED
    BY <1>1, <1>2, <2>4, <2>5 DEF RowsInv
<1>6. ASSUME NEW n \in Names, Remove(c, n) PROVE RowsInv'
  <2>1. jobs' = jobs \ Named(n) /\ obj' = obj /\ row' = row /\ client[c].at = "idle"
    BY <1>6 DEF Remove, Idle
  <2>2. client'[c].at = "delete" /\ client'[c].arg = n
    BY <1>0, <1>6 DEF Remove, At
  <2>3. \A m \in Names : Named(m)' = IF m = n THEN {} ELSE Named(m)
    BY <2>1 DEF Named
  <2> QED
    BY <1>1, <1>2, <2>1, <2>2, <2>3 DEF RowsInv
<1>7. CASE Upsert(c) \/ Delete(c)
  <2> DEFINE n == client[c].arg
             value == IF client[c].at = "delete" THEN "absent" ELSE IF row[n] = "absent" THEN "never" ELSE row[n]
  <2>1. /\ client[c].at \in {"upsert", "delete"} /\ UNCHANGED <<jobs, obj>>
        /\ row' = [row EXCEPT ![n] = value]
    BY <1>7 DEF Upsert, Delete, Write
  <2>2. client'[c].at = "idle"
    BY <1>0, <1>7 DEF Upsert, Delete, At
  <2>3. \A m \in Names : Named(m)' = Named(m)
    BY <2>1 DEF Named
  <2>4. \A m \in Names : row'[m] = IF m = n THEN value ELSE row[m]
    BY <2>1 DEF TypeOK
  <2>5. value = "absent" <=> client[c].at = "delete"
    OBVIOUS
  <2> HIDE DEF value
  <2>6. \A m \in Names : row'[m] # "absent" <=> Named(m) # {}
    BY <1>1, <2>1, <2>4, <2>5 DEF RowsInv
  <2> QED
    BY <1>2, <2>2, <2>3, <2>6 DEF RowsInv
<1>8. ASSUME NEW n \in Names, RunNow(c, n) PROVE RowsInv'
  <2>1. PICK o \in Named(n) : client' = [client EXCEPT ![c] = At("manual", obj[o].suite)]
    BY <1>8 DEF RunNow
  <2> QED
    BY <1>3, <1>8, <2>1 DEF RunNow, Idle, At
<1>9. CASE RunNowEnds(c)
  BY <1>3, <1>9 DEF RunNowEnds, At
<1>10. ASSUME NEW l \in Loops, StartLoop(c, l) PROVE RowsInv'
  BY <1>10, RowsSame DEF StartLoop
<1>11. CASE Stop(c) \/ Snapshot(c) \/ Joined(c) \/ GaveUp(c)
  <2> DEFINE Moved(at) == [client[c] EXCEPT !.at = at]
             joining   == [client[c] EXCEPT !.at = "joining", !.waits = tracked]
  <2>1. /\ client[c].at \in {"idle", "foreground", "stopping", "joining"} /\ UNCHANGED <<jobs, obj, row>>
        /\ \/ client' = [client EXCEPT ![c] = joining]
           \/ \E at \in {"stopping", "joined", "gaveup"} : client' = [client EXCEPT ![c] = Moved(at)]
    BY <1>0, <1>11 DEF Stop, Snapshot, Joined, GaveUp, Idle
  <2>2. joining.at = "joining" /\ \A at : Moved(at).at = at
    BY <1>4
  <2> HIDE DEF joining, Moved
  <2> QED
    BY <1>3, <2>1, <2>2
<1>12. CASE Stopped(c)
  <2>1. /\ client' = [client EXCEPT ![c] = At(IF Foreground THEN "closed" ELSE "idle", "none")]
        /\ client[c].at \in {"joined", "gaveup"} /\ UNCHANGED <<jobs, obj, row>>
    BY <1>12 DEF Stopped
  <2> QED
    BY <1>3, <2>1 DEF At
<1> QED
  BY <1>5, <1>6, <1>7, <1>8, <1>9, <1>10, <1>11, <1>12 DEF Calls, Stopping

LEMMA RowsNext ==
    ASSUME ~MetastoreFails, \A c, d \in Clients : c = d
    PROVE  TypeOK /\ RowsInv /\ [Next]_vars => RowsInv'
<1> SUFFICES ASSUME TypeOK, RowsInv, [Next]_vars PROVE RowsInv'
  OBVIOUS
<1>0. /\ obj \in [Objects -> JobRecord] /\ jobs \subseteq Objects
      /\ threads \subseteq ThreadRecord
  BY DEF TypeOK
<1>1. ASSUME UNCHANGED <<jobs, client, row>>, \A o \in Objects : obj'[o].name = obj[o].name PROVE RowsInv'
  BY <1>0, <1>1, RowsSame
<1>2. ASSUME NEW l \in Loops, Looping(l) PROVE RowsInv'
  <2>1. CASE LoopTop(l) \/ Wake(l)
    BY <1>1, <2>1 DEF LoopTop, Wake
  <2>2. CASE DueJobs(l)
    BY <1>0, <1>1, <2>2 DEF DueJobs, Flag, JobRecord
  <2>3. ASSUME NEW o \in Objects, Dispatch(l, o) PROVE RowsInv'
    <3>1. obj' = [obj EXCEPT ![o] = [obj[o] EXCEPT !.fired = obj[o].fired + 1]]
      BY <1>0, <2>3 DEF Dispatch
    <3>2. \A p \in Objects : obj'[p].name = obj[p].name
      BY <1>0, <3>1 DEF JobRecord
    <3> QED
      BY <1>1, <2>3, <3>2 DEF Dispatch
  <2> QED
    BY <1>2, <2>1, <2>2, <2>3 DEF Looping
<1>3. ASSUME NEW t \in threads, NEW s \in Outcomes, Record(t, s) PROVE RowsInv'
  <2> DEFINE r == obj[t.job]
             q == [r EXCEPT !.running = FALSE, !.runs = r.runs + 1,
                            !.status = s, !.next = NextFire(r.cron, now)]
  <2>1. obj' = [obj EXCEPT ![t.job] = q] /\ UNCHANGED <<jobs, client, row>>
    BY <1>3 DEF Record, RecordAs
  <2>2. t.job \in Objects
    BY <1>0 DEF ThreadRecord
  <2>3. q.name = r.name
    BY <1>0, <2>2 DEF JobRecord
  <2> HIDE DEF q
  <2> QED
    BY <1>0, <1>1, <2>1, <2>2, <2>3
<1>4. ASSUME NEW t \in threads, MarkRun(t) PROVE RowsInv'
  <2> DEFINE n == obj[t.job].name
  <2>1. /\ row' = row \/ (row' = [row EXCEPT ![n] = t.status] /\ row[n] # "absent")
        /\ UNCHANGED <<jobs, obj, client>>
    BY <1>4 DEF MarkRun, MarkRow, Write
  <2>2. t.status # "absent"
    BY <1>0, OutcomesAssumption DEF ThreadRecord
  <2>3. \A m \in Names : row'[m] = "absent" <=> row[m] = "absent"
    BY <2>1, <2>2 DEF TypeOK
  <2> QED
    BY <2>1, <2>3, RowsSame
<1>5. ASSUME NEW t \in threads, Notify(t) PROVE RowsInv'
  BY <1>1, <1>5 DEF Notify
<1>6. ASSUME UNCHANGED vars \/ Signal \/ Tick \/ Closed PROVE RowsInv'
  BY <1>1, <1>6 DEF vars, Signal, Tick, Closed
<1> QED
  BY <1>2, <1>3, <1>4, <1>5, <1>6, RowsCall DEF Next, Running

(* RowsFollowJobs (remove, add and their metastore writes): for an          *)
(* embedding program with one thread that calls the scheduler, and as long  *)
(* as no write is lost, the table lists the registered jobs between two of  *)
(* its calls, whatever the loops and the runs do.                           *)
THEOREM OneCallerKeepsRows ==
    ASSUME ~MetastoreFails, \A c, d \in Clients : c = d
    PROVE  Spec => []RowsFollowJobs
<1>1. RowsInv => RowsFollowJobs
  BY DEF RowsInv, RowsFollowJobs, Pending
<1>2. TypeOK /\ RowsInv /\ [Next]_vars => RowsInv'
  BY RowsNext
<1>3. QED
  BY <1>1, <1>2, InitType, NextType, RowsInit, PTL DEF Spec
---------------------------------------------------------------------------
(* Shutdown: what ShutdownCompletes rests on beside fairness.               *)

(* The steps left to the loop until it is gone, once the flag is up: a tick *)
(* under way still starts its batch, which is some of the jobs made.        *)
LoopLeft(l) ==
    CASE loop[l].at = "pick"     -> created + 3
      [] loop[l].at = "dispatch" -> Cardinality(loop[l].batch) + 2
      [] loop[l].at = "wait"     -> 2
      [] loop[l].at = "top"      -> 1
      [] OTHER                   -> 0

(* Those left to "schedule run" after its loop.                             *)
StopLeft(c) ==
    CASE client[c].at = "foreground"          -> 4
      [] client[c].at = "stopping"            -> 3
      [] client[c].at = "joining"             -> 2
      [] client[c].at \in {"joined", "gaveup"} -> 1
      [] OTHER                                -> 0

Left(c) == LoopLeft(1) + StopLeft(c)

(* The flag stays up, and nothing that happens puts the end off; a step of  *)
(* the loop or of stop() brings it nearer.                                  *)
Nearer(c) ==
    /\ stopFlag'
    /\ Left(c)' <= Left(c)
    /\ Looping(1) \/ Stopping(c) => Left(c)' < Left(c)

ShutdownNears == [][Foreground /\ stopFlag => \A c \in Clients : Nearer(c)]_vars

(* The guards of Looping(1) and of Stopping(c).                             *)
LoopMoves ==
    \/ loop[1].at \in {"top", "pick", "wait"}
    \/ /\ loop[1].at = "dispatch"
       /\ \E o \in Objects : /\ o \in loop[1].batch
                             /\ \A p \in loop[1].batch : obj[o].place <= obj[p].place

StopMoves(c) ==
    \/ client[c].at = "foreground" /\ loop[1].at = "exited"
    \/ client[c].at \in {"stopping", "joining", "joined", "gaveup"}

(* Until the command is over, its loop or its stop() can go on: neither     *)
(* waits for a job thread, for time to pass or for a lock.                  *)
ShutdownMoves ==
    Foreground /\ stopFlag =>
        \A c \in Clients : client[c].at = "closed" \/ LoopMoves \/ StopMoves(c)

LoopInv ==
    /\ Foreground => loop[1].at # "off"
    /\ \A l \in Loops : loop[l].at = "dispatch" => loop[l].batch # {}

LEMMA LoopInvNext == TypeOK /\ LoopInv /\ [Next]_vars => LoopInv'
<1> SUFFICES ASSUME TypeOK, LoopInv, [Next]_vars PROVE LoopInv'
  OBVIOUS
<1>0. loop \in [Loops -> LoopRecord] /\ 1 \in Loops
  BY BoundsAssumption DEF TypeOK, Loops
<1>1. ASSUME UNCHANGED loop PROVE LoopInv'
  BY <1>1 DEF LoopInv
<1>2. ASSUME NEW l \in Loops, NEW r, loop' = [loop EXCEPT ![l] = r],
             r.at # "off", r.at = "dispatch" => r.batch # {}
      PROVE  LoopInv'
  BY <1>0, <1>2 DEF LoopInv
<1>3. ASSUME NEW l \in Loops, NEW c \in Clients, StartLoop(c, l) PROVE LoopInv'
  <2> DEFINE r == [loop[l] EXCEPT !.at = "top"]
  <2>1. loop' = [loop EXCEPT ![l] = r] /\ r.at = "top"
    BY <1>0, <1>3 DEF StartLoop, LoopRecord
  <2> HIDE DEF r
  <2> QED
    BY <1>2, <2>1
<1>4. ASSUME NEW l \in Loops, LoopTop(l) PROVE LoopInv'
  <2> DEFINE r == IF stopFlag THEN [loop[l] EXCEPT !.at = "exited"]
                              ELSE [loop[l] EXCEPT !.at = "pick", !.seen = now]
  <2>1. loop' = [loop EXCEPT ![l] = r] /\ r.at \in {"exited", "pick"}
    BY <1>0, <1>4 DEF LoopTop, LoopRecord
  <2> HIDE DEF r
  <2> QED
    BY <1>2, <2>1
<1>5. ASSUME NEW l \in Loops, Wake(l) PROVE LoopInv'
  <2> DEFINE r == [loop[l] EXCEPT !.at = "top"]
  <2>1. loop' = [loop EXCEPT ![l] = r] /\ r.at = "top"
    BY <1>0, <1>5 DEF Wake, LoopRecord
  <2> HIDE DEF r
  <2> QED
    BY <1>2, <2>1
<1>6. ASSUME NEW l \in Loops, DueJobs(l) PROVE LoopInv'
  <2> DEFINE taken == Taken({o \in jobs : IsDue(o, loop[l].seen)})
             r == [loop[l] EXCEPT !.at = IF taken = {} THEN "wait" ELSE "dispatch",
                                  !.seen = 0, !.batch = taken]
  <2>1. loop' = [loop EXCEPT ![l] = r]
    BY <1>0, <1>6 DEF DueJobs
  <2>2. r.at = (IF taken = {} THEN "wait" ELSE "dispatch") /\ r.batch = taken
    <3> HIDE DEF taken
    <3> QED
      BY <1>0 DEF LoopRecord
  <2> HIDE DEF r, taken
  <2> QED
    BY <1>2, <2>1, <2>2
<1>7. ASSUME NEW l \in Loops, NEW o \in Objects, Dispatch(l, o) PROVE LoopInv'
  <2> DEFINE rest == loop[l].batch \ {o}
             r == [loop[l] EXCEPT !.at = IF rest = {} THEN "wait" ELSE "dispatch",
                                  !.batch = rest]
  <2>1. loop' = [loop EXCEPT ![l] = r]
    BY <1>0, <1>7 DEF Dispatch
  <2>2. r.at = (IF rest = {} THEN "wait" ELSE "dispatch") /\ r.batch = rest
    <3> HIDE DEF rest
    <3> QED
      BY <1>0 DEF LoopRecord
  <2> HIDE DEF r, rest
  <2> QED
    BY <1>2, <2>1, <2>2
<1>8. ASSUME NEW c \in Clients, Calls(c) \/ Stopping(c) PROVE LoopInv'
  BY <1>1, <1>3, <1>8
     DEF Calls, Stopping, Add, Remove, RunNow, Upsert, Delete, RunNowEnds,
         Stop, Snapshot, Joined, GaveUp, Stopped
<1>9. ASSUME NEW t \in threads, Running(t) PROVE LoopInv'
  BY <1>1, <1>9 DEF Running, Record, RecordAs, MarkRun, MarkRow, Notify
<1>10. ASSUME UNCHANGED vars \/ Signal \/ Tick \/ Closed PROVE LoopInv'
  BY <1>1, <1>10 DEF vars, Signal, Tick, Closed
<1>11. ASSUME NEW l \in Loops, Looping(l) PROVE LoopInv'
  BY <1>4, <1>5, <1>6, <1>7, <1>11 DEF Looping
<1> QED
  BY <1>8, <1>9, <1>10, <1>11 DEF Next

LEMMA LoopInvInit == Init => LoopInv
<1> SUFFICES ASSUME Init PROVE LoopInv
  OBVIOUS
<1>1. \A l \in Loops : loop[l].at = IF Foreground /\ l = 1 THEN "top" ELSE "off"
  BY DEF Init
<1> QED
  BY <1>1, BoundsAssumption DEF LoopInv, Loops

(* A batch has a first job, the one Dispatch takes.                         *)
LEMMA FirstOfBatch ==
    ASSUME TypeOK, NEW B \in SUBSET Objects, B # {}
    PROVE  \E o \in B : \A p \in B : obj[o].place <= obj[p].place
<1>0. \A o \in B : obj[o].place \in Nat
  BY DEF TypeOK, JobRecord
<1> DEFINE places == {obj[o].place : o \in B}
<1>1. places \in SUBSET Nat /\ places # {}
  BY <1>0
<1>2. PICK n \in places : \A m \in places : ~(<<m, n>> \in OpToRel(<, Nat))
  <2> HIDE DEF places
  <2> QED
    BY <1>1, NatLessThanWellFounded, WFMin
<1>3. \A m \in places : n <= m
  <2> HIDE DEF places
  <2>1. \A m \in places : ~(m < n)
    BY <1>1, <1>2 DEF OpToRel
  <2> QED
    BY <1>1, <2>1
<1> QED
  BY <1>3

LEMMA ShutdownGuards == TypeOK /\ ForegroundInv /\ LoopInv => ShutdownMoves
<1> SUFFICES ASSUME TypeOK, ForegroundInv, LoopInv, Foreground, NEW c \in Clients
             PROVE  client[c].at = "closed" \/ LoopMoves \/ StopMoves(c)
  BY DEF ShutdownMoves
<1>0. /\ 1 \in Loops /\ loop[1] \in LoopRecord /\ client[c] \in ClientRecord
  BY BoundsAssumption DEF TypeOK, Loops
<1>1. loop[1].at \in {"top", "pick", "dispatch", "wait", "exited"}
  BY <1>0 DEF LoopRecord, LoopInv
<1>2. client[c].at \in {"foreground", "stopping", "joining", "joined", "gaveup", "closed"}
  BY <1>0 DEF ClientRecord, ForegroundInv
<1>3. CASE loop[1].at = "dispatch"
  <2>1. loop[1].batch \in SUBSET Objects /\ loop[1].batch # {}
    BY <1>0, <1>3 DEF LoopRecord, LoopInv
  <2> QED
    BY <1>3, <2>1, FirstOfBatch DEF LoopMoves
<1> QED
  BY <1>1, <1>2, <1>3 DEF LoopMoves, StopMoves

LEMMA LeftType ==
    ASSUME TypeOK, NEW c \in Clients
    PROVE  LoopLeft(1) \in Nat /\ StopLeft(c) \in Nat
<1>1. loop[1].batch \in SUBSET Objects /\ created \in Nat
  BY BoundsAssumption DEF TypeOK, LoopRecord, Loops
<1>2. Cardinality(loop[1].batch) \in Nat
  BY <1>1, JobsFinite
<1> QED
  BY <1>1, <1>2 DEF LoopLeft, StopLeft

(* A step of the loop while the flag is up.                                 *)
LEMMA LoopNears ==
    ASSUME TypeOK, stopFlag, NEW l \in Loops, l = 1, Looping(l)
    PROVE  LoopLeft(1)' < LoopLeft(1)
<1>0. /\ loop \in [Loops -> LoopRecord] /\ created \in Nat /\ jobs \subseteq Objects
      /\ created' = created /\ loop[1].batch \in SUBSET Objects
  <2>1. 1 \in Loops /\ loop \in [Loops -> LoopRecord] /\ created \in Nat /\ jobs \subseteq Objects
    BY BoundsAssumption DEF TypeOK, Loops
  <2>2. created' = created
    BY DEF Looping, LoopTop, DueJobs, Dispatch, Wake
  <2> QED
    BY <2>1, <2>2 DEF LoopRecord
<1>1. CASE LoopTop(1)
  <2>1. loop[1].at = "top" /\ loop'[1].at = "exited"
    BY <1>0, <1>1 DEF LoopTop, LoopRecord
  <2> QED
    BY <2>1 DEF LoopLeft
<1>2. CASE Wake(1)
  <2>1. loop[1].at = "wait" /\ loop'[1].at = "top"
    BY <1>0, <1>2 DEF Wake, LoopRecord
  <2> QED
    BY <2>1 DEF LoopLeft
<1>3. CASE DueJobs(1)
  <2> DEFINE taken == Taken({o \in jobs : IsDue(o, loop[1].seen)})
  <2>0. taken \in SUBSET Objects
    BY <1>0 DEF Taken
  <2>1. /\ loop' = [loop EXCEPT ![1] = [loop[1] EXCEPT
              !.at = IF taken = {} THEN "wait" ELSE "dispatch", !.seen = 0, !.batch = taken]]
        /\ loop[1].at = "pick"
    BY <1>0, <1>3 DEF DueJobs
  <2> HIDE DEF taken
  <2>2. /\ loop'[1].batch = taken
        /\ loop'[1].at = IF taken = {} THEN "wait" ELSE "dispatch"
    BY <1>0, <2>1 DEF LoopRecord
  <2>3. Cardinality(taken) \in Nat /\ Cardinality(taken) <= created
    <3>1. IsFiniteSet(Objects) /\ Cardinality(Objects) = created
      BY <1>0, FS_Interval DEF Objects
    <3> QED
      BY <2>0, <3>1, FS_Subset, JobsFinite
  <2> QED
    BY <1>0, <2>1, <2>2, <2>3 DEF LoopLeft
<1>4. ASSUME NEW o \in Objects, Dispatch(1, o) PROVE LoopLeft(1)' < LoopLeft(1)
  <2> DEFINE rest == loop[1].batch \ {o}
  <2>1. /\ loop' = [loop EXCEPT ![1] = [loop[1] EXCEPT
              !.at = IF rest = {} THEN "wait" ELSE "dispatch", !.batch = rest]]
        /\ loop[1].at = "dispatch" /\ o \in loop[1].batch
    BY <1>0, <1>4 DEF Dispatch
  <2>2. /\ Cardinality(loop[1].batch) \in Nat
        /\ Cardinality(rest) = Cardinality(loop[1].batch) - 1
    BY <1>0, <2>1, JobsFinite, FS_RemoveElement
  <2>3. Cardinality(rest) \in Nat
    BY <1>0, JobsFinite
  <2> HIDE DEF rest
  <2>4. /\ loop'[1].batch = rest
        /\ loop'[1].at = IF rest = {} THEN "wait" ELSE "dispatch"
    BY <1>0, <2>1 DEF LoopRecord
  <2> QED
    BY <2>1, <2>2, <2>3, <2>4 DEF LoopLeft
<1> QED
  BY <1>1, <1>2, <1>3, <1>4 DEF Looping

(* A step of stop(), whose joins are over when the threads are, or when the *)
(* timeout is.                                                              *)
LEMMA StopNears ==
    ASSUME TypeOK, Foreground, NEW c \in Clients, Stopping(c)
    PROVE  /\ StopLeft(c)' < StopLeft(c)
           /\ \A d \in Clients \ {c} : client'[d] = client[d]
           /\ UNCHANGED <<loop, created>>
           /\ stopFlag => stopFlag'
<1>0. client \in [Clients -> ClientRecord]
  BY DEF TypeOK
<1>1. /\ \A d \in Clients \ {c} : client'[d] = client[d]
      /\ UNCHANGED <<loop, created>>
      /\ stopFlag => stopFlag'
  BY <1>0 DEF Stopping, Stop, Snapshot, Joined, GaveUp, Stopped
<1>2. \/ client[c].at = "foreground" /\ client'[c].at = "stopping"
      \/ client[c].at = "stopping" /\ client'[c].at = "joining"
      \/ client[c].at = "joining" /\ client'[c].at \in {"joined", "gaveup"}
      \/ client[c].at \in {"joined", "gaveup"} /\ client'[c].at = "closed"
  <2>1. CASE Stop(c)
    BY <1>0, <2>1 DEF Stop, ClientRecord
  <2>2. CASE Snapshot(c)
    BY <1>0, <2>2 DEF Snapshot, ClientRecord
  <2>3. CASE Joined(c)
    BY <1>0, <2>3 DEF Joined, ClientRecord
  <2>4. CASE GaveUp(c)
    BY <1>0, <2>4 DEF GaveUp, ClientRecord
  <2>5. CASE Stopped(c)
    BY <1>0, <2>5 DEF Stopped, At
  <2> QED
    BY <2>1, <2>2, <2>3, <2>4, <2>5 DEF Stopping
<1> QED
  BY <1>1, <1>2 DEF StopLeft

LEMMA ShutdownStep ==
    ASSUME TypeOK, ForegroundInv, [Next]_vars, Foreground, stopFlag, NEW c \in Clients
    PROVE  Nearer(c)
<1>0. /\ LoopLeft(1) \in Nat /\ StopLeft(c) \in Nat
      /\ LoopLeft(1)' \in Nat /\ StopLeft(c)' \in Nat
  <2>1. TypeOK'
    BY NextType
  <2>2. (LoopLeft(1) \in Nat /\ StopLeft(c) \in Nat)'
    BY <2>1, LeftType, PTL
  <2> QED
    BY <2>2, LeftType
<1>1. /\ Looping(1) => loop[1].at \notin {"off", "exited"}
      /\ client[c].at \notin {"idle", "upsert", "delete", "manual"}
      /\ \A d \in Clients : client[d].at # "foreground" => loop[1].at = "exited"
      /\ \A d \in Clients : Stopping(d) => loop[1].at = "exited"
  BY DEF ForegroundInv, Looping, LoopTop, DueJobs, Dispatch, Wake,
         Stopping, Stop, Snapshot, Joined, GaveUp, Stopped
<1>2. CASE Looping(1)
  <2>1. LoopLeft(1)' < LoopLeft(1)
    BY <1>2, LoopNears, BoundsAssumption DEF Loops
  <2>2. UNCHANGED <<client, stopFlag>>
    BY <1>2 DEF Looping, LoopTop, DueJobs, Dispatch, Wake
  <2>3. StopLeft(c)' = StopLeft(c)
    BY <2>2 DEF StopLeft
  <2> QED
    BY <1>0, <2>1, <2>2, <2>3 DEF Nearer, Left
<1>3. CASE Stopping(c)
  <2>1. LoopLeft(1)' = LoopLeft(1)
    BY <1>3, StopNears DEF LoopLeft
  <2> QED
    BY <1>0, <1>3, <2>1, StopNears DEF Nearer, Left
<1>4. ASSUME ~Looping(1), ~Stopping(c), stopFlag', LoopLeft(1)' = LoopLeft(1),
             client'[c] = client[c]
      PROVE  Nearer(c)
  <2>1. StopLeft(c)' = StopLeft(c)
    BY <1>4 DEF StopLeft
  <2> QED
    BY <1>0, <1>4, <2>1 DEF Nearer, Left
<1>5. ASSUME ~Looping(1), ~Stopping(c), UNCHANGED <<loop, created, client, stopFlag>>
      PROVE  Nearer(c)
  <2>1. LoopLeft(1)' = LoopLeft(1)
    BY <1>5 DEF LoopLeft
  <2> QED
    BY <1>4, <1>5, <2>1
<1>6. ASSUME NEW d \in Clients, d # c, Stopping(d), ~Looping(1), ~Stopping(c) PROVE Nearer(c)
  <2>1. LoopLeft(1)' = LoopLeft(1)
    BY <1>6, StopNears DEF LoopLeft
  <2> QED
    BY <1>4, <1>6, <2>1, StopNears
<1>7. ASSUME NEW d \in Clients, Calls(d) PROVE FALSE
  BY <1>7 DEF Calls, Add, Remove, RunNow, Upsert, Delete, RunNowEnds, StartLoop, Idle, ForegroundInv
<1>8. ASSUME NEW l \in Loops, l # 1, Looping(l) PROVE FALSE
  BY <1>8 DEF ForegroundInv, Looping, LoopTop, DueJobs, Dispatch, Wake
<1>9. ASSUME NEW t \in threads, Running(t) PROVE UNCHANGED <<loop, created, client, stopFlag>>
  BY <1>9 DEF Running, Record, RecordAs, MarkRun, MarkRow, Notify
<1>10. ASSUME UNCHANGED vars \/ Signal \/ Tick \/ Closed
       PROVE  UNCHANGED <<loop, created, client, stopFlag>>
  BY <1>10 DEF vars, Signal, Tick, Closed
<1> QED
  BY <1>2, <1>3, <1>5, <1>6, <1>7, <1>8, <1>9, <1>10 DEF Next

(* "schedule run" goes on to its end once it is asked to stop: the flag     *)
(* stays up, no step puts the end off, each step of the loop or of stop()   *)
(* brings it nearer, and until it is there one of them can go on, with job  *)
(* threads that never end.  The rest of ShutdownCompletes is fairness.      *)
THEOREM ShutdownGoesOn ==
    Spec => /\ []ShutdownMoves
            /\ [](\A c \in Clients : Left(c) \in Nat)
            /\ ShutdownNears
<1>1. TypeOK /\ ForegroundInv /\ [Next]_vars
        => [Foreground /\ stopFlag => \A c \in Clients : Nearer(c)]_vars
  BY ShutdownStep
<1>2. TypeOK => \A c \in Clients : Left(c) \in Nat
  BY LeftType DEF Left
<1>3. QED
  BY <1>1, <1>2, InitType, NextType, ForegroundInit, ForegroundNext, LoopInvInit, LoopInvNext,
     ShutdownGuards, PTL DEF Spec, ShutdownNears
---------------------------------------------------------------------------
(* IInv: the strengthening of the safety invariants, as a whole.            *)
THEOREM Invariance == Spec => []IInv
<1>1. Init => IInv
  BY InitType, FlagInit, SlotInit, ForegroundInit, WorkersInit DEF IInv
<1>2. IInv /\ [Next]_vars => IInv'
  BY NextType, FlagNext, SlotNext, ForegroundNext, WorkersNext DEF IInv
<1>3. QED
  BY <1>1, <1>2, PTL DEF Spec
=============================================================================
