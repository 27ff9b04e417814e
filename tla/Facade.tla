------------------------------- MODULE Facade -------------------------------
(***************************************************************************)
(* api.py with the callers that share it: server/app.py, which runs its    *)
(* handlers in a pool of threads, and the command line.  A NexAssure       *)
(* object caches one connector per connection and catalogues the           *)
(* connection when it first connects; runs, profiles and tables go to the  *)
(* metastore, whose steps are those of Metastore.                          *)
(*                                                                         *)
(* A NexAssure object is named by its Metastore.  What the warehouse       *)
(* answers is a choice: a run passes or it does not.                       *)
(***************************************************************************)
EXTENDS Metastore

CONSTANTS
    Home,         \* the process each client runs in
    Jobs,         \* what each of them asks of the facade
    Schema,       \* the schema of the configuration, the one connect() discovers
    Listing,      \* the tables of each schema, in order
    ColumnsOf,    \* the columns of each of them
    Declares,     \* the names of the checks of each suite, in order
    MaxTables,    \* config.metastore.discovery_limit
    AutoDiscover, \* the instances with config.metastore.auto_discover
    NotifyOn,     \* "never", "failure" or "always", with a webhook configured
    RunIds, ProfileIds, \* the identifier of the run, or the profile, of each request
    MaxRequests   \* bound: requests made

VARIABLES
    app,          \* state["instance"] of the application of each process
    made,         \* the NexAssure objects made so far
    version,      \* how often the configuration of a connection was replaced
    cached,       \* _connectors: 0, or the number of a connector
    bootstrapped, \* _bootstrapped
    connectors,   \* the connectors created: by whom, the configuration used, whether an engine is open
    notices,      \* how often the outcome of a run was sent
    request,      \* the request each client is serving, or its last one
    served,       \* requests so far
    overlapped,   \* history: whether two requests were ever served at once
    stopped       \* the processes whose application has stopped

shared    == <<app, made, version, cached, bootstrapped, connectors>>
service   == <<shared, notices, request, served, overlapped, stopped>>
facadeVars == <<vars, service>>

---------------------------------------------------------------------------
(* Jobs *)

Job(kind, name, target) == [kind |-> kind, name |-> name, target |-> target]

\* The jobs that start with connect(), and whether it may discover.
Connecting(job)  == job.kind \in {"run", "run_all", "dry_run", "discover", "profile", "describe_table", "query"}
Discovers(job)   == job.kind \in {"run", "run_all", "dry_run"}

NoRequest ==
    [at |-> "idle", job |-> Job("none", "none", "none"), id |-> "none", store |-> Nobody, connector |-> 0,
     connecting |-> FALSE, schemas |-> <<>>, tables |-> <<>>, seen |-> 0,
     scanned |-> <<>>, counted |-> <<>>, truncated |-> FALSE, outcome |-> "none", answer |-> "none"]

At(t, label)  == request[t].at = label
Name(t)       == request[t].job.name
Target(t)     == request[t].job.target
Store(t)      == request[t].store
Connector(t)  == request[t].connector
Serving       == {t \in Clients : ~At(t, "idle")}

\* The request goes on at a label; some fields of it change.
Go(t, label)           == request' = [request EXCEPT ![t].at = label]
Answer(t, answer) ==
    request' = [request EXCEPT ![t] = [@ EXCEPT !.at = "idle", !.connector = 0, !.tables = <<>>, !.answer = answer]]

(* run_all turns what run_suite raises into an errored result.              *)
Fail(t) == Answer(t, IF request[t].job.kind = "run_all" THEN "errored" ELSE "error")

JobKinds == {"run", "run_all", "dry_run", "discover", "profile", "describe_table", "query", "test",
             "register_connection", "store"}

IsJob(job) ==
    /\ job.kind \in JobKinds
    /\ job.kind # "store" => job.name \in Connections
    /\ job.kind \in {"run", "run_all"} => SyncSuite(job.target, Declares[job.target]) \in Requests
    /\ job.kind = "discover" => job.target \in Seq(DOMAIN Listing)
    /\ job.kind = "describe_table" => job.target \in Datasets
    /\ job.kind = "store" => job.target \in Requests

(* What the jobs ask of the metastore is among the requests of Metastore,   *)
(* and every request has a run and a profile of its own.                    *)
ASSUME HomeAssumption == \A t \in Clients : Home[t] \in Processes
ASSUME JobsAssumption == \A t \in Clients : \A job \in Jobs[t] : IsJob(job)
ASSUME ListingAssumption ==
    /\ Schema \in DOMAIN Listing
    /\ \A s \in DOMAIN Listing : Listing[s] \in Seq(Datasets)
ASSUME DescribedAssumption ==
    /\ \A n \in Connections : RegisterConnection(n) \in Requests
    /\ \A d \in Datasets : ColumnsOf[d] \in Seq(ColumnNames) /\ UpsertDataset(d, ColumnsOf[d]) \in Requests
ASSUME CapAssumption == MaxTables \in Nat
ASSUME NumberedAssumption ==
    /\ MaxRequests \in Nat
    /\ \A n \in 1..MaxRequests : RunIds[n] \in Runs /\ ProfileIds[n] \in Profiles
    /\ \A n \in 1..MaxRequests : {RecordEntry(RunIds[n]), RecordEntry(ProfileIds[n])} \subseteq Requests
    /\ \A m, n \in 1..MaxRequests : RunIds[m] = RunIds[n] => m = n

(* Where the work of a job begins, once it has its connector.               *)
Work(job) == IF job.kind = "discover" THEN "register" ELSE "execute"
First(job) ==
    CASE Connecting(job) -> "lookup"
      [] job.kind = "test" -> "probe"
      [] job.kind = "register_connection" -> "configure"
      [] OTHER -> "store"

Targets(job)    == IF job.kind = "discover" THEN job.target ELSE <<Schema>>
EntryId(job, n) == IF job.kind = "profile" THEN ProfileIds[n] ELSE RunIds[n]

Returned(t) == call[t].at = "idle"
Raised(t)   == call[t].answer = "raised"

---------------------------------------------------------------------------
(* server/app.py: get_nexassure *)

Arrive(t, job) ==
    /\ At(t, "idle") /\ Home[t] \notin stopped /\ served < MaxRequests
    /\ served' = served + 1
    /\ overlapped' = (overlapped \/ Serving # {})
    /\ request' = [request EXCEPT ![t] =
                     [NoRequest EXCEPT !.job = job, !.id = EntryId(job, served + 1),
                                       !.at = IF app[Home[t]] = Nobody THEN "make" ELSE "take"]]
    /\ UNCHANGED <<vars, shared, notices, stopped>>

(* The test and the assignment are two steps: a second first request makes  *)
(* a second instance and replaces the first.                                *)
Make(t) ==
    /\ At(t, "make")
    /\ \E s \in Stores \ made :
         /\ ProcessOf[s] = Home[t]
         /\ made' = made \cup {s}
         /\ app' = [app EXCEPT ![Home[t]] = s]
    /\ Go(t, "take")
    /\ UNCHANGED <<vars, version, cached, bootstrapped, connectors, notices, served, overlapped, stopped>>

Take(t) ==
    /\ At(t, "take")
    /\ LET s == app[Home[t]] IN
         request' = [request EXCEPT ![t].store = s, ![t].at = First(request[t].job)]
    /\ UNCHANGED <<vars, shared, notices, served, overlapped, stopped>>

---------------------------------------------------------------------------
(* NexAssure.connect *)

\* Mutant: the configuration before the last one.
NewConnectorStale(t) == [store |-> Store(t), version |-> version[Store(t)][Name(t)] - 1, open |-> FALSE]

NewConnector(t) == [store |-> Store(t), version |-> version[Store(t)][Name(t)], open |-> FALSE]

Lookup(t) ==
    /\ At(t, "lookup")
    /\ LET k == cached[Store(t)][Name(t)] IN
         IF k # 0
         THEN /\ request' = [request EXCEPT ![t].connector = k, ![t].at = "boot"]
              /\ UNCHANGED connectors
         ELSE /\ connectors' = Append(connectors, NewConnector(t))
              /\ request' = [request EXCEPT ![t].connector = Len(connectors) + 1, ![t].at = "open"]
    /\ UNCHANGED <<vars, app, made, version, cached, bootstrapped, notices, served, overlapped, stopped>>

(* BaseConnector.connect: the engine is kept when the ping answers.         *)
Open(t) ==
    /\ At(t, "open")
    /\ \/ /\ connectors' = [connectors EXCEPT ![Connector(t)].open = TRUE]
          /\ Go(t, "cache")
       \/ /\ "open" \in Faults
          /\ Fail(t)
          /\ UNCHANGED connectors
    /\ UNCHANGED <<vars, app, made, version, cached, bootstrapped, notices, served, overlapped, stopped>>

Cache(t) ==
    /\ At(t, "cache")
    /\ cached' = [cached EXCEPT ![Store(t)][Name(t)] = Connector(t)]
    /\ Go(t, "boot")
    /\ UNCHANGED <<vars, app, made, version, bootstrapped, connectors, notices, served, overlapped, stopped>>

(* The name is marked before its catalogue is made, so that a failure is    *)
(* not repeated at every call.                                              *)
Boot(t) ==
    /\ At(t, "boot")
    /\ IF Name(t) \in bootstrapped[Store(t)]
       THEN /\ Go(t, Work(request[t].job))
            /\ UNCHANGED bootstrapped
       ELSE /\ bootstrapped' = [bootstrapped EXCEPT ![Store(t)] = @ \cup {Name(t)}]
            /\ request' = [request EXCEPT ![t].connecting = TRUE, ![t].at = "register"]
    /\ UNCHANGED <<vars, app, made, version, cached, connectors, notices, served, overlapped, stopped>>

---------------------------------------------------------------------------
(* bootstrap_on_connect, called by connect(), where whatever it raises is   *)
(* swallowed, and by discover().  Its outcome names the schemas it could    *)
(* list (scanned), counts the tables it registered (counted holds which     *)
(* they are) and says whether the cap cut it short (truncated).             *)

(* The catalogue is made, or given up.                                      *)
Catalogued(t) ==
    request' = IF request[t].connecting
               THEN [request EXCEPT ![t].connecting = FALSE, ![t].at = Work(request[t].job)]
               ELSE [request EXCEPT ![t].at = "idle", ![t].connector = 0, ![t].answer = "ok"]

CatalogueRaises(t) == IF request[t].connecting THEN Catalogued(t) ELSE Fail(t)

Register(t) ==
    /\ At(t, "register")
    /\ Call(t, Store(t), RegisterConnection(Name(t)))
    /\ Go(t, "registered")
    /\ UNCHANGED <<shared, notices, served, overlapped, stopped>>

Registered(t) ==
    /\ At(t, "registered") /\ Returned(t)
    /\ IF Raised(t) THEN CatalogueRaises(t)
       ELSE IF request[t].connecting /\ ~(Store(t) \in AutoDiscover /\ Discovers(request[t].job)) THEN Catalogued(t)
       ELSE request' = [request EXCEPT ![t].at = "list", ![t].schemas = Targets(request[t].job)]
    /\ UNCHANGED <<vars, shared, notices, served, overlapped, stopped>>

(* The schemas in turn; one that cannot be listed is left out, of           *)
(* schemas_scanned too.                                                     *)
ListTables(t) ==
    /\ At(t, "list")
    /\ IF request[t].schemas = <<>> THEN Catalogued(t)
       ELSE LET s == Head(request[t].schemas) IN
            \/ request' = [request EXCEPT ![t].schemas = Tail(@), ![t].at = "walk",
                                          ![t].tables = Listing[s], ![t].scanned = Append(@, s)]
            \/ "list" \in Faults /\ request' = [request EXCEPT ![t].schemas = Tail(@)]
    /\ UNCHANGED <<vars, shared, notices, served, overlapped, stopped>>

(* The tables of a schema in turn, up to the cap, which counts what was     *)
(* described; one that cannot be described is skipped, and nothing says so. *)
WalkTables(t) ==
    /\ At(t, "walk")
    /\ \/ /\ request[t].tables = <<>>
          /\ Go(t, "list")
          /\ UNCHANGED vars
       \/ /\ request[t].tables # <<>> /\ request[t].seen >= MaxTables
          /\ request' = [request EXCEPT ![t].truncated = TRUE, ![t].schemas = <<>>, ![t].at = "list"]
          /\ UNCHANGED vars
       \/ /\ request[t].tables # <<>> /\ request[t].seen < MaxTables /\ "walk" \in Faults
          /\ request' = [request EXCEPT ![t].tables = Tail(@)]
          /\ UNCHANGED vars
       \/ /\ request[t].tables # <<>> /\ request[t].seen < MaxTables
          /\ LET d == Head(request[t].tables) IN Call(t, Store(t), UpsertDataset(d, ColumnsOf[d]))
          /\ Go(t, "upserted")
    /\ UNCHANGED <<shared, notices, served, overlapped, stopped>>

\* Mutant: a table the metastore has lost is counted as well.
UpsertedUnheard(t) ==
    /\ At(t, "upserted") /\ Returned(t)
    /\ IF Raised(t) THEN CatalogueRaises(t)
       ELSE request' = [request EXCEPT ![t].tables = Tail(@), ![t].seen = @ + 1, ![t].at = "walk",
                                       ![t].counted = Append(@, Head(request[t].tables))]
    /\ UNCHANGED <<vars, shared, notices, served, overlapped, stopped>>

(* A table the metastore has lost counts against the cap and not as         *)
(* registered.                                                              *)
Upserted(t) ==
    /\ At(t, "upserted") /\ Returned(t)
    /\ IF Raised(t) THEN CatalogueRaises(t)
       ELSE request' = [request EXCEPT ![t].tables = Tail(@), ![t].seen = @ + 1, ![t].at = "walk",
                          ![t].counted = IF call[t].answer = "ok" THEN Append(@, Head(request[t].tables)) ELSE @]
    /\ UNCHANGED <<vars, shared, notices, served, overlapped, stopped>>

---------------------------------------------------------------------------
(* The work itself *)

(* A query asks the connector for its engine, and a connector that another  *)
(* request has closed connects again.  The checks of a run turn a failure   *)
(* into errored results; the other jobs raise it.                           *)
Execute(t) ==
    /\ At(t, "execute")
    /\ \/ /\ request[t].job.kind = "dry_run"
          /\ Answer(t, "planned")
          /\ UNCHANGED connectors
       \/ /\ request[t].job.kind # "dry_run"
          /\ connectors' = [connectors EXCEPT ![Connector(t)].open = TRUE]
          /\ CASE request[t].job.kind \in {"run", "run_all"} ->
                    \E outcome \in {"passed", "failed"} :
                      request' = [request EXCEPT ![t].outcome = outcome, ![t].at = "sync"]
               [] request[t].job.kind = "profile" -> Go(t, "keep")
               [] request[t].job.kind = "describe_table" -> Go(t, "catalogue")
               [] OTHER -> Answer(t, "ok")
       \/ /\ "execute" \in Faults /\ request[t].job.kind \notin {"dry_run", "run", "run_all"}
          /\ Fail(t)
          /\ UNCHANGED connectors
    /\ UNCHANGED <<vars, app, made, version, cached, bootstrapped, notices, served, overlapped, stopped>>

(* One call of the store for the job, and where the request waits for it.   *)
Ask(t, label, op, next) ==
    /\ At(t, label)
    /\ Call(t, Store(t), op)
    /\ Go(t, next)
    /\ UNCHANGED <<shared, notices, served, overlapped, stopped>>

Sync(t)      == Ask(t, "sync", SyncSuite(Target(t), Declares[Target(t)]), "synced")
Keep(t)      == Ask(t, "keep", RecordEntry(request[t].id), "kept")
Catalogue(t) == Ask(t, "catalogue", UpsertDataset(Target(t), ColumnsOf[Target(t)]), "done")
Direct(t)    == Ask(t, "store", Target(t), "done")

\* Mutant: what the store raises is swallowed.
ResumeAnyway(t, label, proceed) ==
    /\ At(t, label) /\ Returned(t)
    /\ proceed
    /\ UNCHANGED <<vars, shared, notices, served, overlapped, stopped>>

(* What follows: run_suite goes on only when the store has not raised.      *)
Resume(t, label, proceed) ==
    /\ At(t, label) /\ Returned(t)
    /\ IF Raised(t) THEN Fail(t) ELSE proceed
    /\ UNCHANGED <<vars, shared, notices, served, overlapped, stopped>>

Synced(t) == Resume(t, "synced", Go(t, "keep"))
Kept(t)   == Resume(t, "kept", IF request[t].job.kind = "profile" THEN Answer(t, "ok") ELSE Go(t, "notify"))
Done(t)   == Resume(t, "done", Answer(t, "ok"))

(* _notify; a webhook that fails changes nothing.                           *)
Notifies(outcome) == NotifyOn = "always" \/ (NotifyOn = "failure" /\ outcome # "passed")

Notify(t) ==
    /\ At(t, "notify")
    /\ notices' = [notices EXCEPT ![request[t].id] = IF Notifies(request[t].outcome) THEN @ + 1 ELSE @]
    /\ Answer(t, request[t].outcome)
    /\ UNCHANGED <<vars, shared, served, overlapped, stopped>>

---------------------------------------------------------------------------
(* test_connection: a connector of its own, closed whatever happens.        *)

Test(t) ==
    /\ At(t, "probe")
    /\ \E open \in {TRUE} \cup (IF "open" \in Faults THEN {FALSE} ELSE {}) :
         connectors' = Append(connectors, [NewConnector(t) EXCEPT !.open = open])
    /\ request' = [request EXCEPT ![t].connector = Len(connectors) + 1, ![t].at = "report"]
    /\ UNCHANGED <<vars, app, made, version, cached, bootstrapped, notices, served, overlapped, stopped>>

Report(t) == Ask(t, "report", RegisterConnection(Name(t)), "reported")

CloseProbe(t) ==
    /\ At(t, "reported") /\ Returned(t)
    /\ connectors' = [connectors EXCEPT ![Connector(t)].open = FALSE]
    /\ IF Raised(t) THEN Fail(t) ELSE Answer(t, "ok")
    /\ UNCHANGED <<vars, app, made, version, cached, bootstrapped, notices, served, overlapped, stopped>>

---------------------------------------------------------------------------
(* register_connection: the configuration is replaced, the cached connector *)
(* dropped and closed, and the next connect() makes the catalogue again.    *)

Configure(t) ==
    /\ At(t, "configure")
    /\ version' = [version EXCEPT ![Store(t)][Name(t)] = @ + 1]
    /\ Go(t, "pop")
    /\ UNCHANGED <<vars, app, made, cached, bootstrapped, connectors, notices, served, overlapped, stopped>>

\* Mutant: the connector is closed and stays in the cache.
PopNothing(t) ==
    /\ At(t, "pop")
    /\ request' = [request EXCEPT ![t].connector = cached[Store(t)][Name(t)], ![t].at = "forget"]
    /\ UNCHANGED <<vars, shared, notices, served, overlapped, stopped>>

Pop(t) ==
    /\ At(t, "pop")
    /\ cached' = [cached EXCEPT ![Store(t)][Name(t)] = 0]
    /\ request' = [request EXCEPT ![t].connector = cached[Store(t)][Name(t)], ![t].at = "forget"]
    /\ UNCHANGED <<vars, app, made, version, bootstrapped, connectors, notices, served, overlapped, stopped>>

Closing(ks) == [k \in DOMAIN connectors |-> [connectors[k] EXCEPT !.open = @ /\ k \notin ks]]

\* Mutant: the connector is dropped and not closed.
ForgetOpen(t) ==
    /\ At(t, "forget")
    /\ bootstrapped' = [bootstrapped EXCEPT ![Store(t)] = @ \ {Name(t)}]
    /\ Answer(t, "ok")
    /\ UNCHANGED <<vars, app, made, version, cached, connectors, notices, served, overlapped, stopped>>

Forget(t) ==
    /\ At(t, "forget")
    /\ connectors' = Closing({Connector(t)})
    /\ bootstrapped' = [bootstrapped EXCEPT ![Store(t)] = @ \ {Name(t)}]
    /\ Answer(t, "ok")
    /\ UNCHANGED <<vars, app, made, version, cached, notices, served, overlapped, stopped>>

---------------------------------------------------------------------------

(* The lifespan of the application ends, or the command line leaves its     *)
(* with block, when the requests have been answered: NexAssure.close.       *)
Shutdown(p) ==
    /\ p \notin stopped /\ app[p] # Nobody
    /\ \A t \in Serving : Home[t] # p
    /\ stopped' = stopped \cup {p}
    /\ connectors' = Closing({cached[app[p]][n] : n \in Connections})
    /\ cached' = [cached EXCEPT ![app[p]] = [n \in Connections |-> 0]]
    /\ bootstrapped' = [bootstrapped EXCEPT ![app[p]] = {}]
    /\ Close(app[p])
    /\ UNCHANGED <<app, made, version, notices, request, served, overlapped>>

(* A call of the store takes a step of its own.                             *)
StoreStep(t) == Step(t) /\ UNCHANGED service

Serve(t) ==
    \/ Make(t) \/ Take(t)
    \/ Lookup(t) \/ Open(t) \/ Cache(t) \/ Boot(t)
    \/ Register(t) \/ Registered(t) \/ ListTables(t) \/ WalkTables(t) \/ Upserted(t)
    \/ Execute(t) \/ Sync(t) \/ Synced(t) \/ Keep(t) \/ Kept(t) \/ Catalogue(t) \/ Direct(t) \/ Done(t)
    \/ Notify(t)
    \/ Test(t) \/ Report(t) \/ CloseProbe(t)
    \/ Configure(t) \/ Pop(t) \/ Forget(t)
    \/ StoreStep(t)

FacadeInit ==
    /\ Init
    /\ app = [p \in Processes |-> Nobody] /\ made = {}
    /\ version = [s \in Stores |-> [n \in Connections |-> 0]]
    /\ cached = [s \in Stores |-> [n \in Connections |-> 0]]
    /\ bootstrapped = [s \in Stores |-> {}]
    /\ connectors = <<>>
    /\ notices = [r \in Runs |-> 0]
    /\ request = [t \in Clients |-> NoRequest]
    /\ served = 0 /\ overlapped = FALSE /\ stopped = {}

(* Nobody asks for anything any more.  A state in which a request waits and *)
(* nothing can happen is a deadlock.                                        *)
Rest == Serving = {} /\ UNCHANGED facadeVars

FacadeNext ==
    \/ \E t \in Clients : \E job \in Jobs[t] : Arrive(t, job)
    \/ \E t \in Clients : Serve(t)
    \/ \E p \in Processes : Shutdown(p)
    \/ \E i \in Ids : Age(i) /\ UNCHANGED service
    \/ Rest

FacadeSpec == FacadeInit /\ [][FacadeNext]_facadeVars

---------------------------------------------------------------------------
(* Properties *)

FacadeTypeOK ==
    /\ StoreTypeOK
    /\ app \in [Processes -> Stores \cup {Nobody}] /\ made \subseteq Stores
    /\ cached \in [Stores -> [Connections -> 0 .. Len(connectors)]]
    /\ bootstrapped \in [Stores -> SUBSET Connections]
    /\ connectors \in Seq([store : Stores, version : Nat, open : BOOLEAN])
    /\ notices \in [Runs -> Nat]
    /\ stopped \subseteq Processes

(* run_suite: a run that is answered with its outcome has been given to the *)
(* metastore, and where the store is strict it is in the history until it   *)
(* is purged; it was announced exactly when the policy asks for it, once.   *)
(* A run whose call raises is not announced.                                *)
RunAccounted ==
    \A t \in Clients :
      LET r == request[t] IN
        At(t, "idle") /\ r.job.kind \in {"run", "run_all"} =>
          /\ r.answer \in {"passed", "failed"} =>
               /\ r.answer = r.outcome
               /\ r.id \in recorded
               /\ r.store \in Strict => r.id \in headers \cup old
               /\ notices[r.id] = IF Notifies(r.outcome) THEN 1 ELSE 0
          /\ r.answer \in {"error", "errored"} => notices[r.id] = 0

(* connect(): what the cache holds is a connector whose connect() has       *)
(* succeeded and that nobody has closed; and as long as no two requests     *)
(* were ever served at once, it was built from the newest configuration.    *)
CacheUsable ==
    \A s \in Stores, n \in Connections :
      cached[s][n] # 0 =>
        /\ connectors[cached[s][n]].open
        /\ overlapped \/ connectors[cached[s][n]].version = version[s][n]
             \/ \E t \in Clients : At(t, "pop")

(* "Dispose of connection pools when the server stops": as long as no two   *)
(* requests were ever served at once, an application that has stopped has   *)
(* left no engine open.                                                     *)
PoolsDisposed ==
    ~overlapped =>
      \A k \in DOMAIN connectors : connectors[k].open => ProcessOf[connectors[k].store] \notin stopped

(* bootstrap_on_connect: what the outcome counts as registered is in the    *)
(* metastore with all its columns and comes from a schema it says it has    *)
(* scanned, however other clients write the same rows; it describes no more *)
(* tables than the cap, and says it was cut short only when the cap was     *)
(* reached.  It does not say whether a schema or table was passed over.     *)
InCatalogue(d) ==
    DatasetKey(d) \in rows /\ \A x \in DOMAIN ColumnsOf[d] : ColumnKey(d, ColumnsOf[d][x]) \in rows

CatalogueCounted ==
    \A t \in Clients :
      LET r == request[t] IN
        /\ Len(r.counted) <= r.seen /\ r.seen <= MaxTables
        /\ r.truncated => r.seen = MaxTables
        /\ \A i \in DOMAIN r.counted :
             /\ InCatalogue(r.counted[i])
             /\ \E j \in DOMAIN r.scanned : \E k \in DOMAIN Listing[r.scanned[j]] :
                  Listing[r.scanned[j]][k] = r.counted[i]

(* Whatever the facade does, the metastore sees calls of its own interface: *)
(* what is proved of Metastore holds of it here.                            *)
UsesMetastore == Spec
=============================================================================
