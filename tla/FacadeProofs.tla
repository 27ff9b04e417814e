---------------------------- MODULE FacadeProofs ----------------------------
(***************************************************************************)
(* Proofs about Facade, for all clients, jobs, configurations and faults:  *)
(* it uses the metastore by its interface, so that what MetastoreProofs    *)
(* shows holds of the service; a run is answered, kept and announced as    *)
(* one; and the cache of connectors.                                       *)
(***************************************************************************)
EXTENDS Facade, MetastoreProofs

RunKinds == {"run", "run_all"}
AllJobs  == {NoRequest.job} \cup UNION {Jobs[t] : t \in Clients}

Catalog == {"lookup", "open", "cache", "boot", "register", "registered", "list", "walk", "upserted"}
Labels  ==
    {"idle", "make", "take", "execute", "sync", "synced", "keep", "kept", "catalogue", "store", "done", "notify",
     "probe", "report", "reported", "configure", "pop", "forget"} \cup Catalog

RequestType ==
    [at : Labels, job : AllJobs, id : Ids \cup {"none"}, store : Stores \cup {Nobody}, connector : Nat,
     connecting : BOOLEAN, schemas : Seq(DOMAIN Listing), tables : Seq(Datasets), seen : Nat,
     scanned : Seq(DOMAIN Listing), counted : Seq(Datasets), truncated : BOOLEAN, outcome : {"none", "passed", "failed"},
     answer : {"none", "ok", "error", "errored", "planned", "passed", "failed"}]

Engine == [store : Stores, version : Nat, open : BOOLEAN]

(* The kinds of job that pass a label.                                      *)
Passes(kind, label) ==
    /\ label # "idle" => kind # "none"
    /\ label \in Catalog => kind \notin {"none", "store", "test", "register_connection"}
    /\ label \in {"sync", "synced", "notify"} => kind \in RunKinds
    /\ label \in {"keep", "kept"} => kind \in RunKinds \cup {"profile"}
    /\ label = "execute" => kind \in RunKinds \cup {"dry_run", "profile", "describe_table", "query"}
    /\ label = "catalogue" => kind = "describe_table"
    /\ label = "store" => kind = "store"
    /\ label \in {"probe", "report", "reported", "configure", "pop", "forget"} => kind # "store"

(* A request record that fits its job, when there are n connectors.         *)
Good(r, n) ==
    /\ r \in RequestType
    /\ r.connector <= n
    /\ Passes(r.job.kind, r.at)
    /\ r.at # "idle" => RecordEntry(r.id) \in Requests
    /\ r.at \notin {"idle", "make", "take"} => r.store \in Stores

RequestOK(t) ==
    /\ Good(request[t], Len(connectors))
    /\ At(t, "take") => app[Home[t]] \in Stores
    /\ At(t, "upserted") => request[t].tables # <<>>

GlobalsOK ==
    /\ app \in [Processes -> Stores \cup {Nobody}] /\ made \subseteq Stores
    /\ version \in [Stores -> [Connections -> Nat]]
    /\ cached \in [Stores -> [Connections -> 0 .. Len(connectors)]]
    /\ bootstrapped \in [Stores -> SUBSET Connections]
    /\ connectors \in Seq(Engine)
    /\ notices \in [Runs -> Nat]
    /\ served \in 0 .. MaxRequests /\ overlapped \in BOOLEAN /\ stopped \subseteq Processes

ServiceOK ==
    /\ GlobalsOK
    /\ request \in [Clients -> RequestType]
    /\ \A t \in Clients : RequestOK(t)

---------------------------------------------------------------------------
(* Requests and their labels *)

LEMMA JobFacts ==
    ASSUME NEW job \in AllJobs, job.kind # "none"
    PROVE  /\ job.kind \in JobKinds
           /\ job.kind # "store" => job.name \in Connections
           /\ job.kind \in RunKinds => SyncSuite(job.target, Declares[job.target]) \in Requests
           /\ job.kind = "discover" => job.target \in Seq(DOMAIN Listing)
           /\ job.kind = "describe_table" => job.target \in Datasets
           /\ job.kind = "store" => job.target \in Requests
  <1>1. NoRequest.job.kind = "none"
    BY DEF NoRequest, Job
  <1>2. PICK t \in Clients : job \in Jobs[t]
    BY <1>1 DEF AllJobs
  <1>3. IsJob(job)
    BY <1>2, JobsAssumption
  <1> QED
    BY <1>3 DEF IsJob, RunKinds

(* A request goes on at another label.                                      *)
LEMMA GoodMoves ==
    ASSUME NEW q, NEW n \in Nat, Good(q, n), q.at \notin {"idle", "make", "take"}, NEW l \in Labels,
           Passes(q.job.kind, l), NEW r, r = [q EXCEPT !.at = l]
    PROVE  Good(r, n)
  BY DEF Good, RequestType

LEMMA GoodAnswers ==
    ASSUME NEW q, NEW n \in Nat, Good(q, n),
           NEW a \in {"none", "ok", "error", "errored", "planned", "passed", "failed"},
           NEW r, r = [q EXCEPT !.at = "idle", !.connector = 0, !.tables = <<>>, !.answer = a]
    PROVE  Good(r, n)
  <1>1. "idle" \in Labels /\ <<>> \in Seq(Datasets) /\ 0 \in Nat /\ 0 <= n
    BY EmptySeq DEF Labels
  <1>2. Passes(q.job.kind, "idle")
    BY DEF Passes, Catalog
  <1> QED
    BY <1>1, <1>2 DEF Good, RequestType

LEMMA GoodEnds ==
    ASSUME NEW q, NEW n \in Nat, Good(q, n), NEW r, r = [q EXCEPT !.at = "idle", !.connector = 0, !.answer = "ok"]
    PROVE  Good(r, n) /\ r.at = "idle"
  <1>1. "idle" \in Labels /\ 0 \in Nat /\ 0 <= n
    BY DEF Labels
  <1>2. Passes(q.job.kind, "idle")
    BY DEF Passes, Catalog
  <1> QED
    BY <1>1, <1>2 DEF Good, RequestType

LEMMA GoodGrows ==
    ASSUME NEW q, NEW n \in Nat, NEW m \in Nat, n <= m, Good(q, n)
    PROVE  Good(q, m)
  BY DEF Good, RequestType

LEMMA FirstPasses ==
    ASSUME NEW job \in AllJobs, job.kind # "none"
    PROVE  First(job) \in Labels \ {"idle", "make", "take", "upserted"} /\ Passes(job.kind, First(job))
  <1>1. job.kind \in JobKinds
    BY JobFacts
  <1>2. CASE Connecting(job)
    BY <1>1, <1>2 DEF First, Passes, Labels, Catalog, Connecting
  <1>3. CASE ~Connecting(job)
    BY <1>1, <1>3 DEF First, Passes, Labels, Catalog, Connecting, JobKinds
  <1> QED
    BY <1>2, <1>3

LEMMA WorkPasses ==
    ASSUME NEW job \in AllJobs, job.kind \notin {"none", "store", "test", "register_connection"}
    PROVE  Work(job) \in {"register", "execute"} /\ Passes(job.kind, Work(job))
  <1>1. job.kind \in JobKinds
    BY JobFacts
  <1> QED
    BY <1>1 DEF Work, Passes, Catalog, JobKinds, RunKinds

---------------------------------------------------------------------------
(* The steps of a request *)

(* A step that only moves or answers its request leaves it in order.        *)
LEMMA MovesOK ==
    ASSUME ServiceOK, NEW t \in Clients, ~At(t, "idle"), ~At(t, "make"), ~At(t, "take"),
           NEW l \in Labels, Passes(request[t].job.kind, l), Go(t, l)
    PROVE  /\ Good(request'[t], Len(connectors)) /\ request'[t].at = l
           /\ \A d \in Clients : d # t => request'[d] = request[d]
  <1>1. Good(request[t], Len(connectors)) /\ Len(connectors) \in Nat /\ request \in [Clients -> RequestType]
    BY DEF ServiceOK, RequestOK, GlobalsOK
  <1>2. request'[t] = [request[t] EXCEPT !.at = l] /\ \A d \in Clients : d # t => request'[d] = request[d]
    BY <1>1 DEF Go
  <1>3. Good(request'[t], Len(connectors))
    BY <1>1, <1>2, GoodMoves DEF At
  <1>4. request'[t].at = l
    BY <1>1, <1>2 DEF RequestType
  <1> QED
    BY <1>2, <1>3, <1>4

LEMMA AnswersOK ==
    ASSUME ServiceOK, NEW t \in Clients,
           NEW a \in {"none", "ok", "error", "errored", "planned", "passed", "failed"}, Answer(t, a)
    PROVE  /\ Good(request'[t], Len(connectors)) /\ request'[t].at = "idle"
           /\ \A d \in Clients : d # t => request'[d] = request[d]
  <1>1. Good(request[t], Len(connectors)) /\ Len(connectors) \in Nat /\ request \in [Clients -> RequestType]
    BY DEF ServiceOK, RequestOK, GlobalsOK
  <1>2. /\ request'[t] = [request[t] EXCEPT !.at = "idle", !.connector = 0, !.tables = <<>>, !.answer = a]
        /\ \A d \in Clients : d # t => request'[d] = request[d]
    BY <1>1 DEF Answer
  <1>3. Good(request'[t], Len(connectors))
    BY <1>1, <1>2, GoodAnswers
  <1>4. request'[t].at = "idle"
    BY <1>1, <1>2 DEF RequestType
  <1> QED
    BY <1>2, <1>3, <1>4

Touches(t) == \E r : request' = [request EXCEPT ![t] = r]

(* What a step of the service keeps.                                        *)
Served(t) ==
    /\ GlobalsOK' /\ Len(connectors) <= Len(connectors')
    /\ Touches(t)
    /\ Good(request'[t], Len(connectors'))
    /\ request'[t].at = "take" => app'[Home[t]] \in Stores
    /\ request'[t].at = "upserted" => request'[t].tables # <<>>
    /\ \A p \in Processes : app[p] \in Stores => app'[p] \in Stores

Quiet == UNCHANGED <<shared, notices, served, overlapped, stopped>>

LEMMA QuietOK ==
    ASSUME GlobalsOK, Quiet
    PROVE  GlobalsOK' /\ connectors' = connectors /\ app' = app
  BY DEF GlobalsOK, Quiet, shared

LEMMA Facts ==
    ASSUME ServiceOK, NEW t \in Clients
    PROVE  /\ GlobalsOK /\ request \in [Clients -> RequestType] /\ request[t] \in RequestType
           /\ Good(request[t], Len(connectors)) /\ Len(connectors) \in Nat
           /\ \A p \in Processes : app[p] \in Stores \cup {Nobody}
           /\ Home[t] \in Processes
           /\ ~At(t, "idle") => request[t].job.kind # "none" /\ RecordEntry(request[t].id) \in Requests
           /\ ~At(t, "idle") /\ request[t].job.kind # "store" => Name(t) \in Connections
           /\ request[t].at \notin {"idle", "make", "take"} => Store(t) \in Stores
  <1>1. Good(request[t], Len(connectors)) /\ GlobalsOK /\ request \in [Clients -> RequestType]
    BY DEF ServiceOK, RequestOK
  <1>2. request[t].job \in AllJobs
    BY <1>1 DEF RequestType
  <1>3. ~At(t, "idle") => request[t].job.kind # "none"
    BY <1>1 DEF Good, Passes, At
  <1>4. ~At(t, "idle") /\ request[t].job.kind # "store" => Name(t) \in Connections
    BY <1>2, <1>3, JobFacts DEF Name
  <1> QED
    BY <1>1, <1>3, <1>4, HomeAssumption DEF Good, GlobalsOK, At, Store

(* A step that changes nothing else and moves its request.                  *)
LEMMA QuietMove ==
    ASSUME ServiceOK, NEW t \in Clients, Quiet, ~At(t, "idle"), ~At(t, "make"), ~At(t, "take"),
           NEW l \in Labels \ {"take", "upserted"}, Passes(request[t].job.kind, l), Go(t, l)
    PROVE  Served(t)
  <1>1. GlobalsOK /\ GlobalsOK' /\ connectors' = connectors /\ app' = app /\ Len(connectors) \in Nat
    BY QuietOK, Facts
  <1>2. Good(request'[t], Len(connectors)) /\ request'[t].at = l
    BY MovesOK
  <1>3. Touches(t)
    BY DEF Go, Touches
  <1> QED
    BY <1>1, <1>2, <1>3 DEF Served

LEMMA QuietAnswer ==
    ASSUME ServiceOK, NEW t \in Clients, Quiet,
           NEW a \in {"none", "ok", "error", "errored", "planned", "passed", "failed"}, Answer(t, a)
    PROVE  Served(t)
  <1>1. GlobalsOK /\ GlobalsOK' /\ connectors' = connectors /\ app' = app /\ Len(connectors) \in Nat
    BY QuietOK, Facts
  <1>2. Good(request'[t], Len(connectors)) /\ request'[t].at = "idle"
    BY AnswersOK
  <1>3. Touches(t)
    BY DEF Answer, Touches
  <1> QED
    BY <1>1, <1>2, <1>3 DEF Served

LEMMA QuietFail ==
    ASSUME ServiceOK, NEW t \in Clients, Quiet, Fail(t)
    PROVE  Served(t)
  BY QuietAnswer DEF Fail

LEMMA CatalogueEnds ==
    ASSUME ServiceOK, NEW t \in Clients, Quiet, request[t].at \in Catalog, Catalogued(t)
    PROVE  Served(t)
  <1>1. PICK q : q = request[t]
    OBVIOUS
  <1>2. /\ Good(q, Len(connectors)) /\ q \in RequestType /\ Len(connectors) \in Nat
        /\ request \in [Clients -> RequestType] /\ GlobalsOK' /\ connectors' = connectors /\ app' = app
    BY <1>1, QuietOK, Facts
  <1>3. q.job \in AllJobs /\ q.job.kind \notin {"none", "store", "test", "register_connection"} /\ q.at \in Catalog
    BY <1>1, <1>2 DEF Good, Passes, RequestType
  <1>4. Work(q.job) \in {"register", "execute"} /\ Passes(q.job.kind, Work(q.job))
    BY <1>3, WorkPasses
  <1>5. CASE q.connecting
    <2> DEFINE l == Work(q.job)
    <2>1. request'[t] = [q EXCEPT !.connecting = FALSE, !.at = l]
      BY <1>1, <1>2, <1>5 DEF Catalogued
    <2>2. Touches(t)
      BY <1>1, <1>5 DEF Catalogued, Touches
    <2>3. l \in Labels /\ l \notin {"idle", "make", "take"}
      BY <1>4 DEF Labels, Catalog
    <2> HIDE DEF l
    <2>4. Good(request'[t], Len(connectors)) /\ request'[t].at \notin {"take", "upserted"}
      BY <1>2, <1>3, <1>4, <2>1, <2>3, ZenonT(30) DEF Good, RequestType, Catalog, l
    <2> QED
      BY <1>2, <2>2, <2>4 DEF Served
  <1>6. CASE ~q.connecting
    <2>1. request'[t] = [q EXCEPT !.at = "idle", !.connector = 0, !.answer = "ok"]
      BY <1>1, <1>2, <1>6 DEF Catalogued
    <2>2. Touches(t)
      BY <1>1, <1>6 DEF Catalogued, Touches
    <2>5. Good(request'[t], Len(connectors)) /\ request'[t].at = "idle"
      BY <1>2, <2>1, GoodEnds
    <2> QED
      BY <1>2, <2>2, <2>5 DEF Served
  <1> QED
    BY <1>5, <1>6

(* A step that also sets other fields than the label, and not the store,    *)
(* the job or the identifier.                                               *)
LEMMA GoodUpdates ==
    ASSUME NEW q, NEW n \in Nat, NEW m \in Nat, n <= m, Good(q, n), q.at \notin {"idle", "make", "take"},
           NEW r \in RequestType, r.job = q.job, r.id = q.id, r.store = q.store, r.connector <= m,
           Passes(q.job.kind, r.at)
    PROVE  Good(r, m)
  BY DEF Good

(* The first two steps: the object of the process is made and taken.        *)
LEMMA MakeOK ==
    ASSUME ServiceOK, NEW t \in Clients, Make(t)
    PROVE  Served(t)
  <1>1. PICK q : q = request[t]
    OBVIOUS
  <1>2. /\ Good(q, Len(connectors)) /\ q \in RequestType /\ Len(connectors) \in Nat
        /\ request \in [Clients -> RequestType] /\ GlobalsOK /\ Home[t] \in Processes /\ q.at = "make"
    BY <1>1, Facts DEF Make, At
  <1>3. PICK s \in Stores \ made : made' = made \cup {s} /\ app' = [app EXCEPT ![Home[t]] = s]
    BY DEF Make
  <1>4. GlobalsOK' /\ connectors' = connectors
    BY <1>2, <1>3 DEF Make, GlobalsOK
  <1>5. app'[Home[t]] = s /\ \A p \in Processes : app[p] \in Stores => app'[p] \in Stores
    BY <1>2, <1>3 DEF GlobalsOK
  <1>6. request'[t] = [q EXCEPT !.at = "take"] /\ Touches(t)
    BY <1>1, <1>2 DEF Make, Go, Touches
  <1>7. request'[t] \in RequestType /\ request'[t].at = "take" /\ request'[t].job = q.job /\ request'[t].id = q.id
        /\ request'[t].connector = q.connector
    BY <1>2, <1>6 DEF RequestType, Labels
  <1>8. Good(request'[t], Len(connectors))
    BY <1>2, <1>7 DEF Good, Passes, Catalog
  <1> QED
    BY <1>2, <1>4, <1>5, <1>6, <1>8 DEF Served

LEMMA TakeOK ==
    ASSUME ServiceOK, NEW t \in Clients, Take(t)
    PROVE  Served(t)
  <1>1. PICK q : q = request[t]
    OBVIOUS
  <1>2. /\ Good(q, Len(connectors)) /\ q \in RequestType /\ Len(connectors) \in Nat
        /\ request \in [Clients -> RequestType] /\ GlobalsOK /\ q.at = "take" /\ q.job.kind # "none"
    BY <1>1, Facts DEF Take, At
  <1>3. PICK s : s = app[Home[t]]
    OBVIOUS
  <1>4. s \in Stores
    BY <1>3 DEF ServiceOK, RequestOK, Take
  <1>5. q.job \in AllJobs
    BY <1>2 DEF RequestType
  <1>6. PICK l : l = First(q.job)
    OBVIOUS
  <1>7. l \in Labels /\ l \notin {"idle", "make", "take", "upserted"} /\ Passes(q.job.kind, l)
    BY <1>2, <1>5, <1>6, FirstPasses
  <1>8. request'[t] = [q EXCEPT !.store = s, !.at = l]
    BY <1>1, <1>2, <1>3, <1>6 DEF Take
  <1>touch. Touches(t)
    BY DEF Take, Touches
  <1>9. /\ request'[t] \in RequestType /\ request'[t].at = l /\ request'[t].job = q.job /\ request'[t].id = q.id
        /\ request'[t].connector = q.connector /\ request'[t].store = s
    <2>1. q \in RequestType /\ s \in Stores /\ l \in Labels
      BY <1>2, <1>4, <1>7
    <2>2. PICK r : r = request'[t]
      OBVIOUS
    <2>3. r = [q EXCEPT !.store = s, !.at = l]
      BY <1>8, <2>2
    <2>4. /\ r \in RequestType /\ r.at = l /\ r.job = q.job /\ r.id = q.id
          /\ r.connector = q.connector /\ r.store = s
      BY <2>1, <2>3 DEF RequestType
    <2> QED
      BY <2>2, <2>4
  <1>10. Good(request'[t], Len(connectors))
    BY <1>2, <1>4, <1>7, <1>9 DEF Good
  <1>11. Quiet
    BY DEF Take, Quiet
  <1> QED
    BY <1>2, <1>7, <1>touch, <1>9, <1>10, <1>11, QuietOK DEF Served

---------------------------------------------------------------------------
(* connect() *)

LEMMA NewConnectorFits ==
    ASSUME ServiceOK, NEW t \in Clients, Store(t) \in Stores, Name(t) \in Connections
    PROVE  /\ NewConnector(t) \in Engine
           /\ \A up \in BOOLEAN : [NewConnector(t) EXCEPT !.open = up] \in Engine
  BY DEF NewConnector, Engine, ServiceOK, GlobalsOK

LEMMA NewEngine ==
    ASSUME ServiceOK, NEW e \in Engine, connectors' = Append(connectors, e),
           UNCHANGED <<app, made, version, cached, bootstrapped, notices, served, overlapped, stopped>>
    PROVE  /\ GlobalsOK' /\ Len(connectors') = Len(connectors) + 1 /\ Len(connectors') \in Nat
           /\ \A k \in 1 .. Len(connectors) : connectors'[k] = connectors[k]
           /\ connectors'[Len(connectors) + 1] = e
  <1>1. GlobalsOK
    BY DEF ServiceOK
  <1>2. /\ connectors' \in Seq(Engine) /\ Len(connectors') = Len(connectors) + 1 /\ Len(connectors) \in Nat
        /\ \A k \in 1 .. Len(connectors) : connectors'[k] = connectors[k]
        /\ connectors'[Len(connectors) + 1] = e
    BY <1>1, AppendProperties DEF GlobalsOK
  <1>3. 0 .. Len(connectors) \subseteq 0 .. Len(connectors')
    BY <1>2
  <1>4. cached' \in [Stores -> [Connections -> 0 .. Len(connectors')]]
    BY <1>1, <1>3 DEF GlobalsOK
  <1>5. GlobalsOK'
    BY <1>1, <1>2, <1>4 DEF GlobalsOK
  <1> QED
    BY <1>2, <1>5

LEMMA ReopenedEngine ==
    ASSUME ServiceOK, NEW ks, NEW up,
           \/ up \in BOOLEAN /\ \E k : connectors' = [connectors EXCEPT ![k].open = up]
           \/ connectors' = Closing(ks),
           UNCHANGED <<version, notices, served>>, app' = app, made' = made,
           cached' \in [Stores -> [Connections -> 0 .. Len(connectors)]],
           bootstrapped' \in [Stores -> SUBSET Connections], overlapped' \in BOOLEAN, stopped' \subseteq Processes
    PROVE  GlobalsOK' /\ Len(connectors') = Len(connectors) /\ DOMAIN connectors' = DOMAIN connectors
  <1>1. GlobalsOK /\ connectors \in Seq(Engine)
    BY DEF ServiceOK, GlobalsOK
  <1>2. Len(connectors) \in Nat /\ DOMAIN connectors = 1 .. Len(connectors)
        /\ \A k \in 1 .. Len(connectors) : connectors[k] \in Engine
    BY <1>1
  <1>3. connectors' \in [1 .. Len(connectors) -> Engine]
    <2>1. CASE connectors' = Closing(ks)
      BY <1>2, <2>1 DEF Closing, Engine
    <2>2. ASSUME NEW k, up \in BOOLEAN, connectors' = [connectors EXCEPT ![k].open = up]
          PROVE  connectors' \in [1 .. Len(connectors) -> Engine]
      BY <1>1, <1>2, <2>2 DEF Engine
    <2> QED
      BY <2>1, <2>2
  <1>4. connectors' \in Seq(Engine) /\ Len(connectors') = Len(connectors)
    BY <1>2, <1>3, SeqDef
  <1> QED
    BY <1>1, <1>2, <1>3, <1>4 DEF GlobalsOK

LEMMA LookupOK ==
    ASSUME ServiceOK, NEW t \in Clients, Lookup(t)
    PROVE  Served(t)
  <1>1. PICK q : q = request[t]
    OBVIOUS
  <1>2. /\ Good(q, Len(connectors)) /\ q \in RequestType /\ Len(connectors) \in Nat
        /\ request \in [Clients -> RequestType] /\ GlobalsOK /\ q.at = "lookup"
    BY <1>1, Facts DEF Lookup, At
  <1>3. /\ Store(t) \in Stores /\ Name(t) \in Connections
        /\ Passes(q.job.kind, "boot") /\ Passes(q.job.kind, "open") /\ {"boot", "open"} \subseteq Labels
    BY <1>1, <1>2, Facts DEF Good, Passes, Catalog, At, Labels
  <1>4. PICK k : k = cached[Store(t)][Name(t)]
    OBVIOUS
  <1>5. k \in 0 .. Len(connectors)
    BY <1>2, <1>3, <1>4 DEF GlobalsOK
  <1>6. PICK r : r = request'[t]
    OBVIOUS
  <1>7. CASE k # 0
    <2>1. /\ connectors' = connectors /\ GlobalsOK' /\ Touches(t)
          /\ request' = [request EXCEPT ![t].connector = k, ![t].at = "boot"]
      <3>1. connectors' = connectors /\ request' = [request EXCEPT ![t].connector = k, ![t].at = "boot"]
        BY <1>4, <1>7 DEF Lookup
      <3>2. GlobalsOK'
        BY <1>2, <3>1 DEF Lookup, GlobalsOK
      <3> QED
        BY <3>1, <3>2 DEF Touches
    <2>2. r = [q EXCEPT !.connector = k, !.at = "boot"]
      BY <1>1, <1>2, <1>6, <2>1
    <2>3. r \in RequestType /\ r.at = "boot" /\ r.connector = k /\ r.job = q.job /\ r.id = q.id /\ r.store = q.store
      <3>1. k \in Nat /\ "boot" \in Labels
        BY <1>2, <1>3, <1>5
      <3> QED
        BY <1>2, <2>2, <3>1 DEF RequestType
    <2>4. Good(r, Len(connectors))
      BY <1>2, <1>3, <1>5, <2>3, GoodUpdates
    <2> QED
      BY <1>2, <1>6, <2>1, <2>3, <2>4 DEF Served, Lookup
  <1>8. CASE k = 0
    <2>1. /\ connectors' = Append(connectors, NewConnector(t))
          /\ request' = [request EXCEPT ![t].connector = Len(connectors) + 1, ![t].at = "open"]
      BY <1>4, <1>8 DEF Lookup
    <2>2. NewConnector(t) \in Engine
      BY <1>3, NewConnectorFits
    <2>3. GlobalsOK' /\ Len(connectors') = Len(connectors) + 1 /\ Touches(t)
      <3>1. GlobalsOK' /\ Len(connectors') = Len(connectors) + 1
        BY <2>1, <2>2, NewEngine DEF Lookup
      <3> QED
        BY <2>1, <3>1 DEF Touches
    <2>4. r = [q EXCEPT !.connector = Len(connectors) + 1, !.at = "open"]
      BY <1>1, <1>2, <1>6, <2>1
    <2>5. PICK m \in Nat : m = Len(connectors) + 1
      BY <1>2
    <2>6. r \in RequestType /\ r.at = "open" /\ r.connector = m /\ r.job = q.job /\ r.id = q.id /\ r.store = q.store
      BY <1>2, <1>3, <2>4, <2>5 DEF RequestType
    <2>7. Good(r, m)
      BY <1>2, <1>3, <2>5, <2>6, GoodUpdates
    <2> QED
      BY <1>2, <1>6, <2>3, <2>5, <2>6, <2>7 DEF Served, Lookup
  <1> QED
    BY <1>7, <1>8

(* A step that opens or closes engines and moves or answers its request.    *)
LEMMA EngineMove ==
    ASSUME ServiceOK, NEW t \in Clients, GlobalsOK', Len(connectors') = Len(connectors),
           \A p \in Processes : app[p] \in Stores => app'[p] \in Stores,
           \/ \E l \in Labels \ {"take", "upserted"} :
                request[t].at \notin {"idle", "make", "take"} /\ Passes(request[t].job.kind, l) /\ Go(t, l)
           \/ \E a \in {"none", "ok", "error", "errored", "planned", "passed", "failed"} : Answer(t, a)
    PROVE  Served(t)
  <1>1. Good(request'[t], Len(connectors)) /\ request'[t].at \notin {"take", "upserted"}
    BY MovesOK, AnswersOK DEF At
  <1>2. Touches(t)
    BY DEF Go, Answer, Touches
  <1>3. Len(connectors) \in Nat
    BY Facts
  <1> QED
    BY <1>1, <1>2, <1>3 DEF Served

LEMMA OpenCacheOK ==
    ASSUME ServiceOK, NEW t \in Clients, Open(t) \/ Cache(t)
    PROVE  Served(t)
  <1>1. /\ GlobalsOK /\ Len(connectors) \in Nat /\ Connector(t) \in 0 .. Len(connectors)
        /\ Store(t) \in Stores /\ Name(t) \in Connections
        /\ Passes(request[t].job.kind, request[t].at) /\ request[t].at \in {"open", "cache"}
    <2>1. Good(request[t], Len(connectors)) /\ Len(connectors) \in Nat /\ GlobalsOK /\ request[t].at \in {"open", "cache"}
      BY Facts DEF Open, Cache, At
    <2>2. request[t].job.kind # "store" /\ Passes(request[t].job.kind, request[t].at)
      BY <2>1 DEF Good, Passes, Catalog
    <2>3. request[t].connector \in Nat
      BY <2>1 DEF Good, RequestType
    <2> QED
      BY <2>1, <2>2, <2>3, Facts DEF Good, Connector, At
  <1>2. Passes(request[t].job.kind, "cache") /\ Passes(request[t].job.kind, "boot") /\ {"cache", "boot"} \subseteq Labels
    BY <1>1 DEF Passes, Catalog, Labels
  <1>3. CASE Open(t) /\ connectors' = [connectors EXCEPT ![Connector(t)].open = TRUE] /\ Go(t, "cache")
    <2>1. GlobalsOK' /\ Len(connectors') = Len(connectors)
      BY <1>1, <1>3, ReopenedEngine DEF Open, GlobalsOK
    <2> QED
      BY <1>1, <1>2, <1>3, <2>1, EngineMove DEF Open
  <1>4. CASE Open(t) /\ Fail(t) /\ UNCHANGED connectors
    <2>1. Quiet
      BY <1>4 DEF Open, Quiet, shared
    <2> QED
      BY <1>4, <2>1, QuietFail
  <1>5. CASE Cache(t)
    <2>1. cached' \in [Stores -> [Connections -> 0 .. Len(connectors)]]
      BY <1>1, <1>5 DEF Cache, GlobalsOK
    <2>2. GlobalsOK' /\ connectors' = connectors
      BY <1>1, <1>5, <2>1 DEF Cache, GlobalsOK
    <2> QED
      BY <1>1, <1>2, <1>5, <2>2, EngineMove DEF Cache
  <1> QED
    BY <1>3, <1>4, <1>5 DEF Open

LEMMA BootOK ==
    ASSUME ServiceOK, NEW t \in Clients, Boot(t)
    PROVE  Served(t)
  <1>1. PICK q : q = request[t]
    OBVIOUS
  <1>2. /\ Good(q, Len(connectors)) /\ q \in RequestType /\ Len(connectors) \in Nat
        /\ request \in [Clients -> RequestType] /\ GlobalsOK /\ q.at = "boot"
    BY <1>1, Facts DEF Boot, At
  <1>3. /\ Store(t) \in Stores /\ Name(t) \in Connections /\ Passes(q.job.kind, "register")
        /\ q.job.kind \notin {"none", "store", "test", "register_connection"}
    BY <1>1, <1>2, Facts DEF Good, Passes, Catalog, At
  <1>4. q.job \in AllJobs
    BY <1>2 DEF RequestType
  <1>5. CASE Name(t) \in bootstrapped[Store(t)]
    <2>1. Quiet /\ Go(t, Work(q.job))
      BY <1>1, <1>5 DEF Boot, Quiet, shared
    <2>2. Work(q.job) \in Labels \ {"take", "upserted"} /\ Passes(q.job.kind, Work(q.job))
      BY <1>3, <1>4, WorkPasses DEF Labels, Catalog
    <2> QED
      BY <1>1, <1>2, <2>1, <2>2, QuietMove DEF At
  <1>6. CASE Name(t) \notin bootstrapped[Store(t)]
    <2>1. request' = [request EXCEPT ![t].connecting = TRUE, ![t].at = "register"]
      BY <1>6 DEF Boot
    <2>2. bootstrapped' \in [Stores -> SUBSET Connections]
      <3>1. PICK names : names = bootstrapped[Store(t)] \cup {Name(t)}
        OBVIOUS
      <3>2. bootstrapped' = [bootstrapped EXCEPT ![Store(t)] = names]
        BY <1>6, <3>1 DEF Boot
      <3>3. bootstrapped \in [Stores -> SUBSET Connections] /\ names \in SUBSET Connections
        BY <1>2, <1>3, <3>1 DEF GlobalsOK
      <3> QED
        BY <1>3, <3>2, <3>3
    <2>3. GlobalsOK' /\ connectors' = connectors /\ app' = app
      BY <1>2, <2>2 DEF Boot, GlobalsOK
    <2>4. PICK r : r = request'[t]
      OBVIOUS
    <2>5. r = [q EXCEPT !.connecting = TRUE, !.at = "register"]
      BY <1>1, <1>2, <2>1, <2>4
    <2>6. r \in RequestType /\ r.at = "register" /\ r.connector = q.connector /\ r.job = q.job /\ r.id = q.id
          /\ r.store = q.store
      BY <1>2, <2>5 DEF RequestType, Labels, Catalog
    <2>7. Good(r, Len(connectors))
      <3>1. r.connector <= Len(connectors)
        BY <1>2, <2>6 DEF Good
      <3> QED
        BY <1>2, <1>3, <2>6, <3>1, GoodUpdates
    <2>8. Touches(t)
      BY <2>1 DEF Touches
    <2> QED
      BY <1>2, <2>3, <2>4, <2>6, <2>7, <2>8 DEF Served
  <1> QED
    BY <1>5, <1>6

---------------------------------------------------------------------------
(* bootstrap_on_connect *)

(* A step of the catalogue that sets other fields of its request.           *)
LEMMA CatalogueMove ==
    ASSUME ServiceOK, NEW t \in Clients, Quiet, request[t].at \in Catalog, Touches(t),
           NEW r, r = request'[t], r \in RequestType, r.at \in Catalog \ {"upserted"}, r.job = request[t].job,
           r.id = request[t].id, r.store = request[t].store, r.connector = request[t].connector
    PROVE  Served(t)
  <1>1. /\ Good(request[t], Len(connectors)) /\ Len(connectors) \in Nat
        /\ GlobalsOK' /\ connectors' = connectors /\ app' = app
    BY Facts, QuietOK
  <1>2. Passes(request[t].job.kind, r.at) /\ r.at # "take" /\ request[t].at \notin {"idle", "make", "take"}
    BY <1>1 DEF Good, Passes, Catalog
  <1>3. r.connector <= Len(connectors)
    BY <1>1 DEF Good
  <1>4. Good(r, Len(connectors))
    BY <1>1, <1>2, <1>3, GoodUpdates
  <1> QED
    BY <1>1, <1>2, <1>4 DEF Served

LEMMA RegisterOK ==
    ASSUME ServiceOK, NEW t \in Clients, Register(t) \/ Registered(t)
    PROVE  Served(t)
  <1>1. PICK q : q = request[t]
    OBVIOUS
  <1>2. /\ Good(q, Len(connectors)) /\ q \in RequestType /\ request \in [Clients -> RequestType]
        /\ q.at \in {"register", "registered"} /\ q.at \in Catalog
    BY <1>1, Facts DEF Register, Registered, At, Catalog
  <1>3. Quiet
    BY DEF Register, Registered, Quiet, shared
  <1>4. q.job \in AllJobs /\ q.job.kind # "none"
    BY <1>2 DEF RequestType, Good, Passes, Catalog
  <1>5. CASE Register(t)
    <2>1. "registered" \in Labels \ {"take", "upserted"} /\ Passes(q.job.kind, "registered")
      BY <1>2 DEF Good, Passes, Labels, Catalog
    <2> QED
      BY <1>1, <1>2, <1>3, <1>5, <2>1, QuietMove DEF Register, At
  <1>6. CASE Registered(t) /\ CatalogueRaises(t)
    BY <1>1, <1>2, <1>3, <1>6, CatalogueEnds, QuietFail DEF CatalogueRaises
  <1>7. CASE Registered(t) /\ Catalogued(t)
    BY <1>1, <1>2, <1>3, <1>7, CatalogueEnds
  <1>8. CASE request' = [request EXCEPT ![t].at = "list", ![t].schemas = Targets(request[t].job)]
    <2>1. PICK to : to = Targets(q.job)
      OBVIOUS
    <2>2. to \in Seq(DOMAIN Listing)
      <3>1. <<Schema>> \in Seq(DOMAIN Listing)
        BY ListingAssumption
      <3> QED
        BY <1>4, <2>1, <3>1, JobFacts DEF Targets
    <2>3. PICK r : r = request'[t]
      OBVIOUS
    <2>4. r = [q EXCEPT !.at = "list", !.schemas = to]
      BY <1>1, <1>2, <1>8, <2>1, <2>3
    <2>touch. Touches(t)
      BY <1>1, <1>2, <1>8, <2>1, <2>3 DEF Touches
    <2>5. "list" \in Labels /\ "list" \in Catalog
      BY DEF Labels, Catalog
    <2>6. r \in RequestType /\ r.at = "list" /\ r.job = q.job /\ r.id = q.id /\ r.store = q.store
          /\ r.connector = q.connector
      BY <1>2, <2>2, <2>4, <2>5 DEF RequestType
    <2> QED
      BY <1>1, <1>2, <1>3, <2>3, <2>touch, <2>5, <2>6, CatalogueMove
  <1> QED
    BY <1>5, <1>6, <1>7, <1>8 DEF Registered

LEMMA TailOfSeq ==
    ASSUME NEW S, NEW seq \in Seq(S), seq # <<>>
    PROVE  Tail(seq) \in Seq(S) /\ Head(seq) \in S
  BY HeadTailProperties

LEMMA ListTablesOK ==
    ASSUME ServiceOK, NEW t \in Clients, ListTables(t)
    PROVE  Served(t)
  <1>1. PICK q : q = request[t]
    OBVIOUS
  <1>2. /\ q \in RequestType /\ request \in [Clients -> RequestType] /\ q.at = "list" /\ q.at \in Catalog
        /\ {"list", "walk"} \subseteq Labels \cap Catalog
    BY <1>1, Facts DEF ListTables, At, Catalog, Labels
  <1>3. Quiet
    BY DEF ListTables, Quiet, shared
  <1>4. CASE q.schemas = <<>>
    BY <1>1, <1>2, <1>3, <1>4, CatalogueEnds DEF ListTables
  <1>5. CASE q.schemas # <<>>
    <2>1. PICK rest, tables, scanned : /\ rest = Tail(q.schemas) /\ tables = Listing[Head(q.schemas)]
                                       /\ scanned = Append(q.scanned, Head(q.schemas))
      OBVIOUS
    <2>2. rest \in Seq(DOMAIN Listing) /\ tables \in Seq(Datasets) /\ scanned \in Seq(DOMAIN Listing)
      <3>1. q.schemas \in Seq(DOMAIN Listing) /\ q.scanned \in Seq(DOMAIN Listing)
        BY <1>2 DEF RequestType
      <3>2. rest \in Seq(DOMAIN Listing) /\ Head(q.schemas) \in DOMAIN Listing
        BY <1>5, <2>1, <3>1, TailOfSeq
      <3>3. \A x \in DOMAIN Listing : Append(q.scanned, x) \in Seq(DOMAIN Listing)
        BY <3>1, AppendProperties
      <3> QED
        BY <2>1, <3>2, <3>3, ListingAssumption
    <2>3. PICK r : r = request'[t]
      OBVIOUS
    <2>4. CASE request' = [request EXCEPT ![t].schemas = Tail(@), ![t].at = "walk",
                                          ![t].tables = Listing[Head(request[t].schemas)],
                                          ![t].scanned = Append(@, Head(request[t].schemas))]
      <3>1. r = [q EXCEPT !.schemas = rest, !.at = "walk", !.tables = tables, !.scanned = scanned]
        BY <1>1, <1>2, <2>1, <2>3, <2>4
      <3>touch. Touches(t)
        BY <1>1, <1>2, <2>1, <2>3, <2>4 DEF Touches
      <3>2. "walk" \in Labels /\ "walk" \in Catalog
        BY <1>2
      <3>3. r \in RequestType /\ r.at = "walk" /\ r.job = q.job /\ r.id = q.id /\ r.store = q.store
            /\ r.connector = q.connector
        BY <1>2, <2>2, <3>1, <3>2 DEF RequestType
      <3> QED
        BY <1>1, <1>2, <1>3, <2>3, <3>touch, <3>2, <3>3, CatalogueMove
    <2>5. CASE request' = [request EXCEPT ![t].schemas = Tail(@)]
      <3>1. r = [q EXCEPT !.schemas = rest]
        BY <1>1, <1>2, <2>1, <2>3, <2>5
      <3>touch. Touches(t)
        BY <1>1, <1>2, <2>1, <2>3, <2>5 DEF Touches
      <3>2. r \in RequestType /\ r.at = q.at /\ r.job = q.job /\ r.id = q.id /\ r.store = q.store
            /\ r.connector = q.connector
        BY <1>2, <2>2, <3>1 DEF RequestType
      <3> QED
        BY <1>1, <1>2, <1>3, <2>3, <3>touch, <3>2, CatalogueMove
    <2> QED
      BY <1>1, <1>5, <2>4, <2>5 DEF ListTables
  <1> QED
    BY <1>4, <1>5

LEMMA WalkTablesOK ==
    ASSUME ServiceOK, NEW t \in Clients, WalkTables(t) \/ Upserted(t)
    PROVE  Served(t)
  <1>1. PICK q : q = request[t]
    OBVIOUS
  <1>2. /\ q \in RequestType /\ Good(q, Len(connectors)) /\ request \in [Clients -> RequestType]
        /\ q.at \in {"walk", "upserted"} /\ q.at \in Catalog
        /\ {"list", "walk", "upserted"} \subseteq Labels \cap Catalog
    BY <1>1, Facts DEF WalkTables, Upserted, At, Catalog, Labels
  <1>3. Quiet
    BY DEF WalkTables, Upserted, Quiet, shared
  <1>4. Passes(q.job.kind, "list") /\ Passes(q.job.kind, "upserted")
    BY <1>2 DEF Good, Passes, Catalog
  <1>5. PICK r : r = request'[t]
    OBVIOUS
  <1>6. PICK rest, seen, counted :
          /\ rest = Tail(q.tables) /\ seen = q.seen + 1
          /\ counted = IF call[t].answer = "ok" THEN Append(q.counted, Head(q.tables)) ELSE q.counted
    OBVIOUS
  <1>7. q.tables # <<>> => rest \in Seq(Datasets) /\ counted \in Seq(Datasets)
    <2>1. q.tables \in Seq(Datasets) /\ q.counted \in Seq(Datasets)
      BY <1>2 DEF RequestType
    <2>2. \A d \in Datasets : Append(q.counted, d) \in Seq(Datasets)
      BY <2>1, AppendProperties
    <2> QED
      BY <1>6, <2>1, <2>2, TailOfSeq
  <1>8. seen \in Nat
    <2>1. q.seen \in Nat
      BY <1>2 DEF RequestType
    <2>2. q.seen + 1 \in Nat
      BY <2>1
    <2> QED
      BY <1>6, <2>2
  <1>full. Upserted(t) => q.tables # <<>>
    BY <1>1 DEF ServiceOK, RequestOK, Upserted
  <1>9. CASE WalkTables(t) /\ Go(t, "list")
    <2>1. "list" \in Labels \ {"take", "upserted"}
      BY <1>2
    <2> QED
      BY <1>1, <1>2, <1>3, <1>4, <1>9, <2>1, QuietMove DEF At
  <1>up. CASE WalkTables(t) /\ q.tables # <<>> /\ Go(t, "upserted")
    <2>1. GlobalsOK /\ GlobalsOK' /\ connectors' = connectors /\ app' = app /\ Len(connectors) \in Nat
      BY <1>3, Facts, QuietOK
    <2>2. Good(r, Len(connectors)) /\ r.at = "upserted"
      BY <1>1, <1>2, <1>4, <1>5, <1>up, MovesOK DEF At
    <2>3. Touches(t)
      BY <1>up DEF Go, Touches
    <2>4. r = [q EXCEPT !.at = "upserted"]
      BY <1>1, <1>2, <1>5, <1>up DEF Go
    <2>5. r.tables # <<>>
      BY <1>2, <1>up, <2>4 DEF RequestType
    <2> QED
      BY <1>5, <2>1, <2>2, <2>3, <2>5 DEF Served
  <1>10. CASE request' = [request EXCEPT ![t].truncated = TRUE, ![t].schemas = <<>>, ![t].at = "list"]
    <2>1. r = [q EXCEPT !.truncated = TRUE, !.schemas = <<>>, !.at = "list"]
      BY <1>1, <1>2, <1>5, <1>10
    <2>touch. Touches(t)
      BY <1>1, <1>2, <1>5, <1>10 DEF Touches
    <2>2. "list" \in Labels /\ "list" \in Catalog /\ <<>> \in Seq(DOMAIN Listing)
      BY <1>2, EmptySeq
    <2>3. r \in RequestType /\ r.at = "list" /\ r.job = q.job /\ r.id = q.id /\ r.store = q.store
          /\ r.connector = q.connector
      BY <1>2, <2>1, <2>2 DEF RequestType
    <2> QED
      BY <1>1, <1>2, <1>3, <1>5, <2>touch, <2>2, <2>3, CatalogueMove
  <1>11. CASE WalkTables(t) /\ q.tables # <<>> /\ request' = [request EXCEPT ![t].tables = Tail(@)]
    <2>1. r = [q EXCEPT !.tables = rest]
      BY <1>1, <1>2, <1>5, <1>6, <1>11
    <2>touch. Touches(t)
      BY <1>1, <1>2, <1>5, <1>6, <1>11 DEF Touches
    <2>2. r \in RequestType /\ r.at = q.at /\ r.job = q.job /\ r.id = q.id /\ r.store = q.store
          /\ r.connector = q.connector
      BY <1>2, <1>7, <1>11, <2>1 DEF RequestType
    <2>3. q.at = "walk"
      BY <1>1, <1>11 DEF WalkTables, At
    <2> QED
      BY <1>1, <1>2, <1>3, <1>5, <2>touch, <2>2, <2>3, CatalogueMove
  <1>12. CASE Upserted(t) /\ CatalogueRaises(t)
    BY <1>1, <1>2, <1>3, <1>12, CatalogueEnds, QuietFail DEF CatalogueRaises
  <1>13. CASE /\ q.tables # <<>>
              /\ request' = [request EXCEPT ![t].tables = Tail(@), ![t].seen = @ + 1, ![t].at = "walk",
                   ![t].counted = IF call[t].answer = "ok" THEN Append(@, Head(request[t].tables)) ELSE @]
    <2>1. r = [q EXCEPT !.tables = rest, !.seen = seen, !.at = "walk", !.counted = counted]
      BY <1>1, <1>2, <1>5, <1>6, <1>13
    <2>touch. Touches(t)
      BY <1>1, <1>2, <1>5, <1>6, <1>13 DEF Touches
    <2>2. "walk" \in Labels /\ "walk" \in Catalog
      BY <1>2
    <2>3. r \in RequestType /\ r.at = "walk" /\ r.job = q.job /\ r.id = q.id /\ r.store = q.store
          /\ r.connector = q.connector
      BY <1>2, <1>7, <1>8, <1>13, <2>1, <2>2 DEF RequestType
    <2> QED
      BY <1>1, <1>2, <1>3, <1>5, <2>touch, <2>2, <2>3, CatalogueMove
  <1>14. CASE WalkTables(t)
    BY <1>1, <1>9, <1>up, <1>10, <1>11, <1>14 DEF WalkTables
  <1>15. CASE Upserted(t)
    BY <1>1, <1>12, <1>13, <1>15, <1>full DEF Upserted
  <1> QED
    BY <1>14, <1>15

---------------------------------------------------------------------------
(* The work of a job *)

LEMMA ExecuteOK ==
    ASSUME ServiceOK, NEW t \in Clients, Execute(t)
    PROVE  Served(t)
  <1>1. PICK q : q = request[t]
    OBVIOUS
  <1>2. /\ Good(q, Len(connectors)) /\ q \in RequestType /\ request \in [Clients -> RequestType] /\ GlobalsOK
        /\ q.at = "execute" /\ {"sync", "keep", "catalogue"} \subseteq Labels
    BY <1>1, Facts DEF Execute, At, Labels
  <1>3. CASE UNCHANGED connectors /\ (Answer(t, "planned") \/ Fail(t))
    <2>1. Quiet
      BY <1>3 DEF Execute, Quiet, shared
    <2> QED
      BY <1>3, <2>1, QuietAnswer, QuietFail
  <1>4. CASE connectors' = [connectors EXCEPT ![Connector(t)].open = TRUE]
    <2>1. GlobalsOK' /\ Len(connectors') = Len(connectors)
      BY <1>2, <1>4, ReopenedEngine DEF Execute, GlobalsOK
    <2>2. \A p \in Processes : app[p] \in Stores => app'[p] \in Stores
      BY DEF Execute
    <2>3. CASE q.job.kind \in RunKinds /\ \E outcome \in {"passed", "failed"} :
                  request' = [request EXCEPT ![t].outcome = outcome, ![t].at = "sync"]
      <3>1. PICK outcome \in {"passed", "failed"} :
              request' = [request EXCEPT ![t].outcome = outcome, ![t].at = "sync"]
        BY <2>3
      <3>2. PICK r : r = request'[t]
        OBVIOUS
      <3>3. r = [q EXCEPT !.outcome = outcome, !.at = "sync"]
        BY <1>1, <1>2, <3>1, <3>2
      <3>4. Touches(t)
        BY <3>1 DEF Touches
      <3>5. r \in RequestType /\ r.at = "sync" /\ r.job = q.job /\ r.id = q.id /\ r.store = q.store
            /\ r.connector = q.connector
        BY <1>2, <3>3 DEF RequestType
      <3>6. Passes(q.job.kind, "sync") /\ q.connector <= Len(connectors) /\ Len(connectors) \in Nat
        BY <1>2, <2>3, Facts DEF Passes, Catalog, RunKinds, Good
      <3>7. Good(r, Len(connectors))
        BY <1>2, <3>5, <3>6, GoodUpdates
      <3> QED
        BY <2>1, <2>2, <3>2, <3>4, <3>5, <3>6, <3>7 DEF Served
    <2>4. CASE q.job.kind = "profile" /\ Go(t, "keep")
      <3>1. Passes(q.job.kind, "keep") /\ "keep" \in Labels
        BY <1>2, <2>4 DEF Passes, Catalog, RunKinds
      <3> QED
        BY <1>1, <1>2, <2>1, <2>2, <2>4, <3>1, EngineMove
    <2>5. CASE q.job.kind = "describe_table" /\ Go(t, "catalogue")
      <3>1. Passes(q.job.kind, "catalogue") /\ "catalogue" \in Labels
        BY <1>2, <2>5 DEF Passes, Catalog, RunKinds
      <3> QED
        BY <1>1, <1>2, <2>1, <2>2, <2>5, <3>1, EngineMove
    <2>6. CASE Answer(t, "ok")
      BY <2>1, <2>2, <2>6, EngineMove
    <2>7. CASE q.job.kind = "dry_run"
      BY <1>1, <1>3, <2>7 DEF Execute
    <2> QED
      BY <1>1, <1>3, <2>3, <2>4, <2>5, <2>6, <2>7 DEF Execute, RunKinds
  <1> QED
    BY <1>3, <1>4 DEF Execute

(* Calls of the store and what follows them.                                *)
LEMMA AskOK ==
    ASSUME ServiceOK, NEW t \in Clients,
           Sync(t) \/ Keep(t) \/ Catalogue(t) \/ Direct(t) \/ Report(t)
    PROVE  Served(t)
  <1>1. PICK q : q = request[t]
    OBVIOUS
  <1>2. Good(q, Len(connectors)) /\ q.job.kind # "none" /\ q.at \in {"sync", "keep", "catalogue", "store", "report"}
    BY <1>1, Facts DEF Sync, Keep, Catalogue, Direct, Report, Ask, At
  <1>3. Quiet
    BY DEF Sync, Keep, Catalogue, Direct, Report, Ask, Quiet
  <1>4. \/ q.at = "sync" /\ Go(t, "synced")
        \/ q.at = "keep" /\ Go(t, "kept")
        \/ Go(t, "done")
        \/ q.at = "report" /\ Go(t, "reported")
    <2>1. CASE Sync(t)
      BY <1>1, <2>1 DEF Sync, Ask, At
    <2>2. CASE Keep(t)
      BY <1>1, <2>2 DEF Keep, Ask, At
    <2>3. CASE Catalogue(t) \/ Direct(t)
      BY <2>3 DEF Catalogue, Direct, Ask
    <2>4. CASE Report(t)
      BY <1>1, <2>4 DEF Report, Ask, At
    <2> QED
      BY <2>1, <2>2, <2>3, <2>4
  <1>5. /\ Passes(q.job.kind, "done")
        /\ q.at = "sync" => Passes(q.job.kind, "synced")
        /\ q.at = "keep" => Passes(q.job.kind, "kept")
        /\ q.at = "report" => Passes(q.job.kind, "reported")
    BY <1>2 DEF Good, Passes, Catalog
  <1>6. PICK l \in {"synced", "kept", "done", "reported"} : Go(t, l) /\ Passes(q.job.kind, l)
    BY <1>4, <1>5
  <1>7. l \in Labels \ {"take", "upserted"}
    BY DEF Labels, Catalog
  <1>8. ~At(t, "idle") /\ ~At(t, "make") /\ ~At(t, "take")
    BY <1>1, <1>2 DEF At
  <1> QED
    BY <1>1, <1>3, <1>6, <1>7, <1>8, QuietMove

LEMMA ResumeOK ==
    ASSUME ServiceOK, NEW t \in Clients, Synced(t) \/ Kept(t) \/ Done(t)
    PROVE  Served(t)
  <1>1. PICK q : q = request[t]
    OBVIOUS
  <1>2. Good(q, Len(connectors)) /\ q.job.kind # "none" /\ q.at \in {"synced", "kept", "done"}
    BY <1>1, Facts DEF Synced, Kept, Done, Resume, At
  <1>3. Quiet
    BY DEF Synced, Kept, Done, Resume, Quiet, shared
  <1>4. \/ Fail(t)
        \/ Answer(t, "ok")
        \/ q.at = "synced" /\ Go(t, "keep")
        \/ q.at = "kept" /\ q.job.kind # "profile" /\ Go(t, "notify")
    <2>1. CASE Synced(t)
      BY <1>1, <2>1 DEF Synced, Resume, At
    <2>2. CASE Kept(t)
      BY <1>1, <2>2 DEF Kept, Resume, At
    <2>3. CASE Done(t)
      BY <2>3 DEF Done, Resume
    <2> QED
      BY <2>1, <2>2, <2>3
  <1>5. /\ q.at = "synced" => Passes(q.job.kind, "keep")
        /\ q.at = "kept" /\ q.job.kind # "profile" => Passes(q.job.kind, "notify")
    BY <1>2 DEF Good, Passes, Catalog, RunKinds
  <1>6. {"keep", "notify"} \subseteq Labels \ {"take", "upserted"}
    BY DEF Labels, Catalog
  <1> QED
    BY <1>1, <1>2, <1>3, <1>4, <1>5, <1>6, QuietMove, QuietAnswer, QuietFail DEF At

LEMMA NotifyOK ==
    ASSUME ServiceOK, NEW t \in Clients, Notify(t)
    PROVE  Served(t)
  <1>1. GlobalsOK /\ request[t] \in RequestType
    BY Facts
  <1>2. PICK id : id = request[t].id
    OBVIOUS
  <1>3. notices' = [notices EXCEPT ![id] = IF Notifies(request[t].outcome) THEN @ + 1 ELSE @]
    BY <1>2 DEF Notify
  <1>4. notices' \in [Runs -> Nat]
    <2>1. notices \in [Runs -> Nat]
      BY <1>1 DEF GlobalsOK
    <2>2. PICK n : n = IF Notifies(request[t].outcome) THEN notices[id] + 1 ELSE notices[id]
      OBVIOUS
    <2>3. notices' = [notices EXCEPT ![id] = n] /\ (id \in Runs => n \in Nat)
      BY <1>3, <2>1, <2>2
    <2> QED
      BY <2>1, <2>3
  <1>5. GlobalsOK' /\ connectors' = connectors /\ app' = app
    BY <1>1, <1>4 DEF Notify, GlobalsOK, shared
  <1>6. request[t].outcome \in {"none", "passed", "failed"}
    BY <1>1 DEF RequestType
  <1> QED
    BY <1>5, <1>6, EngineMove DEF Notify

---------------------------------------------------------------------------
(* test_connection, register_connection *)

LEMMA TestOK ==
    ASSUME ServiceOK, NEW t \in Clients, Test(t)
    PROVE  Served(t)
  <1>1. PICK q : q = request[t]
    OBVIOUS
  <1>2. /\ Good(q, Len(connectors)) /\ q \in RequestType /\ Len(connectors) \in Nat
        /\ request \in [Clients -> RequestType] /\ q.at = "probe"
    BY <1>1, Facts DEF Test, At
  <1>3. Store(t) \in Stores /\ Name(t) \in Connections /\ Passes(q.job.kind, "report") /\ "report" \in Labels
    BY <1>1, <1>2, Facts DEF Good, Passes, Catalog, At, Labels
  <1>4. PICK e \in Engine : connectors' = Append(connectors, e)
    BY <1>3, NewConnectorFits DEF Test
  <1>5. GlobalsOK' /\ Len(connectors') = Len(connectors) + 1
    BY <1>4, NewEngine DEF Test
  <1>6. PICK m \in Nat : m = Len(connectors) + 1
    BY <1>2
  <1>7. request' = [request EXCEPT ![t].connector = m, ![t].at = "report"]
    BY <1>6 DEF Test
  <1>8. PICK r : r = request'[t]
    OBVIOUS
  <1>9. r = [q EXCEPT !.connector = m, !.at = "report"]
    BY <1>1, <1>2, <1>7, <1>8
  <1>10. Touches(t)
    BY <1>7 DEF Touches
  <1>11. r \in RequestType /\ r.at = "report" /\ r.connector = m /\ r.job = q.job /\ r.id = q.id /\ r.store = q.store
    BY <1>2, <1>3, <1>9 DEF RequestType
  <1>12. Good(r, m)
    BY <1>2, <1>3, <1>6, <1>11, GoodUpdates
  <1>13. app' = app
    BY DEF Test
  <1> QED
    BY <1>2, <1>5, <1>6, <1>8, <1>10, <1>11, <1>12, <1>13 DEF Served

LEMMA CloseProbeOK ==
    ASSUME ServiceOK, NEW t \in Clients, CloseProbe(t)
    PROVE  Served(t)
  <1>1. GlobalsOK
    BY DEF ServiceOK
  <1>2. connectors' = [connectors EXCEPT ![Connector(t)].open = FALSE]
    BY DEF CloseProbe
  <1>3. GlobalsOK' /\ Len(connectors') = Len(connectors)
    BY <1>1, <1>2, ReopenedEngine DEF CloseProbe, GlobalsOK
  <1>4. \E a \in {"none", "ok", "error", "errored", "planned", "passed", "failed"} : Answer(t, a)
    BY DEF CloseProbe, Fail
  <1>5. app' = app
    BY DEF CloseProbe
  <1> QED
    BY <1>3, <1>4, <1>5, EngineMove

LEMMA ConfigureOK ==
    ASSUME ServiceOK, NEW t \in Clients, Configure(t)
    PROVE  Served(t)
  <1>1. /\ GlobalsOK /\ Good(request[t], Len(connectors)) /\ request[t].at = "configure" /\ request[t].job.kind # "none"
    BY Facts DEF Configure, At
  <1>2. Passes(request[t].job.kind, "pop") /\ "pop" \in Labels
    BY <1>1 DEF Good, Passes, Catalog, Labels
  <1>3. version' \in [Stores -> [Connections -> Nat]]
    <2>1. PICK v, s, n : v = version[s] /\ s = Store(t) /\ n = Name(t)
      OBVIOUS
    <2>2. version \in [Stores -> [Connections -> Nat]]
      BY <1>1 DEF GlobalsOK
    <2>3. version' = [version EXCEPT ![s][n] = @ + 1]
      BY <2>1 DEF Configure
    <2>4. version' = [version EXCEPT ![s] = [v EXCEPT ![n] = v[n] + 1]]
      BY <2>1, <2>2, <2>3
    <2>5. s \in Stores => [v EXCEPT ![n] = v[n] + 1] \in [Connections -> Nat]
      <3>1. ASSUME v \in [Connections -> Nat] PROVE [v EXCEPT ![n] = v[n] + 1] \in [Connections -> Nat]
        <4>1. PICK k : k = v[n] + 1
          OBVIOUS
        <4>2. n \in Connections => k \in Nat
          BY <3>1, <4>1
        <4>3. [v EXCEPT ![n] = k] \in [Connections -> Nat]
          BY <3>1, <4>2
        <4> QED
          BY <4>1, <4>3
      <3> QED
        BY <2>1, <2>2, <3>1
    <2> QED
      BY <2>2, <2>4, <2>5
  <1>4. GlobalsOK' /\ connectors' = connectors /\ app' = app
    BY <1>1, <1>3 DEF Configure, GlobalsOK
  <1> QED
    BY <1>1, <1>2, <1>4, EngineMove DEF Configure

LEMMA PopOK ==
    ASSUME ServiceOK, NEW t \in Clients, Pop(t)
    PROVE  Served(t)
  <1>1. PICK q : q = request[t]
    OBVIOUS
  <1>2. /\ Good(q, Len(connectors)) /\ q \in RequestType /\ Len(connectors) \in Nat
        /\ request \in [Clients -> RequestType] /\ q.at = "pop" /\ GlobalsOK
    BY <1>1, Facts DEF Pop, At
  <1>3. Store(t) \in Stores /\ Name(t) \in Connections /\ Passes(q.job.kind, "forget") /\ "forget" \in Labels
    BY <1>1, <1>2, Facts DEF Good, Passes, Catalog, At, Labels
  <1>4. PICK k : k = cached[Store(t)][Name(t)]
    OBVIOUS
  <1>5. k \in 0 .. Len(connectors) /\ k \in Nat
    BY <1>2, <1>3, <1>4 DEF GlobalsOK
  <1>6. cached' \in [Stores -> [Connections -> 0 .. Len(connectors)]]
    BY <1>2, <1>3 DEF Pop, GlobalsOK
  <1>7. GlobalsOK' /\ connectors' = connectors /\ app' = app
    BY <1>2, <1>6 DEF Pop, GlobalsOK
  <1>8. request' = [request EXCEPT ![t].connector = k, ![t].at = "forget"]
    BY <1>4 DEF Pop
  <1>9. PICK r : r = request'[t]
    OBVIOUS
  <1>10. r = [q EXCEPT !.connector = k, !.at = "forget"]
    BY <1>1, <1>2, <1>8, <1>9
  <1>11. Touches(t)
    BY <1>8 DEF Touches
  <1>12. r \in RequestType /\ r.at = "forget" /\ r.connector = k /\ r.job = q.job /\ r.id = q.id /\ r.store = q.store
    BY <1>2, <1>3, <1>5, <1>10 DEF RequestType
  <1>13. Good(r, Len(connectors))
    BY <1>2, <1>3, <1>5, <1>12, GoodUpdates
  <1> QED
    BY <1>2, <1>7, <1>9, <1>11, <1>12, <1>13 DEF Served

LEMMA ForgetOK ==
    ASSUME ServiceOK, NEW t \in Clients, Forget(t)
    PROVE  Served(t)
  <1>1. GlobalsOK /\ Store(t) \in Stores
    BY Facts DEF Forget, At
  <1>2. bootstrapped' \in [Stores -> SUBSET Connections]
    BY <1>1 DEF Forget, GlobalsOK
  <1>3. GlobalsOK' /\ Len(connectors') = Len(connectors)
    BY <1>1, <1>2, ReopenedEngine DEF Forget, GlobalsOK
  <1> QED
    BY <1>3, EngineMove DEF Forget

---------------------------------------------------------------------------
(* All the steps *)

LEMMA ServeOK ==
    ASSUME ServiceOK, NEW t \in Clients, Serve(t), ~StoreStep(t)
    PROVE  Served(t)
  BY MakeOK, TakeOK, LookupOK, OpenCacheOK, BootOK, RegisterOK, ListTablesOK, WalkTablesOK, ExecuteOK, AskOK,
     ResumeOK, NotifyOK, TestOK, CloseProbeOK, ConfigureOK, PopOK, ForgetOK DEF Serve

LEMMA NoRequestFits == NoRequest \in RequestType /\ NoRequest.connector = 0
  <1>1. <<>> \in Seq(DOMAIN Listing) /\ <<>> \in Seq(Datasets)
    BY EmptySeq
  <1>2. NoRequest.job \in AllJobs
    BY DEF AllJobs
  <1>3. PICK job \in AllJobs : job = Job("none", "none", "none")
    BY <1>2 DEF NoRequest
  <1>4. NoRequest =
          [at |-> "idle", job |-> job, id |-> "none", store |-> Nobody, connector |-> 0,
           connecting |-> FALSE, schemas |-> <<>>, tables |-> <<>>, seen |-> 0,
           scanned |-> <<>>, counted |-> <<>>, truncated |-> FALSE, outcome |-> "none", answer |-> "none"]
    BY <1>3 DEF NoRequest
  <1> QED
    BY <1>1, <1>4 DEF RequestType, Labels

LEMMA ArriveOK ==
    ASSUME ServiceOK, NEW t \in Clients, NEW job \in Jobs[t], Arrive(t, job)
    PROVE  /\ Served(t) /\ request'[t].job = job /\ request'[t].id = EntryId(job, served + 1)
           /\ request'[t].at \in {"make", "take"}
  <1>1. /\ GlobalsOK /\ request \in [Clients -> RequestType] /\ Len(connectors) \in Nat /\ served \in Nat
        /\ MaxRequests \in Nat /\ served < MaxRequests /\ Home[t] \in Processes
    BY Facts, NumberedAssumption DEF GlobalsOK, Arrive
  <1>2. job \in AllJobs /\ IsJob(job) /\ job.kind \in JobKinds
    BY JobsAssumption DEF AllJobs, IsJob
  <1>3. PICK n \in 1 .. MaxRequests : n = served + 1
    BY <1>1
  <1>4. PICK id : id = EntryId(job, n)
    OBVIOUS
  <1>5. id \in Ids /\ RecordEntry(id) \in Requests
    BY <1>3, <1>4, NumberedAssumption DEF EntryId, Ids
  <1>6. PICK l : l = IF app[Home[t]] = Nobody THEN "make" ELSE "take"
    OBVIOUS
  <1>7. PICK none : none = NoRequest
    OBVIOUS
  <1>8. request' = [request EXCEPT ![t] = [none EXCEPT !.job = job, !.id = id, !.at = l]]
    BY <1>3, <1>4, <1>6, <1>7 DEF Arrive
  <1>9. PICK r : r = request'[t]
    OBVIOUS
  <1>10. r = [none EXCEPT !.job = job, !.id = id, !.at = l]
    BY <1>1, <1>8, <1>9
  <1>11. none \in RequestType /\ none.connector = 0 /\ l \in Labels /\ l \in {"make", "take"}
    BY <1>6, <1>7, NoRequestFits DEF Labels
  <1>12. r \in RequestType /\ r.job = job /\ r.id = id /\ r.at = l /\ r.connector = 0
    BY <1>2, <1>5, <1>10, <1>11 DEF RequestType
  <1>13. Passes(job.kind, l)
    BY <1>2, <1>11 DEF Passes, Catalog, JobKinds
  <1>14. Good(r, Len(connectors))
    BY <1>1, <1>5, <1>11, <1>12, <1>13 DEF Good
  <1>15. GlobalsOK' /\ connectors' = connectors /\ app' = app
    <2>1. served' \in 0 .. MaxRequests /\ overlapped' \in BOOLEAN
      BY <1>1 DEF Arrive, GlobalsOK
    <2> QED
      BY <1>1, <2>1 DEF Arrive, GlobalsOK, shared
  <1>16. l = "take" => app[Home[t]] \in Stores
    BY <1>1, <1>6 DEF GlobalsOK
  <1>17. Touches(t)
    BY <1>8 DEF Touches
  <1>18. Served(t)
    BY <1>1, <1>9, <1>11, <1>12, <1>14, <1>15, <1>16, <1>17 DEF Served
  <1> QED
    BY <1>3, <1>4, <1>9, <1>11, <1>12, <1>18

LEMMA ServedKeeps ==
    ASSUME ServiceOK, NEW t \in Clients, Served(t)
    PROVE  ServiceOK' /\ \A d \in Clients : d # t => request'[d] = request[d]
  <1>1. /\ GlobalsOK /\ GlobalsOK' /\ request \in [Clients -> RequestType]
        /\ Len(connectors) \in Nat /\ Len(connectors') \in Nat /\ Len(connectors) <= Len(connectors')
    BY Facts DEF Served, GlobalsOK
  <1>2. Good(request'[t], Len(connectors')) /\ request'[t] \in RequestType
    BY DEF Served, Good
  <1>3. /\ request' \in [Clients -> RequestType]
        /\ \A d \in Clients : d # t => request'[d] = request[d]
    BY <1>1, <1>2 DEF Served, Touches
  <1>4. ASSUME NEW d \in Clients, d # t PROVE RequestOK(d)'
    <2>1. RequestOK(d) /\ request'[d] = request[d]
      BY <1>3, <1>4 DEF ServiceOK
    <2>2. Good(request[d], Len(connectors'))
      BY <1>1, <2>1, GoodGrows DEF RequestOK
    <2>3. Home[d] \in Processes
      BY HomeAssumption
    <2> QED
      BY <2>1, <2>2, <2>3 DEF RequestOK, At, Served
  <1>5. RequestOK(t)'
    BY <1>2 DEF RequestOK, Served, At
  <1> QED
    BY <1>1, <1>3, <1>4, <1>5 DEF ServiceOK

LEMMA ShutdownOK ==
    ASSUME ServiceOK, NEW p \in Processes, Shutdown(p)
    PROVE  ServiceOK' /\ app[p] \in Stores
  <1>1. GlobalsOK /\ app[p] \in Stores
    BY DEF ServiceOK, GlobalsOK, Shutdown
  <1>2. PICK none : none = [n \in Connections |-> 0]
    OBVIOUS
  <1>3. none \in [Connections -> 0 .. Len(connectors)]
    BY <1>1, <1>2 DEF GlobalsOK
  <1>4. cached' \in [Stores -> [Connections -> 0 .. Len(connectors)]]
    BY <1>1, <1>2, <1>3 DEF Shutdown, GlobalsOK
  <1>5. bootstrapped' \in [Stores -> SUBSET Connections]
    BY <1>1 DEF Shutdown, GlobalsOK
  <1>6. GlobalsOK' /\ Len(connectors') = Len(connectors)
    BY <1>1, <1>4, <1>5, ReopenedEngine DEF Shutdown, GlobalsOK
  <1>7. request' = request /\ app' = app
    BY DEF Shutdown
  <1> QED
    BY <1>1, <1>6, <1>7 DEF ServiceOK, RequestOK, At

(* A step of the service alone leaves its variables in order.               *)
LEMMA ServiceStep ==
    ASSUME ServiceOK, [FacadeNext]_facadeVars
    PROVE  ServiceOK'
  <1>1. ASSUME UNCHANGED service PROVE ServiceOK'
    BY <1>1 DEF service, shared, ServiceOK, GlobalsOK, RequestOK, At
  <1>2. ASSUME NEW t \in Clients, NEW job \in Jobs[t], Arrive(t, job) PROVE ServiceOK'
    BY <1>2, ArriveOK, ServedKeeps
  <1>3. ASSUME NEW t \in Clients, Serve(t) PROVE ServiceOK'
    BY <1>1, <1>3, ServeOK, ServedKeeps DEF StoreStep
  <1>4. ASSUME NEW p \in Processes, Shutdown(p) PROVE ServiceOK'
    BY <1>4, ShutdownOK
  <1> QED
    BY <1>1, <1>2, <1>3, <1>4 DEF FacadeNext, Rest, facadeVars

LEMMA ServiceStarts == FacadeInit => ServiceOK
  <1>1. SUFFICES ASSUME FacadeInit PROVE ServiceOK
    OBVIOUS
  <1>2. connectors = <<>> /\ connectors \in Seq(Engine) /\ Len(connectors) = 0
    BY <1>1, EmptySeq DEF FacadeInit
  <1>3. GlobalsOK
    <2>1. \A n \in Nat : 0 \in 0 .. n
      OBVIOUS
    <2>2. cached \in [Stores -> [Connections -> 0 .. Len(connectors)]]
      BY <1>1, <1>2, <2>1 DEF FacadeInit
    <2>3. app \in [Processes -> Stores \cup {Nobody}] /\ made \subseteq Stores /\ stopped \subseteq Processes
      BY <1>1 DEF FacadeInit
    <2>4. version \in [Stores -> [Connections -> Nat]] /\ notices \in [Runs -> Nat]
      BY <1>1 DEF FacadeInit
    <2>5. bootstrapped \in [Stores -> SUBSET Connections]
      BY <1>1 DEF FacadeInit
    <2>6. served \in 0 .. MaxRequests /\ overlapped \in BOOLEAN
      <3>1. MaxRequests \in Nat
        BY NumberedAssumption
      <3>2. 0 \in 0 .. MaxRequests
        BY <3>1
      <3> QED
        BY <1>1, <3>2 DEF FacadeInit
    <2> QED
      BY <1>2, <2>2, <2>3, <2>4, <2>5, <2>6 DEF GlobalsOK
  <1>4. PICK none : none = NoRequest
    OBVIOUS
  <1>5. none \in RequestType /\ none.connector = 0 /\ none.at = "idle"
    BY <1>4, NoRequestFits DEF NoRequest
  <1>6. request = [t \in Clients |-> none]
    BY <1>1, <1>4 DEF FacadeInit
  <1>7. Good(none, 0)
    BY <1>5 DEF Good, Passes, Catalog
  <1>8. \A t \in Clients : request[t] = none
    BY <1>6
  <1>9. \A t \in Clients : RequestOK(t)
    BY <1>2, <1>5, <1>7, <1>8 DEF RequestOK, At
  <1> QED
    BY <1>3, <1>5, <1>6, <1>9 DEF ServiceOK

LEMMA ServiceTyping == FacadeSpec => []ServiceOK
  BY ServiceStarts, ServiceStep, PTL DEF FacadeSpec

---------------------------------------------------------------------------
(* The metastore of the service *)

(* Whom a request calls, and for what.                                      *)
LEMMA Asked ==
    ASSUME ServiceOK, NEW t \in Clients
    PROVE  /\ request[t].at \notin {"idle", "make", "take"} => Store(t) \in Stores
           /\ request[t].at \in {"register", "report"} => RegisterConnection(Name(t)) \in Requests
           /\ At(t, "sync") => SyncSuite(Target(t), Declares[Target(t)]) \in Requests
           /\ At(t, "keep") => RecordEntry(request[t].id) \in Requests
           /\ At(t, "catalogue") => UpsertDataset(Target(t), ColumnsOf[Target(t)]) \in Requests
           /\ At(t, "store") => Target(t) \in Requests
           /\ request[t].tables # <<>> =>
                UpsertDataset(Head(request[t].tables), ColumnsOf[Head(request[t].tables)]) \in Requests
  <1>1. PICK q : q = request[t]
    OBVIOUS
  <1>2. Good(q, Len(connectors)) /\ q \in RequestType
    BY <1>1, Facts
  <1>3. q.job \in AllJobs /\ q.tables \in Seq(Datasets)
    BY <1>2 DEF RequestType
  <1>4. q.at # "idle" => q.job.kind # "none"
    BY <1>2 DEF Good, Passes
  <1>5. q.at \in {"register", "report"} => q.job.name \in Connections
    <2>1. q.at \in {"register", "report"} => q.job.kind # "store"
      BY <1>2 DEF Good, Passes, Catalog
    <2> QED
      BY <1>3, <1>4, <2>1, JobFacts
  <1>6. q.at = "sync" => SyncSuite(q.job.target, Declares[q.job.target]) \in Requests
    <2>1. q.at = "sync" => q.job.kind \in RunKinds /\ q.job.kind # "none"
      BY <1>2 DEF Good, Passes, RunKinds
    <2> QED
      BY <1>3, <2>1, JobFacts
  <1>7. q.at = "catalogue" => q.job.target \in Datasets
    <2>1. q.at = "catalogue" => q.job.kind = "describe_table"
      BY <1>2 DEF Good, Passes
    <2> QED
      BY <1>3, <2>1, JobFacts
  <1>8. q.at = "store" => q.job.target \in Requests
    <2>1. q.at = "store" => q.job.kind = "store"
      BY <1>2 DEF Good, Passes
    <2> QED
      BY <1>3, <2>1, JobFacts
  <1>9. q.tables # <<>> => Head(q.tables) \in Datasets
    BY <1>3, TailOfSeq
  <1>10. /\ q.at \notin {"idle", "make", "take"} => q.store \in Stores
         /\ q.at = "keep" => RecordEntry(q.id) \in Requests
    BY <1>2 DEF Good
  <1> QED
    BY <1>1, <1>5, <1>6, <1>7, <1>8, <1>9, <1>10, DescribedAssumption DEF Store, Name, Target, At

LEMMA ServeCalls ==
    ASSUME ServiceOK, NEW t \in Clients, Serve(t)
    PROVE  \/ UNCHANGED vars
           \/ StoreStep(t)
           \/ \E s \in Stores, op \in Requests : Call(t, s, op)
  <1>1. CASE \/ Make(t) \/ Take(t) \/ Lookup(t) \/ Open(t) \/ Cache(t) \/ Boot(t)
             \/ Registered(t) \/ ListTables(t) \/ Upserted(t) \/ Execute(t) \/ Notify(t)
             \/ Test(t) \/ CloseProbe(t) \/ Configure(t) \/ Pop(t) \/ Forget(t)
    <2>1. UNCHANGED vars
      BY <1>1 DEF Make, Take, Lookup, Open, Cache, Boot, Registered, ListTables, Upserted, Execute, Notify,
                  Test, CloseProbe, Configure, Pop, Forget
    <2> QED
      BY <2>1
  <1>2. CASE Synced(t) \/ Kept(t) \/ Done(t)
    <2>1. UNCHANGED vars
      BY <1>2 DEF Synced, Kept, Done, Resume
    <2> QED
      BY <2>1
  <1>3. CASE Register(t)
    <2>1. Call(t, Store(t), RegisterConnection(Name(t))) /\ request[t].at = "register"
      BY <1>3 DEF Register, At
    <2>2. Store(t) \in Stores /\ RegisterConnection(Name(t)) \in Requests
      BY <2>1, Asked
    <2> QED
      BY <2>1, <2>2
  <1>4. CASE Report(t)
    <2>1. Call(t, Store(t), RegisterConnection(Name(t))) /\ request[t].at = "report"
      BY <1>4 DEF Report, Ask, At
    <2>2. Store(t) \in Stores /\ RegisterConnection(Name(t)) \in Requests
      BY <2>1, Asked
    <2> QED
      BY <2>1, <2>2
  <1>5. CASE Sync(t)
    <2>1. Call(t, Store(t), SyncSuite(Target(t), Declares[Target(t)])) /\ request[t].at = "sync"
      BY <1>5 DEF Sync, Ask, At
    <2>2. Store(t) \in Stores /\ SyncSuite(Target(t), Declares[Target(t)]) \in Requests
      BY <2>1, Asked DEF At
    <2> QED
      BY <2>1, <2>2
  <1>6. CASE Keep(t)
    <2>1. Call(t, Store(t), RecordEntry(request[t].id)) /\ request[t].at = "keep"
      BY <1>6 DEF Keep, Ask, At
    <2>2. Store(t) \in Stores /\ RecordEntry(request[t].id) \in Requests
      BY <2>1, Asked DEF At
    <2> QED
      BY <2>1, <2>2
  <1>7. CASE Catalogue(t)
    <2>1. Call(t, Store(t), UpsertDataset(Target(t), ColumnsOf[Target(t)])) /\ request[t].at = "catalogue"
      BY <1>7 DEF Catalogue, Ask, At
    <2>2. Store(t) \in Stores /\ UpsertDataset(Target(t), ColumnsOf[Target(t)]) \in Requests
      BY <2>1, Asked DEF At
    <2> QED
      BY <2>1, <2>2
  <1>8. CASE Direct(t)
    <2>1. Call(t, Store(t), Target(t)) /\ request[t].at = "store"
      BY <1>8 DEF Direct, Ask, At
    <2>2. Store(t) \in Stores /\ Target(t) \in Requests
      BY <2>1, Asked DEF At
    <2> QED
      BY <2>1, <2>2
  <1>9. CASE WalkTables(t)
    <2>1. CASE UNCHANGED vars
      BY <2>1
    <2>2. CASE /\ request[t].tables # <<>>
               /\ LET d == Head(request[t].tables) IN Call(t, Store(t), UpsertDataset(d, ColumnsOf[d]))
      <3>1. PICK d : d = Head(request[t].tables)
        OBVIOUS
      <3>2. Call(t, Store(t), UpsertDataset(d, ColumnsOf[d])) /\ request[t].at = "walk"
        BY <1>9, <2>2, <3>1 DEF WalkTables, At
      <3>3. Store(t) \in Stores /\ UpsertDataset(d, ColumnsOf[d]) \in Requests
        BY <2>2, <3>1, <3>2, Asked
      <3> QED
        BY <3>2, <3>3
    <2> QED
      BY <1>9, <2>1, <2>2 DEF WalkTables
  <1>10. CASE StoreStep(t)
    BY <1>10
  <1> QED
    BY <1>1, <1>2, <1>3, <1>4, <1>5, <1>6, <1>7, <1>8, <1>9, <1>10 DEF Serve

LEMMA MetastoreStep ==
    ASSUME ServiceOK, [FacadeNext]_facadeVars
    PROVE  [Next]_vars
  <1>1. ASSUME NEW t \in Clients, Serve(t) PROVE [Next]_vars
    BY <1>1, ServeCalls DEF StoreStep, Next
  <1>2. ASSUME NEW p \in Processes, Shutdown(p) PROVE [Next]_vars
    BY <1>2, ShutdownOK DEF Shutdown, Next
  <1>3. ASSUME NEW t \in Clients, NEW job \in Jobs[t], Arrive(t, job) PROVE [Next]_vars
    BY <1>3 DEF Arrive
  <1>4. ASSUME NEW i \in Ids, Age(i) PROVE [Next]_vars
    BY <1>4 DEF Next
  <1> QED
    BY <1>1, <1>2, <1>3, <1>4 DEF FacadeNext, Rest, facadeVars

(* Whatever is asked of the service, and whatever fails, its metastore sees *)
(* a behaviour of Metastore: calls of its interface, and its own steps.     *)
THEOREM ServiceUsesMetastore == FacadeSpec => UsesMetastore
  <1>1. FacadeInit => Init
    BY DEF FacadeInit
  <1> QED
    BY <1>1, MetastoreStep, ServiceTyping, PTL DEF FacadeSpec, UsesMetastore, Spec

(* So the tables are made by one thread of a process at a time, whoever     *)
(* else is being served.                                                    *)
THEOREM ServiceBuildersExclude == FacadeSpec => []OneBuilder
  BY ServiceUsesMetastore, BuildersExclude DEF UsesMetastore

(* A suite that was mirrored without another sync of it is what it declared. *)
THEOREM ServiceRegistrySettles == FacadeSpec => []RegistrySettles
  BY ServiceUsesMetastore, RegistryReflects DEF UsesMetastore

(* A read through the service finds an entry whole, as MetastoreProofs says. *)
THEOREM ServiceReadsAreWhole == FacadeSpec => []ReadsWhole
  BY ServiceUsesMetastore, ReadsAreWhole DEF UsesMetastore

(* And what the service records is a History.                               *)
THEOREM ServiceImplementsHistory == FacadeSpec => ImplementsHistory
  BY ServiceUsesMetastore, StoreImplementsHistory DEF UsesMetastore

(* Every variable holds what its comment says.                              *)
THEOREM ServiceTypes == FacadeSpec => []FacadeTypeOK
  <1>1. ServiceOK /\ StoreTypeOK => FacadeTypeOK
    BY DEF ServiceOK, GlobalsOK, Engine, FacadeTypeOK
  <1> QED
    BY <1>1, ServiceTyping, ServiceUsesMetastore, StoreTypes, PTL DEF UsesMetastore

---------------------------------------------------------------------------
(* What becomes of a run *)

(* A call that records an entry ends with the entry kept, or lost in a store *)
(* that is not strict, or with an exception.                                *)
Recorded(c) ==
    call[c].op.kind = "record" /\ call[c].at = "idle" =>
      /\ call[c].answer \in {"ok", "lost", "raised"}
      /\ call[c].answer = "ok" => Id(c) \in headers \cup old
      /\ call[c].answer = "lost" => call[c].store \notin Strict

RecordsEnd == \A c \in Clients : Recorded(c)

(* What was kept is kept or past its retention for ever after.              *)
LEMMA Lasting ==
    ASSUME CallsOK, [Next]_vars
    PROVE  headers \cup old \subseteq headers' \cup old' /\ recorded \subseteq recorded'
  <1>1. ASSUME NEW c \in Clients, Step(c)
        PROVE  headers \cup old \subseteq headers' \cup old' /\ recorded' = recorded
    <2>1. CASE DeleteStale(c)
      <3>1. call[c].seen \subseteq old
        BY <2>1 DEF DeleteStale, CallsOK, CallOK
      <3> QED
        BY <2>1, <3>1 DEF DeleteStale
    <2>2. CASE ~DeleteStale(c)
      BY <1>1, <2>2
      DEF Step, Lock, Probe, Create, Stamp, InsertVersion, BootstrapFails, BadUrl, Update, Insert, Prune,
          Annotate, ListRows, Record, ReadHeader, ReadDetails, SelectStale, TransactionFails, history
    <2> QED
      BY <2>1, <2>2
  <1>2. ASSUME NEW c \in Clients, NEW s \in Stores, NEW op \in Requests, Call(c, s, op)
        PROVE  headers' = headers /\ old' = old /\ recorded \subseteq recorded'
    BY <1>2 DEF Call
  <1>3. CASE (\E s \in Stores : Close(s)) \/ (\E i \in Ids : Age(i)) \/ UNCHANGED vars
    BY <1>3 DEF Close, Age, vars, history
  <1> QED
    BY <1>1, <1>2, <1>3 DEF Next

(* The call of a client that records is where its steps take it.            *)
LEMMA RecordStep ==
    ASSUME CallsOK, NEW c \in Clients, Step(c), call[c].op.kind = "record"
    PROVE  Recorded(c)'
  <1>1. call \in [Clients -> CallType] /\ Fits(call[c], old)
    BY CallOKIsFits DEF CallsOK, StoreTypeOK
  <1>2. PICK q : q = call[c]
    OBVIOUS
  <1>3. q \in CallType /\ Fits(q, old) /\ q.op.kind = "record" /\ Id(c)' = Id(c) /\ Id(c) = q.op.id
    BY <1>1, <1>2, StepFrame DEF Frame, Id, CallsOK
  <1>4. call'[c].op = q.op /\ call'[c].store = q.store
    BY <1>2, StepFrame DEF Frame, CallsOK
  <1>5. ASSUME NEW at, Goto(c, at), at # "idle" PROVE Recorded(c)'
    <2>1. call'[c].at = at
      BY <1>1, <1>5 DEF Goto, CallType
    <2> QED
      BY <1>5, <2>1 DEF Recorded
  <1>6. ASSUME NEW answer, Return(c, answer) PROVE call'[c].at = "idle" /\ call'[c].answer = answer
    BY <1>1, <1>6 DEF Return, CallType
  <1>7. ASSUME Guard(c) PROVE Recorded(c)'
    <2>1. call'[c].answer = IF q.store \in Strict THEN "raised" ELSE "lost"
      BY <1>2, <1>6, <1>7 DEF Guard
    <2> QED
      BY <1>4, <2>1 DEF Recorded
  <1>8. After(q.op, 0) = "record"
    BY <1>3 DEF After
  <1>9. q.at \in {"lock"} \cup UnderLock \/ q.at = "record"
    <2>1. q.at \in {"idle", "lock"} \cup UnderLock \cup Transactions
      BY <1>3 DEF CallType
    <2>2. q.at # "idle"
      BY <1>2 DEF Step, Lock, Probe, Create, Stamp, InsertVersion, BootstrapFails, BadUrl, Update, Insert, Prune,
        Annotate, ListRows, Record, ReadHeader, ReadDetails, SelectStale, DeleteStale,
        TransactionFails, Failing, UnderLock, Transactions
    <2> QED
      BY <1>3, <2>1, <2>2 DEF Fits, Transactions
  <1>10. CASE Lock(c) \/ Probe(c) \/ Create(c) \/ Stamp(c) \/ InsertVersion(c)
    BY <1>2, <1>5, <1>8, <1>10 DEF Lock, Probe, Create, Stamp, InsertVersion, Usable
  <1>11. CASE BootstrapFails(c)
    BY <1>7, <1>11 DEF BootstrapFails
  <1>12. CASE BadUrl(c)
    <2>1. call'[c].answer = "raised"
      BY <1>6, <1>12 DEF BadUrl
    <2> QED
      BY <2>1 DEF Recorded
  <1>13. CASE Record(c)
    <2>1. call'[c].answer = "ok" /\ Id(c) \in headers'
      BY <1>6, <1>13 DEF Record
    <2> QED
      BY <1>3, <2>1 DEF Recorded
  <1>14. CASE TransactionFails(c)
    BY <1>2, <1>7, <1>9, <1>14 DEF TransactionFails, UnderLock
  <1>15. CASE \/ Update(c) \/ Insert(c) \/ Prune(c) \/ Annotate(c) \/ ListRows(c)
              \/ ReadHeader(c) \/ ReadDetails(c) \/ SelectStale(c) \/ DeleteStale(c)
    BY <1>2, <1>9, <1>15 DEF Update, Insert, Prune, Annotate, ListRows, ReadHeader, ReadDetails, SelectStale,
                             DeleteStale, UnderLock
  <1> QED
    BY <1>10, <1>11, <1>12, <1>13, <1>14, <1>15 DEF Step

LEMMA CallRecords ==
    ASSUME CallsOK, NEW c \in Clients, NEW s, NEW op \in Requests, Call(c, s, op)
    PROVE  /\ call'[c].op = op /\ call'[c].store = s
           /\ op.kind = "record" => call'[c].at # "idle" /\ op.id \in recorded'
           /\ \A d \in Clients : d # c => call'[d] = call[d]
  <1>1. call \in [Clients -> CallType]
    BY DEF CallsOK, StoreTypeOK
  <1>2. PICK at : at = IF ready[s] THEN After(op, 0) ELSE "lock"
    OBVIOUS
  <1>3. call' = [call EXCEPT ![c] = [NoCall(op) EXCEPT !.store = s, !.at = at]]
    BY <1>2 DEF Call
  <1>4. PICK r : r = call'[c]
    OBVIOUS
  <1>5. r = [NoCall(op) EXCEPT !.store = s, !.at = at]
    BY <1>1, <1>3, <1>4
  <1>6. r.op = op /\ r.store = s /\ r.at = at
    BY <1>5 DEF NoCall
  <1>7. op.kind = "record" => at # "idle"
    BY <1>2 DEF After
  <1>8. op.kind = "record" => op.id \in recorded'
    BY DEF Call
  <1>9. \A d \in Clients : d # c => call'[d] = call[d]
    BY <1>1, <1>3
  <1> QED
    BY <1>4, <1>6, <1>7, <1>8, <1>9

LEMMA RecordsKept ==
    ASSUME CallsOK, RecordsEnd, [Next]_vars
    PROVE  RecordsEnd'
  <1>1. headers \cup old \subseteq headers' \cup old'
    BY Lasting
  <1>2. ASSUME NEW d \in Clients, call'[d] = call[d] PROVE Recorded(d)'
    BY <1>1, <1>2 DEF RecordsEnd, Recorded, Id
  <1>3. ASSUME NEW c \in Clients, Step(c) PROVE RecordsEnd'
    <2>1. Frame(c)
      BY <1>3, StepFrame DEF CallsOK
    <2>2. CASE call[c].op.kind = "record"
      BY <1>2, <1>3, <2>1, <2>2, RecordStep DEF Frame, RecordsEnd
    <2>3. CASE call[c].op.kind # "record"
      BY <1>2, <2>1, <2>3 DEF Frame, RecordsEnd, Recorded
    <2> QED
      BY <2>2, <2>3
  <1>4. ASSUME NEW c \in Clients, NEW s \in Stores, NEW op \in Requests, Call(c, s, op) PROVE RecordsEnd'
    BY <1>2, <1>4, CallRecords DEF RecordsEnd, Recorded
  <1>5. CASE (\E s \in Stores : Close(s)) \/ (\E i \in Ids : Age(i)) \/ UNCHANGED vars
    BY <1>2, <1>5 DEF Close, Age, vars, RecordsEnd
  <1> QED
    BY <1>3, <1>4, <1>5 DEF Next

LEMMA RecordsStart == Init => RecordsEnd
  <1>1. Purge.kind = "purge"
    BY DEF Purge, Operation
  <1>2. Init => \A c \in Clients : call[c].op = Purge
    BY DEF Init, NoCall
  <1> QED
    BY <1>1, <1>2 DEF RecordsEnd, Recorded

LEMMA RecordEntryFacts == ASSUME NEW i PROVE RecordEntry(i).kind = "record" /\ RecordEntry(i).id = i
  BY DEF RecordEntry, Operation

RunLabels == {"sync", "synced", "keep", "kept", "notify"}

(* What a step changes of its own request.                                  *)
Same(t) == request'[t].job = request[t].job /\ request'[t].id = request[t].id
Plain(t) == /\ Same(t) /\ request'[t].store = request[t].store
            /\ request'[t].outcome = request[t].outcome
Stays(t) == /\ Same(t) /\ request'[t].store = request[t].store
            /\ request'[t].connector = request[t].connector

Elsewhere(t) == Same(t) /\ request'[t].at \notin {"idle"} \cup RunLabels
Walks(t)     == Stays(t) /\ request'[t].at \in {"register", "list", "walk", "upserted", "execute"}
Ended(t)     == Same(t) /\ request'[t].at = "idle" /\ request'[t].answer \in {"ok", "error", "errored", "planned"}
Progress(t)  ==
    \/ Elsewhere(t)
    \/ Ended(t)
    \/ Same(t) /\ request'[t].at = "sync" /\ request'[t].outcome \in {"passed", "failed"}
    \/ Plain(t) /\ request'[t].at = "synced" /\ Sync(t)
    \/ Plain(t) /\ request'[t].at = "keep" /\ (Synced(t) \/ request[t].job.kind = "profile")
    \/ Plain(t) /\ request'[t].at = "kept" /\ Keep(t)
    \/ Plain(t) /\ request'[t].at = "notify" /\ Kept(t) /\ ~Raised(t)
    \/ Plain(t) /\ request'[t].at = "idle" /\ request'[t].answer = request[t].outcome /\ Notify(t)

LEMMA WentTo ==
    ASSUME ServiceOK, NEW t \in Clients, NEW l \in Labels, Go(t, l)
    PROVE  Plain(t) /\ Stays(t) /\ request'[t].at = l
  <1>1. PICK q : q = request[t]
    OBVIOUS
  <1>2. PICK r : r = request'[t]
    OBVIOUS
  <1>3. q \in RequestType /\ request \in [Clients -> RequestType]
    BY <1>1, Facts
  <1>4. r = [q EXCEPT !.at = l]
    BY <1>1, <1>2, <1>3 DEF Go
  <1>5. r.at = l /\ r.job = q.job /\ r.id = q.id /\ r.store = q.store /\ r.outcome = q.outcome
        /\ r.connector = q.connector
    BY <1>3, <1>4 DEF RequestType
  <1> QED
    BY <1>1, <1>2, <1>5 DEF Plain, Stays, Same

LEMMA Answered ==
    ASSUME ServiceOK, NEW t \in Clients, NEW a, Answer(t, a)
    PROVE  Plain(t) /\ request'[t].at = "idle" /\ request'[t].answer = a
  <1>1. PICK q : q = request[t]
    OBVIOUS
  <1>2. PICK r : r = request'[t]
    OBVIOUS
  <1>3. q \in RequestType /\ request \in [Clients -> RequestType]
    BY <1>1, Facts
  <1>4. r = [q EXCEPT !.at = "idle", !.connector = 0, !.tables = <<>>, !.answer = a]
    BY <1>1, <1>2, <1>3 DEF Answer
  <1>5. r.at = "idle" /\ r.answer = a /\ r.job = q.job /\ r.id = q.id /\ r.store = q.store /\ r.outcome = q.outcome
    BY <1>3, <1>4 DEF RequestType
  <1> QED
    BY <1>1, <1>2, <1>5 DEF Plain, Same

(* Steps that also set other fields, but not the job or the identifier.     *)
LEMMA Connected ==
    ASSUME ServiceOK, NEW t \in Clients, NEW l, NEW k, request' = [request EXCEPT ![t].connector = k, ![t].at = l]
    PROVE  Same(t) /\ request'[t].at = l /\ request'[t].store = request[t].store /\ request'[t].connector = k
  BY Facts DEF RequestType, Same

LEMMA Placed ==
    ASSUME ServiceOK, NEW t \in Clients, NEW l, NEW k, request' = [request EXCEPT ![t].store = k, ![t].at = l]
    PROVE  Same(t) /\ request'[t].at = l /\ request'[t].store = k /\ request'[t].connector = request[t].connector
  BY Facts DEF RequestType, Same

LEMMA Cataloguing ==
    ASSUME ServiceOK, NEW t \in Clients, NEW l, NEW k, request' = [request EXCEPT ![t].connecting = k, ![t].at = l]
    PROVE  Stays(t) /\ request'[t].at = l
  BY Facts DEF RequestType, Same, Stays

LEMMA Targeted ==
    ASSUME ServiceOK, NEW t \in Clients, NEW l, NEW k, request' = [request EXCEPT ![t].at = l, ![t].schemas = k]
    PROVE  Stays(t) /\ request'[t].at = l
  BY Facts DEF RequestType, Same, Stays

LEMMA CutShort ==
    ASSUME ServiceOK, NEW t \in Clients, NEW l, NEW k, NEW b, request' = [request EXCEPT ![t].truncated = b, ![t].schemas = k, ![t].at = l]
    PROVE  Stays(t) /\ request'[t].at = l
  BY Facts DEF RequestType, Same, Stays

LEMMA CameOut ==
    ASSUME ServiceOK, NEW t \in Clients, NEW l, NEW k, request' = [request EXCEPT ![t].outcome = k, ![t].at = l]
    PROVE  Stays(t) /\ request'[t].at = l /\ request'[t].outcome = k
  BY Facts DEF RequestType, Same, Stays

LEMMA FailEnds ==
    ASSUME ServiceOK, NEW t \in Clients, Fail(t)
    PROVE  Ended(t)
  BY Answered DEF Fail, Ended, Plain

LEMMA GoesElsewhere ==
    ASSUME ServiceOK, NEW t \in Clients, NEW l \in Labels \ ({"idle"} \cup RunLabels), Go(t, l)
    PROVE  Elsewhere(t)
  BY WentTo DEF Elsewhere, Plain

LEMMA CatalogueProgress ==
    ASSUME ServiceOK, NEW t \in Clients, request[t].at \in Catalog, Catalogued(t)
    PROVE  Walks(t) \/ Ended(t)
  <1>1. PICK q : q = request[t]
    OBVIOUS
  <1>2. Good(q, Len(connectors)) /\ q \in RequestType /\ request \in [Clients -> RequestType]
    BY <1>1, Facts
  <1>3. q.job \in AllJobs /\ q.job.kind \notin {"none", "store", "test", "register_connection"}
    BY <1>1, <1>2 DEF Good, Passes, RequestType
  <1>4. PICK l : l = Work(q.job)
    OBVIOUS
  <1>5. l \in {"register", "execute"}
    BY <1>3, <1>4, WorkPasses
  <1>6. CASE q.connecting
    <2>1. request' = [request EXCEPT ![t].connecting = FALSE, ![t].at = l]
      BY <1>1, <1>4, <1>6 DEF Catalogued
    <2> QED
      BY <1>5, <2>1, Cataloguing DEF Walks
  <1>7. CASE ~q.connecting
    <2>1. PICK r : r = request'[t]
      OBVIOUS
    <2>2. r = [q EXCEPT !.at = "idle", !.connector = 0, !.answer = "ok"]
      BY <1>1, <1>2, <1>7, <2>1 DEF Catalogued
    <2>3. r.at = "idle" /\ r.answer = "ok" /\ r.job = q.job /\ r.id = q.id
      BY <1>2, <2>2 DEF RequestType
    <2> QED
      BY <1>1, <2>1, <2>3 DEF Ended, Same
  <1> QED
    BY <1>6, <1>7

LEMMA WalkProgress ==
    ASSUME ServiceOK, NEW t \in Clients, Registered(t) \/ ListTables(t) \/ WalkTables(t) \/ Upserted(t)
    PROVE  Walks(t) \/ Ended(t)
  <1>1. PICK q : q = request[t]
    OBVIOUS
  <1>2. PICK r : r = request'[t]
    OBVIOUS
  <1>3. q \in RequestType /\ request \in [Clients -> RequestType] /\ q.at \in {"registered", "list", "walk", "upserted"}
    BY <1>1, Facts DEF Registered, ListTables, WalkTables, Upserted, At
  <1>4. q.at \in Catalog /\ {"list", "walk", "upserted"} \subseteq Labels \ ({"idle"} \cup RunLabels)
    BY <1>3 DEF Catalog, Labels, RunLabels
  <1>5. CASE Catalogued(t) \/ CatalogueRaises(t)
    BY <1>1, <1>4, <1>5, CatalogueProgress, FailEnds DEF CatalogueRaises
  <1>6. CASE Go(t, "list") \/ Go(t, "upserted")
    BY <1>4, <1>6, WentTo DEF Walks
  <1>7. CASE \/ \E s : request' = [request EXCEPT ![t].at = "list", ![t].schemas = s]
             \/ \E s, b : request' = [request EXCEPT ![t].truncated = b, ![t].schemas = s, ![t].at = "list"]
    <2>1. ASSUME NEW s, request' = [request EXCEPT ![t].at = "list", ![t].schemas = s] PROVE Walks(t)
      BY <1>4, <2>1, Targeted DEF Walks
    <2>2. ASSUME NEW s, NEW b, request' = [request EXCEPT ![t].truncated = b, ![t].schemas = s, ![t].at = "list"]
          PROVE  Walks(t)
      BY <1>4, <2>2, CutShort DEF Walks
    <2> QED
      BY <1>7, <2>1, <2>2
  <1>8. PICK rest, tables, first, scanned, seen, counted :
          /\ rest = Tail(q.schemas) /\ tables = Listing[Head(q.schemas)] /\ first = Tail(q.tables)
          /\ scanned = Append(q.scanned, Head(q.schemas)) /\ seen = q.seen + 1
          /\ counted = IF call[t].answer = "ok" THEN Append(q.counted, Head(q.tables)) ELSE q.counted
    OBVIOUS
  <1>9. CASE request' = [request EXCEPT ![t].schemas = Tail(@), ![t].at = "walk",
                                        ![t].tables = Listing[Head(request[t].schemas)],
                                        ![t].scanned = Append(@, Head(request[t].schemas))]
    <2>1. r = [q EXCEPT !.schemas = rest, !.at = "walk", !.tables = tables, !.scanned = scanned]
      BY <1>1, <1>2, <1>3, <1>8, <1>9
    <2>2. r.at = "walk" /\ r.job = q.job /\ r.id = q.id /\ r.store = q.store /\ r.connector = q.connector
      BY <1>3, <2>1 DEF RequestType
    <2> QED
      BY <1>1, <1>2, <2>2 DEF Walks, Stays, Same
  <1>10. CASE ListTables(t) /\ request' = [request EXCEPT ![t].schemas = Tail(@)]
    <2>1. r = [q EXCEPT !.schemas = rest]
      BY <1>1, <1>2, <1>3, <1>8, <1>10
    <2>2. r.at = q.at /\ r.job = q.job /\ r.id = q.id /\ r.store = q.store /\ r.connector = q.connector
      BY <1>3, <2>1 DEF RequestType
    <2>3. q.at = "list"
      BY <1>1, <1>10 DEF ListTables, At
    <2> QED
      BY <1>1, <1>2, <2>2, <2>3 DEF Walks, Stays, Same
  <1>11. CASE WalkTables(t) /\ request' = [request EXCEPT ![t].tables = Tail(@)]
    <2>1. r = [q EXCEPT !.tables = first]
      BY <1>1, <1>2, <1>3, <1>8, <1>11
    <2>2. r.at = q.at /\ r.job = q.job /\ r.id = q.id /\ r.store = q.store /\ r.connector = q.connector
      BY <1>3, <2>1 DEF RequestType
    <2>3. q.at = "walk"
      BY <1>1, <1>11 DEF WalkTables, At
    <2> QED
      BY <1>1, <1>2, <2>2, <2>3 DEF Walks, Stays, Same
  <1>12. CASE request' = [request EXCEPT ![t].tables = Tail(@), ![t].seen = @ + 1, ![t].at = "walk",
                   ![t].counted = IF call[t].answer = "ok" THEN Append(@, Head(request[t].tables)) ELSE @]
    <2>1. r = [q EXCEPT !.tables = first, !.seen = seen, !.at = "walk", !.counted = counted]
      BY <1>1, <1>2, <1>3, <1>8, <1>12
    <2>2. r.at = "walk" /\ r.job = q.job /\ r.id = q.id /\ r.store = q.store /\ r.connector = q.connector
      BY <1>3, <2>1 DEF RequestType
    <2> QED
      BY <1>1, <1>2, <2>2 DEF Walks, Stays, Same
  <1>13. CASE Registered(t)
    BY <1>5, <1>7, <1>13 DEF Registered
  <1>14. CASE ListTables(t)
    BY <1>5, <1>9, <1>10, <1>14 DEF ListTables
  <1>15. CASE WalkTables(t)
    BY <1>6, <1>7, <1>11, <1>15 DEF WalkTables
  <1>16. CASE Upserted(t)
    BY <1>5, <1>12, <1>16 DEF Upserted
  <1> QED
    BY <1>13, <1>14, <1>15, <1>16

LEMMA ServeProgress ==
    ASSUME ServiceOK, NEW t \in Clients, Serve(t), ~StoreStep(t)
    PROVE  Progress(t)
  <1>1. PICK q : q = request[t]
    OBVIOUS
  <1>2. q \in RequestType /\ Good(q, Len(connectors))
    BY <1>1, Facts
  <1>3. {"take", "cache", "boot", "registered", "synced", "kept", "done", "reported", "pop", "keep",
         "notify", "catalogue"} \subseteq Labels
    BY DEF Labels, Catalog
  <1>4. CASE Make(t) \/ Cache(t) \/ Register(t) \/ Configure(t)
    BY <1>3, <1>4, GoesElsewhere DEF Make, Cache, Register, Configure, Progress, RunLabels
  <1>5. CASE Take(t)
    <2>1. PICK s, l : s = app[Home[t]] /\ l = First(q.job)
      OBVIOUS
    <2>2. request' = [request EXCEPT ![t].store = s, ![t].at = l] /\ q.at = "take"
      BY <1>1, <1>5, <2>1 DEF Take, At
    <2>3. q.job \in AllJobs /\ q.job.kind \in JobKinds
      BY <1>1, <1>2, <2>2, JobFacts DEF RequestType, Good, Passes
    <2>4. l \notin {"idle"} \cup RunLabels
      BY <2>1, <2>3 DEF First, JobKinds, RunLabels, Connecting
    <2> QED
      BY <2>2, <2>4, Placed DEF Progress, Elsewhere
  <1>6. CASE Lookup(t) \/ Test(t) \/ Pop(t)
    <2>1. \E k : \E l \in {"boot", "open", "report", "forget"} :
            request' = [request EXCEPT ![t].connector = k, ![t].at = l]
      BY <1>6 DEF Lookup, Test, Pop
    <2>2. PICK k, l : request' = [request EXCEPT ![t].connector = k, ![t].at = l]
                        /\ l \in {"boot", "open", "report", "forget"}
      BY <2>1
    <2>3. Same(t) /\ request'[t].at = l
      BY <2>2, Connected
    <2> QED
      BY <2>2, <2>3 DEF Progress, Elsewhere, RunLabels
  <1>7. CASE Open(t)
    BY <1>3, <1>7, GoesElsewhere, FailEnds DEF Open, Progress, RunLabels
  <1>8. CASE Boot(t)
    <2>1. q.at = "boot" /\ q.job \in AllJobs /\ q.job.kind \notin {"none", "store", "test", "register_connection"}
      BY <1>1, <1>2, <1>8 DEF Boot, At, Good, Passes, RequestType, Catalog
    <2>2. Work(q.job) \in Labels \ ({"idle"} \cup RunLabels)
      BY <2>1, WorkPasses DEF Labels, Catalog, RunLabels
    <2>3. CASE Go(t, Work(q.job))
      BY <2>2, <2>3, GoesElsewhere DEF Progress
    <2>4. CASE request' = [request EXCEPT ![t].connecting = TRUE, ![t].at = "register"]
      <3>1. Same(t) /\ request'[t].at = "register"
        BY <2>4, Cataloguing DEF Stays
      <3> QED
        BY <3>1 DEF Progress, Elsewhere, RunLabels
    <2> QED
      BY <1>1, <1>8, <2>3, <2>4 DEF Boot
  <1>9. CASE Registered(t) \/ ListTables(t) \/ WalkTables(t) \/ Upserted(t)
    BY <1>9, WalkProgress DEF Walks, Stays, Elsewhere, Progress, RunLabels
  <1>10. CASE Execute(t)
    <2>1. CASE Answer(t, "planned") \/ Answer(t, "ok")
      BY <2>1, Answered DEF Progress, Ended, Plain
    <2>2. CASE Fail(t)
      BY <2>2, FailEnds DEF Progress
    <2>3. ASSUME NEW o \in {"passed", "failed"}, request' = [request EXCEPT ![t].outcome = o, ![t].at = "sync"]
          PROVE  Progress(t)
      <3>1. Stays(t) /\ request'[t].at = "sync" /\ request'[t].outcome = o
        BY <2>3, CameOut
      <3> QED
        BY <2>3, <3>1 DEF Stays, Progress
    <2>4. CASE Go(t, "keep") /\ q.job.kind = "profile"
      BY <1>1, <1>3, <2>4, WentTo DEF Progress
    <2>5. CASE Go(t, "catalogue")
      BY <1>3, <2>5, GoesElsewhere DEF Progress, RunLabels
    <2> QED
      BY <1>1, <1>10, <2>1, <2>2, <2>3, <2>4, <2>5 DEF Execute
  <1>11. CASE Sync(t)
    <2>1. Go(t, "synced")
      BY <1>11 DEF Sync, Ask
    <2> QED
      BY <1>3, <1>11, <2>1, WentTo DEF Progress
  <1>12. CASE Keep(t)
    <2>1. Go(t, "kept")
      BY <1>12 DEF Keep, Ask
    <2> QED
      BY <1>3, <1>12, <2>1, WentTo DEF Progress
  <1>13. CASE Catalogue(t) \/ Direct(t) \/ Report(t)
    <2>1. Go(t, "done") \/ Go(t, "reported")
      BY <1>13 DEF Catalogue, Direct, Report, Ask
    <2> QED
      BY <1>3, <2>1, GoesElsewhere DEF Progress, RunLabels
  <1>14. CASE Synced(t)
    <2>1. Fail(t) \/ Go(t, "keep")
      BY <1>14 DEF Synced, Resume
    <2> QED
      BY <1>3, <1>14, <2>1, FailEnds, WentTo DEF Progress
  <1>15. CASE Kept(t)
    <2>1. Fail(t) \/ Answer(t, "ok") \/ (~Raised(t) /\ Go(t, "notify"))
      BY <1>15 DEF Kept, Resume
    <2> QED
      BY <1>3, <1>15, <2>1, FailEnds, Answered, WentTo DEF Progress, Ended, Plain
  <1>16. CASE Done(t)
    <2>1. Fail(t) \/ Answer(t, "ok")
      BY <1>16 DEF Done, Resume
    <2> QED
      BY <2>1, FailEnds, Answered DEF Progress, Ended, Plain
  <1>17. CASE Notify(t)
    <2>1. Answer(t, request[t].outcome)
      BY <1>17 DEF Notify
    <2> QED
      BY <1>17, <2>1, Answered DEF Progress
  <1>18. CASE CloseProbe(t) \/ Forget(t)
    BY <1>18, FailEnds, Answered DEF CloseProbe, Forget, Progress, Ended, Plain
  <1> QED
    BY <1>4, <1>5, <1>6, <1>7, <1>8, <1>9, <1>10, <1>11, <1>12, <1>13, <1>14, <1>15, <1>16, <1>17, <1>18 DEF Serve

(* The run of a request is announced by its last step alone, and where it   *)
(* is on its way to the history.                                            *)
Running(t) == request[t].job.kind \in RunKinds

Account(t) ==
    LET r == request[t] IN
      /\ r.at # "idle" => notices[r.id] = 0
      /\ r.at \in RunLabels => r.outcome \in {"passed", "failed"}
      /\ r.at = "kept" => call[t].op.kind = "record" /\ call[t].op.id = r.id /\ call[t].store = r.store
      /\ r.at \in {"kept", "notify"} => r.id \in recorded
      /\ r.at = "notify" => (r.store \in Strict => r.id \in headers \cup old)
      /\ r.at = "idle" =>
           /\ r.answer \in {"passed", "failed"} =>
                /\ r.answer = r.outcome
                /\ r.id \in recorded
                /\ r.store \in Strict => r.id \in headers \cup old
                /\ notices[r.id] = IF Notifies(r.outcome) THEN 1 ELSE 0
           /\ r.answer \in {"error", "errored"} => notices[r.id] = 0

Numbered == \A t \in Clients : Running(t) => \E n \in 1 .. served : request[t].id = RunIds[n]
Apart    == \A t, d \in Clients : t # d /\ Running(t) /\ Running(d) => request[t].id # request[d].id
Unsent   == \A n \in 1 .. MaxRequests : n > served => notices[RunIds[n]] = 0

AccountOK ==
    /\ Numbered /\ Apart /\ Unsent
    /\ \A t \in Clients : Running(t) => Account(t)

LEMMA AccountGives == AccountOK => RunAccounted
  BY DEF AccountOK, Account, Running, RunAccounted, RunKinds, At

(* A step that leaves a request, its call and its notices alone.            *)
LEMMA AccountLasts ==
    ASSUME NEW d \in Clients, Account(d), request'[d] = request[d],
           request[d].at = "kept" =>
             /\ call'[d].op.kind = call[d].op.kind
             /\ call'[d].op.id = call[d].op.id
             /\ call'[d].store = call[d].store,
           notices'[request[d].id] = notices[request[d].id],
           headers \cup old \subseteq headers' \cup old', recorded \subseteq recorded'
    PROVE  Account(d)'
  <1>1. PICK r : r = request[d]
    OBVIOUS
  <1>2. r = request'[d]
    BY <1>1
  <1> QED
    BY <1>1, <1>2 DEF Account

(* The steps of a request that keep its job and identifier, and send no     *)
(* notice of another.                                                       *)
LEMMA OthersAccounted ==
    ASSUME CallsOK, [Next]_vars, ServiceOK, AccountOK, NEW t \in Clients,
           \A d \in Clients : d # t => request'[d] = request[d],
           \A d \in Clients : d # t => call'[d] = call[d],
           Same(t), served' = served,
           notices' = notices
             \/ (Running(t) /\ \E n : notices' = [notices EXCEPT ![request[t].id] = n]),
           Running(t) => Account(t)'
    PROVE  AccountOK'
  <1>1. headers \cup old \subseteq headers' \cup old' /\ recorded \subseteq recorded'
    BY Lasting
  <1>2. \A d \in Clients : request'[d].job = request[d].job /\ request'[d].id = request[d].id
    BY DEF Same
  <1>3. Numbered' /\ Apart'
    BY <1>2 DEF AccountOK, Numbered, Apart, Running
  <1>4. \A d \in Clients : d # t /\ Running(d) => notices'[request[d].id] = notices[request[d].id]
    <2>1. notices \in [Runs -> Nat]
      BY DEF ServiceOK, GlobalsOK
    <2>2. SUFFICES ASSUME NEW d \in Clients, d # t, Running(d)
                   PROVE  notices'[request[d].id] = notices[request[d].id]
      OBVIOUS
    <2>3. Running(t) => request[d].id # request[t].id
      BY <2>2 DEF AccountOK, Apart
    <2>4. CASE notices' = notices
      BY <2>4
    <2>5. ASSUME Running(t), NEW n, notices' = [notices EXCEPT ![request[t].id] = n]
          PROVE  notices'[request[d].id] = notices[request[d].id]
      BY <2>1, <2>3, <2>5
    <2> QED
      BY <2>4, <2>5
  <1>5. \A n \in 1 .. MaxRequests : n > served => notices'[RunIds[n]] = notices[RunIds[n]]
    <2>1. SUFFICES ASSUME NEW n \in 1 .. MaxRequests, n > served
                   PROVE  notices'[RunIds[n]] = notices[RunIds[n]]
      OBVIOUS
    <2>2. notices \in [Runs -> Nat] /\ served \in 0 .. MaxRequests /\ MaxRequests \in Nat
      BY NumberedAssumption DEF ServiceOK, GlobalsOK
    <2>3. Running(t) => request[t].id # RunIds[n]
      <3>1. SUFFICES ASSUME Running(t) PROVE request[t].id # RunIds[n]
        OBVIOUS
      <3>2. PICK m \in 1 .. served : request[t].id = RunIds[m]
        BY <3>1 DEF AccountOK, Numbered
      <3>3. m \in 1 .. MaxRequests /\ m # n
        BY <2>1, <2>2, <3>2
      <3> QED
        BY <3>2, <3>3, NumberedAssumption
    <2>4. CASE notices' = notices
      BY <2>4
    <2>5. ASSUME Running(t), NEW k, notices' = [notices EXCEPT ![request[t].id] = k]
          PROVE  notices'[RunIds[n]] = notices[RunIds[n]]
      BY <2>2, <2>3, <2>5
    <2> QED
      BY <2>4, <2>5
  <1>6. Unsent'
    BY <1>5 DEF AccountOK, Unsent
  <1>7. ASSUME NEW d \in Clients, d # t, Running(d)' PROVE Account(d)'
    <2>1. Running(d) /\ Account(d) /\ request'[d] = request[d] /\ call'[d] = call[d]
      BY <1>7 DEF AccountOK, Running
    <2> QED
      BY <1>1, <1>4, <1>7, <2>1, AccountLasts
  <1>8. Running(t)' => Account(t)'
    BY <1>2 DEF Running
  <1> QED
    BY <1>3, <1>6, <1>7, <1>8 DEF AccountOK

(* What the steps of a request leave of the rest of the state.              *)
LEMMA ServeFrame ==
    ASSUME CallsOK, ServiceOK, NEW t \in Clients, Serve(t), ~StoreStep(t)
    PROVE  /\ \A d \in Clients : d # t => call'[d] = call[d]
           /\ served' = served
           /\ ~Notify(t) => notices' = notices
           /\ Keep(t) => /\ call'[t].op = RecordEntry(request[t].id) /\ call'[t].store = Store(t)
                         /\ request[t].id \in recorded'
  <1>1. CASE UNCHANGED vars
    <2>1. call' = call
      BY <1>1 DEF vars
    <2>2. ~Keep(t)
      <3>1. SUFFICES ASSUME Keep(t) PROVE FALSE
        OBVIOUS
      <3>2. Call(t, Store(t), RecordEntry(request[t].id)) /\ request[t].at = "keep"
        BY <3>1 DEF Keep, Ask, At
      <3>3. RecordEntry(request[t].id) \in Requests
        BY <3>2, Asked DEF At
      <3>4. PICK op : op = RecordEntry(request[t].id)
        OBVIOUS
      <3>5. op \in Requests /\ op.kind = "record" /\ Call(t, Store(t), op)
        BY <3>2, <3>3, <3>4, RecordEntryFacts
      <3>6. call'[t].at # "idle"
        BY <3>5, CallRecords
      <3>7. call[t].at = "idle"
        BY <3>5 DEF Call
      <3> QED
        BY <2>1, <3>6, <3>7
    <2>3. served' = served /\ (~Notify(t) => notices' = notices)
      BY DEF Serve, StoreStep, Make, Take, Lookup, Open, Cache, Boot, Register, Registered, ListTables, WalkTables,
             Upserted, Execute, Sync, Synced, Keep, Kept, Catalogue, Direct, Done, Ask, Resume, Test, Report,
             CloseProbe, Configure, Pop, Forget, Notify
    <2> QED
      BY <2>1, <2>2, <2>3
  <1>2. ASSUME NEW s \in Stores, NEW op \in Requests, Call(t, s, op)
        PROVE  \A d \in Clients : d # t => call'[d] = call[d]
    BY <1>2, CallRecords
  <1>3. served' = served /\ (~Notify(t) => notices' = notices)
      BY DEF Serve, StoreStep, Make, Take, Lookup, Open, Cache, Boot, Register, Registered, ListTables, WalkTables,
             Upserted, Execute, Sync, Synced, Keep, Kept, Catalogue, Direct, Done, Ask, Resume, Test, Report,
             CloseProbe, Configure, Pop, Forget, Notify
  <1>4. Keep(t) => /\ call'[t].op = RecordEntry(request[t].id) /\ call'[t].store = Store(t)
                   /\ request[t].id \in recorded'
    <2>1. SUFFICES ASSUME Keep(t)
                   PROVE  /\ call'[t].op = RecordEntry(request[t].id) /\ call'[t].store = Store(t)
                          /\ request[t].id \in recorded'
      OBVIOUS
    <2>2. Call(t, Store(t), RecordEntry(request[t].id)) /\ request[t].at = "keep"
      BY <2>1 DEF Keep, Ask, At
    <2>3. RecordEntry(request[t].id) \in Requests
      BY <2>2, Asked DEF At
    <2> QED
      BY <2>2, <2>3, CallRecords, RecordEntryFacts
  <1> QED
    BY <1>1, <1>2, <1>3, <1>4, ServeCalls

LEMMA ServeAccounted ==
    ASSUME CallsOK, RecordsEnd, [Next]_vars, ServiceOK, AccountOK, NEW t \in Clients, Serve(t), ~StoreStep(t)
    PROVE  AccountOK'
  <1>1. Progress(t) /\ Same(t)
    BY ServeProgress DEF Progress, Elsewhere, Ended, Plain
  <1>2. \A d \in Clients : d # t => request'[d] = request[d]
    BY ServeOK, ServedKeeps
  <1>3. headers \cup old \subseteq headers' \cup old' /\ recorded \subseteq recorded'
    BY Lasting
  <1>4. PICK q, r : q = request[t] /\ r = request'[t]
    OBVIOUS
  <1>5. r.id = q.id /\ r.job = q.job
    BY <1>1, <1>4 DEF Same
  <1>6. q.at # "idle"
    BY <1>4 DEF Serve, StoreStep, Make, Take, Lookup, Open, Cache, Boot, Register, Registered, ListTables, WalkTables,
             Upserted, Execute, Sync, Synced, Keep, Kept, Catalogue, Direct, Done, Ask, Resume, Test, Report,
             CloseProbe, Configure, Pop, Forget, Notify, At
  <1>7. CASE Notify(t)
    <2>1. q.at = "notify" /\ r.at = "idle" /\ r.answer = q.outcome /\ r.outcome = q.outcome /\ r.store = q.store
      BY <1>4, <1>7, Answered DEF Notify, At, Plain
    <2>2. Running(t)
      BY <1>4, <2>1, Facts DEF Good, Passes, Running
    <2>3. /\ notices[q.id] = 0 /\ q.outcome \in {"passed", "failed"} /\ q.id \in recorded
          /\ q.store \in Strict => q.id \in headers \cup old
      BY <1>4, <2>1, <2>2 DEF AccountOK, Account, RunLabels
    <2>4. q.id \in Runs /\ notices \in [Runs -> Nat]
      <3>1. notices \in [Runs -> Nat] /\ served \in 0 .. MaxRequests /\ MaxRequests \in Nat
        BY NumberedAssumption DEF ServiceOK, GlobalsOK
      <3>2. PICK m \in 1 .. served : q.id = RunIds[m]
        BY <1>4, <2>2 DEF AccountOK, Numbered
      <3>3. m \in 1 .. MaxRequests
        BY <3>1, <3>2
      <3> QED
        BY <3>1, <3>2, <3>3, NumberedAssumption
    <2>5. PICK n : n = IF Notifies(q.outcome) THEN 1 ELSE 0
      OBVIOUS
    <2>6. notices' = [notices EXCEPT ![q.id] = n]
      BY <1>4, <1>7, <2>3, <2>4, <2>5 DEF Notify
    <2>7. Account(t)'
      <3>1. notices'[r.id] = n
        BY <1>5, <2>4, <2>6
      <3> QED
        BY <1>3, <1>4, <1>5, <2>1, <2>3, <2>5, <3>1 DEF Account, RunLabels
    <2>8. served' = served /\ \A d \in Clients : d # t => call'[d] = call[d]
      BY ServeFrame
    <2> QED
      BY <1>1, <1>2, <1>4, <2>2, <2>6, <2>7, <2>8, OthersAccounted
  <1>8. CASE ~Notify(t)
    <2>1. /\ served' = served /\ notices' = notices
          /\ \A d \in Clients : d # t => call'[d] = call[d]
      BY <1>8, ServeFrame
    <2>2. ASSUME Running(t) PROVE Account(t)'
      <3>1. Account(t) /\ notices'[r.id] = 0
        BY <1>4, <1>5, <1>6, <2>1, <2>2 DEF AccountOK, Account
      <3>2. CASE Elsewhere(t)
        BY <1>4, <3>1, <3>2 DEF Elsewhere, Account, RunLabels
      <3>3. CASE Ended(t)
        BY <1>4, <3>1, <3>3 DEF Ended, Account, RunLabels
      <3>4. CASE r.at = "sync" /\ r.outcome \in {"passed", "failed"}
        BY <1>4, <3>1, <3>4 DEF Account, RunLabels
      <3>5. CASE Plain(t) /\ r.at = "synced" /\ Sync(t)
        <4>1. q.outcome \in {"passed", "failed"}
          BY <1>4, <3>1, <3>5 DEF Account, RunLabels, Sync, Ask, At
        <4> QED
          BY <1>4, <3>1, <3>5, <4>1 DEF Account, RunLabels, Plain
      <3>6. CASE Plain(t) /\ r.at = "keep" /\ Synced(t)
        <4>1. q.outcome \in {"passed", "failed"}
          BY <1>4, <3>1, <3>6 DEF Account, RunLabels, Synced, Resume, At
        <4> QED
          BY <1>4, <3>1, <3>6, <4>1 DEF Account, RunLabels, Plain
      <3>7. CASE Plain(t) /\ r.at = "kept" /\ Keep(t)
        <4>1. q.outcome \in {"passed", "failed"}
          BY <1>4, <3>1, <3>7 DEF Account, RunLabels, Keep, Ask, At
        <4>2. call'[t].op = RecordEntry(q.id) /\ call'[t].store = q.store /\ q.id \in recorded'
          BY <1>4, <3>7, ServeFrame DEF Store
        <4>3. call'[t].op.kind = "record" /\ call'[t].op.id = q.id
          BY <4>2, RecordEntryFacts
        <4> QED
          BY <1>4, <1>5, <3>1, <3>7, <4>1, <4>2, <4>3 DEF Account, RunLabels, Plain
      <3>8. CASE Plain(t) /\ r.at = "notify" /\ Kept(t) /\ ~Raised(t)
        <4>1. q.at = "kept" /\ call[t].at = "idle" /\ call[t].answer # "raised"
          BY <1>4, <3>8 DEF Kept, Resume, At, Returned, Raised
        <4>2. /\ q.outcome \in {"passed", "failed"} /\ q.id \in recorded /\ call[t].op.kind = "record"
              /\ call[t].op.id = q.id /\ call[t].store = q.store
          BY <1>4, <3>1, <4>1 DEF Account, RunLabels
        <4>3. q.store \in Strict => q.id \in headers \cup old
          BY <4>1, <4>2 DEF RecordsEnd, Recorded, Id
        <4> QED
          BY <1>3, <1>4, <1>5, <3>1, <3>8, <4>2, <4>3 DEF Account, RunLabels, Plain
      <3>9. q.job.kind # "profile"
        BY <1>4, <2>2 DEF Running, RunKinds
      <3> QED
        BY <1>1, <1>4, <1>8, <3>2, <3>3, <3>4, <3>5, <3>6, <3>7, <3>8, <3>9 DEF Progress
    <2> QED
      BY <1>1, <1>2, <2>1, <2>2, OthersAccounted
  <1> QED
    BY <1>7, <1>8

(* A request that arrives gets an identifier nobody else has, which nothing *)
(* has been sent for.                                                       *)
LEMMA ArriveAccounted ==
    ASSUME CallsOK, [Next]_vars, ServiceOK, AccountOK, NEW t \in Clients, NEW job \in Jobs[t], Arrive(t, job)
    PROVE  AccountOK'
  <1>1. \A d \in Clients : d # t => request'[d] = request[d]
    BY ArriveOK, ServedKeeps
  <1>2. /\ served \in Nat /\ MaxRequests \in Nat /\ served' = served + 1 /\ served < MaxRequests
        /\ notices' = notices /\ call' = call /\ headers' = headers /\ old' = old /\ recorded' = recorded
    <2>1. served \in Nat /\ MaxRequests \in Nat
      BY NumberedAssumption DEF ServiceOK, GlobalsOK
    <2> QED
      BY <2>1 DEF Arrive, vars, history
  <1>3. PICK n : n = served + 1
    OBVIOUS
  <1>4. n \in 1 .. MaxRequests /\ n \in 1 .. served' /\ n > served
    BY <1>2, <1>3
  <1>5. PICK r : r = request'[t]
    OBVIOUS
  <1>6. r.job = job /\ r.at \in {"make", "take"} /\ r.id = EntryId(job, n)
    BY <1>3, <1>5, ArriveOK
  <1>7. Running(t)' => r.id = RunIds[n]
    BY <1>5, <1>6 DEF Running, RunKinds, EntryId
  <1>8. \A d \in Clients : d # t /\ Running(d)' => Running(d)
    BY <1>1 DEF Running
  <1>9. ASSUME NEW d \in Clients, d # t, Running(d)'
        PROVE  \E m \in 1 .. served : request'[d].id = RunIds[m]
    BY <1>1, <1>8, <1>9 DEF AccountOK, Numbered
  <1>10. Numbered'
    <2>1. SUFFICES ASSUME NEW d \in Clients, Running(d)' PROVE \E m \in 1 .. served' : request'[d].id = RunIds[m]
      BY DEF Numbered
    <2>2. CASE d = t
      BY <1>4, <1>5, <1>7, <2>1, <2>2
    <2>3. CASE d # t
      BY <1>2, <1>9, <2>1, <2>3
    <2> QED
      BY <2>2, <2>3
  <1>11. ASSUME NEW d \in Clients, d # t, Running(d)', Running(t)' PROVE request'[d].id # request'[t].id
    <2>1. PICK m \in 1 .. served : request'[d].id = RunIds[m]
      BY <1>9, <1>11
    <2>2. m \in 1 .. MaxRequests /\ m # n
      BY <1>2, <1>3, <2>1
    <2> QED
      BY <1>4, <1>5, <1>7, <1>11, <2>1, <2>2, NumberedAssumption
  <1>12. Apart'
    BY <1>1, <1>8, <1>11 DEF AccountOK, Apart
  <1>13. Unsent'
    BY <1>2 DEF AccountOK, Unsent
  <1>14. Running(t)' => Account(t)'
    <2>1. SUFFICES ASSUME Running(t)' PROVE Account(t)'
      OBVIOUS
    <2>2. notices'[r.id] = 0
      BY <1>2, <1>4, <1>7, <2>1 DEF AccountOK, Unsent
    <2> QED
      BY <1>5, <1>6, <2>2 DEF Account, RunLabels
  <1>15. ASSUME NEW d \in Clients, d # t, Running(d)' PROVE Account(d)'
    <2>1. Running(d) /\ Account(d) /\ request'[d] = request[d] /\ call'[d] = call[d]
      BY <1>1, <1>2, <1>8, <1>15 DEF AccountOK
    <2> QED
      BY <1>2, <2>1, AccountLasts
  <1> QED
    BY <1>10, <1>12, <1>13, <1>14, <1>15 DEF AccountOK

(* A step that leaves the requests and the notices alone.                   *)
LEMMA ElsewhereAccounted ==
    ASSUME CallsOK, [Next]_vars, AccountOK, request' = request, notices' = notices, served' = served,
           \A d \in Clients : call'[d].op = call[d].op /\ call'[d].store = call[d].store
    PROVE  AccountOK'
  <1>1. headers \cup old \subseteq headers' \cup old' /\ recorded \subseteq recorded'
    BY Lasting
  <1>2. Numbered' /\ Apart' /\ Unsent'
    BY DEF AccountOK, Numbered, Apart, Unsent, Running
  <1>3. ASSUME NEW d \in Clients, Running(d)' PROVE Account(d)'
    <2>1. Account(d) /\ request'[d] = request[d]
      BY <1>3 DEF AccountOK, Running
    <2> QED
      BY <1>1, <2>1, AccountLasts
  <1> QED
    BY <1>2, <1>3 DEF AccountOK

LEMMA AccountStep ==
    ASSUME CallsOK, RecordsEnd, ServiceOK, AccountOK, [FacadeNext]_facadeVars
    PROVE  AccountOK'
  <1>1. [Next]_vars
    BY MetastoreStep
  <1>2. ASSUME NEW t \in Clients, StoreStep(t) PROVE AccountOK'
    <2>1. request' = request /\ notices' = notices /\ served' = served
      BY <1>2 DEF StoreStep, service
    <2>2. \A d \in Clients : call'[d].op = call[d].op /\ call'[d].store = call[d].store
      BY <1>2, StepFrame DEF StoreStep, CallsOK, Frame
    <2> QED
      BY <1>1, <2>1, <2>2, ElsewhereAccounted
  <1>3. ASSUME NEW t \in Clients, Serve(t) PROVE AccountOK'
    BY <1>1, <1>2, <1>3, ServeAccounted
  <1>4. ASSUME NEW t \in Clients, NEW job \in Jobs[t], Arrive(t, job) PROVE AccountOK'
    BY <1>1, <1>4, ArriveAccounted
  <1>5. ASSUME NEW p \in Processes, Shutdown(p) PROVE AccountOK'
    BY <1>1, <1>5, ElsewhereAccounted DEF Shutdown, Close
  <1>6. ASSUME NEW i \in Ids, Age(i), UNCHANGED service PROVE AccountOK'
    BY <1>1, <1>6, ElsewhereAccounted DEF Age, service
  <1>7. CASE UNCHANGED facadeVars
    BY <1>1, <1>7, ElsewhereAccounted DEF facadeVars, service, vars
  <1> QED
    BY <1>2, <1>3, <1>4, <1>5, <1>6, <1>7 DEF FacadeNext, Rest

LEMMA AccountStarts == FacadeInit => AccountOK
  <1>1. SUFFICES ASSUME FacadeInit PROVE AccountOK
    OBVIOUS
  <1>2. NoRequest.job.kind = "none"
    BY DEF NoRequest, Job
  <1>3. \A t \in Clients : ~Running(t)
    BY <1>1, <1>2 DEF FacadeInit, Running, RunKinds
  <1>4. Unsent
    BY <1>1, NumberedAssumption DEF FacadeInit, Unsent
  <1> QED
    BY <1>3, <1>4 DEF AccountOK, Numbered, Apart

(* A run that is answered with its outcome was recorded, is in the history  *)
(* of a strict store until it is purged, and was announced exactly when the *)
(* policy asks for it; one whose call raised was not announced.             *)
THEOREM RunsAccounted == FacadeSpec => []RunAccounted
  <1>1. FacadeSpec => []CallsOK
    BY ServiceUsesMetastore, Typing DEF UsesMetastore
  <1>2. FacadeInit => RecordsEnd
    BY RecordsStart DEF FacadeInit
  <1>3. CallsOK /\ ServiceOK /\ RecordsEnd /\ [FacadeNext]_facadeVars => RecordsEnd'
    BY MetastoreStep, RecordsKept
  <1>4. CallsOK /\ RecordsEnd /\ ServiceOK /\ AccountOK /\ [FacadeNext]_facadeVars => AccountOK'
    BY AccountStep
  <1> QED
    BY <1>1, <1>2, <1>3, <1>4, AccountStarts, AccountGives, ServiceTyping, PTL DEF FacadeSpec
=============================================================================
