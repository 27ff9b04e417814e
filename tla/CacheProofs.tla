---------------------------- MODULE CacheProofs ----------------------------
(***************************************************************************)
(* Proofs about the connectors of Facade, for all clients, processes, jobs *)
(* and configurations: what the cache holds may be used, and a process     *)
(* that has stopped leaves no engine open.                                 *)
(***************************************************************************)
EXTENDS FacadeProofs

(* A connector is held outside the cache by whoever has made it or taken it *)
(* out; a request that has got it from connect() works with it.             *)
Fresh   == {"open", "cache"}
Keeping == {"cache", "report", "reported", "forget"}
Owning == Fresh \cup Keeping
Handed  == {"boot", "register", "registered", "list", "walk", "upserted", "execute"}
Early   == {"idle", "make", "take"}

---------------------------------------------------------------------------
(* Objects and processes: a request is served by an object of its process,  *)
(* which has not stopped, and connectors belong to objects that were made.  *)
ObjectsOK  == \A p \in Processes : app[p] \in Stores => app[p] \in made /\ ProcessOf[app[p]] = p
Alive(t)   == ~At(t, "idle") => Home[t] \notin stopped
AtHome(t)  == request[t].at \notin Early => Store(t) \in made /\ ProcessOf[Store(t)] = Home[t]
OwnedBy(k) == connectors[k].store \in made

PlaceOK ==
    /\ ObjectsOK
    /\ \A t \in Clients : Alive(t) /\ AtHome(t)
    /\ \A k \in DOMAIN connectors : OwnedBy(k)

(* The cache: no connector is in two places of it, nor is one in it that    *)
(* somebody is about to close.                                              *)
Single == \A s, z \in Stores : \A n, m \in Connections : cached[s][n] # 0 /\ cached[s][n] = cached[z][m] => s = z /\ n = m
Opened == \A s \in Stores, n \in Connections : cached[s][n] # 0 => connectors[cached[s][n]].open
Uncached(t) == Connector(t) = 0 \/ \A s \in Stores, n \in Connections : cached[s][n] # Connector(t)

Owns(t) ==
    /\ request[t].at \in Owning => Uncached(t)
    /\ request[t].at \in Fresh => Connector(t) # 0
    /\ At(t, "cache") => connectors[Connector(t)].open
Unshared(t, d) == request[t].at \in Fresh /\ request[d].at \in Owning => Connector(t) # Connector(d)

PoolOK ==
    /\ Single /\ Opened
    /\ \A t \in Clients : Owns(t)
    /\ \A t, d \in Clients : t # d => Unshared(t, d)

(* Requests served one at a time: an object per process, the newest         *)
(* configuration, and every open engine in the cache or in a request's hand. *)
Newest(s, n) ==
    cached[s][n] # 0 =>
      /\ connectors[cached[s][n]].store = s
      /\ connectors[cached[s][n]].version = version[s][n]
           \/ \E t \in Clients : At(t, "pop") /\ Store(t) = s /\ Name(t) = n

Stored(k)    == \E n \in Connections : cached[connectors[k].store][n] = k
InHand(t, k) == request[t].at \in Keeping /\ Connector(t) = k /\ Store(t) = connectors[k].store
Located(k)   ==
    connectors[k].open =>
      /\ Stored(k) \/ \E t \in Clients : InHand(t, k)
      /\ ProcessOf[connectors[k].store] \notin stopped

Held(t) ==
    /\ At(t, "make") => app[Home[t]] = Nobody
    /\ request[t].at \in Fresh =>
         /\ connectors[Connector(t)].store = Store(t)
         /\ connectors[Connector(t)].version = version[Store(t)][Name(t)]
         /\ cached[Store(t)][Name(t)] = 0
    /\ request[t].at \in Handed => Connector(t) # 0 /\ Connector(t) = cached[Store(t)][Name(t)]

Only(t)   == \A d \in Clients : d # t => At(d, "idle")
OneServed == \A t \in Clients : ~At(t, "idle") => Only(t)
OneObject == \A s \in made : app[ProcessOf[s]] = s

Alone ==
    /\ OneServed /\ OneObject
    /\ \A s \in Stores, n \in Connections : Newest(s, n)
    /\ \A t \in Clients : Held(t)
    /\ \A k \in DOMAIN connectors : Located(k)

AloneOK == ~overlapped => Alone

---------------------------------------------------------------------------
(* Steps *)

Steady == UNCHANGED <<app, made, version, cached, connectors, overlapped, stopped>>

Later == {"sync", "synced", "keep", "kept", "catalogue", "done", "notify"}

(* Most steps move or answer their request, and keep what it holds.         *)
Carried(t) ==
    /\ Steady
    /\ request[t].at \notin {"idle", "make", "take", "cache", "reported", "pop", "forget"}
    /\ \/ request[t].at # "report" /\ request'[t].at = "idle"
       \/ /\ Stays(t)
          /\ \/ request[t].at = "report" /\ request'[t].at = "reported"
             \/ request[t].at # "report" /\ request'[t].at \in Later
             \/ request[t].at \in Handed /\ request'[t].at \in Handed

(* An engine is opened by connect(), or again by a query.                   *)
Opens(t) ==
    /\ At(t, "open") /\ Go(t, "cache")
    /\ connectors' = [connectors EXCEPT ![Connector(t)].open = TRUE]
    /\ UNCHANGED <<app, made, version, cached, overlapped, stopped>>

Reopens(t) ==
    /\ At(t, "execute")
    /\ request'[t].at \in {"idle", "sync", "keep", "catalogue"}
    /\ request'[t].at # "idle" => Stays(t)
    /\ connectors' = [connectors EXCEPT ![Connector(t)].open = TRUE]
    /\ UNCHANGED <<app, made, version, cached, overlapped, stopped>>

Holds(t) ==
    \/ Make(t) \/ Take(t) \/ Lookup(t) \/ Cache(t) \/ Test(t) \/ CloseProbe(t)
    \/ Configure(t) \/ Pop(t) \/ Forget(t)

LEMMA StepsSteady ==
    ASSUME NEW t, Serve(t), ~StoreStep(t), ~Holds(t), ~Open(t), ~Execute(t)
    PROVE  Steady
  BY DEF Serve, StoreStep, Holds, Steady, Boot, Register, Registered, ListTables, WalkTables, Upserted, Sync, Synced,
         Keep, Kept, Catalogue, Direct, Done, Ask, Resume, Notify, Report, shared

LEMMA Ends ==
    ASSUME ServiceOK, NEW t \in Clients, Fail(t) \/ \E a : Answer(t, a)
    PROVE  request'[t].at = "idle"
  BY Answered DEF Fail

LEMMA Carries ==
    ASSUME ServiceOK, NEW t \in Clients, Serve(t), ~StoreStep(t), ~Holds(t)
    PROVE  Carried(t) \/ Opens(t) \/ Reopens(t)
  <1>1. /\ {"registered", "list", "synced", "kept", "done", "reported", "keep", "notify", "catalogue", "cache"} \subseteq Labels
        /\ Good(request[t], Len(connectors))
    BY Facts DEF Labels, Catalog
  <1>2. CASE Open(t)
    <2>1. CASE Go(t, "cache") /\ connectors' = [connectors EXCEPT ![Connector(t)].open = TRUE]
      BY <1>2, <2>1 DEF Open, Opens
    <2>2. CASE Fail(t) /\ UNCHANGED connectors
      BY <1>2, <2>2, Ends DEF Open, Carried, Steady, At
    <2> QED
      BY <1>2, <2>1, <2>2 DEF Open
  <1>3. CASE Execute(t)
    <2>1. ASSUME connectors' = connectors, Fail(t) \/ \E a : Answer(t, a)
          PROVE  Carried(t)
      BY <1>3, <2>1, Ends DEF Execute, Carried, Steady, At
    <2>2. ASSUME connectors' = [connectors EXCEPT ![Connector(t)].open = TRUE],
                 \/ \E o : request' = [request EXCEPT ![t].outcome = o, ![t].at = "sync"]
                 \/ Go(t, "keep") \/ Go(t, "catalogue") \/ Answer(t, "ok")
          PROVE  Reopens(t)
      <3>1. request'[t].at \in {"idle", "sync", "keep", "catalogue"} /\ (request'[t].at # "idle" => Stays(t))
        BY <1>1, <2>2, CameOut, WentTo, Answered, ZenonT(30)
      <3> QED
        BY <1>3, <2>2, <3>1 DEF Execute, Reopens
    <2> QED
      BY <1>3, <2>1, <2>2 DEF Execute
  <1>4. CASE ~Open(t) /\ ~Execute(t)
    <2>1. Steady
      BY <1>4, StepsSteady
    <2>2. CASE Boot(t)
      <3>1. request[t].at = "boot" /\ request[t].job \in AllJobs
            /\ request[t].job.kind \notin {"none", "store", "test", "register_connection"}
        BY <1>1, <2>2 DEF Boot, At, Good, Passes, RequestType, Catalog
      <3>2. Work(request[t].job) \in {"register", "execute"} /\ {"register", "execute"} \subseteq Labels
        BY <3>1, WorkPasses DEF Labels, Catalog
      <3>3. Stays(t) /\ request'[t].at \in {"register", "execute"}
        <4>1. CASE Go(t, Work(request[t].job))
          BY <3>2, <4>1, WentTo
        <4>2. CASE request' = [request EXCEPT ![t].connecting = TRUE, ![t].at = "register"]
          BY <4>2, Cataloguing
        <4> QED
          BY <2>2, <4>1, <4>2 DEF Boot
      <3> QED
        BY <2>1, <3>1, <3>3 DEF Carried, Handed
    <2>3. CASE Register(t)
      <3>1. Stays(t) /\ request'[t].at = "registered"
        BY <1>1, <2>3, WentTo DEF Register
      <3> QED
        BY <2>1, <2>3, <3>1 DEF Register, At, Carried, Handed
    <2>4. CASE Registered(t) \/ ListTables(t) \/ WalkTables(t) \/ Upserted(t)
      <3>1. Walks(t) \/ Ended(t)
        BY <2>4, WalkProgress
      <3>2. request[t].at \in {"registered", "list", "walk", "upserted"}
        BY <2>4 DEF Registered, ListTables, WalkTables, Upserted, At
      <3> QED
        BY <2>1, <3>1, <3>2 DEF Carried, Handed, Walks, Ended
    <2>5. CASE Sync(t) \/ Keep(t) \/ Catalogue(t) \/ Direct(t) \/ Report(t)
      <3>1. PICK l \in {"sync", "keep", "catalogue", "store", "report"} : At(t, l)
        BY <2>5 DEF Sync, Keep, Catalogue, Direct, Report, Ask
      <3>2. \/ l = "report" /\ Go(t, "reported")
            \/ l # "report" /\ (Go(t, "synced") \/ Go(t, "kept") \/ Go(t, "done"))
        BY <2>5, <3>1 DEF Sync, Keep, Catalogue, Direct, Report, Ask, At
      <3> QED
        BY <1>1, <2>1, <3>1, <3>2, WentTo DEF Carried, Later, At
    <2>6. CASE Synced(t) \/ Kept(t) \/ Done(t) \/ Notify(t)
      <3>1. request[t].at \in {"synced", "kept", "done", "notify"}
        BY <2>6 DEF Synced, Kept, Done, Notify, Resume, At
      <3>2. Fail(t) \/ (\E a : Answer(t, a)) \/ Go(t, "keep") \/ Go(t, "notify")
        BY <2>6 DEF Synced, Kept, Done, Notify, Resume
      <3>3. request'[t].at = "idle" \/ (Stays(t) /\ request'[t].at \in Later)
        BY <1>1, <3>2, Ends, WentTo DEF Later
      <3> QED
        BY <2>1, <3>1, <3>3 DEF Carried
    <2> QED
      BY <1>4, <2>2, <2>3, <2>4, <2>5, <2>6 DEF Serve, Holds
  <1> QED
    BY <1>2, <1>3, <1>4

(* What the other steps do with a request and its connector.                *)
To(t, label, k) ==
    /\ Same(t) /\ request'[t].at = label
    /\ request'[t].store = request[t].store /\ request'[t].connector = k

Looked(t) ==
    LET k == cached[Store(t)][Name(t)] IN
      IF k # 0 THEN To(t, "boot", k) ELSE To(t, "open", Len(connectors) + 1)

LEMMA HoldMoves ==
    ASSUME ServiceOK, NEW t \in Clients
    PROVE  /\ Make(t) => To(t, "take", Connector(t)) /\ At(t, "make")
           /\ Take(t) => /\ Same(t) /\ request'[t].store = app[Home[t]] /\ At(t, "take")
                         /\ request'[t].at \in {"lookup", "probe", "configure", "store"}
           /\ Lookup(t) => At(t, "lookup") /\ Looked(t)
           /\ Opens(t) => To(t, "cache", Connector(t)) /\ At(t, "open")
           /\ Cache(t) => To(t, "boot", Connector(t)) /\ At(t, "cache")
           /\ Test(t) => To(t, "report", Len(connectors) + 1) /\ At(t, "probe")
           /\ Configure(t) => To(t, "pop", Connector(t)) /\ At(t, "configure")
           /\ Pop(t) => To(t, "forget", cached[Store(t)][Name(t)]) /\ At(t, "pop")
           /\ CloseProbe(t) => request'[t].at = "idle" /\ At(t, "reported")
           /\ Forget(t) => request'[t].at = "idle" /\ At(t, "forget")
  <1>1. {"take", "boot", "cache", "pop"} \subseteq Labels
    BY DEF Labels, Catalog
  <1>2. ASSUME NEW l \in {"take", "boot", "cache", "pop"}, Go(t, l) PROVE To(t, l, Connector(t))
    BY <1>1, <1>2, WentTo DEF To, Stays, Connector
  <1>3. ASSUME NEW l, NEW k, request' = [request EXCEPT ![t].connector = k, ![t].at = l] PROVE To(t, l, k)
    <2>1. Same(t) /\ request'[t].at = l /\ request'[t].store = request[t].store /\ request'[t].connector = k
      BY <1>3, Facts DEF RequestType, Same
    <2> QED
      BY <2>1 DEF To
  <1>4. Take(t) => /\ Same(t) /\ request'[t].store = app[Home[t]] /\ At(t, "take")
                   /\ request'[t].at \in {"lookup", "probe", "configure", "store"}
    <2> SUFFICES ASSUME Take(t)
                 PROVE  /\ Same(t) /\ request'[t].store = app[Home[t]] /\ At(t, "take")
                        /\ request'[t].at \in {"lookup", "probe", "configure", "store"}
      OBVIOUS
    <2>1. PICK s, l : s = app[Home[t]] /\ l = First(request[t].job)
      OBVIOUS
    <2>2. request' = [request EXCEPT ![t].store = s, ![t].at = l]
      BY <2>1 DEF Take, At
    <2>3. l \in {"lookup", "probe", "configure", "store"}
      BY <2>1 DEF First
    <2>4. Same(t) /\ request'[t].at = l /\ request'[t].store = s
      BY <2>2, Facts DEF RequestType, Same
    <2> QED
      BY <2>1, <2>3, <2>4 DEF Take
  <1>5. CloseProbe(t) \/ Forget(t) => request'[t].at = "idle"
    BY Ends DEF CloseProbe, Forget
  <1>6. Lookup(t) => Looked(t)
    BY <1>3 DEF Lookup, Looked
  <1>7. Test(t) => To(t, "report", Len(connectors) + 1)
    BY <1>3 DEF Test
  <1>8. Pop(t) => To(t, "forget", cached[Store(t)][Name(t)])
    BY <1>3 DEF Pop
  <1>9. /\ Make(t) => To(t, "take", Connector(t))
        /\ Opens(t) => To(t, "cache", Connector(t))
        /\ Cache(t) => To(t, "boot", Connector(t))
        /\ Configure(t) => To(t, "pop", Connector(t))
    BY <1>2 DEF Make, Opens, Cache, Configure
  <1>10. /\ Make(t) => At(t, "make")
         /\ Take(t) => At(t, "take")
         /\ Lookup(t) => At(t, "lookup")
         /\ Opens(t) => At(t, "open")
         /\ Cache(t) => At(t, "cache")
         /\ Test(t) => At(t, "probe")
         /\ Configure(t) => At(t, "configure")
         /\ Pop(t) => At(t, "pop")
         /\ CloseProbe(t) => At(t, "reported")
         /\ Forget(t) => At(t, "forget")
    BY DEF Make, Take, Lookup, Opens, Cache, Test, Configure, Pop, CloseProbe, Forget
  <1> QED
    BY <1>4, <1>5, <1>6, <1>7, <1>8, <1>9, <1>10

(* What they do to the connectors.                                          *)
SameEngines ==
    /\ DOMAIN connectors' = DOMAIN connectors
    /\ \A k \in DOMAIN connectors :
         connectors'[k].store = connectors[k].store /\ connectors'[k].version = connectors[k].version

Added(t) ==
    /\ DOMAIN connectors = 1 .. Len(connectors) /\ DOMAIN connectors' = 1 .. Len(connectors) + 1
    /\ \A k \in 1 .. Len(connectors) : connectors'[k] = connectors[k]
    /\ connectors'[Len(connectors) + 1].store = Store(t)
    /\ connectors'[Len(connectors) + 1].version = version[Store(t)][Name(t)]
    /\ Lookup(t) => ~connectors'[Len(connectors) + 1].open

LEMMA Engines ==
    ASSUME ServiceOK
    PROVE  Len(connectors) \in Nat /\ DOMAIN connectors = 1 .. Len(connectors)
           /\ \A k \in 1 .. Len(connectors) : connectors[k] \in Engine
  BY DEF ServiceOK, GlobalsOK

LEMMA Turned ==
    ASSUME ServiceOK, NEW k, NEW up, connectors' = [connectors EXCEPT ![k].open = up]
    PROVE  /\ SameEngines
           /\ k \in DOMAIN connectors => connectors'[k].open = up
           /\ \A j \in DOMAIN connectors : j # k => connectors'[j] = connectors[j]
  BY Engines DEF SameEngines, Engine

LEMMA Closed ==
    ASSUME ServiceOK, NEW ks, connectors' = Closing(ks)
    PROVE  /\ SameEngines
           /\ \A j \in DOMAIN connectors : connectors'[j].open = (connectors[j].open /\ j \notin ks)
  BY Engines DEF SameEngines, Closing, Engine

LEMMA Adds ==
    ASSUME ServiceOK, NEW t \in Clients, (Lookup(t) /\ cached[Store(t)][Name(t)] = 0) \/ Test(t)
    PROVE  Added(t)
  <1>1. Store(t) \in Stores /\ Name(t) \in Connections
    <2>1. request[t].at \in {"lookup", "probe"} /\ Good(request[t], Len(connectors))
      BY Facts DEF Lookup, Test, At
    <2>2. request[t].job.kind # "store"
      BY <2>1 DEF Good, Passes, Catalog
    <2> QED
      BY <2>1, <2>2, Facts DEF At
  <1>2. NewConnector(t) = [store |-> Store(t), version |-> version[Store(t)][Name(t)], open |-> FALSE]
    BY DEF NewConnector
  <1>3. PICK e : /\ connectors' = Append(connectors, e) /\ e \in Engine
                 /\ e.store = Store(t) /\ e.version = version[Store(t)][Name(t)]
                 /\ Lookup(t) => ~e.open
    <2>1. ASSUME Lookup(t), cached[Store(t)][Name(t)] = 0
          PROVE  connectors' = Append(connectors, NewConnector(t))
      BY <2>1 DEF Lookup
    <2>2. ASSUME Test(t)
          PROVE  \E up \in BOOLEAN : connectors' = Append(connectors, [NewConnector(t) EXCEPT !.open = up])
      BY <2>2 DEF Test
    <2>3. Test(t) => ~Lookup(t)
      BY DEF Test, Lookup, At
    <2>4. NewConnector(t) \in Engine
      BY <1>1, NewConnectorFits
    <2>5. \A up \in BOOLEAN : LET e == [NewConnector(t) EXCEPT !.open = up] IN
            e \in Engine /\ e.store = Store(t) /\ e.version = version[Store(t)][Name(t)]
      BY <1>1, <1>2, NewConnectorFits
    <2>6. CASE Test(t)
      BY <2>2, <2>3, <2>5, <2>6
    <2>7. CASE Lookup(t) /\ cached[Store(t)][Name(t)] = 0
      <3>1. PICK e : e = NewConnector(t)
        OBVIOUS
      <3>2. e.store = Store(t) /\ e.version = version[Store(t)][Name(t)] /\ ~e.open
        BY <1>2, <3>1
      <3> QED
        BY <2>1, <2>4, <2>7, <3>1, <3>2
    <2> QED
      BY <2>6, <2>7
  <1>4. UNCHANGED <<app, made, version, cached, bootstrapped, notices, served, overlapped, stopped>>
    BY DEF Lookup, Test
  <1>5. /\ Len(connectors') = Len(connectors) + 1 /\ \A k \in 1 .. Len(connectors) : connectors'[k] = connectors[k]
        /\ connectors'[Len(connectors) + 1] = e
    BY <1>3, <1>4, NewEngine
  <1>6. connectors \in Seq(Engine) /\ connectors' \in Seq(Engine)
    BY <1>3, AppendProperties DEF ServiceOK, GlobalsOK
  <1> QED
    BY <1>3, <1>5, <1>6, Engines DEF Added

LEMMA Keeps ==
    ASSUME ServiceOK, NEW t \in Clients, Serve(t), ~StoreStep(t)
    PROVE  /\ stopped' = stopped /\ overlapped' = overlapped /\ ~At(t, "idle")
           /\ \A d \in Clients : d # t => request'[d] = request[d]
           /\ ~Make(t) => app' = app /\ made' = made
           /\ ~Make(t) /\ ~Take(t) =>
                /\ request[t].at \notin Early
                /\ request'[t].at = "idle" \/ (request'[t].store = request[t].store /\ request'[t].at \notin Early)
  <1>1. \A d \in Clients : d # t => request'[d] = request[d]
    BY ServeOK, ServedKeeps
  <1>2. CASE Carried(t)
    BY <1>1, <1>2 DEF Carried, Steady, Stays, Early, Later, Handed, At
  <1>3. CASE Opens(t)
    BY <1>1, <1>3, HoldMoves DEF Opens, To, Early, At
  <1>4. CASE Reopens(t)
    BY <1>1, <1>4 DEF Reopens, Stays, Early, At
  <1>5. CASE Make(t) \/ Take(t)
    BY <1>1, <1>5 DEF Make, Take, At, shared
  <1>6. CASE Holds(t) /\ ~Make(t) /\ ~Take(t)
    <2>1. stopped' = stopped /\ overlapped' = overlapped /\ app' = app /\ made' = made
      BY <1>6 DEF Holds, Lookup, Cache, Test, CloseProbe, Configure, Pop, Forget
    <2>2. request[t].at \in {"lookup", "cache", "probe", "reported", "configure", "pop", "forget"}
      BY <1>6 DEF Holds, Lookup, Cache, Test, CloseProbe, Configure, Pop, Forget, At
    <2>3. request'[t].at = "idle" \/ (request'[t].store = request[t].store
                                      /\ request'[t].at \in {"boot", "open", "report", "pop", "forget"})
      BY <1>6, HoldMoves DEF Holds, Looked, To
    <2> QED
      BY <1>1, <2>1, <2>2, <2>3 DEF Early, At
  <1> QED
    BY <1>2, <1>3, <1>4, <1>5, <1>6, Carries

(* A step adds a connector or leaves each with its object and configuration. *)
LEMMA ConnectorsKept ==
    ASSUME ServiceOK, NEW t \in Clients, Serve(t), ~StoreStep(t)
    PROVE  SameEngines \/ Added(t)
  <1>1. CASE connectors' = connectors
    BY <1>1 DEF SameEngines
  <1>2. CASE Carried(t) \/ Opens(t) \/ Reopens(t) \/ CloseProbe(t)
    BY <1>1, <1>2, Turned DEF Carried, Steady, Opens, Reopens, CloseProbe
  <1>3. CASE Forget(t)
    BY <1>3, Closed DEF Forget
  <1>4. CASE Lookup(t) \/ Test(t)
    BY <1>1, <1>4, Adds DEF Lookup
  <1>5. CASE Make(t) \/ Take(t) \/ Cache(t) \/ Configure(t) \/ Pop(t)
    BY <1>1, <1>5 DEF Make, Take, Cache, Configure, Pop, shared
  <1> QED
    BY <1>2, <1>3, <1>4, <1>5, Carries DEF Holds

LEMMA PlaceServes ==
    ASSUME ServiceOK, PlaceOK, NEW t \in Clients, Serve(t), ~StoreStep(t)
    PROVE  PlaceOK'
  <1>1. /\ stopped' = stopped /\ ~At(t, "idle") /\ app \in [Processes -> Stores \cup {Nobody}]
        /\ \A d \in Clients : d # t => request'[d] = request[d]
    BY Keeps DEF ServiceOK, GlobalsOK
  <1>2. ObjectsOK' /\ made \subseteq made'
    <2>1. CASE Make(t)
      BY <1>1, <2>1 DEF Make, PlaceOK, ObjectsOK
    <2>2. CASE ~Make(t)
      BY <2>2, Keeps DEF PlaceOK, ObjectsOK
    <2> QED
      BY <2>1, <2>2
  <1>3. \A d \in Clients : Alive(d)'
    BY <1>1 DEF PlaceOK, Alive, At
  <1>4. ASSUME NEW d \in Clients, d # t PROVE AtHome(d)'
    BY <1>1, <1>2, <1>4 DEF PlaceOK, AtHome, Store
  <1>5. AtHome(t)'
    <2>1. CASE Make(t)
      BY <2>1, HoldMoves DEF To, AtHome, Early
    <2>2. CASE Take(t)
      <3>1. app[Home[t]] \in Stores /\ Home[t] \in Processes
        BY <2>2, Facts DEF ServiceOK, RequestOK, Take
      <3>2. request'[t].store = app[Home[t]]
        BY <2>2, HoldMoves
      <3> QED
        BY <1>2, <3>1, <3>2 DEF PlaceOK, ObjectsOK, AtHome, Store
    <2>3. CASE ~Make(t) /\ ~Take(t)
      <3>1. request[t].at \notin Early /\ (request'[t].at = "idle" \/ request'[t].store = request[t].store)
        BY <2>3, Keeps
      <3>2. AtHome(t)
        BY DEF PlaceOK
      <3> QED
        BY <1>2, <3>1, <3>2 DEF AtHome, Store, Early
    <2> QED
      BY <2>1, <2>2, <2>3
  <1>6. \A k \in DOMAIN connectors' : OwnedBy(k)'
    <2>1. CASE SameEngines
      BY <1>2, <2>1 DEF SameEngines, PlaceOK, OwnedBy
    <2>2. CASE Added(t) /\ ~SameEngines
      <3>1. Store(t) \in made
        <4>1. request[t].at \notin Early
          <5>1. ~Make(t) /\ ~Take(t)
            BY <2>2 DEF Make, Take, shared, SameEngines
          <5> QED
            BY <5>1, Keeps
        <4> QED
          BY <4>1 DEF PlaceOK, AtHome
      <3>2. Len(connectors) \in Nat
        BY Engines
      <3>3. \A k \in 1 .. Len(connectors) + 1 : k \in 1 .. Len(connectors) \/ k = Len(connectors) + 1
        BY <3>2
      <3> QED
        BY <1>2, <2>2, <3>1, <3>3 DEF Added, PlaceOK, OwnedBy
    <2> QED
      BY <2>1, <2>2, ConnectorsKept
  <1> QED
    BY <1>2, <1>3, <1>4, <1>5, <1>6 DEF PlaceOK

LEMMA PlaceStep ==
    ASSUME ServiceOK, PlaceOK, [FacadeNext]_facadeVars
    PROVE  PlaceOK'
  <1>1. ASSUME UNCHANGED service PROVE PlaceOK'
    BY <1>1 DEF service, shared, PlaceOK, ObjectsOK, Alive, AtHome, OwnedBy, At, Store
  <1>2. ASSUME NEW t \in Clients, Serve(t) PROVE PlaceOK'
    BY <1>1, <1>2, PlaceServes DEF StoreStep
  <1>3. ASSUME NEW t \in Clients, NEW job \in Jobs[t], Arrive(t, job) PROVE PlaceOK'
    <2>1. \A d \in Clients : d # t => request'[d] = request[d]
      BY <1>3, ArriveOK, ServedKeeps
    <2>2. request'[t].at \in Early /\ Home[t] \notin stopped
      BY <1>3, ArriveOK DEF Early, Arrive
    <2>3. UNCHANGED <<app, made, connectors, stopped>>
      BY <1>3 DEF Arrive, shared
    <2>4. ASSUME NEW d \in Clients, d # t PROVE Alive(d)' /\ AtHome(d)'
      BY <2>1, <2>3, <2>4 DEF PlaceOK, Alive, AtHome, At, Store
    <2>5. Alive(t)' /\ AtHome(t)'
      BY <2>2, <2>3 DEF Alive, AtHome
    <2> QED
      BY <2>3, <2>4, <2>5 DEF PlaceOK, ObjectsOK, OwnedBy
  <1>4. ASSUME NEW p \in Processes, Shutdown(p) PROVE PlaceOK'
    <2>1. UNCHANGED <<app, made, request>> /\ stopped' = stopped \cup {p}
          /\ \A t \in Clients : ~At(t, "idle") => Home[t] # p
      BY <1>4 DEF Shutdown, Serving
    <2>2. SameEngines
      BY <1>4, Closed DEF Shutdown
    <2>3. \A t \in Clients : Alive(t)' /\ AtHome(t)'
      BY <2>1 DEF PlaceOK, Alive, AtHome, At, Store
    <2> QED
      BY <2>1, <2>2, <2>3 DEF PlaceOK, ObjectsOK, OwnedBy, SameEngines
  <1> QED
    BY <1>1, <1>2, <1>3, <1>4 DEF FacadeNext, Rest, facadeVars

LEMMA PlaceStarts == FacadeInit => PlaceOK
  <1>1. SUFFICES ASSUME FacadeInit PROVE PlaceOK
    OBVIOUS
  <1>2. NoRequest.at = "idle"
    BY DEF NoRequest
  <1>3. \A t \in Clients : request[t].at = "idle"
    BY <1>1, <1>2 DEF FacadeInit
  <1>4. \A p \in Processes : app[p] \notin Stores
    BY <1>1, NobodyAssumption DEF FacadeInit
  <1> QED
    BY <1>1, <1>3, <1>4 DEF FacadeInit, PlaceOK, ObjectsOK, Alive, AtHome, OwnedBy, At, Early

---------------------------------------------------------------------------
(* The cache *)

Ranges ==
    /\ cached \in [Stores -> [Connections -> 0 .. Len(connectors)]]
    /\ Len(connectors) \in Nat /\ DOMAIN connectors = 1 .. Len(connectors)
    /\ \A d \in Clients : Connector(d) \in 0 .. Len(connectors)

LEMMA InRange ==
    ASSUME ServiceOK
    PROVE  Ranges
  <1>1. \A d \in Clients : Connector(d) \in 0 .. Len(connectors)
    <2>1. SUFFICES ASSUME NEW d \in Clients PROVE Connector(d) \in 0 .. Len(connectors)
      OBVIOUS
    <2>2. Good(request[d], Len(connectors)) /\ Len(connectors) \in Nat
      BY Facts
    <2>3. request[d].connector \in Nat /\ request[d].connector <= Len(connectors)
      BY <2>2 DEF Good, RequestType
    <2> QED
      BY <2>2, <2>3 DEF Connector
  <1> QED
    BY <1>1, Engines DEF ServiceOK, GlobalsOK, Ranges

(* The part of a request whose step it is not.                              *)
LEMMA OthersOwn ==
    ASSUME PoolOK, NEW t \in Clients, NEW d \in Clients, d # t, request'[d] = request[d],
           \A s \in Stores, n \in Connections :
             cached'[s][n] \in {0, cached[s][n]} \/ (cached'[s][n] = Connector(t) /\ request[t].at \in Fresh),
           \A k : k = Connector(d) /\ request[d].at \in Fresh /\ connectors[k].open => connectors'[k].open
    PROVE  Owns(d)'
  <1>1. Owns(d) /\ Unshared(t, d)
    BY DEF PoolOK
  <1>2. Connector(d)' = Connector(d)
    BY DEF Connector
  <1>3. request[d].at \in Owning => Uncached(d)'
    BY <1>1, <1>2 DEF Owns, Uncached, Unshared
  <1>4. At(d, "cache") => connectors'[Connector(d)].open
    BY <1>1 DEF Owns, At, Fresh
  <1> QED
    BY <1>1, <1>2, <1>3, <1>4 DEF Owns, At

LEMMA PoolGathers ==
    ASSUME PoolOK, NEW t \in Clients, \A d \in Clients : d # t => request'[d] = request[d],
           Single', Opened', Owns(t)', \A d \in Clients : d # t => Owns(d)',
           \A d \in Clients : d # t => Unshared(t, d)' /\ Unshared(d, t)'
    PROVE  PoolOK'
  <1>1. ASSUME NEW d \in Clients, NEW e \in Clients, d # t, e # t, d # e PROVE Unshared(d, e)'
    BY <1>1 DEF PoolOK, Unshared, Connector
  <1> QED
    BY <1>1 DEF PoolOK

(* Steps that leave the cache alone and close nothing.                      *)
LEMMA CacheAlone ==
    ASSUME PoolOK, Ranges, cached' = cached,
           \A k \in DOMAIN connectors : connectors[k].open => connectors'[k].open
    PROVE  Single' /\ Opened'
  BY DEF PoolOK, Single, Opened, Ranges

LEMMA PoolCarries ==
    ASSUME ServiceOK, PoolOK, Ranges, NEW t \in Clients, \A d \in Clients : d # t => request'[d] = request[d],
           cached' = cached, \A k \in DOMAIN connectors : connectors[k].open => connectors'[k].open,
           request'[t].at \in Owning =>
             /\ request'[t].connector = Connector(t) /\ request[t].at \in Owning
             /\ request'[t].at \in Fresh => request[t].at \in Fresh
             /\ request'[t].at = "cache" => connectors'[Connector(t)].open
    PROVE  PoolOK'
  <1>1. Single' /\ Opened'
    BY CacheAlone
  <1>2. ASSUME NEW d \in Clients, d # t PROVE Owns(d)'
    <2>1. request[d].at \in Fresh => Connector(d) \in DOMAIN connectors
      BY DEF PoolOK, Owns, Ranges
    <2> QED
      BY <1>2, <2>1, OthersOwn
  <1>3. Owns(t) /\ \A d \in Clients : d # t => Unshared(t, d) /\ Unshared(d, t)
    BY DEF PoolOK
  <1>4. request'[t].at \in Owning => Connector(t)' = Connector(t)
    BY DEF Connector
  <1>5. Fresh \subseteq Owning
    BY DEF Owning
  <1>6. Owns(t)'
    BY <1>3, <1>4, <1>5 DEF Owns, Uncached, At, Fresh
  <1>7. \A d \in Clients : d # t => Unshared(t, d)' /\ Unshared(d, t)'
    BY <1>3, <1>4, <1>5 DEF Unshared, Connector
  <1> QED
    BY <1>1, <1>2, <1>6, <1>7, PoolGathers

LEMMA PoolAdds ==
    ASSUME ServiceOK, PoolOK, Ranges, NEW t \in Clients, \A d \in Clients : d # t => request'[d] = request[d],
           cached' = cached, Added(t), request'[t].connector = Len(connectors) + 1,
           request'[t].at \in {"open", "report"}
    PROVE  PoolOK'
  <1>1. Single' /\ Opened'
    BY CacheAlone DEF Added
  <1>2. ASSUME NEW d \in Clients, d # t PROVE Owns(d)'
    <2>1. request[d].at \in Fresh => Connector(d) \in DOMAIN connectors
      BY DEF PoolOK, Owns, Ranges
    <2> QED
      BY <1>2, <2>1, OthersOwn DEF Added
  <1>3. Connector(t)' = Len(connectors) + 1
    BY DEF Connector
  <1>4. Owns(t)'
    <2>1. \A s \in Stores, n \in Connections : cached[s][n] # Len(connectors) + 1
      BY DEF Ranges
    <2>2. Len(connectors) + 1 # 0
      BY DEF Ranges
    <2> QED
      BY <1>3, <2>1, <2>2 DEF Owns, Uncached, At
  <1>5. \A d \in Clients : d # t => Unshared(t, d)' /\ Unshared(d, t)'
    <2>1. \A d \in Clients : Connector(d) # Len(connectors) + 1
      BY DEF Ranges
    <2> QED
      BY <1>3, <2>1 DEF Unshared, Connector
  <1> QED
    BY <1>1, <1>2, <1>4, <1>5, PoolGathers

LEMMA PoolCaches ==
    ASSUME ServiceOK, PoolOK, Ranges, NEW t \in Clients, \A d \in Clients : d # t => request'[d] = request[d],
           At(t, "cache"), NEW z \in Stores, NEW m \in Connections,
           cached' = [cached EXCEPT ![z][m] = Connector(t)], connectors' = connectors, request'[t].at = "boot"
    PROVE  PoolOK'
  <1>1. /\ cached'[z][m] = Connector(t)
        /\ \A s \in Stores, n \in Connections : s # z \/ n # m => cached'[s][n] = cached[s][n]
    BY DEF Ranges
  <1>2. Uncached(t) /\ Connector(t) # 0 /\ connectors[Connector(t)].open /\ request[t].at \in Fresh
    BY DEF PoolOK, Owns, Owning, Fresh, At
  <1>3. Single' /\ Opened'
    BY <1>1, <1>2 DEF PoolOK, Single, Opened, Uncached
  <1>4. ASSUME NEW d \in Clients, d # t PROVE Owns(d)'
    BY <1>1, <1>2, <1>4, OthersOwn
  <1>5. request'[t].at \notin Owning /\ Fresh \subseteq Owning
    BY DEF Owning, Fresh, Keeping
  <1>6. Owns(t)' /\ \A d \in Clients : d # t => Unshared(t, d)' /\ Unshared(d, t)'
    BY <1>5 DEF Owns, Unshared, At
  <1> QED
    BY <1>3, <1>4, <1>6, PoolGathers

LEMMA PoolPops ==
    ASSUME ServiceOK, PoolOK, Ranges, NEW t \in Clients, \A d \in Clients : d # t => request'[d] = request[d],
           NEW z \in Stores, NEW m \in Connections,
           cached' = [cached EXCEPT ![z][m] = 0], connectors' = connectors,
           request'[t].at = "forget", request'[t].connector = cached[z][m]
    PROVE  PoolOK'
  <1>1. /\ cached'[z][m] = 0
        /\ \A s \in Stores, n \in Connections : s # z \/ n # m => cached'[s][n] = cached[s][n]
    BY DEF Ranges
  <1>2. Single' /\ Opened'
    BY <1>1 DEF PoolOK, Single, Opened
  <1>3. ASSUME NEW d \in Clients, d # t PROVE Owns(d)'
    BY <1>1, <1>3, OthersOwn
  <1>4. Connector(t)' = cached[z][m]
    BY DEF Connector
  <1>5. Owns(t)'
    BY <1>1, <1>4 DEF PoolOK, Single, Owns, Uncached, Fresh, At
  <1>6. \A d \in Clients : d # t => Unshared(t, d)' /\ Unshared(d, t)'
    <2>1. \A d \in Clients : request[d].at \in Fresh => Connector(d) # cached[z][m]
      BY DEF PoolOK, Owns, Uncached, Owning
    <2> QED
      BY <1>4, <2>1 DEF Unshared, Connector, Fresh
  <1> QED
    BY <1>2, <1>3, <1>5, <1>6, PoolGathers

LEMMA PoolCloses ==
    ASSUME ServiceOK, PoolOK, Ranges, NEW t \in Clients, \A d \in Clients : d # t => request'[d] = request[d],
           cached' = cached, request[t].at \in Owning, request'[t].at = "idle",
           \A k \in DOMAIN connectors : k # Connector(t) => connectors'[k].open = connectors[k].open
    PROVE  PoolOK'
  <1>1. Uncached(t)
    BY DEF PoolOK, Owns
  <1>2. Single' /\ Opened'
    BY <1>1 DEF PoolOK, Single, Opened, Uncached, Ranges
  <1>3. ASSUME NEW d \in Clients, d # t PROVE Owns(d)'
    <2>1. request[d].at \in Fresh => Connector(d) \in DOMAIN connectors /\ Connector(d) # Connector(t)
      BY <1>3 DEF PoolOK, Owns, Unshared, Ranges
    <2> QED
      BY <1>3, <2>1, OthersOwn
  <1>4. request'[t].at \notin Owning /\ Fresh \subseteq Owning
    BY DEF Owning, Fresh, Keeping
  <1>5. Owns(t)' /\ \A d \in Clients : d # t => Unshared(t, d)' /\ Unshared(d, t)'
    BY <1>4 DEF Owns, Unshared, At
  <1> QED
    BY <1>2, <1>3, <1>5, PoolGathers

(* Where a request works with a connection, it names one of its object's.   *)
LEMMA Names ==
    ASSUME ServiceOK, NEW t \in Clients,
           request[t].at \in Owning \cup Handed \cup {"lookup", "probe", "configure", "pop"}
    PROVE  Store(t) \in Stores /\ Name(t) \in Connections
  <1>1. Good(request[t], Len(connectors))
    BY Facts
  <1>2. request[t].at \in Catalog \cup {"execute", "probe", "report", "reported", "configure", "pop", "forget"}
    BY DEF Catalog, Owning, Fresh, Keeping, Handed
  <1>3. request[t].at \notin {"idle", "make", "take"}
    BY <1>2 DEF Catalog
  <1>4. request[t].job.kind # "store"
    <2>1. Passes(request[t].job.kind, request[t].at)
      BY <1>1 DEF Good
    <2>2. CASE request[t].at \in Catalog
      BY <2>1, <2>2 DEF Passes
    <2>3. CASE request[t].at \notin Catalog
      BY <1>2, <2>1, <2>3 DEF Passes, RunKinds
    <2> QED
      BY <2>2, <2>3
  <1> QED
    BY <1>3, <1>4, Facts DEF At

LEMMA PoolServes ==
    ASSUME ServiceOK, PoolOK, NEW t \in Clients, Serve(t), ~StoreStep(t)
    PROVE  PoolOK'
  <1>1. Ranges /\ \A d \in Clients : d # t => request'[d] = request[d]
    BY InRange, Keeps
  <1>2. CASE Carried(t)
    <2>1. cached' = cached /\ connectors' = connectors
      BY <1>2 DEF Carried, Steady
    <2>2. request'[t].at \in Owning =>
            request'[t].at = "reported" /\ request[t].at = "report" /\ request'[t].connector = Connector(t)
      BY <1>2 DEF Carried, Stays, Connector, Later, Handed, Owning, Fresh, Keeping
    <2> QED
      BY <1>1, <2>1, <2>2, PoolCarries DEF Owning, Fresh, Keeping
  <1>3. CASE Opens(t)
    <2>1. cached' = cached /\ connectors' = [connectors EXCEPT ![Connector(t)].open = TRUE]
      BY <1>3 DEF Opens
    <2>2. request[t].at = "open" /\ request'[t].at = "cache" /\ request'[t].connector = Connector(t)
      BY <1>3, HoldMoves DEF To, At
    <2>3. Connector(t) \in DOMAIN connectors
      BY <1>1, <2>2 DEF Ranges, PoolOK, Owns, Fresh
    <2>4. connectors'[Connector(t)].open /\ \A k \in DOMAIN connectors : connectors[k].open => connectors'[k].open
      BY <2>1, <2>3, Turned
    <2> QED
      BY <1>1, <2>1, <2>2, <2>4, PoolCarries DEF Owning, Fresh
  <1>4. CASE Reopens(t)
    <2>1. cached' = cached /\ connectors' = [connectors EXCEPT ![Connector(t)].open = TRUE]
          /\ request'[t].at \notin Owning
      BY <1>4 DEF Reopens, Owning, Fresh, Keeping
    <2>2. \A k \in DOMAIN connectors : connectors[k].open => connectors'[k].open
      BY <2>1, Turned
    <2> QED
      BY <1>1, <2>1, <2>2, PoolCarries
  <1>5. CASE Make(t) \/ Take(t) \/ Configure(t)
    <2>1. cached' = cached /\ connectors' = connectors
      BY <1>5 DEF Make, Take, Configure, shared
    <2>2. request'[t].at \in {"take", "lookup", "probe", "configure", "store", "pop"}
      BY <1>5, HoldMoves DEF To
    <2>3. request'[t].at \notin Owning
      BY <2>2 DEF Owning, Fresh, Keeping
    <2> QED
      BY <1>1, <2>1, <2>3, PoolCarries
  <1>6. CASE Lookup(t) /\ cached[Store(t)][Name(t)] # 0
    <2>1. cached' = cached /\ connectors' = connectors
      BY <1>6 DEF Lookup
    <2>2. request'[t].at = "boot"
      BY <1>6, HoldMoves DEF Looked, To
    <2>3. request'[t].at \notin Owning
      BY <2>2 DEF Owning, Fresh, Keeping
    <2> QED
      BY <1>1, <2>1, <2>3, PoolCarries
  <1>7. CASE (Lookup(t) /\ cached[Store(t)][Name(t)] = 0) \/ Test(t)
    <2>1. cached' = cached /\ Added(t)
      BY <1>7, Adds DEF Lookup, Test
    <2>2. request'[t].at \in {"open", "report"} /\ request'[t].connector = Len(connectors) + 1
      BY <1>7, HoldMoves DEF Looked, To
    <2> QED
      BY <1>1, <2>1, <2>2, PoolAdds
  <1>8. CASE Cache(t)
    <2>1. Store(t) \in Stores /\ Name(t) \in Connections /\ At(t, "cache") /\ request'[t].at = "boot"
      BY <1>8, Names, HoldMoves DEF To, Owning, Fresh, At
    <2> QED
      BY <1>1, <1>8, <2>1, PoolCaches DEF Cache
  <1>9. CASE Pop(t)
    <2>1. /\ Store(t) \in Stores /\ Name(t) \in Connections
          /\ request'[t].at = "forget" /\ request'[t].connector = cached[Store(t)][Name(t)]
      BY <1>9, Names, HoldMoves DEF To, At
    <2> QED
      BY <1>1, <1>9, <2>1, PoolPops DEF Pop
  <1>10. CASE CloseProbe(t) \/ Forget(t)
    <2>1. request[t].at \in Owning /\ request'[t].at = "idle"
      BY <1>10, HoldMoves DEF Owning, Keeping, At
    <2>2. cached' = cached /\ \A k \in DOMAIN connectors : k # Connector(t) => connectors'[k].open = connectors[k].open
      <3>1. CASE CloseProbe(t)
        BY <3>1, Turned DEF CloseProbe
      <3>2. CASE Forget(t)
        <4>1. connectors' = Closing({Connector(t)}) /\ cached' = cached
          BY <3>2 DEF Forget
        <4>2. \A k \in DOMAIN connectors : connectors'[k].open = (connectors[k].open /\ k \notin {Connector(t)})
          BY <4>1, Closed
        <4>3. \A k \in DOMAIN connectors : connectors[k].open \in BOOLEAN
          BY Engines DEF Engine
        <4> QED
          BY <4>1, <4>2, <4>3
      <3> QED
        BY <1>10, <3>1, <3>2
    <2> QED
      BY <1>1, <2>1, <2>2, PoolCloses
  <1> QED
    BY <1>2, <1>3, <1>4, <1>5, <1>6, <1>7, <1>8, <1>9, <1>10, Carries DEF Holds

LEMMA PoolShuts ==
    ASSUME ServiceOK, PoolOK, NEW p \in Processes, Shutdown(p)
    PROVE  PoolOK'
  <1>1. Ranges /\ app[p] \in Stores /\ request' = request
    BY InRange, ShutdownOK DEF Shutdown
  <1>2. PICK ks : ks = {cached[app[p]][n] : n \in Connections}
    OBVIOUS
  <1>3. connectors' = Closing(ks)
    BY <1>2 DEF Shutdown
  <1>4. \A k \in DOMAIN connectors : connectors[k].open /\ k \notin ks => connectors'[k].open
    BY <1>3, Closed
  <1>5. /\ \A n \in Connections : cached'[app[p]][n] = 0
        /\ \A s \in Stores, n \in Connections : s # app[p] => cached'[s][n] = cached[s][n]
    BY <1>1 DEF Shutdown, Ranges
  <1>6. Single' /\ Opened'
    <2>1. \A s \in Stores, n \in Connections : s # app[p] /\ cached[s][n] # 0 => cached[s][n] \notin ks
      BY <1>1, <1>2 DEF PoolOK, Single
    <2>2. \A s \in Stores, n \in Connections : cached'[s][n] # 0 => s # app[p] /\ cached'[s][n] = cached[s][n]
      BY <1>5
    <2>3. Single'
      BY <2>2 DEF PoolOK, Single
    <2>4. ASSUME NEW s \in Stores, NEW n \in Connections, cached'[s][n] # 0 PROVE connectors'[cached'[s][n]].open
      <3>1. PICK k : k = cached[s][n]
        OBVIOUS
      <3>2. k # 0 /\ k \notin ks /\ k \in DOMAIN connectors /\ cached'[s][n] = k
        BY <1>1, <2>1, <2>2, <2>4, <3>1 DEF Ranges
      <3>3. connectors[k].open
        BY <3>1, <3>2 DEF PoolOK, Opened
      <3> QED
        BY <1>4, <3>2, <3>3
    <2> QED
      BY <2>3, <2>4 DEF Opened
  <1>7. \A d \in Clients : Connector(d)' = Connector(d) /\ At(d, "cache")' = At(d, "cache")
    BY <1>1 DEF Connector, At
  <1>8. ASSUME NEW d \in Clients PROVE Owns(d)'
    <2>1. Owns(d)
      BY DEF PoolOK
    <2>2. request[d].at \in Owning => Uncached(d)'
      BY <1>1, <1>5, <1>7, <2>1 DEF Owns, Uncached
    <2>3. At(d, "cache") => connectors'[Connector(d)].open
      <3>1. SUFFICES ASSUME At(d, "cache") PROVE connectors'[Connector(d)].open
        OBVIOUS
      <3>2. Uncached(d) /\ Connector(d) # 0 /\ connectors[Connector(d)].open
        BY <2>1, <3>1 DEF Owns, At, Owning, Fresh
      <3>3. Connector(d) \notin ks /\ Connector(d) \in DOMAIN connectors
        BY <1>1, <1>2, <3>2 DEF Uncached, Ranges
      <3> QED
        BY <1>4, <3>2, <3>3
    <2> QED
      BY <1>1, <1>7, <2>1, <2>2, <2>3 DEF Owns
  <1> QED
    BY <1>1, <1>6, <1>7, <1>8 DEF PoolOK, Unshared

LEMMA PoolStep ==
    ASSUME ServiceOK, PoolOK, [FacadeNext]_facadeVars
    PROVE  PoolOK'
  <1>1. ASSUME UNCHANGED service PROVE PoolOK'
    BY <1>1 DEF service, shared, PoolOK, Single, Opened, Owns, Uncached, Unshared, At, Connector
  <1>2. ASSUME NEW t \in Clients, Serve(t) PROVE PoolOK'
    BY <1>1, <1>2, PoolServes DEF StoreStep
  <1>3. ASSUME NEW t \in Clients, NEW job \in Jobs[t], Arrive(t, job) PROVE PoolOK'
    <2>1. /\ \A d \in Clients : d # t => request'[d] = request[d]
          /\ request'[t].at \in {"make", "take"}
      BY <1>3, ArriveOK, ServedKeeps
    <2>2. cached' = cached /\ connectors' = connectors /\ request'[t].at \notin Owning
      BY <1>3, <2>1 DEF Arrive, shared, Owning, Fresh, Keeping
    <2> QED
      BY <2>1, <2>2, InRange, PoolCarries
  <1>4. ASSUME NEW p \in Processes, Shutdown(p) PROVE PoolOK'
    BY <1>4, PoolShuts
  <1> QED
    BY <1>1, <1>2, <1>3, <1>4 DEF FacadeNext, Rest, facadeVars

LEMMA PoolStarts == FacadeInit => PoolOK
  <1>1. SUFFICES ASSUME FacadeInit PROVE PoolOK
    OBVIOUS
  <1>2. NoRequest.at = "idle"
    BY DEF NoRequest
  <1>3. \A t \in Clients : request[t].at = "idle"
    BY <1>1, <1>2 DEF FacadeInit
  <1>4. "idle" \notin Owning /\ Fresh \subseteq Owning
    BY DEF Owning, Fresh, Keeping
  <1> QED
    BY <1>1, <1>3, <1>4 DEF FacadeInit, PoolOK, Single, Opened, Owns, Unshared, At

---------------------------------------------------------------------------
(* One request at a time *)

LEMMA AloneGathers ==
    ASSUME NEW t \in Clients, Only(t), \A d \in Clients : d # t => request'[d] = request[d],
           OneObject', \A s \in Stores, n \in Connections : Newest(s, n)', Held(t)',
           \A k \in DOMAIN connectors' : Located(k)'
    PROVE  Alone'
  <1>1. \A d \in Clients : d # t => request'[d].at = "idle"
    BY DEF Only, At
  <1>2. OneServed'
    BY <1>1 DEF OneServed, Only, At
  <1>3. ASSUME NEW d \in Clients, d # t PROVE Held(d)'
    BY <1>1, <1>3 DEF Held, At, Fresh, Handed
  <1> QED
    BY <1>2, <1>3 DEF Alone

(* Who else could hold a connector, or be about to drop one.                *)
LEMMA OnlyOne ==
    ASSUME Alone, NEW t \in Clients, Only(t)
    PROVE  /\ ~At(t, "pop") => \A s \in Stores, n \in Connections :
                cached[s][n] # 0 => /\ connectors[cached[s][n]].store = s
                                    /\ connectors[cached[s][n]].version = version[s][n]
           /\ \A k \in DOMAIN connectors :
                connectors[k].open => (Stored(k) \/ InHand(t, k)) /\ ProcessOf[connectors[k].store] \notin stopped
  <1>1. ASSUME NEW d \in Clients, d # t PROVE ~At(d, "pop") /\ \A k : ~InHand(d, k)
    BY <1>1 DEF Only, At, InHand, Keeping
  <1> QED
    BY <1>1 DEF Alone, Newest, Located

LEMMA NewestKept ==
    ASSUME Alone, Ranges, NEW t \in Clients, Only(t), ~At(t, "pop"), cached' = cached, version' = version,
           SameEngines \/ Added(t)
    PROVE  \A s \in Stores, n \in Connections : Newest(s, n)'
  <1>1. SUFFICES ASSUME NEW s \in Stores, NEW n \in Connections, cached[s][n] # 0
                 PROVE  /\ connectors'[cached[s][n]].store = s
                        /\ connectors'[cached[s][n]].version = version[s][n]
    BY DEF Newest
  <1>2. PICK k : k = cached[s][n]
    OBVIOUS
  <1>3. k \in DOMAIN connectors /\ k \in 1 .. Len(connectors)
    BY <1>1, <1>2 DEF Ranges
  <1>4. connectors[k].store = s /\ connectors[k].version = version[s][n]
    BY <1>1, <1>2, OnlyOne
  <1> QED
    BY <1>2, <1>3, <1>4 DEF SameEngines, Added

(* Where the connectors of the cache stay.                                  *)
LEMMA StoredStays ==
    ASSUME NEW k \in DOMAIN connectors, cached' = cached, connectors'[k].store = connectors[k].store, Stored(k)
    PROVE  Stored(k)'
  BY DEF Stored

LEMMA LocatedKept ==
    ASSUME Alone, Ranges, NEW t \in Clients, Only(t), cached' = cached, stopped' = stopped, SameEngines,
           \A k \in DOMAIN connectors :
             connectors'[k].open =>
               \/ connectors[k].open /\ (InHand(t, k) => InHand(t, k)')
               \/ /\ Stored(k) \/ InHand(t, k)'
                  /\ ProcessOf[connectors[k].store] \notin stopped
    PROVE  \A k \in DOMAIN connectors' : Located(k)'
  <1>1. SUFFICES ASSUME NEW k \in DOMAIN connectors, connectors'[k].open
                 PROVE  (Stored(k)' \/ InHand(t, k)') /\ ProcessOf[connectors'[k].store] \notin stopped'
    BY DEF SameEngines, Located
  <1>2. connectors'[k].store = connectors[k].store
    BY DEF SameEngines
  <1>3. Stored(k) => Stored(k)'
    BY <1>2, StoredStays
  <1> QED
    BY <1>1, <1>2, <1>3, OnlyOne

(* A request that is served is served by its process.                       *)
LEMMA ServedHere ==
    ASSUME PlaceOK, NEW t \in Clients, request[t].at \notin Early
    PROVE  ProcessOf[Store(t)] \notin stopped /\ Store(t) \in made
  BY DEF PlaceOK, Alive, AtHome, Early, At

LEMMA AloneCarries ==
    ASSUME ServiceOK, PlaceOK, PoolOK, Alone, NEW t \in Clients, Serve(t), ~StoreStep(t), Only(t), Carried(t)
    PROVE  Alone'
  <1>1. Ranges /\ \A d \in Clients : d # t => request'[d] = request[d]
    BY InRange, Keeps
  <1>2. Steady /\ SameEngines
    BY DEF Carried, Steady, SameEngines
  <1>3. OneObject'
    BY <1>2 DEF Alone, OneObject, Steady
  <1>4. \A s \in Stores, n \in Connections : Newest(s, n)'
    BY <1>1, <1>2, NewestKept DEF Carried, Steady, At
  <1>5. Held(t)'
    <2>1. CASE request'[t].at = "idle"
      BY <2>1 DEF Held, At, Fresh, Handed
    <2>2. CASE request[t].at \in Handed /\ request'[t].at \in Handed /\ Stays(t)
      BY <1>2, <2>2 DEF Alone, Held, Stays, Same, Steady, At, Fresh, Handed, Store, Name, Connector
    <2>3. CASE request'[t].at \in Later \cup {"reported"}
      BY <2>3 DEF Held, At, Fresh, Handed, Later
    <2> QED
      BY <2>1, <2>2, <2>3 DEF Carried
  <1>6. \A k \in DOMAIN connectors' : Located(k)'
    <2>1. ASSUME NEW k \in DOMAIN connectors, InHand(t, k) PROVE InHand(t, k)'
      <3>1. request[t].at = "report"
        BY <2>1 DEF InHand, Carried, Keeping
      <3>2. request'[t].at = "reported" /\ Stays(t)
        BY <3>1 DEF Carried, Handed
      <3> QED
        BY <1>2, <2>1, <3>2 DEF InHand, Keeping, Stays, Steady, Connector, Store
    <2> QED
      BY <1>1, <1>2, <2>1, LocatedKept DEF Steady
  <1> QED
    BY <1>1, <1>3, <1>4, <1>5, <1>6, AloneGathers

LEMMA AloneOpens ==
    ASSUME ServiceOK, PlaceOK, PoolOK, Alone, NEW t \in Clients, Serve(t), ~StoreStep(t), Only(t),
           Opens(t) \/ Reopens(t)
    PROVE  Alone'
  <1>1. Ranges /\ \A d \in Clients : d # t => request'[d] = request[d]
    BY InRange, Keeps
  <1>2. /\ connectors' = [connectors EXCEPT ![Connector(t)].open = TRUE]
        /\ UNCHANGED <<app, made, version, cached, overlapped, stopped>>
    BY DEF Opens, Reopens
  <1>3. SameEngines /\ \A k \in DOMAIN connectors : k # Connector(t) => connectors'[k] = connectors[k]
    BY <1>2, Turned
  <1>4. request[t].at \in {"open", "execute"}
    BY DEF Opens, Reopens, At
  <1>5. OneObject' /\ \A s \in Stores, n \in Connections : Newest(s, n)'
    BY <1>1, <1>2, <1>3, <1>4, NewestKept DEF Alone, OneObject, At
  <1>6. ProcessOf[Store(t)] \notin stopped
    BY <1>4, ServedHere DEF Early
  <1>7. CASE Opens(t)
    <2>1. /\ request'[t].at = "cache" /\ request'[t].connector = Connector(t)
          /\ request'[t].store = request[t].store /\ request'[t].job = request[t].job
      BY <1>7, HoldMoves DEF To, Same
    <2>2. /\ request[t].at = "open" /\ Connector(t) # 0 /\ connectors[Connector(t)].store = Store(t)
          /\ connectors[Connector(t)].version = version[Store(t)][Name(t)]
          /\ cached[Store(t)][Name(t)] = 0
      BY <1>7 DEF Opens, At, Alone, Held, Fresh, PoolOK, Owns
    <2>3. Connector(t) \in DOMAIN connectors
      BY <1>1, <2>2 DEF Ranges
    <2>4. Connector(t)' = Connector(t) /\ Store(t)' = Store(t) /\ Name(t)' = Name(t)
      BY <2>1 DEF Connector, Store, Name
    <2>5. connectors'[Connector(t)].store = Store(t) /\ connectors'[Connector(t)].version = version[Store(t)][Name(t)]
      BY <1>3, <2>2, <2>3 DEF SameEngines
    <2>6. Held(t)'
      BY <1>2, <2>1, <2>2, <2>4, <2>5 DEF Held, At, Handed
    <2>7. \A k : k = Connector(t) => InHand(t, k)'
      BY <2>1, <2>4, <2>5 DEF InHand, Keeping
    <2>8. \A k : ~InHand(t, k)
      BY <2>2 DEF InHand, Keeping
    <2>9. \A k \in DOMAIN connectors' : Located(k)'
      BY <1>1, <1>2, <1>3, <1>6, <2>2, <2>7, <2>8, LocatedKept
    <2> QED
      BY <1>1, <1>5, <2>6, <2>9, AloneGathers
  <1>8. CASE Reopens(t)
    <2>1. request[t].at = "execute" /\ request'[t].at \in {"idle", "sync", "keep", "catalogue"}
      BY <1>8 DEF Reopens, At
    <2>2. Held(t)'
      BY <2>1 DEF Held, At, Fresh, Handed
    <2>3. Connector(t) # 0 /\ Connector(t) = cached[Store(t)][Name(t)] /\ Store(t) \in Stores /\ Name(t) \in Connections
      BY <2>1, Names DEF Alone, Held, Handed
    <2>4. connectors[Connector(t)].store = Store(t)
      BY <2>1, <2>3, OnlyOne DEF At
    <2>5. Stored(Connector(t))
      BY <2>3, <2>4 DEF Stored
    <2>6. \A k : ~InHand(t, k)
      BY <2>1 DEF InHand, Keeping
    <2>7. \A k \in DOMAIN connectors' : Located(k)'
      BY <1>1, <1>2, <1>3, <1>6, <2>4, <2>5, <2>6, LocatedKept
    <2> QED
      BY <1>1, <1>5, <2>2, <2>7, AloneGathers
  <1> QED
    BY <1>7, <1>8

LEMMA AloneBegins ==
    ASSUME ServiceOK, PlaceOK, PoolOK, Alone, NEW t \in Clients, Serve(t), ~StoreStep(t), Only(t),
           Make(t) \/ Take(t)
    PROVE  Alone'
  <1>1. Ranges /\ \A d \in Clients : d # t => request'[d] = request[d]
    BY InRange, Keeps
  <1>2. UNCHANGED <<version, cached, connectors, stopped>> /\ SameEngines
    BY DEF Make, Take, shared, SameEngines
  <1>3. request[t].at \in {"make", "take"}
    BY DEF Make, Take, At
  <1>4. request'[t].at \in {"take", "lookup", "probe", "configure", "store"}
    BY HoldMoves DEF To
  <1>5. OneObject'
    <2>1. CASE Take(t)
      BY <2>1 DEF Take, shared, Alone, OneObject
    <2>2. CASE Make(t)
      <3>1. PICK z \in Stores \ made : /\ ProcessOf[z] = Home[t] /\ made' = made \cup {z}
                                       /\ app' = [app EXCEPT ![Home[t]] = z]
        BY <2>2 DEF Make
      <3>2. app[Home[t]] = Nobody /\ Home[t] \in Processes /\ app \in [Processes -> Stores \cup {Nobody}]
        BY <2>2, Facts DEF Make, Alone, Held, GlobalsOK
      <3>3. \A s \in made : ProcessOf[s] # Home[t]
        BY <3>2, NobodyAssumption DEF Alone, OneObject, ServiceOK, GlobalsOK
      <3> QED
        BY <3>1, <3>2, <3>3 DEF Alone, OneObject
    <2> QED
      BY <2>1, <2>2
  <1>6. \A s \in Stores, n \in Connections : Newest(s, n)'
    BY <1>1, <1>2, <1>3, NewestKept DEF At
  <1>7. Held(t)'
    BY <1>4 DEF Held, At, Fresh, Handed
  <1>8. \A k : ~InHand(t, k)
    BY <1>3 DEF InHand, Keeping
  <1>9. \A k \in DOMAIN connectors' : Located(k)'
    BY <1>1, <1>2, <1>8, LocatedKept
  <1> QED
    BY <1>1, <1>5, <1>6, <1>7, <1>9, AloneGathers

LEMMA AloneConfigures ==
    ASSUME ServiceOK, PlaceOK, PoolOK, Alone, NEW t \in Clients, Serve(t), ~StoreStep(t), Only(t), Configure(t)
    PROVE  Alone'
  <1>1. Ranges /\ \A d \in Clients : d # t => request'[d] = request[d]
    BY InRange, Keeps
  <1>2. UNCHANGED <<app, made, cached, connectors, stopped>> /\ SameEngines
    BY DEF Configure, SameEngines
  <1>3. /\ request[t].at = "configure" /\ request'[t].at = "pop"
        /\ request'[t].store = request[t].store /\ request'[t].job = request[t].job
    BY HoldMoves DEF To, Same, At
  <1>4. Store(t) \in Stores /\ Name(t) \in Connections /\ Store(t)' = Store(t) /\ Name(t)' = Name(t)
    BY <1>3, Names DEF Store, Name
  <1>5. PICK v : v = version[Store(t)][Name(t)] + 1
    OBVIOUS
  <1>6. version' = [version EXCEPT ![Store(t)][Name(t)] = v]
    BY <1>5 DEF Configure
  <1>7. version \in [Stores -> [Connections -> Nat]]
    BY DEF ServiceOK, GlobalsOK
  <1>8. \A s \in Stores, n \in Connections : s # Store(t) \/ n # Name(t) => version'[s][n] = version[s][n]
    BY <1>4, <1>6, <1>7
  <1>9. OneObject' /\ Held(t)'
    BY <1>2, <1>3 DEF Alone, OneObject, Held, At, Fresh, Handed
  <1>10. ASSUME NEW s \in Stores, NEW n \in Connections PROVE Newest(s, n)'
    <2>1. cached[s][n] # 0 =>
            connectors[cached[s][n]].store = s /\ connectors[cached[s][n]].version = version[s][n]
      BY <1>3, OnlyOne DEF At
    <2>2. CASE s = Store(t) /\ n = Name(t)
      BY <1>2, <1>3, <1>4, <2>1, <2>2 DEF Newest, At
    <2>3. CASE s # Store(t) \/ n # Name(t)
      BY <1>2, <1>8, <2>1, <2>3 DEF Newest
    <2> QED
      BY <2>2, <2>3
  <1>11. \A k : ~InHand(t, k)
    BY <1>3 DEF InHand, Keeping
  <1>12. \A k \in DOMAIN connectors' : Located(k)'
    BY <1>1, <1>2, <1>11, LocatedKept
  <1> QED
    BY <1>1, <1>9, <1>10, <1>12, AloneGathers

LEMMA AloneLooks ==
    ASSUME ServiceOK, PlaceOK, PoolOK, Alone, NEW t \in Clients, Serve(t), ~StoreStep(t), Only(t),
           Lookup(t) \/ Test(t)
    PROVE  Alone'
  <1>1. Ranges /\ \A d \in Clients : d # t => request'[d] = request[d]
    BY InRange, Keeps
  <1>2. UNCHANGED <<app, made, version, cached, stopped>> /\ request[t].at \in {"lookup", "probe"}
    BY DEF Lookup, Test, At
  <1>3. Store(t) \in Stores /\ Name(t) \in Connections
    BY <1>2, Names
  <1>4. ProcessOf[Store(t)] \notin stopped
    BY <1>2, ServedHere DEF Early
  <1>5. OneObject'
    BY <1>2 DEF Alone, OneObject
  <1>6. \A k : ~InHand(t, k)
    BY <1>2 DEF InHand, Keeping
  <1>7. CASE Lookup(t) /\ cached[Store(t)][Name(t)] # 0
    <2>1. connectors' = connectors /\ SameEngines
      BY <1>7 DEF Lookup, SameEngines
    <2>2. PICK k : k = cached[Store(t)][Name(t)]
      OBVIOUS
    <2>3. To(t, "boot", k)
      BY <1>7, <2>2, HoldMoves DEF Looked
    <2>4. Connector(t)' = k /\ Store(t)' = Store(t) /\ Name(t)' = Name(t)
      BY <2>3 DEF To, Same, Connector, Store, Name
    <2>5. Held(t)'
      BY <1>2, <1>7, <2>2, <2>3, <2>4 DEF To, Held, At, Fresh
    <2>6. \A s \in Stores, n \in Connections : Newest(s, n)'
      BY <1>1, <1>2, <2>1, NewestKept DEF At
    <2>7. \A j \in DOMAIN connectors' : Located(j)'
      BY <1>1, <1>2, <1>6, <2>1, LocatedKept
    <2> QED
      BY <1>1, <1>5, <2>5, <2>6, <2>7, AloneGathers
  <1>8. CASE (Lookup(t) /\ cached[Store(t)][Name(t)] = 0) \/ Test(t)
    <2>1. Added(t)
      BY <1>8, Adds
    <2>2. PICK m : m = Len(connectors) + 1
      OBVIOUS
    <2>3. \/ Lookup(t) /\ To(t, "open", m) /\ cached[Store(t)][Name(t)] = 0
          \/ Test(t) /\ To(t, "report", m)
      BY <1>8, <2>2, HoldMoves DEF Looked
    <2>4. Connector(t)' = m /\ Store(t)' = Store(t) /\ Name(t)' = Name(t)
      BY <2>3 DEF To, Same, Connector, Store, Name
    <2>5. connectors'[m].store = Store(t) /\ connectors'[m].version = version[Store(t)][Name(t)]
      BY <2>1, <2>2 DEF Added
    <2>6. Held(t)'
      BY <1>2, <2>3, <2>4, <2>5 DEF To, Held, At, Fresh, Handed
    <2>7. \A s \in Stores, n \in Connections : Newest(s, n)'
      BY <1>1, <1>2, <2>1, NewestKept DEF At
    <2>8. ASSUME NEW j \in DOMAIN connectors' PROVE Located(j)'
      <3>1. j \in 1 .. Len(connectors) \/ j = m
        BY <1>1, <2>1, <2>2 DEF Added, Ranges
      <3>2. CASE j \in 1 .. Len(connectors)
        <4>1. j \in DOMAIN connectors /\ connectors'[j] = connectors[j]
          BY <2>1, <3>2 DEF Added
        <4>2. connectors[j].open => Stored(j) /\ ProcessOf[connectors[j].store] \notin stopped
          BY <1>6, <4>1, OnlyOne
        <4>3. Stored(j) => Stored(j)'
          BY <1>2, <4>1, StoredStays
        <4> QED
          BY <1>2, <4>1, <4>2, <4>3 DEF Located
      <3>3. CASE j = m /\ Test(t)
        <4>1. To(t, "report", m)
          BY <3>3, HoldMoves, <2>2
        <4>2. InHand(t, j)'
          BY <2>4, <2>5, <3>3, <4>1 DEF InHand, To, Keeping
        <4> QED
          BY <1>2, <1>4, <2>5, <3>3, <4>2 DEF Located
      <3>4. CASE j = m /\ Lookup(t)
        BY <2>1, <2>2, <3>4 DEF Added, Located
      <3> QED
        BY <3>1, <3>2, <3>3, <3>4
    <2> QED
      BY <1>1, <1>5, <2>6, <2>7, <2>8, AloneGathers
  <1> QED
    BY <1>7, <1>8

LEMMA AloneCaches ==
    ASSUME ServiceOK, PlaceOK, PoolOK, Alone, NEW t \in Clients, Serve(t), ~StoreStep(t), Only(t), Cache(t)
    PROVE  Alone'
  <1>1. Ranges /\ \A d \in Clients : d # t => request'[d] = request[d]
    BY InRange, Keeps
  <1>2. PICK z, m, k : z = Store(t) /\ m = Name(t) /\ k = Connector(t)
    OBVIOUS
  <1>3. /\ UNCHANGED <<app, made, version, connectors, stopped>> /\ SameEngines
        /\ cached' = [cached EXCEPT ![z][m] = k]
    BY <1>2 DEF Cache, SameEngines
  <1>4. /\ To(t, "boot", k) /\ request[t].at = "cache"
    BY <1>2, HoldMoves DEF At
  <1>5. z \in Stores /\ m \in Connections
    BY <1>2, <1>4, Names DEF Owning, Fresh
  <1>6. Connector(t)' = k /\ Store(t)' = z /\ Name(t)' = m
    BY <1>2, <1>4 DEF To, Same, Connector, Store, Name
  <1>7. k # 0 /\ connectors[k].store = z /\ connectors[k].version = version[z][m] /\ cached[z][m] = 0
    BY <1>2, <1>4 DEF Alone, Held, PoolOK, Owns, Fresh
  <1>8. /\ cached'[z][m] = k
        /\ \A s \in Stores, n \in Connections : s # z \/ n # m => cached'[s][n] = cached[s][n]
    BY <1>1, <1>3, <1>5 DEF Ranges
  <1>9. OneObject'
    BY <1>3 DEF Alone, OneObject
  <1>10. ASSUME NEW s \in Stores, NEW n \in Connections PROVE Newest(s, n)'
    <2>1. CASE s = z /\ n = m
      BY <1>3, <1>7, <1>8, <2>1 DEF Newest
    <2>2. CASE s # z \/ n # m
      BY <1>3, <1>4, <1>8, <2>2, OnlyOne DEF Newest, At
    <2> QED
      BY <2>1, <2>2
  <1>11. Held(t)'
    BY <1>4, <1>6, <1>7, <1>8 DEF Held, To, At, Fresh
  <1>12. ASSUME NEW j \in DOMAIN connectors' PROVE Located(j)'
    <2>1. j \in DOMAIN connectors /\ j # 0
      BY <1>1, <1>3 DEF Ranges
    <2>2. SUFFICES ASSUME connectors[j].open
                   PROVE  Stored(j)' /\ ProcessOf[connectors[j].store] \notin stopped
      BY <1>3 DEF Located
    <2>3. (Stored(j) \/ InHand(t, j)) /\ ProcessOf[connectors[j].store] \notin stopped
      BY <2>1, <2>2, OnlyOne
    <2>4. CASE Stored(j)
      <3>1. PICK n \in Connections : cached[connectors[j].store][n] = j
        BY <2>4 DEF Stored
      <3>2. connectors[j].store # z \/ n # m
        BY <1>7, <2>1, <3>1
      <3>3. connectors[j].store \in Stores
        BY <2>1, Engines DEF Engine
      <3> QED
        BY <1>3, <1>8, <2>3, <3>1, <3>2, <3>3 DEF Stored
    <2>5. CASE InHand(t, j)
      BY <1>2, <1>3, <1>5, <1>7, <1>8, <2>3, <2>5 DEF InHand, Stored
    <2> QED
      BY <2>3, <2>4, <2>5
  <1> QED
    BY <1>1, <1>9, <1>10, <1>11, <1>12, AloneGathers

LEMMA AlonePops ==
    ASSUME ServiceOK, PlaceOK, PoolOK, Alone, NEW t \in Clients, Serve(t), ~StoreStep(t), Only(t), Pop(t)
    PROVE  Alone'
  <1>1. Ranges /\ \A d \in Clients : d # t => request'[d] = request[d]
    BY InRange, Keeps
  <1>2. PICK z, m, k : z = Store(t) /\ m = Name(t) /\ k = cached[z][m]
    OBVIOUS
  <1>3. /\ UNCHANGED <<app, made, version, connectors, stopped>> /\ SameEngines
        /\ cached' = [cached EXCEPT ![z][m] = 0]
    BY <1>2 DEF Pop, SameEngines
  <1>4. /\ To(t, "forget", k) /\ request[t].at = "pop"
    BY <1>2, HoldMoves DEF At
  <1>5. z \in Stores /\ m \in Connections
    BY <1>2, <1>4, Names
  <1>6. Connector(t)' = k /\ Store(t)' = z
    BY <1>2, <1>4 DEF To, Connector, Store
  <1>7. /\ cached'[z][m] = 0
        /\ \A s \in Stores, n \in Connections : s # z \/ n # m => cached'[s][n] = cached[s][n]
    BY <1>1, <1>3, <1>5 DEF Ranges
  <1>8. OneObject' /\ Held(t)'
    BY <1>3, <1>4 DEF Alone, OneObject, Held, To, At, Fresh, Handed
  <1>9. ASSUME NEW s \in Stores, NEW n \in Connections PROVE Newest(s, n)'
    <2>1. SUFFICES ASSUME s # z \/ n # m, cached[s][n] # 0
                   PROVE  connectors[cached[s][n]].store = s /\ connectors[cached[s][n]].version = version[s][n]
      BY <1>3, <1>7 DEF Newest
    <2>2. Newest(s, n)
      BY DEF Alone
    <2>3. \A d \in Clients : At(d, "pop") => d = t
      BY DEF Only, At
    <2> QED
      BY <1>2, <2>1, <2>2, <2>3 DEF Newest
  <1>10. ASSUME NEW j \in DOMAIN connectors' PROVE Located(j)'
    <2>1. j \in DOMAIN connectors /\ connectors[j].store \in Stores
      BY <1>3, Engines DEF Engine
    <2>2. SUFFICES ASSUME connectors[j].open
                   PROVE  (Stored(j)' \/ InHand(t, j)') /\ ProcessOf[connectors[j].store] \notin stopped
      BY <1>3 DEF Located
    <2>3. Stored(j) /\ ProcessOf[connectors[j].store] \notin stopped
      BY <1>4, <2>1, <2>2, OnlyOne DEF InHand, Keeping
    <2>4. PICK n \in Connections : cached[connectors[j].store][n] = j
      BY <2>3 DEF Stored
    <2>5. CASE connectors[j].store = z /\ n = m
      BY <1>2, <1>3, <1>4, <1>6, <2>3, <2>4, <2>5 DEF InHand, To, Keeping
    <2>6. CASE connectors[j].store # z \/ n # m
      BY <1>3, <1>7, <2>1, <2>3, <2>4, <2>6 DEF Stored
    <2> QED
      BY <2>5, <2>6
  <1> QED
    BY <1>1, <1>8, <1>9, <1>10, AloneGathers

LEMMA AloneCloses ==
    ASSUME ServiceOK, PlaceOK, PoolOK, Alone, NEW t \in Clients, Serve(t), ~StoreStep(t), Only(t),
           CloseProbe(t) \/ Forget(t)
    PROVE  Alone'
  <1>1. Ranges /\ \A d \in Clients : d # t => request'[d] = request[d]
    BY InRange, Keeps
  <1>2. UNCHANGED <<app, made, version, cached, stopped>>
    BY DEF CloseProbe, Forget
  <1>3. request[t].at \in {"reported", "forget"} /\ request'[t].at = "idle"
    BY HoldMoves DEF At
  <1>4. SameEngines /\ \A k \in DOMAIN connectors : connectors'[k].open => connectors[k].open /\ k # Connector(t)
    <2>1. CASE CloseProbe(t)
      <3>1. connectors' = [connectors EXCEPT ![Connector(t)].open = FALSE]
        BY <2>1 DEF CloseProbe
      <3>2. \A k \in DOMAIN connectors : k # Connector(t) => connectors'[k] = connectors[k]
        BY <3>1, Turned
      <3>3. Connector(t) \in DOMAIN connectors => ~connectors'[Connector(t)].open
        BY <3>1, Turned
      <3>4. SameEngines
        BY <3>1, Turned
      <3> QED
        BY <3>2, <3>3, <3>4
    <2>2. CASE Forget(t)
      BY <2>2, Closed DEF Forget
    <2> QED
      BY <2>1, <2>2
  <1>5. OneObject' /\ Held(t)'
    BY <1>2, <1>3 DEF Alone, OneObject, Held, At, Fresh, Handed
  <1>6. \A s \in Stores, n \in Connections : Newest(s, n)'
    BY <1>1, <1>2, <1>3, <1>4, NewestKept DEF At
  <1>7. \A k \in DOMAIN connectors : connectors'[k].open => connectors[k].open /\ ~InHand(t, k)
    BY <1>4 DEF InHand
  <1>8. \A k \in DOMAIN connectors' : Located(k)'
    BY <1>1, <1>2, <1>4, <1>7, LocatedKept
  <1> QED
    BY <1>1, <1>5, <1>6, <1>8, AloneGathers

(* The application stops while at most one other request is served, in      *)
(* another process.                                                         *)
LEMMA AloneShuts ==
    ASSUME ServiceOK, PlaceOK, PoolOK, Alone, NEW p \in Processes, Shutdown(p)
    PROVE  Alone'
  <1>1. PICK z : z = app[p]
    OBVIOUS
  <1>2. Ranges /\ z \in Stores /\ ProcessOf[z] = p
    BY <1>1, InRange, ShutdownOK DEF PlaceOK, ObjectsOK
  <1>3. /\ UNCHANGED <<app, made, version, request>> /\ stopped' = stopped \cup {p}
        /\ \A t \in Clients : ~At(t, "idle") => Home[t] # p
    BY DEF Shutdown, Serving
  <1>4. PICK ks : ks = {cached[z][n] : n \in Connections}
    OBVIOUS
  <1>5. SameEngines /\ \A k \in DOMAIN connectors : connectors'[k].open => connectors[k].open /\ k \notin ks
    <2>1. connectors' = Closing(ks)
      BY <1>1, <1>4 DEF Shutdown
    <2> QED
      BY <2>1, Closed
  <1>6. /\ \A n \in Connections : cached'[z][n] = 0
        /\ \A s \in Stores, n \in Connections : s # z => cached'[s][n] = cached[s][n]
    BY <1>1, <1>2 DEF Shutdown, Ranges
  <1>7. \A t \in Clients : request[t].at \notin Early => Store(t) # z
    BY <1>2, <1>3 DEF PlaceOK, AtHome, Early, At
  <1>8. OneServed' /\ OneObject'
    BY <1>3 DEF Alone, OneServed, Only, OneObject, At
  <1>9. ASSUME NEW s \in Stores, NEW n \in Connections PROVE Newest(s, n)'
    <2>1. SUFFICES ASSUME s # z, cached[s][n] # 0
                   PROVE  /\ connectors'[cached[s][n]].store = s
                          /\ connectors'[cached[s][n]].version = version[s][n]
                               \/ \E t \in Clients : At(t, "pop") /\ Store(t) = s /\ Name(t) = n
      BY <1>3, <1>6 DEF Newest, At, Store, Name
    <2>2. PICK k : k = cached[s][n]
      OBVIOUS
    <2>3. k \in DOMAIN connectors
      BY <1>2, <2>1, <2>2 DEF Ranges
    <2>4. connectors'[k].store = connectors[k].store /\ connectors'[k].version = connectors[k].version
      BY <1>5, <2>3 DEF SameEngines
    <2> QED
      BY <2>1, <2>2, <2>4 DEF Alone, Newest
  <1>10. ASSUME NEW t \in Clients PROVE Held(t)'
    <2>1. Connector(t)' = Connector(t) /\ Store(t)' = Store(t) /\ Name(t)' = Name(t)
      BY <1>3 DEF Connector, Store, Name
    <2>2. Held(t)
      BY DEF Alone
    <2>3. ASSUME request[t].at \in Fresh \cup Handed
          PROVE  /\ cached'[Store(t)][Name(t)] = cached[Store(t)][Name(t)]
                 /\ Connector(t) \in DOMAIN connectors
      <3>1. Store(t) \in Stores /\ Name(t) \in Connections
        BY <2>3, Names DEF Owning
      <3>2. request[t].at \notin Early
        BY <2>3 DEF Early, Fresh, Handed
      <3>3. Connector(t) # 0
        BY <2>2, <2>3 DEF Held, PoolOK, Owns
      <3> QED
        BY <1>2, <1>6, <1>7, <3>1, <3>2, <3>3 DEF Ranges
    <2>4. request[t].at \in Fresh =>
            /\ connectors'[Connector(t)].store = connectors[Connector(t)].store
            /\ connectors'[Connector(t)].version = connectors[Connector(t)].version
      BY <1>5, <2>3 DEF SameEngines
    <2> QED
      BY <1>3, <2>1, <2>2, <2>3, <2>4 DEF Held, At
  <1>11. ASSUME NEW k \in DOMAIN connectors' PROVE Located(k)'
    <2>1. k \in DOMAIN connectors /\ connectors'[k].store = connectors[k].store /\ connectors[k].store \in Stores
      BY <1>5, Engines DEF SameEngines, Engine
    <2>2. PICK s : s = connectors[k].store
      OBVIOUS
    <2>3. SUFFICES ASSUME connectors'[k].open
                   PROVE  (Stored(k)' \/ \E t \in Clients : InHand(t, k)') /\ ProcessOf[s] \notin stopped'
      BY <2>1, <2>2 DEF Located
    <2>4. connectors[k].open /\ k \notin ks
      BY <1>5, <2>1, <2>3
    <2>5. (Stored(k) \/ \E t \in Clients : InHand(t, k)) /\ ProcessOf[s] \notin stopped
      BY <2>1, <2>2, <2>4 DEF Alone, Located
    <2>6. s # z
      <3>1. CASE Stored(k)
        BY <1>4, <2>2, <2>4, <3>1 DEF Stored
      <3>2. ASSUME NEW t \in Clients, InHand(t, k) PROVE s # z
        BY <1>7, <2>2, <3>2 DEF InHand, Keeping, Early
      <3> QED
        BY <2>5, <3>1, <3>2
    <2>7. ProcessOf[s] # p
      <3>1. s \in made
        BY <2>1, <2>2 DEF PlaceOK, OwnedBy
      <3> QED
        BY <1>1, <2>6, <3>1 DEF Alone, OneObject
    <2>8. Stored(k) => Stored(k)'
      BY <1>6, <2>1, <2>2, <2>6 DEF Stored
    <2>9. \A t \in Clients : InHand(t, k) => InHand(t, k)'
      BY <1>3, <2>1 DEF InHand, Connector, Store
    <2> QED
      BY <1>3, <2>5, <2>7, <2>8, <2>9
  <1> QED
    BY <1>8, <1>9, <1>10, <1>11 DEF Alone

LEMMA AloneArrives ==
    ASSUME ServiceOK, PlaceOK, PoolOK, AloneOK, NEW t \in Clients, NEW job \in Jobs[t], Arrive(t, job)
    PROVE  AloneOK'
  <1>1. SUFFICES ASSUME ~overlapped' PROVE Alone'
    BY DEF AloneOK
  <1>2. ~overlapped /\ Serving = {}
    BY <1>1 DEF Arrive
  <1>3. Alone /\ Only(t) /\ request[t].at = "idle"
    BY <1>2 DEF AloneOK, Serving, Only, At
  <1>4. Ranges /\ \A d \in Clients : d # t => request'[d] = request[d]
    BY InRange, ArriveOK, ServedKeeps
  <1>5. UNCHANGED <<app, made, version, cached, connectors, stopped>> /\ SameEngines
    BY DEF Arrive, shared, SameEngines
  <1>6. request'[t].at = IF app[Home[t]] = Nobody THEN "make" ELSE "take"
    <2>1. PICK l : l = IF app[Home[t]] = Nobody THEN "make" ELSE "take"
      OBVIOUS
    <2>2. PICK none, id : none = NoRequest /\ id = EntryId(job, served + 1)
      OBVIOUS
    <2>3. request' = [request EXCEPT ![t] = [none EXCEPT !.job = job, !.id = id, !.at = l]]
      BY <2>1, <2>2 DEF Arrive
    <2>4. request \in [Clients -> RequestType] /\ none \in RequestType
      BY <2>2, Facts, NoRequestFits
    <2>5. request'[t].at = l
      BY <2>3, <2>4 DEF RequestType
    <2> QED
      BY <2>1, <2>5
  <1>7. OneObject' /\ Held(t)'
    BY <1>3, <1>5, <1>6 DEF Alone, OneObject, Held, At, Fresh, Handed
  <1>8. \A s \in Stores, n \in Connections : Newest(s, n)'
    BY <1>3, <1>4, <1>5, NewestKept DEF At
  <1>9. \A k : ~InHand(t, k)
    BY <1>3 DEF InHand, Keeping
  <1>10. \A k \in DOMAIN connectors' : Located(k)'
    BY <1>3, <1>4, <1>5, <1>9, LocatedKept
  <1> QED
    BY <1>3, <1>4, <1>7, <1>8, <1>10, AloneGathers

LEMMA AloneStep ==
    ASSUME ServiceOK, PlaceOK, PoolOK, AloneOK, [FacadeNext]_facadeVars
    PROVE  AloneOK'
  <1>1. ASSUME UNCHANGED service PROVE AloneOK'
    <2>1. SUFFICES ASSUME Alone, overlapped' = overlapped PROVE Alone'
      BY <1>1 DEF service, AloneOK
    <2>2. UNCHANGED <<app, made, version, cached, connectors, request, stopped>>
      BY <1>1 DEF service, shared
    <2>3. OneServed' /\ OneObject' /\ \A t \in Clients : Held(t)'
      BY <2>1, <2>2 DEF Alone, OneServed, Only, OneObject, Held, At, Connector, Store, Name
    <2>4. \A s \in Stores, n \in Connections : Newest(s, n)'
      BY <2>1, <2>2 DEF Alone, Newest, At, Store, Name
    <2>5. \A k \in DOMAIN connectors' : Located(k)'
      BY <2>1, <2>2 DEF Alone, Located, Stored, InHand, Connector, Store
    <2> QED
      BY <2>3, <2>4, <2>5 DEF Alone
  <1>2. ASSUME NEW t \in Clients, Serve(t), ~StoreStep(t) PROVE AloneOK'
    <2>1. SUFFICES ASSUME ~overlapped' PROVE Alone'
      BY DEF AloneOK
    <2>2. Alone /\ ~At(t, "idle")
      BY <1>2, <2>1, Keeps DEF AloneOK
    <2>3. Only(t)
      BY <2>2 DEF Alone, OneServed
    <2> QED
      BY <1>2, <2>2, <2>3, Carries, AloneCarries, AloneOpens, AloneBegins, AloneConfigures, AloneLooks, AloneCaches,
         AlonePops, AloneCloses DEF Holds
  <1>3. ASSUME NEW t \in Clients, Serve(t) PROVE AloneOK'
    BY <1>1, <1>2, <1>3 DEF StoreStep
  <1>4. ASSUME NEW t \in Clients, NEW job \in Jobs[t], Arrive(t, job) PROVE AloneOK'
    BY <1>4, AloneArrives
  <1>5. ASSUME NEW p \in Processes, Shutdown(p) PROVE AloneOK'
    BY <1>5, AloneShuts DEF AloneOK, Shutdown
  <1> QED
    BY <1>1, <1>3, <1>4, <1>5 DEF FacadeNext, Rest, facadeVars

LEMMA AloneStarts == FacadeInit => AloneOK
  <1>1. SUFFICES ASSUME FacadeInit PROVE Alone
    BY DEF AloneOK
  <1>2. NoRequest.at = "idle"
    BY DEF NoRequest
  <1>3. \A t \in Clients : request[t].at = "idle"
    BY <1>1, <1>2 DEF FacadeInit
  <1>4. OneServed /\ \A t \in Clients : Held(t)
    BY <1>3 DEF OneServed, Held, At, Fresh, Handed
  <1> QED
    BY <1>1, <1>4 DEF FacadeInit, Alone, OneObject, Newest, Located

(* The three invariants hold together.                                      *)
LEMMA CacheInvariance == FacadeSpec => [](ServiceOK /\ PlaceOK /\ PoolOK /\ AloneOK)
  BY ServiceTyping, PlaceStarts, PlaceStep, PoolStarts, PoolStep, AloneStarts, AloneStep, PTL DEF FacadeSpec

LEMMA CacheGives == PoolOK /\ AloneOK => CacheUsable
  <1>1. SUFFICES ASSUME PoolOK, AloneOK, NEW s \in Stores, NEW n \in Connections, cached[s][n] # 0
                 PROVE  /\ connectors[cached[s][n]].open
                        /\ overlapped \/ connectors[cached[s][n]].version = version[s][n]
                             \/ \E t \in Clients : At(t, "pop")
    BY DEF CacheUsable
  <1>2. connectors[cached[s][n]].open
    BY <1>1 DEF PoolOK, Opened
  <1>3. ~overlapped => Newest(s, n)
    BY <1>1 DEF AloneOK, Alone
  <1> QED
    BY <1>1, <1>2, <1>3 DEF Newest

(* What connect() finds in the cache has an engine nobody has disposed of,  *)
(* whatever the other threads do; and when requests are served one at a     *)
(* time it was built from the configuration registered last.                *)
THEOREM CachesUsable == FacadeSpec => []CacheUsable
  BY CacheInvariance, CacheGives, PTL

(* When requests are served one at a time, an application that has stopped  *)
(* has disposed of every engine its objects opened.                         *)
THEOREM PoolsAreDisposed == FacadeSpec => []PoolsDisposed
  <1>1. AloneOK => PoolsDisposed
    BY DEF AloneOK, Alone, Located, PoolsDisposed
  <1> QED
    BY <1>1, CacheInvariance, PTL
=============================================================================
