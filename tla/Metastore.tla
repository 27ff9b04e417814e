----------------------------- MODULE Metastore -----------------------------
(***************************************************************************)
(* metastore/repository.py: what the callers of Metastore do to a database *)
(* they share.                                                             *)
(*                                                                         *)
(* A call is a short script: bootstrap() first, under a lock of the        *)
(* process when the tables are not known to exist, and then one            *)
(* transaction after another.  The steps of different calls interleave,    *)
(* inside one process and between processes, and any statement may fail.   *)
(* An upsert is an UPDATE and, when that touched nothing, an INSERT: two   *)
(* steps, as a database that reads committed data allows; SQLite, which    *)
(* keeps other writers out, has those behaviours in which nothing comes    *)
(* between them.  The other transactions write rows they have found or     *)
(* that nobody else knows of, and are one step each.                       *)
(***************************************************************************)
EXTENDS Naturals, Sequences, FiniteSets

CONSTANTS
    Clients,     \* the threads that call a metastore
    Stores,      \* Metastore objects
    ProcessOf,   \* the process each of them lives in
    Connections, Datasets, ColumnNames, Suites, CheckNames,
    Runs, Profiles,  \* identifiers of what is recorded
    Earlier,     \* those recorded before, in a database that exists already
    Size,        \* how many results, or column profiles, each comes with
    Strict,      \* those with config.metastore.strict
    Misaddressed, \* those whose URL create_engine does not accept
    Faults,      \* the steps, by their label, at which something may fail
    Requests     \* the calls that are made

Nobody == "nobody"

ConnectionKey(n) == <<"connection", n, "">>
DatasetKey(d)    == <<"dataset", d, "">>
ColumnKey(d, n)  == <<"column", d, n>>
CheckKey(s, n)   == <<"check", s, n>>
ChecksOf(s)      == {CheckKey(s, n) : n \in CheckNames}
AllChecks        == UNION {ChecksOf(s) : s \in Suites}

\* What an upsert writes: anything but the checks, which sync_suite writes.
CatalogKeys ==
    {ConnectionKey(n) : n \in Connections} \cup {DatasetKey(d) : d \in Datasets}
      \cup {ColumnKey(d, n) : d \in Datasets, n \in ColumnNames}
Keys == CatalogKeys \cup AllChecks
Ids  == Runs \cup Profiles

Processes == {ProcessOf[s] : s \in Stores}

ASSUME ProcessAssumption == Stores \subseteq DOMAIN ProcessOf
ASSUME NobodyAssumption == Nobody \notin Clients \cup Stores
ASSUME EarlierAssumption == Earlier \subseteq Ids
ASSUME SizeAssumption == Size \in [Ids -> Nat]
ASSUME FlagsAssumption == Strict \subseteq Stores /\ Misaddressed \subseteq Stores

VARIABLES
    schema,     \* which of the tables and the schema version exist
    ready,      \* Metastore._ready of each object
    lock,       \* who holds _DDL_LOCK of each process
    rows,       \* keys of the rows of connections, datasets, columns, checks
    headers,    \* nexassure_runs and nexassure_profiles
    details,    \* number of rows of nexassure_results and column_profiles of each
    old,        \* entries past the retention
    recorded,   \* history: every entry a record call was made for
    settled,    \* history: what the last sync of a suite declared, if it met no other
    call        \* the call each client is in, or its last one

ddl     == <<schema, ready, lock>>
history == <<headers, details, old, recorded>>
vars    == <<ddl, rows, history, settled, call>>

---------------------------------------------------------------------------
(* Operations: the rows one upserts in order, the suite whose other checks  *)
(* it deletes, the history entry it is about.                               *)

Operation(kind, keys, suite, id) == [kind |-> kind, keys |-> keys, suite |-> suite, id |-> id]

RegisterConnection(n) == Operation("upsert", <<ConnectionKey(n)>>, "", "")
UpsertDataset(d, columns) ==
    Operation("upsert", <<DatasetKey(d)>> \o [i \in 1 .. Len(columns) |-> ColumnKey(d, columns[i])], "", "")
SyncSuite(s, names) ==
    Operation("sync", [i \in 1 .. Len(names) |-> CheckKey(s, names[i])], s, "")
SetDescription(key) == Operation("describe", <<key>>, "", "")
List                == Operation("list", <<>>, "", "")
RecordEntry(i)      == Operation("record", <<>>, "", i)
GetEntry(i)         == Operation("read", <<>>, "", i)
Purge               == Operation("purge", <<>>, "", "")

Kinds == {"upsert", "sync", "describe", "list", "record", "read", "purge"}

IsOperation(op) ==
    /\ op \in [kind : Kinds, keys : Seq(Keys), suite : Suites \cup {""}, id : Ids \cup {""}]
    /\ \/ op.kind = "upsert" /\ op.keys # <<>> /\ \A i \in DOMAIN op.keys : op.keys[i] \notin AllChecks
       \/ op.kind = "sync" /\ op.suite \in Suites
            /\ \A i \in DOMAIN op.keys : op.keys[i] \in ChecksOf(op.suite)
       \/ op.kind = "describe" /\ Len(op.keys) = 1 /\ op.keys[1] \notin AllChecks
       \/ op.kind \in {"record", "read"} /\ op.id \in Ids
       \/ op.kind \in {"purge", "list"}

ASSUME RequestsAssumption == \A op \in Requests : IsOperation(op)

\* done: rows upserted so far; seen: rows and entries found; results: details found.
NoCall(op) ==
    [at |-> "idle", store |-> Nobody, op |-> op, done |-> 0, seen |-> {}, results |-> 0, answer |-> "none"]

Process(c)  == ProcessOf[call[c].store]
Key(c)      == call[c].op.keys[call[c].done + 1]
Declared(c) == {call[c].op.keys[i] : i \in DOMAIN call[c].op.keys}
Id(c)       == call[c].op.id

UnderLock    == {"probe", "create", "stamp", "version"}
Transactions == {"update", "insert", "prune", "describe", "list", "record", "read", "details",
                 "purge", "delete"}

(* The clients that are mirroring a suite.                                  *)
Syncing(s) == {c \in Clients : call[c].at # "idle" /\ call[c].op.kind = "sync" /\ call[c].op.suite = s}

(* The step of an operation that follows n rows upserted.                   *)
After(op, n) ==
    CASE op.kind \in {"upsert", "sync"} /\ n < Len(op.keys) -> "update"
      [] op.kind = "sync" /\ n >= Len(op.keys) -> "prune"
      [] op.kind = "upsert" /\ n >= Len(op.keys) -> "idle"
      [] OTHER -> op.kind

Goto(c, at) == call' = [call EXCEPT ![c].at = at]

Return(c, answer) == call' = [call EXCEPT ![c].at = "idle", ![c].answer = answer]

(* Metastore._guard, and the same choice in bootstrap(): a strict store     *)
(* raises, another lets the call return its default.                        *)
Guard(c) == Return(c, IF call[c].store \in Strict THEN "raised" ELSE "lost")

---------------------------------------------------------------------------
(* Bootstrap *)

Call(c, s, op) ==
    /\ call[c].at = "idle"
    /\ op.kind = "record" => op.id \notin recorded
    /\ call' = [call EXCEPT ![c] =
                  [NoCall(op) EXCEPT !.store = s, !.at = IF ready[s] THEN After(op, 0) ELSE "lock"]]
    /\ recorded' = IF op.kind = "record" THEN recorded \cup {op.id} ELSE recorded
    /\ settled' = [t \in Suites |->
                     IF op.kind # "sync" \/ op.suite # t THEN settled[t]
                     ELSE [state |-> IF Syncing(t) = {} THEN "alone" ELSE "contested", checks |-> {}]]
    /\ UNCHANGED <<ddl, rows, headers, details, old>>

(* The lock, and the second look at _ready under it.                        *)
Lock(c) ==
    /\ call[c].at = "lock"
    /\ lock[Process(c)] = Nobody
    /\ \/ /\ ready[call[c].store]
          /\ Goto(c, After(call[c].op, 0))
          /\ UNCHANGED lock
       \/ /\ ~ready[call[c].store]
          /\ lock' = [lock EXCEPT ![Process(c)] = c]
          /\ Goto(c, "probe")
    /\ UNCHANGED <<schema, ready, rows, history, settled>>

Release(c) == lock' = [lock EXCEPT ![Process(c)] = Nobody]

(* create_all looks first which tables exist and then creates the others.   *)
Probe(c) ==
    /\ call[c].at = "probe" /\ call[c].store \notin Misaddressed
    /\ Goto(c, IF "tables" \in schema THEN "stamp" ELSE "create")
    /\ UNCHANGED <<ddl, rows, history, settled>>

Create(c) ==
    /\ call[c].at = "create" /\ "tables" \notin schema
    /\ schema' = schema \cup {"tables"}
    /\ Goto(c, "stamp")
    /\ UNCHANGED <<ready, lock, rows, history, settled>>

Usable(c) ==
    /\ ready' = [ready EXCEPT ![call[c].store] = TRUE]
    /\ Release(c)
    /\ Goto(c, After(call[c].op, 0))

(* _record_schema_version: the row is read and, when missing, inserted.     *)
Stamp(c) ==
    /\ call[c].at = "stamp"
    /\ \/ "version" \in schema /\ Usable(c)
       \/ "version" \notin schema /\ Goto(c, "version") /\ UNCHANGED <<ready, lock>>
    /\ UNCHANGED <<schema, rows, history, settled>>

InsertVersion(c) ==
    /\ call[c].at = "version" /\ "version" \notin schema
    /\ schema' = schema \cup {"version"}
    /\ Usable(c)
    /\ UNCHANGED <<rows, history, settled>>

\* Mutant: the lock is not given back.
BootstrapFailsHolding(c) ==
    /\ call[c].store \notin Misaddressed
    /\ \/ call[c].at \in UnderLock \cap Faults
       \/ call[c].at = "create" /\ "tables" \in schema
       \/ call[c].at = "version" /\ "version" \in schema
    /\ Guard(c)
    /\ UNCHANGED <<ddl, rows, history, settled>>

(* A statement fails, or another process has created in between what this   *)
(* one is about to create.                                                  *)
BootstrapFails(c) ==
    /\ call[c].store \notin Misaddressed
    /\ \/ call[c].at \in UnderLock \cap Faults
       \/ call[c].at = "create" /\ "tables" \in schema
       \/ call[c].at = "version" /\ "version" \in schema
    /\ Release(c)
    /\ Guard(c)
    /\ UNCHANGED <<schema, ready, rows, history, settled>>

(* The engine property raises MetastoreError, which the handler of          *)
(* bootstrap() does not name: it reaches the caller of any store.           *)
BadUrl(c) ==
    /\ call[c].at = "probe" /\ call[c].store \in Misaddressed
    /\ Release(c)
    /\ Return(c, "raised")
    /\ UNCHANGED <<schema, ready, rows, history, settled>>

---------------------------------------------------------------------------
(* Upserts *)

Proceed(c) ==
    LET next == After(call[c].op, call[c].done + 1)
    IN  call' = [call EXCEPT ![c].at = next, ![c].done = @ + 1,
                             ![c].answer = IF next = "idle" THEN "ok" ELSE @]

(* _upsert: the UPDATE finds the row, or leaves the INSERT to do.           *)
Update(c) ==
    /\ call[c].at = "update"
    /\ IF Key(c) \in rows THEN Proceed(c) ELSE Goto(c, "insert")
    /\ UNCHANGED <<ddl, rows, history, settled>>

Insert(c) ==
    /\ call[c].at = "insert" /\ Key(c) \notin rows
    /\ rows' = rows \cup {Key(c)}
    /\ Proceed(c)
    /\ UNCHANGED <<ddl, history, settled>>

\* Mutant: the checks that are no longer declared stay.
PruneNothing(c) ==
    /\ call[c].at = "prune"
    /\ settled' = [settled EXCEPT ![call[c].op.suite] =
                     IF @.state = "alone" THEN [state |-> "known", checks |-> Declared(c)] ELSE @]
    /\ Return(c, "ok")
    /\ UNCHANGED <<ddl, rows, history>>

(* The last transaction of sync_suite: the checks of the suite that are in  *)
(* the table and not in the file are deleted.                               *)
Prune(c) ==
    /\ call[c].at = "prune"
    /\ rows' = rows \ (ChecksOf(call[c].op.suite) \ Declared(c))
    /\ settled' = [settled EXCEPT ![call[c].op.suite] =
                     IF @.state = "alone" THEN [state |-> "known", checks |-> Declared(c)] ELSE @]
    /\ Return(c, "ok")
    /\ UNCHANGED <<ddl, history>>

(* set_dataset_description, set_column_description: only an existing row.   *)
Annotate(c) ==
    /\ call[c].at = "describe"
    /\ Return(c, IF Key(c) \in rows THEN "ok" ELSE "none")
    /\ UNCHANGED <<ddl, rows, history, settled>>

(* The list_ queries, check_history, failing_checks, summary: one read.     *)
ListRows(c) ==
    /\ call[c].at = "list"
    /\ call' = [call EXCEPT ![c].at = "idle", ![c].seen = rows \cup headers, ![c].answer = "ok"]
    /\ UNCHANGED <<ddl, rows, history, settled>>

---------------------------------------------------------------------------
(* Runs and profiles *)

(* record_run, record_profile: the entry with all its details at once.      *)
Record(c) ==
    /\ call[c].at = "record"
    /\ headers' = headers \cup {Id(c)}
    /\ details' = [details EXCEPT ![Id(c)] = Size[Id(c)]]
    /\ Return(c, "ok")
    /\ UNCHANGED <<ddl, rows, old, recorded, settled>>

(* get_run, latest_profile: the entry, and in a second transaction its      *)
(* details, which a purge may have removed by then.                         *)
ReadHeader(c) ==
    /\ call[c].at = "read"
    /\ IF Id(c) \in headers THEN Goto(c, "details") ELSE Return(c, "none")
    /\ UNCHANGED <<ddl, rows, history, settled>>

ReadDetails(c) ==
    /\ call[c].at = "details"
    /\ call' = [call EXCEPT ![c].at = "idle", ![c].results = details[Id(c)], ![c].answer = "ok"]
    /\ UNCHANGED <<ddl, rows, history, settled>>

\* Mutant: the selection has no cutoff.
SelectAll(c) ==
    /\ call[c].at = "purge"
    /\ call' = [call EXCEPT ![c].at = "delete", ![c].seen = headers]
    /\ UNCHANGED <<ddl, rows, history, settled>>

(* purge is one transaction: it selects what is old, and by its commit that *)
(* is deleted with its details.  Others may commit in between.              *)
SelectStale(c) ==
    /\ call[c].at = "purge"
    /\ call' = [call EXCEPT ![c].at = "delete", ![c].seen = headers \cap old]
    /\ UNCHANGED <<ddl, rows, history, settled>>

DeleteStale(c) ==
    /\ call[c].at = "delete"
    /\ headers' = headers \ call[c].seen
    /\ details' = [i \in Ids |-> IF i \in call[c].seen THEN 0 ELSE details[i]]
    /\ Return(c, "ok")
    /\ UNCHANGED <<ddl, rows, old, recorded, settled>>

(* A transaction fails and is rolled back, because a statement of it did or *)
(* because another client has inserted the row that this one inserts.       *)
Failing(c) ==
    \/ call[c].at \in Transactions \cap Faults
    \/ call[c].at = "insert" /\ Key(c) \in rows

(* _rows answers a failed read of the details with no rows, and the caller  *)
(* gets the entry without them; purge answers with what it had counted as   *)
(* deleted before the failure.                                              *)
TransactionFails(c) ==
    /\ Failing(c)
    /\ \/ /\ call[c].store \notin Strict /\ call[c].at = "details"
          /\ Return(c, "ok")
       \/ /\ call[c].store \notin Strict /\ call[c].at = "delete"
          /\ \E counted \in {{}, call[c].seen \cap Runs, call[c].seen} :
               call' = [call EXCEPT ![c].at = "idle", ![c].seen = counted, ![c].answer = "ok"]
       \/ /\ call[c].store \in Strict \/ call[c].at \notin {"details", "delete"}
          /\ Guard(c)
    /\ UNCHANGED <<ddl, rows, history, settled>>

---------------------------------------------------------------------------

(* close(): the next call starts with bootstrap() again.                    *)
Close(s) ==
    /\ ready' = [ready EXCEPT ![s] = FALSE]
    /\ UNCHANGED <<schema, lock, rows, history, settled, call>>

(* Time passes: an entry falls behind the cutoff of purge.                  *)
Age(i) ==
    /\ i \in headers \ old
    /\ old' = old \cup {i}
    /\ UNCHANGED <<ddl, rows, headers, details, recorded, settled, call>>

Step(c) ==
    \/ Lock(c) \/ Probe(c) \/ Create(c) \/ Stamp(c) \/ InsertVersion(c)
    \/ BootstrapFails(c) \/ BadUrl(c)
    \/ Update(c) \/ Insert(c) \/ Prune(c) \/ Annotate(c) \/ ListRows(c)
    \/ Record(c) \/ ReadHeader(c) \/ ReadDetails(c) \/ SelectStale(c) \/ DeleteStale(c)
    \/ TransactionFails(c)

Init ==
    /\ schema \in {{}, {"tables", "version"}}
    /\ ready = [s \in Stores |-> FALSE]
    /\ lock = [p \in Processes |-> Nobody]
    /\ rows = {}
    /\ headers = IF schema = {} THEN {} ELSE Earlier
    /\ details = [i \in Ids |-> IF i \in headers THEN Size[i] ELSE 0]
    /\ old \in SUBSET headers /\ recorded = headers
    /\ settled = [s \in Suites |-> [state |-> "open", checks |-> {}]]
    /\ call = [c \in Clients |-> NoCall(Purge)]

Next ==
    \/ \E c \in Clients, s \in Stores, op \in Requests : Call(c, s, op)
    \/ \E c \in Clients : Step(c)
    \/ \E s \in Stores : Close(s)
    \/ \E i \in Ids : Age(i)

Spec == Init /\ [][Next]_vars

---------------------------------------------------------------------------
(* Properties *)

(* Every variable holds what its comment says; a thread that holds the lock *)
(* of its process is in bootstrap(), and the reverse.                       *)
CallType ==
    [at : {"idle", "lock"} \cup UnderLock \cup Transactions, store : Stores \cup {Nobody},
     op : [kind : Kinds, keys : Seq(Keys), suite : Suites \cup {""}, id : Ids \cup {""}],
     done : Nat, seen : SUBSET (Keys \cup Ids), results : Nat,
     answer : {"none", "ok", "lost", "raised"}]

StoreTypeOK ==
    /\ schema \subseteq {"tables", "version"}
    /\ ready \in [Stores -> BOOLEAN]
    /\ lock \in [Processes -> Clients \cup {Nobody}]
    /\ rows \subseteq Keys
    /\ headers \subseteq Ids /\ details \in [Ids -> Nat] /\ old \subseteq Ids /\ recorded \subseteq Ids
    /\ settled \in [Suites -> [state : {"open", "alone", "contested", "known"}, checks : SUBSET Keys]]
    /\ call \in [Clients -> CallType]

(* bootstrap(): one thread of a process at a time creates the tables, and a *)
(* thread that has left bootstrap(), whichever way, has left the lock.      *)
OneBuilder ==
    \A c \in Clients :
      call[c].at \in UnderLock <=> \E p \in Processes : lock[p] = c

(* sync_suite: "the registry always reflects what is actually declared".    *)
(* After a sync that overlapped no other sync of the suite, whatever else   *)
(* was going on, the rows of the suite are the checks it declared, until    *)
(* the next sync begins.                                                    *)
RegistrySettles ==
    \A s \in Suites : settled[s].state = "known" => rows \cap ChecksOf(s) = settled[s].checks

(* get_run, latest_profile: the two transactions of a read give the entry   *)
(* with all its details, and never with a part of them.  Without any it is  *)
(* given only when it was past the retention and a purge deleted it between *)
(* the two, or when, in a store that is not strict, a statement failed.     *)
ReadsWhole ==
    \A c \in Clients :
      call[c].at = "idle" /\ call[c].op.kind = "read" /\ call[c].answer = "ok"
        => \/ call[c].results = Size[Id(c)]
           \/ /\ call[c].results = 0
              /\ Id(c) \in old \ headers \/ (call[c].store \notin Strict /\ "details" \in Faults)

---------------------------------------------------------------------------
(* The history as its readers may see it *)

Recording(i) == \E c \in Clients : call[c].at # "idle" /\ call[c].op.kind = "record" /\ Id(c) = i

Entry(i) == IF i \in headers THEN "kept"
            ELSE IF i \in recorded /\ ~Recording(i) THEN "gone" ELSE "new"

AsHistory == INSTANCE History WITH entry <- [i \in Ids |-> Entry(i)], expired <- old

(* The steps of all the calls, failures included, implement History: an     *)
(* entry is kept or lost when its call ends, stays until it is old, and     *)
(* does not come back.                                                      *)
ImplementsHistory == AsHistory!Spec
=============================================================================
