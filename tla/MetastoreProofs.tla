-------------------------- MODULE MetastoreProofs --------------------------
(***************************************************************************)
(* Proofs about Metastore, for all clients, stores, processes and requests *)
(* and whatever fails: the lock of bootstrap(), the registry of checks,    *)
(* what a read finds, and that the store implements History.               *)
(***************************************************************************)
EXTENDS Metastore, SequenceTheorems, TLAPS

(* Where a call is agrees with what it was asked to do.                     *)
CallOK(c) ==
    /\ call[c] \in CallType
    /\ IsOperation(call[c].op)
    /\ call[c].at # "idle" => call[c].store \in Stores
    /\ call[c].at \in {"lock"} \cup UnderLock => call[c].done = 0
    /\ call[c].at \in {"update", "insert"} =>
         call[c].op.kind \in {"upsert", "sync"} /\ call[c].done < Len(call[c].op.keys)
    /\ call[c].at = "prune" => call[c].op.kind = "sync" /\ call[c].done = Len(call[c].op.keys)
    /\ call[c].at \in {"describe", "list", "record", "read", "purge"} =>
         call[c].op.kind = call[c].at /\ call[c].done = 0
    /\ call[c].at = "details" => call[c].op.kind = "read"
    /\ call[c].at = "delete" => call[c].op.kind = "purge" /\ call[c].seen \subseteq old

CallsOK == StoreTypeOK /\ \A c \in Clients : CallOK(c)

(* After leads to a step that fits the operation.                           *)
LEMMA AfterFits ==
    ASSUME NEW op, IsOperation(op), NEW n \in Nat, n <= Len(op.keys),
           op.kind \notin {"upsert", "sync"} => n = 0
    PROVE  /\ After(op, n) \in {"idle", "update", "prune", "describe", "list", "record", "read", "purge"}
           /\ After(op, n) = "update" => op.kind \in {"upsert", "sync"} /\ n < Len(op.keys)
           /\ After(op, n) = "prune" => op.kind = "sync" /\ n = Len(op.keys)
           /\ After(op, n) \in {"describe", "list", "record", "read", "purge"} =>
                After(op, n) = op.kind /\ n = 0
           /\ After(op, n) = "idle" => op.kind = "upsert" /\ n # 0
  <1> DEFINE len == Len(op.keys)
  <1>1. op.keys \in Seq(Keys)
    BY DEF IsOperation
  <1>2. len \in Nat
    BY <1>1
  <1>3. op.kind \in {"upsert", "sync", "describe", "record", "read", "purge", "list"}
    BY DEF IsOperation
  <1>4. op.kind = "upsert" => len # 0
    <2>1. op.kind = "upsert" => op.keys # <<>>
      BY DEF IsOperation
    <2> QED
      BY <1>1, <2>1, EmptySeq
  <1> HIDE DEF len
  <1>5. After(op, n) = CASE op.kind \in {"upsert", "sync"} /\ n < len -> "update"
      [] op.kind = "sync" /\ n >= len -> "prune"
      [] op.kind = "upsert" /\ n >= len -> "idle"
      [] OTHER -> op.kind
    BY DEF After, len
  <1>6. CASE op.kind \in {"upsert", "sync"} /\ n < len
    BY <1>2, <1>3, <1>5, <1>6 DEF len
  <1>7. CASE op.kind = "sync" /\ ~(n < len)
    BY <1>2, <1>5, <1>7 DEF len
  <1>8. CASE op.kind = "upsert" /\ ~(n < len)
    BY <1>2, <1>4, <1>5, <1>8 DEF len
  <1>9. CASE op.kind \notin {"upsert", "sync"}
    BY <1>3, <1>5, <1>9
  <1> QED
    BY <1>6, <1>7, <1>8, <1>9

(* A step of one client leaves the calls of the others alone, and its own   *)
(* call is still the same call.                                             *)
Frame(c) ==
    /\ \A d \in Clients : d # c => call'[d] = call[d]
    /\ call'[c].op = call[c].op
    /\ call'[c].store = call[c].store

LEMMA StepFrame ==
    ASSUME StoreTypeOK, NEW c \in Clients, Step(c)
    PROVE  Frame(c)
  <1>1. call \in [Clients -> CallType] /\ call[c] \in CallType
    BY DEF StoreTypeOK
  <1>2. ASSUME NEW at, Goto(c, at) PROVE Frame(c)
    BY <1>1, <1>2 DEF Goto, Frame, CallType
  <1>3. ASSUME NEW answer, Return(c, answer) PROVE Frame(c)
    BY <1>1, <1>3 DEF Return, Frame, CallType
  <1>4. CASE Lock(c) \/ Probe(c) \/ Create(c)
    BY <1>2, <1>4 DEF Lock, Probe, Create
  <1>5. CASE Stamp(c) \/ InsertVersion(c)
    BY <1>2, <1>5 DEF Stamp, InsertVersion, Usable
  <1>6. CASE BootstrapFails(c) \/ BadUrl(c)
    BY <1>3, <1>6 DEF BootstrapFails, BadUrl, Guard
  <1>7. ASSUME Proceed(c) PROVE Frame(c)
    BY <1>1, <1>7 DEF Proceed, Frame, CallType
  <1>8. CASE Update(c) \/ Insert(c)
    BY <1>2, <1>7, <1>8 DEF Update, Insert
  <1>9. CASE Prune(c) \/ Annotate(c) \/ Record(c) \/ DeleteStale(c)
    BY <1>3, <1>9 DEF Prune, Annotate, Record, DeleteStale
  <1>10. CASE ListRows(c)
    BY <1>1, <1>10 DEF ListRows, Frame, CallType
  <1>11. CASE ReadHeader(c)
    BY <1>2, <1>3, <1>11 DEF ReadHeader
  <1>12. CASE ReadDetails(c)
    BY <1>1, <1>12 DEF ReadDetails, Frame, CallType
  <1>13. CASE SelectStale(c)
    BY <1>1, <1>13 DEF SelectStale, Frame, CallType
  <1>14. CASE TransactionFails(c)
    <2>1. CASE Return(c, "ok") \/ Guard(c)
      BY <1>3, <2>1 DEF Guard
    <2>2. ASSUME NEW counted, call' = [call EXCEPT ![c].at = "idle", ![c].seen = counted, ![c].answer = "ok"]
          PROVE  Frame(c)
      BY <1>1, <2>2 DEF Frame, CallType
    <2> QED
      BY <1>14, <2>1, <2>2 DEF TransactionFails
  <1> QED
    BY <1>4, <1>5, <1>6, <1>8, <1>9, <1>10, <1>11, <1>12, <1>13, <1>14 DEF Step

(* What a call record needs to be in order; the proofs below give it for    *)
(* each way in which a step changes one.                                    *)
Fits(r, past) ==
    /\ r \in CallType
    /\ IsOperation(r.op)
    /\ r.at # "idle" => r.store \in Stores
    /\ r.at \in {"lock"} \cup UnderLock => r.done = 0
    /\ r.at \in {"update", "insert"} => r.op.kind \in {"upsert", "sync"} /\ r.done < Len(r.op.keys)
    /\ r.at = "prune" => r.op.kind = "sync" /\ r.done = Len(r.op.keys)
    /\ r.at \in {"describe", "list", "record", "read", "purge"} => r.op.kind = r.at /\ r.done = 0
    /\ r.at = "details" => r.op.kind = "read"
    /\ r.at = "delete" => r.op.kind = "purge" /\ r.seen \subseteq past

LEMMA CallOKIsFits == ASSUME NEW c \in Clients PROVE CallOK(c) <=> Fits(call[c], old)
  BY DEF CallOK, Fits

LEMMA CallOKIsFitsNext == ASSUME NEW c \in Clients PROVE CallOK(c)' <=> Fits(call'[c], old')
  BY DEF CallOK, Fits

LEMMA StepCalls ==
    ASSUME CallsOK, NEW c \in Clients, Step(c)
    PROVE  CallOK(c)' /\ old' = old
  <1>1. /\ call \in [Clients -> CallType]
        /\ Fits(call[c], old)
    BY CallOKIsFits DEF CallsOK, StoreTypeOK
  <1> DEFINE r == call[c]
  <1>2. PICK q : q = r
    OBVIOUS
  <1>3. /\ Fits(q, old) /\ q \in CallType /\ IsOperation(q.op) /\ q.done \in Nat /\ q.op.keys \in Seq(Keys)
        /\ Len(q.op.keys) \in Nat
    <2>1. Fits(q, old) /\ q \in CallType /\ IsOperation(q.op)
      BY <1>1, <1>2 DEF Fits
    <2>2. q.done \in Nat /\ q.op.keys \in Seq(Keys)
      BY <2>1 DEF CallType
    <2> QED
      BY <2>1, <2>2
  <1>4. SUFFICES Fits(call'[c], old') /\ old' = old
    BY CallOKIsFitsNext
  <1>5. old' = old
    BY DEF Step, Lock, Probe, Create, Stamp, InsertVersion, BootstrapFails, BadUrl, Update, Insert, Prune,
        Annotate, ListRows, Record, ReadHeader, ReadDetails, SelectStale, DeleteStale,
        TransactionFails, history
  <1>6. ASSUME NEW answer \in {"ok", "lost", "raised", "none"}, call' = [call EXCEPT ![c].at = "idle", ![c].answer = answer]
        PROVE  Fits(call'[c], old)
    <2>1. call'[c] = [q EXCEPT !.at = "idle", !.answer = answer]
      BY <1>1, <1>2, <1>6
    <2> QED
      BY <1>3, <2>1 DEF Fits, CallType, UnderLock
  <1>7. ASSUME NEW answer \in {"ok", "lost", "raised", "none"}, Return(c, answer)
        PROVE  Fits(call'[c], old)
    BY <1>6, <1>7 DEF Return
  <1>8. ASSUME Guard(c)
        PROVE  Fits(call'[c], old)
    BY <1>7, <1>8 DEF Guard
  <1>9. ASSUME NEW at, Goto(c, at), at \in {"probe", "create", "stamp", "version"}, q.at \in {"lock"} \cup UnderLock
        PROVE  Fits(call'[c], old)
    <2>1. call'[c] = [q EXCEPT !.at = at]
      BY <1>1, <1>2, <1>9 DEF Goto
    <2> QED
      BY <1>3, <1>9, <2>1 DEF Fits, CallType, UnderLock
  <1>10. ASSUME Goto(c, After(q.op, 0)), q.at \in {"lock"} \cup UnderLock
         PROVE  Fits(call'[c], old)
    <2> DEFINE at == After(q.op, 0)
    <2>1. call'[c] = [q EXCEPT !.at = at]
      BY <1>1, <1>2, <1>10 DEF Goto
    <2>2. q.done = 0 /\ q.store \in Stores /\ 0 <= Len(q.op.keys)
      BY <1>3, <1>10 DEF Fits, UnderLock
    <2>3. /\ at \in {"idle", "update", "prune", "describe", "list", "record", "read", "purge"}
          /\ at = "update" => q.op.kind \in {"upsert", "sync"} /\ 0 < Len(q.op.keys)
          /\ at = "prune" => q.op.kind = "sync" /\ 0 = Len(q.op.keys)
          /\ at \in {"describe", "list", "record", "read", "purge"} => at = q.op.kind
      BY <1>3, <2>2, AfterFits
    <2> HIDE DEF at
    <2> QED
      BY <1>3, <2>1, <2>2, <2>3, ZenonT(30) DEF Fits, CallType, UnderLock, Transactions
  <1>11. CASE Lock(c)
    BY <1>2, <1>9, <1>10, <1>11, <1>5 DEF Lock
  <1>12. CASE Probe(c) \/ Create(c)
    BY <1>2, <1>5, <1>9, <1>12 DEF Probe, Create, UnderLock
  <1>13. CASE Stamp(c) \/ InsertVersion(c)
    BY <1>2, <1>5, <1>9, <1>10, <1>13 DEF Stamp, InsertVersion, Usable, UnderLock
  <1>14. CASE BootstrapFails(c) \/ BadUrl(c)
    BY <1>5, <1>7, <1>8, <1>14 DEF BootstrapFails, BadUrl
  <1>15. ASSUME Proceed(c), q.at \in {"update", "insert"}
         PROVE  Fits(call'[c], old)
    <2> DEFINE next == After(q.op, q.done + 1)
    <2>1. call'[c] = [q EXCEPT !.at = next, !.done = q.done + 1, !.answer = IF next = "idle" THEN "ok" ELSE q.answer]
      BY <1>1, <1>2, <1>15 DEF Proceed
    <2>2. q.store \in Stores /\ q.done + 1 <= Len(q.op.keys) /\ q.done + 1 \in Nat /\ q.op.kind \in {"upsert", "sync"}
      BY <1>3, <1>15 DEF Fits
    <2>3. /\ next \in {"idle", "update", "prune", "describe", "list", "record", "read", "purge"}
          /\ next = "update" => q.op.kind \in {"upsert", "sync"} /\ q.done + 1 < Len(q.op.keys)
          /\ next = "prune" => q.op.kind = "sync" /\ q.done + 1 = Len(q.op.keys)
          /\ next \in {"describe", "list", "record", "read", "purge"} => next = q.op.kind /\ q.done + 1 = 0
      BY <1>3, <2>2, AfterFits
    <2> HIDE DEF next
    <2> QED
      BY <1>3, <2>1, <2>2, <2>3, ZenonT(30) DEF Fits, CallType, UnderLock, Transactions
  <1>16. CASE Update(c) \/ Insert(c)
    <2>1. CASE Proceed(c)
      BY <1>2, <1>5, <1>15, <1>16, <2>1 DEF Update, Insert
    <2>2. CASE Update(c) /\ Goto(c, "insert")
      <3>1. call'[c] = [q EXCEPT !.at = "insert"] /\ q.at = "update"
        BY <1>1, <1>2, <2>2 DEF Goto, Update
      <3> QED
        BY <1>3, <1>5, <3>1 DEF Fits, CallType, UnderLock, Transactions
    <2> QED
      BY <1>16, <2>1, <2>2 DEF Update, Insert
  <1>17. CASE Prune(c) \/ Annotate(c) \/ Record(c) \/ DeleteStale(c)
    BY <1>5, <1>7, <1>17 DEF Prune, Annotate, Record, DeleteStale
  <1>18. CASE ListRows(c)
    <2>1. call'[c] = [q EXCEPT !.at = "idle", !.seen = rows \cup headers, !.answer = "ok"]
      BY <1>1, <1>2, <1>18 DEF ListRows
    <2>2. rows \cup headers \subseteq Keys \cup Ids
      BY DEF CallsOK, StoreTypeOK
    <2>3. call'[c].at = "idle" /\ call'[c].op = q.op /\ call'[c].store = q.store
      BY <1>3, <2>1 DEF CallType
    <2>4. call'[c] \in CallType
      BY <1>3, <2>1, <2>2 DEF CallType
    <2> QED
      BY <1>3, <1>5, <2>3, <2>4 DEF Fits, UnderLock
  <1>19. CASE ReadHeader(c)
    <2>1. CASE Return(c, "none")
      BY <1>5, <1>7, <2>1
    <2>2. CASE Goto(c, "details")
      <3>1. call'[c] = [q EXCEPT !.at = "details"] /\ q.at = "read"
        BY <1>1, <1>2, <1>19, <2>2 DEF Goto, ReadHeader
      <3> QED
        BY <1>3, <1>5, <3>1 DEF Fits, CallType, UnderLock, Transactions
    <2> QED
      BY <1>19, <2>1, <2>2 DEF ReadHeader
  <1>20. CASE ReadDetails(c)
    <2>1. call'[c] = [q EXCEPT !.at = "idle", !.results = details[q.op.id], !.answer = "ok"] /\ q.at = "details"
      BY <1>1, <1>2, <1>20 DEF ReadDetails, Id
    <2>2. details[q.op.id] \in Nat
      BY <1>3, <2>1 DEF Fits, IsOperation, CallsOK, StoreTypeOK
    <2> QED
      BY <1>3, <1>5, <2>1, <2>2 DEF Fits, CallType, UnderLock
  <1>21. CASE SelectStale(c)
    <2>1. call'[c] = [q EXCEPT !.at = "delete", !.seen = headers \cap old] /\ q.at = "purge"
      BY <1>1, <1>2, <1>21 DEF SelectStale
    <2>2. headers \cap old \subseteq Keys \cup Ids
      BY DEF CallsOK, StoreTypeOK
    <2>3. /\ call'[c].at = "delete" /\ call'[c].seen = headers \cap old
          /\ call'[c].op = q.op /\ call'[c].store = q.store
      BY <1>3, <2>1 DEF CallType
    <2>4. call'[c] \in CallType
      BY <1>3, <2>1, <2>2 DEF CallType, Transactions
    <2>5. q.store \in Stores /\ q.op.kind = "purge"
      BY <1>3, <2>1 DEF Fits
    <2> QED
      BY <1>3, <1>5, <2>3, <2>4, <2>5 DEF Fits, UnderLock
  <1>22. CASE TransactionFails(c)
    <2>1. CASE Guard(c)
      BY <1>5, <1>8, <2>1
    <2>2. CASE Return(c, "ok")
      BY <1>5, <1>7, <2>2
    <2>3. CASE \E counted \in {{}, q.seen \cap Runs, q.seen} :
                 call' = [call EXCEPT ![c].at = "idle", ![c].seen = counted, ![c].answer = "ok"]
      <3>1. PICK counted \in {{}, q.seen \cap Runs, q.seen} :
              call' = [call EXCEPT ![c].at = "idle", ![c].seen = counted, ![c].answer = "ok"]
        BY <2>3
      <3>2. call'[c] = [q EXCEPT !.at = "idle", !.seen = counted, !.answer = "ok"]
        BY <1>1, <1>2, <3>1
      <3>3. counted \subseteq Keys \cup Ids
        BY <1>3, <3>1 DEF CallType
      <3>4. call'[c].at = "idle" /\ call'[c].op = q.op /\ call'[c].store = q.store
        BY <1>3, <3>2 DEF CallType
      <3>5. call'[c] \in CallType
        BY <1>3, <3>2, <3>3 DEF CallType
      <3> QED
        BY <1>3, <1>5, <3>4, <3>5 DEF Fits, UnderLock
    <2> QED
      BY <1>2, <1>22, <2>1, <2>2, <2>3 DEF TransactionFails
  <1> QED
    BY <1>11, <1>12, <1>13, <1>14, <1>16, <1>17, <1>18, <1>19, <1>20, <1>21, <1>22, <1>5 DEF Step

LEMMA CallFits ==
    ASSUME CallsOK, NEW c \in Clients, NEW s \in Stores, NEW op \in Requests, Call(c, s, op)
    PROVE  /\ CallOK(c)'
           /\ \A d \in Clients : d # c => call'[d] = call[d]
  <1> DEFINE at == IF ready[s] THEN After(op, 0) ELSE "lock"
  <1>1. call \in [Clients -> CallType]
    BY DEF CallsOK, StoreTypeOK
  <1>2. call'[c] = [NoCall(op) EXCEPT !.store = s, !.at = at] /\ \A d \in Clients : d # c => call'[d] = call[d]
    BY <1>1 DEF Call
  <1>3. IsOperation(op) /\ op \in [kind : Kinds, keys : Seq(Keys), suite : Suites \cup {""}, id : Ids \cup {""}]
    <2>1. IsOperation(op)
      BY RequestsAssumption
    <2> QED
      BY <2>1 DEF IsOperation
  <1>4. Len(op.keys) \in Nat
    <2>1. op.keys \in Seq(Keys)
      BY <1>3
    <2> QED
      BY <2>1
  <1>5. /\ at \in {"idle", "lock", "update", "prune", "describe", "list", "record", "read", "purge"}
        /\ at = "update" => op.kind \in {"upsert", "sync"} /\ 0 < Len(op.keys)
        /\ at = "prune" => op.kind = "sync" /\ 0 = Len(op.keys)
        /\ at \in {"describe", "list", "record", "read", "purge"} => at = op.kind
    <2>1. 0 \in Nat /\ 0 <= Len(op.keys) /\ (op.kind \notin {"upsert", "sync"} => 0 = 0)
      BY <1>4
    <2>2. /\ After(op, 0) \in {"idle", "update", "prune", "describe", "list", "record", "read", "purge"}
          /\ After(op, 0) = "update" => op.kind \in {"upsert", "sync"} /\ 0 < Len(op.keys)
          /\ After(op, 0) = "prune" => op.kind = "sync" /\ 0 = Len(op.keys)
          /\ After(op, 0) \in {"describe", "list", "record", "read", "purge"} => After(op, 0) = op.kind
      BY <1>3, <2>1, AfterFits
    <2> QED
      BY <2>2
  <1> HIDE DEF at
  <1>6. Fits(call'[c], old')
    <2> DEFINE r == [at |-> at, store |-> s, op |-> op, done |-> 0, seen |-> {}, results |-> 0,
                     answer |-> "none"]
    <2>1. call'[c] = r
      BY <1>2 DEF NoCall
    <2>2. r \in CallType
      BY <1>3, <1>5 DEF CallType, UnderLock, Transactions
    <2>3. Fits(r, old')
      BY <1>3, <1>4, <1>5, <2>2 DEF Fits, UnderLock
    <2> QED
      BY <2>1, <2>3
  <1> QED
    BY <1>2, <1>6, CallOKIsFitsNext

LEMMA StepTypes ==
    ASSUME CallsOK, NEW c \in Clients, Step(c)
    PROVE  StoreTypeOK'
  <1>1. /\ call \in [Clients -> CallType]
        /\ schema \subseteq {"tables", "version"} /\ ready \in [Stores -> BOOLEAN]
        /\ lock \in [Processes -> Clients \cup {Nobody}]
        /\ rows \subseteq Keys
        /\ headers \subseteq Ids /\ details \in [Ids -> Nat] /\ old \subseteq Ids /\ recorded \subseteq Ids
        /\ settled \in [Suites -> [state : {"open", "alone", "contested", "known"}, checks : SUBSET Keys]]
    BY DEF CallsOK, StoreTypeOK
  <1>2. Fits(call[c], old) /\ Frame(c) /\ Fits(call'[c], old') /\ old' = old
    BY StepFrame, StepCalls, CallOKIsFits, CallOKIsFitsNext DEF CallsOK
  <1>3. \E r : call' = [call EXCEPT ![c] = r]
    BY <1>1, ZenonT(30)
    DEF Step, Lock, Probe, Create, Stamp, InsertVersion, BootstrapFails, BadUrl, Update, Insert, Prune,
        Annotate, ListRows, Record, ReadHeader, ReadDetails, SelectStale, DeleteStale,
        TransactionFails, Usable, Goto, Return, Guard, Proceed
  <1>4. call' \in [Clients -> CallType]
    BY <1>1, <1>2, <1>3 DEF Fits
  <1>5. call[c].op \in [kind : Kinds, keys : Seq(Keys), suite : Suites \cup {""}, id : Ids \cup {""}]
        /\ call[c].done \in Nat /\ call[c].store \in Stores \cup {Nobody}
    BY <1>1 DEF CallType
  <1>6. schema' \subseteq {"tables", "version"} /\ ready' \in [Stores -> BOOLEAN]
    BY <1>1, <1>2
    DEF Step, Lock, Probe, Create, Stamp, InsertVersion, BootstrapFails, BadUrl, Update, Insert, Prune,
        Annotate, ListRows, Record, ReadHeader, ReadDetails, SelectStale, DeleteStale,
        TransactionFails, Usable, ddl
  <1>7. lock' \in [Processes -> Clients \cup {Nobody}]
    BY <1>1
    DEF Step, Lock, Probe, Create, Stamp, InsertVersion, BootstrapFails, BadUrl, Update, Insert, Prune,
        Annotate, ListRows, Record, ReadHeader, ReadDetails, SelectStale, DeleteStale,
        TransactionFails, Usable, Release, ddl
  <1> DEFINE keys == call[c].op.keys
             done == call[c].done
  <1>15. keys \in Seq(Keys) /\ done \in Nat
    BY <1>5
  <1>8. Insert(c) => Key(c) \in Keys
    <2>1. Insert(c) => done < Len(keys)
      BY <1>2 DEF Insert, Fits
    <2>2. \A n \in Nat, ks \in Seq(Keys) : n < Len(ks) => ks[n + 1] \in Keys
      OBVIOUS
    <2> QED
      BY <1>15, <2>1, <2>2 DEF Key
  <1>9. rows' \subseteq Keys
    BY <1>1, <1>8
    DEF Step, Lock, Probe, Create, Stamp, InsertVersion, BootstrapFails, BadUrl, Update, Insert, Prune,
        Annotate, ListRows, Record, ReadHeader, ReadDetails, SelectStale, DeleteStale,
        TransactionFails
  <1>11. Record(c) => Id(c) \in Ids
    BY <1>2 DEF Record, Id, Fits, IsOperation
  <1>12. headers' \subseteq Ids /\ details' \in [Ids -> Nat] /\ old' \subseteq Ids /\ recorded' \subseteq Ids
    BY <1>1, <1>11, SizeAssumption
    DEF Step, Lock, Probe, Create, Stamp, InsertVersion, BootstrapFails, BadUrl, Update, Insert, Prune,
        Annotate, ListRows, Record, ReadHeader, ReadDetails, SelectStale, DeleteStale,
        TransactionFails, history
  <1>13. Declared(c) \subseteq Keys
    <2>1. \A ks \in Seq(Keys) : \A i \in DOMAIN ks : ks[i] \in Keys
      OBVIOUS
    <2> QED
      BY <1>15, <2>1 DEF Declared
  <1>14. settled' \in [Suites -> [state : {"open", "alone", "contested", "known"}, checks : SUBSET Keys]]
    BY <1>1, <1>13
    DEF Step, Lock, Probe, Create, Stamp, InsertVersion, BootstrapFails, BadUrl, Update, Insert, Prune,
        Annotate, ListRows, Record, ReadHeader, ReadDetails, SelectStale, DeleteStale, TransactionFails
  <1> QED
    BY <1>4, <1>6, <1>7, <1>9, <1>12, <1>14 DEF StoreTypeOK

(* Every variable holds what its comment says, and a call is where its      *)
(* operation can take it.                                                   *)
LEMMA Typing == Spec => []CallsOK
  <1>1. Init => CallsOK
    <2>1. SUFFICES ASSUME Init PROVE CallsOK
      OBVIOUS
    <2>2. IsOperation(Purge) /\ Purge \in [kind : Kinds, keys : Seq(Keys), suite : Suites \cup {""}, id : Ids \cup {""}]
      <3>1. ASSUME NEW kind \in Kinds, NEW none \in Seq(Keys), NEW suite \in Suites \cup {""},
                   NEW id \in Ids \cup {""}
            PROVE  Operation(kind, none, suite, id)
                     \in [kind : Kinds, keys : Seq(Keys), suite : Suites \cup {""}, id : Ids \cup {""}]
        BY DEF Operation
      <3>2. "purge" \in Kinds /\ <<>> \in Seq(Keys) /\ "" \in Suites \cup {""} /\ "" \in Ids \cup {""}
        BY EmptySeq DEF Kinds
      <3>3. Purge = Operation("purge", <<>>, "", "")
        BY DEF Purge
      <3>4. Purge \in [kind : Kinds, keys : Seq(Keys), suite : Suites \cup {""}, id : Ids \cup {""}]
        BY Zenon, <3>1, <3>2, <3>3
      <3>5. Purge.kind = "purge"
        BY DEF Purge, Operation
      <3> QED
        BY <3>4, <3>5 DEF IsOperation
    <2>3. NoCall(Purge) \in CallType /\ NoCall(Purge).at = "idle" /\ NoCall(Purge).op = Purge
      BY <2>2 DEF NoCall, CallType
    <2>4. \A c \in Clients : CallOK(c)
      BY <2>1, <2>2, <2>3 DEF Init, CallOK, UnderLock
    <2> QED
      BY <2>1, <2>3, <2>4, EarlierAssumption, SizeAssumption DEF Init, CallsOK, StoreTypeOK
  <1>2. CallsOK /\ [Next]_vars => CallsOK'
    <2>1. SUFFICES ASSUME CallsOK, [Next]_vars PROVE CallsOK'
      OBVIOUS
    <2>2. ASSUME NEW d \in Clients, call'[d] = call[d], old \subseteq old' PROVE CallOK(d)'
      BY <2>1, <2>2 DEF CallsOK, CallOK
    <2>3. ASSUME NEW c \in Clients, NEW s \in Stores, NEW op \in Requests, Call(c, s, op) PROVE CallsOK'
      <3>1. \A d \in Clients : CallOK(d)'
        BY <2>1, <2>2, <2>3, CallFits DEF Call
      <3>2. op.kind = "record" => op.id \in Ids
        BY RequestsAssumption DEF IsOperation
      <3>3. call' \in [Clients -> CallType]
        BY <2>1, <2>3, <3>1 DEF Call, CallOK, CallsOK, StoreTypeOK
      <3> QED
        BY <2>1, <2>3, <3>1, <3>2, <3>3 DEF Call, CallsOK, StoreTypeOK, ddl
    <2>4. ASSUME NEW c \in Clients, Step(c) PROVE CallsOK'
      BY <2>1, <2>2, <2>4, StepCalls, StepTypes, StepFrame DEF CallsOK, Frame
    <2>5. ASSUME NEW s \in Stores, Close(s) PROVE CallsOK'
      BY <2>1, <2>2, <2>5 DEF Close, CallsOK, StoreTypeOK, history
    <2>6. ASSUME NEW i \in Ids, Age(i) PROVE CallsOK'
      BY <2>1, <2>2, <2>6 DEF Age, CallsOK, StoreTypeOK, ddl
    <2>7. CASE UNCHANGED vars
      BY <2>1, <2>2, <2>7 DEF vars, ddl, history, CallsOK, StoreTypeOK
    <2> QED
      BY <2>1, <2>3, <2>4, <2>5, <2>6, <2>7 DEF Next
  <1> QED
    BY <1>1, <1>2, PTL DEF Spec

(* The variables keep their types.                                          *)
THEOREM StoreTypes == Spec => []StoreTypeOK
  BY Typing, PTL DEF CallsOK

---------------------------------------------------------------------------
(* The lock of bootstrap() *)

(* A thread in the locked part of bootstrap() holds the lock of its process, *)
(* and who holds a lock is there.                                           *)
LockOK ==
    /\ \A c \in Clients : call[c].at \in UnderLock => lock[Process(c)] = c
    /\ \A p \in Processes : lock[p] # Nobody => call[lock[p]].at \in UnderLock /\ Process(lock[p]) = p

(* How a step can bear on the lock.                                         *)
Outside(c) == lock' = lock /\ call[c].at \notin UnderLock /\ call'[c].at \notin UnderLock
Inside(c)  == lock' = lock /\ call[c].at \in UnderLock /\ call'[c].at \in UnderLock
Enters(c)  == /\ lock[Process(c)] = Nobody /\ lock' = [lock EXCEPT ![Process(c)] = c]
              /\ call[c].at \notin UnderLock /\ call'[c].at \in UnderLock
Leaves(c)  == /\ lock' = [lock EXCEPT ![Process(c)] = Nobody]
              /\ call[c].at \in UnderLock /\ call'[c].at \notin UnderLock

LEMMA StepLocks ==
    ASSUME CallsOK, NEW c \in Clients, Step(c)
    PROVE  Outside(c) \/ Inside(c) \/ Enters(c) \/ Leaves(c)
  <1>1. call \in [Clients -> CallType] /\ Fits(call[c], old)
    BY CallOKIsFits DEF CallsOK, StoreTypeOK
  <1>2. call[c].at \in {"lock"} \cup UnderLock => After(call[c].op, 0) \notin UnderLock
    <2>1. IsOperation(call[c].op) /\ 0 \in Nat /\ Len(call[c].op.keys) \in Nat
      <3>1. IsOperation(call[c].op) /\ call[c].op.keys \in Seq(Keys)
        BY <1>1 DEF Fits, CallType
      <3> QED
        BY <3>1
    <2>2. 0 <= Len(call[c].op.keys)
      BY <2>1
    <2>3. After(call[c].op, 0) \in {"idle", "update", "prune", "describe", "list", "record", "read", "purge"}
      BY <2>1, <2>2, AfterFits
    <2> QED
      BY <2>3 DEF UnderLock
  <1>3. call[c].at \in {"update", "insert"} => After(call[c].op, call[c].done + 1) \notin UnderLock
    <2>1. SUFFICES ASSUME call[c].at \in {"update", "insert"}
                   PROVE  After(call[c].op, call[c].done + 1) \notin UnderLock
      OBVIOUS
    <2>2. IsOperation(call[c].op) /\ call[c].op.keys \in Seq(Keys) /\ call[c].done \in Nat
      BY <1>1 DEF Fits, CallType
    <2>3. /\ call[c].done + 1 \in Nat /\ call[c].done + 1 <= Len(call[c].op.keys)
          /\ call[c].op.kind \in {"upsert", "sync"}
      BY <1>1, <2>1, <2>2 DEF Fits
    <2>4. After(call[c].op, call[c].done + 1)
            \in {"idle", "update", "prune", "describe", "list", "record", "read", "purge"}
      BY <2>2, <2>3, AfterFits
    <2> QED
      BY <2>4 DEF UnderLock
  <1>goto. ASSUME NEW at, Goto(c, at) PROVE call'[c].at = at
    BY <1>1, <1>goto DEF Goto, CallType
  <1>return. ASSUME NEW answer, Return(c, answer) PROVE call'[c].at = "idle"
    BY <1>1, <1>return DEF Return, CallType
  <1>proceed. Proceed(c) => call'[c].at = After(call[c].op, call[c].done + 1)
    BY <1>1, ZenonT(30) DEF Proceed, CallType
  <1>free. call[c].at \in Transactions /\ lock' = lock /\ call'[c].at \notin UnderLock => Outside(c)
    BY DEF Outside, Transactions, UnderLock
  <1>4. CASE Lock(c)
    <2>1. CASE Goto(c, After(call[c].op, 0)) /\ UNCHANGED lock
      <3>1. call'[c].at = After(call[c].op, 0)
        BY <1>goto, <2>1
      <3> QED
        BY <1>2, <1>4, <2>1, <3>1 DEF Lock, Outside, UnderLock
    <2>2. CASE lock' = [lock EXCEPT ![Process(c)] = c] /\ Goto(c, "probe")
      BY <1>4, <1>goto, <2>2 DEF Lock, Enters, UnderLock
    <2> QED
      BY <1>4, <2>1, <2>2 DEF Lock
  <1>5. CASE Probe(c) \/ Create(c)
    <2>1. call'[c].at \in {"create", "stamp"}
      BY <1>5, <1>goto DEF Probe, Create
    <2> QED
      BY <1>5, <2>1 DEF Probe, Create, Inside, UnderLock, ddl
  <1>6. CASE Stamp(c) \/ InsertVersion(c)
    <2>1. CASE Usable(c)
      BY <1>2, <1>6, <1>goto, <2>1 DEF Stamp, InsertVersion, Usable, Release, Leaves, UnderLock
    <2>2. CASE Stamp(c) /\ Goto(c, "version") /\ UNCHANGED <<ready, lock>>
      BY <1>goto, <2>2 DEF Stamp, Inside, UnderLock
    <2> QED
      BY <1>6, <2>1, <2>2 DEF Stamp, InsertVersion
  <1>7. CASE BootstrapFails(c) \/ BadUrl(c)
    <2>1. call'[c].at = "idle" /\ Release(c)
      BY <1>7, <1>return DEF BootstrapFails, BadUrl, Guard
    <2>2. call[c].at \in UnderLock
      BY <1>7 DEF BootstrapFails, BadUrl, UnderLock
    <2> QED
      BY <2>1, <2>2 DEF Release, Leaves, UnderLock
  <1>8. CASE Update(c) \/ Insert(c)
    <2>1. call[c].at \in {"update", "insert"} /\ lock' = lock
      BY <1>8 DEF Update, Insert, ddl
    <2>2. call'[c].at \notin UnderLock
      BY <1>3, <1>8, <1>goto, <1>proceed, <2>1 DEF Update, Insert, UnderLock
    <2> QED
      BY <1>free, <2>1, <2>2 DEF Transactions
  <1>9. CASE Prune(c) \/ Annotate(c) \/ ListRows(c) \/ Record(c)
    <2>1. call[c].at \in Transactions /\ lock' = lock
      BY <1>9 DEF Prune, Annotate, ListRows, Record, Transactions, ddl
    <2>2. ListRows(c) => call'[c].at = "idle"
      BY <1>1, ZenonT(30) DEF ListRows, CallType
    <2>3. call'[c].at = "idle"
      BY <1>9, <1>return, <2>2 DEF Prune, Annotate, Record
    <2> QED
      BY <1>free, <2>1, <2>3 DEF UnderLock
  <1>10. CASE ReadHeader(c) \/ ReadDetails(c) \/ SelectStale(c) \/ DeleteStale(c)
    <2>1. call[c].at \in Transactions /\ lock' = lock
      BY <1>10 DEF ReadHeader, ReadDetails, SelectStale, DeleteStale, Transactions, ddl
    <2>2. ReadDetails(c) => call'[c].at = "idle"
      BY <1>1, ZenonT(30) DEF ReadDetails, CallType
    <2>3. SelectStale(c) => call'[c].at = "delete"
      <3>1. ASSUME NEW found, call' = [call EXCEPT ![c].at = "delete", ![c].seen = found]
            PROVE  call'[c].at = "delete"
        BY <1>1, <3>1 DEF CallType
      <3> QED
        BY <3>1 DEF SelectStale
    <2>4. call'[c].at \in {"idle", "details", "delete"}
      BY <1>10, <1>goto, <1>return, <2>2, <2>3 DEF ReadHeader, DeleteStale
    <2> QED
      BY <1>free, <2>1, <2>4 DEF UnderLock
  <1>11. CASE TransactionFails(c)
    <2>1. call[c].at \in Transactions /\ lock' = lock
      BY <1>11 DEF TransactionFails, Failing, Transactions, ddl
    <2>2. call'[c].at = "idle"
      <3>1. ASSUME NEW counted,
                   call' = [call EXCEPT ![c].at = "idle", ![c].seen = counted, ![c].answer = "ok"]
            PROVE  call'[c].at = "idle"
        BY <1>1, <3>1 DEF CallType
      <3>2. Guard(c) => call'[c].at = "idle"
        BY <1>return DEF Guard
      <3> QED
        BY <1>11, <1>return, <3>1, <3>2 DEF TransactionFails
    <2> QED
      BY <1>free, <2>1, <2>2 DEF UnderLock
  <1> QED
    BY <1>4, <1>5, <1>6, <1>7, <1>8, <1>9, <1>10, <1>11 DEF Step

LEMMA StepKeepsLock ==
    ASSUME CallsOK, LockOK, NEW c \in Clients, Step(c)
    PROVE  LockOK'
  <1>1. /\ lock \in [Processes -> Clients \cup {Nobody}]
        /\ call[c].at # "idle" => call[c].store \in Stores
        /\ \A d \in Clients : call[d].at # "idle" => call[d].store \in Stores
    BY DEF CallsOK, StoreTypeOK, CallOK
  <1>2. Frame(c)
    BY StepFrame DEF CallsOK
  <1>3. \A d \in Clients : Process(d)' = Process(d)
    BY <1>2 DEF Frame, Process
  <1>4. call[c].at # "idle"
    BY DEF Step, Lock, Probe, Create, Stamp, InsertVersion, BootstrapFails, BadUrl, Update, Insert, Prune,
        Annotate, ListRows, Record, ReadHeader, ReadDetails, SelectStale, DeleteStale,
        TransactionFails, Failing, UnderLock, Transactions
  <1>5. Process(c) \in Processes
    BY <1>1, <1>4 DEF Process, Processes
  <1>6. \A d \in Clients : d # c => call'[d] = call[d]
    BY <1>2 DEF Frame
  <1>7. CASE Outside(c) \/ Inside(c)
    BY <1>1, <1>3, <1>6, <1>7, NobodyAssumption DEF Outside, Inside, LockOK
  <1>8. CASE Enters(c)
    BY <1>1, <1>3, <1>5, <1>6, <1>8, NobodyAssumption DEF Enters, LockOK
  <1>9. CASE Leaves(c)
    <2>1. lock[Process(c)] = c
      BY <1>9 DEF Leaves, LockOK
    <2> QED
      BY <1>1, <1>3, <1>5, <1>6, <1>9, <2>1, NobodyAssumption DEF Leaves, LockOK
  <1> QED
    BY <1>7, <1>8, <1>9, StepLocks

(* A thread holds the lock of a process, and then its own, exactly while it *)
(* is inside bootstrap().                                                   *)
THEOREM BuildersExclude == Spec => []OneBuilder
  <1>1. Init => LockOK
    BY DEF Init, LockOK, NoCall, UnderLock
  <1>2. CallsOK /\ CallsOK' /\ LockOK /\ [Next]_vars => LockOK'
    <2>1. SUFFICES ASSUME CallsOK, CallsOK', LockOK, [Next]_vars PROVE LockOK'
      OBVIOUS
    <2>2. ASSUME NEW c \in Clients, NEW s \in Stores, NEW op \in Requests, Call(c, s, op) PROVE LockOK'
      <3>1. /\ lock' = lock /\ lock \in [Processes -> Clients \cup {Nobody}]
            /\ \A d \in Clients : d # c => call'[d] = call[d]
            /\ call[c].at = "idle"
        BY <2>1, <2>2, CallFits DEF Call, ddl, CallsOK, StoreTypeOK
      <3>2. call'[c].at \notin UnderLock
        <4>1. IsOperation(op) /\ 0 \in Nat /\ op.keys \in Seq(Keys)
          BY RequestsAssumption DEF IsOperation
        <4>2. 0 <= Len(op.keys)
          BY <4>1
        <4>3. After(op, 0) \in {"idle", "update", "prune", "describe", "list", "record", "read", "purge"}
          BY <4>1, <4>2, AfterFits
        <4> QED
          BY <2>1, <2>2, <4>3 DEF Call, NoCall, CallsOK, StoreTypeOK, UnderLock
      <3> QED
        BY <2>1, <3>1, <3>2, NobodyAssumption DEF LockOK, Process, UnderLock
    <2>3. ASSUME NEW c \in Clients, Step(c) PROVE LockOK'
      BY <2>1, <2>3, StepKeepsLock
    <2>4. CASE (\E s \in Stores : Close(s)) \/ (\E i \in Ids : Age(i)) \/ UNCHANGED vars
      BY <2>1, <2>4 DEF Close, Age, vars, ddl, LockOK, Process
    <2> QED
      BY <2>1, <2>2, <2>3, <2>4 DEF Next
  <1>3. CallsOK /\ LockOK => OneBuilder
    BY NobodyAssumption DEF CallsOK, CallOK, LockOK, OneBuilder, Process, Processes, UnderLock
  <1> QED
    BY <1>1, <1>2, <1>3, Typing, PTL DEF Spec

---------------------------------------------------------------------------
(* The registry of checks *)

Mirrored(c) == {call[c].op.keys[i] : i \in 1 .. call[c].done}

(* While nobody mirrors a suite that a sync has mirrored alone, its rows are *)
(* the declared ones; the rows a sync has been through while it was alone   *)
(* are still there.                                                         *)
RegistryOK(s) ==
    /\ settled[s].state = "known" =>
         rows \cap ChecksOf(s) = settled[s].checks /\ Syncing(s) = {}
    /\ settled[s].state = "alone" =>
         \A c \in Syncing(s) : Mirrored(c) \subseteq rows /\ \A d \in Syncing(s) : d = c

LEMMA KeysApart ==
    /\ \A s, t \in Suites : s # t => ChecksOf(s) \cap ChecksOf(t) = {}
    /\ \A s \in Suites : ChecksOf(s) \subseteq AllChecks
  <1>1. \A s \in Suites : ChecksOf(s) \subseteq AllChecks
    BY DEF AllChecks
  <1>2. \A s, t \in Suites : s # t => ChecksOf(s) \cap ChecksOf(t) = {}
    <2>1. \A s, t, n, m : CheckKey(s, n) = CheckKey(t, m) => s = t
      BY DEF CheckKey
    <2> QED
      BY <2>1 DEF ChecksOf
  <1> QED
    BY <1>1, <1>2

(* A sync has been through checks of its suite only.                        *)
LEMMA MirroredAreChecks ==
    ASSUME CallsOK, NEW s \in Suites, NEW d \in Syncing(s)
    PROVE  Mirrored(d) \subseteq ChecksOf(s)
  <1>1. /\ d \in Clients /\ Fits(call[d], old) /\ call[d].op.suite = s /\ call[d].op.kind = "sync"
        /\ call[d].at # "idle"
    BY CallOKIsFits DEF Syncing, CallsOK
  <1>2. PICK q : q = call[d]
    OBVIOUS
  <1>3. q.op.keys \in Seq(Keys) /\ q.done \in Nat /\ q.at \in {"idle", "lock"} \cup UnderLock \cup Transactions
    BY <1>1, <1>2 DEF Fits, CallType
  <1>4. \A i \in DOMAIN q.op.keys : q.op.keys[i] \in ChecksOf(s)
    BY <1>1, <1>2 DEF Fits, IsOperation
  <1>5. q.done <= Len(q.op.keys)
    <2>1. Len(q.op.keys) \in Nat
      BY <1>3
    <2>2. q.done = 0 \/ q.done < Len(q.op.keys) \/ q.done = Len(q.op.keys)
      BY <1>1, <1>2, <1>3 DEF Fits, UnderLock, Transactions
    <2> QED
      BY <1>3, <2>1, <2>2
  <1>6. 1 .. q.done \subseteq DOMAIN q.op.keys
    BY <1>3, <1>5
  <1> QED
    BY <1>2, <1>4, <1>6 DEF Mirrored

(* What a step changes of the rows and of what is known of the suites.      *)
LEMMA StepRows ==
    ASSUME CallsOK, NEW c \in Clients, Step(c)
    PROVE  /\ call[c].at # "idle"
           /\ ~Prune(c) => settled' = settled
           /\ \/ rows' = rows
              \/ Prune(c)
              \/ Insert(c)
           /\ call'[c].done = call[c].done
                \/ (call'[c].done = call[c].done + 1 /\ Key(c) \in rows' /\ (Update(c) \/ Insert(c)))
  <1>1. call \in [Clients -> CallType] /\ Fits(call[c], old)
    BY CallOKIsFits DEF CallsOK, StoreTypeOK
  <1>2. call[c].at # "idle"
    BY DEF Step, Lock, Probe, Create, Stamp, InsertVersion, BootstrapFails, BadUrl, Update, Insert, Prune,
        Annotate, ListRows, Record, ReadHeader, ReadDetails, SelectStale, DeleteStale,
        TransactionFails, Failing, UnderLock, Transactions
  <1>3. ~Prune(c) => settled' = settled
    BY DEF Step, Lock, Probe, Create, Stamp, InsertVersion, BootstrapFails, BadUrl, Update, Insert,
        Annotate, ListRows, Record, ReadHeader, ReadDetails, SelectStale, DeleteStale, TransactionFails
  <1>5. rows' = rows \/ Prune(c) \/ Insert(c)
    BY DEF Step, Lock, Probe, Create, Stamp, InsertVersion, BootstrapFails, BadUrl, Update,
        Annotate, ListRows, Record, ReadHeader, ReadDetails, SelectStale, DeleteStale,
        TransactionFails
  <1>6. CASE ~(Update(c) \/ Insert(c))
    <2>1. ASSUME NEW at, Goto(c, at) PROVE call'[c].done = call[c].done
      BY <1>1, <2>1 DEF Goto, CallType
    <2>2. ASSUME NEW answer, Return(c, answer) PROVE call'[c].done = call[c].done
      BY <1>1, <2>2 DEF Return, CallType
    <2>3. ASSUME NEW x, NEW y, call' = [call EXCEPT ![c].at = "idle", ![c].seen = x, ![c].answer = y]
          PROVE  call'[c].done = call[c].done
      BY <1>1, <2>3, ZenonT(30) DEF CallType
    <2>4. ASSUME NEW x, NEW y, call' = [call EXCEPT ![c].at = "idle", ![c].results = x, ![c].answer = y]
          PROVE  call'[c].done = call[c].done
      BY <1>1, <2>4, ZenonT(30) DEF CallType
    <2>5. ASSUME NEW x, call' = [call EXCEPT ![c].at = "delete", ![c].seen = x]
          PROVE  call'[c].done = call[c].done
      BY <1>1, <2>5 DEF CallType
    <2>6. call'[c].done = call[c].done
      <3>1. CASE ListRows(c)
        BY <2>3, <3>1 DEF ListRows
      <3>2. CASE ReadDetails(c)
        BY <2>4, <3>2 DEF ReadDetails
      <3>3. CASE SelectStale(c)
        BY <2>5, <3>3 DEF SelectStale
      <3>4. CASE TransactionFails(c)
        <4>1. CASE \E counted : call' = [call EXCEPT ![c].at = "idle", ![c].seen = counted, ![c].answer = "ok"]
          BY <2>3, <4>1
        <4> QED
          BY <2>2, <3>4, <4>1 DEF TransactionFails, Guard
      <3>5. CASE Lock(c) \/ Probe(c) \/ Create(c) \/ Stamp(c) \/ InsertVersion(c) \/ ReadHeader(c)
        BY <2>1, <2>2, <3>5 DEF Lock, Probe, Create, Stamp, InsertVersion, Usable, ReadHeader
      <3>6. CASE BootstrapFails(c) \/ BadUrl(c) \/ Prune(c) \/ Annotate(c) \/ Record(c) \/ DeleteStale(c)
        BY <2>2, <3>6 DEF BootstrapFails, BadUrl, Guard, Prune, Annotate, Record, DeleteStale
      <3> QED
        BY <1>6, <3>1, <3>2, <3>3, <3>4, <3>5, <3>6 DEF Step
    <2> QED
      BY <1>2, <1>3, <1>5, <2>6
  <1>7. CASE Update(c) \/ Insert(c)
    <2>1. Proceed(c) => call'[c].done = call[c].done + 1
      BY <1>1, ZenonT(30) DEF Proceed, CallType
    <2>2. Goto(c, "insert") => call'[c].done = call[c].done
      BY <1>1 DEF Goto, CallType
    <2>3. Insert(c) => Proceed(c) /\ Key(c) \in rows'
      BY DEF Insert
    <2>4. Update(c) => (Proceed(c) /\ Key(c) \in rows') \/ Goto(c, "insert")
      BY DEF Update
    <2> QED
      BY <1>2, <1>3, <1>5, <1>7, <2>1, <2>2, <2>3, <2>4
  <1> QED
    BY <1>6, <1>7

LEMMA StepKeepsRegistry ==
    ASSUME CallsOK, NEW c \in Clients, Step(c), NEW s \in Suites, RegistryOK(s)
    PROVE  RegistryOK(s)'
  <1>1. /\ call \in [Clients -> CallType] /\ Fits(call[c], old)
        /\ settled \in [Suites -> [state : {"open", "alone", "contested", "known"}, checks : SUBSET Keys]]
    BY CallOKIsFits DEF CallsOK, StoreTypeOK
  <1>2. Frame(c)
    BY StepFrame DEF CallsOK
  <1>3. call[c].op.keys \in Seq(Keys) /\ call[c].done \in Nat
    BY <1>1 DEF Fits, CallType
  <1>4. Syncing(s)' \subseteq Syncing(s)
    BY <1>2, StepRows DEF Frame, Syncing
  <1>5. \A d \in Clients : d # c => Mirrored(d)' = Mirrored(d)
    BY <1>2 DEF Frame, Mirrored
  <1>6. c \in Syncing(s) /\ ~Prune(c) /\ Mirrored(c) \subseteq rows => Mirrored(c)' \subseteq rows'
    <2>1. SUFFICES ASSUME c \in Syncing(s), ~Prune(c), Mirrored(c) \subseteq rows
                   PROVE  Mirrored(c)' \subseteq rows'
      OBVIOUS
    <2>2. rows \subseteq rows'
      BY <2>1, StepRows DEF Syncing, Insert
    <2>3. CASE call'[c].done = call[c].done
      <3>1. Mirrored(c)' = Mirrored(c)
        BY <1>2, <2>3 DEF Frame, Mirrored
      <3> QED
        BY <2>1, <2>2, <3>1
    <2>4. CASE call'[c].done = call[c].done + 1 /\ Key(c) \in rows'
      <3>1. 1 .. (call[c].done + 1) = (1 .. call[c].done) \cup {call[c].done + 1}
        BY <1>3
      <3>2. Mirrored(c)' = Mirrored(c) \cup {Key(c)}
        BY <1>2, <2>4, <3>1 DEF Frame, Mirrored, Key
      <3> QED
        BY <2>1, <2>2, <2>4, <3>2
    <2> QED
      BY <2>3, <2>4, StepRows
  <1>7. CASE Prune(c)
    <2> DEFINE t == call[c].op.suite
    <2>1. /\ t \in Suites /\ call[c].op.kind = "sync" /\ c \in Syncing(t) /\ call'[c].at = "idle"
          /\ call[c].done = Len(call[c].op.keys)
      BY <1>1, <1>7 DEF Prune, Fits, IsOperation, Syncing, Return, CallType
    <2>2. DOMAIN call[c].op.keys = 1 .. call[c].done
      BY <1>3, <2>1
    <2>3. Declared(c) = Mirrored(c) /\ Declared(c) \subseteq ChecksOf(t)
      <3>1. \A i \in DOMAIN call[c].op.keys : call[c].op.keys[i] \in ChecksOf(t)
        BY <1>1, <2>1 DEF Fits, IsOperation
      <3> QED
        BY <2>2, <3>1 DEF Declared, Mirrored
    <2>4. rows' = rows \ (ChecksOf(t) \ Declared(c))
      BY <1>7 DEF Prune
    <2>5. CASE t # s
      <3>1. settled'[s] = settled[s] /\ rows' \cap ChecksOf(s) = rows \cap ChecksOf(s)
        BY <1>1, <1>7, <2>1, <2>4, <2>5, KeysApart DEF Prune
      <3>2. c \notin Syncing(s)
        BY <2>5 DEF Syncing
      <3>3. \A d \in Syncing(s) : Mirrored(d) \subseteq ChecksOf(s)
        BY MirroredAreChecks
      <3>4. \A d \in Syncing(s) : Mirrored(d) \subseteq rows => Mirrored(d)' \subseteq rows'
        BY <1>5, <3>1, <3>2, <3>3 DEF Syncing
      <3> QED
        BY <1>4, <3>1, <3>4 DEF RegistryOK
    <2>6. CASE t = s /\ settled[s].state = "alone"
      <3>1. Mirrored(c) \subseteq rows /\ \A d \in Syncing(s) : d = c
        BY <2>1, <2>6 DEF RegistryOK
      <3>2. settled'[s] = [state |-> "known", checks |-> Declared(c)]
        BY <1>1, <1>7, <2>6 DEF Prune
      <3>3. rows' \cap ChecksOf(s) = Declared(c)
        BY <2>3, <2>4, <2>6, <3>1
      <3>4. Syncing(s)' = {}
        BY <1>4, <2>1, <3>1 DEF Syncing
      <3> QED
        BY <3>2, <3>3, <3>4 DEF RegistryOK
    <2>7. CASE t = s /\ settled[s].state # "alone"
      <3>1. settled'[s] = settled[s]
        BY <1>1, <1>7, <2>7 DEF Prune
      <3>2. settled[s].state # "known"
        BY <2>1, <2>7 DEF RegistryOK
      <3> QED
        BY <2>7, <3>1, <3>2 DEF RegistryOK
    <2> QED
      BY <2>5, <2>6, <2>7
  <1>8. CASE ~Prune(c)
    <2>1. settled' = settled
      BY <1>8, StepRows
    <2>2. settled[s].state = "known" => rows' \cap ChecksOf(s) = rows \cap ChecksOf(s)
      <3>1. SUFFICES ASSUME settled[s].state = "known" PROVE rows' \cap ChecksOf(s) = rows \cap ChecksOf(s)
        OBVIOUS
      <3>2. CASE Insert(c)
        <4>1. call[c].op.kind \in {"upsert", "sync"} /\ call[c].done < Len(call[c].op.keys)
          BY <1>1, <3>2 DEF Insert, Fits
        <4>2. call[c].done + 1 \in DOMAIN call[c].op.keys
          BY <1>3, <4>1
        <4>3. CASE call[c].op.kind = "upsert"
          <5>1. Key(c) \notin AllChecks
            BY <1>1, <4>2, <4>3 DEF Key, Fits, IsOperation
          <5> QED
            BY <3>2, <5>1, KeysApart DEF Insert
        <4>4. CASE call[c].op.kind = "sync"
          <5>1. call[c].op.suite \in Suites /\ Key(c) \in ChecksOf(call[c].op.suite)
            BY <1>1, <4>2, <4>4 DEF Key, Fits, IsOperation
          <5>2. call[c].op.suite # s
            BY <3>1, <3>2, <4>4 DEF RegistryOK, Syncing, Insert
          <5> QED
            BY <3>2, <5>1, <5>2, KeysApart DEF Insert
        <4> QED
          BY <4>1, <4>3, <4>4
      <3> QED
        BY <1>8, <3>2, StepRows
    <2>3. settled[s].state = "alone" => \A d \in Syncing(s)' : Mirrored(d)' \subseteq rows'
      <3>1. SUFFICES ASSUME settled[s].state = "alone", NEW d \in Syncing(s)'
                     PROVE  Mirrored(d)' \subseteq rows'
        OBVIOUS
      <3>2. d \in Syncing(s) /\ Mirrored(d) \subseteq rows /\ \A e \in Syncing(s) : e = d
        BY <1>4, <3>1 DEF RegistryOK
      <3>3. CASE d = c
        BY <1>6, <1>8, <3>2, <3>3
      <3>4. CASE d # c
        <4>1. Mirrored(d)' = Mirrored(d)
          BY <1>5, <3>2, <3>4 DEF Syncing
        <4>2. CASE rows \subseteq rows'
          BY <3>2, <4>1, <4>2
        <4> QED
          BY <1>8, <4>2, StepRows DEF Insert
      <3> QED
        BY <3>3, <3>4
    <2> QED
      BY <1>4, <2>1, <2>2, <2>3 DEF RegistryOK
  <1> QED
    BY <1>7, <1>8

(* A sync that met no other sync of its suite leaves the registry with what *)
(* it declared, for as long as no other sync of the suite begins.           *)
THEOREM RegistryReflects == Spec => []RegistrySettles
  <1> DEFINE Inv == \A s \in Suites : RegistryOK(s)
  <1>1. Init => Inv
    BY DEF Init, RegistryOK
  <1>2. CallsOK /\ Inv /\ [Next]_vars => Inv'
    <2>1. SUFFICES ASSUME CallsOK, [Next]_vars, NEW s \in Suites, RegistryOK(s) PROVE RegistryOK(s)'
      OBVIOUS
    <2>2. ASSUME NEW c \in Clients, NEW m \in Stores, NEW op \in Requests, Call(c, m, op) PROVE RegistryOK(s)'
      <3>1. /\ \A d \in Clients : d # c => call'[d] = call[d]
            /\ rows' = rows /\ call[c].at = "idle" /\ CallOK(c)'
        BY <2>1, <2>2, CallFits DEF Call
      <3>2. call'[c].op = op /\ call'[c].done = 0
        BY <2>1, <2>2 DEF Call, NoCall, CallsOK, StoreTypeOK
      <3>3. \A d \in Clients : d # c => Mirrored(d)' = Mirrored(d)
        BY <3>1 DEF Mirrored
      <3>4. Mirrored(c)' = {}
        BY <3>2 DEF Mirrored
      <3>5. CASE op.kind = "sync" /\ op.suite = s
        <4>1. settled'[s] = [state |-> IF Syncing(s) = {} THEN "alone" ELSE "contested", checks |-> {}]
          BY <2>2, <3>5 DEF Call
        <4>2. Syncing(s)' \subseteq Syncing(s) \cup {c}
          BY <3>1 DEF Syncing
        <4> QED
          BY <3>4, <4>1, <4>2 DEF RegistryOK
      <3>6. CASE ~(op.kind = "sync" /\ op.suite = s)
        <4>1. settled'[s] = settled[s]
          BY <2>2, <3>6 DEF Call
        <4>2. Syncing(s)' = Syncing(s) /\ c \notin Syncing(s)
          BY <3>1, <3>2, <3>6 DEF Syncing
        <4> QED
          BY <2>1, <3>1, <3>3, <4>1, <4>2 DEF RegistryOK, Syncing
      <3> QED
        BY <3>5, <3>6
    <2>3. ASSUME NEW c \in Clients, Step(c) PROVE RegistryOK(s)'
      BY <2>1, <2>3, StepKeepsRegistry
    <2>4. CASE (\E m \in Stores : Close(m)) \/ (\E i \in Ids : Age(i)) \/ UNCHANGED vars
      BY <2>1, <2>4 DEF Close, Age, vars, RegistryOK, Syncing, Mirrored
    <2> QED
      BY <2>1, <2>2, <2>3, <2>4 DEF Next
  <1>3. Inv => RegistrySettles
    BY DEF RegistryOK, RegistrySettles
  <1> QED
    BY <1>1, <1>2, <1>3, Typing, PTL DEF Spec

---------------------------------------------------------------------------
(* Runs and profiles *)

Recorder(c) == call[c].at # "idle" /\ call[c].op.kind = "record"

(* An entry has all its details or none; the client that records one is the *)
(* only one that does, and it is not there yet; a reader that has seen the  *)
(* entry finds it again, unless it may be purged.                           *)
HistoryOK ==
    /\ headers \cup old \subseteq recorded
    /\ \A i \in Ids : details[i] = IF i \in headers THEN Size[i] ELSE 0
    /\ \A c \in Clients : Recorder(c) => Id(c) \in recorded \ (headers \cup old)
    /\ \A c, d \in Clients : Recorder(c) /\ Recorder(d) /\ Id(c) = Id(d) => c = d
    /\ \A c \in Clients : call[c].at = "details" => Id(c) \in headers \cup old
    /\ \A c \in Clients : call[c].at # "idle" => call[c].results = 0

(* What a step does to the history.                                         *)
LEMMA StepHistory ==
    ASSUME CallsOK, NEW c \in Clients, Step(c)
    PROVE  /\ recorded' = recorded /\ old' = old
           /\ Record(c) \/ DeleteStale(c) \/ (headers' = headers /\ details' = details)
           /\ Record(c) => Recorder(c) /\ call'[c].at = "idle"
           /\ DeleteStale(c) => call[c].op.kind = "purge" /\ call[c].seen \subseteq old
           /\ Id(c)' = Id(c) /\ (Recorder(c)' => Recorder(c))
           /\ call'[c].at = "details" => ReadHeader(c) /\ Id(c) \in headers
           /\ call'[c].at # "idle" => call'[c].results = call[c].results
  <1>1. call \in [Clients -> CallType] /\ Fits(call[c], old)
    BY CallOKIsFits DEF CallsOK, StoreTypeOK
  <1>2. recorded' = recorded /\ old' = old
    BY DEF Step, Lock, Probe, Create, Stamp, InsertVersion, BootstrapFails, BadUrl, Update, Insert, Prune,
        Annotate, ListRows, Record, ReadHeader, ReadDetails, SelectStale, DeleteStale,
        TransactionFails, history
  <1>3. Record(c) \/ DeleteStale(c) \/ (headers' = headers /\ details' = details)
    BY DEF Step, Lock, Probe, Create, Stamp, InsertVersion, BootstrapFails, BadUrl, Update, Insert, Prune,
        Annotate, ListRows, ReadHeader, ReadDetails, SelectStale, TransactionFails, history
  <1>4. Record(c) => Recorder(c) /\ call'[c].at = "idle"
    BY <1>1, ZenonT(30) DEF Record, Fits, Recorder, Return, CallType
  <1>5. DeleteStale(c) => call[c].op.kind = "purge" /\ call[c].seen \subseteq old
    BY <1>1 DEF DeleteStale, Fits
  <1>6. Id(c)' = Id(c) /\ (Recorder(c)' => Recorder(c))
    BY StepFrame, StepRows DEF Frame, Id, Recorder, CallsOK
  <1>goto. ASSUME NEW at, Goto(c, at)
           PROVE  call'[c].at = at /\ call'[c].results = call[c].results
    BY <1>1, <1>goto DEF Goto, CallType
  <1>return. ASSUME NEW answer, Return(c, answer) PROVE call'[c].at = "idle"
    BY <1>1, <1>return DEF Return, CallType
  <1>7. ASSUME call[c].at \in {"lock"} \cup UnderLock \cup {"update", "insert"}
        PROVE  After(call[c].op, call[c].done) # "details" /\ After(call[c].op, call[c].done + 1) # "details"
               /\ After(call[c].op, 0) # "details"
    <2>1. call[c].op.kind # "details"
      BY <1>1 DEF Fits, CallType, Kinds
    <2> QED
      BY <2>1 DEF After
  <1>8. /\ call'[c].at = "details" => ReadHeader(c) /\ Id(c) \in headers
        /\ call'[c].at # "idle" => call'[c].results = call[c].results
    <2>1. CASE Lock(c) \/ Probe(c) \/ Create(c) \/ Stamp(c) \/ InsertVersion(c)
      BY <1>7, <1>goto, <2>1 DEF Lock, Probe, Create, Stamp, InsertVersion, Usable, UnderLock
    <2>2. CASE BootstrapFails(c) \/ BadUrl(c) \/ Prune(c) \/ Annotate(c) \/ Record(c) \/ DeleteStale(c)
      BY <1>return, <2>2 DEF BootstrapFails, BadUrl, Guard, Prune, Annotate, Record, DeleteStale
    <2>3. CASE Update(c) \/ Insert(c)
      <3>1. Proceed(c) => call'[c].at = After(call[c].op, call[c].done + 1)
        BY <1>1, ZenonT(30) DEF Proceed, CallType
      <3>2. Proceed(c) => call'[c].results = call[c].results
        BY <1>1, ZenonT(30) DEF Proceed, CallType
      <3> QED
        BY <1>7, <1>goto, <2>3, <3>1, <3>2 DEF Update, Insert
    <2>4. CASE ReadHeader(c)
      BY <1>goto, <1>return, <2>4 DEF ReadHeader
    <2>5. CASE ListRows(c)
      <3>1. call'[c].at = "idle"
        BY <1>1, <2>5 DEF ListRows, CallType
      <3> QED
        BY <3>1
    <2>6. CASE ReadDetails(c)
      <3>1. call'[c].at = "idle"
        BY <1>1, <2>6 DEF ReadDetails, CallType
      <3> QED
        BY <3>1
    <2>7. CASE SelectStale(c)
      <3>1. ASSUME NEW found, call' = [call EXCEPT ![c].at = "delete", ![c].seen = found]
            PROVE  call'[c].at = "delete" /\ call'[c].results = call[c].results
        BY <1>1, <3>1 DEF CallType
      <3> QED
        BY <2>7, <3>1 DEF SelectStale
    <2>8. CASE TransactionFails(c)
      <3>1. ASSUME NEW counted, call' = [call EXCEPT ![c].at = "idle", ![c].seen = counted, ![c].answer = "ok"]
            PROVE  call'[c].at = "idle"
        BY <1>1, <3>1 DEF CallType
      <3> QED
        BY <1>return, <2>8, <3>1 DEF TransactionFails, Guard
    <2> QED
      BY <2>1, <2>2, <2>3, <2>4, <2>5, <2>6, <2>7, <2>8 DEF Step
  <1> QED
    BY <1>2, <1>3, <1>4, <1>5, <1>6, <1>8

(* What a new call does to the history.                                     *)
LEMMA CallHistory ==
    ASSUME CallsOK, NEW c \in Clients, NEW s \in Stores, NEW op \in Requests, Call(c, s, op)
    PROVE  /\ headers' = headers /\ details' = details /\ old' = old
           /\ \A d \in Clients : d # c => call'[d] = call[d]
           /\ call[c].at = "idle" /\ call'[c].op = op /\ call'[c].results = 0 /\ call'[c].at # "details"
           /\ call'[c].at = "idle" => op.kind = "upsert"
           /\ recorded' = IF op.kind = "record" THEN recorded \cup {op.id} ELSE recorded
           /\ op.kind = "record" => op.id \in Ids \ recorded
  <1>1. IsOperation(op) /\ 0 \in Nat /\ op.keys \in Seq(Keys)
    BY RequestsAssumption DEF IsOperation
  <1>2. 0 <= Len(op.keys)
    BY <1>1
  <1>3. /\ After(op, 0) \in {"idle", "update", "prune", "describe", "list", "record", "read", "purge"}
        /\ After(op, 0) = "idle" => op.kind = "upsert"
    BY <1>1, <1>2, AfterFits
  <1>4. /\ call'[c].op = op /\ call'[c].results = 0
        /\ call'[c].at = IF ready[s] THEN After(op, 0) ELSE "lock"
    BY DEF Call, NoCall, CallsOK, StoreTypeOK
  <1>5. \A d \in Clients : d # c => call'[d] = call[d]
    BY CallFits
  <1>6. op.kind = "record" => op.id \in Ids \ recorded
    BY <1>1 DEF IsOperation, Call
  <1> QED
    BY <1>3, <1>4, <1>5, <1>6 DEF Call

LEMMA StepKeepsHistory ==
    ASSUME CallsOK, HistoryOK, NEW c \in Clients, Step(c)
    PROVE  HistoryOK'
  <1>1. \A d \in Clients : d # c => call'[d] = call[d]
    BY StepFrame DEF Frame, CallsOK
  <1>2. /\ recorded' = recorded /\ old' = old
        /\ Record(c) \/ DeleteStale(c) \/ (headers' = headers /\ details' = details)
        /\ Record(c) => Recorder(c) /\ call'[c].at = "idle"
        /\ DeleteStale(c) => call[c].op.kind = "purge" /\ call[c].seen \subseteq old
        /\ Id(c)' = Id(c) /\ (Recorder(c)' => Recorder(c))
        /\ call'[c].at = "details" => ReadHeader(c) /\ Id(c) \in headers
        /\ call'[c].at # "idle" => call'[c].results = call[c].results
    BY StepHistory
  <1>3. \A d \in Clients : Id(d)' = Id(d) /\ (Recorder(d)' => Recorder(d))
    BY <1>1, <1>2 DEF Id, Recorder
  <1>4. Record(c) => Recorder(c) /\ Id(c) \in Ids /\ ~Recorder(c)' /\ call'[c].at = "idle"
    BY <1>2 DEF Recorder, Record, Id, CallsOK, CallOK, IsOperation
  <1>5. /\ Record(c) => headers' = headers \cup {Id(c)} /\ details' = [details EXCEPT ![Id(c)] = Size[Id(c)]]
        /\ DeleteStale(c) => /\ headers' = headers \ call[c].seen
                             /\ details' = [i \in Ids |-> IF i \in call[c].seen THEN 0 ELSE details[i]]
    BY DEF Record, DeleteStale
  <1>6. details \in [Ids -> Nat]
    BY DEF CallsOK, StoreTypeOK
  <1>7. headers' \cup old' \subseteq recorded'
    BY <1>2, <1>4, <1>5 DEF HistoryOK
  <1>8. \A i \in Ids : details'[i] = IF i \in headers' THEN Size[i] ELSE 0
    BY <1>2, <1>4, <1>5, <1>6 DEF HistoryOK
  <1>9. \A d \in Clients : Recorder(d)' => Id(d)' \in recorded' \ (headers' \cup old')
    BY <1>2, <1>3, <1>4, <1>5 DEF HistoryOK
  <1>10. \A d, e \in Clients : Recorder(d)' /\ Recorder(e)' /\ Id(d)' = Id(e)' => d = e
    BY <1>3 DEF HistoryOK
  <1>11. \A d \in Clients : call'[d].at = "details" => Id(d)' \in headers' \cup old'
    <2>1. headers \cup old \subseteq headers' \cup old'
      BY <1>2, <1>5
    <2> QED
      BY <1>1, <1>2, <1>3, <2>1 DEF HistoryOK
  <1>12. call[c].at # "idle"
    BY StepRows
  <1>13. \A d \in Clients : call'[d].at # "idle" => call'[d].results = 0
    BY <1>1, <1>2, <1>12 DEF HistoryOK
  <1> QED
    BY <1>7, <1>8, <1>9, <1>10, <1>11, <1>13 DEF HistoryOK

LEMMA CallKeepsHistory ==
    ASSUME CallsOK, HistoryOK, NEW c \in Clients, NEW s \in Stores, NEW op \in Requests, Call(c, s, op)
    PROVE  HistoryOK'
  <1>1. /\ headers' = headers /\ details' = details /\ old' = old
        /\ \A d \in Clients : d # c => call'[d] = call[d]
        /\ call[c].at = "idle" /\ call'[c].op = op /\ call'[c].results = 0 /\ call'[c].at # "details"
        /\ recorded' = IF op.kind = "record" THEN recorded \cup {op.id} ELSE recorded
        /\ op.kind = "record" => op.id \in Ids \ recorded
    BY CallHistory
  <1>2. \A d \in Clients : d # c => Id(d)' = Id(d) /\ Recorder(d)' = Recorder(d)
    BY <1>1 DEF Id, Recorder
  <1>3. Recorder(c)' => op.kind = "record" /\ Id(c)' = op.id
    BY <1>1 DEF Id, Recorder
  <1>4. \A d \in Clients : Recorder(d)' => Id(d)' \in recorded' \ (headers' \cup old')
    BY <1>1, <1>2, <1>3 DEF HistoryOK
  <1>5. \A d, e \in Clients : Recorder(d)' /\ Recorder(e)' /\ Id(d)' = Id(e)' => d = e
    BY <1>1, <1>2, <1>3 DEF HistoryOK
  <1>6. \A d \in Clients : call'[d].at = "details" => Id(d)' \in headers' \cup old'
    BY <1>1, <1>2 DEF HistoryOK
  <1>7. \A d \in Clients : call'[d].at # "idle" => call'[d].results = 0
    BY <1>1 DEF HistoryOK
  <1>8. headers' \cup old' \subseteq recorded' /\ \A i \in Ids : details'[i] = IF i \in headers' THEN Size[i] ELSE 0
    BY <1>1 DEF HistoryOK
  <1> QED
    BY <1>4, <1>5, <1>6, <1>7, <1>8 DEF HistoryOK

LEMMA HistoryInvariant == Spec => []HistoryOK
  <1>1. Init => HistoryOK
    BY EarlierAssumption DEF Init, HistoryOK, Recorder, NoCall
  <1>2. CallsOK /\ HistoryOK /\ [Next]_vars => HistoryOK'
    <2>1. SUFFICES ASSUME CallsOK, HistoryOK, [Next]_vars PROVE HistoryOK'
      OBVIOUS
    <2>2. CASE (\E s \in Stores : Close(s)) \/ UNCHANGED vars
      BY <2>1, <2>2 DEF Close, vars, history, HistoryOK, Recorder, Id
    <2>3. ASSUME NEW i \in Ids, Age(i) PROVE HistoryOK'
      BY <2>1, <2>3 DEF Age, HistoryOK, Recorder, Id
    <2> QED
      BY <2>1, <2>2, <2>3, CallKeepsHistory, StepKeepsHistory DEF Next
  <1> QED
    BY <1>1, <1>2, Typing, PTL DEF Spec

(* What is recorded is not an entry of the past.                            *)
LEMMA RecordsFresh == ASSUME CallsOK, HistoryOK, NEW c \in Clients, Record(c) PROVE Id(c) \notin old
  BY StepHistory DEF HistoryOK, Step

(* A read that answers has found the entry with all its details, or one     *)
(* that a purge was allowed to delete, or its second query has failed.      *)
THEOREM ReadsAreWhole == Spec => []ReadsWhole
  <1>1. Init => ReadsWhole
    BY DEF Init, ReadsWhole, NoCall
  <1>2. CallsOK /\ HistoryOK /\ ReadsWhole /\ [Next]_vars => ReadsWhole'
    <2>1. SUFFICES ASSUME CallsOK, HistoryOK, ReadsWhole, [Next]_vars PROVE ReadsWhole'
      OBVIOUS
    <2>2. ASSUME NEW c \in Clients, NEW s \in Stores, NEW op \in Requests, Call(c, s, op) PROVE ReadsWhole'
      <3>1. /\ old' = old /\ \A d \in Clients : d # c => call'[d] = call[d]
            /\ call'[c].op = op /\ (call'[c].at = "idle" => op.kind = "upsert")
        BY <2>1, <2>2, CallHistory
      <3>2. headers' = headers
        BY <2>1, <2>2, CallHistory
      <3> QED
        BY <2>1, <3>1, <3>2 DEF ReadsWhole, Id
    <2>3. ASSUME NEW c \in Clients, Step(c) PROVE ReadsWhole'
      <3>1. /\ old' = old /\ \A d \in Clients : d # c => call'[d] = call[d]
            /\ call'[c].op = call[c].op /\ call'[c].store = call[c].store
        BY <2>1, <2>3, StepHistory, StepFrame DEF Frame, CallsOK
      <3>2. /\ call \in [Clients -> CallType] /\ Fits(call[c], old)
            /\ call[c].at # "idle" /\ call[c].results = 0
        BY <2>1, <2>3, StepRows, CallOKIsFits DEF CallsOK, StoreTypeOK, HistoryOK
      <3>9. \A i \in old : i \in headers' => i \in headers
        BY <2>1, <2>3, StepHistory, RecordsFresh DEF Record, DeleteStale
      <3>3. SUFFICES ASSUME call'[c].at = "idle", call[c].op.kind = "read", call'[c].answer = "ok"
                     PROVE  \/ call'[c].results = Size[Id(c)]
                            \/ /\ call'[c].results = 0
                               /\ Id(c) \in old \ headers' \/ (call[c].store \notin Strict /\ "details" \in Faults)
        BY <2>1, <3>1, <3>9 DEF ReadsWhole, Id
      <3>4. CASE ReadDetails(c)
        <4>1. call'[c].results = details[Id(c)] /\ call[c].at = "details"
          BY <3>2, <3>4 DEF ReadDetails, CallType
        <4>2. Id(c) \in Ids /\ Id(c) \in headers \cup old
          BY <2>1, <3>2, <3>3, <4>1 DEF HistoryOK, Fits, IsOperation, Id
        <4> QED
          BY <2>1, <3>4, <4>1, <4>2 DEF HistoryOK, ReadDetails, history
      <3>5. CASE TransactionFails(c)
        <4>1. CASE call[c].store \notin Strict /\ call[c].at = "details" /\ Return(c, "ok")
          <5>1. call'[c].results = 0
            BY <3>2, <4>1 DEF Return, CallType
          <5> QED
            BY <3>5, <4>1, <5>1 DEF TransactionFails, Failing
        <4>2. CASE call[c].at = "delete"
          BY <3>2, <3>3, <4>2 DEF Fits
        <4>3. CASE Guard(c)
          <5>1. ASSUME NEW answer, Return(c, answer) PROVE call'[c].answer = answer
            BY <3>2, <5>1 DEF Return, CallType
          <5>2. call'[c].answer \in {"raised", "lost"}
            BY <4>3, <5>1 DEF Guard
          <5> QED
            BY <3>3, <5>2
        <4> QED
          BY <3>5, <4>1, <4>2, <4>3 DEF TransactionFails
      <3>6. CASE BootstrapFails(c) \/ BadUrl(c) \/ ReadHeader(c)
        BY <3>2, <3>3, <3>6, ZenonT(30) DEF BootstrapFails, BadUrl, Guard, Return, ReadHeader, Goto, CallType
      <3>7. CASE Lock(c) \/ Probe(c) \/ Create(c) \/ Stamp(c) \/ InsertVersion(c)
        <4>1. After(call[c].op, 0) = "read"
          BY <3>3 DEF After
        <4>2. ASSUME NEW at, Goto(c, at) PROVE call'[c].at = at
          BY <3>2, <4>2 DEF Goto, CallType
        <4> QED
          BY <3>3, <3>7, <4>1, <4>2 DEF Lock, Probe, Create, Stamp, InsertVersion, Usable
      <3>8. CASE \/ Update(c) \/ Insert(c) \/ Prune(c) \/ Annotate(c) \/ ListRows(c) \/ Record(c)
                 \/ SelectStale(c) \/ DeleteStale(c)
        BY <3>2, <3>3, <3>8
        DEF Update, Insert, Prune, Annotate, ListRows, Record, SelectStale, DeleteStale, Fits
      <3> QED
        BY <2>3, <3>4, <3>5, <3>6, <3>7, <3>8 DEF Step
    <2>4. CASE (\E s \in Stores : Close(s)) \/ (\E i \in Ids : Age(i)) \/ UNCHANGED vars
      BY <2>1, <2>4 DEF Close, Age, vars, history, ReadsWhole, Id
    <2> QED
      BY <2>1, <2>2, <2>3, <2>4 DEF Next
  <1> QED
    BY <1>1, <1>2, Typing, HistoryInvariant, PTL DEF Spec

(* The store implements History: every step of a call is one of its steps   *)
(* or changes nothing that a reader of the history sees.                    *)
THEOREM StoreImplementsHistory == Spec => ImplementsHistory
  <1> DEFINE entry == [i \in Ids |-> Entry(i)]
  <1>1. Init => AsHistory!Init
    <2>1. SUFFICES ASSUME Init PROVE AsHistory!Init
      OBVIOUS
    <2>2. headers \subseteq Ids /\ recorded = headers /\ old \subseteq headers
      BY <2>1, EarlierAssumption DEF Init
    <2>3. \A i \in Ids : Entry(i) = IF i \in headers THEN "kept" ELSE "new"
      BY <2>2 DEF Entry
    <2> QED
      BY <2>2, <2>3 DEF AsHistory!Init
  <1>2. CallsOK /\ HistoryOK /\ HistoryOK' /\ [Next]_vars => [AsHistory!Next]_<<entry, old>>
    <2>1. SUFFICES ASSUME CallsOK, HistoryOK, HistoryOK', [Next]_vars
                   PROVE  [AsHistory!Next]_<<entry, old>>
      OBVIOUS
    <2>2. ASSUME \A i \in Ids : Entry(i)' = Entry(i), old' = old PROVE UNCHANGED <<entry, old>>
      BY <2>2
    <2>3. ASSUME NEW i \in Ids, Entry(i) = "new", Entry(i)' \in {"kept", "gone"}, old' = old,
                 \A j \in Ids \ {i} : Entry(j)' = Entry(j)
          PROVE  AsHistory!Settle(i)
      BY <2>3 DEF AsHistory!Settle
    <2>4. ASSUME NEW c \in Clients, NEW s \in Stores, NEW op \in Requests, Call(c, s, op)
          PROVE  UNCHANGED <<entry, old>>
      <3>1. /\ headers' = headers /\ old' = old
            /\ \A d \in Clients : d # c => call'[d] = call[d]
            /\ call[c].at = "idle" /\ call'[c].op = op
            /\ call'[c].at = "idle" => op.kind = "upsert"
            /\ recorded' = IF op.kind = "record" THEN recorded \cup {op.id} ELSE recorded
            /\ op.kind = "record" => op.id \in Ids \ recorded
        BY <2>1, <2>4, CallHistory
      <3>2. CASE op.kind # "record"
        <4>1. \A i \in Ids : Recording(i)' = Recording(i)
          BY <3>1, <3>2 DEF Recording, Id
        <4> QED
          BY <2>2, <3>1, <3>2, <4>1 DEF Entry
      <3>3. CASE op.kind = "record"
        <4>1. Recording(op.id)'
          BY <3>1, <3>3 DEF Recording, Id
        <4>2. \A i \in Ids : i # op.id => Recording(i)' = Recording(i)
          BY <3>1, <3>3 DEF Recording, Id
        <4>3. op.id \notin headers /\ op.id \notin recorded
          BY <2>1, <3>1, <3>3 DEF HistoryOK
        <4> QED
          BY <2>2, <3>1, <3>3, <4>1, <4>2, <4>3 DEF Entry
      <3> QED
        BY <3>2, <3>3
    <2>5. ASSUME NEW c \in Clients, Step(c)
          PROVE  AsHistory!Next \/ UNCHANGED <<entry, old>>
      <3>1. /\ recorded' = recorded /\ old' = old
            /\ Record(c) \/ DeleteStale(c) \/ headers' = headers
            /\ Record(c) => Recorder(c) /\ call'[c].at = "idle"
            /\ DeleteStale(c) => call[c].op.kind = "purge" /\ call[c].seen \subseteq old
            /\ Id(c)' = Id(c) /\ (Recorder(c)' => Recorder(c))
        BY <2>1, <2>5, StepHistory
      <3>2. /\ \A d \in Clients : d # c => call'[d] = call[d]
            /\ call'[c].op = call[c].op
        BY <2>1, <2>5, StepFrame DEF Frame, CallsOK
      <3>3. Record(c) => headers' = headers \cup {Id(c)}
        BY DEF Record
      <3>4. CASE Recorder(c) /\ call'[c].at = "idle"
        <4>1. Id(c) \in Ids /\ Id(c) \in recorded \ headers /\ ~DeleteStale(c)
          BY <2>1, <3>1, <3>4 DEF Recorder, HistoryOK, Id, CallsOK, CallOK, IsOperation
        <4>2. Recording(Id(c))
          BY <3>4 DEF Recorder, Recording
        <4>3. \A d \in Clients : d # c => ~(Recorder(d) /\ Id(d) = Id(c))
          BY <2>1, <3>4 DEF HistoryOK
        <4>4. ~Recording(Id(c))'
          BY <3>1, <3>2, <3>4, <4>3 DEF Recorder, Recording, Id
        <4>5. \A j \in Ids : j # Id(c) => Recording(j)' = Recording(j)
          BY <3>1, <3>2, <3>4 DEF Recorder, Recording, Id
        <4>6. headers' = headers \/ headers' = headers \cup {Id(c)}
          BY <3>1, <3>3, <4>1
        <4>7. Entry(Id(c)) = "new"
          BY <4>1, <4>2 DEF Entry
        <4>8. Entry(Id(c))' \in {"kept", "gone"}
          <5>1. Id(c)' = Id(c) /\ Id(c) \in recorded'
            BY <3>1, <4>1
          <5> QED
            BY <4>4, <5>1 DEF Entry
        <4>9. \A j \in Ids \ {Id(c)} : Entry(j)' = Entry(j)
          BY <3>1, <4>5, <4>6 DEF Entry
        <4>10. PICK i \in Ids : i = Id(c)
          BY <4>1
        <4>11. AsHistory!Settle(i)
          BY <2>3, <3>1, <4>7, <4>8, <4>9, <4>10
        <4> QED
          BY <4>11 DEF AsHistory!Next
      <3>5. CASE ~(Recorder(c) /\ call'[c].at = "idle")
        <4>1. \A j \in Ids : Recording(j)' = Recording(j)
          BY <2>1, <2>5, <3>1, <3>2, <3>5, StepRows DEF Recorder, Recording, Id
        <4>2. CASE headers' = headers
          BY <2>2, <3>1, <4>1, <4>2 DEF Entry
        <4>3. CASE DeleteStale(c)
          <5> DEFINE stale == call[c].seen \cap headers
          <5>1. headers' = headers \ call[c].seen /\ headers \subseteq Ids
            BY <2>1, <4>3 DEF DeleteStale, CallsOK, StoreTypeOK
          <5>2. stale \in SUBSET old
            BY <3>1, <4>3
          <5>3. \A i \in stale : Entry(i) = "kept"
            BY DEF Entry
          <5>4. \A i \in Ids : Entry(i)' = IF i \in stale THEN "gone" ELSE Entry(i)
            <6>1. \A i \in stale : i \in recorded /\ ~Recording(i)
              BY <2>1 DEF HistoryOK, Recorder, Recording
            <6> QED
              BY <3>1, <4>1, <5>1, <6>1 DEF Entry
          <5>5. PICK gone \in SUBSET old : gone = stale
            BY <5>2
          <5>6. gone \subseteq Ids
            BY <5>1, <5>5
          <5>7. AsHistory!Purge(gone)
            BY <3>1, <5>3, <5>4, <5>5, <5>6 DEF AsHistory!Purge
          <5> QED
            BY <5>7 DEF AsHistory!Next
        <4> QED
          BY <3>1, <3>5, <4>2, <4>3
      <3> QED
        BY <3>4, <3>5
    <2>6. ASSUME NEW s \in Stores, Close(s) PROVE UNCHANGED <<entry, old>>
      BY <2>6 DEF Close, history, Entry, Recording, Id
    <2>7. ASSUME NEW i \in Ids, Age(i) PROVE AsHistory!Next
      <3>1. old' = old \cup {i} /\ i \in headers /\ \A j \in Ids : Entry(j)' = Entry(j)
        BY <2>7 DEF Age, Entry, Recording, Id
      <3>2. AsHistory!Expire(i)
        BY <3>1 DEF AsHistory!Expire, Entry
      <3> QED
        BY <3>2 DEF AsHistory!Next
    <2>8. CASE UNCHANGED vars
      BY <2>8 DEF vars, history, Entry, Recording, Id
    <2> QED
      BY <2>1, <2>4, <2>5, <2>6, <2>7, <2>8 DEF Next
  <1> QED
    BY <1>1, <1>2, Typing, HistoryInvariant, PTL DEF Spec, ImplementsHistory, AsHistory!Spec
=============================================================================
