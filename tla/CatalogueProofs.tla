--------------------------- MODULE CatalogueProofs ---------------------------
(***************************************************************************)
(* Proofs about Facade: what the outcome of bootstrap_on_connect says of   *)
(* the catalogue it has made, for all clients, schemas, tables and         *)
(* failures.                                                               *)
(***************************************************************************)
EXTENDS FacadeProofs

---------------------------------------------------------------------------
(* The rows of a table *)

KeysOf(d)  == UpsertDataset(d, ColumnsOf[d]).keys
Written(d) == \A i \in DOMAIN KeysOf(d) : KeysOf(d)[i] \in rows

\* Rows that only upserts write and nothing deletes.
Passing == AllChecks

LEMMA TableKeys ==
    ASSUME NEW d \in Datasets
    PROVE  /\ UpsertDataset(d, ColumnsOf[d]).kind = "upsert"
           /\ KeysOf(d) \in Seq(Keys)
           /\ \A i \in DOMAIN KeysOf(d) : KeysOf(d)[i] \notin Passing
           /\ Written(d) =>
                /\ DatasetKey(d) \in rows
                /\ \A x \in DOMAIN ColumnsOf[d] : ColumnKey(d, ColumnsOf[d][x]) \in rows
  <1> DEFINE cols == ColumnsOf[d]
             head == <<DatasetKey(d)>>
             tail == [i \in 1 .. Len(cols) |-> ColumnKey(d, cols[i])]
             keys == KeysOf(d)
  <1>1. cols \in Seq(ColumnNames) /\ UpsertDataset(d, cols) \in Requests
    BY DescribedAssumption
  <1>2. UpsertDataset(d, cols).kind = "upsert" /\ keys = head \o tail
    BY DEF UpsertDataset, Operation, KeysOf
  <1>3. keys \in Seq(Keys)
    BY <1>1, RequestsAssumption DEF IsOperation, KeysOf
  <1>4. Len(cols) \in Nat /\ DOMAIN cols = 1 .. Len(cols)
    BY <1>1
  <1>5. PICK n \in Nat : n = Len(cols)
    BY <1>4
  <1>6. PICK S : S = {DatasetKey(d)} \cup {ColumnKey(d, cols[i]) : i \in 1 .. n}
    OBVIOUS
  <1>7. head \in Seq(S) /\ Len(head) = 1 /\ head[1] = DatasetKey(d)
    BY <1>6
  <1>8. tail \in Seq(S) /\ Len(tail) = n
    BY <1>5, <1>6
  <1>9. \A i \in 1 .. n : tail[i] = ColumnKey(d, cols[i])
    BY <1>5
  <1> HIDE DEF head, tail, keys, cols
  <1>10. /\ keys \in Seq(S) /\ Len(keys) = n + 1 /\ keys[1] = DatasetKey(d)
         /\ \A i \in 1 .. n : keys[i + 1] = ColumnKey(d, cols[i])
    <2>1. /\ keys \in Seq(S) /\ Len(keys) = Len(head) + Len(tail)
          /\ \A i \in 1 .. Len(head) + Len(tail) : keys[i] = IF i <= Len(head) THEN head[i] ELSE tail[i - Len(head)]
      BY <1>2, <1>7, <1>8, ConcatProperties
    <2>2. Len(keys) = n + 1 /\ \A i \in 1 .. n + 1 : keys[i] = IF i <= 1 THEN head[i] ELSE tail[i - 1]
      BY <1>7, <1>8, <2>1
    <2>3. keys[1] = DatasetKey(d)
      BY <1>7, <2>2
    <2>4. ASSUME NEW i \in 1 .. n PROVE keys[i + 1] = ColumnKey(d, cols[i])
      <3>1. i + 1 \in 1 .. n + 1 /\ ~(i + 1 <= 1) /\ i + 1 - 1 = i
        OBVIOUS
      <3>2. keys[i + 1] = tail[i]
        BY <2>2, <3>1
      <3> QED
        BY <1>9, <3>2
    <2> QED
      BY <2>1, <2>2, <2>3, <2>4
  <1>11. DOMAIN keys = 1 .. n + 1
    BY <1>10
  <1>12. \A s \in S : s \notin Passing
    <2>1. \A s, m, k : DatasetKey(d) # CheckKey(s, m) /\ ColumnKey(d, k) # CheckKey(s, m)
      BY DEF DatasetKey, ColumnKey, CheckKey
    <2> QED
      BY <1>6, <2>1 DEF Passing, AllChecks, ChecksOf
  <1>13. \A i \in DOMAIN keys : keys[i] \notin Passing
    BY <1>10, <1>12
  <1>14. ASSUME Written(d)
         PROVE  DatasetKey(d) \in rows /\ \A x \in DOMAIN cols : ColumnKey(d, cols[x]) \in rows
    <2>1. \A i \in 1 .. n + 1 : keys[i] \in rows
      BY <1>11, <1>14 DEF Written, keys
    <2>2. 1 \in 1 .. n + 1 /\ \A x \in 1 .. n : x + 1 \in 1 .. n + 1
      OBVIOUS
    <2> QED
      BY <1>4, <1>5, <1>10, <2>1, <2>2
  <1> QED
    BY <1>2, <1>3, <1>13, <1>14 DEF keys, cols

---------------------------------------------------------------------------
(* The calls that write them *)

(* An upsert has written the rows it has been through, and answers "ok"     *)
(* only when it has been through them all.                                  *)
Upserting(c) ==
    call[c].op.kind = "upsert" =>
      /\ \A i \in 1 .. call[c].done : call[c].op.keys[i] \in rows \cup Passing
      /\ call[c].at = "idle" =>
           /\ call[c].answer \in {"ok", "lost", "raised"}
           /\ call[c].answer = "ok" =>
                \A i \in DOMAIN call[c].op.keys : call[c].op.keys[i] \in rows \cup Passing

UpsertsEnd == \A c \in Clients : Upserting(c)

(* What is written stays: only the rows of checks are deleted.              *)
LEMMA RowsLast ==
    ASSUME CallsOK, [Next]_vars
    PROVE  rows \subseteq rows' \cup Passing
  <1>1. ASSUME NEW c \in Clients, Step(c) PROVE rows \subseteq rows' \cup Passing
    <2>1. Fits(call[c], old)
      BY CallOKIsFits DEF CallsOK
    <2>2. CASE Prune(c)
      <3>1. call[c].op.suite \in Suites
        BY <2>1, <2>2 DEF Prune, Fits, IsOperation
      <3>2. ChecksOf(call[c].op.suite) \subseteq AllChecks
        BY <3>1, KeysApart
      <3> QED
        BY <2>2, <3>2 DEF Prune, Passing
    <2>3. CASE rows' = rows \/ Insert(c)
      BY <2>3 DEF Insert
    <2> QED
      BY <1>1, <2>2, <2>3, StepRows
  <1>2. CASE \/ \E c \in Clients, s \in Stores, op \in Requests : Call(c, s, op)
             \/ \E s \in Stores : Close(s)
             \/ \E i \in Ids : Age(i)
             \/ UNCHANGED vars
    BY <1>2 DEF Call, Close, Age, vars
  <1> QED
    BY <1>1, <1>2 DEF Next

(* A step of a call that upserts.                                           *)
LEMMA UpsertStep ==
    ASSUME CallsOK, NEW c \in Clients, Step(c), call[c].op.kind = "upsert", Upserting(c)
    PROVE  Upserting(c)'
  <1>1. call \in [Clients -> CallType] /\ Fits(call[c], old) /\ [Next]_vars
    BY CallOKIsFits DEF CallsOK, StoreTypeOK, Next
  <1>2. PICK q, r : q = call[c] /\ r = call'[c]
    OBVIOUS
  <1>3. q \in CallType /\ Fits(q, old) /\ q.op.kind = "upsert" /\ r.op = q.op /\ q.store = r.store
    BY <1>1, <1>2, StepFrame DEF Frame, CallsOK
  <1>4. PICK keys, n : keys = q.op.keys /\ n = q.done
    OBVIOUS
  <1>5. keys \in Seq(Keys) /\ n \in Nat /\ keys # <<>> /\ Len(keys) \in Nat /\ DOMAIN keys = 1 .. Len(keys)
    <2>1. keys \in Seq(Keys) /\ n \in Nat /\ keys # <<>>
      BY <1>3, <1>4 DEF CallType, Fits, IsOperation
    <2> QED
      BY <2>1
  <1>len. PICK m \in Nat : m = Len(keys)
    BY <1>5
  <1>6. rows \subseteq rows' \cup Passing
    BY <1>1, RowsLast
  <1>7. /\ q.at # "idle"
        /\ \/ r.done = n
           \/ r.done = n + 1 /\ Key(c) \in rows' /\ (Update(c) \/ Insert(c))
    BY <1>2, <1>4, StepRows
  <1>8. Key(c) = keys[n + 1]
    BY <1>2, <1>4 DEF Key
  <1>9. \A i \in 1 .. n : keys[i] \in rows \cup Passing
    BY <1>2, <1>3, <1>4 DEF Upserting
  <1>10. \A i \in 1 .. r.done : keys[i] \in rows' \cup Passing
    <2>1. CASE r.done = n
      BY <1>6, <1>9, <2>1
    <2>2. CASE r.done = n + 1 /\ keys[n + 1] \in rows'
      <3>1. \A i \in 1 .. n + 1 : i \in 1 .. n \/ i = n + 1
        BY <1>5
      <3> QED
        BY <1>6, <1>9, <2>2, <3>1
    <2> QED
      BY <1>7, <1>8, <2>1, <2>2
  <1>11. SUFFICES ASSUME r.at = "idle"
                  PROVE  /\ r.answer \in {"ok", "lost", "raised"}
                         /\ r.answer = "ok" => \A i \in DOMAIN keys : keys[i] \in rows' \cup Passing
    BY <1>2, <1>3, <1>4, <1>10 DEF Upserting
  <1>12. ASSUME NEW at, Goto(c, at), at # "idle" PROVE FALSE
    BY <1>1, <1>2, <1>11, <1>12 DEF Goto, CallType
  <1>13. ASSUME NEW answer, Return(c, answer) PROVE r.answer = answer
    BY <1>1, <1>2, <1>13 DEF Return, CallType
  <1>14. CASE Guard(c)
    BY <1>13, <1>14 DEF Guard
  <1>15. q.at \in {"lock"} \cup UnderLock \cup {"update", "insert"}
    <2>1. q.at \in {"idle", "lock"} \cup UnderLock \cup Transactions
      BY <1>3 DEF CallType
    <2> QED
      BY <1>3, <1>7, <2>1 DEF Fits, Transactions
  <1>16. After(q.op, 0) # "idle"
    <2>1. IsOperation(q.op) /\ 0 <= Len(q.op.keys)
      BY <1>3, <1>4, <1>5 DEF Fits
    <2> QED
      BY <2>1, AfterFits
  <1>17. CASE Lock(c) \/ Probe(c) \/ Create(c) \/ Stamp(c) \/ InsertVersion(c)
    BY <1>2, <1>12, <1>16, <1>17 DEF Lock, Probe, Create, Stamp, InsertVersion, Usable
  <1>18. CASE BootstrapFails(c)
    BY <1>14, <1>18 DEF BootstrapFails
  <1>19. CASE BadUrl(c)
    <2>1. r.answer = "raised"
      BY <1>13, <1>19 DEF BadUrl
    <2> QED
      BY <2>1
  <1>20. CASE TransactionFails(c)
    BY <1>2, <1>14, <1>15, <1>20 DEF TransactionFails, UnderLock
  <1>21. CASE Update(c) \/ Insert(c)
    <2>1. CASE Goto(c, "insert")
      BY <1>12, <2>1
    <2>2. CASE Proceed(c)
      <3>1. PICK next : next = After(q.op, n + 1)
        OBVIOUS
      <3>2. r = [q EXCEPT !.at = next, !.done = n + 1, !.answer = IF next = "idle" THEN "ok" ELSE q.answer]
        BY <1>1, <1>2, <1>4, <2>2, <3>1 DEF Proceed
      <3>3. r.at = next /\ r.done = n + 1 /\ (next = "idle" => r.answer = "ok")
        BY <1>3, <3>2 DEF CallType
      <3>4. n < m
        <4>1. q.at \in {"update", "insert"}
          BY <1>2, <1>21 DEF Update, Insert
        <4> QED
          BY <1>3, <1>4, <1>len, <4>1 DEF Fits
      <3>5. n + 1 >= m
        BY <1>3, <1>4, <1>5, <1>11, <1>len, <3>1, <3>3 DEF After
      <3>6. n + 1 = m
        <4>1. n \in Nat
          BY <1>5
        <4> QED
          BY <3>4, <3>5, <4>1
      <3>7. DOMAIN keys = 1 .. n + 1
        BY <1>5, <1>len, <3>6
      <3> QED
        BY <1>10, <1>11, <3>3, <3>7
    <2> QED
      BY <1>21, <2>1, <2>2 DEF Update, Insert
  <1>22. CASE \/ Prune(c) \/ Annotate(c) \/ ListRows(c) \/ Record(c)
              \/ ReadHeader(c) \/ ReadDetails(c) \/ SelectStale(c) \/ DeleteStale(c)
    BY <1>2, <1>15, <1>22 DEF Prune, Annotate, ListRows, Record, ReadHeader, ReadDetails, SelectStale,
                              DeleteStale, UnderLock
  <1> QED
    BY <1>17, <1>18, <1>19, <1>20, <1>21, <1>22 DEF Step

LEMMA CallUpserts ==
    ASSUME CallsOK, NEW c \in Clients, NEW s, NEW op \in Requests, Call(c, s, op)
    PROVE  Upserting(c)'
  <1>1. call \in [Clients -> CallType]
    BY DEF CallsOK, StoreTypeOK
  <1>2. PICK at : at = IF ready[s] THEN After(op, 0) ELSE "lock"
    OBVIOUS
  <1>3. PICK r : r = call'[c]
    OBVIOUS
  <1>4. r = [NoCall(op) EXCEPT !.store = s, !.at = at]
    BY <1>1, <1>2, <1>3 DEF Call
  <1>5. r.op = op /\ r.at = at /\ r.done = 0
    BY <1>4 DEF NoCall
  <1>6. IsOperation(op) /\ 0 <= Len(op.keys) /\ op.kind = "upsert" => at # "idle"
    BY <1>2, AfterFits
  <1>7. op.kind = "upsert" => at # "idle"
    <2>1. IsOperation(op)
      BY RequestsAssumption
    <2>2. op.kind = "upsert" => 0 <= Len(op.keys)
      <3>1. op.kind = "upsert" => op.keys \in Seq(Keys)
        BY <2>1 DEF IsOperation
      <3> QED
        BY <3>1
    <2> QED
      BY <1>6, <2>1, <2>2
  <1>8. \A i \in 1 .. r.done : FALSE
    BY <1>5
  <1> QED
    BY <1>3, <1>5, <1>7, <1>8 DEF Upserting

LEMMA UpsertsKept ==
    ASSUME CallsOK, UpsertsEnd, [Next]_vars
    PROVE  UpsertsEnd'
  <1>1. rows \subseteq rows' \cup Passing
    BY RowsLast
  <1>2. ASSUME NEW d \in Clients, call'[d] = call[d] PROVE Upserting(d)'
    <2>1. PICK q : q = call[d]
      OBVIOUS
    <2>2. call'[d] = q /\ Upserting(d)
      BY <1>2, <2>1 DEF UpsertsEnd
    <2> QED
      BY <1>1, <2>1, <2>2 DEF Upserting
  <1>3. ASSUME NEW c \in Clients, Step(c) PROVE UpsertsEnd'
    <2>1. Frame(c)
      BY <1>3, StepFrame DEF CallsOK
    <2>2. CASE call[c].op.kind = "upsert"
      BY <1>2, <1>3, <2>1, <2>2, UpsertStep DEF Frame, UpsertsEnd
    <2>3. CASE call[c].op.kind # "upsert"
      BY <1>2, <2>1, <2>3 DEF Frame, UpsertsEnd, Upserting
    <2> QED
      BY <2>2, <2>3
  <1>4. ASSUME NEW c \in Clients, NEW s \in Stores, NEW op \in Requests, Call(c, s, op) PROVE UpsertsEnd'
    BY <1>2, <1>4, CallRecords, CallUpserts DEF UpsertsEnd
  <1>5. CASE (\E s \in Stores : Close(s)) \/ (\E i \in Ids : Age(i)) \/ UNCHANGED vars
    BY <1>2, <1>5 DEF Close, Age, vars, UpsertsEnd
  <1> QED
    BY <1>3, <1>4, <1>5 DEF Next

LEMMA UpsertsStart == Init => UpsertsEnd
  <1>1. Purge.kind = "purge"
    BY DEF Purge, Operation
  <1>2. Init => \A c \in Clients : call[c].op = Purge
    BY DEF Init, NoCall
  <1> QED
    BY <1>1, <1>2 DEF UpsertsEnd, Upserting

LEMMA WrittenLasts ==
    ASSUME CallsOK, [Next]_vars, NEW d \in Datasets, Written(d)
    PROVE  Written(d)'
  <1>1. rows \subseteq rows' \cup Passing
    BY RowsLast
  <1>2. \A i \in DOMAIN KeysOf(d) : KeysOf(d)[i] \notin Passing
    BY TableKeys
  <1>3. PICK keys : keys = KeysOf(d)
    OBVIOUS
  <1>4. \A i \in DOMAIN keys : keys[i] \in rows'
    BY <1>1, <1>2, <1>3 DEF Written
  <1> QED
    BY <1>3, <1>4 DEF Written, KeysOf

---------------------------------------------------------------------------
(* The elements of a sequence *)

Among(seq) == {seq[i] : i \in DOMAIN seq}

LEMMA AmongTail ==
    ASSUME NEW S, NEW seq \in Seq(S), seq # <<>>
    PROVE  Among(Tail(seq)) \subseteq Among(seq)
  <1>1. PICK n \in Nat : n = Len(seq)
    OBVIOUS
  <1>2. DOMAIN seq = 1 .. n /\ n # 0
    BY <1>1
  <1>3. PICK rest : rest = Tail(seq)
    OBVIOUS
  <1>4. DOMAIN rest = 1 .. n - 1 /\ \A i \in 1 .. n - 1 : rest[i] = seq[i + 1]
    <2>1. /\ rest \in Seq(S) /\ Len(rest) = n - 1
          /\ \A i \in 1 .. Len(rest) : rest[i] = seq[i + 1]
      BY <1>1, <1>3, HeadTailProperties
    <2> QED
      BY <2>1
  <1>5. \A i \in 1 .. n - 1 : i + 1 \in 1 .. n
    OBVIOUS
  <1> QED
    BY <1>2, <1>3, <1>4, <1>5 DEF Among

LEMMA AmongAppend ==
    ASSUME NEW S, NEW seq \in Seq(S), NEW x \in S
    PROVE  /\ Append(seq, x) \in Seq(S) /\ Len(Append(seq, x)) = Len(seq) + 1
           /\ Among(seq) \subseteq Among(Append(seq, x))
           /\ x \in Among(Append(seq, x))
           /\ Among(Append(seq, x)) \subseteq Among(seq) \cup {x}
  <1>1. PICK n \in Nat : n = Len(seq)
    OBVIOUS
  <1>2. PICK more : more = Append(seq, x)
    OBVIOUS
  <1>3. more \in Seq(S) /\ Len(more) = n + 1 /\ more[n + 1] = x /\ \A i \in 1 .. n : more[i] = seq[i]
    BY <1>1, <1>2, AppendProperties
  <1>4. DOMAIN seq = 1 .. n /\ DOMAIN more = 1 .. n + 1
    BY <1>1, <1>3
  <1>5. n + 1 \in 1 .. n + 1 /\ 1 .. n \subseteq 1 .. n + 1 /\ \A i \in 1 .. n + 1 : i \in 1 .. n \/ i = n + 1
    OBVIOUS
  <1>6. Among(seq) \subseteq Among(more) /\ x \in Among(more) /\ Among(more) \subseteq Among(seq) \cup {x}
    BY <1>3, <1>4, <1>5 DEF Among
  <1> QED
    BY <1>1, <1>2, <1>3, <1>6

---------------------------------------------------------------------------
(* The walk of the schemas *)

(* What the outcome counts fits the tables walked, and the cap.             *)
Counts(r) ==
    /\ Len(r.counted) <= r.seen /\ r.seen <= MaxTables
    /\ r.truncated => r.seen = MaxTables
    /\ r.at = "upserted" => r.seen < MaxTables

(* The tables of the schemas it names.                                      *)
Scanned(r) == UNION {Among(Listing[s]) : s \in Among(r.scanned)}
Sourced(r) == Among(r.counted) \cup Among(r.tables) \subseteq Scanned(r)

Entered(r) == \A d \in Among(r.counted) : Written(d)

(* A request that waits for the rows of a table waits for the first of them. *)
Asking(t) ==
    At(t, "upserted") =>
      LET d == Head(request[t].tables) IN call[t].op = UpsertDataset(d, ColumnsOf[d])

InOrder(t)  == Counts(request[t]) /\ Sourced(request[t]) /\ Entered(request[t]) /\ Asking(t)
CatalogueOK == \A t \in Clients : InOrder(t)

LEMMA EnteredLasts ==
    ASSUME CallsOK, [Next]_vars, NEW q, q.counted \in Seq(Datasets), Entered(q), NEW r, r.counted = q.counted
    PROVE  \A d \in Among(r.counted) : Written(d)'
  <1>1. Among(q.counted) \subseteq Datasets
    BY DEF Among
  <1> QED
    BY <1>1, WrittenLasts DEF Entered

(* What a step that does not walk leaves of its request.                    *)
Steady(q, r) ==
    /\ r.seen = q.seen /\ r.truncated = q.truncated
    /\ r.scanned = q.scanned /\ r.counted = q.counted
    /\ r.tables \in {q.tables, <<>>}
    /\ r.at # "upserted"

LEMMA SteadyKeeps ==
    ASSUME CallsOK, [Next]_vars, ServiceOK, NEW t \in Clients, InOrder(t), Steady(request[t], request'[t])
    PROVE  InOrder(t)'
  <1>1. PICK q, r : q = request[t] /\ r = request'[t]
    OBVIOUS
  <1>2. q \in RequestType /\ Counts(q) /\ Sourced(q) /\ Entered(q) /\ Steady(q, r)
    BY <1>1, Facts DEF InOrder
  <1>3. Counts(r)
    BY <1>2 DEF Counts, Steady
  <1>4. Sourced(r)
    <2>1. Scanned(r) = Scanned(q)
      BY <1>2 DEF Scanned, Steady
    <2>2. Among(<<>>) = {}
      BY DEF Among
    <2> QED
      BY <1>2, <2>1, <2>2 DEF Sourced, Steady
  <1>5. \A d \in Among(r.counted) : Written(d)'
    BY <1>2, EnteredLasts DEF Steady, RequestType
  <1>6. r.at # "upserted"
    BY <1>2 DEF Steady
  <1> QED
    BY <1>1, <1>3, <1>4, <1>5, <1>6 DEF InOrder, Counts, Sourced, Scanned, Entered, Asking, At

LEMMA SteadyMoves ==
    ASSUME ServiceOK, NEW t \in Clients, NEW l, NEW k, l # "upserted",
           \/ request' = [request EXCEPT ![t].connector = k, ![t].at = l]
           \/ request' = [request EXCEPT ![t].store = k, ![t].at = l]
           \/ request' = [request EXCEPT ![t].connecting = k, ![t].at = l]
           \/ request' = [request EXCEPT ![t].outcome = k, ![t].at = l]
           \/ request' = [request EXCEPT ![t].at = l, ![t].schemas = k]
    PROVE  Steady(request[t], request'[t])
  BY Facts DEF RequestType, Steady

LEMMA SteadyGo ==
    ASSUME ServiceOK, NEW t \in Clients, NEW l, l # "upserted", Go(t, l)
    PROVE  Steady(request[t], request'[t])
  BY Facts DEF RequestType, Steady, Go

LEMMA SteadyAnswers ==
    ASSUME ServiceOK, NEW t \in Clients, NEW a, Answer(t, a)
    PROVE  Steady(request[t], request'[t])
  <1>1. PICK q, r : q = request[t] /\ r = request'[t]
    OBVIOUS
  <1>2. q \in RequestType /\ request \in [Clients -> RequestType]
    BY <1>1, Facts
  <1>3. r = [q EXCEPT !.at = "idle", !.connector = 0, !.tables = <<>>, !.answer = a]
    BY <1>1, <1>2 DEF Answer
  <1>4. r.at = "idle" /\ r.tables = <<>> /\ r.seen = q.seen /\ r.truncated = q.truncated
    BY <1>2, <1>3 DEF RequestType
  <1>5. r.scanned = q.scanned /\ r.counted = q.counted
    BY <1>2, <1>3 DEF RequestType
  <1> QED
    BY <1>1, <1>4, <1>5 DEF Steady

LEMMA SteadyFails ==
    ASSUME ServiceOK, NEW t \in Clients, Fail(t)
    PROVE  Steady(request[t], request'[t])
  BY SteadyAnswers DEF Fail

(* The catalogue is made, or given up.                                      *)
LEMMA SteadyStops ==
    ASSUME ServiceOK, NEW t \in Clients, request[t].at \in Catalog, Catalogued(t) \/ CatalogueRaises(t)
    PROVE  Steady(request[t], request'[t])
  <1>1. PICK q, r : q = request[t] /\ r = request'[t]
    OBVIOUS
  <1>2. Good(q, Len(connectors)) /\ q \in RequestType /\ request \in [Clients -> RequestType]
    BY <1>1, Facts
  <1>3. PICK l : l = Work(q.job)
    OBVIOUS
  <1>4. l # "upserted"
    BY <1>3 DEF Work
  <1>5. CASE Catalogued(t) /\ q.connecting
    <2>1. request' = [request EXCEPT ![t].connecting = FALSE, ![t].at = l]
      BY <1>1, <1>3, <1>5 DEF Catalogued
    <2> QED
      BY <1>4, <2>1, SteadyMoves
  <1>6. CASE Catalogued(t) /\ ~q.connecting
    <2>1. r = [q EXCEPT !.at = "idle", !.connector = 0, !.answer = "ok"]
      BY <1>1, <1>2, <1>6 DEF Catalogued
    <2>2. r.at = "idle" /\ r.tables = q.tables /\ r.seen = q.seen /\ r.truncated = q.truncated
      BY <1>2, <2>1 DEF RequestType
    <2>3. r.scanned = q.scanned /\ r.counted = q.counted
      BY <1>2, <2>1 DEF RequestType
    <2> QED
      BY <1>1, <2>2, <2>3 DEF Steady
  <1> QED
    BY <1>1, <1>5, <1>6, SteadyFails DEF CatalogueRaises

LEMMA OtherSteps ==
    ASSUME ServiceOK, NEW t \in Clients, Serve(t), ~StoreStep(t), ~ListTables(t), ~WalkTables(t), ~Upserted(t)
    PROVE  Steady(request[t], request'[t])
  <1>1. PICK q : q = request[t]
    OBVIOUS
  <1>2. CASE Make(t) \/ Cache(t) \/ Register(t) \/ Configure(t)
    <2>1. \E l \in {"take", "boot", "registered", "pop"} : Go(t, l)
      BY <1>2 DEF Make, Cache, Register, Configure
    <2> QED
      BY <2>1, SteadyGo
  <1>3. CASE Take(t)
    <2>1. PICK s, l : s = app[Home[t]] /\ l = First(q.job)
      OBVIOUS
    <2>2. request' = [request EXCEPT ![t].store = s, ![t].at = l]
      BY <1>1, <1>3, <2>1 DEF Take
    <2>3. l # "upserted"
      BY <2>1 DEF First
    <2> QED
      BY <2>2, <2>3, SteadyMoves
  <1>4. CASE Lookup(t) \/ Test(t) \/ Pop(t)
    <2>1. \E k : \E l \in {"boot", "open", "report", "forget"} :
            request' = [request EXCEPT ![t].connector = k, ![t].at = l]
      BY <1>4 DEF Lookup, Test, Pop
    <2>2. PICK k, l : /\ request' = [request EXCEPT ![t].connector = k, ![t].at = l]
                      /\ l \in {"boot", "open", "report", "forget"}
      BY <2>1
    <2> QED
      BY <2>2, SteadyMoves
  <1>5. CASE Open(t)
    <2>1. Go(t, "cache") \/ Fail(t)
      BY <1>5 DEF Open
    <2> QED
      BY <2>1, SteadyGo, SteadyFails
  <1>6. CASE Boot(t)
    <2>1. PICK l : l = Work(q.job)
      OBVIOUS
    <2>2. l # "upserted"
      BY <2>1 DEF Work
    <2>3. \/ Go(t, l)
          \/ request' = [request EXCEPT ![t].connecting = TRUE, ![t].at = "register"]
      BY <1>1, <1>6, <2>1 DEF Boot
    <2> QED
      BY <2>2, <2>3, SteadyGo, SteadyMoves
  <1>7. CASE Registered(t)
    <2>1. PICK names : names = Targets(q.job)
      OBVIOUS
    <2>2. \/ Catalogued(t) \/ CatalogueRaises(t)
          \/ request' = [request EXCEPT ![t].at = "list", ![t].schemas = names]
      BY <1>1, <1>7, <2>1 DEF Registered
    <2>3. request[t].at \in Catalog
      BY <1>7 DEF Registered, At, Catalog
    <2> QED
      BY <2>2, <2>3, SteadyStops, SteadyMoves
  <1>8. CASE Execute(t)
    <2>1. CASE Answer(t, "planned") \/ Answer(t, "ok") \/ Fail(t)
      BY <2>1, SteadyAnswers, SteadyFails
    <2>2. CASE Go(t, "keep") \/ Go(t, "catalogue")
      BY <2>2, SteadyGo
    <2>3. ASSUME NEW o, request' = [request EXCEPT ![t].outcome = o, ![t].at = "sync"]
          PROVE  Steady(request[t], request'[t])
      BY <2>3, SteadyMoves
    <2> QED
      BY <1>8, <2>1, <2>2, <2>3 DEF Execute
  <1>9. CASE Sync(t) \/ Keep(t) \/ Catalogue(t) \/ Direct(t) \/ Report(t)
    <2>1. PICK l : Go(t, l) /\ l \in {"synced", "kept", "done", "reported"}
      BY <1>9 DEF Sync, Keep, Catalogue, Direct, Report, Ask
    <2> QED
      BY <2>1, SteadyGo
  <1>10. CASE Synced(t) \/ Kept(t) \/ Done(t)
    <2>1. Fail(t) \/ Answer(t, "ok") \/ Go(t, "keep") \/ Go(t, "notify")
      BY <1>10 DEF Synced, Kept, Done, Resume
    <2> QED
      BY <2>1, SteadyAnswers, SteadyFails, SteadyGo
  <1>11. CASE Notify(t) \/ CloseProbe(t) \/ Forget(t)
    <2>1. Fail(t) \/ \E a : Answer(t, a)
      BY <1>11 DEF Notify, CloseProbe, Forget
    <2> QED
      BY <2>1, SteadyAnswers, SteadyFails
  <1> QED
    BY <1>2, <1>3, <1>4, <1>5, <1>6, <1>7, <1>8, <1>9, <1>10, <1>11 DEF Serve

LEMMA ListTablesKeeps ==
    ASSUME CallsOK, [Next]_vars, ServiceOK, NEW t \in Clients, InOrder(t), ListTables(t)
    PROVE  InOrder(t)'
  <1>1. PICK q, r : q = request[t] /\ r = request'[t]
    OBVIOUS
  <1>2. q \in RequestType /\ request \in [Clients -> RequestType] /\ q.at = "list" /\ q.at \in Catalog
    BY <1>1, Facts DEF ListTables, At, Catalog
  <1>3. PICK first, rest, tables, scanned :
          /\ first = Head(q.schemas) /\ rest = Tail(q.schemas) /\ tables = Listing[first]
          /\ scanned = Append(q.scanned, first)
    OBVIOUS
  <1>4. CASE Catalogued(t)
    BY <1>1, <1>2, <1>4, SteadyStops, SteadyKeeps
  <1>5. CASE request' = [request EXCEPT ![t].schemas = Tail(@)]
    <2>1. r = [q EXCEPT !.schemas = rest]
      BY <1>1, <1>2, <1>3, <1>5
    <2>2. r.at = q.at /\ r.tables = q.tables /\ r.seen = q.seen /\ r.truncated = q.truncated
      BY <1>2, <2>1 DEF RequestType
    <2>3. r.scanned = q.scanned /\ r.counted = q.counted
      BY <1>2, <2>1 DEF RequestType
    <2>4. Steady(q, r)
      BY <1>2, <2>2, <2>3 DEF Steady
    <2> QED
      BY <1>1, <2>4, SteadyKeeps
  <1>6. CASE /\ q.schemas # <<>>
             /\ request' = [request EXCEPT ![t].schemas = Tail(@), ![t].at = "walk",
                              ![t].tables = Listing[Head(request[t].schemas)],
                              ![t].scanned = Append(@, Head(request[t].schemas))]
    <2>1. r = [q EXCEPT !.schemas = rest, !.at = "walk", !.tables = tables, !.scanned = scanned]
      BY <1>1, <1>2, <1>3, <1>6
    <2>2. r.at = "walk" /\ r.tables = tables /\ r.seen = q.seen /\ r.truncated = q.truncated
      BY <1>2, <2>1 DEF RequestType
    <2>3. r.scanned = scanned /\ r.counted = q.counted
      BY <1>2, <2>1 DEF RequestType
    <2>4. first \in DOMAIN Listing
      BY <1>2, <1>3, <1>6, TailOfSeq DEF RequestType
    <2>5. Among(q.scanned) \subseteq Among(scanned) /\ first \in Among(scanned)
      BY <1>2, <1>3, <2>4, AmongAppend DEF RequestType
    <2>6. Counts(q) /\ Sourced(q) /\ Entered(q)
      BY <1>1 DEF InOrder
    <2>7. Counts(r)
      BY <2>2, <2>3, <2>6 DEF Counts
    <2>8. Sourced(r)
      BY <1>3, <2>2, <2>3, <2>5, <2>6 DEF Sourced, Scanned
    <2>9. \A d \in Among(r.counted) : Written(d)'
      BY <1>2, <2>3, <2>6, EnteredLasts DEF RequestType
    <2> QED
      BY <1>1, <2>2, <2>7, <2>8, <2>9 DEF InOrder, Counts, Sourced, Scanned, Entered, Asking, At
  <1> QED
    BY <1>1, <1>4, <1>5, <1>6 DEF ListTables

LEMMA WalkTablesKeeps ==
    ASSUME CallsOK, [Next]_vars, ServiceOK, NEW t \in Clients, InOrder(t), WalkTables(t)
    PROVE  InOrder(t)'
  <1>1. PICK q, r : q = request[t] /\ r = request'[t]
    OBVIOUS
  <1>2. q \in RequestType /\ request \in [Clients -> RequestType] /\ q.at = "walk"
    BY <1>1, Facts DEF WalkTables, At
  <1>3. Counts(q) /\ Sourced(q) /\ Entered(q)
    BY <1>1 DEF InOrder
  <1>4. q.seen \in Nat /\ MaxTables \in Nat /\ q.tables \in Seq(Datasets) /\ q.counted \in Seq(Datasets)
    BY <1>2, CapAssumption DEF RequestType
  <1>5. CASE q.tables = <<>> /\ Go(t, "list")
    BY <1>1, <1>5, SteadyGo, SteadyKeeps
  <1>6. CASE /\ q.seen >= MaxTables
             /\ request' = [request EXCEPT ![t].truncated = TRUE, ![t].schemas = <<>>, ![t].at = "list"]
    <2>1. r = [q EXCEPT !.truncated = TRUE, !.schemas = <<>>, !.at = "list"]
      BY <1>1, <1>2, <1>6
    <2>2. r.at = "list" /\ r.tables = q.tables /\ r.seen = q.seen
      BY <1>2, <2>1 DEF RequestType
    <2>3. r.scanned = q.scanned /\ r.counted = q.counted
      BY <1>2, <2>1 DEF RequestType
    <2>4. q.seen = MaxTables
      <3>1. q.seen <= MaxTables
        BY <1>3 DEF Counts
      <3> QED
        BY <1>4, <1>6, <3>1
    <2>5. Counts(r)
      BY <1>3, <2>2, <2>3, <2>4 DEF Counts
    <2>6. Sourced(r)
      BY <1>3, <2>2, <2>3 DEF Sourced, Scanned
    <2>7. \A d \in Among(r.counted) : Written(d)'
      BY <1>3, <1>4, <2>3, EnteredLasts
    <2> QED
      BY <1>1, <2>2, <2>5, <2>6, <2>7 DEF InOrder, Counts, Sourced, Scanned, Entered, Asking, At
  <1>7. CASE q.tables # <<>> /\ request' = [request EXCEPT ![t].tables = Tail(@)]
    <2>1. PICK rest : rest = Tail(q.tables)
      OBVIOUS
    <2>2. r = [q EXCEPT !.tables = rest]
      BY <1>1, <1>2, <1>7, <2>1
    <2>3. r.at = "walk" /\ r.tables = rest /\ r.seen = q.seen /\ r.truncated = q.truncated
      BY <1>2, <2>2 DEF RequestType
    <2>4. r.scanned = q.scanned /\ r.counted = q.counted
      BY <1>2, <2>2 DEF RequestType
    <2>5. Among(rest) \subseteq Among(q.tables)
      BY <1>4, <1>7, <2>1, AmongTail
    <2>6. Counts(r)
      BY <1>3, <2>3, <2>4 DEF Counts
    <2>7. Sourced(r)
      BY <1>3, <2>3, <2>4, <2>5 DEF Sourced, Scanned
    <2>8. \A d \in Among(r.counted) : Written(d)'
      BY <1>3, <1>4, <2>4, EnteredLasts
    <2> QED
      BY <1>1, <2>3, <2>6, <2>7, <2>8 DEF InOrder, Counts, Sourced, Scanned, Entered, Asking, At
  <1>8. CASE /\ q.tables # <<>> /\ q.seen < MaxTables
             /\ \E d \in {Head(q.tables)} : Call(t, Store(t), UpsertDataset(d, ColumnsOf[d]))
             /\ Go(t, "upserted")
    <2>1. PICK d, op : d = Head(q.tables) /\ op = UpsertDataset(d, ColumnsOf[d])
      OBVIOUS
    <2>2. op \in Requests /\ Call(t, Store(t), op)
      BY <1>1, <1>8, <2>1, Asked
    <2>3. call'[t].op = op
      BY <2>2, CallRecords
    <2>4. r = [q EXCEPT !.at = "upserted"]
      BY <1>1, <1>2, <1>8 DEF Go
    <2>5. r.at = "upserted" /\ r.tables = q.tables /\ r.seen = q.seen /\ r.truncated = q.truncated
      BY <1>2, <2>4 DEF RequestType
    <2>6. r.scanned = q.scanned /\ r.counted = q.counted
      BY <1>2, <2>4 DEF RequestType
    <2>7. Counts(r)
      BY <1>3, <1>8, <2>5, <2>6 DEF Counts
    <2>8. Sourced(r)
      BY <1>3, <2>5, <2>6 DEF Sourced, Scanned
    <2>9. \A e \in Among(r.counted) : Written(e)'
      BY <1>3, <1>4, <2>6, EnteredLasts
    <2>10. Asking(t)'
      BY <1>1, <2>1, <2>3, <2>5 DEF Asking
    <2> QED
      BY <1>1, <2>7, <2>8, <2>9, <2>10 DEF InOrder, Counts, Sourced, Scanned, Entered
  <1> QED
    BY <1>1, <1>5, <1>6, <1>7, <1>8 DEF WalkTables

LEMMA UpsertedKeeps ==
    ASSUME CallsOK, UpsertsEnd, [Next]_vars, ServiceOK, NEW t \in Clients, InOrder(t), Upserted(t)
    PROVE  InOrder(t)'
  <1>1. PICK q, r : q = request[t] /\ r = request'[t]
    OBVIOUS
  <1>2. q \in RequestType /\ request \in [Clients -> RequestType] /\ q.at = "upserted" /\ q.at \in Catalog
    BY <1>1, Facts DEF Upserted, At, Catalog
  <1>3. Counts(q) /\ Sourced(q) /\ Entered(q) /\ Asking(t)
    BY <1>1 DEF InOrder
  <1>4. q.seen \in Nat /\ MaxTables \in Nat /\ q.tables \in Seq(Datasets) /\ q.counted \in Seq(Datasets)
    BY <1>2, CapAssumption DEF RequestType
  <1>5. q.tables # <<>>
    BY <1>1, <1>2 DEF ServiceOK, RequestOK, At
  <1>6. CASE CatalogueRaises(t)
    BY <1>1, <1>2, <1>6, SteadyStops, SteadyKeeps
  <1>7. CASE /\ request' = [request EXCEPT ![t].tables = Tail(@), ![t].seen = @ + 1, ![t].at = "walk",
                              ![t].counted = IF call[t].answer = "ok" THEN Append(@, Head(request[t].tables)) ELSE @]
             /\ Returned(t) /\ rows' = rows
    <2>1. PICK d, rest, seen, counted :
            /\ d = Head(q.tables) /\ rest = Tail(q.tables) /\ seen = q.seen + 1
            /\ counted = (IF call[t].answer = "ok" THEN Append(q.counted, d) ELSE q.counted)
      OBVIOUS
    <2>2. r = [q EXCEPT !.tables = rest, !.seen = seen, !.at = "walk", !.counted = counted]
      BY <1>1, <1>2, <1>7, <2>1
    <2>3. r.at = "walk" /\ r.tables = rest /\ r.seen = seen /\ r.truncated = q.truncated
      BY <1>2, <2>2 DEF RequestType
    <2>4. r.scanned = q.scanned /\ r.counted = counted
      BY <1>2, <2>2 DEF RequestType
    <2>5. d \in Datasets /\ d \in Among(q.tables)
      <3>1. d = q.tables[1] /\ 1 \in DOMAIN q.tables
        BY <1>4, <1>5, <2>1
      <3> QED
        BY <1>4, <1>5, <2>1, <3>1, TailOfSeq DEF Among
    <2>6. Among(rest) \subseteq Among(q.tables)
      BY <1>4, <1>5, <2>1, AmongTail
    <2>7. /\ Among(counted) \subseteq Among(q.counted) \cup {d}
          /\ call[t].answer # "ok" => counted = q.counted
          /\ Len(counted) \in {Len(q.counted), Len(q.counted) + 1}
      BY <1>4, <2>1, <2>5, AmongAppend
    <2>8. call[t].answer = "ok" => Written(d)
      <3>1. PICK c : c = call[t]
        OBVIOUS
      <3>2. c.op = UpsertDataset(d, ColumnsOf[d]) /\ c.at = "idle"
        BY <1>1, <1>2, <1>3, <1>7, <2>1, <3>1 DEF Asking, At, Returned
      <3>3. c.op.kind = "upsert" /\ c.op.keys = KeysOf(d)
        BY <2>5, <3>2, TableKeys DEF KeysOf
      <3>4. SUFFICES ASSUME c.answer = "ok" PROVE Written(d)
        BY <3>1
      <3>5. \A i \in DOMAIN c.op.keys : c.op.keys[i] \in rows \cup Passing
        BY <3>1, <3>2, <3>3, <3>4 DEF UpsertsEnd, Upserting
      <3> QED
        BY <2>5, <3>3, <3>5, TableKeys DEF Written
    <2>9. Counts(r)
      <3>1. q.seen < MaxTables /\ Len(q.counted) <= q.seen /\ (q.truncated => q.seen = MaxTables)
        BY <1>2, <1>3 DEF Counts
      <3>2. PICK n \in Nat : n = Len(q.counted)
        BY <1>4
      <3>3. Len(counted) <= seen /\ seen <= MaxTables /\ ~q.truncated
        BY <1>4, <2>1, <2>7, <3>1, <3>2
      <3> QED
        BY <2>3, <2>4, <3>3 DEF Counts
    <2>10. Sourced(r)
      <3>1. Scanned(r) = Scanned(q)
        BY <2>4 DEF Scanned
      <3> QED
        BY <1>3, <2>3, <2>4, <2>5, <2>6, <2>7, <3>1 DEF Sourced
    <2>11. \A e \in Among(r.counted) : Written(e)'
      <3>1. \A e \in Among(r.counted) : Written(e) /\ e \in Datasets
        <4>1. Among(q.counted) \subseteq Datasets
          BY <1>4 DEF Among
        <4> QED
          BY <1>3, <2>4, <2>5, <2>7, <2>8, <4>1 DEF Entered
      <3> QED
        BY <3>1, WrittenLasts
    <2> QED
      BY <1>1, <2>3, <2>9, <2>10, <2>11 DEF InOrder, Counts, Sourced, Scanned, Entered, Asking, At
  <1> QED
    BY <1>1, <1>6, <1>7 DEF Upserted, vars

---------------------------------------------------------------------------
(* All the steps *)

(* A step that leaves a request alone.                                      *)
LEMMA OrderLasts ==
    ASSUME CallsOK, [Next]_vars, ServiceOK, NEW t \in Clients, InOrder(t),
           request'[t] = request[t], call'[t].op = call[t].op
    PROVE  InOrder(t)'
  <1>1. PICK q : q = request[t]
    OBVIOUS
  <1>2. request'[t] = q /\ q \in RequestType /\ Counts(q) /\ Sourced(q) /\ Entered(q) /\ Asking(t)
    BY <1>1, Facts DEF InOrder
  <1>3. \A d \in Among(q.counted) : Written(d)'
    BY <1>2, EnteredLasts DEF RequestType
  <1>4. Asking(t)'
    BY <1>1, <1>2 DEF Asking, At
  <1> QED
    BY <1>2, <1>3, <1>4 DEF InOrder, Counts, Sourced, Scanned, Entered

LEMMA ServeInOrder ==
    ASSUME CallsOK, UpsertsEnd, [Next]_vars, ServiceOK, CatalogueOK, NEW t \in Clients, Serve(t), ~StoreStep(t)
    PROVE  CatalogueOK'
  <1>1. InOrder(t)
    BY DEF CatalogueOK
  <1>2. InOrder(t)'
    BY <1>1, ListTablesKeeps, WalkTablesKeeps, UpsertedKeeps, OtherSteps, SteadyKeeps
  <1>3. ASSUME NEW d \in Clients, d # t PROVE InOrder(d)'
    <2>1. request'[d] = request[d]
      BY <1>3, ServeOK, ServedKeeps
    <2>2. call'[d] = call[d]
      BY <1>3, ServeFrame
    <2> QED
      BY <2>1, <2>2, OrderLasts DEF CatalogueOK
  <1> QED
    BY <1>2, <1>3 DEF CatalogueOK

LEMMA NothingCounted ==
    ASSUME NEW r, r.seen = 0, r.counted = <<>>, r.tables = <<>>, ~r.truncated, r.at # "upserted"
    PROVE  Counts(r) /\ Sourced(r) /\ Entered(r)
  <1>1. Among(<<>>) = {} /\ Len(<<>>) = 0
    BY DEF Among
  <1>2. Counts(r)
    BY <1>1, CapAssumption DEF Counts
  <1> QED
    BY <1>1, <1>2 DEF Sourced, Entered

LEMMA ArriveInOrder ==
    ASSUME CallsOK, [Next]_vars, ServiceOK, CatalogueOK, NEW t \in Clients, NEW job \in Jobs[t], Arrive(t, job)
    PROVE  CatalogueOK'
  <1>1. request \in [Clients -> RequestType]
    BY Facts
  <1>2. PICK r, at, id : /\ r = request'[t] /\ at = (IF app[Home[t]] = Nobody THEN "make" ELSE "take")
                         /\ id = EntryId(job, served + 1)
    OBVIOUS
  <1>3. r = [NoRequest EXCEPT !.job = job, !.id = id, !.at = at]
    BY <1>1, <1>2 DEF Arrive
  <1>4. r.seen = 0 /\ r.at = at /\ r.counted = <<>> /\ r.tables = <<>> /\ r.truncated = FALSE
    BY <1>3 DEF NoRequest
  <1>5. at # "upserted"
    BY <1>2
  <1>6. Counts(r) /\ Sourced(r) /\ (\A d \in Among(r.counted) : FALSE)
    <2>1. Among(<<>>) = {}
      BY DEF Among
    <2> QED
      BY <1>4, <1>5, <2>1, NothingCounted
  <1>7. InOrder(t)'
    BY <1>2, <1>4, <1>5, <1>6 DEF InOrder, Counts, Sourced, Scanned, Entered, Asking, At
  <1>8. ASSUME NEW d \in Clients, d # t PROVE InOrder(d)'
    <2>1. request'[d] = request[d]
      BY <1>8, ArriveOK, ServedKeeps
    <2>2. call' = call
      BY DEF Arrive, vars
    <2> QED
      BY <2>1, <2>2, OrderLasts DEF CatalogueOK
  <1> QED
    BY <1>7, <1>8 DEF CatalogueOK

LEMMA CatalogueStep ==
    ASSUME CallsOK, UpsertsEnd, ServiceOK, CatalogueOK, [FacadeNext]_facadeVars
    PROVE  CatalogueOK'
  <1>1. [Next]_vars
    BY MetastoreStep
  <1>2. ASSUME request' = request, \A d \in Clients : call'[d].op = call[d].op PROVE CatalogueOK'
    BY <1>1, <1>2, OrderLasts DEF CatalogueOK
  <1>3. ASSUME NEW t \in Clients, StoreStep(t) PROVE CatalogueOK'
    BY <1>2, <1>3, StepFrame DEF StoreStep, service, CallsOK, Frame
  <1>4. ASSUME NEW t \in Clients, Serve(t) PROVE CatalogueOK'
    BY <1>1, <1>3, <1>4, ServeInOrder
  <1>5. ASSUME NEW t \in Clients, NEW job \in Jobs[t], Arrive(t, job) PROVE CatalogueOK'
    BY <1>1, <1>5, ArriveInOrder
  <1>6. ASSUME NEW p \in Processes, Shutdown(p) PROVE CatalogueOK'
    BY <1>2, <1>6 DEF Shutdown, Close
  <1>7. ASSUME NEW i \in Ids, Age(i), UNCHANGED service PROVE CatalogueOK'
    BY <1>2, <1>7 DEF Age, service
  <1>8. CASE UNCHANGED facadeVars
    BY <1>2, <1>8 DEF facadeVars, service, vars
  <1> QED
    BY <1>3, <1>4, <1>5, <1>6, <1>7, <1>8 DEF FacadeNext, Rest

LEMMA CatalogueStarts == FacadeInit => CatalogueOK
  <1>1. /\ NoRequest.seen = 0 /\ NoRequest.counted = <<>> /\ NoRequest.tables = <<>>
        /\ NoRequest.truncated = FALSE /\ NoRequest.at = "idle"
    BY DEF NoRequest
  <1>2. Counts(NoRequest) /\ Sourced(NoRequest) /\ Entered(NoRequest)
    BY <1>1, NothingCounted
  <1>3. FacadeInit => \A t \in Clients : request[t] = NoRequest
    BY DEF FacadeInit
  <1> QED
    BY <1>1, <1>2, <1>3 DEF CatalogueOK, InOrder, Asking, At

LEMMA CatalogueGives == ASSUME ServiceOK, CatalogueOK PROVE CatalogueCounted
  <1> SUFFICES ASSUME NEW t \in Clients
               PROVE  LET r == request[t] IN
                        /\ Len(r.counted) <= r.seen /\ r.seen <= MaxTables
                        /\ r.truncated => r.seen = MaxTables
                        /\ \A i \in DOMAIN r.counted :
                             /\ InCatalogue(r.counted[i])
                             /\ \E j \in DOMAIN r.scanned : \E k \in DOMAIN Listing[r.scanned[j]] :
                                  Listing[r.scanned[j]][k] = r.counted[i]
    BY DEF CatalogueCounted
  <1>1. PICK r : r = request[t]
    OBVIOUS
  <1>2. r \in RequestType /\ Counts(r) /\ Sourced(r) /\ Entered(r)
    BY <1>1, Facts DEF CatalogueOK, InOrder
  <1>3. ASSUME NEW i \in DOMAIN r.counted, NEW d, d = r.counted[i]
        PROVE  /\ InCatalogue(d)
               /\ \E j \in DOMAIN r.scanned : \E k \in DOMAIN Listing[r.scanned[j]] :
                    Listing[r.scanned[j]][k] = d
    <2>1. d \in Among(r.counted) /\ d \in Datasets
      BY <1>2, <1>3 DEF Among, RequestType
    <2>2. InCatalogue(d)
      BY <1>2, <2>1, TableKeys DEF Entered, InCatalogue
    <2>3. PICK s \in Among(r.scanned) : d \in Among(Listing[s])
      BY <1>2, <2>1 DEF Sourced, Scanned
    <2>4. PICK j \in DOMAIN r.scanned : s = r.scanned[j]
      BY DEF Among
    <2>5. PICK k \in DOMAIN Listing[s] : d = Listing[s][k]
      BY <2>3 DEF Among
    <2> QED
      BY <2>2, <2>4, <2>5
  <1>4. Len(r.counted) <= r.seen /\ r.seen <= MaxTables /\ (r.truncated => r.seen = MaxTables)
    BY <1>2 DEF Counts
  <1>5. \A i \in DOMAIN r.counted :
          /\ InCatalogue(r.counted[i])
          /\ \E j \in DOMAIN r.scanned : \E k \in DOMAIN Listing[r.scanned[j]] : Listing[r.scanned[j]][k] = r.counted[i]
    <2>1. SUFFICES ASSUME NEW i \in DOMAIN r.counted
                   PROVE  /\ InCatalogue(r.counted[i])
                          /\ \E j \in DOMAIN r.scanned : \E k \in DOMAIN Listing[r.scanned[j]] :
                               Listing[r.scanned[j]][k] = r.counted[i]
      OBVIOUS
    <2>2. PICK d : d = r.counted[i]
      OBVIOUS
    <2> QED
      BY <1>3, <2>2
  <1> QED
    BY <1>1, <1>4, <1>5

(* What bootstrap_on_connect counts as registered is in the metastore with  *)
(* all its columns and comes from a schema named as scanned; it describes   *)
(* no more tables than the cap, and says that it was cut short only when    *)
(* the cap was reached: whatever else is served, lost, deleted and closed   *)
(* meanwhile, for every number of clients, schemas and tables.              *)
THEOREM CataloguesAreCounted == FacadeSpec => []CatalogueCounted
  <1>1. FacadeSpec => []CallsOK
    BY ServiceUsesMetastore, Typing DEF UsesMetastore
  <1>2. FacadeInit => UpsertsEnd
    BY UpsertsStart DEF FacadeInit
  <1>3. CallsOK /\ ServiceOK /\ UpsertsEnd /\ [FacadeNext]_facadeVars => UpsertsEnd'
    BY MetastoreStep, UpsertsKept
  <1>4. CallsOK /\ UpsertsEnd /\ ServiceOK /\ CatalogueOK /\ [FacadeNext]_facadeVars => CatalogueOK'
    BY CatalogueStep
  <1>5. ServiceOK /\ CatalogueOK => CatalogueCounted
    BY CatalogueGives
  <1> QED
    BY <1>1, <1>2, <1>3, <1>4, <1>5, CatalogueStarts, ServiceTyping, PTL DEF FacadeSpec
=============================================================================
