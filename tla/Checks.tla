------------------------------- MODULE Checks -------------------------------
(***************************************************************************)
(* checks/base.py, builtin.py, custom_sql.py and expectations.py: one      *)
(* check is run against the warehouse.  Its statements are sent one after  *)
(* the other, others may write in between, each may fail; what they found  *)
(* becomes an outcome, and the outcome with the threshold and the severity *)
(* of the check a status.                                                  *)
(*                                                                         *)
(* Ratios are counted in ten-thousandths.                                  *)
(***************************************************************************)
EXTENDS Warehouse

CONSTANTS
    Specs,       \* the checks that are run
    Blank, Matching, LengthOf, \* of the values: blank, matching the pattern, how long
    Now,         \* the clock of the warehouse
    Empty,       \* expectations: the query returned no row
    NamesIn,     \* of the types of the catalogs: the texts that occur in each, in any case
    Breakable    \* what may fail: "statement", "sample"

VARIABLES
    at,          \* where the run of the check is
    spec,        \* the check
    views,       \* what each of its statements has seen
    samples,     \* the cells of the rows kept as evidence
    result,      \* its CheckResult: status, rows_scanned, rows_failed
    worlds,      \* history: every state of the warehouse while it ran
    broken       \* history: what failed of it: "nothing", "statement" or "sample"

evaluation == <<at, spec, views, samples, result, worlds, broken>>

Full == 10000

Check(type) ==
    [type |-> type, valid |-> TRUE, where |-> Cells, min |-> None, max |-> None, equals |-> None, values |-> {},
     ignore_nulls |-> TRUE, inclusive |-> TRUE, negate |-> FALSE, strict |-> FALSE, expected |-> <<>>,
     function |-> "avg", operator |-> "eq", shape |-> "row_count", max_rows |-> 1000,
     threshold |-> None, severity |-> "error", sample_limit |-> 10]

NoResult == [status |-> "none", scanned |-> None, failed |-> None]

RowTypes == {"not_null", "not_blank", "accepted_values", "rejected_values", "range", "regex", "length"}
CheckTypes ==
    RowTypes \cup {"completeness", "unique", "primary_key", "no_duplicate_rows", "row_count", "not_empty",
                   "freshness", "referential_integrity", "schema", "column_exists", "aggregate", "custom_sql",
                   "sql_returns_no_rows", "sql_returns_rows", "compare_queries"}

Ordering  == {"gt", "gte", "lt", "lte", "between"}
Operators == Ordering \cup {"eq", "ne", "in", "not_in", "is_null", "is_not_null", "empty", "not_empty"}

(* The functions of aggregate, but stddev; mean is avg.                     *)
Functions == {"avg", "sum", "min", "max", "count", "count_distinct"}

(* What a check may be declared with: the fields of CheckSpec, and of the   *)
(* parameters any, but that the two with a default of their own are there.  *)
(* valid is FALSE for what validate() or required_param() refuses whatever  *)
(* the values: no dataset, column, query or parameter where the type needs  *)
(* one, a parameter it does not know, a function aggregate does not have.   *)
Declared(s) ==
    /\ s \in [type : CheckTypes, valid : BOOLEAN, where : SUBSET Cells, values : SUBSET Cells, expected : {s.expected},
              min : Int \cup {None}, max : Int \cup {None}, equals : Int \cup {None},
              ignore_nulls : BOOLEAN, inclusive : BOOLEAN, negate : BOOLEAN, strict : BOOLEAN,
              function : Functions, operator : Operators, shape : {s.shape}, max_rows : Nat,
              threshold : Nat \cup {None}, severity : {"info", "warn", "error", "critical"}, sample_limit : Nat]
    /\ s.type \in {"completeness", "sql_returns_rows"} => s.min # None
    /\ s.type \in {"schema", "column_exists"} => IsFiniteSet(DOMAIN s.expected)

ASSUME ChecksAssumption ==
    /\ Blank \subseteq Values /\ Matching \subseteq Values /\ LengthOf \in [Values -> Nat] /\ Now \in Int
    /\ \A s \in Specs : Declared(s)
    /\ \A w \in Worlds : /\ IsFiniteSet(DOMAIN w.columns)
                       /\ \A n \in DOMAIN w.columns : w.columns[n] \in NamesIn[w.columns[n]]

---------------------------------------------------------------------------
(* RowPredicateCheck: the failing_predicate of each type.                   *)

NotNullFails        == {Null}
NotBlankFails       == {Null} \cup Blank
AcceptedFails(s)    == NotIn(s.values) \cup (IF s.ignore_nulls THEN {} ELSE {Null})
\* IN (): no value for SQLite; other engines refuse the statement, which is QueryFails.
RejectedFails(s)    == In(s.values)
RangeFails(s)       ==
    {v \in Values : \/ s.min # None /\ (v < s.min \/ (~s.inclusive /\ v = s.min))
                    \/ s.max # None /\ (v > s.max \/ (~s.inclusive /\ v = s.max))}
RegexFails(s)       ==
    (IF s.negate THEN Matching ELSE Values \ Matching) \cup (IF s.ignore_nulls THEN {} ELSE {Null})
LengthFails(s)      ==
    {v \in Values : \/ s.equals # None /\ LengthOf[v] # s.equals
                    \/ s.min # None /\ LengthOf[v] < s.min
                    \/ s.max # None /\ LengthOf[v] > s.max}

FailingPredicate(s) ==
    CASE s.type = "not_null"        -> NotNullFails
      [] s.type = "not_blank"       -> NotBlankFails
      [] s.type = "accepted_values" -> AcceptedFails(s)
      [] s.type = "rejected_values" -> RejectedFails(s)
      [] s.type = "range"           -> RangeFails(s)
      [] s.type = "regex"           -> RegexFails(s)
      [] s.type = "length"          -> LengthFails(s)

---------------------------------------------------------------------------
(* evaluate(): what each type makes of what its statements have seen.       *)

Outcome(passed, scanned, failed) == [passed |-> passed, scanned |-> scanned, failed |-> failed]

RowPredicate(s, v) ==
    LET failing == Count(v[1].table, s.where \cap FailingPredicate(s))
    IN  Outcome(failing = 0, Count(v[1].table, s.where), failing)

Completeness(s, v) ==
    LET total == Count(v[1].table, s.where)
        nulls == Count(v[1].table, s.where \cap {Null})
    IN  Outcome(IF total = 0 THEN Full >= s.min ELSE (total - nulls) * Full >= s.min * total, total, nulls)

(* The groups come from the first statement, the number of rows from a      *)
(* second one.                                                              *)
Grouped(s) == IF s.type = "unique" /\ s.ignore_nulls THEN s.where \ {Null} ELSE s.where

Unique(s, v) ==
    Outcome(Repeated(v[1].table, Grouped(s)) = {}, Count(v[2].table, Grouped(s)), Surplus(v[1].table, Grouped(s)))

PrimaryKey(s, v) ==
    LET unique == Unique(s, v)
        nulls  == Count(v[3].table, s.where \cap {Null})
    IN  Outcome(unique.passed /\ nulls = 0, unique.scanned, unique.failed + nulls)

(* The first statement reads the catalog.                                   *)
NoDuplicateRows(s, v) ==
    Outcome(Repeated(v[2].table, s.where) = {}, Count(v[3].table, s.where), Surplus(v[2].table, s.where))

RowCount(s, v) ==
    LET count  == Count(v[1].table, s.where)
        passed == IF s.equals # None THEN count = s.equals
                  ELSE IF s.min = None /\ s.max = None THEN count > 0
                  ELSE (s.min # None => count >= s.min) /\ (s.max # None => count <= s.max)
    IN  Outcome(passed, count, IF passed THEN 0 ELSE count)

NotEmpty(s, v) == RowCount([s EXCEPT !.min = IF s.min = None THEN 1 ELSE s.min], v)

(* Values are times; max is the age allowed.                                *)
Freshness(s, v) ==
    LET newest == Largest(v[1].table, s.where)
    IN  Outcome(newest # None /\ Now - newest <= s.max, None, None)

Referring(s)  == IF s.ignore_nulls THEN s.where \ {Null} ELSE s.where
\* Mutant: NOT IN the other table, where a NULL hides every orphan.
OrphansNotIn(s, w) == IF w.parent[Null] > 0 THEN {} ELSE Referring(s) \ Present(w.parent, Values)
Orphans(s, w) == Referring(s) \ Present(w.parent, Values)

ReferentialIntegrity(s, v) ==
    LET orphans == Count(v[1].table, Orphans(s, v[1]))
    IN  Outcome(orphans = 0, Count(v[1].table, Referring(s)), orphans)

(* expected: the types wanted of columns by name, None where only the name  *)
(* is given and, with check_types off, for all.  A column has drifted when  *)
(* the text wanted does not occur in its type: int is found in bigint.      *)
Schema(s, v) ==
    LET actual     == v[1].columns
        missing    == DOMAIN s.expected \ DOMAIN actual
        unexpected == IF s.strict THEN DOMAIN actual \ DOMAIN s.expected ELSE {}
        drifted    == {n \in DOMAIN s.expected \cap DOMAIN actual : s.expected[n] \notin {None} \cup NamesIn[actual[n]]}
        problems   == Cardinality(missing) + Cardinality(unexpected) + Cardinality(drifted)
    IN  Outcome(problems = 0, Cardinality(DOMAIN actual), problems)

ColumnExists(s, v) ==
    LET missing == DOMAIN s.expected \ DOMAIN v[1].columns
    IN  Outcome(missing = {}, None, Cardinality(missing))

(* The value of the aggregate times the number Scale, so that an average is *)
(* a whole number; None for NULL.                                           *)
Scale(s, table) == IF s.function = "avg" THEN Count(table, s.where \cap Values) ELSE 1

AggregateValue(s, table) ==
    LET held == Present(table, s.where \cap Values)
        sum  == MapThenSumSet(LAMBDA c : c * table[c], held)
    IN  CASE s.function = "count"          -> Count(table, held)
          [] s.function = "count_distinct" -> Cardinality(held)
          [] s.function = "min"            -> Least(table, s.where)
          [] s.function = "max"            -> Largest(table, s.where)
          [] s.function \in {"sum", "avg"} -> IF held = {} THEN None ELSE sum

Aggregate(s, v) ==
    LET value == AggregateValue(s, v[1].table)
        scale == Scale(s, v[1].table)
    IN  Outcome(/\ value # None
                /\ s.equals # None => value = s.equals * scale
                /\ s.min # None => value >= s.min * scale
                /\ s.max # None => value <= s.max * scale, None, None)

---------------------------------------------------------------------------
(* Checks whose SQL is the user's: a query that returns the rows with some  *)
(* values, smallest first.  execute() fetches max_rows and one more.        *)

Returned(table, s)  == Count(table, s.values)
Fetched(n, limit)   == IF n > limit THEN limit ELSE n
Truncated(n, limit) == n > limit

(* expectations.py: reduce_result and compare.                              *)
Reduced(s, table) ==
    IF s.shape = "row_count" THEN Returned(table, s)
    ELSE IF Present(table, s.values) = {} THEN Empty
    ELSE IF table[Null] > 0 /\ Null \in s.values THEN Null ELSE Least(table, s.values)

Compare(observed, s) ==
    CASE s.operator = "is_null"     -> observed \in {Empty, Null}
      [] s.operator = "is_not_null" -> observed \notin {Empty, Null}
      [] s.operator = "empty"       -> observed \in {Empty, Null} \/ observed = 0
      [] s.operator = "not_empty"   -> observed \notin {Empty, Null} /\ observed # 0
      [] OTHER                      ->
           /\ observed # Empty
           /\ CASE s.operator = "eq"      -> observed = s.equals
                [] s.operator = "ne"      -> observed # s.equals
                [] s.operator = "gt"      -> observed > s.min
                [] s.operator = "gte"     -> observed >= s.min
                [] s.operator = "lt"      -> observed < s.max
                [] s.operator = "lte"     -> observed <= s.max
                [] s.operator = "between" -> s.min <= observed /\ observed <= s.max
                [] s.operator = "in"      -> observed \in s.expected
                [] s.operator = "not_in"  -> observed \notin s.expected

CustomSQL(s, v) ==
    LET rows   == Returned(v[1].table, s)
        passed == Compare(Reduced(s, v[1].table), s)
    IN  Outcome(passed, rows, IF passed THEN None ELSE IF rows = 0 THEN 1 ELSE rows)

SQLReturnsNoRows(s, v) ==
    LET rows == Fetched(Returned(v[1].table, s), s.max_rows) IN Outcome(rows = 0, rows, rows)

\* Mutant: the number of missing rows may be negative.
SQLReturnsRowsBelow(s, v) ==
    LET rows == Fetched(Returned(v[1].table, s), 100) IN Outcome(rows >= s.min, rows, rows - s.min)

SQLReturnsRows(s, v) ==
    LET rows == Fetched(Returned(v[1].table, s), IF s.min > 100 THEN s.min ELSE 100)
    IN  Outcome(rows >= s.min, rows, IF rows >= s.min THEN 0 ELSE s.min - rows)

(* All the rows of the one table and of the other, in any order.            *)
CompareQueries(s, v) ==
    LET left   == Count(v[1].table, Cells)
        right  == Count(v[2].parent, Cells)
        passed == v[1].table = v[2].parent
        apart  == IF left > right THEN left - right ELSE right - left
    IN  Outcome(passed, IF left > right THEN left ELSE right,
                IF passed THEN 0 ELSE IF apart > 1 THEN apart ELSE 1)

Evaluate(s, v) ==
    CASE s.type \in RowTypes               -> RowPredicate(s, v)
      [] s.type = "completeness"           -> Completeness(s, v)
      [] s.type = "unique"                 -> Unique(s, v)
      [] s.type = "primary_key"            -> PrimaryKey(s, v)
      [] s.type = "no_duplicate_rows"      -> NoDuplicateRows(s, v)
      [] s.type = "row_count"              -> RowCount(s, v)
      [] s.type = "not_empty"              -> NotEmpty(s, v)
      [] s.type = "freshness"              -> Freshness(s, v)
      [] s.type = "referential_integrity"  -> ReferentialIntegrity(s, v)
      [] s.type = "schema"                 -> Schema(s, v)
      [] s.type = "column_exists"          -> ColumnExists(s, v)
      [] s.type = "aggregate"              -> Aggregate(s, v)
      [] s.type = "custom_sql"             -> CustomSQL(s, v)
      [] s.type = "sql_returns_no_rows"    -> SQLReturnsNoRows(s, v)
      [] s.type = "sql_returns_rows"       -> SQLReturnsRows(s, v)
      [] s.type = "compare_queries"        -> CompareQueries(s, v)

---------------------------------------------------------------------------
(* What raises: a declaration that is refused, before the first statement,  *)
(* and results nothing can be made of.                                      *)

Undeclared(s) ==
    \/ ~s.valid
    \/ s.type = "accepted_values" /\ s.values = {}
    \/ s.type = "range" /\ s.min = None /\ s.max = None
    \/ s.type = "length" /\ s.min = None /\ s.max = None /\ s.equals = None
    \/ s.type = "freshness" /\ s.max = None

Unusable(s, v) ==
    \/ s.type = "no_duplicate_rows" /\ DOMAIN v[1].columns = {}
    \/ /\ s.type = "aggregate" /\ s.min = None /\ s.max = None /\ s.equals = None
       /\ AggregateValue(s, v[1].table) # None
    \/ s.type = "custom_sql" /\ Truncated(Returned(v[1].table, s), s.max_rows)
    \/ s.type = "custom_sql" /\ s.operator \in Ordering /\ Reduced(s, v[1].table) = Null
    \/ s.type = "compare_queries" /\ \/ Truncated(Count(v[1].table, Cells), s.max_rows)
                                     \/ Truncated(Count(v[2].parent, Cells), s.max_rows)

(* How many statements a verdict takes, and after which of them offending   *)
(* rows are fetched.                                                        *)
Statements(s) ==
    CASE s.type \in {"unique", "compare_queries"}         -> 2
      [] s.type \in {"primary_key", "no_duplicate_rows"}  -> 3
      [] OTHER                                            -> 1

\* Mutant: every group is taken for a repeated one.
OffendingGroups(s, w) ==
    CASE s.type \in RowTypes -> Present(w.table, s.where \cap FailingPredicate(s))
      [] s.type \in {"unique", "primary_key"} -> Present(w.table, Grouped(s))
      [] s.type = "referential_integrity" -> Present(w.table, Orphans(s, w))
      [] s.type \in {"custom_sql", "sql_returns_no_rows"} -> Present(w.table, s.values)
      [] s.type = "compare_queries" -> Present(w.table, Cells)
      [] OTHER -> {}

(* The cells of the rows a sample is drawn from.                            *)
Offending(s, w) ==
    CASE s.type \in RowTypes -> Present(w.table, s.where \cap FailingPredicate(s))
      [] s.type \in {"unique", "primary_key"} -> Repeated(w.table, Grouped(s))
      [] s.type = "referential_integrity" -> Present(w.table, Orphans(s, w))
      [] s.type \in {"custom_sql", "sql_returns_no_rows"} -> Present(w.table, s.values)
      [] s.type = "compare_queries" -> Present(w.table, Cells)
      [] OTHER -> {}

(* The checks with the user's SQL fetch no sample: the rows of their (left) *)
(* query are the evidence, when it has not met its expectation.             *)
UserSQL == {"custom_sql", "sql_returns_no_rows", "compare_queries"}

SampledAfter(s) == IF s.type \in {"unique", "primary_key"} THEN 2 ELSE 1
WorthASample(s, v) == s.type \notin UserSQL /\ s.sample_limit > 0 /\ Offending(s, v[1]) # {}
Sampled(s, v) == WorthASample(s, v) /\ Len(v) = SampledAfter(s)

Shown(s, v) ==
    IF s.type \in UserSQL /\ s.sample_limit > 0 /\ ~Unusable(s, v) /\ ~Evaluate(s, v).passed
    THEN Offending(s, v[1]) ELSE {}

(* Check._status.                                                           *)
\* Mutant: a threshold above 1 is read as a share as well.
WithinShareOnly(s, o) ==
    /\ s.threshold # None /\ o.failed # None /\ o.scanned \notin {None, 0}
    /\ o.failed * Full <= s.threshold * o.scanned

WithinThreshold(s, o) ==
    /\ s.threshold # None /\ o.failed # None
    /\ IF s.threshold <= Full
       THEN o.scanned \notin {None, 0} /\ o.failed * Full <= s.threshold * o.scanned
       ELSE o.failed * Full <= s.threshold

Status(s, o) ==
    IF o.passed \/ WithinThreshold(s, o) THEN "passed"
    ELSE IF s.severity = "warn" THEN "warned" ELSE "failed"

---------------------------------------------------------------------------
(* Check.run *)

Errored == [status |-> "errored", scanned |-> None, failed |-> None]

Begin(s) ==
    /\ at = "idle"
    /\ spec' = s /\ views' = <<>> /\ samples' = {} /\ broken' = "nothing"
    /\ worlds' = {world}
    /\ IF Undeclared(s)
       THEN at' = "idle" /\ result' = Errored
       ELSE at' = "query" /\ result' = NoResult
    /\ UNCHANGED <<world, writes>>

(* The statements are through: the verdict.                                 *)
Verdict(s, v) ==
    IF Unusable(s, v) THEN Errored
    ELSE LET o == Evaluate(s, v)
         IN  [status |-> Status(s, o), scanned |-> o.scanned, failed |-> o.failed]

Conclude(v) == at' = "idle" /\ result' = Verdict(spec, v)

Query ==
    /\ at = "query"
    /\ views' = Append(views, world)
    /\ IF Sampled(spec, views') THEN at' = "sample" /\ UNCHANGED <<result, samples>>
       ELSE IF Len(views') < Statements(spec) THEN UNCHANGED <<at, result, samples>>
       ELSE Conclude(views') /\ samples' = samples \cup Shown(spec, views')
    /\ UNCHANGED <<world, writes, spec, worlds, broken>>

(* What a statement raises ends the check, without samples; run() never     *)
(* raises.                                                                  *)
QueryFails ==
    /\ at = "query" /\ "statement" \in Breakable
    /\ at' = "idle" /\ result' = Errored /\ samples' = {} /\ broken' = "statement"
    /\ UNCHANGED <<world, writes, spec, views, worlds>>

(* The offending rows, as they are by now.                                  *)
Sample ==
    /\ at = "sample"
    /\ \/ samples' = Offending(spec, world) /\ UNCHANGED broken
       \/ "sample" \in Breakable /\ broken' = "sample" /\ UNCHANGED samples
    /\ IF Len(views) < Statements(spec) THEN at' = "query" /\ UNCHANGED result ELSE Conclude(views)
    /\ UNCHANGED <<world, writes, spec, views, worlds>>

Others ==
    /\ Write
    /\ worlds' = IF at = "idle" THEN worlds ELSE worlds \cup {world'}
    /\ UNCHANGED <<at, spec, views, samples, result, broken>>

---------------------------------------------------------------------------
(* What a check says of a table, from the table alone.                      *)

(* Whether a row may hold a cell, by the row checks and by the keys of the  *)
(* other table.                                                             *)
Meets(s, c, w) ==
    CASE s.type \in {"not_null", "completeness"} -> c # Null
      [] s.type = "not_blank"       -> c # Null /\ c \notin Blank
      [] s.type = "accepted_values" -> c \in s.values \/ (c = Null /\ s.ignore_nulls)
      [] s.type = "rejected_values" -> c = Null \/ c \notin s.values
      [] s.type = "range"           ->
           \/ c = Null
           \/ /\ s.min # None => c > s.min \/ (s.inclusive /\ c = s.min)
              /\ s.max # None => c < s.max \/ (s.inclusive /\ c = s.max)
      [] s.type = "regex"           ->
           IF c = Null THEN s.ignore_nulls ELSE (c \in Matching) = ~s.negate
      [] s.type = "length"          ->
           c = Null \/ /\ s.equals # None => LengthOf[c] = s.equals
                       /\ s.min # None => LengthOf[c] >= s.min
                       /\ s.max # None => LengthOf[c] <= s.max
      [] s.type = "referential_integrity" ->
           (c = Null /\ s.ignore_nulls) \/ (c # Null /\ w.parent[c] > 0)

Within(s, n) ==
    /\ s.equals # None => n = s.equals
    /\ s.equals = None /\ s.min # None => n >= s.min
    /\ s.equals = None /\ s.max # None => n <= s.max
    /\ s.equals = None /\ s.min = None /\ s.max = None => n > 0

Holds(s, w) ==
    LET held == Present(w.table, s.where)
    IN  CASE s.type \in RowTypes \cup {"referential_integrity"} -> \A c \in held : Meets(s, c, w)
          [] s.type = "completeness"      ->
               /\ s.min <= Full
               /\ s.where \cap {Null} = {} \/ w.table[Null] * Full <= (Full - s.min) * Count(w.table, held)
          [] s.type = "unique"            -> \A c \in held : w.table[c] = 1 \/ (c = Null /\ s.ignore_nulls)
          [] s.type = "primary_key"       -> \A c \in held : w.table[c] = 1 /\ c # Null
          [] s.type = "no_duplicate_rows" -> \A c \in held : w.table[c] = 1
          [] s.type = "row_count"         -> Within(s, Count(w.table, held))
          [] s.type = "not_empty"         ->
               IF s.min = None /\ s.max = None /\ s.equals = None THEN held # {}
               ELSE NotEmpty(s, <<w>>).passed
          [] s.type = "freshness"         -> \E c \in held \cap Values : Now - c <= s.max
          [] s.type = "schema"            ->
               /\ DOMAIN s.expected \subseteq DOMAIN w.columns
               /\ \A n \in DOMAIN s.expected : s.expected[n] \in {None} \cup NamesIn[w.columns[n]]
               /\ s.strict => DOMAIN w.columns \subseteq DOMAIN s.expected
          [] s.type = "column_exists"     -> DOMAIN s.expected \subseteq DOMAIN w.columns
          [] s.type = "aggregate"         -> Aggregate(s, <<w>>).passed
          [] s.type = "custom_sql"        -> Compare(Reduced(s, w.table), s)
          [] s.type = "sql_returns_no_rows" -> \A c \in s.values : w.table[c] = 0
          [] s.type = "sql_returns_rows"  -> Count(w.table, s.values) >= s.min
          [] s.type = "compare_queries"   -> \A c \in Cells : w.table[c] = w.parent[c]

(* What sees no failure: NOT IN a list with a NULL, which is never TRUE (and *)
(* takes a NULL for one only when ignore_nulls is off), and a query of which *)
(* no row is fetched.                                                       *)
Blind(s) ==
    \/ s.type = "accepted_values" /\ Null \in s.values
    \/ s.type = "sql_returns_no_rows" /\ s.max_rows = 0

Verdicts == {"passed", "failed", "warned"}
Settled  == at = "idle" /\ result.status \in Verdicts /\ ~Blind(spec)

CheckTypeOK ==
    /\ at \in {"idle", "query", "sample", "count", "batch", "single", "top"}
    /\ world \in Worlds /\ writes \in 0..MaxWrites
    /\ worlds \subseteq Worlds
    /\ samples \subseteq Cells
    /\ \A i \in 1..Len(views) : views[i] \in Worlds
    /\ spec # None => Len(views) <= Statements(spec)
    /\ result.status \in Verdicts \cup {"none", "errored"}
    /\ result.scanned \in Nat \cup {None} /\ result.failed \in Nat \cup {None}
    /\ broken \in {"nothing", "statement", "sample"}

(* The types whose statements look at the tables more than once see each    *)
(* part of the rule at a moment of its own: that the keys are unique at one *)
(* and that none is NULL at a later one, the left rows and then the right.  *)
TwoMoments == {"primary_key", "compare_queries"}

HoldsAcross(s, v, w) ==
    CASE s.type = "primary_key"     ->
           /\ \A c \in Present(v.table, s.where) : v.table[c] = 1
           /\ Null \notin Present(w.table, s.where)
      [] s.type = "compare_queries" -> \A c \in Cells : v.table[c] = w.parent[c]
      [] OTHER                      -> Holds(s, w)

(* A verdict is about the tables: a check that passes, with no tolerance,   *)
(* held at a moment of its run, and one that fails or warns did not hold at *)
(* a moment of it, whatever others committed between its statements, to one *)
(* table or to both, and whether or not its sample could be had.  Of the    *)
(* types that look twice a pass says so of two moments, and so does a       *)
(* failure of compare_queries: while others write, a table that always had  *)
(* a key out of order can pass and tables that always agreed can fail.      *)
(* What is blind is left out, and not_empty with a parameter, which         *)
(* validate() lets pass, is row_count with a floor of 1.                    *)
VerdictsTrue ==
    Settled =>
      /\ result.status = "passed" /\ spec.threshold = None =>
           \E v, w \in worlds : (v = w \/ spec.type \in TwoMoments) /\ HoldsAcross(spec, v, w)
      /\ result.status \in {"failed", "warned"} =>
           \E v, w \in worlds : (v = w \/ spec.type = "compare_queries") /\ ~HoldsAcross(spec, v, w)

(* The rows that break the rule of a check that counts them, of how many.   *)
Counting  == RowTypes \cup {"referential_integrity", "completeness", "unique"}
Looked(s) == IF s.type \in {"unique", "referential_integrity"} /\ s.ignore_nulls THEN s.where \ {Null} ELSE s.where
Violations(s, w) ==
    LET held == Present(w.table, Looked(s))
    IN  IF s.type = "unique" THEN Count(w.table, held) - Cardinality(held)
        ELSE Count(w.table, {c \in held : ~Meets(s, c, w)})

(* The threshold forgives what it says, no more and no less: where nobody   *)
(* wrote, a check that counts its offending rows passes exactly when it     *)
(* holds or when they are within the share of the rows looked at (up to 1)  *)
(* or the number (above) given; with severity warn it warns where it would  *)
(* have failed.                                                             *)
Tolerated ==
    Settled /\ spec.type \in Counting /\ Cardinality(worlds) = 1 =>
        LET w     == CHOOSE w \in worlds : TRUE
            rows  == Count(w.table, Looked(spec))
            wrong == Violations(spec, w)
            forgiven == /\ spec.threshold # None
                        /\ IF spec.threshold > Full THEN wrong * Full <= spec.threshold
                           ELSE rows > 0 /\ wrong * Full <= spec.threshold * rows
        IN  IF Holds(spec, w) \/ forgiven THEN result.status = "passed"
            ELSE result.status = (IF spec.severity = "warn" THEN "warned" ELSE "failed")

(* Whether a row with a cell speaks against the table: a key that is there  *)
(* twice, a row the user's SQL asks for, one that breaks the rule.          *)
Speaks(s, c, w) ==
    /\ w.table[c] > 0
    /\ s.type \in {"unique", "primary_key"} => w.table[c] > 1
    /\ s.type \in {"custom_sql", "sql_returns_no_rows"} => c \in s.values
    /\ s.type \in RowTypes \cup {"referential_integrity"} => ~Meets(s, c, w)

(* The evidence is evidence: every sampled cell was in the table and spoke  *)
(* against it at some moment of the run, a check that passes without a      *)
(* threshold shows none, and one that fails by what it samples shows some   *)
(* unless the sample was lost or others wrote meanwhile.                    *)
Evidence ==
    Settled =>
      /\ \A c \in samples : \E w \in worlds : Speaks(spec, c, w)
      /\ result.status = "passed" /\ spec.threshold = None => samples = {}
      /\ /\ result.status \in {"failed", "warned"} /\ spec.sample_limit > 0
         /\ \/ spec.type = "sql_returns_no_rows"
            \/ /\ spec.type \in Counting \ {"completeness"}
               /\ broken = "nothing" /\ Cardinality(worlds) = 1
         => samples # {}
=============================================================================
