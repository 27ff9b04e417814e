----------------------------- MODULE MCEvaluation -----------------------------
(***************************************************************************)
(* Small tables for the checks of a suite and tables of a thousand rows,   *)
(* with the limits of the code, for the profiler.                          *)
(***************************************************************************)
EXTENDS Profiling

MCValues == 0..11

Holding(cells, n) == [c \in Cells |-> IF c \in DOMAIN cells THEN cells[c] ELSE n]
Few(a, b, n) == [c \in Cells |-> CASE c = 1 -> a [] c = 2 -> b [] c = Null -> n [] OTHER -> 0]

MCSmall == {Few(0, 0, 0), Few(1, 0, 0), Few(1, 1, 0), Few(2, 1, 0), Few(1, 0, 1), Few(1, 1, 1), Few(0, 0, 2)}
MCLarge ==
    {Few(500, 500, 0), Few(980, 0, 20), [c \in Cells |-> IF c = Null THEN 0 ELSE 1],
     [c \in Cells |-> IF c \in 0..9 THEN 100 ELSE IF c = 10 THEN 1 ELSE 0]}
MCParents  == {Few(1, 0, 1), Few(1, 1, 0)}
Typed      == [id |-> "integer", at |-> "date"]

(* Every small table beside either parent, two of them with another         *)
(* catalog, and the large ones.                                             *)
MCWorlds ==
    [table : MCSmall, parent : MCParents, columns : {Typed}]
      \cup [table : {Few(1, 1, 0), Few(2, 1, 0)}, parent : {Few(1, 1, 0)}, columns : {[id |-> "text"]}]
      \cup [table : MCLarge, parent : {Few(1, 1, 0)}, columns : {Typed}]

MCNamesIn  == [integer |-> {"integer", "int"}, date |-> {"date"}, text |-> {"text"}]

MCBlank    == {0, 1}
MCMatching == {2}
MCLengthOf == [v \in Values |-> v]

MCColumns == {[kind |-> k, hint |-> h] : k \in {"string", "numeric", "temporal", "binary"}, h \in {TRUE}}

(* Each type as its documentation shows it, with a threshold as a share and *)
(* as a number, a scope, the severity warn, and its edges.                  *)
Plain(types) == {Check(t) : t \in types}

RowSpecs ==
    Plain({"not_null", "not_blank", "regex"})
      \cup {[Check("not_null") EXCEPT !.threshold = t] : t \in {3333, 5000, Full, 2 * Full}}
      \cup {[Check("not_null") EXCEPT !.threshold = 3333, !.severity = "warn"]}
      \cup {[Check("not_blank") EXCEPT !.where = {1, 2}, !.sample_limit = 0]}
      \cup {[Check("accepted_values") EXCEPT !.values = vs] : vs \in {{}, {1}, {1, Null}}}
      \cup {[Check("accepted_values") EXCEPT !.values = {1, 2}, !.ignore_nulls = FALSE]}
      \cup {[Check("rejected_values") EXCEPT !.values = vs] : vs \in {{}, {1}, {2, Null}}}
      \cup {[Check("range") EXCEPT !.min = l, !.max = 1] : l \in {None, 1}}
      \cup {[Check("range") EXCEPT !.min = 1, !.max = 3, !.inclusive = FALSE], Check("range")}
      \cup {[Check("regex") EXCEPT !.negate = TRUE, !.ignore_nulls = FALSE]}
      \cup {[Check("length") EXCEPT !.min = 2], [Check("length") EXCEPT !.equals = 1, !.threshold = 5000],
            Check("length")}

KeySpecs ==
    Plain({"unique", "primary_key", "no_duplicate_rows", "referential_integrity"})
      \cup {[Check("unique") EXCEPT !.ignore_nulls = FALSE, !.threshold = t] : t \in {None, 3333, 2 * Full}}
      \cup {[Check("unique") EXCEPT !.where = {2}], [Check("referential_integrity") EXCEPT !.ignore_nulls = FALSE],
            [Check("referential_integrity") EXCEPT !.threshold = 5000]}

TableSpecs ==
    Plain({"row_count", "not_empty"})
      \cup {[Check("not_empty") EXCEPT !.equals = 0], [Check("not_empty") EXCEPT !.max = 2]}
      \cup {[Check("completeness") EXCEPT !.min = m, !.threshold = t] : m \in {6667, Full, Full + 1}, t \in {None, 5000}}
      \cup {[Check("row_count") EXCEPT !.min = 1, !.max = 2], [Check("row_count") EXCEPT !.equals = 3]}
      \cup {Check("freshness"), [Check("freshness") EXCEPT !.max = 24], [Check("freshness") EXCEPT !.max = 23]}
      \cup {[Check(t) EXCEPT !.expected = e] : t \in {"schema", "column_exists"},
              e \in {[id |-> None], [id |-> "int"], [id |-> None, at |-> "date"]}}
      \cup {[Check("schema") EXCEPT !.expected = [id |-> None], !.strict = TRUE]}
      \cup {[Check("aggregate") EXCEPT !.function = f, !.min = 1, !.max = 2] :
              f \in {"avg", "sum", "min", "max", "count", "count_distinct"}}
      \cup {Check("aggregate"), [Check("aggregate") EXCEPT !.valid = FALSE]}

Custom == [Check("custom_sql") EXCEPT !.values = {2, Null}, !.max_rows = 2]
QuerySpecs ==
    {[Custom EXCEPT !.operator = "eq", !.equals = 0], [Custom EXCEPT !.operator = "empty"]}
      \cup {[Custom EXCEPT !.shape = "scalar", !.operator = o, !.min = 1, !.max = 2, !.equals = 2,
                           !.expected = {2, 3}] :
              o \in {"is_null", "not_empty", "ne", "gte", "between", "in"}}
      \cup {[Check("sql_returns_no_rows") EXCEPT !.values = {2, Null}, !.max_rows = 2],
            [Check("sql_returns_no_rows") EXCEPT !.values = {2}, !.max_rows = 0],
            [Check("sql_returns_rows") EXCEPT !.values = {2, Null}, !.min = 1],
            Check("compare_queries"), [Check("compare_queries") EXCEPT !.max_rows = 2]}

MCSpecs == RowSpecs \cup KeySpecs \cup TableSpecs \cup QuerySpecs

(* Only texts, and nothing fails.                                           *)
MCTexts == {[kind |-> "string", hint |-> FALSE]}
=============================================================================
