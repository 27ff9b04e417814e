-------------------------- MODULE EvaluationProofs --------------------------
(***************************************************************************)
(* Checks and Profiling, for any values, tables, parameters and writers:   *)
(* what a verdict says is so, and so is what a profile suggests.           *)
(***************************************************************************)
EXTENDS Profiling, WarehouseProofs

(* A table of the warehouse, and some of its cells.                         *)
LEMMA Tables ==
    ASSUME NEW w \in Worlds
    PROVE  /\ w.table \in [Cells -> Nat] /\ w.parent \in [Cells -> Nat]
           /\ IsFiniteSet(DOMAIN w.columns)
BY WorldsAssumption, ChecksAssumption

LEMMA Rows ==
    ASSUME NEW t \in [Cells -> Nat], NEW S \in SUBSET Cells
    PROVE  /\ IsFiniteSet(S) /\ \A x \in S : t[x] \in Nat
           /\ Count(t, S) \in Nat
           /\ Count(t, S) = 0 <=> \A x \in S : t[x] = 0
           /\ Count(t, Present(t, S)) = Count(t, S)
           /\ Count(t, S) = 0 <=> Present(t, S) = {}
<1>1. IsFiniteSet(S) /\ \A x \in S : t[x] \in Nat
  BY CellsFinite
<1>2. Count(t, S) \in Nat
  BY <1>1, CountType
<1>3. Count(t, S) = 0 <=> \A x \in S : t[x] = 0
  BY <1>1, CountZero
<1>4. Count(t, Present(t, S)) = Count(t, S)
  BY <1>1, CountPresent
<1>5. (\A x \in S : t[x] = 0) <=> Present(t, S) = {}
  <2>1. \A x \in S : t[x] = 0 <=> ~ (t[x] > 0)
    BY <1>1
  <2> QED
    BY <2>1 DEF Present
<1> QED
  BY <1>1, <1>2, <1>3, <1>4, <1>5

LEMMA Parameters ==
    ASSUME NEW s, Declared(s)
    PROVE  /\ s.type \in CheckTypes /\ s.where \in SUBSET Cells /\ s.values \in SUBSET Cells
           /\ s.min \in Int \cup {None} /\ s.max \in Int \cup {None} /\ s.equals \in Int \cup {None}
           /\ s.ignore_nulls \in BOOLEAN /\ s.inclusive \in BOOLEAN /\ s.negate \in BOOLEAN /\ s.strict \in BOOLEAN
           /\ s.max_rows \in Nat /\ s.threshold \in Nat \cup {None} /\ s.sample_limit \in Nat
           /\ s.type \in {"completeness", "sql_returns_rows"} => s.min \in Int
           /\ s.type \in {"schema", "column_exists"} => IsFiniteSet(DOMAIN s.expected)
BY DEF Declared

---------------------------------------------------------------------------
(* The row checks: a row counts as failing when it may not be there.        *)

LEMMA FailingRows ==
    ASSUME NEW s, Declared(s), s.type \in RowTypes, ~Blind(s), NEW w, NEW c \in Cells
    PROVE  c \in FailingPredicate(s) <=> ~Meets(s, c, w)
<1>1. Blank \subseteq Values /\ Matching \subseteq Values /\ LengthOf \in [Values -> Nat]
  BY ChecksAssumption
<1>2. Null \notin Values /\ Values \subseteq Int /\ None \notin Int /\ Cells = Values \cup {Null}
  BY ValuesAssumption DEF Cells
<1>3. CASE s.type = "not_null"
  BY <1>3 DEF FailingPredicate, Meets, NotNullFails
<1>4. CASE s.type = "not_blank"
  BY <1>4 DEF FailingPredicate, Meets, NotBlankFails
<1>5. CASE s.type = "accepted_values"
  <2>1. FailingPredicate(s) = AcceptedFails(s)
    BY <1>5 DEF FailingPredicate
  <2>2. Meets(s, c, w) <=> c \in s.values \/ (c = Null /\ s.ignore_nulls)
    BY <1>5 DEF Meets
  <2>3. Null \notin s.values
    BY <1>5 DEF Blind
  <2> QED
    BY <1>2, <2>1, <2>2, <2>3 DEF AcceptedFails, NotIn
<1>6. CASE s.type = "rejected_values"
  BY <1>2, <1>6 DEF FailingPredicate, Meets, RejectedFails, In
<1>7. CASE s.type = "range"
  <2>1. FailingPredicate(s) = RangeFails(s)
    BY <1>7 DEF FailingPredicate
  <2>2. Meets(s, c, w) <=>
           \/ c = Null
           \/ /\ s.min # None => c > s.min \/ (s.inclusive /\ c = s.min)
              /\ s.max # None => c < s.max \/ (s.inclusive /\ c = s.max)
    BY <1>7 DEF Meets
  <2>3. s.min \in Int \cup {None} /\ s.max \in Int \cup {None} /\ s.inclusive \in BOOLEAN
    BY Parameters
  <2>4. CASE c = Null
    BY <1>2, <2>1, <2>2, <2>4 DEF RangeFails
  <2>5. CASE c # Null
    <3>1. c \in Values /\ c \in Int
      BY <1>2, <2>5
    <3>2. c \in RangeFails(s) <=> \/ s.min # None /\ (c < s.min \/ (~s.inclusive /\ c = s.min))
                                  \/ s.max # None /\ (c > s.max \/ (~s.inclusive /\ c = s.max))
      BY <3>1 DEF RangeFails
    <3>3. s.min # None => ((c < s.min \/ (~s.inclusive /\ c = s.min)) <=> ~ (c > s.min \/ (s.inclusive /\ c = s.min)))
      BY <2>3, <3>1
    <3>4. s.max # None => ((c > s.max \/ (~s.inclusive /\ c = s.max)) <=> ~ (c < s.max \/ (s.inclusive /\ c = s.max)))
      BY <2>3, <3>1
    <3> QED
      BY <2>1, <2>2, <2>5, <3>2, <3>3, <3>4
  <2> QED
    BY <2>4, <2>5
<1>8. CASE s.type = "regex"
  <2>1. FailingPredicate(s) = RegexFails(s)
    BY <1>8 DEF FailingPredicate
  <2>2. Meets(s, c, w) <=> IF c = Null THEN s.ignore_nulls ELSE (c \in Matching) = ~s.negate
    BY <1>8 DEF Meets
  <2>3. s.negate \in BOOLEAN /\ s.ignore_nulls \in BOOLEAN
    BY Parameters
  <2> QED
    BY <1>1, <1>2, <2>1, <2>2, <2>3 DEF RegexFails
<1>9. CASE s.type = "length"
  <2>1. FailingPredicate(s) = LengthFails(s)
    BY <1>9 DEF FailingPredicate
  <2>2. Meets(s, c, w) <=>
           c = Null \/ /\ s.equals # None => LengthOf[c] = s.equals
                       /\ s.min # None => LengthOf[c] >= s.min
                       /\ s.max # None => LengthOf[c] <= s.max
    BY <1>9 DEF Meets
  <2>3. s.min \in Int \cup {None} /\ s.max \in Int \cup {None}
    BY Parameters
  <2>4. CASE c = Null
    BY <1>2, <2>1, <2>2, <2>4 DEF LengthFails
  <2>5. CASE c # Null
    <3>1. c \in Values /\ LengthOf[c] \in Int
      BY <1>1, <1>2, <2>5
    <3>2. c \in LengthFails(s) <=> \/ s.equals # None /\ LengthOf[c] # s.equals
                                   \/ s.min # None /\ LengthOf[c] < s.min
                                   \/ s.max # None /\ LengthOf[c] > s.max
      BY <3>1 DEF LengthFails
    <3> QED
      BY <2>1, <2>2, <2>3, <2>5, <3>1, <3>2
  <2> QED
    BY <2>4, <2>5
<1> QED
  BY <1>3, <1>4, <1>5, <1>6, <1>7, <1>8, <1>9 DEF RowTypes

LEMMA Outcomes ==
    ASSUME NEW p \in BOOLEAN, NEW a, NEW b, NEW o, o = Outcome(p, a, b)
    PROVE  o.passed = p /\ o.passed \in BOOLEAN /\ o.scanned = a /\ o.failed = b
BY DEF Outcome

(* What the rows that break the rule are, and their number.                 *)
Wrong(s, w) == {c \in Present(w.table, s.where) : ~Meets(s, c, w)}

LEMMA RowChecks ==
    ASSUME NEW s, Declared(s), s.type \in RowTypes, ~Blind(s), NEW w \in Worlds, NEW v, v[1] = w
    PROVE  /\ Evaluate(s, v).passed <=> Holds(s, w)
           /\ Evaluate(s, v).passed \in BOOLEAN
           /\ Evaluate(s, v).scanned = Count(w.table, s.where)
           /\ Evaluate(s, v).failed = Count(w.table, Wrong(s, w))
           /\ Present(w.table, s.where \cap FailingPredicate(s)) = Wrong(s, w)
<1> DEFINE S == s.where \cap FailingPredicate(s)
           t == w.table
<1>1. t \in [Cells -> Nat] /\ s.where \in SUBSET Cells /\ S \in SUBSET Cells
  BY Tables, Parameters
<1>2. Evaluate(s, v) = RowPredicate(s, v)
  BY DEF Evaluate, RowTypes
<1>3. RowPredicate(s, v) = Outcome(Count(t, S) = 0, Count(t, s.where), Count(t, S))
  BY DEF RowPredicate
<1>4. Present(t, S) = Wrong(s, w)
  <2>1. \A c \in s.where : c \in FailingPredicate(s) <=> ~Meets(s, c, w)
    BY <1>1, FailingRows
  <2> QED
    BY <2>1 DEF Present, Wrong
<1>5. Holds(s, w) <=> \A c \in Present(t, s.where) : Meets(s, c, w)
  BY DEF Holds, RowTypes
<1> HIDE DEF S, t
<1>6. Count(t, S) = Count(t, Present(t, S)) /\ (Count(t, S) = 0 <=> Present(t, S) = {})
  BY <1>1, Rows
<1>7. Holds(s, w) <=> Wrong(s, w) = {}
  BY <1>5 DEF Wrong, t
<1>8. PICK p \in BOOLEAN : p <=> Count(t, S) = 0
  OBVIOUS
<1>9. Evaluate(s, v) = Outcome(p, Count(t, s.where), Count(t, S))
  BY <1>2, <1>3, <1>8 DEF S, t
<1>10. /\ Evaluate(s, v).passed = p /\ Evaluate(s, v).passed \in BOOLEAN
       /\ Evaluate(s, v).scanned = Count(t, s.where) /\ Evaluate(s, v).failed = Count(t, S)
  BY <1>9, Outcomes
<1>11. p <=> Holds(s, w)
  BY <1>4, <1>6, <1>7, <1>8 DEF S, t
<1>12. Count(t, S) = Count(w.table, Wrong(s, w))
  BY <1>4, <1>6 DEF S, t
<1> QED
  BY <1>4, <1>10, <1>11, <1>12 DEF S, t

(* The foreign keys: what is not among the keys of the other table.         *)
LEMMA Orphaned ==
    ASSUME NEW s, Declared(s), s.type = "referential_integrity", NEW w \in Worlds
    PROVE  /\ Orphans(s, w) \in SUBSET Cells /\ Referring(s) \in SUBSET Cells
           /\ Present(w.table, Orphans(s, w)) = Wrong(s, w)
           /\ Wrong(s, w) = {c \in Present(w.table, Looked(s)) : ~Meets(s, c, w)}
<1>1. s.where \in SUBSET Cells /\ s.ignore_nulls \in BOOLEAN /\ w.parent \in [Cells -> Nat]
  BY Tables, Parameters
<1>2. Null \notin Values /\ Cells = Values \cup {Null}
  BY ValuesAssumption DEF Cells
<1>3. \A c \in Cells : Meets(s, c, w) <=> (c = Null /\ s.ignore_nulls) \/ (c # Null /\ w.parent[c] > 0)
  BY DEF Meets, RowTypes
<1>4. ASSUME NEW c \in s.where PROVE c \in Orphans(s, w) <=> ~Meets(s, c, w)
  <2>1. c \in Present(w.parent, Values) <=> c # Null /\ w.parent[c] > 0
    BY <1>1, <1>2 DEF Present
  <2>2. c \in Referring(s) <=> ~ (c = Null /\ s.ignore_nulls)
    BY <1>1 DEF Referring
  <2> QED
    BY <1>1, <1>3, <2>1, <2>2 DEF Orphans
<1>5. Orphans(s, w) \subseteq s.where /\ Referring(s) \subseteq s.where
  BY DEF Orphans, Referring
<1>6. Present(w.table, Orphans(s, w)) = Wrong(s, w)
  BY <1>4, <1>5 DEF Present, Wrong
<1>7. \A c \in s.where : ~Meets(s, c, w) => c \in Looked(s)
  <2>1. Looked(s) = IF s.ignore_nulls THEN s.where \ {Null} ELSE s.where
    BY DEF Looked
  <2> QED
    BY <1>1, <1>3, <2>1
<1>8. Looked(s) \subseteq s.where
  BY DEF Looked
<1>9. Wrong(s, w) = {c \in Present(w.table, Looked(s)) : ~Meets(s, c, w)}
  BY <1>7, <1>8 DEF Present, Wrong
<1> QED
  BY <1>1, <1>5, <1>6, <1>9

LEMMA ForeignKeys ==
    ASSUME NEW s, Declared(s), s.type = "referential_integrity", NEW w \in Worlds, NEW v, v[1] = w
    PROVE  /\ Evaluate(s, v).passed <=> Holds(s, w)
           /\ Evaluate(s, v).passed \in BOOLEAN
           /\ Evaluate(s, v).scanned = Count(w.table, Looked(s))
           /\ Evaluate(s, v).failed = Count(w.table, Wrong(s, w))
<1> DEFINE S == Orphans(s, w)
           t == w.table
<1>1. t \in [Cells -> Nat] /\ S \in SUBSET Cells
  BY Tables, Orphaned
<1>2. Evaluate(s, v) = Outcome(Count(t, S) = 0, Count(t, Looked(s)), Count(t, S))
  BY DEF Evaluate, RowTypes, ReferentialIntegrity, Referring, Looked
<1>3. Holds(s, w) <=> \A c \in Present(t, s.where) : Meets(s, c, w)
  BY DEF Holds
<1>4. Present(t, S) = Wrong(s, w)
  BY Orphaned
<1> HIDE DEF S, t
<1>5. Count(t, S) = Count(t, Present(t, S)) /\ (Count(t, S) = 0 <=> Present(t, S) = {})
  BY <1>1, Rows
<1>6. Holds(s, w) <=> Wrong(s, w) = {}
  BY <1>3 DEF Wrong, t
<1>7. PICK p \in BOOLEAN : p <=> Count(t, S) = 0
  OBVIOUS
<1>8. Evaluate(s, v) = Outcome(p, Count(t, Looked(s)), Count(t, S))
  BY <1>2, <1>7 DEF S, t
<1>9. /\ Evaluate(s, v).passed = p /\ Evaluate(s, v).passed \in BOOLEAN
      /\ Evaluate(s, v).scanned = Count(t, Looked(s)) /\ Evaluate(s, v).failed = Count(t, S)
  BY <1>8, Outcomes
<1>10. p <=> Holds(s, w)
  BY <1>4, <1>5, <1>6, <1>7 DEF S, t
<1>11. Count(t, S) = Count(w.table, Wrong(s, w))
  BY <1>4, <1>5 DEF S, t
<1> QED
  BY <1>9, <1>10, <1>11 DEF S, t
---------------------------------------------------------------------------
(* The share that is there.                                                 *)

LEMMA CompleteTables ==
    ASSUME NEW s, Declared(s), s.type = "completeness", NEW w \in Worlds, NEW v, v[1] = w
    PROVE  /\ Evaluate(s, v).passed <=> Holds(s, w)
           /\ Evaluate(s, v).passed \in BOOLEAN
           /\ Evaluate(s, v).scanned = Count(w.table, s.where)
           /\ Evaluate(s, v).failed = Count(w.table, Wrong(s, w))
<1> DEFINE t == w.table
           total == Count(t, s.where)
           nulls == Count(t, s.where \cap {Null})
<1>1. t \in [Cells -> Nat] /\ s.where \in SUBSET Cells /\ s.min \in Int
  BY Tables, Parameters
<1>2. Evaluate(s, v) = Outcome(IF total = 0 THEN Full >= s.min ELSE (total - nulls) * Full >= s.min * total, total, nulls)
  BY DEF Evaluate, RowTypes, Completeness
<1>3. total \in Nat /\ nulls \in Nat /\ Count(t, Present(t, s.where)) = total
  BY <1>1, Rows
<1>4. nulls <= total
  <2>1. IsFiniteSet(s.where) /\ \A x \in s.where : t[x] \in Nat
    BY <1>1, Rows
  <2> QED
    BY <2>1, CountWithin
<1>5. nulls = IF s.where \cap {Null} = {} THEN 0 ELSE t[Null]
  <2>1. CASE s.where \cap {Null} = {}
    BY <2>1, CountEmpty
  <2>2. CASE s.where \cap {Null} # {}
    <3>1. s.where \cap {Null} = {Null} /\ t[Null] \in Nat
      BY <1>1, <2>2
    <3> QED
      BY <2>2, <3>1, CountOne
  <2> QED
    BY <2>1, <2>2
<1>6. Holds(s, w) <=> /\ s.min <= Full
                      /\ s.where \cap {Null} = {} \/ t[Null] * Full <= (Full - s.min) * total
  BY <1>3 DEF Holds, RowTypes
<1>7. nulls = Count(t, Wrong(s, w))
  <2>1. \A c \in s.where : Meets(s, c, w) <=> c # Null
    BY DEF Meets, RowTypes
  <2>2. Present(t, s.where \cap {Null}) = Wrong(s, w)
    BY <2>1 DEF Present, Wrong
  <2> QED
    BY <1>1, <2>2, Rows
<1>8. Holds(s, w) <=> /\ s.min <= Full
                      /\ nulls * Full <= (Full - s.min) * total
  <2>1. CASE s.where \cap {Null} = {}
    <3>1. nulls = 0
      BY <1>5, <2>1
    <3>2. s.min <= Full => 0 <= (Full - s.min) * total
      BY <1>1, <1>3 DEF Full
    <3> QED
      BY <1>6, <2>1, <3>1, <3>2 DEF Full
  <2>2. CASE s.where \cap {Null} # {}
    BY <1>5, <1>6, <2>2
  <2> QED
    BY <2>1, <2>2
<1> HIDE DEF t, total, nulls
<1>9. (IF total = 0 THEN Full >= s.min ELSE (total - nulls) * Full >= s.min * total)
       <=> /\ s.min <= Full
           /\ nulls * Full <= (Full - s.min) * total
  <2>1. CASE total = 0
    <3>1. nulls = 0 /\ (Full - s.min) * total = 0
      BY <1>1, <1>3, <1>4, <2>1 DEF Full
    <3> QED
      BY <1>1, <2>1, <3>1 DEF Full
  <2>2. CASE total # 0
    <3>1. (Full - s.min) * total = Full * total - s.min * total
      BY <1>1, <1>3 DEF Full
    <3>2. (total - nulls) * Full = Full * total - nulls * Full
      BY <1>3 DEF Full
    <3>3. s.min * total \in Int
      BY <1>1, <1>3
    <3>4. (total - nulls) * Full >= s.min * total <=> nulls * Full <= (Full - s.min) * total
      <4>1. PICK m \in Int : m = s.min * total
        BY <3>3
      <4> QED
        BY <1>3, <3>1, <3>2, <4>1 DEF Full
    <3>5. nulls * Full <= (Full - s.min) * total => s.min <= Full
      <4>1. SUFFICES ASSUME s.min > Full PROVE ~ (0 <= (Full - s.min) * total)
        BY <1>1, <1>3 DEF Full
      <4>2. (Full - s.min) * total < 0
        BY <1>1, <1>3, <2>2, <4>1 DEF Full
      <4> QED
        BY <1>1, <1>3, <4>2 DEF Full
    <3> QED
      BY <2>2, <3>4, <3>5
  <2> QED
    BY <2>1, <2>2
<1>10. PICK p \in BOOLEAN : p <=> IF total = 0 THEN Full >= s.min ELSE (total - nulls) * Full >= s.min * total
  OBVIOUS
<1>11. Evaluate(s, v) = Outcome(p, total, nulls)
  <2>1. p = IF total = 0 THEN Full >= s.min ELSE (total - nulls) * Full >= s.min * total
    BY <1>10
  <2> QED
    BY <1>2, <2>1
<1>12. /\ Evaluate(s, v).passed = p /\ Evaluate(s, v).passed \in BOOLEAN
       /\ Evaluate(s, v).scanned = total /\ Evaluate(s, v).failed = nulls
  BY <1>11, Outcomes
<1>13. p <=> Holds(s, w)
  BY <1>8, <1>9, <1>10
<1> QED
  BY <1>7, <1>12, <1>13 DEF t, total
---------------------------------------------------------------------------
(* The keys: no group of two rows or more.                                  *)

LEMMA NoneRepeated ==
    ASSUME NEW t \in [Cells -> Nat], NEW S \in SUBSET Cells
    PROVE  /\ Repeated(t, S) = {} <=> \A c \in Present(t, S) : t[c] = 1
           /\ Surplus(t, S) \in Nat
           /\ Surplus(t, S) = Count(t, Present(t, S)) - Cardinality(Present(t, S))
           /\ Surplus(t, S) = 0 <=> Repeated(t, S) = {}
<1>1. IsFiniteSet(S) /\ \A x \in S : t[x] \in Nat
  BY Rows
<1>2. \A c \in S : (t[c] > 0 => t[c] = 1) <=> ~ (t[c] > 1)
  BY <1>1
<1>3. Repeated(t, S) = {} <=> \A c \in Present(t, S) : t[c] = 1
  BY <1>2 DEF Repeated, Present
<1>4. Surplus(t, S) \in Nat
  BY <1>1, SurplusType
<1>5. Surplus(t, S) = Count(t, Present(t, S)) - Cardinality(Present(t, S))
  BY <1>1, SurplusCounts
<1>6. Surplus(t, S) = 0 <=> Repeated(t, S) = {}
  BY <1>1, SurplusCounts
<1> QED
  BY <1>3, <1>4, <1>5, <1>6

LEMMA GroupedCells ==
    ASSUME NEW s, Declared(s)
    PROVE  /\ Grouped(s) \in SUBSET Cells /\ Grouped(s) \subseteq s.where
           /\ s.type = "unique" => Grouped(s) = Looked(s)
           /\ s.type # "unique" => Grouped(s) = s.where
<1>1. s.where \in SUBSET Cells
  BY Parameters
<1> QED
  BY <1>1 DEF Grouped, Looked

LEMMA UniqueFound ==
    ASSUME NEW s, NEW v
    PROVE  /\ Unique(s, v).passed = (Repeated(v[1].table, Grouped(s)) = {})
           /\ Unique(s, v).scanned = Count(v[2].table, Grouped(s))
           /\ Unique(s, v).failed = Surplus(v[1].table, Grouped(s))
<1>1. PICK p \in BOOLEAN : p = (Repeated(v[1].table, Grouped(s)) = {})
  OBVIOUS
<1>2. Unique(s, v) = Outcome(p, Count(v[2].table, Grouped(s)), Surplus(v[1].table, Grouped(s)))
  BY <1>1 DEF Unique
<1>3. Unique(s, v).passed = p /\ Unique(s, v).scanned = Count(v[2].table, Grouped(s))
      /\ Unique(s, v).failed = Surplus(v[1].table, Grouped(s))
  BY <1>2, Outcomes
<1> QED
  BY <1>1, <1>3

LEMMA UniqueKeys ==
    ASSUME NEW s, Declared(s), s.type = "unique", NEW w \in Worlds, NEW v, v[1] = w
    PROVE  /\ Evaluate(s, v).passed <=> Holds(s, w)
           /\ Evaluate(s, v).passed <=> Repeated(w.table, Grouped(s)) = {}
           /\ Evaluate(s, v).passed \in BOOLEAN
           /\ Evaluate(s, v).scanned = Count(v[2].table, Looked(s))
           /\ Evaluate(s, v).failed = Violations(s, w)
<1> DEFINE t == w.table
           S == Grouped(s)
<1>1. t \in [Cells -> Nat] /\ S \in SUBSET Cells /\ S = Looked(s) /\ S \subseteq s.where
  BY Tables, GroupedCells
<1>2. Evaluate(s, v) = Unique(s, v)
  BY DEF Evaluate, RowTypes
<1>3. /\ Unique(s, v).passed = (Repeated(t, S) = {}) /\ Unique(s, v).scanned = Count(v[2].table, S)
      /\ Unique(s, v).failed = Surplus(t, S)
  BY UniqueFound
<1>4. Violations(s, w) = Count(t, Present(t, Looked(s))) - Cardinality(Present(t, Looked(s)))
  BY DEF Violations
<1>5. Holds(s, w) <=> \A c \in Present(t, s.where) : t[c] = 1 \/ (c = Null /\ s.ignore_nulls)
  BY DEF Holds, RowTypes
<1>6. (\A c \in Present(t, s.where) : t[c] = 1 \/ (c = Null /\ s.ignore_nulls)) <=> \A c \in Present(t, S) : t[c] = 1
  <2>1. S = IF s.ignore_nulls THEN s.where \ {Null} ELSE s.where
    BY <1>1 DEF Looked
  <2>2. s.ignore_nulls \in BOOLEAN
    BY Parameters
  <2> HIDE DEF S, t
  <2>3. CASE s.ignore_nulls
    BY <2>1, <2>3 DEF Present
  <2>4. CASE ~s.ignore_nulls
    BY <2>1, <2>4 DEF Present
  <2> QED
    BY <2>3, <2>4
<1>7. Repeated(t, S) = {} <=> \A c \in Present(t, S) : t[c] = 1
  BY <1>1, NoneRepeated
<1>8. Surplus(t, S) = Count(t, Present(t, S)) - Cardinality(Present(t, S))
  BY <1>1, NoneRepeated
<1>9. Evaluate(s, v).passed <=> Repeated(t, S) = {}
  BY <1>2, <1>3
<1>10. Evaluate(s, v).passed \in BOOLEAN
  BY <1>2, <1>3
<1>11. Evaluate(s, v).passed <=> Holds(s, w)
  BY <1>5, <1>6, <1>7, <1>9
<1> QED
  BY <1>1, <1>2, <1>3, <1>4, <1>8, <1>9, <1>10, <1>11

LEMMA PrimaryKeys ==
    ASSUME NEW s, Declared(s), s.type = "primary_key", NEW v, v[1] \in Worlds, v[3] \in Worlds
    PROVE  /\ Evaluate(s, v).passed \in BOOLEAN
           /\ Evaluate(s, v).passed => HoldsAcross(s, v[1], v[3])
           /\ ~Evaluate(s, v).passed => ~HoldsAcross(s, v[1], v[1]) \/ ~HoldsAcross(s, v[3], v[3])
           /\ Evaluate(s, v).passed => Repeated(v[1].table, Grouped(s)) = {}
           /\ Evaluate(s, v).scanned = Count(v[2].table, Grouped(s))
           /\ Evaluate(s, v).failed \in Nat
<1> DEFINE S == Grouped(s)
           nulls == Count(v[3].table, s.where \cap {Null})
           twice == Repeated(v[1].table, S)
<1>1. /\ v[1].table \in [Cells -> Nat] /\ v[3].table \in [Cells -> Nat]
      /\ S = s.where /\ S \in SUBSET Cells
  BY Tables, GroupedCells
<1>2. /\ Unique(s, v).passed = (twice = {}) /\ Unique(s, v).scanned = Count(v[2].table, S)
      /\ Unique(s, v).failed = Surplus(v[1].table, S)
  BY UniqueFound
<1>3. PICK p \in BOOLEAN : p <=> twice = {} /\ nulls = 0
  OBVIOUS
<1>4. Evaluate(s, v) = Outcome(p, Count(v[2].table, S), Surplus(v[1].table, S) + nulls)
  <2>1. Evaluate(s, v) = PrimaryKey(s, v)
    BY DEF Evaluate, RowTypes
  <2>2. p = (twice = {} /\ nulls = 0)
    BY <1>3
  <2>3. PrimaryKey(s, v) = Outcome(Unique(s, v).passed /\ nulls = 0, Unique(s, v).scanned, Unique(s, v).failed + nulls)
    BY DEF PrimaryKey
  <2>4. p = (Unique(s, v).passed /\ nulls = 0)
    BY <1>2, <2>2
  <2> HIDE DEF nulls, twice, S
  <2> QED
    BY <1>2, <2>1, <2>3, <2>4
<1>5. /\ Evaluate(s, v).passed = p /\ Evaluate(s, v).scanned = Count(v[2].table, S)
      /\ Evaluate(s, v).failed = Surplus(v[1].table, S) + nulls
  BY <1>4, Outcomes
<1>6. nulls \in Nat /\ (nulls = 0 <=> \A x \in s.where \cap {Null} : v[3].table[x] = 0)
  BY <1>1, Rows
<1>7. Surplus(v[1].table, S) \in Nat /\ (twice = {} <=> \A c \in Present(v[1].table, S) : v[1].table[c] = 1)
  BY <1>1, NoneRepeated
<1>8. \A x, w : HoldsAcross(s, x, w) <=> /\ \A c \in Present(x.table, s.where) : x.table[c] = 1
                                         /\ Null \notin Present(w.table, s.where)
  BY DEF HoldsAcross
<1>10. nulls = 0 <=> Null \notin Present(v[3].table, s.where)
  <2>1. \A x \in s.where \cap {Null} : v[3].table[x] \in Nat
    BY <1>1
  <2> HIDE DEF nulls
  <2> QED
    BY <1>6, <2>1 DEF Present
<1>11. p => HoldsAcross(s, v[1], v[3])
  BY <1>1, <1>3, <1>7, <1>8, <1>10
<1>12. ~p => ~HoldsAcross(s, v[1], v[1]) \/ ~HoldsAcross(s, v[3], v[3])
  BY <1>1, <1>3, <1>7, <1>8, <1>10
<1>13. Evaluate(s, v).failed \in Nat
  BY <1>5, <1>6, <1>7
<1> HIDE DEF S, nulls, twice
<1> QED
  BY <1>3, <1>5, <1>11, <1>12, <1>13 DEF S, twice

LEMMA DistinctRows ==
    ASSUME NEW s, Declared(s), s.type = "no_duplicate_rows", NEW v, v[2] \in Worlds
    PROVE  /\ Evaluate(s, v).passed <=> Holds(s, v[2])
           /\ Evaluate(s, v).passed \in BOOLEAN
           /\ Evaluate(s, v).scanned = Count(v[3].table, s.where)
           /\ Evaluate(s, v).failed \in Nat
<1> DEFINE t == v[2].table
<1>1. t \in [Cells -> Nat] /\ s.where \in SUBSET Cells
  BY Tables, Parameters
<1>2. PICK p \in BOOLEAN : p = (Repeated(t, s.where) = {})
  OBVIOUS
<1>3. Evaluate(s, v) = Outcome(p, Count(v[3].table, s.where), Surplus(t, s.where))
  <2>1. Evaluate(s, v) = NoDuplicateRows(s, v)
    BY DEF Evaluate, RowTypes
  <2> QED
    BY <1>2, <2>1 DEF NoDuplicateRows
<1>4. /\ Evaluate(s, v).passed = p /\ Evaluate(s, v).scanned = Count(v[3].table, s.where)
      /\ Evaluate(s, v).failed = Surplus(t, s.where)
  BY <1>3, Outcomes
<1>5. /\ Surplus(t, s.where) \in Nat
      /\ Repeated(t, s.where) = {} <=> \A c \in Present(t, s.where) : t[c] = 1
  BY <1>1, NoneRepeated
<1>6. Holds(s, v[2]) <=> \A c \in Present(t, s.where) : t[c] = 1
  BY DEF Holds, RowTypes
<1> HIDE DEF t
<1> QED
  BY <1>2, <1>4, <1>5, <1>6
---------------------------------------------------------------------------
(* The table as a whole.                                                    *)

LEMMA RowsCounted ==
    ASSUME NEW s, s.where \in SUBSET Cells, NEW w \in Worlds, NEW v, v[1] = w
    PROVE  /\ RowCount(s, v).passed \in BOOLEAN
           /\ RowCount(s, v).passed <=> Within(s, Count(w.table, s.where))
           /\ RowCount(s, v).scanned = Count(w.table, s.where)
           /\ RowCount(s, v).failed \in {0, Count(w.table, s.where)}
<1> DEFINE count == Count(w.table, s.where)
           passed == IF s.equals # None THEN count = s.equals
                     ELSE IF s.min = None /\ s.max = None THEN count > 0
                     ELSE (s.min # None => count >= s.min) /\ (s.max # None => count <= s.max)
<1>1. PICK p \in BOOLEAN : p <=> passed
  OBVIOUS
<1>2. RowCount(s, v) = Outcome(p, count, IF p THEN 0 ELSE count)
  <2>1. p = passed
    BY <1>1
  <2>2. RowCount(s, v) = Outcome(passed, count, IF passed THEN 0 ELSE count)
    BY DEF RowCount
  <2> HIDE DEF passed, count
  <2> QED
    BY <2>1, <2>2
<1>3. RowCount(s, v).passed = p /\ RowCount(s, v).scanned = count /\ RowCount(s, v).failed = IF p THEN 0 ELSE count
  BY <1>2, Outcomes
<1>4. passed <=> Within(s, count)
  <2> HIDE DEF count
  <2> QED
    BY DEF Within
<1> HIDE DEF passed, count
<1> QED
  BY <1>1, <1>3, <1>4 DEF count

LEMMA CountedTables ==
    ASSUME NEW s, Declared(s), s.type \in {"row_count", "not_empty"}, NEW w \in Worlds, NEW v, v[1] = w
    PROVE  /\ Evaluate(s, v).passed <=> Holds(s, w)
           /\ Evaluate(s, v).passed \in BOOLEAN
           /\ Evaluate(s, v).scanned \in Nat /\ Evaluate(s, v).failed \in Nat
<1>1. w.table \in [Cells -> Nat] /\ s.where \in SUBSET Cells
  BY Tables, Parameters
<1>2. /\ Count(w.table, s.where) \in Nat
      /\ Count(w.table, Present(w.table, s.where)) = Count(w.table, s.where)
      /\ Count(w.table, s.where) = 0 <=> Present(w.table, s.where) = {}
  BY <1>1, Rows
<1>3. CASE s.type = "row_count"
  <2>1. Evaluate(s, v) = RowCount(s, v)
    BY <1>3 DEF Evaluate, RowTypes
  <2>2. Holds(s, w) <=> Within(s, Count(w.table, Present(w.table, s.where)))
    BY <1>3 DEF Holds, RowTypes
  <2>3. /\ RowCount(s, v).passed \in BOOLEAN /\ (RowCount(s, v).passed <=> Within(s, Count(w.table, s.where)))
        /\ RowCount(s, v).scanned = Count(w.table, s.where) /\ RowCount(s, v).failed \in {0, Count(w.table, s.where)}
    BY <1>1, RowsCounted
  <2> QED
    BY <1>2, <2>1, <2>2, <2>3
<1>4. CASE s.type = "not_empty"
  <2> DEFINE r == [s EXCEPT !.min = IF s.min = None THEN 1 ELSE s.min]
  <2>1. Evaluate(s, v) = RowCount(r, v)
    BY <1>4 DEF Evaluate, RowTypes, NotEmpty
  <2>2. /\ r.where = s.where /\ r.max = s.max /\ r.equals = s.equals
        /\ r.min = IF s.min = None THEN 1 ELSE s.min
    BY DEF Declared
  <2>3. NotEmpty(s, <<w>>) = RowCount(r, <<w>>)
    BY DEF NotEmpty
  <2>4. Holds(s, w) <=> IF s.min = None /\ s.max = None /\ s.equals = None THEN Present(w.table, s.where) # {}
                        ELSE NotEmpty(s, <<w>>).passed
    BY <1>4 DEF Holds, RowTypes
  <2> HIDE DEF r
  <2>5. /\ RowCount(r, v).passed \in BOOLEAN /\ (RowCount(r, v).passed <=> Within(r, Count(w.table, s.where)))
        /\ RowCount(r, v).scanned = Count(w.table, s.where) /\ RowCount(r, v).failed \in {0, Count(w.table, s.where)}
    BY <1>1, <2>2, RowsCounted
  <2>6. RowCount(r, <<w>>).passed <=> Within(r, Count(w.table, s.where))
    BY <1>1, <2>2, RowsCounted
  <2>7. CASE s.min = None /\ s.max = None /\ s.equals = None
    <3>1. Within(r, Count(w.table, s.where)) <=> Count(w.table, s.where) >= 1
      <4>1. r.min = 1 /\ r.max = None /\ r.equals = None /\ 1 # None
        BY <2>2, <2>7, ValuesAssumption
      <4> QED
        BY <4>1 DEF Within
    <3> QED
      BY <1>2, <2>1, <2>4, <2>5, <2>7, <3>1
  <2>8. CASE ~ (s.min = None /\ s.max = None /\ s.equals = None)
    BY <1>2, <2>1, <2>3, <2>4, <2>5, <2>6, <2>8
  <2> QED
    BY <2>7, <2>8
<1> QED
  BY <1>3, <1>4

LEMMA FreshTables ==
    ASSUME NEW s, Declared(s), ~Undeclared(s), s.type = "freshness", NEW w \in Worlds, NEW v, v[1] = w
    PROVE  /\ Evaluate(s, v).passed <=> Holds(s, w)
           /\ Evaluate(s, v).passed \in BOOLEAN
           /\ Evaluate(s, v).scanned = None /\ Evaluate(s, v).failed = None
<1> DEFINE newest == Largest(w.table, s.where)
           times  == Present(w.table, s.where \cap Values)
<1>1. PICK p \in BOOLEAN : p = (newest # None /\ Now - newest <= s.max)
  OBVIOUS
<1>2. Evaluate(s, v) = Outcome(p, None, None)
  <2>1. Evaluate(s, v) = Freshness(s, v)
    BY DEF Evaluate, RowTypes
  <2> QED
    BY <1>1, <2>1 DEF Freshness
<1>3. /\ Evaluate(s, v).passed = p /\ Evaluate(s, v).scanned = None /\ Evaluate(s, v).failed = None
  BY <1>2, Outcomes
<1>4. Holds(s, w) <=> \E c \in Present(w.table, s.where) \cap Values : Now - c <= s.max
  BY DEF Holds, RowTypes
<1>5. Present(w.table, s.where) \cap Values = times
  BY DEF Present
<1>6. w.table \in [Cells -> Nat] /\ s.where \in SUBSET Cells /\ s.max \in Int /\ Now \in Int
  <2>1. s.max # None /\ s.max \in Int \cup {None}
    BY Parameters DEF Undeclared
  <2> QED
    BY <2>1, Tables, Parameters, ChecksAssumption
<1>7. times = {} => newest = None
  BY <1>6, LeastLargest
<1>8. times # {} => /\ newest \in times /\ \A c \in times : c \in Int /\ c <= newest
  BY <1>6, LeastLargest
<1> HIDE DEF newest, times
<1>9. p <=> Holds(s, w)
  <2>1. CASE times = {}
    BY <1>1, <1>4, <1>5, <1>7, <2>1
  <2>2. CASE times # {}
    <3>1. newest # None /\ newest \in Int
      BY <1>8, <2>2, ValuesAssumption
    <3>2. ASSUME NEW c \in times, Now - c <= s.max PROVE Now - newest <= s.max
      <4>1. c \in Int /\ c <= newest
        BY <1>8, <2>2
      <4> QED
        BY <1>6, <3>1, <3>2, <4>1
    <3> QED
      BY <1>1, <1>4, <1>5, <1>8, <2>2, <3>1, <3>2
  <2> QED
    BY <2>1, <2>2
<1> QED
  BY <1>3, <1>9

---------------------------------------------------------------------------
(* The catalog.                                                             *)

LEMMA SchemaChecks ==
    ASSUME NEW s, Declared(s), s.type = "schema", NEW w \in Worlds, NEW v, v[1] = w
    PROVE  /\ Evaluate(s, v).passed <=> Holds(s, w)
           /\ Evaluate(s, v).passed \in BOOLEAN
           /\ Evaluate(s, v).scanned \in Nat /\ Evaluate(s, v).failed \in Nat
<1> DEFINE actual     == w.columns
           missing    == DOMAIN s.expected \ DOMAIN actual
           unexpected == IF s.strict THEN DOMAIN actual \ DOMAIN s.expected ELSE {}
           drifted    == {n \in DOMAIN s.expected \cap DOMAIN actual : s.expected[n] \notin {None} \cup NamesIn[actual[n]]}
           problems   == Cardinality(missing) + Cardinality(unexpected) + Cardinality(drifted)
<1>1. IsFiniteSet(DOMAIN actual) /\ IsFiniteSet(DOMAIN s.expected)
  BY Tables, Parameters
<1>2. IsFiniteSet(missing) /\ IsFiniteSet(unexpected) /\ IsFiniteSet(drifted)
  <2>1. unexpected \subseteq DOMAIN actual /\ missing \subseteq DOMAIN s.expected /\ drifted \subseteq DOMAIN s.expected
    OBVIOUS
  <2> HIDE DEF missing, unexpected, drifted, actual
  <2> QED
    BY <1>1, <2>1, FS_Subset
<1>3. PICK p \in BOOLEAN : p = (problems = 0)
  OBVIOUS
<1>4. Evaluate(s, v) = Outcome(p, Cardinality(DOMAIN actual), problems)
  <2>1. Evaluate(s, v) = Schema(s, v)
    BY DEF Evaluate, RowTypes
  <2> QED
    BY <1>3, <2>1 DEF Schema
<1>5. /\ Evaluate(s, v).passed = p /\ Evaluate(s, v).scanned = Cardinality(DOMAIN actual)
      /\ Evaluate(s, v).failed = problems
  BY <1>4, Outcomes
<1>6. Holds(s, w) <=> /\ DOMAIN s.expected \subseteq DOMAIN actual
                      /\ \A n \in DOMAIN s.expected : s.expected[n] \in {None} \cup NamesIn[actual[n]]
                      /\ s.strict => DOMAIN actual \subseteq DOMAIN s.expected
  BY DEF Holds, RowTypes
<1>7. Holds(s, w) <=> missing = {} /\ unexpected = {} /\ drifted = {}
  BY <1>6
<1>8. Cardinality(DOMAIN actual) \in Nat
  BY <1>1, FS_CardinalityType
<1> HIDE DEF missing, unexpected, drifted, actual
<1>9. /\ Cardinality(missing) \in Nat /\ Cardinality(unexpected) \in Nat /\ Cardinality(drifted) \in Nat
      /\ Cardinality(missing) = 0 <=> missing = {}
      /\ Cardinality(unexpected) = 0 <=> unexpected = {}
      /\ Cardinality(drifted) = 0 <=> drifted = {}
  BY <1>2, FS_CardinalityType, FS_EmptySet
<1>10. problems \in Nat /\ (problems = 0 <=> missing = {} /\ unexpected = {} /\ drifted = {})
  BY <1>9
<1> HIDE DEF problems
<1> QED
  BY <1>3, <1>5, <1>7, <1>8, <1>10

LEMMA ColumnChecks ==
    ASSUME NEW s, Declared(s), s.type = "column_exists", NEW w \in Worlds, NEW v, v[1] = w
    PROVE  /\ Evaluate(s, v).passed <=> Holds(s, w)
           /\ Evaluate(s, v).passed \in BOOLEAN
           /\ Evaluate(s, v).scanned = None /\ Evaluate(s, v).failed \in Nat
<1> DEFINE missing == DOMAIN s.expected \ DOMAIN w.columns
<1>1. PICK p \in BOOLEAN : p = (missing = {})
  OBVIOUS
<1>2. Evaluate(s, v) = Outcome(p, None, Cardinality(missing))
  <2>1. Evaluate(s, v) = ColumnExists(s, v)
    BY DEF Evaluate, RowTypes
  <2> QED
    BY <1>1, <2>1 DEF ColumnExists
<1>3. Evaluate(s, v).passed = p /\ Evaluate(s, v).scanned = None /\ Evaluate(s, v).failed = Cardinality(missing)
  BY <1>2, Outcomes
<1>4. Cardinality(missing) \in Nat
  <2>1. IsFiniteSet(DOMAIN s.expected)
    BY Parameters
  <2> QED
    BY <2>1, FS_Subset, FS_CardinalityType
<1>5. Holds(s, w) <=> DOMAIN s.expected \subseteq DOMAIN w.columns
  BY DEF Holds, RowTypes
<1> QED
  BY <1>1, <1>3, <1>4, <1>5
---------------------------------------------------------------------------
(* The aggregate, and the checks whose SQL is the user's.                   *)

LEMMA AggregateChecks ==
    ASSUME NEW s, Declared(s), s.type = "aggregate", NEW w \in Worlds, NEW v, v[1] = w
    PROVE  /\ Evaluate(s, v).passed <=> Holds(s, w)
           /\ Evaluate(s, v).passed \in BOOLEAN
           /\ Evaluate(s, v).scanned = None /\ Evaluate(s, v).failed = None
<1> DEFINE value == AggregateValue(s, w.table)
           scale == Scale(s, w.table)
           within == /\ value # None
                     /\ s.equals # None => value = s.equals * scale
                     /\ s.min # None => value >= s.min * scale
                     /\ s.max # None => value <= s.max * scale
<1>1. PICK p \in BOOLEAN : p = within
  OBVIOUS
<1>2. Aggregate(s, v) = Outcome(within, None, None) /\ Aggregate(s, <<w>>) = Outcome(within, None, None)
  BY DEF Aggregate
<1> HIDE DEF within
<1>3. Evaluate(s, v) = Outcome(p, None, None) /\ Aggregate(s, <<w>>) = Outcome(p, None, None)
  <2>1. Evaluate(s, v) = Aggregate(s, v)
    BY DEF Evaluate, RowTypes
  <2> QED
    BY <1>1, <1>2, <2>1
<1>4. Evaluate(s, v).passed = p /\ Evaluate(s, v).scanned = None /\ Evaluate(s, v).failed = None
  BY <1>3, Outcomes
<1>5. Aggregate(s, <<w>>).passed = p
  BY <1>3, Outcomes
<1>6. Holds(s, w) = Aggregate(s, <<w>>).passed
  BY DEF Holds, RowTypes
<1> QED
  BY <1>4, <1>5, <1>6

LEMMA Comparisons ==
    ASSUME NEW s, Declared(s), NEW x
    PROVE  Compare(x, s) \in BOOLEAN
<1>1. s.operator \in Operators
  BY DEF Declared
<1>2. CASE s.operator = "is_null"
  BY <1>2 DEF Compare
<1>3. CASE s.operator = "is_not_null"
  BY <1>3 DEF Compare
<1>4. CASE s.operator = "empty"
  BY <1>4 DEF Compare
<1>5. CASE s.operator = "not_empty"
  BY <1>5 DEF Compare
<1>6. CASE s.operator = "eq"
  BY <1>6 DEF Compare
<1>7. CASE s.operator = "ne"
  BY <1>7 DEF Compare
<1>8. CASE s.operator = "gt"
  BY <1>8 DEF Compare
<1>9. CASE s.operator = "gte"
  BY <1>9 DEF Compare
<1>10. CASE s.operator = "lt"
  BY <1>10 DEF Compare
<1>11. CASE s.operator = "lte"
  BY <1>11 DEF Compare
<1>12. CASE s.operator = "between"
  BY <1>12 DEF Compare
<1>13. CASE s.operator = "in"
  BY <1>13 DEF Compare
<1>14. CASE s.operator = "not_in"
  BY <1>14 DEF Compare
<1> QED
  BY <1>1, <1>2, <1>3, <1>4, <1>5, <1>6, <1>7, <1>8, <1>9, <1>10, <1>11, <1>12, <1>13, <1>14 DEF Operators, Ordering

LEMMA CustomChecks ==
    ASSUME NEW s, Declared(s), s.type = "custom_sql", NEW w \in Worlds, NEW v, v[1] = w
    PROVE  /\ Evaluate(s, v).passed <=> Holds(s, w)
           /\ Evaluate(s, v).passed \in BOOLEAN
           /\ Evaluate(s, v).scanned \in Nat /\ Evaluate(s, v).failed \in Nat \cup {None}
<1> DEFINE rows == Returned(w.table, s)
           p == Compare(Reduced(s, w.table), s)
           failed == IF p THEN None ELSE IF rows = 0 THEN 1 ELSE rows
<1>1. rows \in Nat
  <2>1. w.table \in [Cells -> Nat] /\ s.values \in SUBSET Cells
    BY Tables, Parameters
  <2> QED
    BY <2>1, Rows DEF Returned
<1>2. p \in BOOLEAN
  BY Comparisons
<1>3. Evaluate(s, v) = Outcome(p, rows, failed)
  <2>1. Evaluate(s, v) = CustomSQL(s, v)
    BY DEF Evaluate, RowTypes
  <2> QED
    BY <2>1 DEF CustomSQL
<1>4. Holds(s, w) = p
  BY DEF Holds, RowTypes
<1> HIDE DEF rows, p
<1>5. failed \in Nat \cup {None}
  BY <1>1
<1>6. Evaluate(s, v).passed = p /\ Evaluate(s, v).scanned = rows /\ Evaluate(s, v).failed = failed
  BY <1>2, <1>3, Outcomes
<1> QED
  BY <1>1, <1>2, <1>4, <1>5, <1>6

LEMMA NoRowsChecks ==
    ASSUME NEW s, Declared(s), s.type = "sql_returns_no_rows", NEW w \in Worlds, NEW v, v[1] = w
    PROVE  /\ ~Blind(s) => (Evaluate(s, v).passed <=> Holds(s, w))
           /\ Evaluate(s, v).passed \in BOOLEAN
           /\ Evaluate(s, v).scanned \in Nat /\ Evaluate(s, v).failed \in Nat
<1> DEFINE n == Returned(w.table, s)
           rows == Fetched(n, s.max_rows)
<1>1. w.table \in [Cells -> Nat] /\ s.values \in SUBSET Cells /\ s.max_rows \in Nat
  BY Tables, Parameters
<1>2. n \in Nat /\ (n = 0 <=> \A c \in s.values : w.table[c] = 0)
  BY <1>1, Rows DEF Returned
<1>3. PICK p \in BOOLEAN : p = (rows = 0)
  OBVIOUS
<1>4. Evaluate(s, v) = Outcome(p, rows, rows)
  <2>1. Evaluate(s, v) = SQLReturnsNoRows(s, v)
    BY DEF Evaluate, RowTypes
  <2> QED
    BY <1>3, <2>1 DEF SQLReturnsNoRows
<1>5. Evaluate(s, v).passed = p /\ Evaluate(s, v).scanned = rows /\ Evaluate(s, v).failed = rows
  BY <1>4, Outcomes
<1>6. Holds(s, w) <=> \A c \in s.values : w.table[c] = 0
  BY DEF Holds, RowTypes
<1>7. ~Blind(s) => s.max_rows # 0
  BY DEF Blind
<1> HIDE DEF n
<1>8. rows \in Nat /\ (s.max_rows # 0 => (rows = 0 <=> n = 0))
  BY <1>1, <1>2 DEF Fetched
<1> HIDE DEF rows
<1> QED
  BY <1>2, <1>3, <1>5, <1>6, <1>7, <1>8

LEMMA SomeRowsChecks ==
    ASSUME NEW s, Declared(s), s.type = "sql_returns_rows", NEW w \in Worlds, NEW v, v[1] = w
    PROVE  /\ Evaluate(s, v).passed <=> Holds(s, w)
           /\ Evaluate(s, v).passed \in BOOLEAN
           /\ Evaluate(s, v).scanned \in Nat /\ Evaluate(s, v).failed \in Nat
<1> DEFINE n == Returned(w.table, s)
           rows == Fetched(n, IF s.min > 100 THEN s.min ELSE 100)
           failed == IF rows >= s.min THEN 0 ELSE s.min - rows
<1>1. w.table \in [Cells -> Nat] /\ s.values \in SUBSET Cells /\ s.min \in Int
  BY Tables, Parameters
<1>2. n \in Nat
  BY <1>1, Rows DEF Returned
<1>3. PICK p \in BOOLEAN : p = (rows >= s.min)
  <2>1. rows \in Int
    BY <1>1, <1>2 DEF Fetched
  <2> HIDE DEF rows
  <2>2. (rows >= s.min) \in BOOLEAN
    BY <1>1, <2>1
  <2> QED
    BY <2>2
<1>4. Evaluate(s, v) = Outcome(p, rows, failed)
  <2>1. Evaluate(s, v) = SQLReturnsRows(s, v)
    BY DEF Evaluate, RowTypes
  <2> QED
    BY <1>3, <2>1 DEF SQLReturnsRows
<1>5. Evaluate(s, v).passed = p /\ Evaluate(s, v).scanned = rows /\ Evaluate(s, v).failed = failed
  BY <1>4, Outcomes
<1>6. Holds(s, w) <=> n >= s.min
  BY DEF Holds, RowTypes, Returned
<1> HIDE DEF n
<1>7. rows \in Nat /\ (rows >= s.min <=> n >= s.min)
  BY <1>1, <1>2 DEF Fetched
<1> HIDE DEF rows
<1>8. failed \in Nat
  BY <1>1, <1>7
<1> QED
  BY <1>3, <1>5, <1>6, <1>7, <1>8

LEMMA ComparedTables ==
    ASSUME NEW s, Declared(s), s.type = "compare_queries", NEW v, v[1] \in Worlds, v[2] \in Worlds
    PROVE  /\ Evaluate(s, v).passed <=> HoldsAcross(s, v[1], v[2])
           /\ Evaluate(s, v).passed \in BOOLEAN
           /\ Evaluate(s, v).scanned \in Nat /\ Evaluate(s, v).failed \in Nat
<1> DEFINE left   == Count(v[1].table, Cells)
           right  == Count(v[2].parent, Cells)
           apart  == IF left > right THEN left - right ELSE right - left
           most   == IF left > right THEN left ELSE right
<1>1. PICK p \in BOOLEAN : p = (v[1].table = v[2].parent)
  OBVIOUS
<1>2. Evaluate(s, v) = Outcome(p, most, IF p THEN 0 ELSE IF apart > 1 THEN apart ELSE 1)
  <2>1. Evaluate(s, v) = CompareQueries(s, v)
    BY DEF Evaluate, RowTypes
  <2> QED
    BY <1>1, <2>1 DEF CompareQueries
<1>3. /\ Evaluate(s, v).passed = p /\ Evaluate(s, v).scanned = most
      /\ Evaluate(s, v).failed = IF p THEN 0 ELSE IF apart > 1 THEN apart ELSE 1
  BY <1>2, Outcomes
<1>4. left \in Nat /\ right \in Nat
  <2>1. v[1].table \in [Cells -> Nat] /\ v[2].parent \in [Cells -> Nat] /\ Cells \in SUBSET Cells
    BY Tables
  <2> QED
    BY <2>1, Rows
<1>5. HoldsAcross(s, v[1], v[2]) <=> v[1].table = v[2].parent
  <2>1. v[1].table \in [Cells -> Nat] /\ v[2].parent \in [Cells -> Nat]
    BY Tables
  <2>2. HoldsAcross(s, v[1], v[2]) <=> \A c \in Cells : v[1].table[c] = v[2].parent[c]
    BY DEF HoldsAcross
  <2> QED
    BY <2>1, <2>2
<1> HIDE DEF left, right
<1>6. Evaluate(s, v).scanned \in Nat /\ Evaluate(s, v).failed \in Nat
  BY <1>1, <1>3, <1>4
<1>7. Evaluate(s, v).passed \in BOOLEAN /\ (Evaluate(s, v).passed <=> v[1].table = v[2].parent)
  BY <1>1, <1>3
<1> QED
  BY <1>5, <1>6, <1>7
---------------------------------------------------------------------------
(* The outcome of any check.                                                *)

LEMMA StatementNumbers ==
    ASSUME NEW s, s.type \in CheckTypes
    PROVE  /\ Statements(s) \in {1, 2, 3}
           /\ s.type \in {"unique", "compare_queries"} => Statements(s) = 2
           /\ s.type \in {"primary_key", "no_duplicate_rows"} => Statements(s) = 3
           /\ s.type \notin {"unique", "compare_queries", "primary_key", "no_duplicate_rows"} => Statements(s) = 1
           /\ SampledAfter(s) \in {1, 2} /\ SampledAfter(s) <= Statements(s)
<1>1. CASE s.type \in {"unique", "compare_queries"}
  BY <1>1 DEF Statements, SampledAfter
<1>2. CASE s.type \in {"primary_key", "no_duplicate_rows"}
  BY <1>2 DEF Statements, SampledAfter
<1>3. CASE s.type \notin {"unique", "compare_queries", "primary_key", "no_duplicate_rows"}
  BY <1>3 DEF Statements, SampledAfter
<1> QED
  BY <1>1, <1>2, <1>3

LEMMA RowOutcome ==
    ASSUME NEW s, Declared(s), s.type \in RowTypes, NEW w \in Worlds, NEW v, v[1] = w
    PROVE  /\ Evaluate(s, v).passed \in BOOLEAN
           /\ Evaluate(s, v).scanned \in Nat /\ Evaluate(s, v).failed \in Nat
<1> DEFINE S == s.where \cap FailingPredicate(s)
           t == w.table
<1>1. t \in [Cells -> Nat] /\ s.where \in SUBSET Cells /\ S \in SUBSET Cells
  BY Tables, Parameters
<1>2. Evaluate(s, v) = RowPredicate(s, v)
  BY DEF Evaluate, RowTypes
<1>3. PICK p \in BOOLEAN : p = (Count(t, S) = 0)
  OBVIOUS
<1>4. Evaluate(s, v) = Outcome(p, Count(t, s.where), Count(t, S))
  BY <1>2, <1>3 DEF RowPredicate
<1>5. Evaluate(s, v).passed = p /\ Evaluate(s, v).scanned = Count(t, s.where) /\ Evaluate(s, v).failed = Count(t, S)
  BY <1>4, Outcomes
<1> HIDE DEF S, t
<1>6. Count(t, s.where) \in Nat /\ Count(t, S) \in Nat
  BY <1>1, Rows
<1> QED
  BY <1>5, <1>6

LEMMA OutcomeType ==
    ASSUME NEW s, Declared(s), ~Undeclared(s), NEW v \in Seq(Worlds), Len(v) = Statements(s)
    PROVE  /\ Evaluate(s, v).passed \in BOOLEAN
           /\ Evaluate(s, v).scanned \in Nat \cup {None} /\ Evaluate(s, v).failed \in Nat \cup {None}
<1>0. s.type \in CheckTypes /\ s.where \in SUBSET Cells
  BY Parameters
<1>1. Len(v) \in {1, 2, 3} /\ v[1] \in Worlds /\ (Len(v) >= 2 => v[2] \in Worlds) /\ (Len(v) >= 3 => v[3] \in Worlds)
  BY <1>0, StatementNumbers
<1>2. CASE s.type \in RowTypes
  BY <1>1, <1>2, RowOutcome
<1>3. CASE s.type = "referential_integrity"
  <2>1. /\ Evaluate(s, v).passed \in BOOLEAN /\ Evaluate(s, v).scanned = Count(v[1].table, Looked(s))
        /\ Evaluate(s, v).failed = Count(v[1].table, Wrong(s, v[1]))
    BY <1>1, <1>3, ForeignKeys
  <2>2. v[1].table \in [Cells -> Nat] /\ Looked(s) \in SUBSET Cells /\ Wrong(s, v[1]) \in SUBSET Cells
    BY <1>0, <1>1, Tables DEF Looked, Wrong, Present
  <2>3. Count(v[1].table, Looked(s)) \in Nat /\ Count(v[1].table, Wrong(s, v[1])) \in Nat
    BY <2>2, Rows
  <2> QED
    BY <2>1, <2>3
<1>4. CASE s.type = "completeness"
  <2>1. /\ Evaluate(s, v).passed \in BOOLEAN /\ Evaluate(s, v).scanned = Count(v[1].table, s.where)
        /\ Evaluate(s, v).failed = Count(v[1].table, Wrong(s, v[1]))
    BY <1>1, <1>4, CompleteTables
  <2>2. v[1].table \in [Cells -> Nat] /\ Wrong(s, v[1]) \in SUBSET Cells
    BY <1>0, <1>1, Tables DEF Wrong, Present
  <2>3. Count(v[1].table, s.where) \in Nat /\ Count(v[1].table, Wrong(s, v[1])) \in Nat
    BY <1>0, <2>2, Rows
  <2> QED
    BY <2>1, <2>3
<1>5. CASE s.type \in {"unique", "primary_key"}
  <2>1. Len(v) >= 2 /\ (s.type = "primary_key" => Len(v) >= 3)
    BY <1>0, <1>5, StatementNumbers
  <2>2. /\ v[1].table \in [Cells -> Nat] /\ v[2].table \in [Cells -> Nat] /\ Grouped(s) \in SUBSET Cells
    BY <1>1, <2>1, Tables, GroupedCells
  <2>3. Count(v[2].table, Grouped(s)) \in Nat /\ Surplus(v[1].table, Grouped(s)) \in Nat
    BY <2>2, Rows, NoneRepeated
  <2>4. CASE s.type = "unique"
    <3>1. Evaluate(s, v) = Unique(s, v)
      BY <2>4 DEF Evaluate, RowTypes
    <3>2. /\ Unique(s, v).scanned = Count(v[2].table, Grouped(s))
          /\ Unique(s, v).failed = Surplus(v[1].table, Grouped(s))
      BY UniqueFound
    <3>3. Evaluate(s, v).passed \in BOOLEAN
      BY <1>1, <2>4, UniqueKeys
    <3> QED
      BY <2>3, <3>1, <3>2, <3>3
  <2>5. CASE s.type = "primary_key"
    <3>1. /\ Evaluate(s, v).passed \in BOOLEAN /\ Evaluate(s, v).scanned = Count(v[2].table, Grouped(s))
          /\ Evaluate(s, v).failed \in Nat
      BY <1>1, <2>1, <2>5, PrimaryKeys
    <3> QED
      BY <2>3, <3>1
  <2> QED
    BY <1>5, <2>4, <2>5
<1>6. CASE s.type = "no_duplicate_rows"
  <2>1. v[2] \in Worlds /\ v[3] \in Worlds
    BY <1>0, <1>1, <1>6, StatementNumbers
  <2>2. /\ Evaluate(s, v).passed \in BOOLEAN /\ Evaluate(s, v).scanned = Count(v[3].table, s.where)
        /\ Evaluate(s, v).failed \in Nat
    BY <1>6, <2>1, DistinctRows
  <2>3. v[3].table \in [Cells -> Nat]
    BY <2>1, Tables
  <2>4. Count(v[3].table, s.where) \in Nat
    BY <1>0, <2>3, Rows
  <2> QED
    BY <2>2, <2>4
<1>7. CASE s.type \in {"row_count", "not_empty"}
  BY <1>1, <1>7, CountedTables
<1>8. CASE s.type = "freshness"
  BY <1>1, <1>8, FreshTables
<1>9. CASE s.type = "schema"
  BY <1>1, <1>9, SchemaChecks
<1>10. CASE s.type = "column_exists"
  BY <1>1, <1>10, ColumnChecks
<1>11. CASE s.type = "aggregate"
  BY <1>1, <1>11, AggregateChecks
<1>12. CASE s.type = "custom_sql"
  BY <1>1, <1>12, CustomChecks
<1>13. CASE s.type = "sql_returns_no_rows"
  BY <1>1, <1>13, NoRowsChecks
<1>14. CASE s.type = "sql_returns_rows"
  BY <1>1, <1>14, SomeRowsChecks
<1>15. CASE s.type = "compare_queries"
  <2>1. v[2] \in Worlds
    BY <1>0, <1>1, <1>15, StatementNumbers
  <2> QED
    BY <1>1, <1>15, <2>1, ComparedTables
<1> QED
  BY <1>0, <1>2, <1>3, <1>4, <1>5, <1>6, <1>7, <1>8, <1>9, <1>10, <1>11, <1>12, <1>13, <1>14, <1>15 DEF CheckTypes

(* What passes held in one of the views, or across two of them where the    *)
(* type looks twice; what does not pass did not.                            *)
LEMMA HoldsAtOnce ==
    ASSUME NEW s, s.type \notin TwoMoments, NEW w
    PROVE  HoldsAcross(s, w, w) = Holds(s, w)
BY DEF HoldsAcross, TwoMoments

HeldAcross(s, v)   == \E i, j \in 1..Len(v) : (i = j \/ s.type \in TwoMoments) /\ HoldsAcross(s, v[i], v[j])
BrokenAcross(s, v) == \E i, j \in 1..Len(v) : (i = j \/ s.type = "compare_queries") /\ ~HoldsAcross(s, v[i], v[j])

LEMMA OutcomeTrue ==
    ASSUME NEW s, Declared(s), ~Undeclared(s), ~Blind(s), NEW v \in Seq(Worlds), Len(v) = Statements(s)
    PROVE  /\ Evaluate(s, v).passed => HeldAcross(s, v)
           /\ ~Evaluate(s, v).passed => BrokenAcross(s, v)
<1>0. s.type \in CheckTypes
  BY Parameters
<1>1. Len(v) \in {1, 2, 3} /\ v[1] \in Worlds /\ (Len(v) >= 2 => v[2] \in Worlds) /\ (Len(v) >= 3 => v[3] \in Worlds)
  BY <1>0, StatementNumbers
<1> DEFINE Goal == /\ Evaluate(s, v).passed => HeldAcross(s, v)
                   /\ ~Evaluate(s, v).passed => BrokenAcross(s, v)
<1> SUFFICES Goal
  OBVIOUS
<1>2. ASSUME NEW i \in 1..Len(v), Evaluate(s, v).passed <=> Holds(s, v[i]), s.type \notin TwoMoments
      PROVE  Goal
  <2>1. HoldsAcross(s, v[i], v[i]) = Holds(s, v[i])
    BY <1>2, HoldsAtOnce
  <2> QED
    BY <1>2, <2>1 DEF HeldAcross, BrokenAcross
<1> HIDE DEF Goal
<1>3. 1 \in 1..Len(v)
  BY <1>1
<1>4. CASE s.type = "primary_key"
  <2>1. Len(v) = 3 /\ 1 \in 1..Len(v) /\ 3 \in 1..Len(v) /\ v[1] \in Worlds /\ v[3] \in Worlds
    BY <1>0, <1>1, <1>4, StatementNumbers
  <2>2. /\ Evaluate(s, v).passed => HoldsAcross(s, v[1], v[3])
        /\ ~Evaluate(s, v).passed => ~HoldsAcross(s, v[1], v[1]) \/ ~HoldsAcross(s, v[3], v[3])
    BY <1>4, <2>1, PrimaryKeys
  <2> QED
    BY <1>4, <2>1, <2>2 DEF Goal, HeldAcross, BrokenAcross, TwoMoments
<1>5. CASE s.type = "compare_queries"
  <2>1. Len(v) = 2 /\ 1 \in 1..Len(v) /\ 2 \in 1..Len(v) /\ v[1] \in Worlds /\ v[2] \in Worlds
    BY <1>0, <1>1, <1>5, StatementNumbers
  <2>2. Evaluate(s, v).passed <=> HoldsAcross(s, v[1], v[2])
    BY <1>5, <2>1, ComparedTables
  <2> QED
    BY <1>5, <2>1, <2>2 DEF Goal, HeldAcross, BrokenAcross, TwoMoments
<1>6. CASE s.type = "no_duplicate_rows"
  <2>1. 2 \in 1..Len(v) /\ v[2] \in Worlds
    BY <1>0, <1>1, <1>6, StatementNumbers
  <2>2. Evaluate(s, v).passed <=> Holds(s, v[2])
    BY <1>6, <2>1, DistinctRows
  <2> QED
    BY <1>2, <1>6, <2>1, <2>2 DEF TwoMoments
<1>7. CASE s.type \in RowTypes
  <2>1. Evaluate(s, v).passed <=> Holds(s, v[1])
    BY <1>1, <1>7, RowChecks
  <2> QED
    BY <1>2, <1>3, <1>7, <2>1 DEF TwoMoments, RowTypes
<1>8. CASE s.type = "referential_integrity"
  <2>1. Evaluate(s, v).passed <=> Holds(s, v[1])
    BY <1>1, <1>8, ForeignKeys
  <2> QED
    BY <1>2, <1>3, <1>8, <2>1 DEF TwoMoments
<1>9. CASE s.type = "completeness"
  <2>1. Evaluate(s, v).passed <=> Holds(s, v[1])
    BY <1>1, <1>9, CompleteTables
  <2> QED
    BY <1>2, <1>3, <1>9, <2>1 DEF TwoMoments
<1>10. CASE s.type = "unique"
  <2>1. Evaluate(s, v).passed <=> Holds(s, v[1])
    BY <1>1, <1>10, UniqueKeys
  <2> QED
    BY <1>2, <1>3, <1>10, <2>1 DEF TwoMoments
<1>11. CASE s.type \in {"row_count", "not_empty"}
  <2>1. Evaluate(s, v).passed <=> Holds(s, v[1])
    BY <1>1, <1>11, CountedTables
  <2> QED
    BY <1>2, <1>3, <1>11, <2>1 DEF TwoMoments
<1>12. CASE s.type = "freshness"
  <2>1. Evaluate(s, v).passed <=> Holds(s, v[1])
    BY <1>1, <1>12, FreshTables
  <2> QED
    BY <1>2, <1>3, <1>12, <2>1 DEF TwoMoments
<1>13. CASE s.type = "schema"
  <2>1. Evaluate(s, v).passed <=> Holds(s, v[1])
    BY <1>1, <1>13, SchemaChecks
  <2> QED
    BY <1>2, <1>3, <1>13, <2>1 DEF TwoMoments
<1>14. CASE s.type = "column_exists"
  <2>1. Evaluate(s, v).passed <=> Holds(s, v[1])
    BY <1>1, <1>14, ColumnChecks
  <2> QED
    BY <1>2, <1>3, <1>14, <2>1 DEF TwoMoments
<1>15. CASE s.type = "aggregate"
  <2>1. Evaluate(s, v).passed <=> Holds(s, v[1])
    BY <1>1, <1>15, AggregateChecks
  <2> QED
    BY <1>2, <1>3, <1>15, <2>1 DEF TwoMoments
<1>16. CASE s.type = "custom_sql"
  <2>1. Evaluate(s, v).passed <=> Holds(s, v[1])
    BY <1>1, <1>16, CustomChecks
  <2> QED
    BY <1>2, <1>3, <1>16, <2>1 DEF TwoMoments
<1>17. CASE s.type = "sql_returns_no_rows"
  <2>1. Evaluate(s, v).passed <=> Holds(s, v[1])
    BY <1>1, <1>17, NoRowsChecks
  <2> QED
    BY <1>2, <1>3, <1>17, <2>1 DEF TwoMoments
<1>18. CASE s.type = "sql_returns_rows"
  <2>1. Evaluate(s, v).passed <=> Holds(s, v[1])
    BY <1>1, <1>18, SomeRowsChecks
  <2> QED
    BY <1>2, <1>3, <1>18, <2>1 DEF TwoMoments
<1> QED
  BY <1>0, <1>4, <1>5, <1>6, <1>7, <1>8, <1>9, <1>10, <1>11, <1>12, <1>13, <1>14, <1>15, <1>16, <1>17, <1>18
     DEF CheckTypes

(* What a check that counts its offending rows makes of a table that stays  *)
(* as it is.                                                                *)
LEMMA CountedRight ==
    ASSUME NEW s, Declared(s), ~Undeclared(s), ~Blind(s), s.type \in Counting,
           NEW w \in Worlds, NEW v, v[1] = w, s.type = "unique" => v[2] = w
    PROVE  /\ Evaluate(s, v).passed <=> Holds(s, w)
           /\ Evaluate(s, v).scanned = Count(w.table, Looked(s))
           /\ Evaluate(s, v).failed = Violations(s, w)
           /\ Count(w.table, Looked(s)) \in Nat /\ Violations(s, w) \in Nat
<1>1. w.table \in [Cells -> Nat] /\ s.where \in SUBSET Cells /\ Looked(s) \in SUBSET Cells
  BY Tables, Parameters DEF Looked
<1>2. Count(w.table, Looked(s)) \in Nat
  BY <1>1, Rows
<1> DEFINE held == Present(w.table, Looked(s))
<1>3. s.type # "unique" => Violations(s, w) = Count(w.table, {c \in held : ~Meets(s, c, w)})
  BY DEF Violations
<1>4. \A S \in SUBSET Cells : Count(w.table, S) \in Nat
  BY <1>1, Rows
<1>5. {c \in held : ~Meets(s, c, w)} \in SUBSET Cells
  BY <1>1 DEF Present
<1>6. s.type # "unique" => Violations(s, w) \in Nat
  BY <1>3, <1>4, <1>5
<1>7. s.type \in RowTypes \cup {"completeness"} =>
        Looked(s) = s.where /\ {c \in held : ~Meets(s, c, w)} = Wrong(s, w)
  BY DEF Looked, Wrong, RowTypes
<1>8. CASE s.type \in RowTypes
  <2>1. s.type # "unique"
    BY <1>8 DEF RowTypes
  <2> HIDE DEF held
  <2>2. /\ Evaluate(s, v).passed <=> Holds(s, w)
        /\ Evaluate(s, v).scanned = Count(w.table, s.where)
        /\ Evaluate(s, v).failed = Count(w.table, Wrong(s, w))
    <3>1. s.type \in RowTypes /\ ~Blind(s) /\ Declared(s) /\ v[1] = w
      BY <1>8
    <3> QED
      BY ONLY <3>1, w \in Worlds, RowChecks
  <2>3. Looked(s) = s.where /\ Violations(s, w) = Count(w.table, Wrong(s, w))
    BY <1>3, <1>7, <1>8, <2>1
  <2> QED
    BY <1>2, <1>6, <2>1, <2>2, <2>3
<1>9. CASE s.type = "completeness"
  <2>1. /\ Evaluate(s, v).passed <=> Holds(s, w)
        /\ Evaluate(s, v).scanned = Count(w.table, s.where)
        /\ Evaluate(s, v).failed = Count(w.table, Wrong(s, w))
    BY <1>9, CompleteTables
  <2>2. Looked(s) = s.where /\ Violations(s, w) = Count(w.table, Wrong(s, w))
    BY <1>3, <1>7, <1>9
  <2> HIDE DEF held
  <2> QED
    BY <1>2, <1>6, <1>9, <2>1, <2>2
<1>10. CASE s.type = "referential_integrity"
  <2>1. {c \in held : ~Meets(s, c, w)} = Wrong(s, w)
    BY <1>10, Orphaned
  <2> QED
    BY <1>2, <1>3, <1>6, <1>10, <2>1, ForeignKeys
<1>11. CASE s.type = "unique"
  <2>1. /\ Evaluate(s, v).passed <=> Holds(s, w)
        /\ Evaluate(s, v).scanned = Count(w.table, Looked(s))
        /\ Evaluate(s, v).failed = Violations(s, w)
    BY <1>11, UniqueKeys
  <2>2. Violations(s, w) \in Nat
    <3>1. Violations(s, w) = Count(w.table, held) - Cardinality(held)
      BY <1>11 DEF Violations
    <3>2. Surplus(w.table, Looked(s)) = Count(w.table, held) - Cardinality(held) /\ Surplus(w.table, Looked(s)) \in Nat
      BY <1>1, NoneRepeated
    <3> QED
      BY <3>1, <3>2
  <2> QED
    BY <1>2, <2>1, <2>2
<1> QED
  BY <1>8, <1>9, <1>10, <1>11 DEF Counting

(* What offends is in the table and speaks against it.                      *)
LEMMA OffendingCells ==
    ASSUME NEW s, Declared(s), NEW w \in Worlds
    PROVE  /\ Offending(s, w) \in SUBSET Cells
           /\ ~Blind(s) => \A c \in Offending(s, w) : Speaks(s, c, w)
<1>1. w.table \in [Cells -> Nat] /\ s.where \in SUBSET Cells /\ s.values \in SUBSET Cells
  BY Tables, Parameters
<1>2. CASE s.type \in RowTypes
  <2>1. Offending(s, w) = Present(w.table, s.where \cap FailingPredicate(s))
    BY <1>2 DEF Offending, RowTypes
  <2>2. s.type \notin {"unique", "primary_key", "custom_sql", "sql_returns_no_rows"}
    BY <1>2 DEF RowTypes
  <2>3. \A c \in Cells : ~Blind(s) => (c \in FailingPredicate(s) <=> ~Meets(s, c, w))
    BY <1>2, FailingRows
  <2> QED
    BY <1>1, <2>1, <2>2, <2>3 DEF Present, Speaks
<1>3. CASE s.type \in {"unique", "primary_key"}
  <2>1. Offending(s, w) = Repeated(w.table, Grouped(s)) /\ Grouped(s) \in SUBSET Cells
    BY <1>3, GroupedCells DEF Offending, RowTypes
  <2>2. \A c \in Offending(s, w) : c \in Cells /\ w.table[c] > 1 /\ w.table[c] > 0
    BY <1>1, <2>1 DEF Repeated
  <2> QED
    BY <1>3, <2>2 DEF Speaks, RowTypes
<1>4. CASE s.type = "referential_integrity"
  <2>1. Offending(s, w) = Wrong(s, w)
    BY <1>4, Orphaned DEF Offending, RowTypes
  <2> QED
    BY <1>1, <1>4, <2>1 DEF Wrong, Present, Speaks
<1>5. CASE s.type \in {"custom_sql", "sql_returns_no_rows"}
  <2>1. Offending(s, w) = Present(w.table, s.values)
    BY <1>5 DEF Offending, RowTypes
  <2> QED
    BY <1>1, <1>5, <2>1 DEF Present, Speaks, RowTypes
<1>6. CASE s.type = "compare_queries"
  <2>1. Offending(s, w) = Present(w.table, Cells)
    BY <1>6 DEF Offending, RowTypes
  <2> QED
    BY <1>1, <1>6, <2>1 DEF Present, Speaks, RowTypes
<1>7. CASE s.type \notin RowTypes \cup UserSQL \cup {"unique", "primary_key", "referential_integrity"}
  BY <1>7 DEF Offending, UserSQL
<1> QED
  BY <1>2, <1>3, <1>4, <1>5, <1>6, <1>7 DEF UserSQL

(* What is worth a sample did not pass; of these checks, what did not is.   *)
LEMMA WorthASampleFails ==
    ASSUME NEW s, Declared(s), ~Undeclared(s), ~Blind(s), NEW v \in Seq(Worlds), Len(v) = Statements(s),
           s.type \notin UserSQL
    PROVE  /\ Evaluate(s, v).passed => Offending(s, v[1]) = {}
           /\ ~Evaluate(s, v).passed /\ s.type \in Counting \ {"completeness"} => Offending(s, v[1]) # {}
<1>0. s.type \in CheckTypes
  BY Parameters
<1>1. Len(v) \in {1, 2, 3} /\ v[1] \in Worlds /\ (Len(v) >= 3 => v[3] \in Worlds)
  BY <1>0, StatementNumbers
<1>2. CASE s.type \in RowTypes
  <2>1. Offending(s, v[1]) = Wrong(s, v[1])
    BY <1>1, <1>2, RowChecks DEF Offending, RowTypes
  <2>2. Evaluate(s, v).passed <=> Holds(s, v[1])
    BY <1>1, <1>2, RowChecks
  <2>3. Holds(s, v[1]) <=> Wrong(s, v[1]) = {}
    <3>1. Holds(s, v[1]) <=> \A c \in Present(v[1].table, s.where) : Meets(s, c, v[1])
      BY <1>2 DEF Holds, RowTypes
    <3> QED
      BY <3>1 DEF Wrong
  <2> QED
    BY <2>1, <2>2, <2>3
<1>3. CASE s.type = "referential_integrity"
  <2>1. Offending(s, v[1]) = Wrong(s, v[1])
    BY <1>1, <1>3, Orphaned DEF Offending, RowTypes
  <2>2. Evaluate(s, v).passed <=> Holds(s, v[1])
    BY <1>1, <1>3, ForeignKeys
  <2>3. Holds(s, v[1]) <=> Wrong(s, v[1]) = {}
    <3>1. Holds(s, v[1]) <=> \A c \in Present(v[1].table, s.where) : Meets(s, c, v[1])
      BY <1>3 DEF Holds, RowTypes
    <3> QED
      BY <3>1 DEF Wrong
  <2> QED
    BY <2>1, <2>2, <2>3
<1>4. CASE s.type \in {"unique", "primary_key"}
  <2>1. Offending(s, v[1]) = Repeated(v[1].table, Grouped(s))
    BY <1>4 DEF Offending, RowTypes
  <2>2. CASE s.type = "unique"
    BY <1>1, <2>1, <2>2, UniqueKeys
  <2>3. CASE s.type = "primary_key"
    <3>1. v[3] \in Worlds
      BY <1>0, <1>1, <2>3, StatementNumbers
    <3>2. Evaluate(s, v).passed => Repeated(v[1].table, Grouped(s)) = {}
      BY <1>1, <2>3, <3>1, PrimaryKeys
    <3>3. s.type \notin Counting
      BY <2>3 DEF Counting, RowTypes
    <3> QED
      BY <2>1, <3>2, <3>3
  <2> QED
    BY <1>4, <2>2, <2>3
<1>5. CASE s.type \notin RowTypes \cup {"unique", "primary_key", "referential_integrity"}
  BY <1>5 DEF Offending, Counting, UserSQL
<1> QED
  BY <1>2, <1>3, <1>4, <1>5

(* The rows of the user's SQL are evidence when there are any.              *)
LEMMA NoRowsShown ==
    ASSUME NEW s, Declared(s), s.type = "sql_returns_no_rows", ~Blind(s), s.sample_limit > 0,
           NEW v, v[1] \in Worlds, ~Evaluate(s, v).passed
    PROVE  Shown(s, v) # {}
<1>1. ~Holds(s, v[1])
  BY NoRowsChecks
<1>2. Holds(s, v[1]) <=> \A c \in s.values : v[1].table[c] = 0
  BY DEF Holds, RowTypes
<1>3. PICK c \in s.values : v[1].table[c] # 0
  BY <1>1, <1>2
<1>4. v[1].table \in [Cells -> Nat] /\ c \in Cells
  BY Tables, Parameters
<1>5. c \in Offending(s, v[1])
  <2>1. Offending(s, v[1]) = Present(v[1].table, s.values)
    BY DEF Offending, RowTypes
  <2>2. v[1].table[c] > 0
    BY <1>3, <1>4
  <2> QED
    BY <2>1, <2>2 DEF Present
<1>6. ~Unusable(s, v)
  BY DEF Unusable
<1> QED
  BY <1>5, <1>6 DEF Shown, UserSQL
---------------------------------------------------------------------------
(* What is suggested, field by field.                                       *)

Suggestible ==
    [type : CheckTypes, valid : {TRUE}, where : SUBSET Cells, values : SUBSET Cells, expected : {<<>>},
     min : Int \cup {None}, max : Int \cup {None}, equals : Int \cup {None},
     ignore_nulls : BOOLEAN, inclusive : BOOLEAN, negate : BOOLEAN, strict : BOOLEAN,
     function : {"avg"}, operator : Operators, shape : {"row_count"}, max_rows : Nat,
     threshold : Nat \cup {None}, severity : {"info", "warn", "error", "critical"}, sample_limit : Nat]

LEMMA SuggestionTyped ==
    ASSUME NEW type \in CheckTypes, NEW min \in Int \cup {None}, NEW max \in Int \cup {None},
           NEW values \in SUBSET Cells
    PROVE  Suggestion(type, min, max, values) \in Suggestible
<1> DEFINE c == Check(type)
<1>1. c \in Suggestible
  BY DEF Check, Suggestible, Operators
<1> HIDE DEF c
<1>2. PICK d : d = [c EXCEPT !.severity = "warn"]
  OBVIOUS
<1>3. d \in Suggestible
  BY <1>1, <1>2 DEF Suggestible
<1>4. PICK e : e = [d EXCEPT !.min = min]
  OBVIOUS
<1>5. e \in Suggestible
  BY <1>3, <1>4 DEF Suggestible
<1>6. PICK f : f = [e EXCEPT !.max = max]
  OBVIOUS
<1>7. f \in Suggestible
  BY <1>5, <1>6 DEF Suggestible
<1>8. [f EXCEPT !.values = values] \in Suggestible
  BY <1>7 DEF Suggestible
<1> QED
  BY <1>2, <1>4, <1>6, <1>8 DEF Suggestion, c

LEMMA SuggestionDeclared ==
    ASSUME NEW type \in CheckTypes \ {"sql_returns_rows", "sql_returns_no_rows", "schema", "column_exists"},
           NEW min \in Int \cup {None}, NEW max \in Int \cup {None}, NEW values \in SUBSET Cells,
           type = "accepted_values" => Null \notin values, type = "completeness" => min # None
    PROVE  Declared(Suggestion(type, min, max, values)) /\ ~Blind(Suggestion(type, min, max, values))
<1> DEFINE s == Suggestion(type, min, max, values)
<1>1. s \in Suggestible
  BY SuggestionTyped
<1>2. s.type = type /\ s.min = min /\ s.values = values
  BY DEF Suggestion, Check
<1> HIDE DEF s
<1>3. s.expected = <<>> /\ s.function = "avg" /\ s.shape = "row_count"
  BY <1>1 DEF Suggestible
<1>4. Declared(s)
  BY <1>1, <1>2, <1>3 DEF Declared, Suggestible, Functions
<1>5. ~Blind(s)
  BY <1>2 DEF Blind
<1> QED
  BY <1>4, <1>5 DEF s

LEMMA SuggestionUsable ==
    ASSUME NEW type, NEW min, NEW max, NEW values,
           type = "accepted_values" => values # {}, type = "range" => min # None,
           type = "freshness" => max # None, type # "length"
    PROVE  ~Undeclared(Suggestion(type, min, max, values))
<1> DEFINE s == Suggestion(type, min, max, values)
<1>1. s.type = type /\ s.valid /\ s.min = min /\ s.max = max /\ s.values = values
  BY DEF Suggestion, Check
<1> HIDE DEF s
<1>2. ~Undeclared(s)
  BY <1>1 DEF Undeclared
<1> QED
  BY <1>2 DEF s

LEMMA GreaterOf ==
    ASSUME NEW a \in Int, NEW b \in Int, NEW m, m = Max({a, b})
    PROVE  m \in Int /\ m >= a /\ m >= b /\ (m = a \/ m = b)
<1>1. IsFiniteSet({a, b}) /\ {a, b} \in SUBSET Int /\ {a, b} # {}
  <2>1. {a, b} = {a} \cup {b}
    OBVIOUS
  <2>2. IsFiniteSet({a}) /\ IsFiniteSet({b})
    BY FS_Singleton
  <2>3. IsFiniteSet({a} \cup {b})
    BY <2>2, FS_Union
  <2> QED
    BY <2>1, <2>3
<1> DEFINE S == {a, b}
<1>2. Max(S) \in S /\ \A y \in S : Max(S) >= y
  <2> HIDE DEF S
  <2> QED
    BY <1>1, SmallestNumber DEF S
<1> QED
  BY <1>2

(* The bounds of a suggested range lie around what was seen.                *)
LEMMA SuggestedRange ==
    ASSUME NEW p, ProfileOK(p), NEW s \in SuggestRange(p)
    PROVE  \E low, high \in Int : /\ s = Suggestion("range", low, high, {}) /\ p.least # None
                                  /\ low <= p.least /\ p.largest <= high
<1>1. ~ (p.kind # "numeric" \/ ~Enough(p) \/ p.least = None \/ IsUnique(p))
  BY DEF SuggestRange
<1>2. p.least \in Int /\ p.largest \in Int /\ p.least # None /\ p.least <= p.largest
  BY <1>1 DEF ProfileOK
<1> DEFINE span == p.largest - p.least
           high == IF p.largest >= 0 THEN p.largest ELSE -p.largest
           pad  == IF span # 0 THEN span \div 4 ELSE Max({high \div 10, 1})
           low  == IF p.least >= 0 THEN Max({p.least - pad, 0}) ELSE p.least - pad
<1>3. s = Suggestion("range", low, p.largest + pad, {})
  <2>1. SuggestRange(p) = {Suggestion("range", low, p.largest + pad, {})}
    BY <1>1 DEF SuggestRange
  <2> QED
    BY <2>1
<1>4. pad \in Int /\ pad >= 0
  <2>1. span \in Int /\ span >= 0 /\ high \in Int
    BY <1>2
  <2>2. PICK t \in Int : t = high \div 10
    BY <2>1
  <2>3. PICK one \in Int : one = 1
    OBVIOUS
  <2>4. PICK m : m = Max({t, one})
    OBVIOUS
  <2>5. m \in Int /\ m >= one
    BY <2>4, GreaterOf
  <2>6. pad = IF span # 0 THEN span \div 4 ELSE m
    BY <2>2, <2>3, <2>4
  <2> HIDE DEF span, high, pad
  <2>7. span \div 4 \in Int /\ span \div 4 >= 0
    BY <2>1
  <2> QED
    BY <2>3, <2>5, <2>6, <2>7
<1>5. low \in Int /\ low <= p.least
  <2> HIDE DEF pad
  <2>1. PICK a \in Int : a = p.least - pad
    BY <1>2, <1>4
  <2>2. PICK zero \in Int : zero = 0
    OBVIOUS
  <2>3. PICK m : m = Max({a, zero})
    OBVIOUS
  <2>4. m \in Int /\ (m = a \/ m = zero)
    BY <2>3, GreaterOf
  <2>5. low = IF p.least >= 0 THEN m ELSE a
    BY <2>1, <2>2, <2>3
  <2> HIDE DEF low
  <2> QED
    BY <1>2, <1>4, <2>1, <2>2, <2>4, <2>5
<1> HIDE DEF low, pad
<1>6. p.largest + pad \in Int /\ p.largest <= p.largest + pad
  BY <1>2, <1>4
<1> QED
  BY <1>2, <1>3, <1>5, <1>6

LEMMA Suggestions ==
    ASSUME NEW p, ProfileOK(p), NEW s \in Suggested(p)
    PROVE  \/ p.rows # 0 /\ s = Suggestion("row_count", Max({p.rows \div 2, 1}), None, {})
           \/ p.nulls = 0 /\ p.total > 0 /\ s = Suggestion("not_null", None, None, {})
           \/ /\ p.nulls > 0 /\ p.total > 0
              /\ s = Suggestion("completeness", Max({((p.total - p.nulls) * Full) \div p.total - 500, 0}), None, {})
           \/ IsUnique(p) /\ p.nulls = 0 /\ s = Suggestion("unique", None, None, {})
           \/ s = Suggestion("accepted_values", None, None, DOMAIN p.top \ {Null})
              /\ DOMAIN p.top \ {Null} # {}
           \/ s \in SuggestRange(p)
           \/ s = Suggestion("freshness", None, 24, {})
<1>1. CASE s \in SuggestRowCount(p)
  BY <1>1 DEF SuggestRowCount
<1>2. CASE s \in SuggestComplete(p)
  <2>1. CASE p.nulls = 0 /\ p.total > 0
    BY <1>2, <2>1 DEF SuggestComplete
  <2>2. CASE ~ (p.nulls = 0 /\ p.total > 0)
    <3>1. /\ p.nulls > 0 /\ 20 * p.nulls <= p.total
          /\ s = Suggestion("completeness", Max({((p.total - p.nulls) * Full) \div p.total - 500, 0}), None, {})
      BY <1>2, <2>2 DEF SuggestComplete
    <3>2. p.total > 0
      BY <3>1 DEF ProfileOK
    <3> QED
      BY <3>1, <3>2
  <2> QED
    BY <2>1, <2>2
<1>3. CASE s \in SuggestUnique(p)
  BY <1>3 DEF SuggestUnique
<1>4. CASE s \in SuggestAccepted(p)
  BY <1>4 DEF SuggestAccepted
<1>5. CASE s \in SuggestFreshness(p)
  BY <1>5 DEF SuggestFreshness
<1> QED
  BY <1>1, <1>2, <1>3, <1>4, <1>5 DEF Suggested

LEMMA SuggestedDeclared ==
    ASSUME NEW p, ProfileOK(p), NEW s \in Suggested(p)
    PROVE  Declared(s) /\ ~Blind(s) /\ ~Undeclared(s)
<1>0. /\ p.rows \in Nat /\ p.nulls \in Nat /\ p.total \in Nat /\ p.nulls <= p.total
      /\ DOMAIN p.top \in SUBSET Cells
  BY DEF ProfileOK
<1>1. CASE s = Suggestion("row_count", Max({p.rows \div 2, 1}), None, {})
  <2>1. PICK half \in Int : half = p.rows \div 2
    BY <1>0
  <2>2. PICK one \in Int : one = 1
    OBVIOUS
  <2>3. PICK m : m = Max({half, one})
    OBVIOUS
  <2>4. m \in Int
    BY <2>3, GreaterOf
  <2>5. s = Suggestion("row_count", m, None, {})
    BY <1>1, <2>1, <2>2, <2>3
  <2>6. Declared(s) /\ ~Blind(s)
    BY <2>4, <2>5, SuggestionDeclared DEF CheckTypes
  <2> QED
    BY <2>5, <2>6, SuggestionUsable
<1>2. CASE s = Suggestion("not_null", None, None, {})
  <2>1. Declared(s) /\ ~Blind(s)
    BY <1>2, SuggestionDeclared DEF CheckTypes, RowTypes
  <2> QED
    BY <1>2, <2>1, SuggestionUsable
<1>3. CASE /\ p.nulls > 0 /\ p.total > 0
           /\ s = Suggestion("completeness", Max({((p.total - p.nulls) * Full) \div p.total - 500, 0}), None, {})
  <2>1. PICK q \in Int : q = ((p.total - p.nulls) * Full) \div p.total
    BY <1>0, <1>3 DEF Full
  <2>2. PICK a \in Int : a = q - 500
    OBVIOUS
  <2>3. PICK zero \in Int : zero = 0
    OBVIOUS
  <2>4. PICK m : m = Max({a, zero})
    OBVIOUS
  <2>5. m \in Int
    BY <2>4, GreaterOf
  <2>6. s = Suggestion("completeness", m, None, {})
    BY <1>3, <2>1, <2>2, <2>3, <2>4
  <2>7. Declared(s) /\ ~Blind(s)
    <3>1. m # None /\ "completeness" \in CheckTypes
      BY <2>5, ValuesAssumption DEF CheckTypes
    <3> QED
      BY <2>5, <2>6, <3>1, SuggestionDeclared
  <2> QED
    BY <2>6, <2>7, SuggestionUsable
<1>4. CASE s = Suggestion("unique", None, None, {})
  <2>1. Declared(s) /\ ~Blind(s)
    BY <1>4, SuggestionDeclared DEF CheckTypes
  <2> QED
    BY <1>4, <2>1, SuggestionUsable
<1>5. CASE s = Suggestion("accepted_values", None, None, DOMAIN p.top \ {Null}) /\ DOMAIN p.top \ {Null} # {}
  <2>1. PICK V : V = DOMAIN p.top \ {Null}
    OBVIOUS
  <2>2. V \in SUBSET Cells /\ Null \notin V /\ V # {}
    BY <1>0, <1>5, <2>1
  <2>3. s = Suggestion("accepted_values", None, None, V)
    BY <1>5, <2>1
  <2>4. Declared(s) /\ ~Blind(s)
    BY <2>2, <2>3, SuggestionDeclared DEF CheckTypes, RowTypes
  <2> QED
    BY <2>2, <2>3, <2>4, SuggestionUsable
<1>6. CASE s \in SuggestRange(p)
  <2>1. PICK low, high \in Int : s = Suggestion("range", low, high, {})
    BY <1>6, SuggestedRange
  <2>2. Declared(s) /\ ~Blind(s)
    BY <2>1, SuggestionDeclared DEF CheckTypes, RowTypes
  <2> QED
    BY <2>1, <2>2, SuggestionUsable, ValuesAssumption
<1>7. CASE s = Suggestion("freshness", None, 24, {})
  <2>1. PICK day \in Int : day = 24
    OBVIOUS
  <2>2. s = Suggestion("freshness", None, day, {})
    BY <1>7, <2>1
  <2>3. Declared(s) /\ ~Blind(s)
    BY <2>2, SuggestionDeclared DEF CheckTypes
  <2> QED
    BY <2>2, <2>3, SuggestionUsable, ValuesAssumption
<1> QED
  BY <1>1, <1>2, <1>3, <1>4, <1>5, <1>6, <1>7, Suggestions
---------------------------------------------------------------------------
(* A profile of a table suggests what holds of it.                          *)

LEMMA Splits ==
    ASSUME NEW t \in [Cells -> Nat]
    PROVE  /\ Count(t, Cells) \in Nat /\ Count(t, Values) \in Nat /\ t[Null] \in Nat
           /\ Count(t, Cells) = Count(t, Values) + t[Null]
<1>1. Values \in SUBSET Cells /\ Cells \ Values = {Null} /\ Null \in Cells
  BY ValuesAssumption DEF Cells
<1>2. IsFiniteSet(Cells) /\ (\A x \in Cells : t[x] \in Nat) /\ Count(t, Cells) \in Nat /\ Count(t, Values) \in Nat
  <2>1. Cells \in SUBSET Cells
    OBVIOUS
  <2> QED
    BY <1>1, <2>1, Rows
<1>3. Count(t, Cells) = Count(t, Values) + Count(t, Cells \ Values)
  BY <1>1, <1>2, CountParts
<1>4. t[Null] \in Nat /\ Count(t, {Null}) = t[Null]
  BY <1>1, <1>2, CountOne
<1> QED
  BY <1>1, <1>2, <1>3, <1>4

(* A share rounded down, less a twentieth, is below the share.              *)
LEMMA ShareBelow ==
    ASSUME NEW n \in Nat, NEW k \in Nat, k <= n, n > 0,
           NEW q \in Int, q = ((n - k) * Full) \div n, NEW m \in {q - 500, 0}
    PROVE  m \in Int /\ m <= Full /\ k * Full <= (Full - m) * n
<1>1. PICK d \in Nat : d = n - k
  OBVIOUS
<1>2. PICK e \in Nat : e = d * 10000
  <2>1. d * 10000 \in Nat
    OBVIOUS
  <2> QED
    BY <2>1
<1>3. q = e \div n
  BY <1>1, <1>2 DEF Full
<1>4. q * n <= e /\ q >= 0
  BY <1>3
<1>5. e <= 10000 * n
  BY <1>1, <1>2
<1>6. q <= 10000
  <2>1. SUFFICES ASSUME q >= 10001 PROVE FALSE
    OBVIOUS
  <2>2. q * n >= 10001 * n
    BY <2>1
  <2> QED
    BY <2>2, <1>4, <1>5
<1>7. CASE m = 0
  BY <1>7 DEF Full
<1>8. CASE m = q - 500
  <2>1. (10000 - m) * n = 10000 * n - q * n + 500 * n
    BY <1>8
  <2>2. q * n \in Int /\ e = 10000 * n - k * 10000
    BY <1>1, <1>2
  <2> QED
    BY <2>1, <2>2, <1>4, <1>6, <1>8 DEF Full
<1> QED
  BY <1>7, <1>8

LEMMA MostFrequentAll ==
    ASSUME NEW t \in [Cells -> Nat], NEW top \in MostFrequent(t)
    PROVE  /\ top \subseteq Present(t, Cells) /\ IsFiniteSet(top)
           /\ Cardinality(top) # TopLimit => top = Present(t, Cells)
<1> DEFINE groups == Present(t, Cells)
           size   == Min({TopLimit, Cardinality(groups)})
<1>1. top \subseteq groups /\ Cardinality(top) = size
  BY DEF MostFrequent, kSubset
<1>2. IsFiniteSet(groups)
  BY CellsFinite DEF Present
<1> HIDE DEF groups
<1>3. Cardinality(groups) \in Nat /\ IsFiniteSet(top)
  BY <1>1, <1>2, FS_CardinalityType, FS_Subset
<1>4. size \in {TopLimit, Cardinality(groups)}
  <2> DEFINE S == {TopLimit, Cardinality(groups)}
  <2>1. S \in SUBSET Int /\ S # {}
    BY <1>3, ProfilingAssumption
  <2>2. IsFiniteSet(S)
    <3>1. S = {TopLimit} \cup {Cardinality(groups)}
      OBVIOUS
    <3> HIDE DEF S
    <3> QED
      BY <3>1, FS_Singleton, FS_Union
  <2> HIDE DEF S
  <2>3. Min(S) \in S
    BY <2>1, <2>2, SmallestNumber
  <2> QED
    BY <2>3 DEF S
<1> HIDE DEF size
<1>5. Cardinality(top) # TopLimit => top = groups
  BY <1>1, <1>2, <1>4, FS_Subset
<1> QED
  BY <1>1, <1>3, <1>5 DEF groups

LEMMA SuggestedHold ==
    ASSUME NEW p, ProfileOK(p), NEW w \in Worlds, Told(p, w), NEW s \in Suggested(p)
    PROVE  \/ Holds(s, w)
           \/ s.type = "freshness"
           \/ s.type = "not_null" /\ ~p.seen
           \/ s.type = "accepted_values" /\ Cardinality(DOMAIN p.top) = TopLimit
<1> DEFINE t == w.table
           held == Present(t, Cells)
<1>0. /\ p.rows \in Nat /\ p.nulls \in Nat /\ p.total \in Nat /\ p.nulls <= p.total
      /\ DOMAIN p.top \in SUBSET Cells
  BY DEF ProfileOK
<1>t. t \in [Cells -> Nat] /\ w.table = t
  BY Tables
<1> HIDE DEF t
<1>r. /\ Count(t, Cells) \in Nat /\ Count(t, Values) \in Nat /\ t[Null] \in Nat
      /\ Count(t, Cells) = Count(t, Values) + t[Null]
  BY <1>t, Splits
<1>p. /\ IsFiniteSet(Cells) /\ IsFiniteSet(Values) /\ IsFiniteSet(held)
      /\ (\A x \in Cells : t[x] \in Nat) /\ Count(t, held) = Count(t, Cells)
  <2>1. Cells \in SUBSET Cells /\ Values \in SUBSET Cells /\ held \in SUBSET Cells
    BY DEF Cells, Present
  <2> QED
    BY <2>1, <1>t, Rows, CellsFinite
<1>h. \A c \in held : c \in Cells /\ t[c] > 0
  BY DEF Present
<1>n. Null \notin Values /\ Cells = Values \cup {Null} /\ Null \in Cells
  BY ValuesAssumption DEF Cells
<1>told. /\ p.rows = Count(t, Cells) /\ p.total = p.rows
         /\ \/ ~p.seen /\ p.nulls = 0 /\ p.distinct = None /\ p.least = None
            \/ /\ p.nulls = p.total - Count(t, Values)
               /\ p.distinct \in {None, Cardinality(Present(t, Values))}
               /\ p.least # None => p.least = Least(t, Cells) /\ p.largest = Largest(t, Cells)
         /\ p.top = <<>> \/ \E top \in MostFrequent(t) : p.top = [c \in top |-> t[c]]
  BY <1>t DEF Told
<1> HIDE DEF held
<1>1. CASE p.rows # 0 /\ s = Suggestion("row_count", Max({p.rows \div 2, 1}), None, {})
  <2>1. PICK half \in Int : half = p.rows \div 2
    BY <1>0
  <2>2. PICK one \in Int : one = 1
    OBVIOUS
  <2>3. PICK m : m = Max({half, one})
    OBVIOUS
  <2>4. m \in Int /\ (m = half \/ m = one)
    BY <2>3, GreaterOf
  <2>5. m <= p.rows
    BY <1>0, <1>1, <2>1, <2>2, <2>4
  <2>6. s.type = "row_count" /\ s.where = Cells /\ s.min = m /\ s.max = None /\ s.equals = None
    BY <1>1, <2>1, <2>2, <2>3 DEF Suggestion, Check
  <2>7. Within(s, Count(t, held))
    BY <1>0, <1>p, <1>r, <1>told, <2>4, <2>5, <2>6, ValuesAssumption DEF Within
  <2> QED
    BY <1>t, <2>6, <2>7 DEF Holds, RowTypes, held
<1>2. CASE p.nulls = 0 /\ p.total > 0 /\ s = Suggestion("not_null", None, None, {})
  <2>1. s.type = "not_null" /\ s.where = Cells
    BY <1>2 DEF Suggestion, Check
  <2>2. CASE ~p.seen
    BY <2>1, <2>2
  <2>3. CASE p.nulls = p.total - Count(t, Values)
    <3>1. t[Null] = 0
      BY <1>2, <1>r, <1>told, <2>3
    <3>2. \A c \in held : c # Null
      BY <1>h, <3>1
    <3>3. \A c \in held : Meets(s, c, w)
      BY <3>2, <2>1 DEF Meets
    <3> QED
      BY <1>t, <3>3, <2>1 DEF Holds, RowTypes, held
  <2> QED
    BY <2>2, <2>3, <1>told
<1>3. CASE /\ p.nulls > 0 /\ p.total > 0
           /\ s = Suggestion("completeness", Max({((p.total - p.nulls) * Full) \div p.total - 500, 0}), None, {})
  <2>1. PICK m : m = Max({((p.total - p.nulls) * Full) \div p.total - 500, 0})
    OBVIOUS
  <2>2. m \in Int /\ m <= Full /\ p.nulls * Full <= (Full - m) * p.total
    <3>1. PICK q \in Int : q = ((p.total - p.nulls) * Full) \div p.total
      BY <1>0, <1>3 DEF Full
    <3>2. PICK a \in Int : a = q - 500
      OBVIOUS
    <3>3. PICK zero \in Int : zero = 0
      OBVIOUS
    <3>4. PICK x : x = Max({a, zero})
      OBVIOUS
    <3>5. x \in Int /\ (x = a \/ x = zero)
      BY <3>4, GreaterOf
    <3>6. m = x
      BY <2>1, <3>1, <3>2, <3>3, <3>4
    <3>7. x \in {q - 500, 0}
      BY <3>2, <3>3, <3>5
    <3>8. x <= Full /\ p.nulls * Full <= (Full - x) * p.total
      BY <1>0, <1>3, <3>1, <3>7, ShareBelow
    <3> QED
      BY <3>5, <3>6, <3>8
  <2>3. s.type = "completeness" /\ s.where = Cells /\ s.min = m
    BY <1>3, <2>1 DEF Suggestion, Check
  <2>4. t[Null] = p.nulls /\ Count(t, held) = p.total
    BY <1>0, <1>3, <1>r, <1>p, <1>told
  <2>5. s.min <= Full /\ t[Null] * Full <= (Full - s.min) * Count(t, held)
    BY <2>2, <2>3, <2>4
  <2> QED
    BY <1>t, <2>3, <2>5 DEF Holds, RowTypes, held
<1>4. CASE IsUnique(p) /\ p.nulls = 0 /\ s = Suggestion("unique", None, None, {})
  <2>1. s.type = "unique" /\ s.where = Cells /\ s.ignore_nulls = TRUE
    BY <1>4 DEF Suggestion, Check
  <2> DEFINE P == Present(t, Values)
  <2>2. p.distinct # None /\ p.distinct = p.total - p.nulls
    BY <1>4 DEF IsUnique
  <2>3. Cardinality(P) = p.total /\ Count(t, Values) = p.total
    BY <1>0, <1>4, <1>r, <1>told, <2>2
  <2>4. IsFiniteSet(P) /\ \A x \in P : t[x] \in Nat /\ t[x] > 0
    BY <1>p, <1>n, FS_Subset DEF Present
  <2>5. Count(t, P) = Count(t, Values)
    BY <1>p, <1>n, CountPresent
  <2> HIDE DEF P
  <2>6. \A x \in P : t[x] = 1
    BY <2>3, <2>4, <2>5, CountCells
  <2>7. \A c \in held : t[c] = 1 \/ c = Null
    BY <1>h, <1>n, <2>6 DEF P, Present
  <2> QED
    BY <1>t, <2>1, <2>7 DEF Holds, RowTypes, held
<1>5. CASE s = Suggestion("accepted_values", None, None, DOMAIN p.top \ {Null}) /\ DOMAIN p.top \ {Null} # {}
  <2>1. PICK V : V = DOMAIN p.top \ {Null}
    OBVIOUS
  <2>2. s.type = "accepted_values" /\ s.where = Cells /\ s.values = V /\ s.ignore_nulls = TRUE
    BY <1>5, <2>1 DEF Suggestion, Check
  <2>3. p.top # <<>>
    BY <1>5
  <2>4. PICK top \in MostFrequent(t) : p.top = [c \in top |-> t[c]]
    BY <1>told, <2>3
  <2>5. DOMAIN p.top = top
    BY <2>4
  <2>6. SUFFICES ASSUME Cardinality(top) # TopLimit PROVE Holds(s, w)
    BY <2>2, <2>5
  <2>7. top = held
    BY <1>t, <2>4, <2>6, MostFrequentAll DEF held
  <2>8. \A c \in held : Meets(s, c, w)
    BY <2>1, <2>2, <2>5, <2>7 DEF Meets
  <2> QED
    BY <1>t, <2>2, <2>8 DEF Holds, RowTypes, held
<1>6. CASE s \in SuggestRange(p)
  <2>1. PICK low, high \in Int : /\ s = Suggestion("range", low, high, {}) /\ p.least # None
                                 /\ low <= p.least /\ p.largest <= high
    BY <1>6, SuggestedRange
  <2>2. s.type = "range" /\ s.where = Cells /\ s.min = low /\ s.max = high /\ s.inclusive = TRUE
    BY <2>1 DEF Suggestion, Check
  <2>3. p.least = Least(t, Cells) /\ p.largest = Largest(t, Cells)
    BY <2>1, <1>told
  <2>4. Cells \cap Values = Values
    BY DEF Cells
  <2>5. \A c \in Present(t, Values) : c \in Int /\ Least(t, Cells) \in Int /\ Largest(t, Cells) \in Int
                                      /\ Least(t, Cells) <= c /\ c <= Largest(t, Cells)
    <3>1. Present(t, Values) # {} => /\ Least(t, Cells) \in Present(t, Values) /\ Largest(t, Cells) \in Present(t, Values)
                                     /\ \A c \in Present(t, Values) : c \in Int /\ Least(t, Cells) <= c /\ c <= Largest(t, Cells)
      BY <1>t, <2>4, LeastLargest
    <3> QED
      BY <3>1
  <2>6. \A c \in held : c = Null \/ (low <= c /\ c <= high /\ c \in Int)
    <3>1. SUFFICES ASSUME NEW c \in held, c # Null PROVE low <= c /\ c <= high /\ c \in Int
      OBVIOUS
    <3>2. c \in Present(t, Values)
      BY <1>h, <1>n, <3>1 DEF Present
    <3>3. PICK a \in Int : a = Least(t, Cells)
      BY <2>5, <3>2
    <3>4. PICK b \in Int : b = Largest(t, Cells)
      BY <2>5, <3>2
    <3>5. c \in Int /\ a <= c /\ c <= b /\ low <= a /\ b <= high
      BY <2>1, <2>3, <2>5, <3>2, <3>3, <3>4
    <3> QED
      BY <3>5
  <2>7. \A c \in held : Meets(s, c, w)
    <3>1. SUFFICES ASSUME NEW c \in held PROVE Meets(s, c, w)
      OBVIOUS
    <3>2. Meets(s, c, w) = \/ c = Null
                           \/ /\ s.min # None => c > s.min \/ (s.inclusive /\ c = s.min)
                              /\ s.max # None => c < s.max \/ (s.inclusive /\ c = s.max)
      BY <2>2 DEF Meets
    <3>3. c = Null \/ (low <= c /\ c <= high /\ c \in Int)
      BY <2>6
    <3>4. CASE c = Null
      BY <3>2, <3>4
    <3>5. CASE low <= c /\ c <= high /\ c \in Int
      <4>1. (c > low \/ c = low) /\ (c < high \/ c = high)
        BY <3>5
      <4> QED
        BY <2>2, <3>2, <4>1
    <3> QED
      BY <3>3, <3>4, <3>5
  <2> QED
    BY <1>t, <2>2, <2>7 DEF Holds, RowTypes, held
<1>7. CASE s = Suggestion("freshness", None, 24, {})
  <2>1. s.type = "freshness"
    BY <1>7 DEF Suggestion, Check
  <2> QED
    BY <2>1
<1> QED
  BY <1>1, <1>2, <1>3, <1>4, <1>5, <1>6, <1>7, Suggestions, ZenonT(30)
---------------------------------------------------------------------------
(* The inductive invariant, action by action.                               *)

PlacesOK ==
    /\ at \in {"idle", "query", "sample", "count", "batch", "single", "top"}
    /\ samples \subseteq Cells /\ broken \in {"nothing", "statement", "sample"}

LEMMA Beginning ==
    ASSUME IInv, NEW s, Declared(s), Begin(s)
    PROVE  /\ PlacesOK' /\ RunInv' /\ WorldsInv' /\ SamplesInv'
           /\ at' \in {"idle", "query"} /\ ~Decided' /\ worlds' = {world} /\ world' = world /\ spec' = s /\ at = "idle"
<1>1. /\ at = "idle" /\ spec' = s /\ views' = <<>> /\ samples' = {} /\ broken' = "nothing"
      /\ worlds' = {world} /\ world' = world /\ writes' = writes
      /\ \/ Undeclared(s) /\ at' = "idle" /\ result' = Errored
         \/ ~Undeclared(s) /\ at' = "query" /\ result' = NoResult
  BY DEF Begin
<1>2. ~Decided'
  BY <1>1 DEF Decided
<1>3. Statements(s) \in {1, 2, 3}
  BY StatementNumbers, Parameters
<1>4. RunInv'
  <2>1. views' \in Seq(Worlds) /\ Len(views') = 0
    BY <1>1
  <2>2. at' # "sample" /\ (Running' => at' = "query" /\ ~Undeclared(s))
    BY <1>1 DEF Running
  <2>3. spec' = s
    BY <1>1
  <2> QED
    BY <1>2, <1>3, <2>1, <2>2, <2>3 DEF RunInv
<1>5. WorldsInv'
  <2>1. world \in Worlds /\ writes \in 0..MaxWrites
    BY DEF IInv, WorldsInv
  <2>2. IsFiniteSet({world})
    BY FS_Singleton
  <2> QED
    BY <1>1, <2>1, <2>2 DEF WorldsInv
<1>6. SamplesInv'
  <2>1. SampledAfter(spec') \in {1, 2} /\ Len(views') = 0
    BY <1>1 DEF SampledAfter
  <2>2. ~ (Len(views') >= SampledAfter(spec'))
    BY <2>1
  <2> QED
    BY <1>1, <1>2, <2>2 DEF SamplesInv
<1>7. PlacesOK'
  BY <1>1 DEF PlacesOK
<1> QED
  BY <1>1, <1>2, <1>4, <1>5, <1>6, <1>7

(* The statements are through: the verdict is that of what they saw.        *)
LEMMA Concluding ==
    ASSUME NEW s, NEW v, NEW r, r = Verdict(s, v)
    PROVE  r = Errored \/ r.status \in Verdicts
<1>1. CASE Unusable(s, v)
  BY <1>1 DEF Verdict
<1>2. CASE ~Unusable(s, v)
  <2>1. r.status = Status(s, Evaluate(s, v))
    BY <1>2 DEF Verdict
  <2> QED
    BY <2>1 DEF Status, Verdicts
<1> QED
  BY <1>1, <1>2

(* What a step leaves alone of the rest.                                    *)
LEMMA SameWorlds ==
    ASSUME WorldsInv, UNCHANGED <<world, writes, worlds>>, Running' => Running, at = "idle" => at' = "idle"
    PROVE  WorldsInv'
<1>1. at' # "idle" => at # "idle"
  OBVIOUS
<1> QED
  BY <1>1 DEF WorldsInv

LEMMA Querying ==
    ASSUME IInv, Query
    PROVE  /\ PlacesOK' /\ RunInv' /\ WorldsInv' /\ SamplesInv'
           /\ at' \in {"query", "sample", "idle"} /\ Running
           /\ UNCHANGED <<world, spec, worlds>>
<1>1. /\ at = "query" /\ views' = Append(views, world)
      /\ UNCHANGED <<world, writes, spec, worlds, broken>>
      /\ \/ Sampled(spec, views') /\ at' = "sample" /\ result' = result /\ samples' = samples
         \/ /\ ~Sampled(spec, views') /\ Len(views') < Statements(spec)
            /\ at' = at /\ result' = result /\ samples' = samples
         \/ /\ ~Sampled(spec, views') /\ ~(Len(views') < Statements(spec))
            /\ at' = "idle" /\ result' = Verdict(spec, views') /\ samples' = samples \cup Shown(spec, views')
  BY DEF Query, Conclude
<1>2. Running /\ ~Decided
  BY <1>1 DEF Running, IInv, RunInv
<1>3. /\ Declared(spec) /\ ~Undeclared(spec) /\ world \in Worlds /\ world \in worlds
      /\ views \in Seq(Worlds) /\ (\A i \in 1..Len(views) : views[i] \in worlds)
      /\ Len(views) \in Nat /\ Len(views) < Statements(spec)
  BY <1>1, <1>2 DEF IInv, RunInv, WorldsInv
<1>4. Statements(spec) \in {1, 2, 3} /\ SampledAfter(spec) \in {1, 2}
  BY <1>3, StatementNumbers, Parameters
<1>5. /\ views' \in Seq(Worlds) /\ Len(views') = Len(views) + 1
      /\ \A i \in 1..Len(views') : views'[i] \in worlds
      /\ Len(views) >= 1 => views'[1] = views[1]
  BY <1>1, <1>3
<1>6. Len(views') <= Statements(spec)
  BY <1>3, <1>4, <1>5
<1>7. Decided' => at' = "idle" /\ ~Sampled(spec, views') /\ Len(views') = Statements(spec) /\ result' = Verdict(spec, views')
  <2>1. result' = result => ~Decided'
    BY <1>2 DEF Decided
  <2> QED
    BY <1>1, <1>3, <1>4, <1>5, <1>6, <2>1
<1>8. RunInv'
  <2>1. at' = "query" => Len(views') < Statements(spec)
    BY <1>1
  <2>2. at' = "sample" => Sampled(spec, views')
    BY <1>1
  <2>3. spec' = spec /\ worlds' = worlds
    BY <1>1
  <2> QED
    BY <1>3, <1>5, <1>6, <1>7, <2>1, <2>2, <2>3 DEF RunInv
<1>9. WorldsInv'
  BY <1>1, <1>2, SameWorlds DEF IInv
<1>s. /\ samples = {} \/ \E w \in worlds : samples = Offending(spec, w)
      /\ samples # {} => /\ spec.type \notin UserSQL
                         /\ Len(views) >= SampledAfter(spec) /\ WorthASample(spec, views)
  BY <1>2 DEF IInv, SamplesInv
<1>t. /\ samples' \in {samples, samples \cup Shown(spec, views')}
      /\ spec.type \notin UserSQL => samples' = samples
      /\ spec.type \in UserSQL => samples' = {} \/ samples' = Offending(spec, views'[1])
      /\ spec.type \in UserSQL /\ samples' # {} => Decided'
      /\ spec.type \in UserSQL /\ Decided' => samples' = Shown(spec, views')
  <2>1. samples' = samples \/ samples' = samples \cup Shown(spec, views')
    BY <1>1
  <2>2. Shown(spec, views') = {} \/ Shown(spec, views') = Offending(spec, views'[1])
    BY DEF Shown
  <2>3. spec.type \notin UserSQL => Shown(spec, views') = {}
    BY DEF Shown
  <2>4. spec.type \in UserSQL => samples = {}
    BY <1>s
  <2>5. spec.type \in UserSQL /\ samples' # {} => Decided'
    <3>1. SUFFICES ASSUME spec.type \in UserSQL, samples' # {} PROVE Decided'
      OBVIOUS
    <3>2. result' = Verdict(spec, views') /\ Shown(spec, views') # {}
      BY <1>1, <2>4, <3>1
    <3>3. ~Unusable(spec, views')
      BY <3>2 DEF Shown
    <3>4. result'.status \in Verdicts
      BY <3>2, <3>3 DEF Verdict, Status, Verdicts
    <3> QED
      BY <3>4 DEF Decided, NoResult, Errored, Verdicts
  <2>6. Decided' => samples' = samples \cup Shown(spec, views')
    <3>1. result' = result => ~Decided'
      BY <1>2 DEF Decided
    <3> QED
      BY <1>1, <3>1
  <2> QED
    BY <2>1, <2>2, <2>3, <2>4, <2>5, <2>6
<1>10. SamplesInv'
  <2>1. spec' = spec /\ worlds' = worlds /\ broken' = broken
    BY <1>1
  <2>2. samples' = {} \/ \E w \in worlds : samples' = Offending(spec, w)
    <3>1. views'[1] \in worlds
      BY <1>5
    <3> QED
      BY <1>s, <1>t, <3>1
  <2>3. Len(views) >= SampledAfter(spec) => (WorthASample(spec, views') <=> WorthASample(spec, views))
    BY <1>3, <1>4, <1>5 DEF WorthASample
  <2>4. samples' # {} => IF spec.type \in UserSQL THEN Decided'
                         ELSE Len(views') >= SampledAfter(spec) /\ WorthASample(spec, views')
    <3>1. CASE spec.type \in UserSQL
      BY <1>t, <3>1
    <3>2. CASE spec.type \notin UserSQL
      <4>1. samples' # {} => Len(views) >= SampledAfter(spec) /\ WorthASample(spec, views)
        BY <1>s, <1>t, <3>2
      <4> QED
        BY <1>3, <1>4, <1>5, <2>3, <3>2, <4>1
    <3> QED
      BY <3>1, <3>2
  <2>5. ASSUME at' = "query" \/ Decided', broken = "nothing",
               Len(views') >= SampledAfter(spec), WorthASample(spec, views')
        PROVE  \E w \in worlds : samples' = Offending(spec, w)
    <3>0. spec.type \notin UserSQL
      BY <2>5 DEF WorthASample
    <3>1. ~Sampled(spec, views')
      BY <1>1, <1>7, <2>5
    <3>2. Len(views') # SampledAfter(spec)
      BY <2>5, <3>1 DEF Sampled
    <3>3. Len(views) >= SampledAfter(spec)
      BY <1>3, <1>4, <1>5, <2>5, <3>2
    <3>4. \E w \in worlds : samples = Offending(spec, w)
      BY <1>1, <2>3, <2>5, <3>3 DEF IInv, SamplesInv
    <3> QED
      BY <1>t, <3>0, <3>4
  <2>6. Decided' /\ spec.type \in UserSQL => samples' = Shown(spec, views')
    BY <1>t
  <2> QED
    BY <2>1, <2>2, <2>4, <2>5, <2>6 DEF SamplesInv
<1>11. PlacesOK'
  <2>1. Offending(spec, views'[1]) \in SUBSET Cells
    <3>1. views'[1] \in Worlds
      BY <1>5 DEF IInv, WorldsInv
    <3> QED
      BY <1>3, <3>1, OffendingCells
  <2>2. samples' \in SUBSET Cells
    BY <1>t, <2>1 DEF IInv
  <2> QED
    BY <1>1, <2>2 DEF IInv, PlacesOK
<1> QED
  BY <1>1, <1>2, <1>8, <1>9, <1>10, <1>11

LEMMA Failing ==
    ASSUME IInv, QueryFails
    PROVE  /\ PlacesOK' /\ RunInv' /\ WorldsInv' /\ SamplesInv'
           /\ at' = "idle" /\ ~Decided' /\ UNCHANGED <<world, spec, worlds>>
<1>1. /\ at = "query" /\ at' = "idle" /\ result' = Errored /\ samples' = {} /\ broken' = "statement"
      /\ UNCHANGED <<world, writes, spec, views, worlds>>
  BY DEF QueryFails
<1>2. ~Decided' /\ ~Running'
  BY <1>1 DEF Decided, Running
<1>3. RunInv'
  BY <1>1, <1>2 DEF IInv, RunInv
<1>4. WorldsInv'
  BY <1>1, <1>2, SameWorlds DEF IInv
<1>5. SamplesInv'
  BY <1>1, <1>2 DEF IInv, SamplesInv
<1>6. PlacesOK'
  BY <1>1 DEF IInv, PlacesOK
<1> QED
  BY <1>1, <1>2, <1>3, <1>4, <1>5, <1>6

LEMMA Sampling ==
    ASSUME IInv, Sample
    PROVE  /\ PlacesOK' /\ RunInv' /\ WorldsInv' /\ SamplesInv'
           /\ at' \in {"query", "idle"} /\ Running
           /\ UNCHANGED <<world, spec, worlds>>
<1>1. /\ at = "sample"
      /\ \/ samples' = Offending(spec, world) /\ broken' = broken
         \/ broken' = "sample" /\ samples' = samples
      /\ \/ Len(views) < Statements(spec) /\ at' = "query" /\ result' = result
         \/ ~(Len(views) < Statements(spec)) /\ at' = "idle" /\ result' = Verdict(spec, views)
      /\ UNCHANGED <<world, writes, spec, views, worlds>>
  <2>1. CASE Len(views) < Statements(spec)
    BY <2>1 DEF Sample
  <2>2. CASE ~(Len(views) < Statements(spec))
    BY <2>2 DEF Sample, Conclude
  <2> QED
    BY <2>1, <2>2
<1>2. Running /\ ~Decided
  BY <1>1 DEF Running, IInv, RunInv
<1>3. /\ Declared(spec) /\ ~Undeclared(spec) /\ world \in Worlds /\ world \in worlds
      /\ views \in Seq(Worlds) /\ (\A i \in 1..Len(views) : views[i] \in worlds)
      /\ Len(views) \in Nat /\ Len(views) <= Statements(spec) /\ Sampled(spec, views)
  BY <1>1, <1>2 DEF IInv, RunInv, WorldsInv
<1>4. Statements(spec) \in {1, 2, 3} /\ SampledAfter(spec) \in {1, 2}
  BY <1>3, StatementNumbers, Parameters
<1>5. Decided' => at' = "idle" /\ Len(views) = Statements(spec) /\ result' = Verdict(spec, views)
  <2>1. result' = result => ~Decided'
    BY <1>2 DEF Decided
  <2> QED
    BY <1>1, <1>3, <1>4, <2>1
<1>6. RunInv'
  <2>1. at' # "sample" /\ (at' = "query" => Len(views) < Statements(spec))
    BY <1>1
  <2>2. spec' = spec /\ worlds' = worlds /\ views' = views
    BY <1>1
  <2> QED
    BY <1>3, <1>5, <2>1, <2>2 DEF RunInv
<1>7. WorldsInv'
  BY <1>1, <1>2, SameWorlds DEF IInv
<1>8. Offending(spec, world) \in SUBSET Cells
  BY <1>3, OffendingCells
<1>9. SamplesInv'
  <2>1. spec' = spec /\ worlds' = worlds /\ views' = views
    BY <1>1
  <2>2. Len(views) >= SampledAfter(spec) /\ WorthASample(spec, views)
    BY <1>3, <1>4 DEF Sampled
  <2>3. samples' = {} \/ \E w \in worlds : samples' = Offending(spec, w)
    BY <1>1, <1>3 DEF IInv, SamplesInv
  <2>4. broken' = "nothing" => \E w \in worlds : samples' = Offending(spec, w)
    BY <1>1, <1>3
  <2>5. spec.type \notin UserSQL
    BY <2>2 DEF WorthASample
  <2> QED
    BY <2>1, <2>2, <2>3, <2>4, <2>5 DEF SamplesInv
<1>10. PlacesOK'
  BY <1>1, <1>8 DEF IInv, PlacesOK
<1> QED
  BY <1>1, <1>2, <1>6, <1>7, <1>9, <1>10

LEMMA OthersWriting ==
    ASSUME IInv, Others
    PROVE  PlacesOK' /\ RunInv' /\ WorldsInv' /\ SamplesInv' /\ UNCHANGED at
<1>1. /\ Write /\ worlds' = (IF at = "idle" THEN worlds ELSE worlds \cup {world'})
      /\ UNCHANGED <<at, spec, views, samples, result, broken>>
  BY DEF Others
<1>2. worlds \subseteq worlds' /\ Decided' = Decided /\ Running' = Running
  BY <1>1 DEF Decided, Running
<1>3. RunInv'
  <2>1. /\ views \in Seq(Worlds) /\ \A i \in 1..Len(views) : views[i] \in worlds'
        /\ Running \/ Decided => Declared(spec) /\ ~Undeclared(spec)
        /\ spec # None => Len(views) <= Statements(spec)
        /\ at = "query"  => Len(views) < Statements(spec)
        /\ at = "sample" => Sampled(spec, views) /\ Len(views) <= Statements(spec)
        /\ Decided => at = "idle" /\ Len(views) = Statements(spec) /\ result = Verdict(spec, views)
    BY <1>2 DEF IInv, RunInv
  <2>2. at' = at /\ spec' = spec /\ views' = views /\ result' = result
    BY <1>1
  <2> QED
    BY <1>2, <2>1, <2>2 DEF RunInv
<1>4. WorldsInv'
  <2>1. /\ world \in Worlds /\ worlds \subseteq Worlds /\ IsFiniteSet(worlds)
        /\ (Running => world \in worlds) /\ (at # "idle" => worlds = {} \/ world \in worlds)
    BY DEF IInv, WorldsInv
  <2>2. world' \in Worlds
    BY <1>1 DEF Write
  <2>3. writes' \in 0..MaxWrites
    <3>1. writes \in 0..MaxWrites /\ writes < MaxWrites /\ writes' = writes + 1
      BY <1>1 DEF IInv, WorldsInv, Write
    <3> QED
      BY <3>1, WritesAssumption
  <2>4. worlds' \subseteq Worlds /\ IsFiniteSet(worlds')
    <3>1. IsFiniteSet(worlds \cup {world'})
      BY <2>1, FS_AddElement
    <3> QED
      BY <1>1, <2>1, <2>2, <3>1
  <2>5. at # "idle" => world' \in worlds'
    BY <1>1
  <2>6. Running => at # "idle"
    BY DEF Running
  <2> QED
    BY <1>1, <1>2, <2>2, <2>3, <2>4, <2>5, <2>6 DEF WorldsInv
<1>5. SamplesInv'
  <2>1. UNCHANGED <<at, spec, views, samples, broken>> /\ Decided' = Decided
    BY <1>1, <1>2
  <2>2. \A S : (\E w \in worlds : S = Offending(spec, w)) => \E w \in worlds' : S = Offending(spec, w)
    BY <1>2
  <2> QED
    BY <2>1, <2>2 DEF IInv, SamplesInv
<1>6. PlacesOK'
  BY <1>1 DEF IInv, PlacesOK
<1> QED
  BY <1>1, <1>3, <1>4, <1>5, <1>6

(* A statement of the profile leaves the run alone.                         *)
Phases == {"count", "batch", "single", "top"}

LEMMA ProfileSteps ==
    ASSUME IInv, Profiles, at \in Phases, at' \in Phases \cup {"idle"}
    PROVE  PlacesOK' /\ RunInv' /\ WorldsInv' /\ SamplesInv' /\ ~Decided' /\ ~Running' /\ world' = world
<1>1. UNCHANGED <<world, writes, spec, views, samples, result, worlds, broken>>
  BY DEF Profiles
<1>2. ~Running /\ ~Running' /\ at # "idle"
  BY DEF Running, Phases
<1>3. ~Decided /\ ~Decided'
  <2>1. Decided => at = "idle"
    BY DEF IInv, RunInv
  <2> QED
    BY <1>1, <1>2, <2>1 DEF Decided
<1>4. at' # "query" /\ at' # "sample"
  BY <1>2 DEF Running
<1>5. RunInv'
  <2>1. /\ views \in Seq(Worlds) /\ \A i \in 1..Len(views) : views[i] \in worlds
        /\ spec # None => Len(views) <= Statements(spec)
    BY DEF IInv, RunInv
  <2> QED
    BY <1>1, <1>2, <1>3, <1>4, <2>1 DEF RunInv
<1>6. WorldsInv'
  BY <1>1, <1>2, SameWorlds DEF IInv
<1>7. SamplesInv'
  BY <1>1, <1>3, <1>4 DEF IInv, SamplesInv
<1>8. PlacesOK'
  BY <1>1 DEF IInv, PlacesOK, Phases
<1> QED
  BY <1>1, <1>2, <1>3, <1>5, <1>6, <1>7, <1>8

(* What a profile is, field by field.                                       *)
LEMMA ProfileFields ==
    ASSUME NEW p, ProfileOK(p)
    PROVE  /\ p = [kind |-> p.kind, hint |-> p.hint, rows |-> p.rows, total |-> p.total, nulls |-> p.nulls,
                   distinct |-> p.distinct, least |-> p.least, largest |-> p.largest, top |-> p.top,
                   still |-> p.still, seen |-> p.seen]
           /\ p.rows \in Nat /\ p.total \in Nat /\ p.nulls \in Nat /\ p.distinct \in Nat \cup {None}
           /\ p.least \in Int \cup {None} /\ p.largest \in Int \cup {None}
           /\ p.still \in BOOLEAN /\ p.seen \in BOOLEAN
BY DEF ProfileOK

LEMMA Starting ==
    ASSUME IInv, NEW column \in Columns, StartProfile(column)
    PROVE  IInv'
<1>1. /\ at = "idle" /\ at' = "count"
      /\ profile' = [kind |-> column.kind, hint |-> column.hint, rows |-> 0, total |-> 0, nulls |-> 0,
                     distinct |-> None, least |-> None, largest |-> None, top |-> <<>>,
                     still |-> TRUE, seen |-> TRUE]
      /\ spec' = None /\ views' = <<>> /\ samples' = {} /\ result' = NoResult
      /\ worlds' = {} /\ broken' = "nothing"
      /\ UNCHANGED <<world, writes>>
  BY DEF StartProfile
<1>2. ~Running' /\ ~Decided'
  BY <1>1 DEF Running, Decided
<1>3. PlacesOK'
  BY <1>1 DEF PlacesOK
<1>4. RunInv'
  <2>1. views' \in Seq(Worlds) /\ Len(views') = 0
    BY <1>1
  <2> QED
    BY <1>1, <1>2, <2>1 DEF RunInv
<1>5. WorldsInv'
  <2>1. IsFiniteSet({})
    BY FS_EmptySet
  <2> QED
    BY <1>1, <1>2, <2>1 DEF IInv, WorldsInv
<1>6. SamplesInv'
  BY <1>1, <1>2 DEF SamplesInv
<1>7. ProfileInv'
  <2>1. ProfileOK(profile')
    <3>1. DOMAIN <<>> = {}
      OBVIOUS
    <3>2. /\ profile'.nulls = 0 /\ profile'.total = 0 /\ profile'.least = None /\ profile'.top = <<>>
      BY <1>1
    <3>3. profile' \in [kind : {profile'.kind}, hint : {profile'.hint}, rows : Nat, total : Nat, nulls : Nat,
                        distinct : Nat \cup {None}, least : Int \cup {None}, largest : Int \cup {None},
                        top : {profile'.top}, still : BOOLEAN, seen : BOOLEAN]
      BY <1>1
    <3> QED
      BY <3>1, <3>2, <3>3 DEF ProfileOK
  <2>2. profile'.top = <<>> /\ profile'.seen
    BY <1>1
  <2> QED
    BY <1>1, <1>2, <2>1, <2>2 DEF ProfileInv
<1> QED
  BY <1>3, <1>4, <1>5, <1>6, <1>7 DEF IInv, PlacesOK

LEMMA CountingRows ==
    ASSUME IInv, CountRows
    PROVE  IInv'
<1>1. /\ at = "count" /\ at' = "batch" /\ profile' = [profile EXCEPT !.rows = Count(world.table, Cells)] /\ Profiles
  BY DEF CountRows
<1>2. PlacesOK' /\ RunInv' /\ WorldsInv' /\ SamplesInv' /\ ~Decided' /\ ~Running' /\ world' = world
  BY <1>1, ProfileSteps DEF Phases
<1>3. ProfileOK(profile)
  BY <1>1 DEF IInv, ProfileInv
<1>4. Count(world.table, Cells) \in Nat
  BY Tables, Rows DEF IInv, WorldsInv
<1>5. ProfileOK(profile')
  BY <1>1, <1>3, <1>4 DEF ProfileOK
<1>6. /\ profile'.rows = Count(world.table, Cells) /\ profile'.top = profile.top /\ profile'.seen = profile.seen
      /\ profile'.still = profile.still
  BY <1>1, <1>3 DEF ProfileOK
<1>7. profile.still => profile.top = <<>> /\ profile.seen
  BY <1>1 DEF IInv, ProfileInv
<1>8. ProfileInv'
  BY <1>1, <1>2, <1>5, <1>6, <1>7 DEF ProfileInv
<1> QED
  BY <1>2, <1>8 DEF IInv, PlacesOK

(* What the aggregates make of a profile.                                   *)
LEMMA Built ==
    ASSUME NEW p, ProfileOK(p), NEW w \in Worlds, NEW full \in BOOLEAN,
           NEW q, q = BuildProfile(p, w.table, full)
    PROVE  /\ ProfileOK(q) /\ q.still = p.still
           /\ p.rows = Count(w.table, Cells) /\ p.top = <<>> => Told(q, w)
<1> DEFINE counted == Count(w.table, Cells)
           total   == IF counted = 0 THEN p.rows ELSE counted
           nulls   == total - Count(w.table, Values)
           found   == IF full /\ p.kind \in DistinctSkipped THEN None ELSE Cardinality(Present(w.table, Values))
           least   == IF full /\ p.kind = "numeric" THEN Least(w.table, Cells) ELSE None
           largest == IF full /\ p.kind = "numeric" THEN Largest(w.table, Cells) ELSE None
<1>1. /\ counted \in Nat /\ Count(w.table, Values) \in Nat /\ w.table[Null] \in Nat
      /\ counted = Count(w.table, Values) + w.table[Null]
  BY Tables, Splits
<1>2. q = [p EXCEPT !.total = total, !.nulls = nulls, !.distinct = found, !.least = least, !.largest = largest]
  BY DEF BuildProfile
<1>3. total \in Nat /\ nulls \in Nat /\ nulls <= total
  BY <1>1, ProfileFields
<1>4. found \in {None, Cardinality(Present(w.table, Values))} /\ found \in Nat \cup {None}
  <2>1. Cardinality(Present(w.table, Values)) \in Nat
    BY CellsFinite, FS_CardinalityType DEF Present, Cells
  <2> QED
    BY <2>1
<1>5. /\ least # None => least = Least(w.table, Cells) /\ largest = Largest(w.table, Cells)
      /\ least \in Int \cup {None} /\ largest \in Int \cup {None}
      /\ least # None => largest # None /\ least <= largest
  <2> DEFINE held == Present(w.table, Cells \cap Values)
  <2>1. w.table \in [Cells -> Nat] /\ Cells \in SUBSET Cells
    BY Tables
  <2>2. /\ held = {} => Least(w.table, Cells) = None /\ Largest(w.table, Cells) = None
        /\ held # {} => /\ Least(w.table, Cells) \in held /\ Largest(w.table, Cells) \in held
                        /\ \A c \in held : c \in Int /\ Least(w.table, Cells) <= c /\ c <= Largest(w.table, Cells)
    BY <2>1, LeastLargest
  <2> HIDE DEF held
  <2>3. CASE held = {}
    BY <2>2, <2>3
  <2>4. CASE held # {}
    BY <2>2, <2>4, ValuesAssumption
  <2> QED
    BY <2>3, <2>4
<1> HIDE DEF total, nulls, found, least, largest
<1>6. /\ q.kind = p.kind /\ q.hint = p.hint /\ q.rows = p.rows /\ q.total = total /\ q.nulls = nulls
      /\ q.distinct = found /\ q.least = least /\ q.largest = largest /\ q.top = p.top
      /\ q.still = p.still /\ q.seen = p.seen
      /\ q = [kind |-> q.kind, hint |-> q.hint, rows |-> q.rows, total |-> q.total, nulls |-> q.nulls,
              distinct |-> q.distinct, least |-> q.least, largest |-> q.largest, top |-> q.top,
              still |-> q.still, seen |-> q.seen]
  BY <1>2 DEF ProfileOK
<1>7. ProfileOK(q)
  <2>1. DOMAIN p.top \subseteq Cells
    BY DEF ProfileOK
  <2>2. q \in [kind : {q.kind}, hint : {q.hint}, rows : Nat, total : Nat, nulls : Nat, distinct : Nat \cup {None},
               least : Int \cup {None}, largest : Int \cup {None}, top : {q.top}, still : BOOLEAN, seen : BOOLEAN]
    BY <1>3, <1>4, <1>5, <1>6, ProfileFields
  <2> QED
    BY <1>3, <1>5, <1>6, <2>1, <2>2 DEF ProfileOK
<1>8. ASSUME p.rows = counted, p.top = <<>> PROVE Told(q, w)
  <2>1. q.total = q.rows
    BY <1>6, <1>8 DEF total
  <2>2. q.nulls = q.total - Count(w.table, Values)
    BY <1>6 DEF nulls
  <2> QED
    BY <1>4, <1>5, <1>6, <1>8, <2>1, <2>2 DEF Told
<1> QED
  BY <1>6, <1>7, <1>8

(* Once a column is profiled, its most frequent values are asked for or not. *)
LEMMA Reported ==
    ASSUME IInv, NEW p, Profiled(p), Profiles, at \in {"batch", "single"},
           ProfileOK(p), p.still => Told(p, world)
    PROVE  IInv'
<1>1. profile' = p /\ at' \in {"top", "idle"}
  BY DEF Profiled
<1>2. PlacesOK' /\ RunInv' /\ WorldsInv' /\ SamplesInv' /\ ~Decided' /\ ~Running' /\ world' = world
  BY <1>1, ProfileSteps DEF Phases
<1>3. ProfileInv'
  BY <1>1, <1>2 DEF ProfileInv
<1> QED
  BY <1>2, <1>3 DEF IInv, PlacesOK

LEMMA BatchStep ==
    ASSUME IInv, Batch \/ Single
    PROVE  IInv'
<1>1. PICK full \in BOOLEAN : /\ at \in {"batch", "single"} /\ Profiles
                              /\ Profiled(BuildProfile(profile, world.table, full))
  BY DEF Batch, Single
<1>2. ProfileOK(profile) /\ world \in Worlds
  BY <1>1 DEF IInv, ProfileInv, WorldsInv
<1>3. PICK q : q = BuildProfile(profile, world.table, full)
  OBVIOUS
<1>4. /\ ProfileOK(q) /\ q.still = profile.still
      /\ profile.rows = Count(world.table, Cells) /\ profile.top = <<>> => Told(q, world)
  BY <1>2, <1>3, Built
<1>5. q.still => Told(q, world)
  BY <1>1, <1>4 DEF IInv, ProfileInv
<1> QED
  BY <1>1, <1>3, <1>4, <1>5, Reported

LEMMA SingleFailsStep ==
    ASSUME IInv, SingleFails
    PROVE  IInv'
<1>1. /\ at = "single" /\ Profiles /\ Profiled([NoColumn(profile, profile.rows) EXCEPT !.seen = FALSE])
  BY DEF SingleFails
<1>2. ProfileOK(profile) /\ world \in Worlds
  BY <1>1 DEF IInv, ProfileInv, WorldsInv
<1>3. PICK q : q = [NoColumn(profile, profile.rows) EXCEPT !.seen = FALSE]
  OBVIOUS
<1>4. /\ q.kind = profile.kind /\ q.hint = profile.hint /\ q.rows = profile.rows /\ q.total = profile.rows
      /\ q.nulls = 0 /\ q.distinct = None /\ q.least = None /\ q.largest = None /\ q.top = profile.top
      /\ q.still = profile.still /\ q.seen = FALSE
  BY <1>2, <1>3 DEF ProfileOK, NoColumn
<1>5. ProfileOK(q)
  <2>1. DOMAIN profile.top \subseteq Cells /\ profile.rows \in Nat /\ profile.still \in BOOLEAN
    BY <1>2 DEF ProfileOK
  <2>2. q \in [kind : {q.kind}, hint : {q.hint}, rows : Nat, total : Nat, nulls : Nat, distinct : Nat \cup {None},
               least : Int \cup {None}, largest : Int \cup {None}, top : {q.top}, still : BOOLEAN, seen : BOOLEAN]
    <3>1. /\ q.rows \in Nat /\ q.total \in Nat /\ q.nulls \in Nat /\ q.distinct \in Nat \cup {None}
          /\ q.least \in Int \cup {None} /\ q.largest \in Int \cup {None}
      BY <1>4, <2>1
    <3>2. q.still \in BOOLEAN /\ q.seen \in BOOLEAN
      BY <1>4, <2>1, Zenon
    <3>3. q = [kind |-> q.kind, hint |-> q.hint, rows |-> q.rows, total |-> q.total, nulls |-> q.nulls,
               distinct |-> q.distinct, least |-> q.least, largest |-> q.largest, top |-> q.top,
               still |-> q.still, seen |-> q.seen]
      BY <1>2, <1>3 DEF ProfileOK, NoColumn
    <3> QED
      BY <3>1, <3>2, <3>3
  <2>3. q.nulls <= q.total
    BY <1>4, <2>1
  <2> QED
    BY <1>4, <2>1, <2>2, <2>3 DEF ProfileOK
<1>6. q.still => Told(q, world)
  <2>1. q.still => profile.rows = Count(world.table, Cells) /\ profile.top = <<>>
    BY <1>1, <1>4 DEF IInv, ProfileInv
  <2> QED
    BY <1>4, <2>1 DEF Told
<1> QED
  BY <1>1, <1>3, <1>5, <1>6, Reported

LEMMA TopStep ==
    ASSUME IInv, Top
    PROVE  IInv'
<1>1. at = "top" /\ at' = "idle" /\ Profiles
  BY DEF Top
<1>2. PICK top \in MostFrequent(world.table) : profile' = [profile EXCEPT !.top = [c \in top |-> world.table[c]]]
  BY DEF Top
<1>3. ProfileOK(profile) /\ world \in Worlds
  BY <1>1 DEF IInv, ProfileInv, WorldsInv
<1>4. PlacesOK' /\ RunInv' /\ WorldsInv' /\ SamplesInv' /\ ~Decided' /\ ~Running' /\ world' = world
  BY <1>1, ProfileSteps DEF Phases
<1>5. PICK g : g = [c \in top |-> world.table[c]]
  OBVIOUS
<1>6. DOMAIN g \subseteq Cells
  <2>1. world.table \in [Cells -> Nat]
    BY <1>3, Tables
  <2>2. top \subseteq Present(world.table, Cells)
    BY <2>1, MostFrequentAll
  <2> QED
    BY <1>5, <2>2 DEF Present
<1>7. profile' = [profile EXCEPT !.top = g]
  BY <1>2, <1>5
<1>8. /\ profile'.kind = profile.kind /\ profile'.hint = profile.hint /\ profile'.rows = profile.rows
      /\ profile'.total = profile.total /\ profile'.nulls = profile.nulls /\ profile'.distinct = profile.distinct
      /\ profile'.least = profile.least /\ profile'.largest = profile.largest /\ profile'.top = g
      /\ profile'.still = profile.still /\ profile'.seen = profile.seen
  BY <1>3, <1>7 DEF ProfileOK
<1>9. ProfileOK(profile')
  <2>1. profile' \in [kind : {profile'.kind}, hint : {profile'.hint}, rows : Nat, total : Nat, nulls : Nat,
                      distinct : Nat \cup {None}, least : Int \cup {None}, largest : Int \cup {None},
                      top : {profile'.top}, still : BOOLEAN, seen : BOOLEAN]
    BY <1>3, <1>7, <1>8 DEF ProfileOK
  <2> QED
    BY <1>3, <1>6, <1>8, <2>1 DEF ProfileOK
<1>10. profile'.still => Told(profile', world)
  <2>1. profile'.still => Told(profile, world)
    BY <1>1, <1>8 DEF IInv, ProfileInv
  <2> QED
    BY <1>2, <1>5, <1>8, <2>1 DEF Told
<1>11. ProfileInv'
  BY <1>1, <1>4, <1>9, <1>10 DEF ProfileInv
<1> QED
  BY <1>4, <1>11 DEF IInv, PlacesOK

(* A statement that fails leaves the profile as it is, or leaves none.      *)
LEMMA FailedSteps ==
    ASSUME IInv, BatchFails \/ TopFails \/ ProfileRaises
    PROVE  IInv'
<1>1. CASE ProfileRaises
  <2>1. at = "count" /\ profile' = NoProfile /\ at' = "idle" /\ Profiles
    BY <1>1 DEF ProfileRaises
  <2>2. PlacesOK' /\ RunInv' /\ WorldsInv' /\ SamplesInv' /\ ~Decided' /\ ~Running' /\ world' = world
    BY <2>1, ProfileSteps DEF Phases
  <2>3. ProfileInv'
    BY <2>1 DEF ProfileInv, NoProfile
  <2> QED
    BY <2>2, <2>3 DEF IInv, PlacesOK
<1>2. CASE BatchFails
  <2>1. at = "batch" /\ profile' = profile /\ at' = "single" /\ Profiles
    BY <1>2 DEF BatchFails
  <2>2. PlacesOK' /\ RunInv' /\ WorldsInv' /\ SamplesInv' /\ ~Decided' /\ ~Running' /\ world' = world
    BY <2>1, ProfileSteps DEF Phases
  <2>3. ProfileInv'
    BY <2>1, <2>2 DEF IInv, ProfileInv
  <2> QED
    BY <2>2, <2>3 DEF IInv, PlacesOK
<1>3. CASE TopFails
  <2>1. at = "top" /\ profile' = profile /\ at' = "idle" /\ Profiles
    BY <1>3 DEF TopFails
  <2>2. PlacesOK' /\ RunInv' /\ WorldsInv' /\ SamplesInv' /\ ~Decided' /\ ~Running' /\ world' = world
    BY <2>1, ProfileSteps DEF Phases
  <2>3. ProfileInv'
    BY <2>1, <2>2 DEF IInv, ProfileInv
  <2> QED
    BY <2>2, <2>3 DEF IInv, PlacesOK
<1> QED
  BY <1>1, <1>2, <1>3

LEMMA InitOK == Init => IInv
<1>1. SUFFICES ASSUME Init PROVE IInv
  OBVIOUS
<1>2. /\ world \in Worlds /\ writes = 0 /\ at = "idle" /\ spec = None /\ views = <<>> /\ samples = {}
      /\ result = NoResult /\ worlds = {} /\ broken = "nothing" /\ profile = NoProfile
  BY <1>1 DEF Init
<1>3. ~Running /\ ~Decided
  BY <1>2 DEF Running, Decided
<1>4. RunInv
  <2>1. views \in Seq(Worlds) /\ Len(views) = 0
    BY <1>2
  <2> QED
    BY <1>2, <1>3, <2>1 DEF RunInv
<1>5. WorldsInv
  <2>1. IsFiniteSet({}) /\ 0 \in 0..MaxWrites
    BY FS_EmptySet, WritesAssumption
  <2> QED
    BY <1>2, <1>3, <2>1 DEF WorldsInv
<1>6. SamplesInv
  BY <1>2, <1>3 DEF SamplesInv
<1>7. ProfileInv
  BY <1>2 DEF ProfileInv, NoProfile
<1> QED
  BY <1>2, <1>4, <1>5, <1>6, <1>7 DEF IInv

LEMMA RunStep ==
    ASSUME IInv, NEW s \in Specs, RunCheck(s)
    PROVE  IInv'
<1>1. Declared(s) /\ Begin(s) /\ profile' = NoProfile
  BY ChecksAssumption DEF RunCheck
<1>2. PlacesOK' /\ RunInv' /\ WorldsInv' /\ SamplesInv' /\ at' \in {"idle", "query"}
  BY <1>1, Beginning
<1>3. ProfileInv'
  BY <1>1, <1>2 DEF ProfileInv, NoProfile
<1> QED
  BY <1>2, <1>3 DEF IInv, PlacesOK

LEMMA RunSuggestedStep ==
    ASSUME IInv, RunSuggested
    PROVE  IInv'
<1>1. profile # NoProfile /\ profile' = profile
  BY DEF RunSuggested
<1>2. PICK s \in Suggested(profile) : Begin(s)
  BY DEF RunSuggested
<1>3. ProfileOK(profile)
  BY <1>1 DEF IInv, ProfileInv
<1>4. Declared(s)
  BY <1>2, <1>3, SuggestedDeclared
<1>5. /\ PlacesOK' /\ RunInv' /\ WorldsInv' /\ SamplesInv'
      /\ at' \in {"idle", "query"} /\ ~Decided' /\ worlds' = {world} /\ world' = world /\ spec' = s /\ at = "idle"
  BY <1>2, <1>4, Beginning
<1>6. ProfileInv'
  <2>1. profile.still => Told(profile, world)
    BY <1>5 DEF IInv, ProfileInv
  <2> QED
    BY <1>1, <1>2, <1>3, <1>5, <2>1 DEF ProfileInv
<1> QED
  BY <1>5, <1>6 DEF IInv, PlacesOK

LEMMA StatementStep ==
    ASSUME IInv, Query \/ QueryFails \/ Sample, UNCHANGED profile
    PROVE  IInv'
<1>1. /\ PlacesOK' /\ RunInv' /\ WorldsInv' /\ SamplesInv'
      /\ at' \in {"query", "sample", "idle"} /\ UNCHANGED <<world, spec, worlds>>
  BY Querying, Failing, Sampling
<1>2. Running /\ at \in {"query", "sample"}
  BY DEF Query, QueryFails, Sample, Running
<1>3. ProfileInv'
  <2>1. profile # NoProfile => ProfileOK(profile)
    BY DEF IInv, ProfileInv
  <2>2. profile.still => Told(profile, world) /\ spec \in Suggested(profile) /\ worlds = {world}
    BY <1>2 DEF IInv, ProfileInv
  <2> QED
    BY <1>1, <2>1, <2>2 DEF ProfileInv
<1> QED
  BY <1>1, <1>3 DEF IInv, PlacesOK

LEMMA OthersStep ==
    ASSUME IInv, OthersWrite
    PROVE  IInv'
<1>1. Others /\ profile' = [profile EXCEPT !.still = FALSE]
  BY DEF OthersWrite
<1>2. PlacesOK' /\ RunInv' /\ WorldsInv' /\ SamplesInv' /\ UNCHANGED at
  BY <1>1, OthersWriting
<1>3. ASSUME ProfileOK(profile) PROVE ProfileOK(profile') /\ ~profile'.still
  <2>1. profile' \in [kind : {profile'.kind}, hint : {profile'.hint}, rows : Nat, total : Nat, nulls : Nat,
                      distinct : Nat \cup {None}, least : Int \cup {None}, largest : Int \cup {None},
                      top : {profile'.top}, still : BOOLEAN, seen : BOOLEAN]
    BY <1>1, <1>3 DEF ProfileOK
  <2>2. /\ profile'.nulls = profile.nulls /\ profile'.total = profile.total /\ profile'.top = profile.top
        /\ profile'.least = profile.least /\ profile'.largest = profile.largest
    BY <1>1, <1>3 DEF ProfileOK
  <2>3. ~profile'.still
    BY <1>1, <1>3 DEF ProfileOK
  <2> QED
    BY <1>3, <2>1, <2>2, <2>3 DEF ProfileOK
<1>4. profile = NoProfile => profile' = NoProfile
  BY <1>1 DEF NoProfile
<1>5. ProfileInv'
  <2>1. CASE ProfileOK(profile)
    BY <1>3, <2>1 DEF ProfileInv
  <2>2. CASE ~ProfileOK(profile)
    <3>1. profile = NoProfile /\ at \notin {"count", "batch", "single", "top"}
      BY <2>2 DEF IInv, ProfileInv
    <3>2. profile' = NoProfile /\ ~NoProfile.still
      BY <1>4, <3>1 DEF NoProfile
    <3> QED
      BY <1>2, <3>1, <3>2 DEF ProfileInv
  <2> QED
    BY <2>1, <2>2
<1> QED
  BY <1>2, <1>5 DEF IInv, PlacesOK

LEMMA Unmoved ==
    ASSUME IInv, UNCHANGED vars
    PROVE  IInv'
<1>1. UNCHANGED <<world, writes, at, spec, views, samples, result, worlds, broken, profile>>
  BY DEF vars, evaluation
<1>2. Running' = Running /\ Decided' = Decided
  BY <1>1 DEF Running, Decided
<1>3. RunInv' /\ WorldsInv' /\ SamplesInv' /\ ProfileInv'
  BY <1>1, <1>2 DEF IInv, RunInv, WorldsInv, SamplesInv, ProfileInv
<1> QED
  BY <1>1, <1>3 DEF IInv

LEMMA NextOK == IInv /\ [Next]_vars => IInv'
<1>1. SUFFICES ASSUME IInv, [Next]_vars PROVE IInv'
  OBVIOUS
<1>2. ASSUME NEW s \in Specs, RunCheck(s) PROVE IInv'
  BY <1>1, <1>2, RunStep
<1>3. CASE (Query \/ QueryFails \/ Sample) /\ UNCHANGED profile
  BY <1>1, <1>3, StatementStep
<1>4. ASSUME NEW column \in Columns, StartProfile(column) PROVE IInv'
  BY <1>1, <1>4, Starting
<1>5. CASE CountRows
  BY <1>1, <1>5, CountingRows
<1>6. CASE Batch \/ Single
  BY <1>1, <1>6, BatchStep
<1>7. CASE SingleFails
  BY <1>1, <1>7, SingleFailsStep
<1>8. CASE Top
  BY <1>1, <1>8, TopStep
<1>9. CASE BatchFails \/ TopFails \/ ProfileRaises
  BY <1>1, <1>9, FailedSteps
<1>10. CASE RunSuggested
  BY <1>1, <1>10, RunSuggestedStep
<1>11. CASE OthersWrite
  BY <1>1, <1>11, OthersStep
<1>12. CASE UNCHANGED vars
  BY <1>1, <1>12, Unmoved
<1> QED
  BY <1>1, <1>2, <1>3, <1>4, <1>5, <1>6, <1>7, <1>8, <1>9, <1>10, <1>11, <1>12 DEF Next

LEMMA Inductive == Spec => []IInv
  BY InitOK, NextOK, PTL DEF Spec
---------------------------------------------------------------------------
(* What follows of a run that has come to its end.                          *)

LEMMA Ended ==
    ASSUME IInv, result.status \in Verdicts
    PROVE  /\ Decided /\ at = "idle" /\ Declared(spec) /\ ~Undeclared(spec)
           /\ views \in Seq(Worlds) /\ Len(views) = Statements(spec) /\ Statements(spec) \in {1, 2, 3}
           /\ \A i \in 1..Len(views) : views[i] \in worlds
           /\ result.status = Status(spec, Evaluate(spec, views))
           /\ result.scanned = Evaluate(spec, views).scanned /\ result.failed = Evaluate(spec, views).failed
<1>1. Decided
  BY DEF Decided, Verdicts, NoResult, Errored
<1>2. /\ at = "idle" /\ Declared(spec) /\ ~Undeclared(spec) /\ views \in Seq(Worlds) /\ Len(views) = Statements(spec)
      /\ (\A i \in 1..Len(views) : views[i] \in worlds) /\ result = Verdict(spec, views)
  BY <1>1 DEF IInv, RunInv
<1>3. Statements(spec) \in {1, 2, 3}
  BY <1>2, StatementNumbers, Parameters
<1>4. ~Unusable(spec, views)
  BY <1>1, <1>2 DEF Verdict, Decided
<1>5. /\ result.status = Status(spec, Evaluate(spec, views))
      /\ result.scanned = Evaluate(spec, views).scanned /\ result.failed = Evaluate(spec, views).failed
  BY <1>2, <1>4 DEF Verdict
<1> QED
  BY <1>1, <1>2, <1>3, <1>5

LEMMA StatusMeans ==
    ASSUME NEW s, NEW o, o.passed \in BOOLEAN
    PROVE  /\ Status(s, o) \in {"failed", "warned"} => ~o.passed
           /\ Status(s, o) = "passed" <=> o.passed \/ WithinThreshold(s, o)
           /\ Status(s, o) # "passed" => Status(s, o) = (IF s.severity = "warn" THEN "warned" ELSE "failed")
BY DEF Status, WithinThreshold

(* What follows of any state, of the invariant.                             *)
LEMMA TypesFollow == IInv => CheckTypeOK
<1>1. SUFFICES ASSUME IInv PROVE CheckTypeOK
  OBVIOUS
<1>2. /\ result.status \in Verdicts \cup {"none", "errored"}
      /\ result.scanned \in Nat \cup {None} /\ result.failed \in Nat \cup {None}
  <2>1. CASE ~Decided
    BY <2>1 DEF Decided, NoResult, Errored
  <2>2. CASE Decided
    <3>1. result = Verdict(spec, views) /\ result # Errored
      BY <1>1, <2>2 DEF IInv, RunInv, Decided
    <3>2. result.status \in Verdicts
      BY <3>1, Concluding
    <3>3. /\ Declared(spec) /\ ~Undeclared(spec) /\ views \in Seq(Worlds) /\ Len(views) = Statements(spec)
          /\ result.scanned = Evaluate(spec, views).scanned /\ result.failed = Evaluate(spec, views).failed
      BY <1>1, <3>2, Ended
    <3> QED
      BY <3>2, <3>3, OutcomeType
  <2> QED
    BY <2>1, <2>2
<1>3. \A i \in 1..Len(views) : views[i] \in Worlds
  BY <1>1 DEF IInv, RunInv
<1>4. spec # None => Len(views) <= Statements(spec)
  BY <1>1 DEF IInv, RunInv
<1> QED
  BY <1>1, <1>2, <1>3, <1>4 DEF IInv, WorldsInv, CheckTypeOK

LEMMA VerdictsFollow == IInv => VerdictsTrue
<1>1. SUFFICES ASSUME IInv, Settled PROVE VerdictsTrue
  BY DEF VerdictsTrue
<1> DEFINE o == Evaluate(spec, views)
<1>2. /\ Decided /\ at = "idle" /\ Declared(spec) /\ ~Undeclared(spec)
      /\ views \in Seq(Worlds) /\ Len(views) = Statements(spec) /\ Statements(spec) \in {1, 2, 3}
      /\ \A i \in 1..Len(views) : views[i] \in worlds
      /\ result.status = Status(spec, o)
  BY <1>1, Ended DEF Settled
<1>3. ~Blind(spec)
  BY <1>1 DEF Settled
<1>4. o.passed \in BOOLEAN
  BY <1>2, OutcomeType
<1>5. (o.passed => HeldAcross(spec, views)) /\ (~o.passed => BrokenAcross(spec, views))
  BY <1>2, <1>3, OutcomeTrue
<1> HIDE DEF o
<1>6. ASSUME result.status = "passed", spec.threshold = None
      PROVE  \E v, w \in worlds : (v = w \/ spec.type \in TwoMoments) /\ HoldsAcross(spec, v, w)
  <2>1. o.passed
    <3>1. Status(spec, o) = "passed"
      BY <1>2, <1>6
    <3>2. o.passed \/ WithinThreshold(spec, o)
      BY <1>4, <3>1, StatusMeans
    <3>3. ~WithinThreshold(spec, o)
      BY <1>6 DEF WithinThreshold
    <3> QED
      BY <3>2, <3>3
  <2>2. PICK i, j \in 1..Len(views) : (i = j \/ spec.type \in TwoMoments) /\ HoldsAcross(spec, views[i], views[j])
    BY <1>5, <2>1 DEF HeldAcross
  <2>3. views[i] \in worlds /\ views[j] \in worlds /\ (views[i] = views[j] \/ spec.type \in TwoMoments)
    BY <1>2, <2>2
  <2> QED
    BY <2>2, <2>3
<1>7. ASSUME result.status \in {"failed", "warned"}
      PROVE  \E v, w \in worlds : (v = w \/ spec.type = "compare_queries") /\ ~HoldsAcross(spec, v, w)
  <2>1. ~o.passed
    BY <1>2, <1>4, <1>7, StatusMeans
  <2>2. PICK i, j \in 1..Len(views) : (i = j \/ spec.type = "compare_queries") /\ ~HoldsAcross(spec, views[i], views[j])
    BY <1>5, <2>1 DEF BrokenAcross
  <2>3. views[i] \in worlds /\ views[j] \in worlds /\ (views[i] = views[j] \/ spec.type = "compare_queries")
    BY <1>2, <2>2
  <2> QED
    BY <2>2, <2>3
<1> QED
  BY <1>6, <1>7 DEF VerdictsTrue

LEMMA OneWorld ==
    ASSUME WorldsInv, Cardinality(worlds) = 1
    PROVE  \E w : worlds = {w}
BY FS_Singleton DEF WorldsInv

LEMMA ToleranceFollows == IInv => Tolerated
<1>1. SUFFICES ASSUME IInv, Settled, spec.type \in Counting, Cardinality(worlds) = 1 PROVE Tolerated
  BY DEF Tolerated
<1> DEFINE o == Evaluate(spec, views)
<1>2. /\ Declared(spec) /\ ~Undeclared(spec)
      /\ views \in Seq(Worlds) /\ Len(views) = Statements(spec) /\ Statements(spec) \in {1, 2, 3}
      /\ \A i \in 1..Len(views) : views[i] \in worlds
      /\ result.status = Status(spec, o)
  BY <1>1, Ended DEF Settled
<1>3. ~Blind(spec)
  BY <1>1 DEF Settled
<1>4. PICK w : worlds = {w}
  BY <1>1, OneWorld DEF IInv
<1>5. w \in Worlds /\ (CHOOSE x \in worlds : TRUE) = w
  BY <1>1, <1>4 DEF IInv, WorldsInv
<1>6. views[1] = w /\ (spec.type = "unique" => views[2] = w)
  <2>1. spec.type = "unique" => Statements(spec) = 2
    BY <1>2, StatementNumbers, Parameters
  <2> QED
    BY <1>2, <1>4, <2>1
<1> DEFINE rows  == Count(w.table, Looked(spec))
           wrong == Violations(spec, w)
           forgiven == /\ spec.threshold # None
                       /\ IF spec.threshold > Full THEN wrong * Full <= spec.threshold
                          ELSE rows > 0 /\ wrong * Full <= spec.threshold * rows
<1>7. (o.passed <=> Holds(spec, w)) /\ o.scanned = rows /\ o.failed = wrong /\ rows \in Nat /\ wrong \in Nat
  BY <1>1, <1>2, <1>3, <1>5, <1>6, CountedRight
<1>8. o.passed \in BOOLEAN
  BY <1>2, OutcomeType
<1>9. SUFFICES IF Holds(spec, w) \/ forgiven THEN result.status = "passed"
               ELSE result.status = (IF spec.severity = "warn" THEN "warned" ELSE "failed")
  BY <1>5 DEF Tolerated
<1> HIDE DEF o, rows, wrong
<1>10. WithinThreshold(spec, o) <=> forgiven
  <2>1. spec.threshold \in Nat \cup {None}
    BY <1>2, Parameters
  <2>2. rows # None /\ wrong # None
    BY <1>7, ValuesAssumption
  <2> QED
    BY <1>7, <2>1, <2>2, ValuesAssumption DEF WithinThreshold, Full
<1> HIDE DEF forgiven
<1> QED
  BY <1>2, <1>7, <1>8, <1>10, StatusMeans

LEMMA EvidenceFollows == IInv => Evidence
<1>1. SUFFICES ASSUME IInv, Settled PROVE Evidence
  BY DEF Evidence
<1> DEFINE o == Evaluate(spec, views)
<1>2. /\ Decided /\ Declared(spec) /\ ~Undeclared(spec)
      /\ views \in Seq(Worlds) /\ Len(views) = Statements(spec) /\ Statements(spec) \in {1, 2, 3}
      /\ \A i \in 1..Len(views) : views[i] \in worlds
      /\ result.status = Status(spec, o)
  BY <1>1, Ended DEF Settled
<1>3. ~Blind(spec)
  BY <1>1 DEF Settled
<1>4. o.passed \in BOOLEAN
  BY <1>2, OutcomeType
<1>5. spec.type \notin UserSQL =>
        /\ o.passed => Offending(spec, views[1]) = {}
        /\ ~o.passed /\ spec.type \in Counting \ {"completeness"} => Offending(spec, views[1]) # {}
  BY <1>2, <1>3, WorthASampleFails
<1>u. spec.type \in UserSQL => samples = Shown(spec, views)
  BY <1>1, <1>2 DEF IInv, SamplesInv
<1>v. /\ o.passed => Shown(spec, views) = {}
      /\ spec.type = "sql_returns_no_rows" /\ spec.sample_limit > 0 /\ ~o.passed => Shown(spec, views) # {}
  <2>1. o.passed => Shown(spec, views) = {}
    BY DEF Shown
  <2>2. views[1] \in Worlds
    BY <1>2
  <2> QED
    BY <1>2, <1>3, <2>1, <2>2, NoRowsShown
<1> HIDE DEF o
<1>6. ASSUME NEW c \in samples
      PROVE  \E w \in worlds : Speaks(spec, c, w)
  <2>1. PICK w \in worlds : samples = Offending(spec, w)
    BY <1>1, <1>6 DEF IInv, SamplesInv
  <2>2. w \in Worlds
    BY <1>1 DEF IInv, WorldsInv
  <2> QED
    BY <1>2, <1>3, <1>6, <2>1, <2>2, OffendingCells
<1>7. ASSUME result.status = "passed", spec.threshold = None PROVE samples = {}
  <2>1. o.passed
    <3>1. Status(spec, o) = "passed"
      BY <1>2, <1>7
    <3>2. o.passed \/ WithinThreshold(spec, o)
      BY <1>4, <3>1, StatusMeans
    <3>3. ~WithinThreshold(spec, o)
      BY <1>7 DEF WithinThreshold
    <3> QED
      BY <3>2, <3>3
  <2>2. CASE spec.type \in UserSQL
    BY <1>u, <1>v, <2>1, <2>2
  <2>3. CASE spec.type \notin UserSQL
    BY <1>1, <1>5, <2>1, <2>3 DEF IInv, SamplesInv, WorthASample
  <2> QED
    BY <2>2, <2>3
<1>8. ASSUME result.status \in {"failed", "warned"}, spec.sample_limit > 0, spec.type \in Counting \ {"completeness"},
             broken = "nothing", Cardinality(worlds) = 1
      PROVE  samples # {}
  <2>1. ~o.passed
    BY <1>2, <1>4, <1>8, StatusMeans
  <2>0. spec.type \notin UserSQL
    BY <1>8 DEF Counting, RowTypes, UserSQL
  <2>2. WorthASample(spec, views)
    BY <1>5, <1>8, <2>0, <2>1 DEF WorthASample
  <2>3. Len(views) >= SampledAfter(spec)
    BY <1>2, StatementNumbers, Parameters
  <2>4. PICK w \in worlds : samples = Offending(spec, w)
    BY <1>1, <1>2, <1>8, <2>2, <2>3 DEF IInv, SamplesInv
  <2>5. PICK x : worlds = {x}
    BY <1>1, <1>8, OneWorld DEF IInv
  <2>6. views[1] = w
    BY <1>2, <2>4, <2>5
  <2> QED
    BY <1>5, <1>8, <2>0, <2>1, <2>4, <2>6
<1>9. ASSUME result.status \in {"failed", "warned"}, spec.sample_limit > 0, spec.type = "sql_returns_no_rows"
      PROVE  samples # {}
  <2>1. ~o.passed
    BY <1>2, <1>4, <1>9, StatusMeans
  <2> QED
    BY <1>9, <1>u, <1>v, <2>1 DEF UserSQL
<1> QED
  BY <1>6, <1>7, <1>8, <1>9 DEF Evidence

(* What is suggested looks at the table once.                               *)
LEMMA SuggestedOnce ==
    ASSUME NEW p, ProfileOK(p), NEW s \in Suggested(p)
    PROVE  s.type \notin TwoMoments
<1>1. ASSUME NEW type, NEW min, NEW max, NEW values, s = Suggestion(type, min, max, values)
      PROVE  s.type = type
  BY <1>1 DEF Suggestion, Check
<1>2. CASE s = Suggestion("row_count", Max({p.rows \div 2, 1}), None, {})
  BY <1>1, <1>2 DEF TwoMoments
<1>3. CASE s = Suggestion("not_null", None, None, {})
  BY <1>1, <1>3 DEF TwoMoments
<1>4. CASE s = Suggestion("completeness", Max({((p.total - p.nulls) * Full) \div p.total - 500, 0}), None, {})
  <2>1. PICK m : m = Max({((p.total - p.nulls) * Full) \div p.total - 500, 0})
    OBVIOUS
  <2>2. s = Suggestion("completeness", m, None, {})
    BY <1>4, <2>1
  <2> QED
    BY <1>1, <2>2 DEF TwoMoments
<1>5. CASE s = Suggestion("unique", None, None, {})
  BY <1>1, <1>5 DEF TwoMoments
<1>6. CASE s = Suggestion("accepted_values", None, None, DOMAIN p.top \ {Null})
  BY <1>1, <1>6 DEF TwoMoments
<1>7. CASE s \in SuggestRange(p)
  <2>1. PICK low, high \in Int : s = Suggestion("range", low, high, {})
    BY <1>7, SuggestedRange
  <2> QED
    BY <1>1, <2>1 DEF TwoMoments
<1>8. CASE s = Suggestion("freshness", None, 24, {})
  BY <1>1, <1>8 DEF TwoMoments
<1> QED
  BY <1>2, <1>3, <1>4, <1>5, <1>6, <1>7, <1>8, Suggestions

LEMMA SuggestionsFollow == IInv => SuggestionsApply
<1>1. SUFFICES ASSUME IInv, Refuted PROVE SuggestionsApply
  BY DEF SuggestionsApply
<1>2. profile.still /\ at = "idle" /\ result.status \in {"warned", "failed"}
  BY <1>1 DEF Refuted
<1>3. Decided
  BY <1>1, <1>2, Ended DEF Verdicts
<1>4. profile # NoProfile
  BY <1>2 DEF NoProfile
<1>5. ProfileOK(profile) /\ Told(profile, world) /\ spec \in Suggested(profile) /\ worlds = {world} /\ world \in Worlds
  BY <1>1, <1>2, <1>3, <1>4 DEF IInv, ProfileInv, WorldsInv
<1>6. ~Blind(spec)
  BY <1>5, SuggestedDeclared
<1>7. Settled
  BY <1>2, <1>6 DEF Settled, Verdicts
<1>8. ~Holds(spec, world)
  <2>1. ~HoldsAcross(spec, world, world)
    BY <1>1, <1>2, <1>5, <1>7, VerdictsFollow DEF VerdictsTrue
  <2>2. spec.type \notin TwoMoments
    BY <1>5, SuggestedOnce
  <2> QED
    BY <2>1, <2>2, HoldsAtOnce
<1> QED
  BY <1>5, <1>8, SuggestedHold DEF SuggestionsApply
---------------------------------------------------------------------------
(* Every variable holds what its comment says, and what a check reports of  *)
(* rows scanned and failed are numbers, or nothing.                         *)
THEOREM EvaluationTypes == Spec => []CheckTypeOK
  BY Inductive, TypesFollow, PTL

(* CheckResult.status: a pass with no tolerance means that the check held,  *)
(* a failure or a warning that it did not, at a moment of the run, whatever *)
(* its type and parameters, however many others commit between its          *)
(* statements and whatever each commit changes; but for what is Blind, and  *)
(* a pass of primary_key and either verdict of compare_queries only say so  *)
(* of one part of the rule at one moment and of the other at another.       *)
THEOREM VerdictsAreTrue == Spec => []VerdictsTrue
  BY Inductive, VerdictsFollow, PTL

(* Check._status: what is forgiven is what the threshold says.              *)
THEOREM ToleranceIsExact == Spec => []Tolerated
  BY Inductive, ToleranceFollows, PTL

(* RowPredicateCheck._sample and its like: what is kept as evidence         *)
(* offended, and is there when the verdict is against the table.            *)
THEOREM EvidenceIsEvidence == Spec => []Evidence
  BY Inductive, EvidenceFollows, PTL

(* suggest_checks: a suggested check holds of the table that was profiled,  *)
(* but for the three kinds that rest on no evidence.                        *)
THEOREM SuggestionsAreSound == Spec => []SuggestionsApply
  BY Inductive, SuggestionsFollow, PTL
=============================================================================
