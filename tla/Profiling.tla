------------------------------ MODULE Profiling ------------------------------
(***************************************************************************)
(* profiling/profiler.py and inference.py: a column is profiled by a count *)
(* of the rows, an aggregate over a batch of columns or, when that is      *)
(* refused, over the column alone, and the most frequent values; others    *)
(* may write in between.  The profile then suggests checks, which are run  *)
(* like those of a suite.                                                  *)
(***************************************************************************)
EXTENDS Checks

CONSTANTS
    Columns,     \* what may be profiled: [kind, hint], hint if the name tells of loading
    TopLimit,    \* ProfileOptions.top_values_limit
    MinRows,     \* InferenceOptions.min_rows_for_stats
    MaxDistinct  \* InferenceOptions.max_distinct_for_accepted_values

(* Not boolean: the values suggested of a column are texts, by str(), and   *)
(* whether a boolean is one of 'True' and 'False' is up to the warehouse.   *)
ASSUME ProfilingAssumption ==
    {TopLimit, MinRows, MaxDistinct} \subseteq Nat /\ \A c \in Columns : c.kind # "boolean"

VARIABLE profile \* the TableProfile while its caller holds it

vars == <<world, writes, evaluation, profile>>

(* Nobody holds a profile, let alone one of the table as it still is.       *)
NoProfile == [still |-> FALSE]

DistinctSkipped == {"binary", "json"}   \* skip_distinct_kinds

(* What _profile_single leaves of a column that cannot be profiled: the     *)
(* defaults of ColumnProfile.                                               *)
NoColumn(p, rows) ==
    [p EXCEPT !.total = rows, !.nulls = 0, !.distinct = None, !.least = None, !.largest = None]

IsUnique(p) == p.distinct # None /\ p.total > p.nulls /\ p.distinct = p.total - p.nulls

(* _build_profile, of the rows counted with the aggregates; when there are  *)
(* none, of those counted before.                                           *)
BuildProfile(p, table, full) ==
    LET counted == Count(table, Cells)
        total   == IF counted = 0 THEN p.rows ELSE counted
    IN  [p EXCEPT !.total = total, !.nulls = total - Count(table, Values),
                  !.distinct = IF full /\ p.kind \in DistinctSkipped THEN None
                               ELSE Cardinality(Present(table, Values)),
                  !.least    = IF full /\ p.kind = "numeric" THEN Least(table, Cells) ELSE None,
                  !.largest  = IF full /\ p.kind = "numeric" THEN Largest(table, Cells) ELSE None]

(* _add_top_values: not of a binary column, nor of one that is unique or    *)
(* nearly so.                                                               *)
Ranked(p) ==
    /\ p.rows > 0 /\ p.kind \notin {"binary", "json"}
    /\ ~IsUnique(p) /\ (p.distinct # None => p.distinct <= 1000)

Profiled(p) ==
    /\ profile' = p
    /\ at' = IF Ranked(p) THEN "top" ELSE "idle"

(* The LIMIT rows with the highest counts, ties broken by the warehouse.    *)
MostFrequent(table) ==
    LET groups == Present(table, Cells)
        size   == Min({TopLimit, Cardinality(groups)})
    IN  {top \in kSubset(size, groups) : \A c \in top, d \in groups \ top : table[c] >= table[d]}

---------------------------------------------------------------------------
(* Profiler.profile_table *)

StartProfile(column) ==
    /\ at = "idle"
    /\ at' = "count"
    /\ profile' = [kind |-> column.kind, hint |-> column.hint, rows |-> 0, total |-> 0, nulls |-> 0,
                   distinct |-> None, least |-> None, largest |-> None, top |-> <<>>,
                   still |-> TRUE, seen |-> TRUE]
    /\ spec' = None /\ views' = <<>> /\ samples' = {} /\ result' = NoResult
    /\ worlds' = {} /\ broken' = "nothing"
    /\ UNCHANGED <<world, writes>>

Profiles == UNCHANGED <<world, writes, spec, views, samples, result, worlds, broken>>

CountRows ==
    /\ at = "count"
    /\ profile' = [profile EXCEPT !.rows = Count(world.table, Cells)]
    /\ at' = "batch"
    /\ Profiles

(* Without the columns or the count there is no profile.                    *)
ProfileRaises ==
    /\ at = "count" /\ "statement" \in Breakable
    /\ profile' = NoProfile /\ at' = "idle"
    /\ Profiles

Batch ==
    /\ at = "batch"
    /\ Profiled(BuildProfile(profile, world.table, TRUE))
    /\ Profiles

BatchFails ==
    /\ at = "batch" /\ "statement" \in Breakable
    /\ at' = "single"
    /\ UNCHANGED profile /\ Profiles

Single ==
    /\ at = "single"
    /\ Profiled(BuildProfile(profile, world.table, FALSE))
    /\ Profiles

SingleFails ==
    /\ at = "single" /\ "statement" \in Breakable
    /\ Profiled([NoColumn(profile, profile.rows) EXCEPT !.seen = FALSE])
    /\ Profiles

(* The values are kept as texts, which those of a text column are already;  *)
(* of other columns only the counts are used again.                         *)
Top ==
    /\ at = "top"
    /\ \E top \in MostFrequent(world.table) :
         profile' = [profile EXCEPT !.top = [c \in top |-> world.table[c]]]
    /\ at' = "idle"
    /\ Profiles

TopFails ==
    /\ at = "top" /\ "statement" \in Breakable
    /\ at' = "idle"
    /\ UNCHANGED profile /\ Profiles

---------------------------------------------------------------------------
(* suggest_checks *)

Suggestion(type, min, max, values) ==
    [Check(type) EXCEPT !.severity = "warn", !.min = min, !.max = max, !.values = values]
Enough(p) == p.rows >= MinRows

SuggestRowCount(p) ==
    IF p.rows = 0 THEN {} ELSE {Suggestion("row_count", Max({p.rows \div 2, 1}), None, {})}

\* Mutant: not_null is suggested for a column with some nulls.
SuggestNearlyComplete(p) ==
    IF 20 * p.nulls <= p.total /\ p.total > 0 THEN {Suggestion("not_null", None, None, {})} ELSE {}

SuggestComplete(p) ==
    IF p.nulls = 0 /\ p.total > 0 THEN {Suggestion("not_null", None, None, {})}
    ELSE IF Enough(p) /\ p.nulls > 0 /\ 20 * p.nulls <= p.total
    THEN {Suggestion("completeness", Max({((p.total - p.nulls) * Full) \div p.total - 500, 0}), None, {})}
    ELSE {}

SuggestUnique(p) ==
    IF IsUnique(p) /\ Enough(p) /\ p.nulls = 0 THEN {Suggestion("unique", None, None, {})} ELSE {}

SuggestAccepted(p) ==
    LET values  == DOMAIN p.top \ {Null}
        covered == MapThenSumSet(LAMBDA c : p.top[c], DOMAIN p.top)
    IN  IF /\ p.kind \in {"string", "boolean"} /\ Enough(p)
           /\ p.distinct \notin {None, 0} /\ p.distinct <= MaxDistinct
           /\ values # {} /\ 100 * covered >= 99 * p.total
        THEN {Suggestion("accepted_values", None, None, values)}
        ELSE {}

(* Padded by a quarter of the span; a floor of 0 for what was never below.  *)
SuggestRange(p) ==
    IF p.kind # "numeric" \/ ~Enough(p) \/ p.least = None \/ IsUnique(p) THEN {}
    ELSE LET span == p.largest - p.least
             high == IF p.largest >= 0 THEN p.largest ELSE -p.largest
             pad  == IF span # 0 THEN span \div 4 ELSE Max({high \div 10, 1})
             low  == IF p.least >= 0 THEN Max({p.least - pad, 0}) ELSE p.least - pad
         IN  {Suggestion("range", low, p.largest + pad, {})}

SuggestFreshness(p) ==
    IF p.kind = "temporal" /\ p.hint THEN {Suggestion("freshness", None, 24, {})} ELSE {}

Suggested(p) ==
    SuggestRowCount(p) \cup SuggestComplete(p) \cup SuggestUnique(p)
        \cup SuggestAccepted(p) \cup SuggestRange(p) \cup SuggestFreshness(p)

---------------------------------------------------------------------------
Init ==
    /\ world \in Worlds /\ writes = 0
    /\ at = "idle" /\ spec = None /\ views = <<>> /\ samples = {} /\ result = NoResult
    /\ worlds = {} /\ broken = "nothing"
    /\ profile = NoProfile

(* A check of a suite; who runs it holds no profile.                        *)
RunCheck(s) == Begin(s) /\ profile' = NoProfile

RunSuggested ==
    /\ profile # NoProfile
    /\ \E s \in Suggested(profile) : Begin(s)
    /\ UNCHANGED profile

OthersWrite == Others /\ profile' = [profile EXCEPT !.still = FALSE]

Next ==
    \/ \E s \in Specs : RunCheck(s)
    \/ (Query \/ QueryFails \/ Sample) /\ UNCHANGED profile
    \/ \E column \in Columns : StartProfile(column)
    \/ CountRows \/ ProfileRaises \/ Batch \/ BatchFails \/ Single \/ SingleFails \/ Top \/ TopFails
    \/ RunSuggested
    \/ OthersWrite

Spec == Init /\ [][Next]_vars

---------------------------------------------------------------------------
(* A suggested check that ran on the table exactly as it was profiled and   *)
(* did not hold.                                                            *)
Refuted == profile.still /\ at = "idle" /\ result.status \in {"warned", "failed"}

(* What was suggested holds: while nobody has written since the profile     *)
(* began, a suggested check does not warn, whatever statements of the       *)
(* profile failed, unless it rests on no evidence: freshness goes by the    *)
(* name of the column, not_null by the defaults of a column that could not  *)
(* be profiled, and accepted_values by a list cut off at its limit.         *)
SuggestionsApply ==
    Refuted =>
      \/ spec.type = "freshness"
      \/ spec.type = "not_null" /\ ~profile.seen
      \/ spec.type = "accepted_values" /\ Cardinality(DOMAIN profile.top) = TopLimit

(* inference.py:9-11: "A suggested check that fails on the very next run    *)
(* teaches people to ignore the tool, so each rule below only fires when    *)
(* the evidence is strong."                                                 *)
SuggestionsHold == ~Refuted
---------------------------------------------------------------------------
(* The inductive invariant of the proofs.                                   *)

Running == at \in {"query", "sample"}
Decided == result \notin {NoResult, Errored}

(* A run has seen what was there; its verdict is that of what it has seen.  *)
RunInv ==
    /\ views \in Seq(Worlds) /\ \A i \in 1..Len(views) : views[i] \in worlds
    /\ Running \/ Decided => Declared(spec) /\ ~Undeclared(spec)
    /\ spec # None => Len(views) <= Statements(spec)
    /\ at = "query"  => Len(views) < Statements(spec)
    /\ at = "sample" => Sampled(spec, views) /\ Len(views) <= Statements(spec)
    /\ Decided => at = "idle" /\ Len(views) = Statements(spec) /\ result = Verdict(spec, views)

WorldsInv ==
    /\ world \in Worlds /\ writes \in 0..MaxWrites
    /\ worlds \subseteq Worlds /\ IsFiniteSet(worlds)
    /\ Running => world \in worlds
    /\ at # "idle" => worlds = {} \/ world \in worlds

(* Samples are taken when something offends, and of what offends then; those *)
(* of the user's SQL with the verdict.                                      *)
SamplesInv ==
    /\ samples = {} \/ \E w \in worlds : samples = Offending(spec, w)
    /\ samples # {} => IF spec.type \in UserSQL THEN Decided
                       ELSE Len(views) >= SampledAfter(spec) /\ WorthASample(spec, views)
    /\ Decided /\ spec.type \in UserSQL => samples = Shown(spec, views)
    /\ /\ at = "query" \/ Decided
       /\ broken = "nothing" /\ Len(views) >= SampledAfter(spec) /\ WorthASample(spec, views)
       => \E w \in worlds : samples = Offending(spec, w)

ProfileOK(p) ==
    /\ p \in [kind : {p.kind}, hint : {p.hint}, rows : Nat, total : Nat, nulls : Nat, distinct : Nat \cup {None},
              least : Int \cup {None}, largest : Int \cup {None}, top : {p.top}, still : BOOLEAN, seen : BOOLEAN]
    /\ p.nulls <= p.total
    /\ p.least # None => p.largest # None /\ p.least <= p.largest
    /\ DOMAIN p.top \subseteq Cells

(* What a profile says of the table it was made of, if nobody wrote.        *)
Told(p, w) ==
    /\ p.rows = Count(w.table, Cells) /\ p.total = p.rows
    /\ \/ ~p.seen /\ p.nulls = 0 /\ p.distinct = None /\ p.least = None
       \/ /\ p.nulls = p.total - Count(w.table, Values)
          /\ p.distinct \in {None, Cardinality(Present(w.table, Values))}
          /\ p.least # None => p.least = Least(w.table, Cells) /\ p.largest = Largest(w.table, Cells)
    /\ p.top = <<>> \/ \E top \in MostFrequent(w.table) : p.top = [c \in top |-> w.table[c]]

ProfileInv ==
    /\ profile # NoProfile \/ at \in {"count", "batch", "single", "top"} => ProfileOK(profile)
    /\ profile.still =>
         /\ at \in {"batch", "single"} => profile.rows = Count(world.table, Cells)
         /\ at \in {"count", "batch", "single"} => profile.top = <<>> /\ profile.seen
         /\ at \in {"top", "idle", "query", "sample"} => Told(profile, world)
         /\ Running \/ Decided => spec \in Suggested(profile) /\ worlds = {world}

IInv ==
    /\ at \in {"idle", "query", "sample", "count", "batch", "single", "top"}
    /\ samples \subseteq Cells /\ broken \in {"nothing", "statement", "sample"}
    /\ RunInv /\ WorldsInv /\ SamplesInv /\ ProfileInv
=============================================================================
