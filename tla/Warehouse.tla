----------------------------- MODULE Warehouse -----------------------------
(***************************************************************************)
(* What the checks and the profiler see of a warehouse: a table, by how    *)
(* many of its rows hold each value in the column at hand, the table it is *)
(* compared with, and the columns of the catalog.  Others write to it.     *)
(*                                                                         *)
(* A predicate of SQL is the set of the cells for which it is TRUE; of a   *)
(* NULL cell, and of a list with a NULL in it, most are not.               *)
(***************************************************************************)
EXTENDS Integers, Sequences, FiniteSets, FiniteSetsExt

CONSTANTS
    Values,      \* what a row may hold in the column: numbers, or stand-ins for texts and times
    Null, None,  \* no value in a row; no parameter, or no result
    Worlds,      \* what the warehouse may hold: [table, parent, columns]
    MaxWrites    \* bound: writes by others

Cells == Values \cup {Null}

ASSUME ValuesAssumption == Values \subseteq Int /\ IsFiniteSet(Values) /\ Null \notin Values /\ None \notin Int
ASSUME WorldsAssumption ==
    \A w \in Worlds : w \in [table : [Cells -> Nat], parent : [Cells -> Nat], columns : {w.columns}]
ASSUME WritesAssumption == MaxWrites \in Nat

VARIABLES
    world,       \* the table, the other one, the types of the columns by name
    writes       \* how often it has changed

(* A transaction of others commits: to one of the tables or to both.        *)
Write ==
    /\ writes < MaxWrites
    /\ world' \in Worlds \ {world}
    /\ writes' = writes + 1

(* COUNT over the rows for which a predicate is TRUE.                       *)
Count(table, cells) == MapThenSumSet(LAMBDA c : table[c], cells)
Present(table, cells) == {c \in cells : table[c] > 0}

(* GROUP BY ... HAVING COUNT() > 1, and the rows that are one too many.     *)
Repeated(table, cells) == {c \in cells : table[c] > 1}
Surplus(table, cells)  == MapThenSumSet(LAMBDA c : table[c] - 1, Repeated(table, cells))

In(values)    == values \cap Values
NotIn(values) == IF Null \in values THEN {} ELSE Values \ values

(* MIN and MAX pass over the NULLs.                                         *)
Least(table, cells)   == LET held == Present(table, cells \cap Values) IN IF held = {} THEN None ELSE Min(held)
Largest(table, cells) == LET held == Present(table, cells \cap Values) IN IF held = {} THEN None ELSE Max(held)
=============================================================================
