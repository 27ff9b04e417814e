---------------------------- MODULE ValidatedRun ----------------------------
(***************************************************************************)
(* suites/loader.py beside core/engine.py: validate_suite looks for cycles *)
(* with a depth-first search before any run, the engine finds them when it *)
(* plans.                                                                  *)
(***************************************************************************)
EXTENDS SuiteRunner, SequencesExt

Colours == {"white", "grey", "black"}

(* A step of _detect_cycles takes the top of the stack: a white check is    *)
(* coloured grey and put back under the white ones it depends on; a grey    *)
(* one is met again when all of those are done, and is black from then on.  *)
(* A suite lists its dependencies in some order; here it is a fixed one.    *)
Search == [stack : Seq(Checks), colour : [Checks -> Colours], cycles : SUBSET (Checks \X Checks)]

\* Mutant: a check that is met again stays grey.
VisitOnce(graph, s) ==
    LET node  == Last(s.stack)
        white == SetToSeq({d \in graph[node] : s.colour[d] = "white"})
    IN  IF s.colour[node] # "white" THEN [s EXCEPT !.stack = Front(s.stack)]
        ELSE [stack  |-> s.stack \o white,
              colour |-> [s.colour EXCEPT ![node] = "grey"],
              cycles |-> s.cycles \cup {<<node, d>> : d \in {d \in graph[node] : s.colour[d] = "grey"}}]

Visit(graph, s) ==
    LET node   == Last(s.stack)
        colour == [s.colour EXCEPT ![node] = "grey"]
        white  == SetToSeq({d \in graph[node] : colour[d] = "white"})
        grey   == {d \in graph[node] : colour[d] = "grey"}
    IN  CASE s.colour[node] = "black" -> [s EXCEPT !.stack = Front(s.stack)]
          [] s.colour[node] = "grey"  -> [s EXCEPT !.stack = Front(s.stack), !.colour[node] = "black"]
          [] OTHER -> [stack |-> s.stack \o white, colour |-> colour,
                       cycles |-> s.cycles \cup {<<node, d>> : d \in grey}]

DetectCycles(graph) ==
    LET search[s \in Search] ==
          IF s.stack # <<>> THEN search[Visit(graph, s)]
          ELSE LET left == {c \in Checks : s.colour[c] = "white"}
               IN  IF left = {} THEN s.cycles ELSE search[[s EXCEPT !.stack = <<Min(left)>>]]
    IN  search[[stack |-> <<>>, colour |-> [c \in Checks |-> "white"], cycles |-> {}]]

(* The linter and the engine agree on cycles: a run is refused only when    *)
(* validation reports one, and no run of the whole suite gets past planning *)
(* when it does.                                                            *)
LinterAgrees ==
    /\ phase = "refused" => DetectCycles(deps) # {}
    /\ phase = "waves" /\ chosen = Checks => DetectCycles(deps) = {}
=============================================================================
