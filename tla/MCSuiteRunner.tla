--------------------------- MODULE MCSuiteRunner ---------------------------
(***************************************************************************)
(* Instances of SuiteRunner for TLC.                                       *)
(***************************************************************************)
EXTENDS ValidatedRun

(* Every graph in which no check names itself: cycles, chains, diamonds and *)
(* independent checks among them.                                           *)
AllGraphs == {g \in [Checks -> SUBSET Checks] : \A c \in Checks : c \notin g[c]}

NegativeToWide == {-1, 1, 2, 8}
OneOrTwo == {1, 2}
=============================================================================
