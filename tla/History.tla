------------------------------ MODULE History ------------------------------
(***************************************************************************)
(* What the metastore promises of the runs and profiles it is given: an    *)
(* entry is kept whole or lost, a kept one goes only when it is past its   *)
(* retention, and one that is gone is gone for good.                       *)
(***************************************************************************)
CONSTANT Ids

VARIABLES entry, expired

Init ==
    /\ entry \in [Ids -> {"new", "kept"}]
    /\ expired \in SUBSET {i \in Ids : entry[i] = "kept"}

Settle(i) ==
    /\ entry[i] = "new"
    /\ \E outcome \in {"kept", "gone"} : entry' = [entry EXCEPT ![i] = outcome]
    /\ UNCHANGED expired

Expire(i) ==
    /\ entry[i] = "kept"
    /\ expired' = expired \cup {i}
    /\ UNCHANGED entry

Purge(stale) ==
    /\ \A i \in stale : entry[i] = "kept"
    /\ entry' = [i \in Ids |-> IF i \in stale THEN "gone" ELSE entry[i]]
    /\ UNCHANGED expired

Next ==
    \/ \E i \in Ids : Settle(i) \/ Expire(i)
    \/ \E stale \in SUBSET expired : Purge(stale)

Spec == Init /\ [][Next]_<<entry, expired>>
=============================================================================
