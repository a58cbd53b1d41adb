---------------------------- MODULE MCTaskEvents ----------------------------
(***************************************************************************)
(* Small instances of TaskEvents for TLC: which faults strike, and how     *)
(* often.                                                                  *)
(***************************************************************************)
EXTENDS EventProperties, TLC

Once(fs) == [f \in Faults |-> IF f \in fs THEN 1 ELSE 0]

None == {Once({})}
Drop == {Once({"drop"})}
BrokerOutage == {Once({"broker"})}
DbOutage == {Once({"db"})}
Deploy == {Once({"sigterm"})}
ThreeOrTwo == {Once({"crash", "drop", "db"}), Once({"sigterm", "broker"})}
Pairs == {Once({"sigterm", f}) : f \in {"crash", "db", "broker", "drop"}} \cup {Once({"cancel"})}

Symmetric == Permutations(Instances) \cup Permutations(Requests)

=============================================================================
