---------------------------- MODULE MCMonitoring ----------------------------
(* Instances of Monitoring for TLC: files in one directory, or in two.     *)
EXTENDS Monitoring, TLC

ThreePaths == {"a", "b", "c"}
TwoPaths == {"a", "b"}
TwoDirs == {"A", "B"}
OneDir == {"A"}
SharedDir == [p \in ThreePaths |-> IF p = "a" THEN "A" ELSE "B"]
SameDir == [p \in Paths |-> "A"]
PathsSymmetry == Permutations(Paths)
SeparateDir == [p \in TwoPaths |-> IF p = "a" THEN "A" ELSE "B"]
=============================================================================
