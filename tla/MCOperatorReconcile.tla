------------------------- MODULE MCOperatorReconcile -------------------------
(* Small instances of OperatorReconcile for TLC.                           *)
EXTENDS OperatorCurrent

Cluster(id, secretName, primary, fs, remote) ==
  [id |-> id, gui |-> "gui", secret |-> secretName, cacert |-> "", secure |-> FALSE,
   primary |-> primary, fs |-> fs, remote |-> remote]

Alone     == <<Cluster("P", "s1", TRUE, "fs1", "")>>
Undefined == <<Cluster("P", "s1", TRUE, "fs1", "R")>>
Both      == <<Cluster("P", "s1", TRUE, "fs1", "R"), Cluster("R", "s2", FALSE, "", "")>>

ThreeConfs == <<Alone, Undefined, Both>>
S1Twice    == [s \in Secrets |-> IF s = "s1" THEN 2 ELSE 1]

OneConf    == <<Alone>>
=============================================================================
