--------------------------- MODULE MCAfwScheduler ---------------------------
(* Model-checking instances of AfwScheduler: small sets of apps, sizes and *)
(* disk values chosen so that each admission branch of scheduleDownloads   *)
(* can happen.                                                             *)
EXTENDS AfwScheduler

CONSTANTS a1, a2

\* scenario apps: one local-scope and one cluster-scope app
MCApps2 == {a1, a2}
MCApps1 == {a1}
MCCluster2 == {a2}
MCNoCluster == {}
MCCluster1 == {a1}

\* package sizes, in units of the scaled uint64
MCSize2 == [a \in MCApps2 |-> IF a = a1 THEN 2 ELSE 3]
MCSize1 == [a \in MCApps1 |-> 2]
=============================================================================
