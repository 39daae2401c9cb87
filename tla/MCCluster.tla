------------------------------ MODULE MCCluster ------------------------------
EXTENDS Cluster

(* The second host is configured with itself alone, and is joined.         *)
MCOneSeeds == [h \in Hosts |-> IF h = 1 THEN Hosts ELSE {h}]

(* Requests of the first host may be left behind, or none.                 *)
MCOrphans == [h \in Hosts |-> IF h = 1 THEN 1 ELSE 0]
MCNoOrphans == [h \in Hosts |-> 0]
=============================================================================
