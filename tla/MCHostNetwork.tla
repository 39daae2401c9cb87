---------------------------- MODULE MCHostNetwork ----------------------------
(***************************************************************************)
(* Values of the constants of HostNetwork for TLC.  Host 1 is the host     *)
(* modelled.  Its configuration names itself and peer 2; peer 3, where it  *)
(* exists, is learnt from a request.                                       *)
(***************************************************************************)
EXTENDS HostNetwork

CONSTANTS info1, info2

MCSeeds == [id \in NodeIds |-> IF id \in {1, 2} THEN info1 ELSE NoInfo]

MCReports == [state : RaftStates, leader : {NoLeader}]

TwoReports == [state : {"NonVoter", "Follower"}, leader : {NoLeader}]

OneReport == {[state |-> "Follower", leader |-> NoLeader]}
=============================================================================
