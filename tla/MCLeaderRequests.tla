-------------------------- MODULE MCLeaderRequests --------------------------
(***************************************************************************)
(* Values of the constants of LeaderRequests for TLC: a host and one peer, *)
(* of which Raft may report either, or none, as the leader.                *)
(***************************************************************************)
EXTENDS LeaderRequests

MCReports == [leader : NodeIds \cup {NoLeader}]
=============================================================================
