------------------------------- MODULE MCBoot -------------------------------
EXTENDS Boot, TLC

MCReference ==
  [max_discovery_timeout |-> 5, max_raft_init_timeout |-> 5,
   election_timeout_min |-> 200, election_timeout_max |-> 300,
   heartbeat_interval |-> 50, max_payload_entries |-> 300,
   metrics_rate |-> 5000, snapshot_dir |-> "snapshots",
   discovery_host_address |-> "127.0.0.1:8080"]

MCReferences == {MCReference, Missing}

(* An application's file has the nodes, and may have keys of its own.      *)
MCApplications ==
  {Empty, Missing, "nodes" :> {1, 2}, "nodes" :> {2},
   "nodes" :> {1, 2} @@ "election_timeout_min" :> 250}

(* In 16 bits 65800 is 264, a maximum that is accepted, and 65700 is 164,  *)
(* below the minimum.                                                      *)
MCEnvironments ==
  {Empty, "election_timeout_max" :> 65800, "election_timeout_max" :> 65700,
   "election_timeout_min" :> 65800, "discovery_host_address" :> "localhost",
   "metrics_rate" :> -1, "snapshot_dir" :> "missing",
   "max_payload_entries" :> 20, "max_discovery_timeout" :> 60}
=============================================================================
