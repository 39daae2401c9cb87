--------------------------- MODULE Configuration ---------------------------
(***************************************************************************)
(* How a Configuration is made of its sources, and what of it reaches      *)
(* Raft.  A source is a function of the keys it sets.  Timeouts are        *)
(* numbers of milliseconds here, or of seconds where the schema has them.  *)
(***************************************************************************)
EXTENDS Integers

CONSTANTS
  Host,           \* the name this process is started with
  Directories,    \* the directories that exist
  Missing,        \* the contents of a file that is not there
  Addresses,      \* the discovery hosts that are socket addresses
  RaftMaxPayload  \* what actix_raft takes where it is told nothing

ASSUME PayloadAssumption == RaftMaxPayload \in Nat

Keys ==
  {"max_discovery_timeout", "max_raft_init_timeout",
   "election_timeout_min", "election_timeout_max", "heartbeat_interval",
   "max_payload_entries", "metrics_rate", "snapshot_dir", "nodes",
   "discovery_host_address"}

(* Config::merge: the source that is merged later wins.                    *)
Merged(config, source) ==
  [key \in DOMAIN config \cup DOMAIN source |->
    IF key \in DOMAIN source THEN source[key] ELSE config[key]]

Empty == [key \in {} |-> {}]

(* load_from_opt: the application's file, if one is named, the reference   *)
(* file, the environment.  It panics without a file that it was told of.   *)
Found(application, reference) == Missing \notin {application, reference}

Loaded(application, reference, environment) ==
  Merged(Merged(Merged(Empty, application), reference), environment)

(* load_from_config: a key that is missing is an error.                    *)
Complete(config) == Keys \subseteq DOMAIN config

(* The conversion from the schema panics without it.                       *)
Parses(schema) == schema.discovery_host_address \in Addresses

FromSchema(schema) ==
  [discovery_host        |-> schema.discovery_host_address,
   max_discovery_timeout |-> schema.max_raft_init_timeout,
   max_raft_init_timeout |-> schema.max_raft_init_timeout,
   election_timeout_min  |-> schema.election_timeout_min,
   election_timeout_max  |-> schema.election_timeout_max,
   heartbeat_interval    |-> schema.heartbeat_interval,
   max_payload_entries   |-> schema.max_payload_entries,
   metrics_rate          |-> schema.metrics_rate,
   snapshot_dir          |-> schema.snapshot_dir,
   seed_nodes            |-> schema.nodes]

HostListed(c) == Host \in c.seed_nodes

(* `as u16`.                                                               *)
U16(milliseconds) == milliseconds % 65536

IntoRaft(c) ==
  [election_timeout_min |-> U16(c.election_timeout_min),
   election_timeout_max |-> U16(c.election_timeout_max),
   heartbeat_interval   |-> U16(c.heartbeat_interval),
   max_payload_entries  |-> RaftMaxPayload,
   metrics_rate         |-> c.metrics_rate,
   snapshot_dir         |-> c.snapshot_dir]

(* What the conversion panics without: a rate that is a std duration, and  *)
(* a configuration that actix_raft's validate accepts.                     *)
Validates(c) ==
  /\ c.metrics_rate >= 0
  /\ c.snapshot_dir \in Directories
  /\ IntoRaft(c).election_timeout_min < IntoRaft(c).election_timeout_max
=============================================================================
