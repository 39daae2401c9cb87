---------------------------- MODULE HostRegistry ----------------------------
(***************************************************************************)
(* HostNetwork implements Registry: what the entries, the sets of the      *)
(* NetworkState and the mailbox of Node reports amount to for a router.    *)
(***************************************************************************)
EXTENDS HostNetwork

EntryOf(id) ==
  IF ~Registered(id) THEN "absent"
  ELSE IF nodes[id].addr = NoAddr THEN "known" ELSE "running"

LinkOf(id) ==
  IF id \in state.isolated THEN "isolated"
  ELSE IF id \in state.connected THEN "connected" ELSE "untracked"

Entries == [id \in NodeIds |-> EntryOf(id)]
Links == [id \in NodeIds |-> LinkOf(id)]

Abstract == INSTANCE Registry WITH
  entry     <- Entries,
  link      <- Links,
  raftKnown <- raft # NoRaft,
  crashed   <- panicked

(* Every step of the host is a step of the abstract registry or changes    *)
(* nothing of it, whatever the orders of requests, reports, retries and    *)
(* replaced Node actors.                                                   *)
ImplementsRegistry ==
  Abstract!RegistryInit /\ [][Abstract!RegistryNext]_(Abstract!registryVars)

(* And it keeps the registry's promise: an isolated node of the registry   *)
(* is not left isolated.                                                   *)
KeepsRegistryPromise == Abstract!RegistryFairness
=============================================================================
