------------------------------ MODULE Registry ------------------------------
(***************************************************************************)
(* What a host's Network promises to those who route by it: which nodes it *)
(* knows and can address, and which it cuts off.  Everything about Node    *)
(* actors, retries, mailboxes and information is hidden.                   *)
(*                                                                         *)
(* An entry is "absent", "known" (registered, no Node actor to address) or *)
(* "running".  A link is "untracked" until a connection is reported for    *)
(* the first time, then "isolated" or "connected"; it survives its entry.  *)
(***************************************************************************)
CONSTANTS NodeIds, Self, Reports

VARIABLES entry, link, raftKnown, metrics, crashed

registryVars == <<entry, link, raftKnown, metrics, crashed>>

RegistryTypeOK ==
  /\ entry \in [NodeIds -> {"absent", "known", "running"}]
  /\ link \in [NodeIds -> {"untracked", "isolated", "connected"}]
  /\ raftKnown \in BOOLEAN
  /\ metrics \in SUBSET Reports
  /\ crashed \in BOOLEAN

RegistryInit ==
  /\ entry \in [NodeIds -> {"absent", "known", "running"}]
  /\ \A id \in NodeIds : entry[id] = "known" <=> id = Self
  /\ link = [id \in NodeIds |-> "untracked"]
  /\ raftKnown = FALSE
  /\ metrics = {}
  /\ crashed = FALSE

Restored(id) ==
  [link EXCEPT ![id] = IF @ = "isolated" THEN "connected" ELSE @]

(* A node is registered, or registered anew: it can be addressed, unless   *)
(* it is the host itself and the Raft actor is not known yet.              *)
Register(id) ==
  /\ ~crashed
  /\ entry' = [entry EXCEPT ![id] =
                 IF id # Self \/ raftKnown THEN "running" ELSE "known"]
  /\ link' = Restored(id)
  /\ UNCHANGED <<raftKnown, metrics, crashed>>

(* Only the entry goes.                                                    *)
Disconnect(id) ==
  /\ ~crashed /\ entry[id] # "absent"
  /\ entry' = [entry EXCEPT ![id] = "absent"]
  /\ UNCHANGED <<link, raftKnown, metrics, crashed>>

(* The Raft actor becomes known, and the host itself can be addressed.     *)
LearnRaftWithoutNode ==
  /\ ~crashed /\ ~raftKnown /\ entry[Self] # "absent"
  /\ raftKnown' = TRUE
  /\ link' = Restored(Self)
  /\ UNCHANGED <<entry, metrics, crashed>>

LearnRaft ==
  /\ ~crashed /\ ~raftKnown /\ entry[Self] # "absent"
  /\ raftKnown' = TRUE
  /\ entry' = [entry EXCEPT ![Self] = "running"]
  /\ link' = Restored(Self)
  /\ UNCHANGED <<metrics, crashed>>

LearnMetrics(m) ==
  /\ ~crashed
  /\ metrics' = {m}
  /\ UNCHANGED <<entry, link, raftKnown, crashed>>

(* Only a node that can be addressed, or is the host itself, is cut off.   *)
Isolate(id) ==
  /\ ~crashed /\ entry[id] # "absent"
  /\ link' = [link EXCEPT ![id] = "isolated"]
  /\ UNCHANGED <<entry, raftKnown, metrics, crashed>>

Restore(id) ==
  /\ ~crashed /\ entry[id] # "absent" /\ link[id] = "isolated"
  /\ link' = Restored(id)
  /\ UNCHANGED <<entry, raftKnown, metrics, crashed>>

(* The Network's thread ends, which takes the host's own entry gone.       *)
Crash ==
  /\ ~crashed /\ entry[Self] = "absent"
  /\ crashed' = TRUE /\ raftKnown' = TRUE
  /\ UNCHANGED <<entry, link, metrics>>

RegistryNext ==
  \/ \E id \in NodeIds :
       Register(id) \/ Disconnect(id) \/ Isolate(id) \/ Restore(id)
  \/ \E m \in Reports : LearnMetrics(m)
  \/ LearnRaft \/ Crash

(* The promise that routing rests on: isolation does not last.             *)
RegistryFairness == \A id \in NodeIds : WF_registryVars(Restore(id))

RegistrySpec ==
  RegistryInit /\ [][RegistryNext]_registryVars /\ RegistryFairness

(* Only the host itself can be registered without a Node actor, and only   *)
(* before RegisterRaft: the registrations and removals of the own entry    *)
(* that race RegisterRaft leave no entry that can never be addressed.      *)
KnownOnlyBeforeRaft ==
  \A id \in NodeIds : entry[id] = "known" => id = Self /\ ~raftKnown
=============================================================================
