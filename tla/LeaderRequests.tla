--------------------------- MODULE LeaderRequests ---------------------------
(***************************************************************************)
(* Requests to a Network that turn on who leads the cluster                *)
(* (src/src/network.rs): ConnectNode, which has the leader's Node propose  *)
(* the new member to Raft, and GetCurrentLeader, which asks again while no *)
(* leader is known.  Both run over several polls of the Network actor:     *)
(* between the handler and its continuation the registry and the metrics   *)
(* may change in any way Registry allows.                                  *)
(*                                                                         *)
(* The steps of a request: "idle", not received yet; of a ConnectNode      *)
(* "registered", the handler ran, "delegated", ChangeClusterConfig is sent *)
(* to the Node of the host, and "proposed", that Node handled it; of a     *)
(* GetCurrentLeader "asked", it is in the mailbox, and "waiting", a timer  *)
(* of one second runs.  The others are its ends.                           *)
(***************************************************************************)
EXTENDS Registry, Integers

CONSTANTS
  Requests,   \* requests that may be made, one of each identifier
  Attempts,   \* the attempts a GetCurrentLeader starts with
  NoLeader    \* the leader of a report that names none

ASSUME RequestsAssumption ==
  /\ Self \in NodeIds /\ NoLeader \notin NodeIds
  /\ Attempts \in Nat
  /\ \A m \in Reports : m.leader \in NodeIds \cup {NoLeader}

VARIABLES
  requests,   \* how far each request got, and the attempts it has left
  proposals   \* the configuration changes handed to Raft, per request

leaderVars == <<registryVars, requests, proposals>>

Ends == {"acked", "failed", "answered", "panicked"}
RequestSteps ==
  {"idle", "registered", "delegated", "proposed", "asked", "waiting"} \cup Ends

Idle == [step |-> "idle", attempts |-> Attempts]

At(r, step) == ~crashed /\ requests[r].step = step
Move(r, step) == requests' = [requests EXCEPT ![r].step = step]

LeaderInit ==
  /\ RegistryInit
  /\ requests = [r \in Requests |-> Idle]
  /\ proposals = [r \in Requests |-> "none"]

(* leader_ref: the leader last reported, if it is registered.              *)
Leaders == {m.leader : m \in metrics} \ {NoLeader}
LeaderRefs == {id \in Leaders : entry[id] # "absent"}

(***************************************************************************)
(* ConnectNode.                                                            *)
(***************************************************************************)
(* The handler registers the node, unless its information is the same.     *)
HandleConnectNode(r, id) ==
  /\ At(r, "idle")
  /\ \/ Register(id)
     \/ entry[id] # "absent" /\ UNCHANGED registryVars
  /\ Move(r, "registered")
  /\ UNCHANGED proposals

(* leader_delegate, when the continuation runs, and what ConnectNode makes *)
(* of its result: NoElectedLeader and NotLeader are acknowledged too; the  *)
(* host leading without a Node is the only error.                          *)
DelegationNeedsLeader(r) ==
  \/ LeaderRefs = {} /\ Move(r, "failed")
  \/ LeaderRefs \ {Self} # {} /\ Move(r, "acked")
  \/ Self \in LeaderRefs /\ Move(r, "delegated")

Delegation(r) ==
  \/ LeaderRefs = {} /\ Move(r, "acked")
  \/ LeaderRefs \ {Self} # {} /\ Move(r, "acked")
  \/ Self \in LeaderRefs /\ entry[Self] = "running" /\ Move(r, "delegated")
  \/ Self \in LeaderRefs /\ entry[Self] = "known" /\ Move(r, "failed")

DelegateToLeader(r) ==
  /\ At(r, "registered")
  /\ Delegation(r)
  /\ UNCHANGED <<registryVars, proposals>>

(* The LocalNode spawns the proposal and answers Ok without waiting.       *)
ChangeClusterConfig(r) ==
  /\ At(r, "delegated")
  /\ proposals' = [proposals EXCEPT ![r] = "pending"]
  /\ Move(r, "proposed")
  /\ UNCHANGED registryVars

Acknowledge(r) ==
  /\ At(r, "proposed")
  /\ Move(r, "acked")
  /\ UNCHANGED <<registryVars, proposals>>

(* Raft commits the change or refuses it; the LocalNode only logs which.   *)
RaftAnswers(r) ==
  /\ ~crashed /\ proposals[r] = "pending"
  /\ \E answer \in {"accepted", "rejected"} :
       proposals' = [proposals EXCEPT ![r] = answer]
  /\ UNCHANGED <<registryVars, requests>>

(***************************************************************************)
(* GetCurrentLeader.                                                       *)
(***************************************************************************)
RequestLeader(r) ==
  /\ At(r, "idle")
  /\ Move(r, "asked")
  /\ UNCHANGED <<registryVars, proposals>>

HandleGetCurrentLeader(r) ==
  /\ At(r, "asked")
  /\ Move(r, IF Leaders # {} THEN "answered" ELSE "waiting")
  /\ UNCHANGED <<registryVars, proposals>>

(* The timer went off.  Out of attempts, `retry().unwrap()` panics.        *)
AskAgainForever(r) == Move(r, "asked") /\ UNCHANGED registryVars

AskAgainUnchecked(r) ==
  /\ requests' = [requests EXCEPT ![r].step = "asked", ![r].attempts = @ - 1]
  /\ UNCHANGED registryVars

AskAgain(r) ==
  /\ requests[r].attempts > 0
  /\ requests' = [requests EXCEPT ![r].step = "asked", ![r].attempts = @ - 1]
  /\ UNCHANGED registryVars

OutOfAttempts(r) ==
  /\ requests[r].attempts = 0
  /\ Move(r, "panicked")
  /\ crashed' = TRUE
  /\ UNCHANGED <<entry, link, raftKnown, metrics>>

RetryGetCurrentLeader(r) ==
  /\ At(r, "waiting")
  /\ AskAgain(r) \/ OutOfAttempts(r)
  /\ UNCHANGED proposals

(***************************************************************************)
(* The registry goes on meanwhile.  The arbiter polls every future that is *)
(* ready, and a timer goes off.                                            *)
(***************************************************************************)
RequestStep(r) ==
  \/ DelegateToLeader(r) \/ ChangeClusterConfig(r) \/ Acknowledge(r)
  \/ HandleGetCurrentLeader(r) \/ RetryGetCurrentLeader(r)

LeaderNext ==
  \/ RegistryNext /\ UNCHANGED <<requests, proposals>>
  \/ \E r \in Requests :
       \/ RequestStep(r) \/ RequestLeader(r) \/ RaftAnswers(r)
       \/ \E id \in NodeIds : HandleConnectNode(r, id)

LeaderSpec ==
  /\ LeaderInit /\ [][LeaderNext]_leaderVars
  /\ \A r \in Requests : WF_leaderVars(RequestStep(r))

(***************************************************************************)
(* Properties.                                                             *)
(***************************************************************************)
(* Type invariant.                                                         *)
LeaderTypeOK ==
  /\ RegistryTypeOK
  /\ requests \in [Requests -> [step : RequestSteps, attempts : 0..Attempts]]
  /\ proposals \in [Requests -> {"none", "pending", "accepted", "rejected"}]

(* A ConnectNode is refused only before RegisterRaft: later, whoever leads *)
(* and whatever is registered, removed or reported between the handler and *)
(* its continuation, connecting a node never ends in the error "Local      *)
(* leader node is not started" (network.rs:871).                           *)
ConnectFailsOnlyBeforeRaft ==
  [][\A r \in Requests :
       requests'[r].step = "failed" /\ requests[r].step # "failed" => ~raftKnown]_leaderVars

(* Every request that was received comes to an end, unless the thread of   *)
(* the Network ended: no leader, a leader that changes between two polls   *)
(* and an unanswered proposal never leave a caller waiting.                *)
RequestsEnd ==
  \A r \in Requests :
    requests[r].step # "idle" ~> (requests[r].step \in Ends \/ crashed)

(* The documentation of GetCurrentLeader (network.rs:738-739): "A return   *)
(* value of Ok(None) indicates that the current leader is unknown or the   *)
(* cluster hasn't come to consensus on the leader yet."  As a property: a  *)
(* lookup ends in an answer, never in a panic.                             *)
LookupNeverPanics == \A r \in Requests : requests[r].step # "panicked"
=============================================================================
