---------------------------- MODULE RaftRouting ----------------------------
(***************************************************************************)
(* The RPCs of Raft on their way through a Network: from its own Raft to a *)
(* peer, or from a peer's, received by the HTTP endpoint, to its own       *)
(* (src/src/raft/network.rs).  The Network refuses them or hands them to a *)
(* Node, whose proximity delivers them to the local Raft or to the remote  *)
(* host.  AppendEntries and Vote are checked and handed on in one handler; *)
(* InstallSnapshot is checked in the handler and handed on when its        *)
(* continuation runs, after whatever the registry did in between.          *)
(*                                                                         *)
(* The steps of an RPC: "idle", "checked", a snapshot that passed the      *)
(* check, "sent" to the Node, and the ends.                                *)
(***************************************************************************)
EXTENDS Registry

CONSTANT Slots   \* RPCs that may be under way at once

ASSUME RoutingAssumption == Self \in NodeIds

VARIABLE rpcs   \* the RPC in each slot

routingVars == <<registryVars, rpcs>>

Kinds == {"AppendEntries", "Vote", "InstallSnapshot"}
RpcEnds == {"refused", "answered", "failed", "panicked"}
RpcSteps == {"idle", "checked", "sent"} \cup RpcEnds

(* `source` is the leader_id or candidate_id of the request.               *)
Rpcs ==
  {rpc \in [kind : Kinds, target : NodeIds, source : NodeIds, step : RpcSteps] :
     rpc.step = "checked" => rpc.kind = "InstallSnapshot"}

NoRpc == [kind |-> "Vote", target |-> Self, source |-> Self, step |-> "idle"]

AtStep(c, step) == ~crashed /\ rpcs[c].step = step
GoOn(c, step) == rpcs' = [rpcs EXCEPT ![c].step = step]

RoutingInit == RegistryInit /\ rpcs = [c \in Slots |-> NoRpc]

(***************************************************************************)
(* Handlers of the Network actor.                                          *)
(***************************************************************************)
CutOffUnlessConnected(target, source) ==
  link[target] # "connected" \/ link[source] # "connected"

CutOff(target, source) == link[target] = "isolated" \/ link[source] = "isolated"

(* A slot is free once its RPC has come to an end.                         *)
Arrive(c, kind, target, source, step) ==
  /\ ~crashed /\ rpcs[c].step \in {"idle"} \cup RpcEnds
  /\ rpcs' = [rpcs EXCEPT ![c] =
                [kind |-> kind, target |-> target, source |-> source, step |-> step]]
  /\ UNCHANGED registryVars

HandleRpcCheckFirst(c, kind, target, source) ==
  \/ /\ entry[target] = "running" /\ ~CutOff(target, source)
     /\ Arrive(c, kind, target, source, "checked")
  \/ /\ entry[target] # "running" \/ CutOff(target, source)
     /\ Arrive(c, kind, target, source, "refused")

HandleRpc(c, kind, target, source) ==
  \/ /\ entry[target] = "running" /\ ~CutOff(target, source)
     /\ Arrive(c, kind, target, source, "sent")
  \/ /\ entry[target] # "running" \/ CutOff(target, source)
     /\ Arrive(c, kind, target, source, "refused")

(* ignore_in_isolation only asks for an entry, not for its Node actor.     *)
HandleInstallSnapshot(c, target, source) ==
  \/ /\ entry[target] # "absent" /\ ~CutOff(target, source)
     /\ Arrive(c, "InstallSnapshot", target, source, "checked")
  \/ /\ entry[target] = "absent" \/ CutOff(target, source)
     /\ Arrive(c, "InstallSnapshot", target, source, "refused")

(* The continuation: `get_node(msg.target).unwrap()`.                      *)
SnapshotFindsNode(c) ==
  /\ entry[rpcs[c].target] = "running"
  /\ GoOn(c, "sent")
  /\ UNCHANGED registryVars

SnapshotFindsNone(c) ==
  /\ entry[rpcs[c].target] # "running"
  /\ GoOn(c, "panicked")
  /\ crashed' = TRUE
  /\ UNCHANGED <<entry, link, raftKnown, metrics>>

SendSnapshotOnceFound(c) == AtStep(c, "checked") /\ SnapshotFindsNode(c)

SendSnapshot(c) == AtStep(c, "checked") /\ (SnapshotFindsNode(c) \/ SnapshotFindsNone(c))

(***************************************************************************)
(* The Node: a LocalNode for the host itself, whose Raft answers or whose  *)
(* mailbox is closed, and a RemoteNode for a peer, whose HTTP request      *)
(* succeeds or fails.                                                      *)
(***************************************************************************)
Deliver(c) ==
  /\ AtStep(c, "sent")
  /\ GoOn(c, "answered") \/ GoOn(c, "failed")
  /\ UNCHANGED registryVars

(* The reply of a peer is not the response it should be, such as the empty *)
(* body with which the routes answer a refused RPC.                        *)
ReplyUnreadable(c) ==
  /\ AtStep(c, "sent") /\ rpcs[c].target # Self
  /\ GoOn(c, "panicked")
  /\ crashed' = TRUE
  /\ UNCHANGED <<entry, link, raftKnown, metrics>>

RpcStep(c) == SendSnapshot(c) \/ Deliver(c) \/ ReplyUnreadable(c)

RoutingNext ==
  \/ RegistryNext /\ UNCHANGED rpcs
  \/ \E c \in Slots : RpcStep(c)
  \/ \E c \in Slots, target, source \in NodeIds :
       \/ HandleInstallSnapshot(c, target, source)
       \/ \E kind \in Kinds \ {"InstallSnapshot"} : HandleRpc(c, kind, target, source)

RoutingFairness == RegistryFairness /\ \A c \in Slots : WF_routingVars(RpcStep(c))

RoutingSpec == RoutingInit /\ [][RoutingNext]_routingVars /\ RoutingFairness

(***************************************************************************)
(* Properties.                                                             *)
(***************************************************************************)
(* Type invariant.                                                         *)
RoutingTypeOK == RegistryTypeOK /\ rpcs \in [Slots -> Rpcs]

(* The continuation of a snapshot panics only for a target that was        *)
(* disconnected in between, or for the host itself before RegisterRaft: no *)
(* registration, isolation, replacement of a Node or report in between     *)
(* takes away the Node of a peer that passed the check.                    *)
SnapshotPanicNeedsRemoval ==
  [][\A c \in Slots :
       rpcs[c].step = "checked" /\ rpcs'[c].step = "panicked"
         => \/ entry[rpcs[c].target] = "absent"
            \/ rpcs[c].target = Self /\ ~raftKnown]_routingVars

(* Every RPC comes to an end: Raft always gets its answer or its error.    *)
RpcsEnd ==
  \A c \in Slots :
    rpcs[c].step \in {"checked", "sent"} ~> (rpcs[c].step \in RpcEnds \/ crashed)

Refused(target, source) ==
  \E c \in Slots :
    /\ rpcs'[c].step = "refused" /\ rpcs'[c] # rpcs[c]
    /\ rpcs'[c].target = target /\ rpcs'[c].source = source

(* The RPCs between two nodes are not refused for ever: once both stay     *)
(* registered, the target with its Node, and neither is isolated anew, a   *)
(* moment comes from which on none is refused.  This is what the routes    *)
(* rest on when they take isolation for a passing state.                   *)
RefusalsEnd ==
  \A target, source \in NodeIds :
    /\ <>[](entry[target] = "running" /\ entry[source] # "absent")
    /\ <>[][~Isolate(target) /\ ~Isolate(source)]_routingVars
    => <>[][~Refused(target, source)]_routingVars
=============================================================================
