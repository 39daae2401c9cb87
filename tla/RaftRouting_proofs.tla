------------------------- MODULE RaftRouting_proofs -------------------------
(***************************************************************************)
(* Proofs about RaftRouting, for every set of hosts and any number of RPCs *)
(* under way.                                                              *)
(***************************************************************************)
EXTENDS RaftRouting, Registry_proofs

RoutingInv == RoutingTypeOK /\ KnownOnlyBeforeRaft

LEMMA RoutingInvInit == RoutingInit => RoutingInv
  BY EntriesInvInit, RoutingAssumption
  DEF RoutingAssumption, RoutingInit, RoutingInv, RoutingTypeOK, EntriesInv, NoRpc, Rpcs, Kinds, RpcSteps

LEMMA RoutingRegistryPart ==
  ASSUME RoutingInv, [RegistryNext]_registryVars
  PROVE  RegistryTypeOK' /\ KnownOnlyBeforeRaft'
  BY EntriesInvStep DEF RoutingInv, RoutingTypeOK, EntriesInv

(* An RPC that goes on to anything but the check stays well typed.         *)
LEMMA GoOnType ==
  ASSUME RoutingTypeOK, NEW c \in Slots, NEW s \in RpcSteps \ {"checked"}, GoOn(c, s)
  PROVE  rpcs' \in [Slots -> Rpcs]
<1>1. rpcs[c] \in Rpcs
  BY DEF RoutingTypeOK
<1>2. [rpcs[c] EXCEPT !.step = s] \in Rpcs
  BY <1>1 DEF Rpcs
<1> QED
  BY <1>2 DEF GoOn, RoutingTypeOK

(* An RPC that arrives is well typed, unless it is checked first and not a *)
(* snapshot.                                                               *)
LEMMA ArriveType ==
  ASSUME RoutingTypeOK, NEW c \in Slots, NEW kind \in Kinds, NEW target \in NodeIds,
         NEW source \in NodeIds, NEW s \in RpcSteps,
         s = "checked" => kind = "InstallSnapshot", Arrive(c, kind, target, source, s)
  PROVE  rpcs' \in [Slots -> Rpcs]
<1>1. [kind |-> kind, target |-> target, source |-> source, step |-> s] \in Rpcs
  BY DEF Rpcs
<1> QED
  BY <1>1 DEF Arrive, RoutingTypeOK

LEMMA RoutingInvStep == RoutingInv /\ [RoutingNext]_routingVars => RoutingInv'
<1> SUFFICES ASSUME RoutingInv, [RoutingNext]_routingVars PROVE RoutingInv'
  OBVIOUS
<1>t. RoutingTypeOK
  BY DEF RoutingInv
<1>s. RpcSteps = {"idle", "checked", "sent", "refused", "answered", "failed", "panicked"}
  BY DEF RpcSteps, RpcEnds
<1>p. ASSUME crashed' = TRUE, UNCHANGED <<entry, link, raftKnown, metrics>>
      PROVE  RegistryTypeOK' /\ KnownOnlyBeforeRaft'
  BY <1>p DEF RoutingInv, RoutingTypeOK, RegistryTypeOK, KnownOnlyBeforeRaft
<1>1. CASE RegistryNext /\ UNCHANGED rpcs
  BY <1>1, <1>t, RoutingRegistryPart DEF RoutingInv, RoutingTypeOK
<1>2. ASSUME NEW c \in Slots, SendSnapshot(c) PROVE RoutingInv'
  <2>1. CASE SnapshotFindsNode(c)
    <3>1. rpcs' \in [Slots -> Rpcs]
      BY <1>t, <1>s, <2>1, GoOnType DEF SnapshotFindsNode
    <3> QED
      BY <2>1, <3>1, RoutingRegistryPart DEF SnapshotFindsNode, RoutingInv, RoutingTypeOK
  <2>2. CASE SnapshotFindsNone(c)
    <3>1. rpcs' \in [Slots -> Rpcs]
      BY <1>t, <1>s, <2>2, GoOnType DEF SnapshotFindsNone
    <3> QED
      BY <1>p, <2>2, <3>1 DEF SnapshotFindsNone, RoutingInv, RoutingTypeOK
  <2> QED BY <1>2, <2>1, <2>2 DEF SendSnapshot
<1>3. ASSUME NEW c \in Slots, Deliver(c) PROVE RoutingInv'
  <2>1. rpcs' \in [Slots -> Rpcs]
    BY <1>t, <1>s, <1>3, GoOnType DEF Deliver
  <2> QED
    BY <1>3, <2>1, RoutingRegistryPart DEF Deliver, RoutingInv, RoutingTypeOK
<1>4. ASSUME NEW c \in Slots, ReplyUnreadable(c) PROVE RoutingInv'
  <2>1. rpcs' \in [Slots -> Rpcs]
    BY <1>t, <1>s, <1>4, GoOnType DEF ReplyUnreadable
  <2> QED
    BY <1>p, <1>4, <2>1 DEF ReplyUnreadable, RoutingInv, RoutingTypeOK
<1>5. ASSUME NEW c \in Slots, NEW target \in NodeIds, NEW source \in NodeIds,
             NEW kind \in Kinds, NEW s \in RpcSteps,
             s = "checked" => kind = "InstallSnapshot", Arrive(c, kind, target, source, s)
      PROVE  RoutingInv'
  <2>1. rpcs' \in [Slots -> Rpcs]
    BY <1>t, <1>5, ArriveType
  <2> QED
    BY <1>5, <2>1, RoutingRegistryPart DEF Arrive, RoutingInv, RoutingTypeOK
<1>6. ASSUME NEW c \in Slots, NEW target \in NodeIds, NEW source \in NodeIds,
             HandleInstallSnapshot(c, target, source)
      PROVE  RoutingInv'
  <2>1. "InstallSnapshot" \in Kinds
    BY DEF Kinds
  <2> QED BY <1>6, <1>5, <1>s, <2>1 DEF HandleInstallSnapshot
<1>7. ASSUME NEW c \in Slots, NEW target \in NodeIds, NEW source \in NodeIds,
             NEW kind \in Kinds, HandleRpc(c, kind, target, source)
      PROVE  RoutingInv'
  BY <1>7, <1>5, <1>s DEF HandleRpc
<1>8. CASE UNCHANGED routingVars
  BY <1>8, <1>t, RoutingRegistryPart DEF routingVars, RoutingInv, RoutingTypeOK
<1> QED
  BY <1>1, <1>2, <1>3, <1>4, <1>6, <1>7, <1>8 DEF RoutingNext, RpcStep

(* The type invariant: only a snapshot ever waits between its check and    *)
(* its way to the Node.                                                    *)
THEOREM RoutingTyping == RoutingSpec => []RoutingTypeOK
<1>1. RoutingInv => RoutingTypeOK
  BY DEF RoutingInv
<1> QED BY <1>1, RoutingInvInit, RoutingInvStep, PTL DEF RoutingSpec

(* A snapshot that passed its check loses its Node only by a removal.      *)
THEOREM SnapshotPanicsOnlyOnRemoval == RoutingSpec => SnapshotPanicNeedsRemoval
<1> DEFINE NeedsRemoval ==
      \A c \in Slots :
        rpcs[c].step = "checked" /\ rpcs'[c].step = "panicked"
          => \/ entry[rpcs[c].target] = "absent"
             \/ rpcs[c].target = Self /\ ~raftKnown
<1>1. RoutingInv /\ [RoutingNext]_routingVars => [NeedsRemoval]_routingVars
  <2> SUFFICES ASSUME RoutingInv, RoutingNext, NEW d \in Slots,
                      rpcs[d].step = "checked", rpcs'[d].step = "panicked"
               PROVE  \/ entry[rpcs[d].target] = "absent"
                      \/ rpcs[d].target = Self /\ ~raftKnown
    BY DEF routingVars
  <2>t. /\ rpcs \in [Slots -> Rpcs] /\ rpcs[d].target \in NodeIds
        /\ entry \in [NodeIds -> {"absent", "known", "running"}]
    BY DEF RoutingInv, RoutingTypeOK, RegistryTypeOK, Rpcs
  <2>g. ASSUME NEW c \in Slots, NEW s, GoOn(c, s) PROVE c = d
    BY <2>g, <2>t DEF GoOn
  <2>1. ASSUME NEW c \in Slots, SendSnapshot(c)
        PROVE  \/ entry[rpcs[d].target] = "absent"
               \/ rpcs[d].target = Self /\ ~raftKnown
    <3>1. CASE SnapshotFindsNode(c)
      BY <2>t, <3>1 DEF SnapshotFindsNode, GoOn
    <3>2. CASE SnapshotFindsNone(c)
      <4>1. c = d /\ entry[rpcs[d].target] # "running"
        BY <2>g, <3>2 DEF SnapshotFindsNone
      <4> QED BY <2>t, <4>1 DEF RoutingInv, KnownOnlyBeforeRaft
    <3> QED BY <2>1, <3>1, <3>2 DEF SendSnapshot
  <2>2. ASSUME NEW c \in Slots, Deliver(c) \/ ReplyUnreadable(c) PROVE FALSE
    BY <2>2, <2>g DEF Deliver, ReplyUnreadable, AtStep
  <2>3. ASSUME NEW c \in Slots, NEW kind, NEW target, NEW source, NEW s,
               Arrive(c, kind, target, source, s)
        PROVE  FALSE
    BY <2>3, <2>t DEF Arrive, RpcEnds
  <2> QED
    BY <2>1, <2>2, <2>3 DEF RoutingNext, RpcStep, HandleInstallSnapshot, HandleRpc
<1> QED
  BY <1>1, RoutingInvInit, RoutingInvStep, PTL DEF RoutingSpec, SnapshotPanicNeedsRemoval
=============================================================================
