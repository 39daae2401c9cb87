----------------------------- MODULE HostNetwork -----------------------------
(***************************************************************************)
(* One host: its Network actor (src/src/network.rs) together with the Node *)
(* actors it starts, one for every registration of a peer or of the host   *)
(* itself (src/src/network/node.rs).  They run on one arbiter, that is one *)
(* thread: a handler is one atomic step, and two of them never overlap.    *)
(* They talk through mailboxes, and what a handler leaves to a future runs *)
(* in a later step.                                                        *)
(*                                                                         *)
(* The registry `nodes` maps an identifier to the information it was       *)
(* registered with and to the address of its Node actor.  Node actors of   *)
(* an identifier are numbered in the order they were started; an address   *)
(* is such a number.                                                       *)
(*                                                                         *)
(* Definitions such as StartNodeKeepingAddr, just before the one they are  *)
(* named after, are slips of that code which the properties must detect.   *)
(***************************************************************************)
EXTENDS NetworkState

CONSTANTS
  NodeIds,     \* identifiers of the hosts of the cluster
  Self,        \* the identifier of this host
  Infos,       \* the NodeInfo values a host can be registered with
  NoInfo,      \* marks an identifier that is not in the registry
  Seeds,       \* what each node is configured with, NoInfo for no seed
  Reports,     \* the RaftMetrics the Raft actor may send
  MaxStarts,   \* bound: Node actors started for one identifier
  MaxRafts,    \* bound: RegisterRaft messages sent to this Network
  MaxPending   \* bound: messages from outside the arbiter in the mailbox

RaftStates == {"NonVoter", "Follower", "Candidate", "Leader"}
NoLeader == 0
NoRaft == 0
NoAddr == 0

ASSUME HostAssumption ==
  /\ NodeIds \subseteq Nat \ {0}
  /\ Self \in NodeIds
  /\ NoInfo \notin Infos
  /\ Seeds \in [NodeIds -> Infos \cup {NoInfo}] /\ Seeds[Self] # NoInfo
  /\ Reports \subseteq [state : RaftStates, leader : NodeIds \cup {NoLeader}]
  /\ MaxStarts \in Nat \ {0} /\ MaxRafts \in Nat /\ MaxPending \in Nat

VARIABLES
  boot,      \* how far RaftSystemBuilder::build got
  rafts,     \* RegisterRaft messages sent so far
  raft,      \* Network.raft: the Raft actor registered last, or NoRaft
  nodes,     \* Network.nodes: the registry
  state,     \* Network.state: see NetworkState
  metrics,   \* Network.metrics: a set of at most one report
  mailbox,   \* messages sent to the Network actor and not yet handled
  updates,   \* UpdateProximity commands on their way to Node actors
  started,   \* Node actors started so far, per identifier
  actors,    \* the Node actors
  panicked   \* whether a handler panicked, which ends the thread

networkVars == <<raft, nodes, state, metrics>>
nodeVars == <<started, actors>>
vars == <<boot, rafts, networkVars, mailbox, updates, nodeVars, panicked>>

Addrs == 1..MaxStarts
NodeRefs == [info : Infos \cup {NoInfo}, addr : Addrs \cup {NoAddr}]
Unregistered == [info |-> NoInfo, addr |-> NoAddr]
Registered(id) == nodes[id].info # NoInfo

(***************************************************************************)
(* Node statuses, and the messages of the Network actor.                   *)
(***************************************************************************)
Plain(kind) == [kind |-> kind, attempts |-> 0]
Failure(n) == [kind |-> "Failure", attempts |-> n]

NodeStatuses ==
  {Plain(k) : k \in {"Initialized", "WeaklyConnected", "Connected", "Disconnected"}}
    \cup {Failure(n) : n \in 1..3}

BindEndpoint == [type |-> "BindEndpoint"]
RegisterRaft(r) == [type |-> "RegisterRaft", raft |-> r]
RaftMetrics(m) == [type |-> "RaftMetrics", metrics |-> m]
ConnectNode(id, info) == [type |-> "ConnectNode", id |-> id, info |-> info]
DisconnectNode(id) == [type |-> "DisconnectNode", id |-> id]
HandleNodeStatusChange(id, status) ==
  [type |-> "HandleNodeStatusChange", id |-> id, status |-> status]

Messages ==
  {BindEndpoint}
    \cup {RegisterRaft(r) : r \in 1..MaxRafts}
    \cup {RaftMetrics(m) : m \in Reports}
    \cup {ConnectNode(id, info) : id \in NodeIds, info \in Infos}
    \cup {DisconnectNode(id) : id \in NodeIds}
    \cup {HandleNodeStatusChange(id, s) : id \in NodeIds, s \in NodeStatuses}

Send(m) == mailbox' = Append(mailbox, m)

(***************************************************************************)
(* Node actors.  The steps of one: "connect", a Connect message waits in   *)
(* its mailbox; "weak", connected, WeaklyConnected reported and the report *)
(* of Connected scheduled; "linked", nothing left to do; "retry", failed,  *)
(* with a timer set; "stopped", nobody holds its address and it has        *)
(* nothing to do.  `proximity` is the Raft actor a LocalNode talks to, and *)
(* NoRaft for a RemoteNode.                                                *)
(***************************************************************************)
Steps == {"unborn", "connect", "weak", "linked", "retry", "stopped"}
NodeActors ==
  [info : Infos \cup {NoInfo}, proximity : 0..MaxRafts, step : Steps]

Unborn == [info |-> NoInfo, proximity |-> NoRaft, step |-> "unborn"]
NewNode(id, info, r) ==
  [info |-> info, proximity |-> IF id = Self THEN r ELSE NoRaft,
   step |-> "connect"]

(* A Node in "weak" is inside one poll of its context: no other actor of   *)
(* the thread runs before it reported Connected.                           *)
ThreadFree == \A id \in NodeIds, a \in Addrs : actors[id][a].step # "weak"

(* The actors of id once the registry dropped the address a.  A Node with  *)
(* a timer or a message pending lives on; an idle one stops, and its       *)
(* `stopping` reports nothing, because `status` is never assigned.         *)
Abandon(id, a) ==
  [b \in Addrs |->
     IF b = a /\ actors[id][b].step = "linked"
       THEN [actors[id][b] EXCEPT !.step = "stopped"]
       ELSE actors[id][b]]

(***************************************************************************)
(* Initial states: Network::new, configure_with and `started`, which       *)
(* registers every configured node.  The Raft actor is not known yet, so   *)
(* the host's own entry gets no Node actor.                                *)
(***************************************************************************)
Init ==
  /\ boot = "starting"
  /\ rafts = 0
  /\ raft = NoRaft
  /\ nodes = [id \in NodeIds |->
                [info |-> Seeds[id],
                 addr |-> IF id = Self \/ Seeds[id] = NoInfo THEN NoAddr ELSE 1]]
  /\ state = DefaultState
  /\ metrics = {}
  /\ mailbox = <<>>
  /\ updates = <<>>
  /\ started = [id \in NodeIds |-> nodes[id].addr]
  /\ actors = [id \in NodeIds |-> [a \in Addrs |->
                 IF a = nodes[id].addr THEN NewNode(id, Seeds[id], NoRaft)
                                       ELSE Unborn]]
  /\ panicked = FALSE

(***************************************************************************)
(* The outside: the builder, the Raft actor, and the HTTP endpoint, which  *)
(* serves requests once it is bound.  The bounds are on what it sends.     *)
(***************************************************************************)
FromOutside(m) == m.type # "HandleNodeStatusChange"

MayStart(id, m) ==
  \/ m.type = "ConnectNode" /\ m.id = id
  \/ m.type = "RegisterRaft" /\ id = Self

CanSend ==
  /\ ~panicked
  /\ Cardinality({i \in DOMAIN mailbox : FromOutside(mailbox[i])}) < MaxPending

(* Keeps a number for the Node actor each registering message may start.   *)
CanStart(id) ==
  started[id] + Cardinality({i \in DOMAIN mailbox : MayStart(id, mailbox[i])})
    + (IF id = Self THEN MaxRafts - rafts ELSE 0) < MaxStarts

SendBindEndpoint ==
  /\ boot = "starting" /\ CanSend
  /\ boot' = "binding"
  /\ Send(BindEndpoint)
  /\ UNCHANGED <<rafts, networkVars, updates, nodeVars, panicked>>

SendRegisterRaft ==
  /\ boot = "bound" /\ rafts < MaxRafts /\ CanSend
  /\ rafts' = rafts + 1
  /\ Send(RegisterRaft(rafts + 1))
  /\ UNCHANGED <<boot, networkVars, updates, nodeVars, panicked>>

SendRaftMetrics(m) ==
  /\ CanSend
  /\ Send(RaftMetrics(m))
  /\ UNCHANGED <<boot, rafts, networkVars, updates, nodeVars, panicked>>

RequestConnect(id, info) ==
  /\ boot = "bound" /\ CanSend /\ CanStart(id)
  /\ Send(ConnectNode(id, info))
  /\ UNCHANGED <<boot, rafts, networkVars, updates, nodeVars, panicked>>

RequestDisconnect(id) ==
  /\ boot = "bound" /\ CanSend
  /\ Send(DisconnectNode(id))
  /\ UNCHANGED <<boot, rafts, networkVars, updates, nodeVars, panicked>>

(***************************************************************************)
(* Network::register_node.  `r` is the Raft actor known when it runs.      *)
(* Whichever way it goes, the node is restored at the end.  Its first case *)
(* (same information, Node actor present: nothing to do) is never taken,   *)
(* because every caller found the information changed or the Node missing. *)
(***************************************************************************)
(* determine_proximity fails for the host itself before RegisterRaft.      *)
HasProximityAlways(id, r) == TRUE
HasProximity(id, r) == id # Self \/ r # NoRaft

StartNodeKeepingAddr(id, info, r) ==
  LET a == started[id] + 1
      old == nodes[id].addr
  IN
  /\ a \in Addrs
  /\ started' = [started EXCEPT ![id] = a]
  /\ nodes' = [nodes EXCEPT ![id] = [info |-> info, addr |-> IF old = NoAddr THEN a ELSE old]]
  /\ actors' = [actors EXCEPT ![id][a] = NewNode(id, info, r)]

StartNode(id, info, r) ==
  LET a == started[id] + 1 IN
  /\ a \in Addrs
  /\ started' = [started EXCEPT ![id] = a]
  /\ nodes' = [nodes EXCEPT ![id] = [info |-> info, addr |-> a]]
  /\ actors' = [actors EXCEPT ![id] =
                  [Abandon(id, nodes[id].addr) EXCEPT ![a] = NewNode(id, info, r)]]

RegisterNode(id, info, r) ==
  /\ state' = RestoreNode(state, id)
  /\ \/ HasProximity(id, r) /\ StartNode(id, info, r)
     \/ /\ ~HasProximity(id, r)
        /\ nodes' = [nodes EXCEPT ![id].info = info]
        /\ UNCHANGED nodeVars

(***************************************************************************)
(* Handlers of the Network actor.  Each takes the head of the mailbox.     *)
(***************************************************************************)
Receive(type) ==
  /\ ~panicked /\ ThreadFree
  /\ mailbox # <<>> /\ Head(mailbox).type = type
  /\ mailbox' = Tail(mailbox)

HandleBindEndpoint ==
  /\ Receive("BindEndpoint")
  /\ boot' \in {"bound", "failed"}
  /\ UNCHANGED <<rafts, networkVars, updates, nodeVars, panicked>>

(* The own entry has a Node actor: a continuation sends it the new Raft.   *)
RegisterRaftUnseenByNode ==
  /\ Registered(Self) /\ nodes[Self].addr # NoAddr
  /\ UNCHANGED <<nodes, state, updates, nodeVars, panicked>>

RegisterRaftInNode ==
  /\ Registered(Self) /\ nodes[Self].addr # NoAddr
  /\ updates' = Append(updates, [addr |-> nodes[Self].addr, raft |-> Head(mailbox).raft])
  /\ UNCHANGED <<nodes, state, nodeVars, panicked>>

(* The usual case: the own entry waits for the Raft actor.                 *)
RegisterRaftAndCreateLocalNode ==
  /\ Registered(Self) /\ nodes[Self].addr = NoAddr
  /\ RegisterNode(Self, nodes[Self].info, Head(mailbox).raft)
  /\ UNCHANGED <<updates, panicked>>

RegisterRaftWithoutOwnEntry ==
  /\ ~Registered(Self)
  /\ panicked' = TRUE
  /\ UNCHANGED <<nodes, state, updates, nodeVars>>

HandleRegisterRaft ==
  /\ Receive("RegisterRaft")
  /\ raft' = Head(mailbox).raft
  /\ \/ RegisterRaftInNode
     \/ RegisterRaftAndCreateLocalNode
     \/ RegisterRaftWithoutOwnEntry
  /\ UNCHANGED <<boot, rafts, metrics>>

(* The status moves first, by the report just received; only then does the *)
(* report replace the previous one.  A transition that is not allowed      *)
(* panics.                                                                 *)
HandleRaftMetrics ==
  /\ Receive("RaftMetrics")
  /\ LET m == Head(mailbox).metrics
         next == StatusOnReport(state.status, m.state)
         legal == next = state.status \/ NextStatusAllowed(state.status, next)
     IN  /\ state' = IF next # state.status /\ legal THEN Advance(state, next) ELSE state
         /\ panicked' = ~legal
         /\ metrics' = IF legal THEN {m} ELSE metrics
  /\ UNCHANGED <<boot, rafts, raft, nodes, updates, nodeVars>>

(* A report about an identifier that is not registered is ignored; Failure *)
(* is only logged.                                                         *)
StateFailureIsolates(id, kind) ==
  CASE ~Registered(id) -> state
    [] Registered(id) /\ kind = "Connected" -> RestoreNode(state, id)
    [] OTHER -> IsolateNode(state, id)

StateOfAnyNode(id, kind) ==
  CASE kind = "Failure" -> state
    [] kind = "Connected" -> RestoreNode(state, id)
    [] OTHER -> IsolateNode(state, id)

StateNeverRestored(id, kind) ==
  IF ~Registered(id) \/ kind \in {"Failure", "Connected"} THEN state ELSE IsolateNode(state, id)

StateOnReport(id, kind) ==
  CASE ~Registered(id) \/ kind = "Failure" -> state
    [] Registered(id) /\ kind = "Connected" -> RestoreNode(state, id)
    [] OTHER -> IsolateNode(state, id)

HandleStatusChange ==
  /\ Receive("HandleNodeStatusChange")
  /\ state' = StateOnReport(Head(mailbox).id, Head(mailbox).status.kind)
  /\ UNCHANGED <<boot, rafts, raft, nodes, metrics, updates, nodeVars, panicked>>

(* handle_connect_remote_node: the same information is no change, even to  *)
(* an entry without a Node actor.                                          *)
HandleConnectNode ==
  /\ Receive("ConnectNode")
  /\ LET id == Head(mailbox).id
         info == Head(mailbox).info
     IN  \/ nodes[id].info = info /\ UNCHANGED <<nodes, state, nodeVars>>
         \/ nodes[id].info # info /\ RegisterNode(id, info, raft)
  /\ UNCHANGED <<boot, rafts, raft, metrics, updates, panicked>>

(* Only the registry forgets the node: `state` keeps it, and its Node      *)
(* actor goes on if it has something to do.                                *)
HandleDisconnectNode ==
  /\ Receive("DisconnectNode")
  /\ LET id == Head(mailbox).id IN
     /\ nodes' = [nodes EXCEPT ![id] = Unregistered]
     /\ actors' = [actors EXCEPT ![id] = Abandon(id, nodes[id].addr)]
  /\ UNCHANGED <<boot, rafts, raft, state, metrics, updates, started, panicked>>

(***************************************************************************)
(* Steps of a Node actor.                                                  *)
(***************************************************************************)
(* Node.status: set by Node::new, and assigned nowhere.                    *)
NodeStatus == Plain("Initialized")

(* The status a failed attempt is given, and what apply_status_change      *)
(* makes of it in its report.                                              *)
AfterFailureFromZero(status) ==
  IF status.kind = "Failure" THEN Failure(status.attempts + 1) ELSE Failure(0)

AfterFailure(status) ==
  IF status.kind = "Failure" THEN Failure(status.attempts + 1) ELSE Failure(1)

Reported(status) ==
  IF status.kind = "Failure" /\ status.attempts > 3 THEN Plain("Disconnected") ELSE status

Report(id, status) == Send(HandleNodeStatusChange(id, Reported(status)))

InStep(id, a, step) == ~panicked /\ actors[id][a].step = step
GoTo(id, a, step) == actors' = [actors EXCEPT ![id][a].step = step]
NodeUnchanged == UNCHANGED <<boot, rafts, networkVars, updates, started, panicked>>

(* Connect: the peer, or the LocalNode, acknowledges.                      *)
ConnectSucceeds(id, a) ==
  /\ InStep(id, a, "connect") /\ ThreadFree
  /\ Report(id, Plain("WeaklyConnected"))
  /\ GoTo(id, a, "weak")
  /\ NodeUnchanged

(* handle_connect_result, in the same poll of the Node.                    *)
ReportConnected(id, a) ==
  /\ InStep(id, a, "weak")
  /\ Report(id, Plain("Connected"))
  /\ GoTo(id, a, IF nodes[id].addr = a THEN "linked" ELSE "stopped")
  /\ NodeUnchanged

(* Connect: the request to the peer fails.  A LocalNode never does.        *)
ConnectFails(id, a) ==
  /\ InStep(id, a, "connect") /\ ThreadFree /\ id # Self
  /\ Report(id, AfterFailure(NodeStatus))
  /\ GoTo(id, a, "retry")
  /\ NodeUnchanged

(* The timer of three seconds sends Connect again.  By then the Network    *)
(* has served the report of the failure (bound on pending Failures).       *)
RetryNever(id, a) == FALSE

RetryConnect(id, a) ==
  /\ InStep(id, a, "retry") /\ ThreadFree
  /\ \A i \in DOMAIN mailbox :
       ~(mailbox[i].type = "HandleNodeStatusChange" /\ mailbox[i].id = id
           /\ mailbox[i].status.kind = "Failure")
  /\ GoTo(id, a, "connect")
  /\ UNCHANGED mailbox /\ NodeUnchanged

(* The continuation of register_raft reached the Node actor.               *)
UpdateProximity ==
  /\ ~panicked /\ ThreadFree /\ updates # <<>>
  /\ actors' = [actors EXCEPT ![Self][Head(updates).addr].proximity = Head(updates).raft]
  /\ updates' = Tail(updates)
  /\ UNCHANGED <<boot, rafts, networkVars, mailbox, started, panicked>>

(***************************************************************************)
(* The next-state relation and the specification.  The arbiter polls every *)
(* actor that has something to do: the Network handles its messages, and a *)
(* Node ends every attempt, one way or the other, and tries again.         *)
(***************************************************************************)
Outside ==
  \/ SendBindEndpoint \/ SendRegisterRaft
  \/ \E m \in Reports : SendRaftMetrics(m)
  \/ \E id \in NodeIds, info \in Infos : RequestConnect(id, info)
  \/ \E id \in NodeIds : RequestDisconnect(id)

NetworkStep ==
  \/ HandleBindEndpoint \/ HandleRegisterRaft \/ HandleRaftMetrics
  \/ HandleStatusChange \/ HandleConnectNode \/ HandleDisconnectNode

NodeStep(id, a) ==
  \/ ConnectSucceeds(id, a) \/ ReportConnected(id, a)
  \/ ConnectFails(id, a) \/ RetryConnect(id, a)

Next ==
  \/ Outside
  \/ NetworkStep
  \/ \E id \in NodeIds, a \in Addrs : NodeStep(id, a)
  \/ UpdateProximity

Fairness ==
  /\ WF_vars(NetworkStep)
  /\ WF_vars(UpdateProximity)
  /\ \A id \in NodeIds, a \in Addrs : WF_vars(NodeStep(id, a))

Spec == Init /\ [][Next]_vars /\ Fairness

(***************************************************************************)
(* Properties.                                                             *)
(***************************************************************************)
(* Type invariant of the Network, its Node actors and what is in flight.   *)
TypeOK ==
  /\ boot \in {"starting", "binding", "bound", "failed"}
  /\ rafts \in 0..MaxRafts /\ raft \in 0..MaxRafts
  /\ nodes \in [NodeIds -> NodeRefs]
  /\ state \in NetworkStates(NodeIds)
  /\ metrics \in SUBSET Reports
  /\ mailbox \in Seq(Messages)
  /\ updates \in Seq([addr : Addrs, raft : 1..MaxRafts])
  /\ started \in [NodeIds -> Addrs \cup {0}]
  /\ actors \in [NodeIds -> [Addrs -> NodeActors]]
  /\ panicked \in BOOLEAN

ConnectedReport(id) == HandleNodeStatusChange(id, Plain("Connected"))

RestoreUnderway(id) ==
  \/ \E i \in DOMAIN mailbox : mailbox[i] = ConnectedReport(id)
  \/ \E a \in Addrs : actors[id][a].step = "weak"

(* A registered node is isolated only for the moment between the two       *)
(* reports of one successful connection: whenever it is isolated, a report *)
(* that restores it is in the mailbox or about to be sent.  Otherwise the  *)
(* RPCs of Raft to that peer would be refused with nobody left to restore  *)
(* it, whatever registrations, disconnections and abandoned Node actors    *)
(* came in between.                                                        *)
IsolationIsTransient ==
  \A id \in NodeIds :
    Registered(id) /\ id \in state.isolated => RestoreUnderway(id)

(* A Node that has nothing left to do left its node connected, or the      *)
(* report that connects it is on its way: no registered node that lost its *)
(* connection, or never had one, is given up, also not if a report came    *)
(* while the node was removed from the registry, or from a replaced Node.  *)
IdleNodeIsConnected ==
  \A id \in NodeIds :
    LET a == nodes[id].addr IN
    a # NoAddr /\ actors[id][a].step = "linked" =>
      id \in state.connected \/ RestoreUnderway(id)

(* The address in the registry is the one of the Node started last for the *)
(* node, that Node is alive, and it was built from the information of the  *)
(* entry: RPCs never go to a replaced Node, nor to a previous address.     *)
AddressIsCurrent ==
  \A id \in NodeIds :
    LET a == nodes[id].addr IN
    a # NoAddr => /\ a = started[id]
                  /\ actors[id][a].step \notin {"unborn", "stopped"}
                  /\ actors[id][a].info = nodes[id].info

(* A registered node has a Node actor, except the host itself before Raft  *)
(* is registered.  This is what allows handle_connect_remote_node to leave *)
(* an entry alone when only its information is unchanged.                  *)
RegisteredHasNode ==
  \A id \in NodeIds :
    Registered(id) => (nodes[id].addr = NoAddr <=> id = Self /\ raft = NoRaft)

(* The Node of the host proposes to the Raft actor registered last, or the *)
(* command that will make it do so is the last one on its way: a change of *)
(* the own entry racing a second RegisterRaft leaves no stale LocalNode.   *)
LocalNodeFollowsRaft ==
  LET a == nodes[Self].addr
      behind == actors[Self][a].proximity # raft
  IN  a # NoAddr /\ behind =>
        updates # <<>> /\ updates[Len(updates)] = [addr |-> a, raft |-> raft]

(* The status and the metrics the host shows agree: it is Joining only     *)
(* before a report of a voting Raft, Up only on one, and Leaving, which it *)
(* never leaves again, only after it was Up.  No report asks for any other *)
(* status, and the timeline is a chain of allowed transitions with exactly *)
(* the last entry open.                                                    *)
StatusFollowsRaft ==
  /\ state.status \in {"Joining", "Up", "Leaving"}
  /\ state.status = "Up" => \E m \in metrics : m.state # "NonVoter"
  /\ state.status = "Joining" => \A m \in metrics : m.state = "NonVoter"
  /\ state.log # <<>> /\ state.log[Len(state.log)].status = state.status
  /\ \A i \in DOMAIN state.log :
       /\ state.log[i].exit = "None" <=> i = Len(state.log)
       /\ i > 1 => NextStatusAllowed(state.log[i - 1].status, state.log[i].status)

(* The only handler that can panic is RegisterRaft, and only when the      *)
(* entry of the host itself was disconnected: no sequence of Raft reports  *)
(* asks for a status transition that is not allowed.                       *)
PanicNeedsOwnEntryGone == panicked => ~Registered(Self)

(* No node is both connected and isolated, and the host knows a link to no *)
(* node for which no Node actor was ever started.                          *)
LinksArePartitioned ==
  /\ state.connected \cap state.isolated = {}
  /\ \A id \in state.connected \cup state.isolated : started[id] # 0

(* A connection, once reported, is given up only to be isolated: no        *)
(* registration, metrics report or failed attempt of an old Node takes a   *)
(* node out of the connected ones.                                         *)
ConnectedOnlyToIsolated ==
  [][state.connected \subseteq state'.connected \cup state'.isolated]_vars

(* If from some time on no attempt to connect to a node fails and it stays *)
(* registered, with a Node actor, the host finds it connected again and    *)
(* again: the retries of a Node, and those of the Nodes it replaced, end   *)
(* in a connection.                                                        *)
RetriesConnect ==
  \A id \in NodeIds :
    /\ <>[][\A a \in Addrs : ~ConnectFails(id, a)]_vars
    /\ <>[](Registered(id) /\ nodes[id].addr # NoAddr)
    => []<>(id \in state.connected \/ panicked)
=============================================================================
